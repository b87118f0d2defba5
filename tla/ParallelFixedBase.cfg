SPECIFICATION Spec
CONSTANTS
    Threads = {t1, t2}
    LogQ = 12
    LogBeta = 7
    Requests <- FewRequests
    Setups <- FixedBase
    Errors <- NoErrors
    Roundings <- NoErrors
INVARIANTS KeyMatchesBase
PROPERTIES ExactAnswers
