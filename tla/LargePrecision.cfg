SPECIFICATION Spec
CONSTANTS
    Threads = {t1}
    LogQ = 12
    LogBeta = 7
    Requests <- AllRequests
    Setups <- AllSetups
    Errors <- WorstErrors
    Roundings <- WorstRoundings
INVARIANTS TypeOK KeyMatchesBase DigitKept
PROPERTIES BaseRestored ExactAnswers
