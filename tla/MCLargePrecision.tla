--------------------------- MODULE MCLargePrecision ---------------------------
(***************************************************************************)
(* LargePrecision with the library's own q = 2^12 and beta = 2^7 and moduli *)
(* up to the largest logQ the context accepts, 29.                          *)
(***************************************************************************)
EXTENDS LargePrecision

\* Messages around both ends of the space, the sign boundary, and all-ones and
\* alternating digits; 2^n is the message space.
Messages(n) ==
    LET P == 2 ^ n
    IN  {0, 1, P \div 2 - 1, P \div 2, P - 1, P \div 3, 15, 16} \cap 0 .. P - 1

RequestsFor(logs) ==
    UNION {[op : Ops, log : {log}, message : Messages(log - LogBeta - 1)] : log \in logs}

\* Too small, one round, and moduli on each side of the thresholds 17 and 26.
AllRequests == RequestsFor({12, 13, 16, 17, 21, 22, 26, 29})

\* For several calls at once: fewer messages, both base changes happen.
FewRequests == {r \in RequestsFor({13, 29}) : r.message \in {15, 16, 2 ^ (r.log - 9)}}

\* Time-optimised maps under each base the large-precision overload picks, one
\* key, no entry at all (BTKeyLoad alone), three entries without 2^27.
AllSetups ==
    {[EKs |-> {14, 18, 27}, baseG |-> b] : b \in {14, 18, 27}}
      \cup {[EKs |-> {b}, baseG |-> b] : b \in {5, 14}}
      \cup {[EKs |-> {}, baseG |-> 14], [EKs |-> {9, 14, 18}, baseG |-> 14]}

FixedBase == {[EKs |-> {14}, baseG |-> 14], [EKs |-> {18}, baseG |-> 18]}

DynamicBases == {[EKs |-> {14, 18, 27}, baseG |-> 14]}

\* The largest errors with which one round is still exact: two of them, the
\* input's and the first bootstrap's, fill the beta of slack.
WorstErrors == {-64, 0, 63}
WorstRoundings == {-59, 0, 58}

NoErrors == {0}

=============================================================================
