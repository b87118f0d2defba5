------------------------------ MODULE DigitFloor ------------------------------
(***************************************************************************)
(* What EvalSign and EvalDecomp promise: every call is answered once, with  *)
(* the exact sign or the exact digits of the message, or it throws, which   *)
(* it may only do for a ciphertext too small to need flooring or a key map  *)
(* that lacks a base.                                                       *)
(***************************************************************************)
EXTENDS Integers, Sequences

CONSTANTS Threads, LogQ, LogBeta

VARIABLES
    request,  \* per call: [op, log, message], log the log2 of the modulus
    usable,   \* the key map has an entry for every base the loop will ask for
    answer    \* per call: <<>> while it runs, then Refused or the numbers

Step == LogQ - LogBeta - 1

\* Rounds the loop takes to bring 2^log down to at most 2^LogQ.
Rounds(log) == (log - LogQ + Step - 1) \div Step

\* The message space is 2^log / (2 beta); its upper half is negative.
Negative(log, m) == m >= 2 ^ (log - LogBeta - 2)

Digits(log, m) ==
    [j \in 1 .. Rounds(log) + 1 |->
        LET rest == m \div 2 ^ (Step * (j - 1))
        IN  IF j <= Rounds(log) THEN rest % 2 ^ Step ELSE rest]

\* EvalSign returns an encryption of 0 or 1 modulo 2; for scheme switching it
\* returns -1 (3 modulo 4) for a non-negative message, 1 for a negative one.
Result(r) ==
    CASE r.op = "sign" -> <<IF Negative(r.log, r.message) THEN 1 ELSE 0>>
      [] r.op = "switch" -> <<IF Negative(r.log, r.message) THEN 1 ELSE 3>>
      [] r.op = "decomp" -> Digits(r.log, r.message)

\* The call threw: no digit is negative.
Refused == <<-1>>

Init == answer = [t \in Threads |-> <<>>]

Answer(t) ==
    /\ answer[t] = <<>>
    /\ request[t].log > LogQ
    /\ answer' = [answer EXCEPT ![t] = Result(request[t])]
    /\ UNCHANGED <<request, usable>>

Refuse(t) ==
    /\ answer[t] = <<>>
    /\ request[t].log <= LogQ \/ ~usable
    /\ answer' = [answer EXCEPT ![t] = Refused]
    /\ UNCHANGED <<request, usable>>

Next == \E t \in Threads : Answer(t) \/ Refuse(t)

vars == <<request, usable, answer>>

Spec == Init /\ [][Next]_vars /\ \A t \in Threads : WF_vars(Answer(t) \/ Refuse(t))

=============================================================================
