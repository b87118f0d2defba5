---------------------------- MODULE LargePrecision ----------------------------
(***************************************************************************)
(* EvalSign and EvalDecomp (binfhe-base-scheme.cpp:868-1000): the loop that *)
(* floors a large-precision ciphertext digit by digit, in dynamic mode      *)
(* under changing gadget bases, run by one or several threads that share    *)
(* the RingGSW parameters.  EvalSign copies BinFHECryptoParams, but the     *)
(* copy points to the same RingGSWCryptoParams; EvalDecomp does not copy.   *)
(*                                                                          *)
(* A ciphertext is its phase b - <a, s> modulo its modulus.  A bootstrap    *)
(* adds an error from Errors, modulus switching the rounding of the mask    *)
(* from Roundings.  Moduli and gadget bases are powers of two and are kept  *)
(* as their logarithm.                                                      *)
(***************************************************************************)
EXTENDS Integers, Sequences, FiniteSets

CONSTANTS
    Threads,     \* concurrent calls
    LogQ,        \* log2 of LWEParams->Getq()
    LogBeta,     \* log2 of GetBeta()
    Requests,    \* records [op, log, message] a call may be given
    Setups,      \* records [EKs, baseG]: bases in the key map, base in force
    Errors,      \* error of a fresh ciphertext or of a bootstrap
    Roundings    \* error of one modulus switch

Ops == {"sign", "switch", "decomp"}  \* "switch": EvalSign with schemeSwitch

ASSUME Parameters ==
    /\ LogQ \in Nat /\ LogBeta \in Nat /\ LogBeta + 1 < LogQ
    /\ Errors \subseteq Int /\ Roundings \subseteq Int
    /\ Requests \subseteq [op : Ops, log : Nat, message : Nat]
    /\ Setups \subseteq [EKs : SUBSET Nat, baseG : Nat]

q == 2 ^ LogQ
beta == 2 ^ LogBeta
Scale == 2 * beta
Step == LogQ - LogBeta - 1   \* bits of the message cleared by one EvalFloor

VARIABLES
    EKs,      \* bases with an entry in the key map
    baseG,    \* RGSWParams->m_baseG, shared by all calls
    pc,       \* per call: the next bootstrap or Change_BaseG
    request,  \* per call: its arguments
    logMod,   \* per call: log2 of mod
    val,      \* per call: phase of cttmp, of ct1 inside EvalFloor
    curBase,  \* per call: the base in force at entry
    curEK,    \* per call: the base of the key in use
    ret       \* per call: what the ciphertexts to return decrypt to

calls == <<pc, request, logMod, val, curBase, curEK, ret>>
vars == <<EKs, baseG, calls>>

mod(t) == 2 ^ logMod[t]

-----------------------------------------------------------------------------
(* Bootstrapping and modulus switching at the level of phases.             *)

Opposite(x, ctMod) == (x + ctMod \div 2) % ctMod

\* fx is f at the phase, fopp is f at the opposite one.  The test polynomial
\* holds f on half of the circle and X^N = -1 supplies the other half as -fopp;
\* which half the phase falls in depends on b.  With a key for another base the
\* result is unrelated to f: two representatives stand for any value.
BootstrapFunc(t, fx, fopp, fmod) ==
    IF curEK[t] = baseG
    THEN {(y + e) % fmod : y \in {fx, -fopp}, e \in Errors}
    ELSE {0, fmod \div 2}

f1(x) == IF x < q \div 2 THEN -(q \div 4) ELSE q \div 4

\* Mutant: the identity on the whole circle.
f2_NotExtended(x) == x

f2(x) ==
    CASE x < q \div 4 -> -(q \div 2) - x
      [] q \div 4 <= x /\ x < 3 * (q \div 4) -> x
      [] OTHER -> q \div 2 - x

f3(x, ctMod, schemeSwitch) ==
    IF (x < ctMod \div 2) # schemeSwitch THEN q \div 4 ELSE -(q \div 4)

\* mod = (mod << 1) * beta / q.
ShrinkMod(log) == log + 1 + LogBeta - LogQ

\* Mutant: not reduced.
ModSwitch_NoWrap(v, log) ==
    {(v + 2 ^ (Step - 1)) \div 2 ^ Step + e : e \in Roundings}

\* RoundqQ: nearest multiple of q / (2 beta), then modulo the new modulus.
ModSwitch(v, log) ==
    {((v + 2 ^ (Step - 1)) \div 2 ^ Step + e) % 2 ^ log : e \in Roundings}

\* LWEEncryptionScheme::Decrypt by the caller: m and p are powers of two, so
\* its p * r / m is r / (m / p), which does not overflow.
Decrypt(v, m, p) == ((v + m \div (2 * p)) % m) \div (m \div p)

\* Mutant: any key map counts as dynamic.
DynamicBase_AnySize(log) ==
    IF log <= 17 THEN 27 ELSE IF log <= 26 THEN 18 ELSE 0

\* The base the loop changes to, 0 for no change.
DynamicBase(log) ==
    IF Cardinality(EKs) # 3 THEN 0
    ELSE IF log <= 17 THEN 27 ELSE IF log <= 26 THEN 18 ELSE 0

\* Mutant: mod >= q.
LoopTest_OneMore(t, log) ==
    IF log >= LogQ THEN "f1"
    ELSE IF request[t].op = "decomp" THEN "restore" ELSE "f3"

\* Where the loop test leads.
LoopTest(t, log) ==
    IF log > LogQ THEN "f1"
    ELSE IF request[t].op = "decomp" THEN "restore" ELSE "f3"

-----------------------------------------------------------------------------
(* One call.                                                               *)

Go(t, label) == pc' = [pc EXCEPT ![t] = label]

Enter(t) ==
    /\ pc[t] = "enter"
    /\ IF logMod[t] <= LogQ \/ baseG \notin EKs
       THEN Go(t, "thrown") /\ UNCHANGED <<curBase, curEK>>
       ELSE /\ Go(t, "f1")
            /\ curBase' = [curBase EXCEPT ![t] = baseG]
            /\ curEK' = [curEK EXCEPT ![t] = baseG]
    /\ UNCHANGED <<EKs, baseG, request, logMod, val, ret>>

\* Head of the loop body, and EvalFloor up to its first EvalSubEq.
FloorHalf(t) ==
    /\ pc[t] = "f1"
    /\ ret' = IF request[t].op = "decomp"
              THEN [ret EXCEPT ![t] = Append(@, Decrypt(val[t] % q, q, q \div Scale))] ELSE ret
    /\ LET x == (val[t] + beta) % q
       IN  \E ct2 \in BootstrapFunc(t, f1(x), f1(Opposite(x, q)), mod(t)) :
              val' = [val EXCEPT ![t] = (val[t] + beta - ct2) % mod(t)]
    /\ Go(t, "f2")
    /\ UNCHANGED <<EKs, baseG, request, logMod, curBase, curEK>>

\* The rest of EvalFloor, the new modulus and the switch to it.
FloorRest(t) ==
    LET log == ShrinkMod(logMod[t])
        x == val[t] % q
    IN  /\ pc[t] = "f2"
        /\ \E ct3 \in BootstrapFunc(t, f2(x), f2(Opposite(x, q)), mod(t)) :
              \E v \in ModSwitch((val[t] - ct3) % mod(t), log) :
                 val' = [val EXCEPT ![t] = v]
        /\ logMod' = [logMod EXCEPT ![t] = log]
        /\ Go(t, IF DynamicBase(log) # 0 THEN "switch" ELSE LoopTest(t, log))
        /\ UNCHANGED <<EKs, baseG, request, curBase, curEK, ret>>

\* Mutant: curEK is not replaced.
SwitchBase_KeepsKey(t) ==
    /\ pc[t] = "switch"
    /\ baseG' = DynamicBase(logMod[t])
    /\ IF baseG' \in EKs THEN Go(t, LoopTest(t, logMod[t])) ELSE Go(t, "thrown")
    /\ UNCHANGED <<EKs, request, logMod, val, curBase, curEK, ret>>

\* Change_BaseG comes before the search: a missing key leaves it changed.
SwitchBase(t) ==
    LET base == DynamicBase(logMod[t])
    IN  /\ pc[t] = "switch"
        /\ baseG' = base
        /\ IF base \in EKs
           THEN curEK' = [curEK EXCEPT ![t] = base] /\ Go(t, LoopTest(t, logMod[t]))
           ELSE UNCHANGED curEK /\ Go(t, "thrown")
        /\ UNCHANGED <<EKs, request, logMod, val, curBase, ret>>

\* EvalSign's last bootstrap; only the plain variant subtracts q/4.
FinalSign(t) ==
    LET schemeSwitch == request[t].op = "switch"
        f(x) == f3(x, mod(t), schemeSwitch)
        y == (val[t] + beta) % mod(t)
    IN  /\ pc[t] = "f3"
        /\ \E c \in BootstrapFunc(t, f(y), f(Opposite(y, mod(t))), q) :
              val' = [val EXCEPT ![t] = IF schemeSwitch THEN c ELSE (c - q \div 4) % q]
        /\ Go(t, "restore")
        /\ UNCHANGED <<EKs, baseG, request, logMod, curBase, curEK, ret>>

\* What the last ciphertext decrypts to, in the plaintext modulus of its kind.
Returned(t) ==
    CASE request[t].op = "sign" -> Decrypt(val[t], q, 2)
      [] request[t].op = "switch" -> Decrypt(val[t], q, 4)
      [] request[t].op = "decomp" -> Decrypt(val[t], mod(t), mod(t) \div Scale)

\* Mutant: EvalDecomp forgets its Change_BaseG.
Restore_SignOnly(t) ==
    /\ pc[t] = "restore"
    /\ baseG' = IF request[t].op = "decomp" THEN baseG ELSE curBase[t]
    /\ ret' = [ret EXCEPT ![t] = Append(@, Returned(t))]
    /\ Go(t, "done")
    /\ UNCHANGED <<EKs, request, logMod, val, curBase, curEK>>

\* Mutant: back to 2^14 whatever the base was.
Restore_DefaultBase(t) ==
    /\ pc[t] = "restore"
    /\ baseG' = 14
    /\ ret' = [ret EXCEPT ![t] = Append(@, Returned(t))]
    /\ Go(t, "done")
    /\ UNCHANGED <<EKs, request, logMod, val, curBase, curEK>>

Restore(t) ==
    /\ pc[t] = "restore"
    /\ baseG' = curBase[t]
    /\ ret' = [ret EXCEPT ![t] = Append(@, Returned(t))]
    /\ Go(t, "done")
    /\ UNCHANGED <<EKs, request, logMod, val, curBase, curEK>>

Call(t) ==
    \/ Enter(t)
    \/ FloorHalf(t)
    \/ FloorRest(t)
    \/ SwitchBase(t)
    \/ FinalSign(t)
    \/ Restore(t)

Ended(t) == pc[t] \in {"done", "thrown"}

AllEnded == (\A t \in Threads : Ended(t)) /\ UNCHANGED vars

Init ==
    /\ \E s \in Setups : EKs = s.EKs /\ baseG = s.baseG
    /\ request \in [Threads -> Requests]
    /\ pc = [t \in Threads |-> "enter"]
    /\ logMod = [t \in Threads |-> request[t].log]
    /\ \E e \in Errors :
          val = [t \in Threads |-> (Scale * request[t].message + e) % 2 ^ request[t].log]
    /\ curBase = [t \in Threads |-> 0]
    /\ curEK = [t \in Threads |-> 0]
    /\ ret = [t \in Threads |-> <<>>]

Next == (\E t \in Threads : Call(t)) \/ AllEnded

Spec == Init /\ [][Next]_vars /\ \A t \in Threads : WF_vars(Call(t))

-----------------------------------------------------------------------------
(* Properties.                                                             *)

Labels == {"enter", "f1", "f2", "switch", "f3", "restore", "done", "thrown"}

\* Type invariant.  Every phase is reduced modulo the modulus its ciphertext
\* carries: mod until EvalSign's last bootstrap, q after it.
TypeOK ==
    /\ EKs \in SUBSET Nat
    /\ baseG \in Nat
    /\ pc \in [Threads -> Labels]
    /\ request \in [Threads -> Requests]
    /\ logMod \in [Threads -> Nat]
    /\ curBase \in [Threads -> Nat]
    /\ curEK \in [Threads -> Nat]
    /\ \A t \in Threads :
          /\ val[t] \in 0 .. (IF pc[t] \in {"restore", "done"} /\ request[t].op # "decomp"
                              THEN q ELSE mod(t)) - 1
          /\ Len(ret[t]) <= request[t].log

Bootstrapping(t) == pc[t] \in {"f1", "f2", "f3"}

\* Each bootstrap of EvalFloor, EvalSign and EvalDecomp decomposes the
\* accumulator in the base its key was generated for.
MatchedKey == \A t \in Threads : Bootstrapping(t) => curEK[t] = baseG

\* No other call can change the base under a running one: not dynamic, or a
\* single call.
Exclusive == Cardinality(EKs) # 3 \/ \A t, u \in Threads : t = u

\* Under that condition no bootstrap runs with a key for another base, across
\* all the Change_BaseG of the loop and of the final restore.
KeyMatchesBase == Exclusive => MatchedKey

\* The loop never loses message bits: at the loop test the phase, with the
\* beta EvalFloor and the final bootstrap add, lies in the digit that the
\* original message has after the rounds done so far.  Error growth of the two
\* bootstraps and of ModSwitch must stay below beta in every round.
DigitKept ==
    \A t \in Threads :
       \/ pc[t] \in {"enter", "f1", "switch", "f3"}
       \/ pc[t] = "restore" /\ request[t].op = "decomp"
       => ((val[t] + beta) % mod(t)) \div Scale
             = request[t].message \div 2 ^ (request[t].log - logMod[t])

\* Between calls the shared parameters have the base they had before the first
\* one: every path of the loop that returns undoes its Change_BaseG.
BaseRestored ==
    \A s \in Setups :
       baseG = s.baseG =>
          []((\A t \in Threads : pc[t] \in {"enter", "done"}) => baseG = s.baseG)

\* What a caller reads once the call has ended.
Answer(t) ==
    CASE pc[t] = "done" -> ret[t]
      [] pc[t] = "thrown" -> <<-1>>
      [] OTHER -> <<>>

Promise == INSTANCE DigitFloor WITH
    usable <- EKs # {} /\ (Cardinality(EKs) = 3 => {18, 27} \subseteq EKs),
    answer <- [t \in Threads |-> Answer(t)]

\* Every call returns, and what it returns decrypts to the exact sign or the
\* exact digits of the message; it throws only where the code says so.
ExactAnswers == Promise!Spec

=============================================================================
