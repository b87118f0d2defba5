------------------------- MODULE LargePrecisionProofs -------------------------
(***************************************************************************)
(* Proof that a bootstrap of EvalSign or EvalDecomp always runs with a key  *)
(* for the base in force, for any number of calls on a fixed base and for a *)
(* single call in dynamic mode, whatever the moduli, messages and errors.   *)
(***************************************************************************)
EXTENDS LargePrecision, TLAPS

Typed ==
    /\ pc \in [Threads -> Labels]
    /\ curBase \in [Threads -> Nat]
    /\ curEK \in [Threads -> Nat]
    /\ baseG \in Nat

dynamic == Cardinality(EKs) = 3

Running(t) == Bootstrapping(t) \/ pc[t] = "restore"

\* With a fixed base every running call saw the base that is still in force and
\* none is at a base change, so that its final Change_BaseG changes nothing.
FixedBaseKept ==
    ~dynamic => \A t \in Threads : /\ pc[t] # "switch"
                                   /\ Running(t) => curBase[t] = baseG

\* KeyMatchesBase alone is not inductive: the restore at the end of one call
\* could change the base under another.  FixedBaseKept excludes that.
IInv == Typed /\ FixedBaseKept /\ KeyMatchesBase

USE DEF Labels, Bootstrapping, Running

\* After a round a call goes on, to the final bootstrap or to the restore.
LEMMA LabelsOfLoop ==
    ASSUME NEW t, NEW log
    PROVE  LoopTest(t, log) \in {"f1", "restore", "f3"}
BY DEF LoopTest

\* DynamicBase asks for a change only when the map has three entries.
LEMMA DynamicOnly ==
    ASSUME NEW log
    PROVE  /\ DynamicBase(log) \in {0, 18, 27}
           /\ ~dynamic => DynamicBase(log) = 0
BY DEF DynamicBase, dynamic

\* No call runs initially.
LEMMA InitInv == Init => IInv
<1> SUFFICES ASSUME Init PROVE IInv
  OBVIOUS
<1>1. baseG \in Nat
  BY Parameters DEF Init
<1> QED
  BY <1>1 DEF Init, IInv, Typed, FixedBaseKept, KeyMatchesBase, MatchedKey

\* Every step of a call preserves the inductive invariant.
LEMMA CallInv ==
    ASSUME IInv, NEW t \in Threads, Call(t)
    PROVE  IInv'
<1> USE DEF IInv, Typed, FixedBaseKept, KeyMatchesBase, MatchedKey, Exclusive, dynamic, Go
<1>1. CASE Enter(t)
  BY <1>1 DEF Enter
<1>2. CASE FloorHalf(t)
  BY <1>2 DEF FloorHalf
<1>3. CASE FloorRest(t)
  <2> DEFINE log == ShrinkMod(logMod[t])
  <2>1. LoopTest(t, log) \in {"f1", "restore", "f3"}
    BY LabelsOfLoop
  <2>2. /\ DynamicBase(log) \in {0, 18, 27}
        /\ ~dynamic => DynamicBase(log) = 0
    BY DynamicOnly
  <2>3. /\ pc' = [pc EXCEPT ![t] = IF DynamicBase(log) # 0 THEN "switch" ELSE LoopTest(t, log)]
        /\ pc[t] = "f2"
        /\ UNCHANGED <<EKs, baseG, curBase, curEK>>
    BY <1>3 DEF FloorRest
  <2> HIDE DEF log
  <2> QED
    BY <2>1, <2>2, <2>3
<1>4. CASE SwitchBase(t)
  <2> DEFINE base == DynamicBase(logMod[t])
  <2>1. LoopTest(t, logMod[t]) \in {"f1", "restore", "f3"}
    BY LabelsOfLoop
  <2>2. base \in {0, 18, 27}
    BY DynamicOnly
  <2>3. /\ pc[t] = "switch" /\ baseG' = base
        /\ IF base \in EKs
           THEN curEK' = [curEK EXCEPT ![t] = base] /\ pc' = [pc EXCEPT ![t] = LoopTest(t, logMod[t])]
           ELSE UNCHANGED curEK /\ pc' = [pc EXCEPT ![t] = "thrown"]
        /\ UNCHANGED <<EKs, curBase>>
    BY <1>4 DEF SwitchBase
  <2>4. dynamic
    BY <2>3
  <2> HIDE DEF base
  <2> QED
    BY <2>1, <2>2, <2>3, <2>4
<1>5. CASE FinalSign(t)
  BY <1>5 DEF FinalSign
<1>6. CASE Restore(t)
  BY <1>6 DEF Restore
<1> QED
  BY <1>1, <1>2, <1>3, <1>4, <1>5, <1>6 DEF Call

\* So does every step of the system.
LEMMA NextInv == IInv /\ [Next]_vars => IInv'
<1> SUFFICES ASSUME IInv, [Next]_vars PROVE IInv'
  OBVIOUS
<1>1. CASE \E t \in Threads : Call(t)
  BY <1>1, CallInv
<1>2. CASE UNCHANGED vars
  BY <1>2 DEF vars, calls, IInv, Typed, FixedBaseKept, KeyMatchesBase, MatchedKey,
              Exclusive, dynamic
<1> QED
  BY <1>1, <1>2 DEF Next, AllEnded

\* EvalFloor, EvalSign and EvalDecomp never bootstrap with a key for another
\* gadget base as long as the calls that share the RingGSW parameters do not
\* change the base, or there is only one call.
THEOREM BootstrapsUseMatchingKey == Spec => []KeyMatchesBase
<1>1. IInv => KeyMatchesBase
  BY DEF IInv
<1> QED
  BY InitInv, NextInv, <1>1, PTL DEF Spec

=============================================================================
