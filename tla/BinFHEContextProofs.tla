------------------------- MODULE BinFHEContextProofs -------------------------
(***************************************************************************)
(* Proofs about BinFHEContext for every set of secret keys, every set of   *)
(* gadget bases and every number of GenerateBinFHEContext calls.           *)
(***************************************************************************)
EXTENDS BinFHEContext, TLAPS

\* The gadget bases of a keyed map's entries are the bases they are filed under.
Filed(map) == \A b \in Bases : map[b] \in Keys => map[b].base = b

\* Change_BaseG yields gadget parameters whose base is the one asked for.
LEMMA ChangeType ==
    ASSUME NEW g \in Gadgets, NEW b \in Bases
    PROVE  /\ Change_BaseG(g, b) \in Gadgets
           /\ Change_BaseG(g, b).baseG = b
BY DEF Change_BaseG, Gadgets

\* PreCompute yields gadget parameters.
LEMMA PreComputeType ==
    ASSUME NEW b \in Bases, NEW signEval \in BOOLEAN
    PROVE  PreCompute(b, signEval) \in Gadgets
BY DEF PreCompute, Gadgets

\* A key generated under installed parameters is a key for their gadget base.
LEMMA NewKeyType ==
    ASSUME TypeOK, kind # "none", NEW sk \in SecretKeys, NEW k \in Kinds, NEW g \in Gadgets
    PROVE  /\ NewKey(sk, k, g) \in Keys
           /\ NewKey(sk, k, g).base = g.baseG
<1>1. epoch \in 1 .. MaxGenerate
  BY DEF TypeOK
<1>2. g.baseG \in Bases
  BY DEF Gadgets
<1> QED
  BY <1>1, <1>2 DEF NewKey, Keys

\* The timeOptimization loop files every new key under its own base.
LEMMA LoopType ==
    ASSUME TypeOK, kind # "none", NEW sk \in SecretKeys, NEW k \in Kinds,
           NEW map \in KeyMaps, Filed(map)
    PROVE  /\ MapAfterLoop(map, sk, k) \in KeyMaps
           /\ Filed(MapAfterLoop(map, sk, k))
<1>1. gadget \in Gadgets
  BY DEF TypeOK
<1>2. ASSUME NEW b \in Bases
      PROVE  /\ NewKey(sk, k, Change_BaseG(gadget, b)) \in Keys
             /\ NewKey(sk, k, Change_BaseG(gadget, b)).base = b
  BY <1>1, <1>2, ChangeType, NewKeyType
<1>3. MapAfterLoop(map, sk, k) \in KeyMaps
  BY <1>2 DEF MapAfterLoop, KeyMaps
<1>4. Filed(MapAfterLoop(map, sk, k))
  BY <1>2 DEF MapAfterLoop, KeyMaps, Filed
<1> QED
  BY <1>3, <1>4

\* The body shared by BTKeyGen and MKBTKeyGen keeps the map filed by base,
\* and leaves a key or a default key in m_BTKey.
LEMMA KeyGenType ==
    ASSUME TypeOK, kind # "none", NEW sk \in SecretKeys, NEW k \in Kinds,
           NEW map \in KeyMaps, Filed(map)
    PROVE  /\ KeyAfter(map, sk, k) \in Keys \cup {NullKey}
           /\ MapAfter(map, sk, k) \in KeyMaps
           /\ Filed(MapAfter(map, sk, k))
<1> DEFINE m == MapAfterLoop(map, sk, k)
<1>1. gadget \in Gadgets /\ gadget.baseG \in Bases
  BY DEF TypeOK, Gadgets
<1>2. m \in KeyMaps /\ Filed(m)
  BY LoopType
<1>3. NewKey(sk, k, gadget) \in Keys /\ NewKey(sk, k, gadget).base = gadget.baseG
  BY <1>1, NewKeyType
<1>4. /\ KeyAfter(map, sk, k) \in Keys \cup {NullKey}
      /\ KeyAfter(map, sk, k) \in Keys => KeyAfter(map, sk, k).base = gadget.baseG
  <2>1. CASE m = EmptyMap
    BY <2>1, <1>3 DEF KeyAfter
  <2>2. CASE m # EmptyMap /\ m[gadget.baseG] = NoEntry
    BY <2>2, KeysAreNeither DEF KeyAfter
  <2>3. CASE m # EmptyMap /\ m[gadget.baseG] # NoEntry
    BY <2>3, <1>1, <1>2 DEF KeyAfter, KeyMaps, Filed
  <2> QED
    BY <2>1, <2>2, <2>3
<1>5. MapAfter(map, sk, k) \in KeyMaps
  BY <1>1, <1>2, <1>4 DEF MapAfter, KeyMaps
<1>6. Filed(MapAfter(map, sk, k))
  BY <1>1, <1>2, <1>4 DEF MapAfter, KeyMaps, Filed
<1> QED
  BY <1>4, <1>5, <1>6

\* BTKeyGen's loop and its final Change_BaseG leave well-formed parameters
\* with the base the call found.
LEMMA AfterLoopType ==
    ASSUME TypeOK
    PROVE  GadgetAfterLoop \in Gadgets /\ GadgetAfterLoop.baseG = gadget.baseG
<1>1. gadget \in Gadgets /\ gadget.baseG \in Bases
  BY DEF TypeOK, Gadgets
<1>2. CASE LoopBases \subseteq {gadget.baseG}
  BY <1>1, <1>2 DEF GadgetAfterLoop
<1>3. CASE ~(LoopBases \subseteq {gadget.baseG})
  <2> DEFINE other == CHOOSE b \in LoopBases : b # gadget.baseG
  <2>1. other \in LoopBases
    BY <1>3
  <2>2. other \in Bases
    BY <2>1 DEF LoopBases, Domain
  <2>3. Change_BaseG(gadget, other) \in Gadgets
    BY <1>1, <2>2, ChangeType
  <2> QED
    BY <1>1, <1>3, <2>3, ChangeType DEF GadgetAfterLoop
<1> QED
  BY <1>2, <1>3

\* Every state of EvalSign's loop is well formed, and the exception path is
\* the only one that does not end on the base the call found.
LoopStates == [g : Gadgets, key : Keys \cup {NullKey, NoEntry},
               used : SUBSET Keys, status : {"ok", "throw"}]

\* A bootstrap with the current key keeps the loop state well formed.
LEMMA BootstrapType ==
    ASSUME NEW s \in LoopStates, s.status = "ok" => s.key # NoEntry
    PROVE  /\ BootstrapWith(s) \in LoopStates
           /\ BootstrapWith(s).g = s.g
           /\ BootstrapWith(s).key = s.key
BY DEF BootstrapWith, LoopStates

\* Switching to another base keeps the loop state well formed, and a switch
\* that succeeds found an entry.
LEMMA SwitchType ==
    ASSUME TypeOK, NEW s \in LoopStates, NEW b \in Bases,
           s.status = "ok" => s.key # NoEntry
    PROVE  /\ SwitchTo(s, b) \in LoopStates
           /\ SwitchTo(s, b).status = "ok" => SwitchTo(s, b).key # NoEntry
<1>1. s.g \in Gadgets /\ Change_BaseG(s.g, b) \in Gadgets
  BY ChangeType DEF LoopStates
<1>2. BTKey_map[b] \in Keys \cup {NullKey, NoEntry}
  BY DEF TypeOK, KeyMaps
<1> QED
  BY <1>1, <1>2 DEF SwitchTo, Loop, LoopStates

\* EvalSign's loop ends in well-formed gadget parameters having used keys only,
\* and on the base it found if nothing was thrown.
LEMMA SignLoopType ==
    ASSUME TypeOK, BTKey_map[gadget.baseG] # NoEntry,
           NEW via18 \in BOOLEAN, NEW bootstrapLast \in BOOLEAN
    PROVE  /\ SignLoop(via18, bootstrapLast) \in LoopStates
           /\ SignLoop(via18, bootstrapLast).status = "ok"
                => SignLoop(via18, bootstrapLast).g.baseG = gadget.baseG
<1> DEFINE s0 == BootstrapWith(Loop(gadget, BTKey_map[gadget.baseG], {}, "ok"))
           s1 == IF Dynamic /\ via18 THEN BootstrapWith(SwitchTo(s0, 18)) ELSE s0
           s2 == IF Dynamic THEN SwitchTo(s1, 27) ELSE s1
           s3 == IF bootstrapLast THEN BootstrapWith(s2) ELSE s2
           Good(s) == s \in LoopStates /\ (s.status = "ok" => s.key # NoEntry)
<1>1. gadget \in Gadgets /\ gadget.baseG \in Bases /\ 18 \in Bases /\ 27 \in Bases
  BY DEF TypeOK, Gadgets, Bases, SignBases
<1>2. BTKey_map[gadget.baseG] \in Keys \cup {NullKey, NoEntry}
  BY <1>1 DEF TypeOK, KeyMaps
<1>3. Good(Loop(gadget, BTKey_map[gadget.baseG], {}, "ok"))
  BY <1>1, <1>2 DEF Loop, LoopStates
<1>4. ASSUME NEW s, Good(s) PROVE Good(BootstrapWith(s))
  <2>1. BootstrapWith(s).status = "ok" => s.status = "ok"
    BY <1>4 DEF BootstrapWith, LoopStates
  <2> QED
    BY <1>4, <2>1, BootstrapType
<1>5. ASSUME NEW s, Good(s), NEW b \in Bases PROVE Good(SwitchTo(s, b))
  BY <1>5, SwitchType
<1>6. Good(s0)
  BY <1>3, <1>4
<1>7. Good(s1)
  BY <1>1, <1>4, <1>5, <1>6
<1>8. Good(s2)
  BY <1>1, <1>5, <1>7
<1>9. Good(s3)
  BY <1>4, <1>8
<1>10. s3.g \in Gadgets
  BY <1>9 DEF LoopStates
<1>11. /\ Change_BaseG(s3.g, gadget.baseG) \in Gadgets
       /\ Change_BaseG(s3.g, gadget.baseG).baseG = gadget.baseG
  BY <1>1, <1>10, ChangeType
<1>12. SignLoop(via18, bootstrapLast) =
         IF s3.status = "ok" THEN [s3 EXCEPT !.g = Change_BaseG(s3.g, gadget.baseG)] ELSE s3
  BY DEF SignLoop
<1> HIDE DEF s3
<1> QED
  BY <1>9, <1>11, <1>12 DEF LoopStates

-----------------------------------------------------------------------------
(* The inductive invariant.                                                *)

Inv == TypeOK /\ KeyForItsBase

\* KeyForItsBase says that both maps are filed by base.
LEMMA FiledBoth ==
    KeyForItsBase <=> Filed(BTKey_map) /\ Filed(MKBTKey_map)
BY DEF KeyForItsBase, Filed

\* A call that leaves parameters and maps alone and reports a well-formed
\* outcome keeps the invariant.
LEMMA ThrowInv ==
    ASSUME Inv, NEW op \in Calls, Throw(op)
    PROVE  Inv'
BY DEF Inv, TypeOK, KeyForItsBase, Throw, Report, context, btKeys, mkKeys

\* So does one that ends the process.
LEMMA DieInv ==
    ASSUME Inv, NEW op \in Calls, Die(op)
    PROVE  Inv'
BY DEF Inv, TypeOK, KeyForItsBase, Die, Report, context, btKeys, mkKeys

\* An exception after a base change keeps it too, if the parameters it leaves
\* are well formed.
LEMMA ThrowWithInv ==
    ASSUME Inv, NEW op \in Calls, NEW g \in Gadgets, NEW keys \in SUBSET Keys,
           ThrowWith(op, g, keys)
    PROVE  Inv'
<1>1. regular' \in BOOLEAN
  BY Zenon DEF ThrowWith
<1>2. /\ gadget' = g /\ alive' = alive
      /\ last' = [op |-> op, status |-> "throw", arg |-> NullKey, keys |-> keys]
      /\ UNCHANGED <<context, btKeys, mkKeys>>
  BY Zenon DEF ThrowWith, Report
<1>3. TypeOK'
  BY <1>1, <1>2 DEF Inv, TypeOK, context, btKeys, mkKeys
<1>4. KeyForItsBase'
  BY <1>2 DEF Inv, KeyForItsBase, btKeys, mkKeys
<1> QED
  BY <1>3, <1>4 DEF Inv

\* Installing new parameters leaves the held keys where they were.
LEMMA InstallInv ==
    ASSUME Inv, NEW op \in Calls, NEW k \in Kinds, NEW g \in Gadgets,
           NEW method \in Methods, Install(op, k, g, method),
           timeOptimization' \in BOOLEAN
    PROVE  Inv'
<1>1. regular' \in BOOLEAN /\ mkRegular' \in BOOLEAN
  BY Zenon DEF Install
<1>2. acc' \in {"none", "RingGSW", "UniEnc"}
  BY DEF Inv, TypeOK, Install, Methods
<1>3. /\ kind' = k /\ gadget' = g /\ alive' = alive /\ loads' = loads
      /\ epoch < MaxGenerate /\ epoch' = epoch + 1
      /\ UNCHANGED <<btKeys, mkKeys>>
  BY Zenon DEF Install
<1>4. last' \in [op : Calls, status : {"ok", "throw", "died"},
                 arg : SecretKeys \cup {NullKey}, keys : SUBSET Keys]
  BY DEF Install, Report
<1>5. TypeOK'
  BY <1>1, <1>2, <1>3, <1>4, KeyConstants DEF Inv, TypeOK, btKeys, mkKeys
<1>6. KeyForItsBase'
  BY <1>3 DEF Inv, KeyForItsBase, btKeys, mkKeys
<1> QED
  BY <1>5, <1>6 DEF Inv

\* All four overloads of GenerateBinFHEContext, and load, keep the invariant.
LEMMA GenerateInv ==
    ASSUME Inv, Generate
    PROVE  Inv'
<1>0. /\ timeOptimization \in BOOLEAN /\ "Generate" \in Calls /\ "load" \in Calls
      /\ "LWE" \in Kinds /\ "RingGSW" \in Methods
  BY KeyConstants DEF Inv, TypeOK, Calls, Methods
<1>1. ASSUME NEW accepted \in BOOLEAN, NEW b \in Bases, NEW method \in Methods,
             GenerateFull(accepted, b, method)
      PROVE  Inv'
  BY <1>0, <1>1, PreComputeType, ThrowInv, InstallInv DEF GenerateFull
<1>2. ASSUME NEW accepted \in BOOLEAN, NEW b \in Bases, NEW method \in Methods,
             GenerateParams(accepted, b, method)
      PROVE  Inv'
  BY <1>0, <1>2, PreComputeType, ThrowInv, InstallInv DEF GenerateParams
<1>3. ASSUME NEW supported \in BOOLEAN, NEW timeOpt \in BOOLEAN, NEW logQ \in LogQs,
             GenerateLargePrecision(supported, logQ, timeOpt)
      PROVE  Inv'
  <2>1. CASE ~supported \/ logQ > 29 \/ logQ < 11
    BY <1>0, <1>3, <2>1, ThrowInv DEF GenerateLargePrecision
  <2>2. CASE ~(~supported \/ logQ > 29 \/ logQ < 11)
    <3>1. BaseForLogQ(logQ) \in Bases
      BY <1>3, KeyConstants DEF BaseForLogQ, Bases, SignBases
    <3>2. PreCompute(BaseForLogQ(logQ), logQ # 11 /\ timeOpt) \in Gadgets
      BY <3>1, PreComputeType
    <3> QED
      BY <1>0, <1>3, <2>2, <3>2, InstallInv DEF GenerateLargePrecision
  <2> QED
    BY <2>1, <2>2
<1>4. ASSUME NEW known \in BOOLEAN, NEW k \in Kinds, NEW b \in SetBases,
             NEW method \in Methods, GenerateSet(known, k, b, method)
      PROVE  Inv'
  <2>1. PreCompute(b, FALSE) \in Gadgets
    BY PreComputeType DEF Bases
  <2> QED
    BY <1>0, <1>4, <2>1, ThrowInv, InstallInv DEF GenerateSet
<1>5. ASSUME NEW current \in BOOLEAN, NEW k \in Kinds, NEW b \in Bases,
             NEW method \in Methods, load(current, k, b, method)
      PROVE  Inv'
  <2>1. CASE Throw("load") \/ Die("load")
    BY <1>0, <2>1, ThrowInv, DieInv
  <2>2. CASE Install("load", "LWE", PreCompute(b, FALSE), method) /\ UNCHANGED timeOptimization
    BY <1>0, <2>2, PreComputeType, InstallInv
  <2> QED
    BY <1>5, <2>1, <2>2 DEF load
<1> QED
  BY <1>1, <1>2, <1>3, <1>4, <1>5 DEF Generate

\* BTKeyGen keeps the invariant: this is where the maps are filled.
LEMMA BTKeyGenInv ==
    ASSUME Inv, NEW sk \in SecretKeys, NEW valid \in BOOLEAN, BTKeyGen(sk, valid)
    PROVE  Inv'
<1>0. TypeOK /\ "BTKeyGen" \in Calls
  BY DEF Inv, Calls
<1>1. CASE Die("BTKeyGen")
  BY <1>0, <1>1, DieInv
<1>2. ASSUME NEW b \in FirstBase, ThrowWith("BTKeyGen", Change_BaseG(gadget, b), {})
      PROVE  Inv'
  <2>1. b \in Bases /\ gadget \in Gadgets
    BY <1>0 DEF FirstBase, LoopBases, Domain, TypeOK, Gadgets
  <2> QED
    BY <1>0, <1>2, <2>1, ThrowWithInv, ChangeType
<1>3. CASE /\ ~Die("BTKeyGen")
           /\ ~\E b \in FirstBase : ThrowWith("BTKeyGen", Change_BaseG(gadget, b), {})
  <2>1. /\ kind = "LWE"
        /\ BTKey' = KeyAfter(BTKey_map, sk, "LWE")
        /\ BTKey_map' = MapAfter(BTKey_map, sk, "LWE")
        /\ owners' = IF Overwrites(BTKey_map) THEN {sk} ELSE owners \cup {sk}
        /\ gadget' = GadgetAfterLoop
        /\ last' = [op |-> "BTKeyGen", status |-> "ok", arg |-> sk, keys |-> {}]
        /\ UNCHANGED <<context, regular, mkKeys, alive>>
    BY <1>3, Zenon DEF BTKeyGen, Report
  <2>2. Filed(BTKey_map) /\ BTKey_map \in KeyMaps /\ "LWE" \in Kinds
    BY FiledBoth, KeyConstants DEF Inv, TypeOK
  <2>3. /\ BTKey' \in Keys \cup {NullKey}
        /\ BTKey_map' \in KeyMaps
        /\ Filed(BTKey_map')
    BY <1>0, <2>1, <2>2, KeyGenType
  <2>4. gadget' \in Gadgets
    BY <1>0, <2>1, AfterLoopType
  <2>5. owners' \subseteq SecretKeys
    BY <1>0, <2>1 DEF TypeOK
  <2>6. TypeOK'
    BY <1>0, <2>1, <2>3, <2>4, <2>5 DEF TypeOK, context, mkKeys
  <2>7. KeyForItsBase'
    BY <2>1, <2>3 DEF Inv, KeyForItsBase, Filed, mkKeys
  <2> QED
    BY <2>6, <2>7 DEF Inv
<1> QED
  BY <1>1, <1>2, <1>3

\* The multi-key key generation does the same to its own map.
LEMMA MKBTKeyGenInv ==
    ASSUME Inv, NEW sk \in SecretKeys, NEW k \in MKKinds, MKBTKeyGen(sk, k)
    PROVE  Inv'
<1>1. CASE Die("MKBTKeyGen")
  BY <1>1, DieInv DEF Calls
<1>2. CASE ~Die("MKBTKeyGen")
  <2>0. /\ TypeOK /\ Filed(MKBTKey_map) /\ MKBTKey_map \in KeyMaps /\ kind # "none"
        /\ k \in Kinds
    BY <1>2, FiledBoth DEF Inv, TypeOK, MKBTKeyGen, MKKinds
  <2>1. /\ MKBTKey' \in Keys \cup {NullKey}
        /\ MKBTKey_map' \in KeyMaps
        /\ Filed(MKBTKey_map')
    BY <1>2, <2>0, KeyGenType DEF MKBTKeyGen
  <2>2. gadget' \in Gadgets
    BY <1>2, <2>0, AfterLoopType DEF MKBTKeyGen
  <2>3. mkOwners' \subseteq SecretKeys
    BY <1>2, <2>0 DEF MKBTKeyGen, TypeOK
  <2>4. TypeOK'
    BY <1>2, <2>0, <2>1, <2>2, <2>3 DEF MKBTKeyGen, TypeOK, Report, context, btKeys, Calls
  <2>5. KeyForItsBase'
    BY <1>2, <2>1 DEF Inv, KeyForItsBase, Filed, MKBTKeyGen, btKeys
  <2> QED
    BY <2>4, <2>5 DEF Inv
<1> QED
  BY <1>1, <1>2

\* Loading a peer's key, clearing, and encrypting the NAND constant.
LEMMA ManageInv ==
    ASSUME Inv, Manage
    PROVE  Inv'
<1>0. ASSUME NEW b \in Bases, NEW sk \in SecretKeys, kind = "LWE"
      PROVE  Foreign(b, sk) \in Keys /\ Foreign(b, sk).base = b
  <2>1. epoch \in 1 .. MaxGenerate
    BY <1>0 DEF Inv, TypeOK
  <2> QED
    BY <2>1, KeyConstants DEF Foreign, Keys
<1>1. gadget.baseG \in Bases
  BY DEF Inv, TypeOK, Gadgets
<1>2. ASSUME NEW sk \in SecretKeys, BTKeyLoad(sk) PROVE Inv'
  <2>1. Foreign(gadget.baseG, sk) \in Keys
    BY <1>0, <1>1, <1>2 DEF BTKeyLoad
  <2> QED
    BY <1>2, <2>1 DEF Inv, TypeOK, KeyForItsBase, BTKeyLoad, Report, context, mkKeys, Calls
<1>3. ASSUME NEW sk \in SecretKeys, NEW b \in Bases, BTKeyMapLoadSingleElement(b, sk)
      PROVE  Inv'
  <2>1. Foreign(b, sk) \in Keys /\ Foreign(b, sk).base = b
    BY <1>0, <1>3 DEF BTKeyMapLoadSingleElement
  <2>2. BTKey_map' = [BTKey_map EXCEPT ![b] = Foreign(b, sk)]
    BY <1>3 DEF BTKeyMapLoadSingleElement
  <2>3. TypeOK'
    <3>1. BTKey_map' \in KeyMaps
      BY <2>1, <2>2 DEF Inv, TypeOK, KeyMaps
    <3>2. loads' \in 0 .. MaxLoads
      BY <1>3, KeyConstants DEF Inv, TypeOK, BTKeyMapLoadSingleElement
    <3>3. /\ owners' = owners \cup {sk}
          /\ last' = [op |-> "MapLoad", status |-> "ok", arg |-> sk, keys |-> {}]
          /\ UNCHANGED <<kind, acc, timeOptimization, epoch, mkRegular, regular, gadget,
                        BTKey, mkKeys, alive>>
      BY <1>3, Zenon DEF BTKeyMapLoadSingleElement, Report
    <3> QED
      BY <3>1, <3>2, <3>3 DEF Inv, TypeOK, mkKeys, Calls
  <2>4. KeyForItsBase'
    BY <1>3, <2>1, <2>2 DEF Inv, TypeOK, KeyMaps, KeyForItsBase,
                            BTKeyMapLoadSingleElement, mkKeys
  <2> QED
    BY <2>3, <2>4 DEF Inv
<1>4. ASSUME ClearBTKeys PROVE Inv'
  BY <1>4, KeysAreNeither DEF Inv, TypeOK, KeyMaps, KeyForItsBase, ClearBTKeys, EmptyMap,
                              Report, context, mkKeys, Calls
<1>5. ASSUME NEW sk \in SecretKeys, NEW isNAND \in BOOLEAN, ctGateGen(sk, isNAND)
      PROVE  Inv'
  <2>1. CASE Die("ctGateGen") \/ Throw("ctGateGen")
    BY <2>1, DieInv, ThrowInv DEF Calls
  <2>2. CASE ~(Die("ctGateGen") \/ Throw("ctGateGen"))
    <3>1. epoch \in 1 .. MaxGenerate
      BY <1>5, <2>2 DEF Inv, TypeOK, ctGateGen
    <3> QED
      BY <1>5, <2>2, <3>1 DEF Inv, TypeOK, KeyForItsBase, ctGateGen, Report, context,
                              btKeys, Calls
  <2> QED
    BY <2>1, <2>2
<1> QED
  BY <1>2, <1>3, <1>4, <1>5, BTKeyGenInv, MKBTKeyGenInv DEF Manage

\* Evaluations change no key; EvalSign and EvalDecomp may move the gadget base.
LEMMA EvaluateInv ==
    ASSUME Inv, Evaluate
    PROVE  Inv'
<1>1. ASSUME NEW distinct \in BOOLEAN, EvalLWE(distinct) PROVE Inv'
  <2>1. CASE Die("EvalLWE") \/ Throw("EvalLWE")
    BY <2>1, DieInv, ThrowInv DEF Calls
  <2>2. CASE ~(Die("EvalLWE") \/ Throw("EvalLWE"))
    BY <1>1, <2>2 DEF Inv, TypeOK, KeyForItsBase, EvalLWE, Report, context, btKeys,
                      mkKeys, Calls
  <2> QED
    BY <2>1, <2>2
<1>2. ASSUME NEW distinct \in BOOLEAN, NEW k \in MKKinds, EvalMK(k, distinct)
      PROVE  Inv'
  <2>1. CASE Die("EvalMK") \/ Throw("EvalMK")
    BY <2>1, DieInv, ThrowInv DEF Calls
  <2>2. CASE ~(Die("EvalMK") \/ Throw("EvalMK"))
    BY <1>2, <2>2 DEF Inv, TypeOK, KeyForItsBase, EvalMK, Report, context, btKeys,
                      mkKeys, Calls
  <2> QED
    BY <2>1, <2>2
<1>3. ASSUME NEW large \in BOOLEAN, NEW via18 \in BOOLEAN, NEW bootstrapLast \in BOOLEAN,
             EvalSign(large, via18, bootstrapLast)
      PROVE  Inv'
  <2>1. CASE Die("EvalSign") \/ Throw("EvalSign")
    BY <2>1, DieInv, ThrowInv DEF Calls
  <2>2. CASE ~(Die("EvalSign") \/ Throw("EvalSign"))
    <3> DEFINE s == SignLoop(via18, bootstrapLast)
    <3>1. s \in LoopStates
      BY <1>3, <2>2, SignLoopType DEF Inv, EvalSign
    <3>2. s.g \in Gadgets /\ s.used \in SUBSET Keys /\ "EvalSign" \in Calls
      BY <3>1 DEF LoopStates, Calls
    <3>3. \/ ThrowWith("EvalSign", s.g, s.used)
          \/ /\ gadget' = s.g
             /\ Report("EvalSign", "ok", NullKey, s.used)
             /\ UNCHANGED <<context, regular, btKeys, mkKeys, alive>>
      BY <1>3, <2>2, Zenon DEF EvalSign
    <3> HIDE DEF s
    <3>4. CASE ThrowWith("EvalSign", s.g, s.used)
      BY <3>2, <3>4, ThrowWithInv
    <3>5. CASE /\ gadget' = s.g
               /\ Report("EvalSign", "ok", NullKey, s.used)
               /\ UNCHANGED <<context, regular, btKeys, mkKeys, alive>>
      BY <3>2, <3>5 DEF Inv, TypeOK, KeyForItsBase, Report, context, btKeys, mkKeys
    <3> QED
      BY <3>3, <3>4, <3>5
  <2> QED
    BY <2>1, <2>2
<1> QED
  BY <1>1, <1>2, <1>3 DEF Evaluate

\* Type correctness, and every filed key fits the base it is filed under
\* (BTKeyGen, MKBTKeyGen, BTKeyMapLoadSingleElement, EvalSign's base changes
\* and exceptions), for every set of secret keys and bases.
THEOREM KeysFiledByBase == Spec => [](TypeOK /\ KeyForItsBase)
<1>1. Init => Inv
  <2>1. PreCompute(5, FALSE) \in Gadgets
    BY PreComputeType DEF Bases
  <2>2. EmptyMap \in KeyMaps /\ Filed(EmptyMap)
    BY KeysAreNeither DEF KeyMaps, EmptyMap, Filed
  <2>3. ASSUME Init PROVE TypeOK
    <3>1. /\ alive \in BOOLEAN /\ regular \in BOOLEAN /\ timeOptimization \in BOOLEAN
          /\ mkRegular \in BOOLEAN
      BY <2>3, Zenon DEF Init
    <3>2. epoch \in 0 .. MaxGenerate /\ loads \in 0 .. MaxLoads /\ kind = "none" /\ acc = "none"
      BY <2>3, KeyConstants, SMT DEF Init
    <3>3. last \in [op : Calls, status : {"ok", "throw", "died"},
                    arg : SecretKeys \cup {NullKey}, keys : SUBSET Keys]
      <4>1. last = [op |-> "Construct", status |-> "ok", arg |-> NullKey, keys |-> {}]
        BY <2>3, Zenon DEF Init
      <4> QED
        BY <4>1, SMT DEF Calls
    <3>4. /\ gadget = PreCompute(5, FALSE)
          /\ BTKey = NullKey /\ BTKey_map = EmptyMap
          /\ MKBTKey = NullKey /\ MKBTKey_map = EmptyMap
          /\ ctNAND = NullKey /\ owners = {} /\ mkOwners = {}
      BY <2>3, Zenon DEF Init
    <3> QED
      BY <2>1, <2>2, <3>1, <3>2, <3>3, <3>4 DEF TypeOK
  <2>4. ASSUME Init PROVE KeyForItsBase
    BY <2>2, <2>4, FiledBoth, Zenon DEF Init
  <2> QED
    BY <2>3, <2>4 DEF Inv
<1>2. Inv /\ [Next]_vars => Inv'
  <2> SUFFICES ASSUME Inv, [Next]_vars PROVE Inv'
    OBVIOUS
  <2>1. CASE Generate
    BY <2>1, GenerateInv
  <2>2. CASE Manage
    BY <2>2, ManageInv
  <2>3. CASE Evaluate
    BY <2>3, EvaluateInv
  <2>4. CASE UNCHANGED vars
    BY <2>4 DEF Inv, TypeOK, KeyForItsBase, vars
  <2> QED
    BY <2>1, <2>2, <2>3, <2>4 DEF Next
<1> QED
  BY <1>1, <1>2, PTL DEF Spec, Inv

-----------------------------------------------------------------------------
(* The base is restored.                                                   *)

\* EvalSign's loop ends on the base it found, unless it is dynamic and the map
\* has no usable key for 2^18 or 2^27.
LEMMA SignLoopBase ==
    ASSUME TypeOK, BTKey_map[gadget.baseG] # NoEntry,
           NEW via18 \in BOOLEAN, NEW bootstrapLast \in BOOLEAN
    PROVE  LET s == SignLoop(via18, bootstrapLast)
           IN  \/ s.g.baseG = gadget.baseG
               \/ s.status = "throw" /\ Dynamic /\ \E b \in {18, 27} : BTKey_map[b] \notin Keys
<1> DEFINE s0 == BootstrapWith(Loop(gadget, BTKey_map[gadget.baseG], {}, "ok"))
           s1 == IF Dynamic /\ via18 THEN BootstrapWith(SwitchTo(s0, 18)) ELSE s0
           s2 == IF Dynamic THEN SwitchTo(s1, 27) ELSE s1
           s3 == IF bootstrapLast THEN BootstrapWith(s2) ELSE s2
           s == SignLoop(via18, bootstrapLast)
           \* On its way: an exception has not moved the base, and without one
           \* the current key is a key.
           Fine(t) == /\ t \in LoopStates
                      /\ IF t.status = "ok" THEN t.key \in Keys ELSE t.g = gadget
<1>1. gadget \in Gadgets /\ gadget.baseG \in Bases /\ 18 \in Bases /\ 27 \in Bases
  BY DEF TypeOK, Gadgets, Bases, SignBases
<1>2. BTKey_map[gadget.baseG] \in Keys \cup {NullKey}
  BY <1>1 DEF TypeOK, KeyMaps
<1>3. Fine(s0)
  BY <1>1, <1>2, KeysAreNeither DEF BootstrapWith, Loop, LoopStates
<1>4. s = IF s3.status = "ok" THEN [s3 EXCEPT !.g = Change_BaseG(s3.g, gadget.baseG)] ELSE s3
  BY DEF SignLoop
<1>5. ASSUME NEW t, Fine(t) PROVE Fine(BootstrapWith(t))
  BY <1>5, KeysAreNeither DEF BootstrapWith, LoopStates
<1>6. ASSUME NEW t, Fine(t), NEW b \in Bases, BTKey_map[b] \in Keys PROVE Fine(SwitchTo(t, b))
  <2>1. CASE t.status # "ok"
    BY <1>6, <2>1 DEF SwitchTo
  <2>2. CASE t.status = "ok"
    <3>1. t.g \in Gadgets /\ t.used \in SUBSET Keys
      BY <1>6 DEF LoopStates
    <3>2. Change_BaseG(t.g, b) \in Gadgets
      BY <3>1, <1>6, ChangeType
    <3> QED
      BY <1>6, <2>2, <3>1, <3>2, KeysAreNeither DEF SwitchTo, Loop, LoopStates
  <2> QED
    BY <2>1, <2>2
<1>7. ASSUME Fine(s3) PROVE s.g.baseG = gadget.baseG
  <2> HIDE DEF s3, s
  <2>1. s3.g \in Gadgets
    BY <1>7 DEF LoopStates
  <2>2. Change_BaseG(s3.g, gadget.baseG).baseG = gadget.baseG
    BY <1>1, <2>1, ChangeType
  <2> QED
    BY <1>4, <1>7, <2>2 DEF LoopStates
<1>8. CASE ~Dynamic
  <2>1. s2 = s0
    BY <1>8
  <2> HIDE DEF s0, s1, s2, Fine
  <2>2. Fine(s2) /\ Fine(BootstrapWith(s2))
    BY <1>3, <1>5, <2>1
  <2>3. Fine(s3)
    BY <2>2
  <2> QED
    BY <1>7, <2>3
<1>9. CASE BTKey_map[18] \in Keys /\ BTKey_map[27] \in Keys
  <2> HIDE DEF s0, Fine
  <2>1. Fine(BootstrapWith(SwitchTo(s0, 18)))
    BY <1>1, <1>3, <1>5, <1>6, <1>9
  <2>2. Fine(s1)
    BY <1>3, <2>1
  <2> HIDE DEF s1
  <2>3. Fine(SwitchTo(s1, 27))
    BY <1>1, <1>6, <1>9, <2>2
  <2>4. Fine(s2)
    BY <2>2, <2>3
  <2> HIDE DEF s2
  <2>5. Fine(BootstrapWith(s2))
    BY <1>5, <2>4
  <2>6. Fine(s3)
    BY <2>4, <2>5
  <2> QED
    BY <1>7, <2>6
<1>10. /\ s.status \in {"ok", "throw"}
       /\ s.status = "ok" => s.g.baseG = gadget.baseG
  BY SignLoopType DEF LoopStates
<1> QED
  BY <1>8, <1>9, <1>10

\* One step of the system restores the base.
LEMMA StepKeepsBase ==
    ASSUME TypeOK, Next, ~Replaces(last'.op), ~MayLeaveBase
    PROVE  gadget'.baseG = gadget.baseG
<1>1. CASE Generate
  <2>0. /\ \A op : Throw(op) \/ Die(op) => last'.op = op
        /\ \A op, k, g, method : Install(op, k, g, method) => last'.op = op
    BY DEF Install, Throw, Die, Report
  <2>1. last'.op \in {"Generate", "load"}
    BY <1>1, <2>0 DEF Generate, GenerateFull, GenerateParams, GenerateLargePrecision,
                      GenerateSet, load
  <2> QED
    BY <2>1 DEF Replaces
<1>2. ASSUME NEW sk \in SecretKeys, NEW valid \in BOOLEAN, BTKeyGen(sk, valid)
      PROVE  gadget'.baseG = gadget.baseG
  <2>1. CASE gadget' = GadgetAfterLoop
    BY <2>1, AfterLoopType
  <2>2. ASSUME NEW b \in FirstBase, ThrowWith("BTKeyGen", Change_BaseG(gadget, b), {})
        PROVE  gadget'.baseG = gadget.baseG
    <3>1. last'.op = "BTKeyGen" /\ last'.status = "throw"
      BY <2>2 DEF ThrowWith, Report
    <3>2. LoopBases = {}
      BY <3>1 DEF MayLeaveBase
    <3> QED
      BY <2>2, <3>2 DEF FirstBase, ThrowWith, Change_BaseG
  <2>3. CASE Die("BTKeyGen")
    BY <2>3 DEF Die
  <2> QED
    BY <1>2, <2>1, <2>2, <2>3, Zenon DEF BTKeyGen
<1>3. ASSUME NEW sk \in SecretKeys, NEW k \in MKKinds, MKBTKeyGen(sk, k)
      PROVE  gadget'.baseG = gadget.baseG
  BY <1>3, AfterLoopType DEF MKBTKeyGen, Die
<1>4. ASSUME NEW large \in BOOLEAN, NEW via18 \in BOOLEAN, NEW bootstrapLast \in BOOLEAN,
             EvalSign(large, via18, bootstrapLast)
      PROVE  gadget'.baseG = gadget.baseG
  <2>1. CASE Die("EvalSign") \/ Throw("EvalSign")
    BY <2>1 DEF Die, Throw
  <2>2. CASE ~(Die("EvalSign") \/ Throw("EvalSign"))
    <3> DEFINE s == SignLoop(via18, bootstrapLast)
    <3>1. BTKey_map[gadget.baseG] # NoEntry
      BY <1>4, <2>2 DEF EvalSign
    <3>2. \/ s.g.baseG = gadget.baseG
          \/ s.status = "throw" /\ Dynamic /\ \E b \in {18, 27} : BTKey_map[b] \notin Keys
      BY <3>1, SignLoopBase
    <3>3. /\ gadget' = s.g /\ last'.op = "EvalSign"
          /\ s.status = "throw" => last'.status = "throw"
      BY <1>4, <2>2 DEF EvalSign, ThrowWith, Report
    <3> HIDE DEF s
    <3> QED
      BY <3>2, <3>3 DEF MayLeaveBase
  <2> QED
    BY <2>1, <2>2
<1>5. CASE Manage
  BY <1>2, <1>3, <1>5 DEF Manage, BTKeyLoad, BTKeyMapLoadSingleElement, ClearBTKeys,
                          ctGateGen, Throw, Die
<1>6. CASE Evaluate
  BY <1>4, <1>6 DEF Evaluate, EvalLWE, EvalMK, Throw, Die
<1> QED
  BY <1>1, <1>5, <1>6 DEF Next

\* BTKeyGen and EvalSign put the gadget base back, for every set of secret keys
\* and bases, every number of loaded elements and every earlier exception,
\* unless the call itself ends in one of the exceptions of MayLeaveBase.
THEOREM BasePutBack == Spec => BaseRestored
<1>1. TypeOK /\ [Next]_vars =>
        [~Replaces(last'.op) /\ ~MayLeaveBase => gadget'.baseG = gadget.baseG]_vars
  BY StepKeepsBase
<1> QED
  BY <1>1, KeysFiledByBase, PTL DEF Spec, BaseRestored

=============================================================================
