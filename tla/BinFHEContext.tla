---------------------------- MODULE BinFHEContext ----------------------------
(***************************************************************************)
(* The life of one BinFHEContext object: which parameters it holds, which  *)
(* bootstrapping keys it has, and with which of them an evaluation runs.   *)
(*                                                                         *)
(* The state is the object's private fields (binfhecontext.h:60-88) that   *)
(* outlive a call, plus the gadget fields of the RingGSW / UniEnc          *)
(* parameters and the accumulator of the BinFHEScheme it points to,        *)
(* because Change_BaseG mutates the former behind the context's back and   *)
(* an invalid method leaves the latter behind.  Polynomials and noise are  *)
(* abstracted away: a bootstrapping key is the secret key it was made      *)
(* from, the gadget base and scheme it was made for, the parameters in     *)
(* force at the time, and whether the gadget powers it was built from were *)
(* really there.                                                           *)
(*                                                                         *)
(* Gadget bases are written as their base-2 logarithm (2^14 is 14).        *)
(***************************************************************************)
EXTENDS Naturals, FiniteSets

CONSTANTS
    SecretKeys,   \* private keys a caller may hold
    Kinds,        \* schemes the parameters may describe
    SetBases,     \* gadget bases of the predefined parameter sets
    LogQs,        \* values of logQ passed to the large-precision overload
    MaxGenerate,  \* bound: how often m_params is replaced
    MaxLoads,     \* bound: how many map elements are loaded
    NullKey,      \* a default-constructed bootstrapping key, {0}
    NoEntry       \* "this base is not a key of the std::map"

ASSUME KeyConstants ==
    /\ NullKey # NoEntry
    /\ "LWE" \in Kinds /\ Kinds \subseteq {"LWE", "MNTRU", "MKLWE"}
    /\ SetBases \subseteq Nat
    /\ LogQs \subseteq Nat
    /\ MaxGenerate \in Nat /\ MaxLoads \in Nat

SignBases == {14, 18, 27}

Bases == SetBases \cup SignBases \cup {5}

MKKinds == Kinds \ {"LWE"}

\* What BinFHEScheme's constructor makes of a BINFHE_METHOD: a RingGSW
\* accumulator (AP, GINX, LMKCDEY), a UniEnc one (MKNTRU, MKNTRU_B,
\* MKNTRU_LWE), or the exception "method is invalid".
Methods == {"RingGSW", "UniEnc", "invalid"}

\* What a generated bootstrapping key remembers of its making.
Keys == [sk : SecretKeys, base : Bases, kind : Kinds,
         epoch : 1 .. MaxGenerate, filled : BOOLEAN]

ASSUME KeysAreNeither == NullKey \notin Keys /\ NoEntry \notin Keys

KeyMaps == [Bases -> Keys \cup {NullKey, NoEntry}]

EmptyMap == [b \in Bases |-> NoEntry]

\* m_baseG, whether m_Gpower holds the powers of a base, and m_Gpower_map.
Gadgets == [baseG : Bases, Gpower : {"empty", "filled"},
            Gpower_map : [Bases -> {"absent", "empty", "filled"}]]

Calls == {"Construct", "Generate", "load", "BTKeyGen", "MKBTKeyGen", "BTKeyLoad",
          "MapLoad", "ClearBTKeys", "ctGateGen", "EvalLWE", "EvalSign", "EvalMK"}

VARIABLES
    kind,              \* which scheme m_params describes, "none" before Generate
    acc,               \* the accumulator of m_binfhescheme, "none" if that is null
    gadget,            \* the gadget fields of the parameters m_params points to
    timeOptimization,  \* m_timeOptimization
    BTKey,             \* m_BTKey
    BTKey_map,         \* m_BTKey_map
    MKBTKey,           \* m_MKBTKey
    MKBTKey_map,       \* m_MKBTKey_map
    ctNAND,            \* m_ctNAND: the key it is encrypted under, or NullKey
    alive,             \* FALSE once the process died of a null dereference
    epoch,             \* history: how many times m_params was replaced
    owners,            \* history: secret keys behind the entries of BTKey and BTKey_map
    mkOwners,          \* history: secret keys passed to MKBTKeyGen
    regular,           \* history: m_params was installed while no RingGSW key was
                       \* held, and no exception has moved its base since
    mkRegular,         \* history: m_params was installed while no multi-key
                       \* bootstrapping key and no m_ctNAND was held
    loads,             \* history: how many map elements were loaded
    last               \* the last call: its name, outcome, argument and keys used

vars == <<kind, acc, gadget, timeOptimization, BTKey, BTKey_map, MKBTKey, MKBTKey_map,
          ctNAND, alive, epoch, owners, mkOwners, regular, mkRegular, loads, last>>

btKeys == <<BTKey, BTKey_map, owners>>
mkKeys == <<MKBTKey, MKBTKey_map, ctNAND, mkOwners>>
context == <<kind, acc, timeOptimization, epoch, mkRegular, loads>>

\* A call is made by a live process, and leaves a record of its outcome.
Report(op, status, arg, keys) ==
    /\ alive
    /\ last' = [op |-> op, status |-> status, arg |-> arg, keys |-> keys]

\* An exception leaves the call before it changed the object.
Throw(op) ==
    /\ Report(op, "throw", NullKey, {})
    /\ UNCHANGED <<context, regular, gadget, btKeys, mkKeys, alive>>

\* A null shared_ptr is dereferenced: the process ends.
Die(op) ==
    /\ alive' = FALSE
    /\ Report(op, "died", NullKey, {})
    /\ UNCHANGED <<context, regular, gadget, btKeys, mkKeys>>

\* An exception leaves the call after Change_BaseG: the base may have moved.
ThrowWith(op, g, keys) ==
    /\ gadget' = g
    /\ regular' = (regular /\ g.baseG = gadget.baseG)
    /\ Report(op, "throw", NullKey, keys)
    /\ UNCHANGED <<context, btKeys, mkKeys, alive>>

-----------------------------------------------------------------------------
(* Gadget parameters.                                                      *)

Domain(gmap) == {b \in Bases : gmap[b] # "absent"}

\* PreCompute: with signEval it tabulates exactly the three sign bases and
\* fills m_Gpower only if baseG is one of them.
PreCompute(b, signEval) ==
    [baseG |-> b,
     Gpower |-> IF signEval /\ b \notin SignBases THEN "empty" ELSE "filled",
     Gpower_map |-> [c \in Bases |-> IF signEval /\ c \in SignBases
                                     THEN "filled" ELSE "absent"]]

\* Mutant: m_Gpower is reloaded even if the base does not change.
Change_BaseG_Always(g, b) ==
    [baseG |-> b,
     Gpower |-> IF g.Gpower_map[b] = "filled" THEN "filled" ELSE "empty",
     Gpower_map |-> [g.Gpower_map EXCEPT ![b] = IF @ = "absent" THEN "empty" ELSE @]]

\* Change_BaseG: m_Gpower_map[b] inserts an empty vector for an unknown base.
Change_BaseG(g, b) ==
    IF g.baseG = b THEN g
    ELSE [baseG |-> b,
          Gpower |-> IF g.Gpower_map[b] = "filled" THEN "filled" ELSE "empty",
          Gpower_map |-> [g.Gpower_map EXCEPT ![b] = IF @ = "absent" THEN "empty" ELSE @]]

\* baseG chosen from logQ by the large-precision overload.
BaseForLogQ(logQ) ==
    CASE logQ > 25 -> 14
      [] logQ > 16 /\ logQ <= 25 -> 18
      [] logQ > 11 /\ logQ <= 16 -> 27
      [] OTHER -> 5

-----------------------------------------------------------------------------
(* The four overloads of GenerateBinFHEContext, and load.                  *)

\* m_params is replaced first; then BinFHEScheme's constructor either makes a
\* new accumulator or throws, and the old m_binfhescheme stays.
Install(op, k, g, method) ==
    /\ epoch < MaxGenerate
    /\ kind' = k
    /\ gadget' = g
    /\ epoch' = epoch + 1
    /\ acc' = IF method = "invalid" THEN acc ELSE method
    /\ regular' = (BTKey = NullKey /\ BTKey_map = EmptyMap)
    /\ mkRegular' = (MKBTKey = NullKey /\ MKBTKey_map = EmptyMap /\ ctNAND = NullKey)
    /\ Report(op, IF method = "invalid" THEN "throw" ELSE "ok", NullKey, {})
    /\ UNCHANGED <<btKeys, mkKeys, alive, loads>>

\* (n, N, q, Q, ...): signEval is always true, whatever the base.  accepted:
\* the constructors of the parameters take the arguments.
GenerateFull(accepted, b, method) ==
    IF ~accepted
    THEN Throw("Generate")
    ELSE /\ Install("Generate", "LWE", PreCompute(b, TRUE), method)
         /\ UNCHANGED timeOptimization

\* (set, arbFunc, logQ, N, method, timeOptimization).  supported: the method
\* is GINX and the set STD128 or TOY.
GenerateLargePrecision(supported, logQ, timeOpt) ==
    IF ~supported \/ logQ > 29 \/ logQ < 11
    THEN Throw("Generate")
    ELSE /\ Install("Generate", "LWE", PreCompute(BaseForLogQ(logQ), logQ # 11 /\ timeOpt),
                    "RingGSW")
         /\ timeOptimization' = timeOpt

\* (set, method): a multi-key method selects its scheme, any other LWE.
GenerateSet(known, k, b, method) ==
    IF ~known
    THEN Throw("Generate")
    ELSE /\ (k = "LWE") = (method # "UniEnc")
         /\ Install("Generate", k, PreCompute(b, FALSE), method)
         /\ UNCHANGED timeOptimization

\* (BinFHEContextParams, method): always LWE with RingGSW parameters.
GenerateParams(accepted, b, method) ==
    IF ~accepted
    THEN Throw("Generate")
    ELSE /\ Install("Generate", "LWE", PreCompute(b, FALSE), method)
         /\ UNCHANGED timeOptimization

\* load: signEval and m_timeOptimization are not in the archive.  Without
\* RingGSW parameters the method is read through a null pointer; with them the
\* last statement reads one, and what it reads is not used, so that the
\* process may end or go on.
load(current, k, b, method) ==
    IF ~current THEN Throw("load")
    ELSE \/ /\ k = "LWE"
            /\ Install("load", "LWE", PreCompute(b, FALSE), method)
            /\ UNCHANGED timeOptimization
         \/ /\ k # "LWE" \/ method # "invalid"
            /\ Die("load")

-----------------------------------------------------------------------------
(* Key generation.  BTKeyGen and both MKBTKeyGen share one body.           *)

NewKey(sk, k, g) ==
    [sk |-> sk, base |-> g.baseG, kind |-> k, epoch |-> epoch,
     filled |-> (g.Gpower = "filled")]

\* The bases the timeOptimization loop visits.
LoopBases == IF timeOptimization THEN Domain(gadget.Gpower_map) ELSE {}

\* Mutant: the loop forgets Change_BaseG before it generates a key.
MapAfterLoop_NoChange(map, sk, k) ==
    [b \in Bases |-> IF b \in LoopBases THEN NewKey(sk, k, gadget) ELSE map[b]]

\* The map after the loop, before the size() test.
MapAfterLoop(map, sk, k) ==
    [b \in Bases |-> IF b \in LoopBases
                     THEN NewKey(sk, k, Change_BaseG(gadget, b)) ELSE map[b]]

\* Mutant: map.find(temp)->second without the default-constructed entry.
KeyAfter_NoDefault(map, sk, k) ==
    LET m == MapAfterLoop(map, sk, k)
    IN IF m = EmptyMap THEN NewKey(sk, k, gadget) ELSE m[gadget.baseG]

\* m_BTKey after the call: map[temp] if the map is not empty (operator[]
\* default-constructs a missing entry), a new key otherwise.
KeyAfter(map, sk, k) ==
    LET m == MapAfterLoop(map, sk, k)
    IN IF m = EmptyMap THEN NewKey(sk, k, gadget)
       ELSE IF m[gadget.baseG] = NoEntry THEN NullKey ELSE m[gadget.baseG]

MapAfter(map, sk, k) ==
    [MapAfterLoop(map, sk, k) EXCEPT ![gadget.baseG] = KeyAfter(map, sk, k)]

\* Change_BaseG over the loop's bases, then back to the caller's: m_Gpower is
\* reloaded from m_Gpower_map if the loop ever left the caller's base.
GadgetAfterLoop ==
    IF LoopBases \subseteq {gadget.baseG} THEN gadget
    ELSE LET other == CHOOSE b \in LoopBases : b # gadget.baseG
         IN Change_BaseG(Change_BaseG(gadget, other), gadget.baseG)

\* Some key of this call is built from m_Gpower[i] of an empty vector.
ReadsEmptyGpower(map, sk, k) ==
    \/ \E b \in LoopBases : ~MapAfterLoop(map, sk, k)[b].filled
    \/ MapAfterLoop(map, sk, k) = EmptyMap /\ gadget.Gpower = "empty"

\* Every earlier entry is overwritten: the old owners are gone.
Overwrites(map) ==
    \A b \in Bases : map[b] # NoEntry => b \in LoopBases

\* BinFHEScheme::KeyGen runs: in the loop, or because the map is empty.
Generates(map) == LoopBases # {} \/ map = EmptyMap

\* The base in force when the first KeyGen of the call runs: the loop goes
\* through the std::map in the order of its keys.
FirstBase ==
    IF LoopBases = {} THEN {gadget.baseG}
    ELSE {b \in LoopBases : \A c \in LoopBases : b <= c}

\* valid: keygenMode is SYM_ENCRYPT or PUB_ENCRYPT.  KeyGen checks it before
\* it uses the accumulator, and m_BTKey_map[base] is assigned after it returns.
BTKeyGen(sk, valid) ==
    \/ /\ kind = "LWE"
       /\ ~Generates(BTKey_map) \/ (valid /\ acc = "RingGSW")
       /\ BTKey' = KeyAfter(BTKey_map, sk, "LWE")
       /\ BTKey_map' = MapAfter(BTKey_map, sk, "LWE")
       /\ owners' = IF Overwrites(BTKey_map) THEN {sk} ELSE owners \cup {sk}
       /\ gadget' = GadgetAfterLoop
       /\ Report("BTKeyGen", "ok", sk, {})
       /\ UNCHANGED <<context, regular, mkKeys, alive>>
    \/ /\ kind = "LWE" /\ Generates(BTKey_map) /\ ~valid
       /\ \E b \in FirstBase : ThrowWith("BTKeyGen", Change_BaseG(gadget, b), {})
    \/ /\ \/ kind # "LWE"
          \/ Generates(BTKey_map) /\ valid /\ acc # "RingGSW"
          \/ valid /\ ReadsEmptyGpower(BTKey_map, sk, "LWE")
       /\ Die("BTKeyGen")

\* k is the scheme of the overload.  MKKeyGen, which dereferences the
\* parameters of that scheme, only runs if the map is empty.
MKBTKeyGen(sk, k) ==
    IF \/ kind \notin {"MNTRU", "MKLWE"}
       \/ kind # k /\ MapAfterLoop(MKBTKey_map, sk, k) = EmptyMap
    THEN Die("MKBTKeyGen")
    ELSE /\ MKBTKey' = KeyAfter(MKBTKey_map, sk, k)
         /\ MKBTKey_map' = MapAfter(MKBTKey_map, sk, k)
         /\ mkOwners' = mkOwners \cup {sk}
         /\ gadget' = GadgetAfterLoop
         /\ Report("MKBTKeyGen", "ok", sk, {})
         /\ UNCHANGED <<context, regular, btKeys, ctNAND, alive>>

-----------------------------------------------------------------------------
(* Loading, clearing, and the encrypted NAND constant.                     *)

\* A key a peer made for base b under the same parameters and serialized.
Foreign(b, sk) ==
    [sk |-> sk, base |-> b, kind |-> "LWE", epoch |-> epoch, filled |-> TRUE]

BTKeyLoad(sk) ==
    /\ kind = "LWE"
    /\ BTKey' = Foreign(gadget.baseG, sk)
    /\ owners' = owners \cup {sk}
    /\ Report("BTKeyLoad", "ok", sk, {})
    /\ UNCHANGED <<context, regular, gadget, BTKey_map, mkKeys, alive>>

\* Any base may be loaded; as documented, it is the "baseG corresponding to the
\* given key", which the code does not check.
BTKeyMapLoadSingleElement(b, sk) ==
    /\ kind = "LWE"
    /\ loads < MaxLoads /\ loads' = loads + 1
    /\ BTKey_map' = [BTKey_map EXCEPT ![b] = Foreign(b, sk)]
    /\ owners' = owners \cup {sk}
    /\ Report("MapLoad", "ok", sk, {})
    /\ UNCHANGED <<kind, acc, timeOptimization, epoch, mkRegular, regular, gadget, BTKey,
                   mkKeys, alive>>

\* Mutant: only m_BTKey is reset, m_BTKey_map keeps its entries.
ClearBTKeys_KeepsMap ==
    /\ BTKey' = NullKey
    /\ owners' = {}
    /\ Report("ClearBTKeys", "ok", NullKey, {})
    /\ UNCHANGED <<context, regular, gadget, BTKey_map, mkKeys, alive>>

ClearBTKeys ==
    /\ BTKey' = NullKey
    /\ BTKey_map' = EmptyMap
    /\ owners' = {}
    /\ Report("ClearBTKeys", "ok", NullKey, {})
    /\ UNCHANGED <<context, regular, gadget, mkKeys, alive>>

ctGateGen(sk, isNAND) ==
    IF kind = "none" THEN Die("ctGateGen")
    ELSE IF ~isNAND THEN Throw("ctGateGen")
    ELSE IF kind # "MNTRU" THEN Die("ctGateGen")
    ELSE /\ ctNAND' = [sk |-> sk, epoch |-> epoch]
         /\ mkOwners' = mkOwners \cup {sk}
         /\ Report("ctGateGen", "ok", sk, {})
         /\ UNCHANGED <<context, regular, gadget, btKeys, MKBTKey, MKBTKey_map, alive>>

-----------------------------------------------------------------------------
(* Evaluation.                                                             *)

\* EvalBinGate on LWE ciphertexts, and Bootstrap.  distinct: ct1 != ct2.
EvalLWE(distinct) ==
    IF kind = "none" THEN Die("EvalLWE")
    ELSE IF ~distinct THEN Throw("EvalLWE")
    ELSE IF acc = "none" THEN Die("EvalLWE")
    ELSE IF BTKey = NullKey THEN Throw("EvalLWE")
    ELSE IF kind # "LWE" \/ acc # "RingGSW" THEN Die("EvalLWE")
    ELSE /\ Report("EvalLWE", "ok", NullKey, {BTKey})
         /\ UNCHANGED <<context, regular, gadget, btKeys, mkKeys, alive>>

\* EvalBinGate on the multi-key ciphertexts of scheme k.
EvalMK(k, distinct) ==
    IF kind = "none" THEN Die("EvalMK")
    ELSE IF ~distinct THEN Throw("EvalMK")
    ELSE IF kind # k \/ (k = "MNTRU" /\ ctNAND = NullKey) THEN Die("EvalMK")
    ELSE IF MKBTKey = NullKey THEN Throw("EvalMK")
    ELSE IF MKBTKey.kind # k THEN Die("EvalMK")
    ELSE /\ Report("EvalMK", "ok", NullKey, {MKBTKey})
         /\ UNCHANGED <<context, regular, gadget, btKeys, mkKeys, alive>>

\* The loop of EvalSign and EvalDecomp as a record: the gadget, curEK, the
\* keys bootstrapped with so far, and whether an exception is on its way out.
Loop(g, key, used, status) == [g |-> g, key |-> key, used |-> used, status |-> status]

\* One or more bootstraps with curEK.
BootstrapWith(s) ==
    IF s.status = "ok"
    THEN IF s.key = NullKey THEN [s EXCEPT !.status = "throw"]
         ELSE [s EXCEPT !.used = @ \cup {s.key}]
    ELSE s

\* Change_BaseG comes before the search, so a failed search leaves b behind.
SwitchTo(s, b) ==
    IF s.status = "ok"
    THEN LET g == Change_BaseG(s.g, b)
         IN IF BTKey_map[b] = NoEntry THEN Loop(g, s.key, s.used, "throw")
            ELSE Loop(g, BTKey_map[b], s.used, "ok")
    ELSE s

Dynamic == Cardinality({b \in Bases : BTKey_map[b] # NoEntry}) = 3

\* Mutant: the caller's base is not restored when the loop is done.
SignLoop_NoRestore(via18, bootstrapLast) ==
    LET s0 == BootstrapWith(Loop(gadget, BTKey_map[gadget.baseG], {}, "ok"))
        s1 == IF Dynamic /\ via18 THEN BootstrapWith(SwitchTo(s0, 18)) ELSE s0
        s2 == IF Dynamic THEN SwitchTo(s1, 27) ELSE s1
    IN IF bootstrapLast THEN BootstrapWith(s2) ELSE s2

\* via18: the modulus passes through (2^17, 2^26] on its way to q.
\* bootstrapLast: something is bootstrapped after the switch to 2^27
\* (always in EvalSign, in EvalDecomp only if another round follows).
SignLoop(via18, bootstrapLast) ==
    LET s0 == BootstrapWith(Loop(gadget, BTKey_map[gadget.baseG], {}, "ok"))
        s1 == IF Dynamic /\ via18 THEN BootstrapWith(SwitchTo(s0, 18)) ELSE s0
        s2 == IF Dynamic THEN SwitchTo(s1, 27) ELSE s1
        s3 == IF bootstrapLast THEN BootstrapWith(s2) ELSE s2
    IN IF s3.status = "ok" THEN [s3 EXCEPT !.g = Change_BaseG(@, gadget.baseG)] ELSE s3

\* EvalSign and EvalDecomp.  large: the ciphertext modulus exceeds q.  The
\* first bootstrap checks the key before it uses the accumulator.
EvalSign(large, via18, bootstrapLast) ==
    IF kind # "LWE" THEN Die("EvalSign")
    ELSE IF ~large \/ BTKey_map[gadget.baseG] = NoEntry THEN Throw("EvalSign")
    ELSE IF \/ acc = "none"
            \/ acc # "RingGSW" /\ BTKey_map[gadget.baseG] # NullKey
         THEN Die("EvalSign")
    ELSE LET s == SignLoop(via18, bootstrapLast)
         IN \/ s.status = "throw" /\ ThrowWith("EvalSign", s.g, s.used)
            \/ /\ s.status = "ok"
               /\ gadget' = s.g
               /\ Report("EvalSign", "ok", NullKey, s.used)
               /\ UNCHANGED <<context, regular, btKeys, mkKeys, alive>>

-----------------------------------------------------------------------------

Init ==
    /\ kind = "none"
    /\ acc = "none"
    /\ gadget = PreCompute(5, FALSE)
    /\ timeOptimization = FALSE
    /\ BTKey = NullKey
    /\ BTKey_map = EmptyMap
    /\ MKBTKey = NullKey
    /\ MKBTKey_map = EmptyMap
    /\ ctNAND = NullKey
    /\ alive = TRUE
    /\ epoch = 0
    /\ owners = {}
    /\ mkOwners = {}
    /\ regular = TRUE
    /\ mkRegular = TRUE
    /\ loads = 0
    /\ last = [op |-> "Construct", status |-> "ok", arg |-> NullKey, keys |-> {}]

Generate ==
    \/ \E accepted \in BOOLEAN, b \in Bases, method \in Methods :
          GenerateParams(accepted, b, method) \/ GenerateFull(accepted, b, method)
    \/ \E supported, timeOpt \in BOOLEAN, logQ \in LogQs :
          GenerateLargePrecision(supported, logQ, timeOpt)
    \/ \E known \in BOOLEAN, k \in Kinds, b \in SetBases, method \in Methods :
          GenerateSet(known, k, b, method)
    \/ \E current \in BOOLEAN, k \in Kinds, b \in Bases, method \in Methods :
          load(current, k, b, method)

Manage ==
    \/ \E sk \in SecretKeys :
          \/ \E valid \in BOOLEAN : BTKeyGen(sk, valid)
          \/ \E k \in MKKinds : MKBTKeyGen(sk, k)
          \/ BTKeyLoad(sk)
          \/ \E b \in Bases : BTKeyMapLoadSingleElement(b, sk)
          \/ \E isNAND \in BOOLEAN : ctGateGen(sk, isNAND)
    \/ ClearBTKeys

Evaluate ==
    \/ \E distinct \in BOOLEAN :
          \/ EvalLWE(distinct)
          \/ \E k \in MKKinds : EvalMK(k, distinct)
    \/ \E large, via18, bootstrapLast \in BOOLEAN : EvalSign(large, via18, bootstrapLast)

Next == Generate \/ Manage \/ Evaluate

Spec == Init /\ [][Next]_vars

-----------------------------------------------------------------------------
(* Properties.                                                             *)

\* Every field holds a value of its C++ type's abstraction.
TypeOK ==
    /\ kind \in Kinds \cup {"none"}
    /\ acc \in {"none", "RingGSW", "UniEnc"}
    /\ gadget \in Gadgets
    /\ timeOptimization \in BOOLEAN
    /\ BTKey \in Keys \cup {NullKey}
    /\ BTKey_map \in KeyMaps
    /\ MKBTKey \in Keys \cup {NullKey}
    /\ MKBTKey_map \in KeyMaps
    /\ ctNAND \in [sk : SecretKeys, epoch : 1 .. MaxGenerate] \cup {NullKey}
    /\ alive \in BOOLEAN
    /\ epoch \in 0 .. MaxGenerate
    /\ owners \subseteq SecretKeys
    /\ mkOwners \subseteq SecretKeys
    /\ regular \in BOOLEAN
    /\ mkRegular \in BOOLEAN
    /\ loads \in 0 .. MaxLoads
    /\ last \in [op : Calls, status : {"ok", "throw", "died"},
                 arg : SecretKeys \cup {NullKey}, keys : SUBSET Keys]
    /\ kind # "none" => epoch >= 1

\* A key filed in m_BTKey_map or m_MKBTKey_map under a base was generated
\* with exactly that gadget base, whatever sequence of calls, exceptions and
\* Change_BaseG calls (BTKeyGen's loop, EvalSign's loop) led there.  EvalSign
\* relies on it: it pairs curEK = map[base] with Change_BaseG(base).
KeyForItsBase ==
    \A b \in Bases :
        /\ BTKey_map[b] \in Keys => BTKey_map[b].base = b
        /\ MKBTKey_map[b] \in Keys => MKBTKey_map[b].base = b

\* If the present parameters were installed while no keys of their family were
\* held, no exception has moved their base since, and one secret key is behind
\* the keys held, then a gate, Bootstrap, EvalSign or EvalDecomp that returns
\* bootstrapped only with keys made from that secret key under the present
\* parameters; the key of a gate fits the present gadget base; and the constant
\* m_ctNAND of a matrix NTRU gate belongs to the same key and parameters.
EvalSound ==
    /\ (/\ alive /\ regular /\ Cardinality(owners) <= 1
        /\ last.op \in {"EvalLWE", "EvalSign"} /\ last.status = "ok")
       => \A k \in last.keys :
             /\ k.sk \in owners /\ k.kind = "LWE" /\ k.epoch = epoch
             /\ last.op = "EvalLWE" => k.base = gadget.baseG
    /\ (/\ alive /\ mkRegular /\ Cardinality(mkOwners) <= 1
        /\ last.op = "EvalMK" /\ last.status = "ok")
       => \A k \in last.keys :
             /\ k.sk \in mkOwners /\ k.kind = kind /\ k.epoch = epoch
             /\ k.base = gadget.baseG
             /\ kind = "MNTRU" => ctNAND = [sk |-> k.sk, epoch |-> k.epoch]

\* A call replaces m_params.
Replaces(op) == op \in {"Generate", "load"}

\* The exceptions that leave a base behind: of a dynamic EvalSign or EvalDecomp
\* for whose 2^18 or 2^27 the map has no usable key (Change_BaseG comes before
\* the search), and of BTKeyGen's loop, whose first KeyGen rejects the mode.
MayLeaveBase ==
    /\ last'.status = "throw"
    /\ \/ last'.op = "EvalSign" /\ Dynamic /\ \E b \in {18, 27} : BTKey_map[b] \notin Keys
       \/ last'.op = "BTKeyGen" /\ LoopBases # {}

\* BTKeyGen's and EvalSign's temporary Change_BaseG is undone: a call that
\* keeps m_params keeps the gadget base, whatever keys were loaded and whatever
\* went wrong before, except through the two kinds of exception of MayLeaveBase.
BaseRestored ==
    [][~Replaces(last'.op) /\ ~MayLeaveBase => gadget'.baseG = gadget.baseG]_vars

\* A filled m_Gpower, from which BTKeyGen builds keys, is not lost to a call
\* that keeps m_params, except to those exceptions and to an EvalSign or
\* EvalDecomp that a map of three keys makes dynamic on parameters without the
\* table of the sign bases (time optimisation off, or deserialized): restoring
\* the base then loads an empty vector.
PowersKept ==
    [][/\ ~Replaces(last'.op) /\ ~MayLeaveBase
       /\ gadget.Gpower = "filled" /\ kind = "LWE"
       /\ ~(last'.op = "EvalSign" /\ Dynamic /\ gadget.Gpower_map[27] # "filled")
       => gadget'.Gpower = "filled"]_vars

\* m_Gpower is "A vector of powers of baseG" (rgsw-cryptoparameters.h:91): it
\* holds them whenever a call on RingGSW parameters has ended.
GpowerOfBase == alive /\ kind = "LWE" => gadget.Gpower = "filled"

\* BTKeyGen(sk) "Generates boostrapping keys / @param sk secret key"
\* (binfhecontext.h:282-284): after it returns, m_BTKey is a key for sk.
BTKeyGenUsesItsKey ==
    last.op = "BTKeyGen" /\ last.status = "ok" => BTKey # NullKey /\ BTKey.sk = last.arg

\* "Clear the bootstrapping keys in the current context"
\* (binfhecontext.h:320): after ClearBTKeys no bootstrapping key is held.
ClearedMeansCleared ==
    last.op = "ClearBTKeys" =>
        /\ BTKey = NullKey /\ BTKey_map = EmptyMap
        /\ MKBTKey = NullKey /\ MKBTKey_map = EmptyMap

=============================================================================
