# TLA+ models of MKFHE's binfhe module

MKFHE is OpenFHE v1.1.1 with NTRU-based multi-key FHE added to `src/src/binfhe`.
This directory holds TLA+ models of that module: what state a context carries from
call to call, how large-precision ciphertexts are floored, and how a multi-key gate
is bootstrapped. TLC checks the models on small instances, and TLAPS proves
theorems for every value of their constants. Paths below are relative to
`src/src/binfhe`.

## The system

| Part | State | Operations |
|---|---|---|
| `BinFHEContext` (`lib/binfhecontext.cpp`, `include/binfhecontext.h`) | parameters, `m_timeOptimization`, `m_BTKey` and its map per gadget base, `m_MKBTKey` and its map, `m_ctNAND` | `GenerateBinFHEContext` (4 overloads), `BTKeyGen`, `MKBTKeyGen` (2), `BTKeyLoad`, `BTKeyMapLoadSingleElement`, `ClearBTKeys`, `ctGateGen`, evaluations |
| RingGSW / UniEnc parameters (`lib/rgsw-cryptoparameters.cpp`, `lib/mk-cryptoparameters.cpp`) | `m_baseG`, `m_Gpower`, `m_Gpower_map`, shared by every copy of the parameters | `PreCompute`, `Change_BaseG` |
| Large precision (`lib/binfhe-base-scheme.cpp`) | the modulus, base and key of a call's loop | `EvalSign`, `EvalDecomp`, `EvalFloor`, `BootstrapFunc` |
| Multi-key gates (`lib/binfhe-base-scheme.cpp`, `lib/mk-acc-xzw*.cpp`) | the accumulator of a gate | `EvalBinGate`, `BootstrapGateCore`, `EvalAcc`, `AddToAccXZW(0)`, `HbProd` |
| Multi-key encryption (`lib/mklwe-pke.cpp`, `lib/mntru-pke.cpp`) | none | `Encrypt`, `Decrypt`, `Decrypt2`, `DecryptNAND`, `ModSwitch`, `KeySwitch`, key generation |
| LWE encryption (`lib/lwe-pke.cpp`) | none | the same for single-key LWE, `SwitchCTtoqn` |
| Single-key gates and functions (`lib/binfhe-base-scheme.cpp`) | none | `EvalBinGate`, vector gates, `CMUX`, `EvalNOT`, `Bootstrap`, `EvalFunc`, `checkInputFunction`, `GenerateLUTviaFunction` |
| RingGSW accumulators (`lib/rgsw-acc*.cpp`), vector NTRU (`lib/vntru-*`) | the accumulator | `KeyGenAcc`, `EvalAcc`, automorphisms |
| Serialization (`include/*`) | archives | `save`, `load` |

How they interact: the context owns parameters and keys and hands both to
`BinFHEScheme`; `EvalSign` and `EvalDecomp` and the key generation loops change the
gadget base of the shared parameters while they run; scheme switching in `pke` calls
`EvalSign` on one context from an OpenMP loop.

What is hard about it: keys, base and parameters that drift apart over a sequence of
calls; exceptions between `Change_BaseG` and its undoing; concurrent calls on one
parameter object; error growth and rounding over several rounds; rotations that must
stay in their sector of the circle of exponents; encodings that differ between
fresh ciphertexts and results. `PROJECT.json` lists each hazard with its line.

## Modules

**`BinFHEContext`** has the private fields of the class as variables, with the gadget
fields of the parameters (`gadget`) and the kind of accumulator the scheme object holds
(`acc`). A bootstrapping key is abstracted to the secret key, base, scheme and parameters
it was made from and whether the gadget powers it used were there. Each operation is one
action. The overloads of `GenerateBinFHEContext` and `load` replace `m_params` first;
when `BinFHEScheme`'s constructor then rejects the method, the old accumulator stays.
`BTKeyGen` contains the time-optimisation loop, the size test with its
default-constructing `operator[]`, the restored base, and the exception for an invalid
mode, which leaves the loop under its first base. `EvalSign` contains the whole loop with
the exceptions it can leave by. `last` records the call's outcome and the keys it
bootstrapped with. `epoch`, `owners`, `mkOwners`, `regular`, `mkRegular` and `loads` are
history variables. `Init` is a default-constructed context, whose `gadget` is not used
before the first `Generate`.

A null dereference sets `alive` to FALSE and ends the behaviour. Reading an empty
`m_Gpower` is undefined behaviour: `BTKeyGen` may then end the process or go on with a
key marked as not filled. So is the last statement of `load`, which reads a method
through a null pointer and does not use it: the process may end or go on. One thing is
asked of the caller, as `binfhecontext.h` does: a key passed to `BTKeyLoad` or
`BTKeyMapLoadSingleElement` was made under the present parameters, for the base it is
loaded under. The base of a map element is otherwise free.

**`LargePrecision`** models `EvalSign` (with and without `schemeSwitch`) and
`EvalDecomp`. A ciphertext is its phase. A call takes one step per bootstrap, one per
base change and one to restore. That is also the grain of interleaving. A bootstrap
reads the base at every digit decomposition; a change in the middle of one is not a
step of the model, because it is one more way to reach the mismatch that a change
between two bootstraps already shows, and with a fixed base no change happens at all.
A bootstrap whose key and base do not match has an arbitrary result. `BootstrapFunc` includes the
negacyclic extension of the test polynomial and adds an error from `Errors`;
`ModSwitch` rounds and adds the rounding of the mask from `Roundings`.
**`DigitFloor`** is its abstract specification: each call is answered once, with the
exact sign or digits, or throws when it may. `LargePrecision` implements it
(`ExactAnswers`): `answer` is mapped to what the returned ciphertexts decrypt to.

**`NandPhase`** is the arithmetic of a multi-key gate: the test polynomials `Rx`,
the constant coefficient after a rotation, the extracted phase, `RoundqQ`.
**`MKGate`** is the gate itself for both schemes: `Encrypt`, copies of ciphertexts,
`EvalBinGate` up to the accumulator, `AddToAcc` once per coefficient of each party,
`Extract`. A gate takes any two wires that are different objects, fresh or results. The
accumulator is the exponent its test polynomial has been rotated by. The error of
`HbProd`, modulus switching and key switching is drawn from `BootErrors` when the result
is extracted. A result's mask is arbitrary (`Masks`); fresh masks come from `FreshMasks`,
because `MKLWE` `Encrypt` draws them from a narrow Gaussian. `bit` (the plaintext
circuit) and `made` (the operands of a result) are history variables. Keys are binary
for MKLWE and ternary for matrix NTRU; Gaussian keys are left out, since no multi-key
parameter set has them.

Matrix NTRU has two decryptions, which differ in the constant they add before
truncating: `Decrypt` q/4, `Decrypt2` q/8. Results of gates lie q/8 below fresh
ciphertexts, so `Decrypt` fits results and `Decrypt2` fresh ciphertexts. The code lets a
result be an operand; the model shows what comes of it. A gate on two results gives the
OR of their bits. A gate on one result and one fresh ciphertext stops on the boundary
between the two answers, and nothing is claimed of it.

## Runs

| Run | Instance | Shows |
|---|---|---|
| `context` | 2 secret keys, 2 generations of parameters, all schemes | keys are filed under their base; gates, signs and multi-key gates use keys and constants of the present parameters (`EvalSound`) |
| `loaded_keys` | 1 secret key, single-key parameters, 2 map elements loaded | the base (`BaseRestored`) and the gadget powers (`PowersKept`) survive every call but those the properties name |
| `gpower_of_base` | all of the above | **violated**: the full overload with a base other than 2^14, 2^18, 2^27 leaves `m_Gpower` empty |
| `btkeygen_uses_its_key` | all of the above | **violated**: a second `BTKeyGen` keeps the old key |
| `cleared_means_cleared` | all of the above | **violated**: multi-key keys survive `ClearBTKeys` |
| `large_precision` | 1 thread, q = 2^12, beta = 2^7, moduli to 2^29, 7 key maps | exact answers, digits kept, base restored, termination |
| `parallel_fixed_base` | 2 threads, no dynamic mode | concurrent calls are independent |
| `parallel_dynamic` | 2 threads, dynamic mode | **violated**: a bootstrap runs under another call's base |
| `mklwe_gates` | 2 parties, n = 1, N = 32, q = 181, Q = 7681, 5 wires | the rotation stays on course, and circuits of any shape decrypt to the plaintext circuit |
| `mntru_gates` | 2 parties, n = 4, N = 16, q = 181, Q = 7681, 5 wires | truncation is bounded by the key's entries; gates on fresh ciphertexts give NAND, gates on results OR |
| `mntru_decrypt` | same | **violated**: `Decrypt` does not read fresh matrix NTRU ciphertexts |

Bounds. Two generations of parameters (`MaxGenerate`) suffice for a key to be stale and
two secret keys for a key to be foreign. Two loaded elements (`MaxLoads`) and the entry
`BTKeyGen` makes give maps of three keys that no time optimisation made. Loads multiply
the states, so `context` has all schemes and both secret keys without map loads, and
`loaded_keys` has the loads with one secret key and single-key parameters, which its
properties are about. The bases are those of the code.

`LargePrecision` uses the library's own q and beta; the messages are the ends of the
space, the sign boundary and digit carries, and the errors are the largest a round
tolerates (two of them fill the beta of slack), so smaller ones are covered in effect.
Two threads suffice for one call to change the base under another.

In `MKGate`, q is odd and no multiple of 8, as in every multi-key parameter set, so all
truncations occur; Q exceeds q. The MKLWE errors nearly use up q/8. Two fresh ciphertexts
(`MaxFresh`) and five wires (`MaxWires`) allow a gate on two results, which needs two
inputs and three gates; copies are wires too. For matrix NTRU, k * n = 8 against N/4 = 4
is in proportion with STD100_MKNTRU, where k * n = 1120 and N/4 = 512: there, too, the
sum of the truncations could exceed N/4, and what keeps a gate right is that only a third
of a key's entries are 1 and a third -1. The keys tried are a balanced one, a sparse one,
and one of ones only, with which gates do fail; `ResultsReadable` states the margin
(`InMargin`) that tells them apart.

Fairness. `LargePrecision` assumes weak fairness of each call: a thread that is inside
`EvalSign` keeps running, and it waits for no lock. The safety models assume none.
Deadlock is not checked where the client may simply stop calling.

Word size. Large precision needs a 54-bit Q and therefore the 64-bit build, in which the
products of the loop do not overflow. The multi-key parameters also fit the 32-bit build.

## Proofs

* `BinFHEContextProofs`, `KeysFiledByBase`: `Spec => [](TypeOK /\ KeyForItsBase)` for
  any sets of keys and bases, any number of generations and loads.
  `TypeOK /\ KeyForItsBase` is inductive as it stands: the loop's map is keyed by the base
  `Change_BaseG` has just set, and the default entry is not a key.
* `BinFHEContextProofs`, `BasePutBack`: `Spec => BaseRestored`. Types are the only
  invariant it needs. The argument follows the loop of `EvalSign`: as long as every
  switch finds a key, the loop reaches its last statement, which puts the base back.
* `LargePrecisionProofs`, `BootstrapsUseMatchingKey`: `Spec => []KeyMatchesBase` for any
  number of threads. The inductive invariant adds the types of the control variables
  and `FixedBaseKept`: without dynamic mode the base is what every running call saw at
  entry. `KeyMatchesBase` alone is not inductive, since `Restore` writes back `curBase`.
* `NandPhaseProofs`, `MKLWEGateDecides` and `MNTRUGateDecides`: for every N divisible
  by 4 and all moduli, a rotation less than N/4 off its target extracts exactly NAND.
  With `RotationOnCourse`, which TLC checks, this is why MKLWE gates are right.
  `MNTRUGateOnResults`: with operands q/8 lower the same gate extracts OR.

The assumptions are the ASSUMEs of the modules on their constants. Only model-checked:
`EvalSound`, `PowersKept` and the `BaseRestored` of `LargePrecision`; the refinement of
`DigitFloor` and its liveness (liveness is outside this prover); `DigitKept`;
`RotationOnCourse`, `NandCorrect`, `TruncationBounded` and `ResultsReadable` (sums over
sets are defined by recursion, which the provers cannot use).

## Not modelled

Ring and matrix algebra (`HbProd`, gadget products, inverses, NTT) and samplers: data
processing without control, represented by an error on the result. Vector NTRU: no
constructor installs it. `pke` and `core` beyond the call of `EvalSign` from parallel
loops. Method `MKNTRU_B`. Serialization beyond `load` and the loading of keys: which fields an
archive of a key or ciphertext carries. Security of the parameters.

## Plan

1. `LWEGate`: single-key `EvalBinGate` for all gates, XOR and CMUX as compositions,
   vector gates, `EvalNOT`, `Bootstrap`, with a plaintext circuit as specification.
2. `FunctionEval`: `GenerateLUTviaFunction`, `checkInputFunction` against a
   reference definition, `EvalFunc` for all lookup tables over a small space; `EvalFloor`
   with `roundbits`.
3. `SignedDigitDecompose` and `KeySwitch` as pure algorithms against recomposition;
   LWE `Encrypt`, `SwitchCTtoqn`; bounds for `BootErrors` from them.
4. `MKSession`: `BinFHEContext`'s multi-key calls composed with `MKGate`
   (`ctGateGen`, `MKBTKeyGen`, gates under the keys the context holds).
5. LMKCDEY's automorphism schedule; serialization round trips of keys and ciphertexts.
6. Proofs: `PowersKept`, `EvalSound`, the safety part of `DigitFloor`'s
   refinement, the flooring step's error bound, lemmas on lookup tables and digits.
