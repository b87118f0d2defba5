-------------------------------- MODULE MKGate --------------------------------
(***************************************************************************)
(* Multi-key gate bootstrapping: Encrypt, EvalBinGate with its blind        *)
(* rotation coefficient by coefficient, and Decrypt, for matrix NTRU and    *)
(* multi-key LWE.                                                           *)
(*                                                                          *)
(* Ciphertext vectors of all k parties are one vector over 1 .. k * n in    *)
(* the order in which EvalAcc walks them.  A ring element of the            *)
(* accumulator is the power of X its test polynomial has been rotated by;   *)
(* the errors that bootstrapping and key switching add are drawn from       *)
(* BootErrors when the result is extracted.                                 *)
(***************************************************************************)
EXTENDS NandPhase, Sequences, FiniteSetsExt

CONSTANTS
    k, n,         \* parties, coefficients per party
    FreshMasks,   \* mask vectors of fresh ciphertexts
    Masks,        \* mask vectors of gate results
    FreshErrors,  \* error of a fresh ciphertext
    BootErrors,   \* error of a gate's result
    Keys,         \* joint secret keys tried
    MaxFresh,     \* bound on the number of calls of Encrypt
    MaxWires      \* bound on the number of ciphertexts

Idx == 1 .. k * n

\* What KeyGen can return: binary keys for MKLWE; for matrix NTRU the parties'
\* F_col0, first columns of invertible ternary matrices, which are not zero.
IsSecretKey(s) ==
    IF Method = "MKNTRU"
    THEN /\ s \in [Idx -> {-1, 0, 1}]
         /\ \A u \in 1 .. k : \E i \in (u - 1) * n + 1 .. u * n : s[i] # 0
    ELSE s \in [Idx -> {0, 1}]

ASSUME GateConstants ==
    /\ k \in Nat \ {0} /\ n \in Nat \ {0}
    /\ MaxFresh \in Nat /\ MaxWires \in Nat
    /\ FreshMasks \cup Masks \subseteq [Idx -> 0 .. q - 1]
    /\ FreshErrors \subseteq Int /\ BootErrors \subseteq Int
    /\ \A s \in Keys : IsSecretKey(s)

VARIABLES
    sk,     \* the joint secret key: F_col0, or the MKLWE key of all parties
    ctNAND, \* the gate constant: m_ctNAND, for MKLWE the trivial ciphertext of 5q/8
    wires,  \* ciphertexts made so far: [a, b]
    bit,    \* history: the bit each wire should hold
    made,   \* history: the operands of the gate a wire results from, {} if fresh
    gate    \* the EvalBinGate in progress

vars == <<sk, ctNAND, wires, bit, made, gate>>

Idle == [pc |-> "idle"]

Dot(v, w) == MapThenSumSet(LAMBDA i : v[i] * w[i], Idx)

-----------------------------------------------------------------------------
(* Ciphertexts.                                                            *)

\* A matrix-NTRU ciphertext has phase <c, F_col0>, an MKLWE one b - <a, s>.
Phase(ct) == (IF Method = "MKNTRU" THEN Dot(ct.a, sk) ELSE ct.b - Dot(ct.a, sk)) % q

\* The ciphertexts of a given phase: b absorbs the mask; without b, one entry
\* that the key does not annihilate does (keys are ternary, s * s = 1).
Encryptions(phase, masks) ==
    {LET i == CHOOSE j \in Idx : sk[j] # 0
         c == [m EXCEPT ![i] = (sk[i] * (phase - Dot([m EXCEPT ![i] = 0], sk))) % q]
     IN  IF Method = "MKNTRU" THEN [a |-> c, b |-> 0]
         ELSE [a |-> m, b |-> (phase + Dot(m, sk)) % q] :
     m \in masks}

\* 4/q of the phase, truncated, after half was added.
Read(ct, half) == (p * ((Phase(ct) + half) % q)) \div q

\* Mutant: matrix NTRU adds q/8 as MKLWE does.
Decrypt_Eighth(ct) == Read(ct, q \div (2 * p))

\* Decrypt adds q/8 for MKLWE, q/4 for matrix NTRU.
Decrypt(ct) == Read(ct, IF Method = "MKNTRU" THEN q \div p ELSE q \div (2 * p))

\* Decrypt2, which only matrix NTRU has, adds q/8.
Decrypt2(ct) == Read(ct, q \div (2 * p))

\* Encrypt: phase m * floor(q/4) + e.
Encrypt(m) ==
    /\ Len(wires) < MaxWires
    /\ Cardinality({x \in DOMAIN wires : made[x] = {}}) < MaxFresh
    /\ \E e \in FreshErrors : \E ct \in Encryptions(m * (q \div p) + e, FreshMasks) :
          wires' = Append(wires, ct)
    /\ bit' = Append(bit, m)
    /\ made' = Append(made, {})
    /\ UNCHANGED <<sk, ctNAND, gate>>

\* A copy is another object with the same contents.
Copy(x) ==
    /\ Len(wires) < MaxWires
    /\ wires' = Append(wires, wires[x])
    /\ bit' = Append(bit, bit[x])
    /\ made' = Append(made, made[x])
    /\ UNCHANGED <<sk, ctNAND, gate>>

-----------------------------------------------------------------------------
(* EvalBinGate.                                                            *)

\* Mutants: the mask itself, and the mask modulo q.
Exponents_NotNegated(a) == [i \in Idx |-> RoundqQ(a[i], M, q)]
Exponents_Unscaled(a) == a

\* Exponents handed to the accumulator: MKLWE switches to modulus 2N and
\* negates the mask (GetAneg); matrix NTRU scales by 2N/q and truncates.
Exponents(a) ==
    [i \in Idx |-> IF Method = "MKNTRU" THEN (a[i] * 2 * N) \div q
                   ELSE (-RoundqQ(a[i], M, q)) % M]

\* ctNAND - (ct1 + ct2), and the accumulator Rx * X^b.  The same object twice
\* is refused before anything changes.
EvalBinGate(x, y) ==
    LET a == [i \in Idx |-> (ctNAND.a[i] - (wires[x].a[i] + wires[y].a[i])) % q]
        b == (ctNAND.b - (wires[x].b + wires[y].b)) % q
    IN  /\ gate = Idle
        /\ x # y
        /\ Len(wires) < MaxWires
        /\ gate' = [pc |-> "acc", i |-> 1, in |-> <<x, y>>, c |-> Exponents(a),
                    r |-> IF Method = "MKNTRU" THEN 0 ELSE RoundqQ(b, M, q)]
        /\ UNCHANGED <<sk, ctNAND, wires, bit, made>>

\* Mutant: the key for -1 is not used, as in the accumulator for binary keys.
AddToAcc_Binary ==
    /\ gate.pc = "acc" /\ gate.i \in Idx
    /\ gate' = [gate EXCEPT !.i = @ + 1,
                            !.r = IF sk[gate.i] = 1 THEN (@ + gate.c[gate.i]) % M ELSE @]
    /\ UNCHANGED <<sk, ctNAND, wires, bit, made>>

\* One entry of EvalAcc.  The key for +1 multiplies by X^c, the key for -1 by
\* X^-c, an entry 0 leaves the accumulator alone.
AddToAcc ==
    /\ gate.pc = "acc" /\ gate.i \in Idx
    /\ gate' = [gate EXCEPT !.i = @ + 1, !.r = (@ + sk[gate.i] * gate.c[gate.i]) % M]
    /\ UNCHANGED <<sk, ctNAND, wires, bit, made>>

\* Extraction of the constant coefficient, switch to qKS, key switch.
Extract ==
    /\ gate.pc = "acc" /\ gate.i \notin Idx
    /\ \E e \in BootErrors :
          \E ct \in Encryptions(RoundqQ(Extracted(gate.r) % Q, q, Q) + e, Masks) :
             wires' = Append(wires, ct)
    /\ bit' = Append(bit, nand(bit[gate.in[1]], bit[gate.in[2]]))
    /\ made' = Append(made, {gate.in[1], gate.in[2]})
    /\ gate' = Idle
    /\ UNCHANGED <<sk, ctNAND>>

\* An encryption of 5q/8; EvalBinGate for MKLWE builds it without a mask.
ctGateGen ==
    IF Method = "MKNTRU"
    THEN UNION {Encryptions((5 * q) \div 8 + e, FreshMasks) : e \in FreshErrors}
    ELSE {[a |-> [i \in Idx |-> 0], b |-> (5 * q) \div 8]}

Init ==
    /\ sk \in Keys
    /\ ctNAND \in ctGateGen
    /\ wires = <<>> /\ bit = <<>> /\ made = <<>>
    /\ gate = Idle

\* The order of a gate's operands does not matter to EvalAddEq.
Client ==
    /\ gate = Idle
    /\ \/ \E m \in {0, 1} : Encrypt(m)
       \/ \E x \in DOMAIN wires : Copy(x)
       \/ \E x, y \in DOMAIN wires : x <= y /\ EvalBinGate(x, y)

Next == Client \/ AddToAcc \/ Extract

Spec == Init /\ [][Next]_vars

-----------------------------------------------------------------------------
(* Properties.                                                             *)

Ciphertexts == [a : [Idx -> 0 .. q - 1], b : 0 .. q - 1]

\* Type invariant.  Vectors are reduced modulo their modulus, and every exponent
\* and rotation is an index of the table of 2N monomials.
TypeOK ==
    /\ IsSecretKey(sk)
    /\ ctNAND \in Ciphertexts
    /\ \A x \in DOMAIN wires : wires[x] \in Ciphertexts
    /\ Len(bit) = Len(wires) /\ Len(made) = Len(wires)
    /\ gate # Idle =>
          /\ gate.i \in 1 .. k * n + 1
          /\ gate.r \in 0 .. M - 1
          /\ \A i \in Idx : gate.c[i] \in 0 .. M - 1

\* The rotation still to come when entries gate.i .. k * n are left.
Remaining == MapThenSumSet(LAMBDA i : sk[i] * gate.c[i], gate.i .. k * n)

\* Distance on the circle of 2N exponents.
Near(r, target, d) == \E e \in -d .. d : (r - target) % M = e % M

\* MKLWE: all along EvalAcc the accumulator is on course to less than N/4 from
\* 5N/4, 3N/4 or N/4, the place of the operands' bits, whatever the depth of the
\* circuit behind them: errors, the rounding of every mask entry and the
\* truncated q/4 and 5q/8 together stay below q/8.
RotationOnCourse ==
    gate # Idle =>
       Near((gate.r + Remaining) % M, Target(bit[gate.in[1]], bit[gate.in[2]]), N \div 4 - 1)

\* Every ciphertext, whatever the depth of gates behind it, decrypts to the bit
\* a plaintext evaluation of the same circuit gives: Encrypt, EvalBinGate and
\* Decrypt agree on the encoding of a bit.  True of MKLWE.  Matrix NTRU's Decrypt
\* takes the phase of its argument to be "q/4 m - q/8 + error"
\* (mntru-pke.cpp:334), Encrypt makes it "e + q/4 m" (mntru-pke.cpp:165).
NandCorrect == \A x \in DOMAIN wires : Decrypt(wires[x]) = bit[x]

\* Entries of the key that turn the accumulator forwards, and backwards.
Plus == Cardinality({i \in Idx : sk[i] = 1})
Minus == Cardinality({i \in Idx : sk[i] = -1})

\* Matrix NTRU: EvalAcc truncates every exponent instead of rounding the sum.
\* At any depth of the circuit the rotation falls short of 2N/q of the phase of
\* ctNAND - (ct1 + ct2) by at most one per entry 1 of the key and exceeds it by
\* at most one per entry -1, not by up to k * n either way.
TruncationBounded ==
    gate # Idle =>
       LET phase == Phase(ctNAND) - (Phase(wires[gate.in[1]]) + Phase(wires[gate.in[2]]))
           off == q * (gate.r + Remaining) - M * phase
       IN  (off + q * Plus) % (M * q) <= q * (Plus + Minus)

Largest(errors) == Max({IF e < 0 THEN -e ELSE e : e \in errors})

\* The rotation of a gate on operands with errors of up to err is less than N/4
\* off: errors, what q/4, 5q/8 and q/8 lose as integers, and truncation.
InMargin(err) ==
    ((Largest(FreshErrors) + 2 * err + 2) * M) \div q + Max({Plus, Minus}) < N \div 4

Fresh(x) == made[x] = {}
OnFresh(x) == made[x] # {} /\ \A y \in made[x] : Fresh(y)
OnResults(x) == made[x] # {} /\ \A y \in made[x] : OnFresh(y)

\* Matrix NTRU: Decrypt2 reads a fresh ciphertext.  With a key of no more entries
\* 1 and no more entries -1 than the margin allows, Decrypt reads NAND from a
\* gate on fresh ciphertexts, whatever the truncation.  Results lie q/8 lower
\* than fresh ciphertexts, so that a gate on two of them turns N/2 too far and
\* gives their OR: matrix NTRU gates do not compose.  (On one of each it stops
\* between the two answers.)
ResultsReadable ==
    \A x \in DOMAIN wires :
        /\ Fresh(x) => Decrypt2(wires[x]) = bit[x]
        /\ OnFresh(x) /\ InMargin(Largest(FreshErrors)) => Decrypt(wires[x]) = bit[x]
        /\ OnResults(x) /\ InMargin(Largest(BootErrors))
           => Decrypt(wires[x]) = Max({bit[y] : y \in made[x]})

=============================================================================
