---------------------------- MODULE NandPhaseProofs ----------------------------
(***************************************************************************)
(* The decision a multi-key gate makes, for every ring dimension and every  *)
(* pair of moduli.                                                          *)
(***************************************************************************)
EXTENDS NandPhase, TLAPS

Bits == {0, 1}

\* Rotations a gate on b1, b2 may end at: less than N/4 from the target.
Reached(b1, b2) ==
    {r \in Int : Target(b1, b2) - N \div 4 < r /\ r < Target(b1, b2) + N \div 4}

\* N is four times something, so that N/4 and N/2 are exact.
LEMMA Quarter ==
    \E m \in Nat : m > 0 /\ N = 4 * m /\ N \div 4 = m /\ N \div 2 = 2 * m
<1>1. N = 4 * (N \div 4) /\ N \div 4 \in Nat /\ N \div 4 > 0
  BY PhaseConstants
<1>2. N \div 2 = 2 * (N \div 4)
  BY PhaseConstants
<1> QED
  BY <1>1, <1>2

\* The targets in the comment of the MKLWE EvalBinGate: 5N/4, 3N/4 and N/4.
LEMMA Targets ==
    ASSUME NEW m \in Nat, m > 0, N = 4 * m, N \div 4 = m, N \div 2 = 2 * m
    PROVE  Target(0, 0) = 5 * m /\ Target(0, 1) = 3 * m
           /\ Target(1, 0) = 3 * m /\ Target(1, 1) = m
BY DEF Target

\* No table access beyond the 2N monomials, and no wrap-around: the rotation of a
\* gate within its error margin is an exponent in 1 .. 2N - 1.
LEMMA ReachedRange ==
    ASSUME NEW b1 \in Bits, NEW b2 \in Bits, NEW r \in Reached(b1, b2)
    PROVE  r \in 1 .. M - 1
<1>1. PICK m \in Nat : m > 0 /\ N = 4 * m /\ N \div 4 = m /\ N \div 2 = 2 * m
  BY Quarter
<1>2. Target(b1, b2) \in {m, 3 * m, 5 * m}
  BY <1>1, Targets DEF Bits
<1>3. r \in Int /\ Target(b1, b2) - m < r /\ r < Target(b1, b2) + m
  BY <1>1 DEF Reached
<1> QED
  BY <1>1, <1>2, <1>3 DEF M

\* The constant coefficient tells 1,1 from the other operands: with MKLWE's test
\* polynomial it is Q/8 for 1,1 and -Q/8 otherwise; matrix NTRU's is the negation.
LEMMA CoefficientSign ==
    ASSUME NEW b1 \in Bits, NEW b2 \in Bits, NEW r \in Reached(b1, b2)
    PROVE  Coefficient(r) =
              IF (nand(b1, b2) = 0) = (Method = "MKNTRU_LWE") THEN Q2p ELSE -Q2p
<1>1. PICK m \in Nat : m > 0 /\ N = 4 * m /\ N \div 4 = m /\ N \div 2 = 2 * m
  BY Quarter
<1>2. r \in Int /\ Target(b1, b2) - m < r /\ r < Target(b1, b2) + m
  BY <1>1 DEF Reached
<1>3. Q2p \in Int
  BY PhaseConstants DEF Q2p, p
<1>4. CASE b1 = 0 /\ b2 = 0
  <2>1. 4 * m < r /\ r < 6 * m
    BY <1>1, <1>2, <1>4, Targets
  <2>2. Coefficient(r) = Rx(2 * N - r) /\ 2 * N - r >= N \div 2
    BY <1>1, <1>2, <2>1 DEF Coefficient
  <2> QED
    BY <1>1, <1>2, <1>3, <1>4, <2>2 DEF Rx, nand
<1>5. CASE b1 + b2 = 1
  <2>1. 2 * m < r /\ r < 4 * m
    BY <1>1, <1>2, <1>5, Targets DEF Bits
  <2>2. Coefficient(r) = -Rx(N - r) /\ N - r < N \div 2
    BY <1>1, <1>2, <2>1 DEF Coefficient
  <2>3. nand(b1, b2) = 1
    BY <1>5 DEF nand, Bits
  <2> QED
    BY <1>1, <1>2, <1>3, <2>2, <2>3 DEF Rx
<1>6. CASE b1 = 1 /\ b2 = 1
  <2>1. 0 < r /\ r < 2 * m
    BY <1>1, <1>2, <1>6, Targets
  <2>2. Coefficient(r) = -Rx(N - r) /\ N - r >= N \div 2
    BY <1>1, <1>2, <2>1 DEF Coefficient
  <2> QED
    BY <1>1, <1>2, <1>3, <1>6, <2>2 DEF Rx, nand
<1> QED
  BY <1>4, <1>5, <1>6 DEF Bits

\* An MKLWE gate whose rotation is less than N/4 off extracts exactly the phase
\* of NAND, 0 or Q/4 + 2, whatever the operands, the ring and the moduli: the
\* result is encoded as a fresh ciphertext is, so gates compose.
THEOREM MKLWEGateDecides ==
    ASSUME Method = "MKNTRU_LWE",
           NEW b1 \in Bits, NEW b2 \in Bits, NEW r \in Reached(b1, b2)
    PROVE  Extracted(r) = nand(b1, b2) * (2 * Q2p)
<1>1. Q2p \in Int /\ Q2p = Q \div 8 + 1
  BY PhaseConstants DEF Q2p, p
<1>2. nand(b1, b2) \in Bits
  BY DEF nand, Bits
<1>3. CASE nand(b1, b2) = 0
  BY <1>1, <1>3, CoefficientSign DEF Extracted
<1>4. CASE nand(b1, b2) = 1
  BY <1>1, <1>4, CoefficientSign DEF Extracted
<1> QED
  BY <1>2, <1>3, <1>4 DEF Bits

\* A matrix NTRU gate extracts NAND too, an eighth of Q lower than a fresh
\* ciphertext: Q/8 for 1 and -Q/8 for 0, which is what Decrypt's q/4 corrects.
THEOREM MNTRUGateDecides ==
    ASSUME Method = "MKNTRU",
           NEW b1 \in Bits, NEW b2 \in Bits, NEW r \in Reached(b1, b2)
    PROVE  Extracted(r) = nand(b1, b2) * (2 * Q2p) - Q2p
<1>1. Q2p \in Int
  BY PhaseConstants DEF Q2p, p
<1>2. nand(b1, b2) \in Bits
  BY DEF nand, Bits
<1>3. CASE nand(b1, b2) = 0
  BY <1>1, <1>3, CoefficientSign DEF Extracted
<1>4. CASE nand(b1, b2) = 1
  BY <1>1, <1>4, CoefficientSign DEF Extracted
<1> QED
  BY <1>2, <1>3, <1>4 DEF Bits

\* A matrix NTRU gate does not take its own results: each lies Q/8 lower than a
\* fresh ciphertext and turns the accumulator N/4 further.  With two of them, and
\* a rotation less than N/4 off, the gate extracts the OR of their bits, for every
\* ring and all moduli, so that NAND gates do not compose.
THEOREM MNTRUGateOnResults ==
    ASSUME Method = "MKNTRU", NEW b1 \in Bits, NEW b2 \in Bits,
           NEW r \in Int, r - N \div 2 \in Reached(b1, b2)
    PROVE  Extracted(r) = (IF b1 + b2 = 0 THEN 0 ELSE 1) * (2 * Q2p) - Q2p
<1>1. PICK m \in Nat : m > 0 /\ N = 4 * m /\ N \div 4 = m /\ N \div 2 = 2 * m
  BY Quarter
<1>2. Target(b1, b2) + m < r /\ r < Target(b1, b2) + 3 * m
  BY <1>1, Targets DEF Reached, Bits
<1>3. Q2p \in Int
  BY PhaseConstants DEF Q2p, p
<1>4. CASE b1 = 0 /\ b2 = 0
  <2>1. 6 * m < r /\ r < 8 * m
    BY <1>1, <1>2, <1>4, Targets
  <2>2. Coefficient(r) = Rx(2 * N - r) /\ 2 * N - r < N \div 2
    BY <1>1, <2>1 DEF Coefficient
  <2> QED
    BY <1>1, <1>3, <1>4, <2>2 DEF Rx, Extracted
<1>5. CASE b1 + b2 = 1
  <2>1. 4 * m < r /\ r < 6 * m
    BY <1>1, <1>2, <1>5, Targets DEF Bits
  <2>2. Coefficient(r) = Rx(2 * N - r) /\ 2 * N - r >= N \div 2
    BY <1>1, <2>1 DEF Coefficient
  <2> QED
    BY <1>1, <1>3, <1>5, <2>2 DEF Rx, Extracted
<1>6. CASE b1 = 1 /\ b2 = 1
  <2>1. 2 * m < r /\ r < 4 * m
    BY <1>1, <1>2, <1>6, Targets
  <2>2. Coefficient(r) = -Rx(N - r) /\ N - r < N \div 2
    BY <1>1, <2>1 DEF Coefficient
  <2> QED
    BY <1>1, <1>3, <1>6, <2>2 DEF Rx, Extracted
<1> QED
  BY <1>4, <1>5, <1>6 DEF Bits

=============================================================================
