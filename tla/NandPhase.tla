------------------------------- MODULE NandPhase -------------------------------
(***************************************************************************)
(* The arithmetic of one multi-key NAND gate: what the accumulator's        *)
(* constant coefficient is after a rotation, and how moduli are switched.   *)
(***************************************************************************)
EXTENDS Integers

CONSTANTS
    Method,  \* "MKNTRU" (matrix NTRU, ternary keys) or "MKNTRU_LWE" (binary keys)
    N,       \* ring dimension; the accumulator lives modulo X^N + 1
    q,       \* ciphertext modulus; every MK parameter set has q = qKS
    Q        \* modulus of the accumulator

ASSUME PhaseConstants ==
    /\ Method \in {"MKNTRU", "MKNTRU_LWE"}
    /\ N \in Nat /\ N % 4 = 0 /\ N > 0
    /\ q \in Nat /\ q >= 8
    /\ Q \in Nat /\ Q >= q

M == 2 * N
p == 4

\* Mutant: the result is not reduced.
RoundqQ_NoMod(v, to, from) == (2 * v * to + from) \div (2 * from)

\* floor(0.5 + v * to / from) modulo to.
RoundqQ(v, to, from) == ((2 * v * to + from) \div (2 * from)) % to

Q2p == Q \div (2 * p) + 1

\* Mutant: the halves are swapped.
Rx_Swapped(j) == IF (j < N \div 2) # (Method = "MKNTRU_LWE") THEN Q2p ELSE -Q2p

\* The test polynomial: +Q/8 on the lower half for MKLWE, on the upper half for
\* matrix NTRU.
Rx(j) == IF (j < N \div 2) = (Method = "MKNTRU_LWE") THEN Q2p ELSE -Q2p

\* Constant coefficient of Rx * X^r modulo X^N + 1, for r in 0 .. 2N - 1.
Coefficient(r) ==
    IF r = 0 THEN Rx(0) ELSE IF r <= N THEN -Rx(N - r) ELSE Rx(2 * N - r)

\* Phase of the extracted ciphertext: MKLWE adds b = Q/8 + 1 and subtracts the
\* accumulator, matrix NTRU has no b.
Extracted(r) ==
    IF Method = "MKNTRU_LWE" THEN (Q \div 8 + 1) - Coefficient(r) ELSE Coefficient(r)

nand(b1, b2) == 1 - b1 * b2

\* Where the rotation of a gate on b1, b2 should be: 5N/4, 3N/4 or N/4.
Target(b1, b2) == 5 * (N \div 4) - (b1 + b2) * (N \div 2)

=============================================================================
