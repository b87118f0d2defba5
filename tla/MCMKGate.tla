------------------------------- MODULE MCMKGate -------------------------------
(***************************************************************************)
(* Two parties with one coefficient each for MKLWE.  For matrix NTRU two    *)
(* parties with four coefficients each: as in STD100_MKNTRU, k * n is about *)
(* twice N/4, and a third of a key's entries are 1, a third -1.             *)
(***************************************************************************)
EXTENDS MKGate

BinaryKeys == [Idx -> {0, 1}]

\* A balanced key, one with fewer entries and one whose entries are all 1, with
\* which truncation alone exceeds N/4.
TernaryKeys ==
    {[i \in Idx |-> ((i + 1) % 3) - 1], [i \in Idx |-> IF i % 4 = 1 THEN 1 ELSE 0],
     [i \in Idx |-> 1]}

\* Masks whose entries round up, down and to the modulus itself.
MCMasks ==
    {[i \in Idx |-> (v + 67 * i) % q] : v \in {13, 120}}
      \cup {[i \in Idx |-> IF i = 1 THEN q - 1 ELSE 0]}

\* Encrypt for MKLWE draws its mask from a narrow Gaussian.
NarrowMasks == {[i \in Idx |-> 0], [i \in Idx |-> IF i = 1 THEN q - 1 ELSE 2]}

\* Matrix NTRU ciphertexts are spread over the whole range.
FreshNTRUMasks == {[i \in Idx |-> (v + 67 * i) % q] : v \in {13, 120}}
NTRUMasks == {[i \in Idx |-> (77 + 31 * i * i) % q]}

\* MKLWE: two errors of 9 and the roundings use up q/8; a result's error may be
\* as large, it is an operand again.
LWEErrors == {-9, 9}

\* Matrix NTRU: a gate adds three errors, and truncation takes most of N/4.
NTRUErrors == {-1, 1}

=============================================================================
