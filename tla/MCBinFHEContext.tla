--------------------------- MODULE MCBinFHEContext ---------------------------
(* Instances of BinFHEContext for TLC.                                     *)
EXTENDS BinFHEContext, TLC

CONSTANTS sk1, sk2

MCSecretKeys == {sk1, sk2}
OneSecretKey == {sk1}
MCSetBases == {5}
\* Both sides of every bound the large-precision overload tests.
MCLogQs == {10, 11, 12, 16, 17, 25, 26, 29, 30}

Symm == Permutations(MCSecretKeys)

=============================================================================
