--------------------------- MODULE MCWriteBehind ---------------------------
EXTENDS WriteBehind, TLC

Symmetry == Permutations(Callers)
=============================================================================
