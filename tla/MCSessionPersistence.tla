------------------------ MODULE MCSessionPersistence ------------------------
EXTENDS SessionPersistence, TLC

\* The callers are interchangeable.
CallerSymmetry == Permutations(Callers)
=============================================================================
