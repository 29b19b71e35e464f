------------------------- MODULE MCSessionRunState -------------------------
EXTENDS SessionRunState, TLC

CallerSymmetry == Permutations(Callers)
============================================================================
