--------------------------- MODULE MCForwardOutbox ---------------------------
EXTENDS ForwardOutbox, TLC

CONSTANTS k1, k2, p1, p2, p3

Symmetry == Permutations(Tasks) \cup Permutations(Publishers)
=============================================================================
