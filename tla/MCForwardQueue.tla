--------------------------- MODULE MCForwardQueue ---------------------------
EXTENDS ForwardQueue, TLC

CONSTANTS k1, t1, t2, w1, w2

OneTask == [t \in Targets |-> k1]
Symmetry == Permutations(Targets) \cup Permutations(Workers)
=============================================================================
