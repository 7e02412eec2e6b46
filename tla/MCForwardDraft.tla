---------------------------- MODULE MCForwardDraft ----------------------------
EXTENDS ForwardDraft, TLC

CONSTANTS a, b, g, r1, r2, r3

Symmetry == Permutations(Requests)
=============================================================================
