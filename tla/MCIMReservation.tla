-------------------------- MODULE MCIMReservation --------------------------
EXTENDS IMReservation, TLC

CONSTANTS r1, r2, r3

Symmetry == Permutations(Requests)
=============================================================================
