------------------------------ MODULE MCIMSync ------------------------------
EXTENDS IMSync, TLC

CONSTANTS n1, n2, w1, w2

Symmetry == Permutations(Names) \cup Permutations(Workers)

\* With a ban, the states in which no row is tried again and no row is of a
\* renaming or a mute.
Explored ==
  \/ userActive /\ ~missed
  \/ \A j \in Ids : jobs[j].attempts <= 1 /\ jobs[j].event \notin {"updated", "muted"}
=============================================================================
