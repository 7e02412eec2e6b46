SPECIFICATION Spec
CONSTANTS
  a = a
  b = b
  g = g
  r1 = r1
  r2 = r2
  r3 = r3
  Requests = {r1, r2, r3}
  Selected = {a, b}
  Chosen = {b}
  Excluded = {a}
  Groups = {g}
SYMMETRY Symmetry
CHECK_DEADLOCK FALSE
INVARIANTS
  CountWrongOnlyByRemoval
  ExclusionHolds
