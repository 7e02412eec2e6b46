SPECIFICATION Spec
CONSTANTS
  n1 = n1
  n2 = n2
  w1 = w1
  w2 = w2
  Names = {n1, n2}
  Workers = {w1, w2}
  NoWorker = NoWorker
  BatchSize = 2
  MaxAttempts = 2
  MaxJobs = 3
  OneInstance = TRUE
  Bans = TRUE
SYMMETRY Symmetry
CONSTRAINT Explored
CHECK_DEADLOCK FALSE
INVARIANTS
  TypeOK
  RelationsConverge
  GroupConverges
