SPECIFICATION FairSpec
CONSTANTS
  n1 = n1
  n2 = n2
  w1 = w1
  w2 = w2
  Names = {n1}
  Workers = {w1}
  NoWorker = NoWorker
  BatchSize = 2
  MaxAttempts = 2
  MaxJobs = 2
  OneInstance = TRUE
  Bans = FALSE
CHECK_DEADLOCK FALSE
PROPERTIES
  EveryRowSettles
