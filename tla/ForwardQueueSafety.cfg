SPECIFICATION Spec
CONSTANTS
  k1 = k1
  t1 = t1
  t2 = t2
  w1 = w1
  w2 = w2
  Tasks = {k1}
  Targets = {t1, t2}
  Workers = {w1, w2}
  NoWorker = NoWorker
  TimelyWork = FALSE
  TaskOf <- OneTask
SYMMETRY Symmetry
INVARIANTS
  CountersExact
  StatusReportsTargets
  SentOnceUnlessExcused
  HandledUnderLease
PROPERTIES
  PauseAndCancelHold
  PromiseKept
