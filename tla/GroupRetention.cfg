SPECIFICATION Spec
CONSTANTS
  w1 = w1
  w2 = w2
  Days = 2
  Workers = {w1, w2}
  MaxSeq = 3
  Quotas = {1, 2}
  Windows = {1, 2}
  DefaultQuota = 1
  DefaultWindow = 1
  MaxAttempts = 2
  TimesInOrder = TRUE
SYMMETRY Symmetry
CONSTRAINT Explored
INVARIANTS
  TypeOK
  OnlyExpendableHidden
  PlanOfLastClaim
  BoundsAgree
PROPERTIES
  BoundGrows
