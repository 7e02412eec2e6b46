CONSTANTS
  Callers = {s1, s2}
  Keys = {k1, k2}
  MaxIdle = 1
  None = None
  Users = {u1, u2}
  Limit = 1
  MaxSessions = 1
SYMMETRY Symmetry
SPECIFICATION Spec
INVARIANTS
  TypeOK
  PoolSafe
  LimitHolds
  RegistryMatches
CHECK_DEADLOCK FALSE
