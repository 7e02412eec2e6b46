SPECIFICATION FairSpec
CONSTANTS
  Accounts = {1, 2}
  Ensurers = {"e1", "e2"}
  MaxActs = 4
CHECK_DEADLOCK FALSE
INVARIANTS
  TypeOK
  SessionIsOfToken
PROPERTIES
  EnsureSettles
