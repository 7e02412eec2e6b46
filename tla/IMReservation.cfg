SPECIFICATION ReservationSpec
CONSTANTS
  r1 = r1
  r2 = r2
  r3 = r3
  Requests = {r1, r2, r3}
  Nobody = Nobody
  Admin = Admin
SYMMETRY Symmetry
INVARIANTS
  ReservationTypeOK
  SentOnceUnlessExcused
  ResultsAreTrue
PROPERTIES
  DoneStands
CHECK_DEADLOCK FALSE
