SPECIFICATION Spec
CONSTANTS
  PageSize = 1
  Window = 2
  UntilTorn = TRUE
  Sends = {1}
  MaxMessages = 2
  MaxSessions = 2
  MaxActs = 3
CHECK_DEADLOCK FALSE
INVARIANTS
  TypeOK
  NoBubbleTwice
  WindowExact
  SendsStayInSession
PROPERTIES
  MarksStay
