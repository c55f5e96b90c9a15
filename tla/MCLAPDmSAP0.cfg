SPECIFICATION Spec
CONSTANTS
  SAPI = 0
  N200 = 1
  SeqMod = 3
  TxBound = 2
  MaxRequests <- MCOneEach
  MaxSessions = 2
  Standard = {"MS"}
  PromptTimer = TRUE
  PatientT200 = FALSE
  Segment <- MCSegment
  Sum <- MCSum
  Message <- MCMessage
CHECK_DEADLOCK FALSE
INVARIANTS
  TypeOK
  WindowOne
  OutstandingIsTimed
  Layer3Knows
  FreshMeansReleased
PROPERTIES
  LinkService
