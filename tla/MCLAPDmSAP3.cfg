SPECIFICATION Spec
CONSTANTS
  SAPI = 3
  N200 = 0
  SeqMod = 3
  TxBound = 2
  MaxRequests <- MCOneEach
  MaxSessions = 1
  Standard = {"MS"}
  PromptTimer = FALSE
  PatientT200 = FALSE
  Segment <- MCSegment
  Sum <- MCSum
  Message <- MCNetworkMessage
CHECK_DEADLOCK FALSE
PROPERTIES
  LinkService
