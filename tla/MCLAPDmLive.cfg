SPECIFICATION FairSpec
CONSTANTS
  SAPI = 0
  N200 = 1
  SeqMod = 3
  TxBound = 2
  MaxRequests <- MCOneEach
  MaxSessions = 1
  Standard = {"MS"}
  PromptTimer = TRUE
  PatientT200 = FALSE
  Segment <- MCSegment
  Sum <- MCSum
  Message <- MCTwoMessages
CHECK_DEADLOCK FALSE
PROPERTIES
  SendReturns
  ReleaseReturns
