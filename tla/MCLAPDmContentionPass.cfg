SPECIFICATION Spec
CONSTANTS
  SAPI = 0
  N200 = 1
  SeqMod = 8
  TxBound = 3
  UpBound = 2
  MaxFrames = 2
  p1 = p1
  p2 = p2
  p3 = p3
  Phone <- MCPhone
  Segment <- MCSegment
  Sum <- MCSum
  Identity <- MCIdentity
CHECK_DEADLOCK FALSE
INVARIANTS
  TypeOK
  OnlyTheContender
PROPERTIES
  NoLateHandset
