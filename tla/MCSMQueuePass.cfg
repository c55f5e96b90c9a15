SPECIFICATION LiveSpec
CONSTANTS
  m1 = m1
  m2 = m2
  Message = {m1, m2}
  Registering = {m2}
  Quoted = {m1, m2}
  Plain = {m2}
  Row = {1,2,3,4,5,6}
  Relayed = {"phone"}
  Short = 1
  Resend = 1
  Acked = 1
  Long = 2
  MaxWire = 1
  MaxEvents = 2
INVARIANTS TypeOK AcceptedIsKept FairCharge
CHECK_DEADLOCK FALSE
PROPERTIES AcceptedIsTold
