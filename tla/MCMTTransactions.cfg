SPECIFICATION Spec
CONSTANTS
  m1 = m1
  call1 = call1  sms1 = sms1
  sd1 = sd1  sd2 = sd2  tch1 = tch1
  None = None
  Mobile = {m1}  Request = {call1, sms1}  SMS = {sms1}
  Subscriber <- OnePhone
  SDCCH = {sd1}  TCH = {tch1}
  MaxSent <- SMSTwice
  Strays = {"CallConfirmed", "Disconnect", "IMSIDetach", "Other"}
  MaxStrays = 1
  Prompt = TRUE
INVARIANTS TypeOK NoDanglingUse HasFIFO AnsweredNotRejected PagedOnceHasNoChannel
CHECK_DEADLOCK FALSE
