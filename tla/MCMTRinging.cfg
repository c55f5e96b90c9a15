SPECIFICATION FairSpec
CONSTANTS
  m1 = m1
  call1 = call1  sms1 = sms1
  sd1 = sd1  sd2 = sd2  tch1 = tch1
  None = None
  Mobile = {m1}  Request = {call1}  SMS = {}
  Subscriber <- OnePhone
  SDCCH = {sd1}  TCH = {tch1}
  MaxSent <- SentOnce
  Strays = {"CallConfirmed"}
  MaxStrays = 1
  Prompt = FALSE
PROPERTY RingingKept
CHECK_DEADLOCK FALSE
