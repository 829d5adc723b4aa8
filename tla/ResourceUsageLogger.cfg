SPECIFICATION LoggerSpec
CONSTANTS
  s1 = s1
  s2 = s2
  Subscriptions = {s1, s2}
  MaxMessages = 2
  MaxLines = 2
INVARIANTS
  LoggerTypeOK
  NothingAfterStop
PROPERTY StopReturns
CHECK_DEADLOCK FALSE
