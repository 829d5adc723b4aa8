SPECIFICATION LoggerSpec
CONSTANTS
  s1 = s1
  s2 = s2
  Subscriptions = {s1}
  MaxMessages = 2
  MaxLines = 2
INVARIANT EachMessageReportedOnce
CHECK_DEADLOCK FALSE
