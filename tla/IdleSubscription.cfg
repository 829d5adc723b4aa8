SPECIFICATION LoggerSpec
CONSTANTS
  s1 = s1
  s2 = s2
  Subscriptions = {s1, s2}
  MaxMessages = 1
  MaxLines = 1
INVARIANT AverageIsANumber
CHECK_DEADLOCK FALSE
