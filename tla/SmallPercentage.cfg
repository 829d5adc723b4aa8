SPECIFICATION ProcessesSpec
CONSTANTS
  a = a
  b = b
  c = c
  Stems = {a, b, c}
  CommandLines <- OneTopology
  Trackers <- LongRun
  PreviousTotal <- MCPreviousTotal
  MayCrash = FALSE
INVARIANTS AggregateIsComplete
CHECK_DEADLOCK FALSE
