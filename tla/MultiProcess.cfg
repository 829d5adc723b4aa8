SPECIFICATION ProcessesSpec
CONSTANTS
  a = a
  b = b
  c = c
  Stems = {a, b, c}
  CommandLines <- MCCommandLines
  Trackers <- MCTrackers
  PreviousTotal <- MCPreviousTotal
  MayCrash = TRUE
INVARIANTS
  ProcessesTypeOK
  AggregateIsComplete
PROPERTIES
  NoPeerOverwritten
  ParentReports
CHECK_DEADLOCK FALSE
