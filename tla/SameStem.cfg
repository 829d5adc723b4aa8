SPECIFICATION ProcessesSpec
CONSTANTS
  a = a
  b = b
  c = c
  Stems = {a, b, c}
  CommandLines <- SameStem
  Trackers <- MCTrackers
  PreviousTotal <- MCPreviousTotal
  MayCrash = FALSE
PROPERTIES NoPeerOverwritten
CHECK_DEADLOCK FALSE
