SPECIFICATION Spec
CONSTANTS
  main = main
  worker = worker
  Sleepers <- MCSleepers
  Expiring = {main}
PROPERTY SleepEnds
CHECK_DEADLOCK FALSE
