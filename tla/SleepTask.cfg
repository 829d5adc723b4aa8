SPECIFICATION Spec
CONSTANTS
  main = main
  worker = worker
  Sleepers <- MCSleepers
  Expiring = {main}
INVARIANTS
  TypeOK
  NoDanglingCallback
PROPERTY WokenByShutdown
CHECK_DEADLOCK FALSE
