SPECIFICATION Spec
CONSTANTS
  MicrosPerSecond = 1000000
  Executors <- MCExecutors
  Systems <- WorkingSystems
  OwnerShutsDown = TRUE
INVARIANTS
  TypeOK
  NoThreadOutlivesSystem
PROPERTY SpinFunctionsStop
CHECK_DEADLOCK FALSE
