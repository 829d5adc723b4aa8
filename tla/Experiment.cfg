SPECIFICATION ExperimentSpec
CONSTANTS
  MicrosPerSecond = 1000000
  Executors <- MCExecutors
  Systems <- WorkingSystems
  OwnerShutsDown = TRUE
  Programs <- MCPrograms
  MaxReceived = 2
  GraceSuffices = TRUE
INVARIANTS
  ExperimentTypeOK
  NothingOutlivesSystem
  ReportsAgree
PROPERTIES
  ExperimentEnds
CHECK_DEADLOCK FALSE
