SPECIFICATION Spec
CONSTANTS
  System <- TwoActions
  Nodes <- MCNodes
  Clients <- MCClients
  Actions <- MCActions
  ClientNode <- MCClientNode
  ClientAction <- MCClientAction
  PeriodUs <- MCPeriodUs
  MaxGoals = 3
  MaxLost = 2
  TrackingMod = 13
  LatencyMod = 1024
  IntMod = 65536
  FloatMod = 16384
  MaxScale = 30
  MicrosPerSecond = 1000
  NanosPerMicro = 2
  LatePercentage = 20
  LateAbsolute = 5
  TooLatePercentage = 100
  TooLateAbsolute = 50
INVARIANTS
  TypeOK
  LockMeansWaiting
  RepliesAccounted
PROPERTIES
  ImplementsAccounting
  LockIsReleased
CHECK_DEADLOCK FALSE
