SPECIFICATION Spec
CONSTANTS
  System <- TwoServices
  CommandLine <- SingleThreaded
  Nodes <- MCNodes
  Clients <- MCClients
  Services <- MCServices
  Threads <- MCThreads
  ClientNode <- MCClientNode
  ClientService <- MCClientService
  ThreadNode <- MCThreadNode
  Period <- MCPeriod
  MaxRequests = 3
  MaxLost = 2
  TrackingMod = 5
  LatencyMod = 1024
  IntMod = 65536
  FloatMod = 16384
  MaxScale = 30
  MicrosPerSecond = 1000
  NanosPerMicro = 2
  LatePercentage = 20
  LateAbsolute = 5
  TooLatePercentage = 100
  TooLateAbsolute = 50
INVARIANTS
  TypeOK
  RequestsNumberedInOrder
  ServerCountsOnlyLostRequests
  ClientCountsFailedRoundTrips
PROPERTIES
  ImplementsAccounting
  LockIsReleased
CHECK_DEADLOCK FALSE
