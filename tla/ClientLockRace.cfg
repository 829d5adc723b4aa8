SPECIFICATION Spec
CONSTANTS
  System <- OneService
  CommandLine <- TwoThreads
  Nodes <- MCNodes
  Clients <- MCClients
  Services <- MCServices
  Threads <- MCThreads
  ClientNode <- MCClientNode
  ClientService <- MCClientService
  ThreadNode <- MCThreadNode
  Period <- MCPeriod
  MaxRequests = 2
  MaxLost = 0
  TrackingMod = 5
  LatencyMod = 1024
  IntMod = 65536
  FloatMod = 16384
  MaxScale = 30
  MicrosPerSecond = 1000
  NanosPerMicro = 2
  LatePercentage = 20
  LateAbsolute = 5
  TooLatePercentage = 100
  TooLateAbsolute = 50
INVARIANT OneCallPastLock
CHECK_DEADLOCK FALSE
