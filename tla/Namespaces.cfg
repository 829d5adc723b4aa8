SPECIFICATION ComposedSpec
CONSTANTS
  Nodes <- MCTwoNodes
  OtherNodes = {}
  Namespace <- MCLocalNamespace
  Published <- MCPublished
  Subscribed <- MCSubscribed
  Timers <- MCTimers
  Compatible <- MCCompatible
  Latencies <- MCLatencies
  MaxPublish = 2
  TrackingMod = 4
  LatencyMod = 1024
  IntMod = 65536
  FloatMod = 16384
  MaxScale = 30
  MicrosPerSecond = 1000
  NanosPerMicro = 2
  LatePercentage = 20
  LateAbsolute = 5
  TooLatePercentage = 100
  TooLateAbsolute = 50
INVARIANT AbortsUndiscovered
CHECK_DEADLOCK FALSE
