SPECIFICATION Spec
CONSTANTS
  Threads = {t1, t2}
  None = None
  Entities = {e1, e2}
  Senders <- MCPublishers
  Latencies <- MCLatencies
  Skips <- MCSkips
  MaxMessages = 2
  TrackingMod = 5
  LatencyMod = 1073741824
  IntMod = 4194304
  FloatMod = 16384
  MaxScale = 30
  MicrosPerSecond = 1000
  NanosPerMicro = 2
  LatePercentage = 20
  LateAbsolute = 5
  TooLatePercentage = 100
  TooLateAbsolute = 50
INVARIANT NoPhantomLosses
CHECK_DEADLOCK FALSE
