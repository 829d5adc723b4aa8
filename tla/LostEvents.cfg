SPECIFICATION Spec
CONSTANTS
  Publishers <- MCPublishers
  Subscriptions <- MCSubscriptions
  Topics <- MCTopics
  PublisherTopic <- MCPublisherTopic
  SubscriptionTopic <- MCSubscriptionTopic
  Timers <- MCTimers
  Tracked <- MCTracked
  Latencies <- MCOneLatency
  MaxPublish = 3
  TrackingMod = 5
  LatencyMod = 1024
  IntMod = 65536
  FloatMod = 16384
  MaxScale = 30
  MicrosPerSecond = 1000
  NanosPerMicro = 2
  LatePercentage = 20
  LateAbsolute = 5
  TooLatePercentage = 100
  TooLateAbsolute = 50
INVARIANT LostEventsNameLostMessages
CHECK_DEADLOCK FALSE
