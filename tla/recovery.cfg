SPECIFICATION FairLoopSpec
CONSTANTS
  Fds = {7}
  TimerCount = 2
  Types = {"list"}
  KeepAlive = "none"
  Calls = {"connect", "sendRequest"}
  CallbackCalls = {"sendRequest"}
  BaseDelay = 1
  MaxDelay = 1
  Factor = 2
  MaxRequests = 3
  MaxQueue = 1
  MaxDepth = 4
INVARIANTS MessageFindsClient ConnackReachesItsConnect QueueFresh PingsGoOn
PROPERTIES CallsReturn NextAttemptComes
