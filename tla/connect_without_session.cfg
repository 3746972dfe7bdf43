SPECIFICATION Spec
CONSTANTS
  Fds = {7}
  TimerCount = 2
  Types = {"list"}
  KeepAlive = "none"
  Calls = {"connect"}
  CallbackCalls = {}
  BaseDelay = 1
  MaxDelay = 4
  Factor = 2
  MaxRequests = 3
  MaxQueue = 1
  MaxDepth = 4
INVARIANT ConnectMeansSession
