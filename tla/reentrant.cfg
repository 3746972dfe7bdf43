SPECIFICATION Spec
CONSTANTS
  Fds = {7, 8}
  TimerCount = 2
  Types = {"list"}
  KeepAlive = "list"
  Calls <- AllCalls
  CallbackCalls = {"connect", "disconnect", "sendRequest"}
  BaseDelay = 1
  MaxDelay = 4
  Factor = 2
  MaxRequests = 3
  MaxQueue = 1
  MaxDepth = 4
INVARIANTS TypeOK ReconnectTimer MiscTimer ExpectedResponseLive  BackoffIsReset ConnectedIsWatched
PROPERTIES DisconnectLeavesNothing ReconnectSurvives OnlyDisconnectForgets
