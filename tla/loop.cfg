SPECIFICATION FairSpec
CONSTANTS
  TimerCount = 2
  WatchCount = 2
  Fds = {3, 4}
  Delays = {0, 1}
  RunTimes <- RunTimes2
  MaxClock = 2
  MaxStarts = 2
INVARIANTS TypeOK WatchedOnce
PROPERTIES ImplementsTimerService TimersServed SocketsServed RunForReturns
