SPECIFICATION Spec
CONSTANTS
  Clients = {a, b}
  Nobody = Nobody
  TimerCount = 3
  WatchCount = 2
  Fds = {3, 4}
SYMMETRY Swap
INVARIANT LoopGoesOn
