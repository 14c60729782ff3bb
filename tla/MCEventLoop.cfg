SPECIFICATION LoopFairSpec
CONSTANTS
  Fds = {1, 2}
  kMaxEventsPerWait = 2
  kHousekeepingInterval = 3
  Millisecond = 2
  MaxConnections = 3
INVARIANTS
  NotMisled
  OnTime
PROPERTIES
  ClosedSwept
  InputRead
