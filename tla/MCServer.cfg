SPECIFICATION Spec
SYMMETRY FdSymmetry
CONSTANTS
  Fds = {f1, f2, f3}
  IdSpace = 3
  Rates = {0, 4}
  kMaxSampleRateHz = 3
  kDeviceTimeout = 1
  kHousekeepingInterval = 1
  Delay = 1
  MaxAccepts = 3
INVARIANTS
  WatchersAlive
  SilenceBounded
  IdentifiedUntilWrap
