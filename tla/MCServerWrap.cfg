SPECIFICATION Spec
CONSTANTS
  Fds = {f1, f2}
  IdSpace = 2
  Rates = {4}
  kMaxSampleRateHz = 3
  kDeviceTimeout = 1
  kHousekeepingInterval = 1
  Delay = 0
  MaxAccepts = 4
SYMMETRY FdSymmetry
INVARIANT Identified
