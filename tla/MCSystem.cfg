SPECIFICATION SysSpec
CONSTANTS
  Fds = {3, 4}
  IdSpace = 2
  Rates = {5}
  kMaxSampleRateHz = 4
  kDeviceTimeout = 5
  kHousekeepingInterval = 1
  Delay = 0
  MaxAccepts = 1
  kHeartbeatInterval = 1
  Jitter = 1
  Latency = 1
  MaxLost = 1
  MaxBehind = 1
  DefaultRate = 5
INVARIANTS
  RateFollowed
PROPERTIES
  LiveKept
  MissingReported
  Served
  DevicesThrottled
