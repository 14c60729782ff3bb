SPECIFICATION Spec
CONSTANTS
  kQueueCapacity = 1
  FrameSize = 3
  Rates = {0, 1}
  DefaultRate = 2
  MaxReadings = 3
  MaxHeartbeats = 2
  MaxArrivals = 2
INVARIANT NoMissedSample
