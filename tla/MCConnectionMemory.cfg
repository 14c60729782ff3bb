SPECIFICATION Spec
CONSTANTS
  kWriteHighWaterMark = 2
  SendBuffer = 1
  MaxMessage = 2
  MaxOut = 4
  MaxIn = 1
INVARIANT MemoryBounded
CHECK_DEADLOCK FALSE
