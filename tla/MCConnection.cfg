SPECIFICATION FairSpec
CONSTANTS
  kWriteHighWaterMark = 3
  SendBuffer = 2
  MaxMessage = 2
  MaxOut = 6
  MaxIn = 2
INVARIANTS
  InterestExact
  OutStreamIntact
  InStreamIntact
PROPERTIES
  Delivered
  GoneNoticed
CHECK_DEADLOCK FALSE
