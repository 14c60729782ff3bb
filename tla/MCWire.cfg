SPECIFICATION WireSpec
CONSTANTS
  ByteBits = 2
  kCrc16Poly = 3
  MaxByte = 3
  BufferSize <- kBufferSize
  Finish <- finish_frame
  Frames <- MCFrames
  Encoded <- Undelimited
  MaxFrames = 3
  MaxFaults = 2
  MaxInput = 5
  NoInput = NoInput
  Items = {1, 2}
  Capacity = 3
  MaxPushes = 6
INVARIANTS
  CobsRoundTrip
  OverflowExact
  FrameRoundTrip
  
  CountedOnce
  LossBounded
  NoRace
PROPERTY ImplementsFifo
CHECK_DEADLOCK FALSE
