SPECIFICATION LinkSpec
CONSTANTS
  ByteBits = 2
  kCrc16Poly = 3
  MaxByte = 3
  BufferSize <- kBufferSize
  Finish <- finish_frame
  Frames <- MCFrames
  Encoded <- Undelimited
  MaxFrames = 3
  MaxFaults = 1
INVARIANTS
  OneFramePerByte
CHECK_DEADLOCK FALSE
