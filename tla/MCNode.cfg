SPECIFICATION FairSpec
CONSTANTS
  kQueueCapacity = 1
  FrameSize = 3
  Rates = {1}
  DefaultRate = 2
  MaxReadings = 3
  MaxHeartbeats = 1
  MaxArrivals = 2
INVARIANTS
  HelloFirst
  PipelineIntact
  DamageBounded
PROPERTIES
  InversionBounded
  PromptRate
  
