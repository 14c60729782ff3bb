SPECIFICATION Spec
SYMMETRY Interchangeable
CONSTANTS
  Sessions <- MCSessions
  Metrics = {0}
  kTempMetricId = 0
  Values <- MCValues
  Stamps = {7}
  SubscriberIds = {d1, d2}
  None = None
  kHistoryPerDevice = 3
  kHighThresholdMilli = 0
  MinInt <- MCMinInt
  MaxInt = 15
  MaxNow = 1
INVARIANTS
  ExcursionNeverSilent
  AverageWithinReadings
PROPERTIES
  LatchedUntilAcked
  AckDurationGrows
  ImplementsAlertBoard
  HistoryIsRecentSamples
