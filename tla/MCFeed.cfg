SPECIFICATION Spec
CONSTANTS
  MetricNames = {"temp", "pressure"}
  Watched = "temp"
  IdSpace = 4
  Session = 3
  Commands <- MCCommands
  MaxTyped = 2
  MaxPublished = 2
INVARIANTS
  CommandsWhole
  FeedExact
  
CHECK_DEADLOCK FALSE
