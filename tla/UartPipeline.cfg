CONSTANTS
  QueueLen = 3
  Backlog = 2
  Keep = 1
  LowBacklog = 2
  LowClear = 1
  ModeLen = 2
  NumFrames = 3
  MaxReinits = 2
SPECIFICATION FairSpec
INVARIANTS
  BuffersAreHeld
  StrayConsumersStop
  QuietWhileReplaced
  InOrder
PROPERTIES
  
  BuffersAreReleased
CHECK_DEADLOCK FALSE
