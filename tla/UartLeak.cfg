CONSTANTS
  QueueLen = 3
  Backlog = 2
  Keep = 1
  LowBacklog = 2
  LowClear = 1
  ModeLen = 2
  NumFrames = 3
  MaxReinits = 1
SPECIFICATION Spec
INVARIANT
  NothingIsLeaked
CHECK_DEADLOCK FALSE
