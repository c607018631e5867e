CONSTANTS
  NumFds = 3
  MaxStops = 2
  MaxChanges = 2
SPECIFICATION FairSpec
INVARIANTS
  NoTaskNoConnection
  LeaksOnlyByStop
PROPERTIES
  StopsCompletely
  Reconnects
  HeartbeatFollows
CHECK_DEADLOCK FALSE
