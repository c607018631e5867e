CONSTANTS
  MaxChanges = 1
  MaxEvents = 3
SPECIFICATION FairSpec
PROPERTY
  Reconnects
