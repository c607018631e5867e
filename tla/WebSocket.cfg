CONSTANTS
  Browsers = {b1, b2}
  Fds = {11, 12}
  NumSlots = 2
  QueueLen = 1
  MaxOpens = 3
SPECIFICATION FairSpec
INVARIANTS
  TypeOK
  SlotsAreOpen
  ListenersHaveSlots
PROPERTIES
  Drains
  StaleSlotsEnd
