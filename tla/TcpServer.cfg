CONSTANTS
  MaxClients = 2
  CleanupLen = 1
  NumFds = 3
  NumConns = 2
  MaxStops = 1
SPECIFICATION Spec
INVARIANTS
  CountHonest
  
CHECK_DEADLOCK FALSE
