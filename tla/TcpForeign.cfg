CONSTANTS
  MaxClients = 1
  CleanupLen = 1
  NumFds = 2
  NumConns = 1
  MaxStops = 1
SPECIFICATION Spec
PROPERTY
  ForeignSocketsUntouched
CHECK_DEADLOCK FALSE
