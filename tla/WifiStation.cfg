CONSTANTS
  MaxChanges = 3
  MaxEvents = 3
SPECIFICATION FairSpec
INVARIANTS
  KeepsTrying
  PauseEndsWithScan
  TellsTheTruth
PROPERTY
  ReconnectsUnlessGivenUp
