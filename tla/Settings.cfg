CONSTANT
  MaxEvents = 2
SPECIFICATION FairSpec
INVARIANTS
  TypeOK
  
  NeverResetAgain
  
PROPERTY
  ComesBack
CHECK_DEADLOCK FALSE
