CONSTANTS
  Ids = {i1, i2}
  MaxChunks = 3
  Net = {t1}
  MaxMsgs = 1
SPECIFICATION FairSpec
INVARIANTS
  TypeOK
  WholeTransfers
  
PROPERTIES
  AckedIsSent
  LineReturns
