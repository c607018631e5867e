CONSTANTS
  QueueLen = 2
  Setups <- AllSetups
  TcpChoices <- SomeTcp
  MaxChanges = 3
SPECIFICATION FairSpec
INVARIANTS
  TypeOK
  ServicesFollowNetwork
  FlagsMatchServices
  EvaluationIsCurrent
  
PROPERTIES
  ImplementsScheduler
  
  WifiLossNoticed
