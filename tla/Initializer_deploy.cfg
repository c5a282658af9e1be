SPECIFICATION FairSpec
CONSTANTS
  p1 = p1
  p2 = p2
  Process <- TwoProcesses
  Statements <- SmallSchemas
  Provisioned <- Either
  Faulty = TRUE
INVARIANTS
  TypeOK
  ExitZeroMeansReady
  EndsInOrder
PROPERTIES
  DeploymentsConverge
