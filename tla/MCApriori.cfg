CONSTANTS
  NumItems = 4
  MaxTxns = 2
  MaxThreads = 4
  MinConf = 90
  MinLift = 100
SPECIFICATION Spec
INVARIANTS
  TypeOK
  ResultExact
  RulesFromResult
PROPERTIES
  ImplementsLevelwiseSearch
  AprioriEnds
