CONSTANTS
  Setups <- MCSetups
  Scores = {0, 1}
SPECIFICATION Spec
INVARIANTS
  TypeOK
  TreeHoldsWindow
  LeavesExact
  PathsFollowLastSort
  SortedAfterSort
  MinedWindowIsFull
  SortTransactionVerifies
  DiffSumValid
  CoocurrencesExact
PROPERTY SortTerminates
