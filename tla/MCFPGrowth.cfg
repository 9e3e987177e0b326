CONSTANTS
  NumItems = 3
  MaxTxns = 3
  Setups <- MCSetups
  StdSort <- MCStdSort
SPECIFICATION Spec
INVARIANTS
  TypeOK
  FramesAreProjections
  EmittedOnce
  MinedComplete
  EmittedAreWanted
