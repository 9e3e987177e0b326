CONSTANTS
  NumItems = 2
  MaxTxns = 2
  Setups <- MCCantree
  StdSort <- MCStdSort
SPECIFICATION Spec
INVARIANT OnlyFrequentAreMined
