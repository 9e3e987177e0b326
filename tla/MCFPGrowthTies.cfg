CONSTANTS
  NumItems = 2
  MaxTxns = 2
  Setups <- MCFptree
  StdSort <- MCStdSort
SPECIFICATION Spec
INVARIANT AllFrequentAreMined
