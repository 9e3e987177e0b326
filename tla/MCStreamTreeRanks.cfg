CONSTANTS
  Setups <- MCSpoFile
  Scores = {0, 1}
SPECIFICATION Spec
INVARIANT AdjustedRanksAreCorrect
