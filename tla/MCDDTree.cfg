CONSTANTS
  mBlockSize = 8
  CpSortIntervals = {8, 3}
  driftThreshold = 60
  Similarities = {0, 10, 45, 60, 100}
  Wrap = 16
  MaxWindow = 14
SPECIFICATION Spec
INVARIANTS
  TypeOK
  ExtrapolationIsOfLastInterval
  CpTreeIsSortedWhenCompared
  VerdictsCompareMeasured
