CONSTANTS
  a = a
  b = b
  Items <- MCItems
  Interval = 2
  Setups <- MCSampleSetups
SPECIFICATION Spec
INVARIANT CountsAreOfTheirSample
