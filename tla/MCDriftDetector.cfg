CONSTANTS
  a = a
  b = b
  Items <- MCItems
  Interval = 2
  Setups <- MCSetups
SPECIFICATION Spec
INVARIANTS
  TypeOK
  TablesAreCumulative
  CheckPointsTileWindow
  NewestBlockStays
  Histogram
PROPERTY AddReturns
