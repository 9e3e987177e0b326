CONSTANTS
  Items = {a}
  L = 3
  W = 2
  TidMod = 8
  MaxTxns = 8
SPECIFICATION Spec
INVARIANT FrontSlotIsReused
