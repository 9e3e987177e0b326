CONSTANTS
  Items = {a, b}
  L = 4
  W = 3
  TidMod = 8
  MaxTxns = 8
SPECIFICATION Spec
INVARIANTS
  TypeOK
  ActiveChunksExact
  IndexIsWindow
  CallbacksSeeTheWindow
  SlotChangesHands
PROPERTY ImplementsSlidingWindow
