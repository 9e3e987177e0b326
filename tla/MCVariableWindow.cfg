CONSTANTS
  NumItems = 2
  ChunkSize = 2
  TidMod = 7
  MaxLen = 5
SPECIFICATION Spec
INVARIANTS
  TypeOK
  IndexIsWindow
  FrontHasFirstBit
PROPERTY ImplementsTransactionWindow
