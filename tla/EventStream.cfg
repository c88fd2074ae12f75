CONSTANTS
  Kinds = {"outcome"}
  BufferSize = 2
  MaxPublished = 5
  MaxCuts = 3
SPECIFICATION FairSpec
INVARIANTS
  InOrderOnce
  Recoverable
PROPERTY Arrives
