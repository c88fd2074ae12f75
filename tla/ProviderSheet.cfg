CONSTANTS
  h1 = h1
  h2 = h2
  i1 = i1
  i2 = i2
  i3 = i3
  Handles <- MCHandles
  Loads <- MCLoads
  HandleOf <- MCHandleOf
  Providers <- AllProviders
  MaxClicks <- MCMaxClicks
SPECIFICATION FairSpec
INVARIANTS
  OneScript
  ReadyWithSdk
  NoOneLeftWaiting
PROPERTIES
  InitEnds
  SheetEnds
