SPECIFICATION FairSpec
CONSTANTS
  Strays <- MCStrays
  Align = 1
  RamBytes = 24
  MaxStatics = 12
  MaxResets = 1
INVARIANT StaticsReady
