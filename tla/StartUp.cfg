SPECIFICATION FairSpec
CONSTANTS
  Strays <- MCStrays
  Align = 4
  RamBytes = 24
  MaxStatics = 12
  MaxResets = 1
INVARIANTS StaticsReady DriversReach AnsweredOnce
PROPERTY Completes
