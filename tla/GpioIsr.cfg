SPECIFICATION FairSpec
CONSTANTS
  Pins <- MCPins
  Programs <- Watching
  MaxIdle = 1
INVARIANTS SeenCurrent OnlyOwnPin
PROPERTIES HeldLongEnough EventuallySeen
