SPECIFICATION WaitSpec
CONSTANTS
  ByteBits = 2
  AddrBytes = 1
  WordBytes = 2
  Modes <- AllModes
  PCs <- MCPCs
  Rewrites = 1
  WaitBusy = TRUE
INVARIANTS FetchedIsFlash ByteArrives Programmed ReturnsAnswer
PROPERTIES SessionEnds FetchServed
