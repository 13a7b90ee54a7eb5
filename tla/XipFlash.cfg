SPECIFICATION Spec
CONSTANTS
  ByteBits = 2
  AddrBytes = 1
  WordBytes = 2
  Modes <- Troubles
  PCs <- MCPCs
  Rewrites = 1
  WaitBusy = TRUE
INVARIANTS ReturnsMiso ByteArrives AlwaysFresh
