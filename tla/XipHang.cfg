SPECIFICATION FairSpec
CONSTANTS
  ByteBits = 2
  AddrBytes = 1
  WordBytes = 2
  Modes <- MsbMode0
  PCs <- MCPCs
  Rewrites = 1
  WaitBusy = FALSE
PROPERTY SessionEnds
