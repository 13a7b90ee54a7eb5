SPECIFICATION FairSpec
CONSTANTS
  Word <- MCWord
  Zero = 0
  RegFile <- MCRegFile
  Regs0 = 0
  Dev <- MCDev
  Dev0 <- MCDev0
  Cell <- MCCell
  Bubble = Bubble
  Class <- MCClass
  Plus4 <- MCPlus4
  Alu <- MCAlu
  MulResult <- MCMulResult
  DivResult <- MCDivResult
  DivAtOnce <- MCDivAtOnce
  LoadData <- MCLoadData
  Merge <- MCMerge
  WriteRd <- MCWriteRd
  Taken <- MCTaken
  Target <- MCTarget
  DataTarget <- MCDataTarget
  FetchTarget <- MCFetchTarget
  RomHit <- MCRomHit
  CellOf <- MCCellOf
  DevRead <- MCDevRead
  DevAfterRead <- MCDevAfterRead
  DevAfterWrite <- MCDevAfterWrite
  DevReset <- MCDevReset
  DevMoves <- MCDevMoves
  XipOn <- MCXipOn
  CsrOf <- MCCsrOf
  CsrWriteData <- MCCsrWriteData
  MIE <- MCMIE
  OnTrap <- MCOnTrap
  OnMret <- MCOnMret
  Enabled <- MCEnabled
  MipWord <- MCMipWord
  Identifier <- MCIdentifier
  CauseWord <- MCCauseWord
  Vector <- MCVector
  Lines = {}
  MulCycles = 2
  DivCycles = 2
  Programs <- FlashPrograms
  RomAddrs = {0, 1, 2, 3}
  RamAddrs = {4, 5}
  DiskAddrs = {}
  XipAddrs = {7, 8, 9, 10}
  Free = {1, 4, 5, 6, 9, 10}
INVARIANTS ExecutesFetched NoStaleAck
PROPERTIES ImplementsISA EveryStallEnds KeepsExecuting
