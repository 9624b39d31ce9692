SPECIFICATION FairSpec
CONSTANTS
  lo = lo
  hi = hi
  Tag = {0, 1, 2, 3, 4}
  Set = {0}
  LineWords = 2
  Lane <- MCLane
  Byte = {0, 1}
  NoWord = none
  Loads <- MCLoads
  Stores <- MCStores
  WalkAddr <- MCWalkAddr
  TagRam0 <- MCTagRam0
  DataRam0 <- MCDataRam0
  Sram0 <- MCSram0
INVARIANTS MemoryIsCurrent
PROPERTIES ImplementsMemory DataServed
