SPECIFICATION Spec
CONSTANTS
  t0 = t0
  t1 = t1
  t2 = t2
  t3 = t3
  t4 = t4
  Tag <- MCTag
  Set = {0}
  LineWords = 4
  Word = {0, 1}
  FetchAddr <- MCFetchAddr
  StoreAddr <- MCStoreAddr
  NoAddr <- MCNoAddr
  TagRam0 <- MCTagRam0
  DataRam0 <- MCDataRam0
  Sram0 <- MCSram0
SYMMETRY MCSymmetry
VIEW MCView
INVARIANTS FenceClears FetchedSinceFence
