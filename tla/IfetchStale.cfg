SPECIFICATION Spec
CONSTANTS
  p1 = p1
  p2 = p2
  a1 = a1
  a2 = a2
  fs = fs
  fd = fd
  fk = fk
  NoPage = NoPage
  NoFrame = NoFrame
  Page <- MCPage
  NextPage <- MCRunOn
  Asid = {a1}
  Global = {p2}
  Frame = {fs, fd, fk}
  BareFrame <- MCBareFrame
  SramFrame = {fs}
  TablesInDdr = TRUE
  Denied = {}
  Mapping <- MCRemaps
  InitTable <- MCInit
  MaxStores = 1
  TlbSize = 1
  Priv = {"S"}
  Satp <- MCSatpOne
INVARIANTS FetchedSinceFence
CHECK_DEADLOCK FALSE
