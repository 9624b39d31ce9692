SPECIFICATION FairSpec
CONSTANTS
  Depth = 2
  Base = 4
  Target = 6
  Wrap = 8
  Heaps = {100, 200, 300, 500, 600, 2048}
  Tcb = 20
INVARIANTS PrintsWhole KeepsPace ExitMeans
PROPERTY KeepsGoing
CHECK_DEADLOCK FALSE
