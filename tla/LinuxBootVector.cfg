SPECIFICATION Spec
CONSTANTS
  Setups <- MCSimSetup
  KernelAt = 1
  DtbAt = 3
  InitrdAt = 4
  HsAt = 6
  DdrUnits = 8
  SimRequests <- MCWithoutRom
  JtagRequests <- MCJtagRequests
  MaxSessions = 2
  MaxResets = 2
  Core = "pipeline"
  Addr = {1, 2}
  Xlate <- MCXlate
  ExitCodes = {0, 256}
  ResetToggles = 1
INVARIANT NeverLost
CHECK_DEADLOCK FALSE
