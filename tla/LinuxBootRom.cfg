SPECIFICATION Spec
CONSTANTS
  Setups <- MCNewRom
  KernelAt = 1
  DtbAt = 3
  InitrdAt = 4
  HsAt = 6
  DdrUnits = 8
  SimRequests <- MCWithRom
  JtagRequests <- MCJtagRequests
  MaxSessions = 2
  MaxResets = 2
  Core = "pipeline"
  Addr = {1, 2}
  Xlate <- MCXlate
  ExitCodes = {0, 256}
  ResetToggles = 1
INVARIANT PollFires
CHECK_DEADLOCK FALSE
