SPECIFICATION BenchSpec
CONSTANTS
  Elfs <- MCOddElfs
  Args <- MCArgs
  SramBase = 16
  SramWords = 4
  PowerUp <- MCJunk
  ResetToggles = 2
  ExitCodes = {0, 1, 256}
  TohostWords <- MCTohostWords
INVARIANT ImageIsExact
CHECK_DEADLOCK FALSE
