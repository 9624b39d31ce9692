SPECIFICATION BenchSpec
CONSTANTS
  Elfs <- MCElfs
  Args <- MCArgs
  SramBase = 16
  SramWords = 4
  PowerUp <- MCJunk
  ResetToggles = 2
  ExitCodes = {0, 1, 256}
  TohostWords <- MCTohostWords
INVARIANTS LoadsTheImage NothingLeftOpen FirstReportDecides CPassIsHonest
CHECK_DEADLOCK FALSE
