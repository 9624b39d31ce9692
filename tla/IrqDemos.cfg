SPECIFICATION FairSpec
CONSTANTS
  Half = 32
  Period = 24
  Target = 3
  MaxIdle = 1
INVARIANTS ReadsBetween QuietWhileArming
PROPERTIES TicksOnTime Passes
CHECK_DEADLOCK FALSE
