SPECIFICATION Spec
CONSTANTS
  NUM_SOURCES = 4
  Ctx = {machine, supervisor}
  PrioMax = 2
  ThresholdMax = 1
  EnableWord = {{}, {0, 1, 2, 3}, {1, 3}}
SYMMETRY MCSymmetry
INVARIANTS DeliveredOnce PickIsBest
