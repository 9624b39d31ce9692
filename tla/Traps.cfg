SPECIFICATION Spec
CONSTANTS
  MInt = {"MTI"}
  SInt = {"SSI"}
  NoInt = none
  Exc = {ecall}
  PC = {p, q}
  MipOperand = {{"SSI"}}
INVARIANTS TakesWhatItLatched
PROPERTIES ReturnsToInterrupted MachineStateGuarded
