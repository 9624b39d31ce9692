SPECIFICATION Spec
CONSTANTS
  MInt = {"MTI"}
  SInt = {"SEI", "STI"}
  NoInt = none
  Exc = {ecall}
  PC = {p}
  MipOperand = {{"STI"}}
INVARIANTS OnlyNamedBitsSet
