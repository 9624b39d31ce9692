SPECIFICATION FairSpec
CONSTANTS
  PcCount = 1
  TrapVector = 0
  BranchTarget = 0
  ReturnTarget = 0
  Reg = {}
  NoReg = x0
  Word = {w}
  NoWord = nowhere
  IdCount = 16
  Class = {"alu", "div", "branch", "load", "store", "illegal", "csr", "satp", "ret", "fencei", "ecall", "lr", "sc", "amo"}
PROPERTIES KeepsCommitting
