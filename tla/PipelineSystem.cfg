SPECIFICATION Spec
CONSTANTS
  PcCount = 3
  TrapVector = 0
  BranchTarget = 2
  ReturnTarget = 1
  x = x
  Reg <- MCReg
  NoReg = x0
  Word = {w1, w2}
  NoWord = nowhere
  IdCount = 16
  Class = {"alu", "load", "store", "div", "branch", "csr", "satp", "ret", "fencei", "ecall", "illegal", "lr", "sc", "amo"}
VIEW MCView
INVARIANTS ResultsOwned DecodeIsFree
PROPERTIES ImplementsIsa CommitsInOrder
