CONSTANTS
  NI = 4
  ND = 4
  BS = 3
  DP = 2
  Name = {a, b}
  Data = {101}
  MaxOps = 6
  Garbage <- MCGarbage
SYMMETRY Symm
SPECIFICATION Spec
INVARIANTS
  UInv
  WriteReadBack
PROPERTIES
  Isolation
