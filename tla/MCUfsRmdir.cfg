CONSTANTS
  NI = 5
  ND = 6
  BS = 3
  DP = 2
  Name = {a, b, c}
  Data = {}
  MaxOps = 6
  Garbage <- MCGarbage
SYMMETRY Symm
SPECIFICATION Spec
INVARIANT NonEmptyStays
