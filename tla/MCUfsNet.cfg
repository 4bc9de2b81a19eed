CONSTANTS
  NI = 6
  ND = 3
  BS = 7
  DP = 1
  Name = {f, c1, c2, c3}
  Client = {c1, c2, c3}
  Shared = f
  Old = {c1, c2}
  Data = {101}
  Garbage <- MCGarbage
  MaxCalls = 3
  MaxPackets = 1
SPECIFICATION FairSpec
 
PROPERTY CallsReturn
CHECK_DEADLOCK FALSE
