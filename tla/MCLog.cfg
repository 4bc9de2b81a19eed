CONSTANTS
  Proc = {p1, p2}
  Block = {b1, b2, b3}
  Val = {v0, v1}
  Zero = v0
  NoProc = NoProc
  NoVal = NoVal
  LOGSIZE = 4
  MAXOPBLOCKS = 2
  NLOG = 4
  MaxWrites = 1
  MaxCalls = 7
SPECIFICATION LiveSpec
INVARIANTS
  IInv
  NoPanic
PROPERTIES
  CrashAtomic
  CallsReturn
CHECK_DEADLOCK FALSE
