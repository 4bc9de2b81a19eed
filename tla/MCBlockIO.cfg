SPECIFICATION Spec
CONSTANTS
    Process = {p1, p2}
    NBUF = 2
    NBLOCK = 3
    Drivers = {"ide", "memide"}
    MaxCalls = 2
    MaxPinned = 1
    MaxErrors = 1
    None = None
INVARIANTS
  BInv
  ReadsLatest
  SleepersQueued
PROPERTIES
  BreadReturns
CHECK_DEADLOCK FALSE
