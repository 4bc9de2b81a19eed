SPECIFICATION Spec
CONSTANTS
    Memories = {9, 13, 17}
    PGSIZE = 8
    NPTE = 2
    UPDE = 2
    KPDE = 1
    NPROC = 2
    MAXARG = 2
    Programs <- MCPrograms
    Deltas <- MCDeltas
    Values <- MCValues
    MaxCalls <- MCCalls
INVARIANTS
  PhysicalSound
  UserSound
  CallsEndClean
