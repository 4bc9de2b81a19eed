SPECIFICATION Spec
CONSTANTS
    NINODES = 5
    NBLOCKS = 8
    UPB = 2
    NDIRECT = 1
    NINDIRECT = 2
    NINODE = 4
    p1 = p1
    p2 = p2
    Process = {p1, p2}
    Image <- MCImage
    Requests <- MCRequests
    Data = {"y"}
    MAXWRITE = 1
    MaxCalls = 2
    None = None
INVARIANTS
  TreeSound
  ImageSound
  RefsExact
  InUseStays
  LocksSound
CHECK_DEADLOCK FALSE
