CONSTANTS
  Process = {p1, p2}
  NFILE = 2
  NOFILE = 2
  Page = {x}
  PIPESIZE = 2
  UINT = 4
  Bufs <- Marked
  Lengths = {1}
  Mortal = {p2}
  Null = Null
SPECIFICATION FairSpec
INVARIANTS
  FInv
  SleepJustified
PROPERTIES
  IsStream
  HangupSeen
CHECK_DEADLOCK FALSE
