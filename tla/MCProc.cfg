CONSTANTS
  NPROC = 3
  NCPU = 2
  KillPids = {0, 2, 3}
  MaxPid = 3
  MaxSleep = 1
SPECIFICATION FairSpec
INVARIANTS
  PInv
PROPERTIES
  KilledExits
  ZombiesReaped
