SPECIFICATION FairSpec
CONSTANTS
    Inputs <- MCInputs
    MIN_THREAD_ELEM = 1
    NPROC = 2
    INT_MAX = 7
INVARIANTS
  RaceFree
  SortsUnlessBeyond
  SerialSorts
PROPERTIES
  Terminates
CHECK_DEADLOCK FALSE
