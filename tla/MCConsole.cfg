SPECIFICATION FairSpec
CONSTANTS
    Readers <- MCReaders
    Counts <- MCCounts
    INPUT_BUF = 3
    UINT = 6
    Start = 5
    COLS = 2
    ROWS = 2
    Keys <- MCKeys
    Received <- MCReceived
    Texts <- MCTexts
    MaxEvents = 5
    MaxReads = 2
INVARIANTS
  InputDelivered
  EofOnce
  ScreenAndKeys
PROPERTIES
  ReadersServed
CHECK_DEADLOCK FALSE
