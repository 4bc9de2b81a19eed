SPECIFICATION FairSpec
CONSTANTS
    Lines <- MCLines
    Installed = {"src", "copy"}
    Files = {"f"}
    MAXARGS = 3
    NOFILE = 8
    PIPESIZE = 1
    MaxJobs = 2
    MaxFails = 2
INVARIANTS
  DescriptorsRight
  ForegroundInOrder
  ParseInverts
PROPERTIES
  JobsEnd
CHECK_DEADLOCK FALSE
