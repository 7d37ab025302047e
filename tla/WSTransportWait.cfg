CONSTANTS
    WriteCap = 1
    MaxRequests = 2
SPECIFICATION FairSpec
CHECK_DEADLOCK FALSE
PROPERTY
    WaitCompletes
