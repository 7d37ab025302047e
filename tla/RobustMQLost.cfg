CONSTANTS
    c1 = c1
    c2 = c2
    Calls = {c1, c2}
    ChanCap = 1
    MaxTopic = 2
    MaxLosses = 1
SPECIFICATION FairSpec
CHECK_DEADLOCK FALSE
PROPERTY
    AtLeastOnce
