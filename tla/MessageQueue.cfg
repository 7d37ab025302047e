CONSTANTS
    c1 = c1
    c2 = c2
    Calls = {c1, c2}
    ClientCap = 2
    ChanCap = 1
    MaxTopic = 5
    MaxLosses = 2
SPECIFICATION MQFairSpec
CHECK_DEADLOCK FALSE
INVARIANTS
    MQTypeOK
    MQInOrder
    ReturnedMeansStored
PROPERTIES
    PublishReturns
    OnlyTheNetworkLoses
    CloseEndsLoop
