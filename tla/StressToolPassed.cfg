CONSTANTS
    Concurrency = 1
    TotalNumber = 1
    DialAttempts = 1
    MaxDuration = 1
    MaxPacketSize = 3
    ReadLimit = 18
    ReceiveBuffer = 18
    Invalid = Invalid
SPECIFICATION Spec
CHECK_DEADLOCK FALSE
INVARIANT
    PassedMeansAcknowledged
