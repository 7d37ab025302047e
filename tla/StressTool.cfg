CONSTANTS
    Concurrency = 2
    TotalNumber = 2
    DialAttempts = 2
    MaxDuration = 2
    MaxPacketSize = 3
    ReadLimit = 18
    ReceiveBuffer = 18
    Invalid = Invalid
SPECIFICATION MCSpec
CHECK_DEADLOCK FALSE
INVARIANTS
    TypeOK
    ReportComplete
    ReportHonest
    LatenciesFit
    RoundTrip
    FrameOrError
    ResponseReadAsBroadcast
PROPERTY
    ToolEnds
