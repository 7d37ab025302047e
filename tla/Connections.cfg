CONSTANTS
    WriteCap = 2
    MaxRequests = 5
    Sessions = {s1}
    Users = {u1}
    s1 = s1
    u1 = u1
    NoSession = NoSession
    NoUser = NoUser
    Unroutable = Unroutable
    Damaged = Damaged
    NoPacket = NoPacket
    SendCap = 1
    MaxBroadcasts = 3
SPECIFICATION MCSpec
CHECK_DEADLOCK FALSE
INVARIANTS
    TypeOK
    AnswersInOrder
PROPERTIES
    WriterEnds
    FailedWriteReleases
    CleanedUp
    ConsumerProgress
    QueueDrains
