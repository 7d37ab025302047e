CONSTANTS
    Sessions = {s1, s2}
    Users = {u1, u2}
    s1 = s1
    s2 = s2
    u1 = u1
    u2 = u2
    NoSession = NoSession
    NoUser = NoUser
    Unroutable = Unroutable
    Damaged = Damaged
    NoPacket = NoPacket
    SendCap = 1
    MaxBroadcasts = 2
    CounterRange = 3
SPECIFICATION MCSpec
CHECK_DEADLOCK FALSE
SYMMETRY Symmetry
INVARIANTS
    TypeOK
    NoStaleEntry
    SoleSessionReachable
    NoMisrouting
    OrderedAtMostOnce
    BoundBeforePublish
    ReportRight
PROPERTY
    RoutesAtOnce
