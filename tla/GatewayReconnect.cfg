CONSTANTS
    Sessions = {s1, s2}
    Users = {u1}
    s1 = s1
    s2 = s2
    u1 = u1
    NoSession = NoSession
    NoUser = NoUser
    Unroutable = Unroutable
    Damaged = Damaged
    NoPacket = NoPacket
    SendCap = 1
    MaxBroadcasts = 0
SPECIFICATION Spec
CHECK_DEADLOCK FALSE
INVARIANT
    LiveUserReachable
