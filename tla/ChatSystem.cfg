CONSTANTS
    c1 = c1
    c2 = c2
    c3 = c3
    g1 = g1
    g2 = g2
    u1 = u1
    u2 = u2
    r1 = r1
    r2 = r2
    r3 = r3
    i1 = i1
    mmo = mmo
    rpg = rpg
    Gateways = {g1, g2}
    Instances = {i1}
    Clients = {c1, c2, c3}
    Users = {u1, u2}
    Requests = {r1, r2, r3}
    NoClient = NoClient
    NoUser = NoUser
    Gate <- MCGate
    UserOf <- MCUserOf
    From <- MCFrom
    Receiver <- MCReceiver
    GameOf <- MCGameOf
    ServedGame = mmo
    MaxResends = 1
SPECIFICATION FairSpec
CHECK_DEADLOCK FALSE
INVARIANTS
    TypeOK
    ForwardedFirst
PROPERTIES
    ImplementsDelivery
    AnsweredOrLost
