CONSTANTS
    r1 = r1
    r2 = r2
    r3 = r3
    r4 = r4
    w1 = w1
    w2 = w2
    Requests = {r1, r2, r3, r4}
    Private = {r1}
    Malformed = {r4}
    Workers = {w1, w2}
    Nobody = Nobody
    SaveCap = 1
    MaxCrashes = 1
SPECIFICATION FairSpec
CHECK_DEADLOCK FALSE
INVARIANTS
    TypeOK
    SavedOnce
    AnswerMeansAccepted
    ForwardedThenAcknowledged
PROPERTIES
    EveryRequestHandled
    EverySaveEnds
    KeepsPromise
