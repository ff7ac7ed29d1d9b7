SPECIFICATION FairSpec
CHECK_DEADLOCK FALSE
CONSTANTS
    Tasks = {t1, t2}
    Runs = {t1, t2}
    Users <- MCUsers
    NoUser <- MCNoUser
    Workers = {w1}
    Conns = {k1, k2}
    None = None
    StageCounts = {1}
    SendCap = 1
    OutCap = 1
    EventsCap = 1
    WireCap = 1
    Fragile = {k1}
    MayStop = FALSE
PROPERTIES
    AcceptedEnds
    BusyReleased
