SPECIFICATION FairSpec
CHECK_DEADLOCK FALSE
CONSTANTS
    Tasks = {t1, t2}
    Runs = {t1, t2}
    Users <- MCUsers
    NoUser <- MCNoUser
    Workers = {w1, w2}
    None = None
    StageCounts = {1}
    QueueSize = 1
    EventsCap = 1
    MaxFaults = 2
INVARIANTS
    TypeOK
    Custody
PROPERTIES
    AcceptedEnds
