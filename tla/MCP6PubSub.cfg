SPECIFICATION FairSpec
CHECK_DEADLOCK FALSE
CONSTANTS
    Tasks = {t1}
    Runs = {w1}
    Users <- MCUsers
    NoUser <- MCNoUser
    Managers = {m1}
    Apis = {a1, a2}
    Schemes = {"nats", "kafka", "awssqs"}
    StageCounts = {1}
    EventsCap = 1
    MaxFaults = 2
INVARIANTS
    TypeOK
    Fanout
    ToldIsStored
PROPERTY
    Recovered
