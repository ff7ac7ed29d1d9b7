SPECIFICATION FairSpec
CHECK_DEADLOCK FALSE
CONSTANTS
    Tasks = {t1}
    Runs = {w1, w2}
    Users <- MCUsers
    NoUser <- MCNoUser
    Managers = {m1, m2}
    None = None
    StageCounts = {1}
    MaxFaults = 2
INVARIANTS
    TypeOK
    CopiesBounded
PROPERTIES
    StaysEnded
    Recovered
