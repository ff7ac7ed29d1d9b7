SPECIFICATION FairSpec
CHECK_DEADLOCK FALSE
CONSTANTS
    Tasks = {t1, t2}
    Users <- MCNoUsers
    NoUser <- MCNoUser
    Runs = {w1}
    Clients <- MCNoPage
    ClientUser <- MCClientUser
    QueueSize = 1
    EventsCap = 1
    BusCap = 1
    SubCap = 1
    StageCounts = {1}
    MayCancel = TRUE
INVARIANTS
    TypeOK
    Custody
PROPERTIES
    EndedOnce
    AcceptedEnds
    ShutdownEndsLoops
