SPECIFICATION Spec
CONSTANTS
    Tasks = {t1, t2}
    Users <- MCUsers
    NoUser <- MCNoUser
    Runs = {w1}
    Clients <- MCOnePage
    ClientUser <- MCClientUser
    QueueSize = 1
    EventsCap = 2
    BusCap = 1
    SubCap = 1
    StageCounts = {1}
    MayCancel = FALSE
INVARIANTS
    ToldIsStored
    OwnTasksOnly
PROPERTIES
    SeenInOrder
    ImplementsLifecycle
