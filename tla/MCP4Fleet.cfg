SPECIFICATION Spec
CHECK_DEADLOCK FALSE
CONSTANTS
    Tasks = {t1, t2}
    Runs = {t1, t2}
    Users <- MCUsers
    NoUser <- MCNoUser
    Workers = {w1, w2}
    Conns <- MCConns
    Loops <- MCLoops
    None = None
    StageCounts = {1}
    PendingCap = 1
    AvailCap = 3
    EventsCap = 1
    RPCTasks = {}
    MaxLoad = 4
    Fragile = {1}
    Fleets = {{w1, w2}}
SYMMETRY Symmetry
INVARIANTS
    Custody
    OnePlacePerStream
