SPECIFICATION FairSpec
CHECK_DEADLOCK FALSE
CONSTANTS
    Tasks = {t1}
    Managers = {m1, m2}
    Users <- MCUsers
    NoUser <- MCNoUser
    Kinds = {"sse", "grpc", "nats"}
    FeedCap = 1
    OutCap = 1
    SubCap = 1
    MaxFaults = 2
INVARIANTS
    TypeOK
    CardTruth
PROPERTY
    Settles
