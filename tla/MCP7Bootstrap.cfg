SPECIFICATION Spec
SYMMETRY Symmetry
CHECK_DEADLOCK FALSE
CONSTANTS
    Devices = {d1}
    Managers = {m1, m2}
    RevokedCNs = {}
    TokenTTLs = {0, 4}
    DefaultTTL = 6
    RequestTimeout = 5
    MaxTime = 18
    MaxFaults = 1
INVARIANTS
    TypeOK
    RenewedInTime
    RevokedWindow
