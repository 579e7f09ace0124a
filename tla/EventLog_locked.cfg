SPECIFICATION FairSpec
CONSTANTS
    Proc = {p1, p2}
    MaxOps = 3
    MaxBatch = 2
    MaxFaults = 1
    MaxPowerLoss = 1
    Free = Free
INVARIANTS
    LamportsAgree
    AckedKept
    OperationsContiguous
PROPERTIES
    DamageLeftInPlace
    ImplementsDurableLog
    RequestsEnd
CHECK_DEADLOCK FALSE
