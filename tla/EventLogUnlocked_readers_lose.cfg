SPECIFICATION UnlockedSpec
CONSTANTS
    Proc = {p1}
    MaxOps = 3
    MaxBatch = 1
    MaxFaults = 0
    MaxPowerLoss = 0
    Free = Free
    Reader = {r1}
    Creating = FALSE
INVARIANTS
    AckedKept
CHECK_DEADLOCK FALSE
