SPECIFICATION Spec
CONSTANTS
    Writer = {w1, w2}
    Reader = {r1}
    MaxOps = 3
    MaxReads = 2
    MaxDamage = 0
    MaxPowerLoss = 1
    FirstSave = FALSE
    Free = Free
INVARIANTS
    AckedKept
CHECK_DEADLOCK FALSE
