SPECIFICATION Spec
CONSTANTS
    Writer = {w1, w2}
    Reader = {}
    MaxOps = 3
    MaxReads = 0
    MaxDamage = 1
    MaxPowerLoss = 1
    FirstSave = TRUE
    Free = Free
INVARIANTS
    AckedKept
    CandidatesCurrent
CHECK_DEADLOCK FALSE
