SPECIFICATION Spec
CONSTANTS
    MaxRelease = 2
    MaxHelpers = 2
    MaxLaunch = 2
    MaxCrash = 0
    Overlap = TRUE
INVARIANTS
    WorkingKept
CHECK_DEADLOCK FALSE
