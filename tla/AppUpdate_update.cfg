SPECIFICATION FairSpec
CONSTANTS
    MaxRelease = 3
    MaxHelpers = 2
    MaxLaunch = 2
    MaxCrash = 1
    Overlap = FALSE
INVARIANTS
    WorkingKept
    RolledBack
    FailureTold
    MailboxCurrent
CHECK_DEADLOCK FALSE
PROPERTIES
    ComesBack
