CONSTANTS
    MaxRevisions = 2
    NoGoal = NoGoal
    MaxOffered = 4
    Keep = 3
    Most = 6
    PerGoal = 6
    MaxClaims = 2
    MaxActions = 2
    NoDoc = NoDoc
    MaxLines = 3
    RetainLimit = 2
    NoResult = NoResult
    MaxReports = 3
    MaxTime = 1
    Window = 2
    PageSize = 1
    NoCursor = NoCursor
    MaxEntries = 2
    MaxBlob = 2
    MaxSnapshot = 4
    MaxEvidence = 3
    MaxRetained = 2
    Procs = {p1, p2, p3}
    MaxDeaths = 2
    Nobody = Nobody
    PerGroup = 1
    MaxConcurrent = 2
    MaxComponents = 2
    MaxSteps = 3
    MaxItems = 2
    NoMap = NoMap
    MaxFiles = 2
    MaxFile = 2
    MaxTotal = 3
    MaxChars = 5
    MinChars = 2
    MaxEdits = 3
SPECIFICATION DocumentsSpec
INVARIANTS GoalSetsSound MaterializeSound StreamSound HistorySound RepositorySound WorkspacesSound MapSound ContextSound
CHECK_DEADLOCK FALSE
