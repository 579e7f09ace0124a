CONSTANTS
    MaxFrames = 2
    MaxProgress = 1
    NoRequest = NoRequest
    MaxGoals = 5
    RecordedGoals = 4
    PerBatch = 2
    Concurrency = 2
    RetryLimit = 2
    NoReport = NoReport
    Candidates = 2
    PromptChunks = 2
    PipeCap = 1
    OutputLimit = 2
    MaxWritten = 3
SPECIFICATION AnalysisSpec
INVARIANTS RequestsSound ScanSound RunnerSound
PROPERTY EveryRunEnds
CHECK_DEADLOCK FALSE
