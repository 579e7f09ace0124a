CONSTANTS
    Opener = {p1, p2}
    ContentKey = {k1, k2}
    MaxDeath = 1
    MaxBlackout = 1
    MaxKeyLoss = 1
    NoFile = NoFile
    Keeper = {b1, b2}
    Folder = {f1, f2}
    Owner = {o1, o2}
    Retain = 1
    Cadence = 1
    MaxTime = 1
    MaxEvents = 2
    MaxRuns = 3
    MaxStop = 1
    Nothing = Nothing
    Mapper = {m1, m2}
    MapSpace = {w1, w2}
    Commits = {c1, c2}
    KeptBodies = 1
    MaxMaps = 3
    MaxMapClock = 1
    MaxMapStop = 1
    NoMap = NoMap
    Recorder = {r1, r2}
    MaxPanics = 2
    MaxRecords = 3
    MaxBroken = 2
SPECIFICATION StoreSpec
SYMMETRY MapSymmetry
INVARIANTS KeySafe BackupsSound MapsSound SessionsSound
PROPERTY HistoryOnlyGrows
CHECK_DEADLOCK FALSE
