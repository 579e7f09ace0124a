CONSTANTS
    Mcp = {m1}
    Cli = {c1}
    Session = {s1, s2}
    Workspace = {w1, w2}
    Editor = {w1}
    MaxGoals = 1
    Ttl = 1
    MaxClock = 1
    MaxFail = 1
    MaxCrash = 1
    None = None
SPECIFICATION Spec
INVARIANTS SessionNotLost ReportedOnce ReportsFollowSessions RetractedUnmarked
