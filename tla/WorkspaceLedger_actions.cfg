SPECIFICATION FairSpec
CONSTANTS
    Goal = {g1, g2}
    Revision = {1}
    Rec = {a1}
    ReportId = {1}
    Time = {1}
    Scanner = {s1}
    MaxReports = 2
INVARIANTS
    GoalsResolve
PROPERTIES
    VerifiedIsSupported
    OperationsEnd
