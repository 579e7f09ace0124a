SPECIFICATION Spec
CONSTANTS
    Goal = {g1}
    Revision = {1}
    Rec = {}
    ReportId = {1, 2}
    Time = {1, 2}
    Scanner = {s1}
    MaxReports = 3
INVARIANTS
    HistoryComplete
    IdResolvesToNewest
