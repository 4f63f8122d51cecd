SPECIFICATION FairSpec
CONSTANTS
    p1 = p1
    p2 = p2
    p3 = p3
    Nobody = Nobody
    NoFile = NoFile
    Process = {p1, p2, p3}
    Hidden = {p3}
    Allowance = 3
    MaxCalls = 2
INVARIANTS
    ChargedBefore
PROPERTIES
    ReportCovers
    AllowanceSpec
    SendEnds
CHECK_DEADLOCK FALSE
