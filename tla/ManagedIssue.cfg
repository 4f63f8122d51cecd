SPECIFICATION FairSpec
CONSTANTS
    f1 = f1
    f2 = f2
    c1 = c1
    c2 = c2
    None = None
    Clear = Clear
    Alert <- MCAlert
    MaxIssue = 4
    MaxChange = 3
    MaxUpset = 2
    MaxMeddle = 2
PROPERTIES
    NoDuplicate
    OnlyOwned
    DismissedStays
    EndedCloses
    StandingHeard
CHECK_DEADLOCK FALSE
