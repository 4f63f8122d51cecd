SPECIFICATION FairSpec
CONSTANTS
    b1 = b1
    b2 = b2
    Build = {b1, b2}
    Lookback = 3
    Retention = 2
    Overlap = 1
    FullInterval = 3
    DayLength = 2
    PageSize = 2
    MaxUnits = 4
    MaxTime = 5
    MaxGeneration = 3
    MaxUpset = 1
INVARIANTS
    AliveSeen
    FinishedKnown
PROPERTIES
    Monotone
    Advances
CHECK_DEADLOCK FALSE
