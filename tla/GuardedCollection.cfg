SPECIFICATION CollectionSpec
CONSTANTS
    r1 = r1
    r2 = r2
    r3 = r3
    r4 = r4
    Run = {r1, r2, r3, r4}
    Window = 3
    Cap = 2
    RetryInterval = 1
    JobAllowance = 2
    JobTimeout = 1
    Day = 2
    MaxTime = 5
SYMMETRY Symmetry
INVARIANTS
    DayBound
CHECK_DEADLOCK FALSE
