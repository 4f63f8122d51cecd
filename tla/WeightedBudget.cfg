SPECIFICATION Spec
CONSTANTS
    Run = {1, 2}
    SeedId = {11, 12}
    SeedFile <- MCSeedFile
    Window = 3
    Cap = 4
    MaxStarts = 5
    Weight <- MCWeight
    Interval <- MCInterval
    ScanInterval = 2
    MaxRows = 5
    JobTimeout = 1
    Day = 2
    MaxTime = 5
INVARIANTS
    DailyStarts
PROPERTIES
    PermitSpec
