SPECIFICATION Spec
CONSTANTS
    Signal = {"broad", "queue"}
    Surface = {"dns", "queue"}
    Worlds = {"stale"}
    MaxIssue = 2
    MaxMeddle = 0
    MaxLoss = 1
INVARIANTS
    OneSlot
CHECK_DEADLOCK FALSE
