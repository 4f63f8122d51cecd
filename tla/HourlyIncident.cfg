SPECIFICATION FairSpec
CONSTANTS
    Signal = {"broad", "queue"}
    Surface = {"dns", "queue"}
    Worlds = {"clean", "migrating"}
    MaxIssue = 2
    MaxMeddle = 3
    MaxLoss = 1
INVARIANTS
    MutedByHand
PROPERTIES
    Earned
    Heard
CHECK_DEADLOCK FALSE
