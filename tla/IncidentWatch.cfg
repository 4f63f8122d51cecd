SPECIFICATION FairSpec
CONSTANTS
    N = 3
    FromHistory = {TRUE, FALSE}
    MaxRetry = 1
    MaxLoss = 1
INVARIANTS
    InOrder
    Explained
PROPERTIES
    NewestCounts
CHECK_DEADLOCK FALSE
