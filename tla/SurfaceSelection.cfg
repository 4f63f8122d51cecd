SPECIFICATION SelectionFairSpec
CONSTANTS
    Surface <- MCSurface
    Had <- MCHad
    Splits <- MCSplits
    Full = "full"
    Refreshable = {"dns_health"}
    Dated = {"ci_core", "ci_analytics"}
    CollectorStep = {"config", "collect"}
    Together = 1
    RetryOwner = "ci_core"
    Pair = {"ci_core", "ci_analytics"}
    MaxAge = 2
    FreshAge = 1
    Persist = 2
    MaxClock = 3
    MaxUpset = 2
    Beginning <- MCBeginning
INVARIANTS
    Readable
    HardLimit
PROPERTIES
    Quarantined
    RefreshOnly
    QuietOnce
    SelfHeals
