SPECIFICATION FairSpec
CONSTANTS
    r1 = r1
    r2 = r2
    f1 = f1
    f2 = f2
    f3 = f3
    f4 = f4
    m1 = m1
    x1 = x1
    Absent = Absent
    Run = {r1, r2}
    Commit <- MCCommit
    Proven <- MCProven
    Full <- MCFull
    FirstCurrent = f2
    FirstPrevious = f1
    BootstrapAllowed = TRUE
    MaxDamage = 2
    MaxFault = 1
INVARIANTS
    PairConsistent
    BuiltFromFull
PROPERTIES
    NoLostUpdate
    FullSurvives
    SelfHealing
