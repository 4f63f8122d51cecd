SPECIFICATION Spec
CONSTANTS
    Run = {1, 2}
    LegacyId = {11, 12}
    Evidence <- MCEvidence
    SeedFile <- MCSeedFile
    Window = 3
    Cap = 1
    SuccessInterval = 2
    RetryInterval = 1
    Overlap = 2
    MigrationCap = 1
    SeedLimit = 3
    StartTime = 1
    MaxTime = 6
INVARIANTS
    PermitsCharged
PROPERTIES
    ChargesPersist
    CadenceKept
    PermitSpec
