SPECIFICATION MCSpec
CONSTANTS
    o1 = o1
    o2 = o2
    Objects <- TwoObjects
    MaxChunks = 2
    Configs <- Environments
    MaxTime = 2
    MaxRuns = 3
    Retention = 0
SYMMETRY Symmetry
CHECK_DEADLOCK FALSE
INVARIANTS
    BackupTypeOK
    StoredIsSound
    CleanReadIsWhole
    SnapshotHoldsAll
    AlwaysRestorable
