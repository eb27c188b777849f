SPECIFICATION LiveSpec
CONSTANTS
    Server = {s1, s2}
    OldServer = s1
    Old = 2
    Retention = 1
    MaxBytes = 3
    DeletionBatch = 1
    MaxBackups = 3
    MaxAsked = 2
    MaxFaults = 1
    MaxCrashes = 1
INVARIANT
    BackupsAreKept
PROPERTY
    StoreSettles
CHECK_DEADLOCK FALSE
