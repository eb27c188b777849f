SPECIFICATION Spec
CONSTANTS
    upload = upload
    warning = warning
    NoHolder = NoHolder
    NoRequest = NoRequest
    NoKey = NoKey
    Jobs = {1, 2}
    MaxStarts = 2
    Keys <- MCKeys
    KeysOf <- MCKeysOf
    Capacity <- MCCapacity
    Outside <- MCOutside
    Warnings = {}
    Holders <- MCHolders
    Requests <- MCRequests
INVARIANTS
    EffectsExclusive
    ActsOnce
    NoOrphans
    RecoveryGetsLocks
CHECK_DEADLOCK FALSE
