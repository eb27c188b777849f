SPECIFICATION LiveSpec
CONSTANTS
    upload = upload
    warning = warning
    NoHolder = NoHolder
    NoRequest = NoRequest
    NoKey = NoKey
    Jobs = {1, 2}
    MaxStarts = 1
    Keys <- MCThreeKeys
    KeysOf <- MCKeysOf
    Capacity <- MCCapacity
    Outside = {}
    Warnings <- MCWarnings
    Holders <- MCHolders
    Requests <- MCTwoRequests
INVARIANT
    LanesAreFree
PROPERTIES
    QueueDrains
CHECK_DEADLOCK FALSE
