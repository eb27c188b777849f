SPECIFICATION Spec
CONSTANTS
    Requests <- SmallRequests
    Images <- SmallImages
    Cases <- EnvCases
INVARIANTS
    DefaultsSetByOwnerStay
CHECK_DEADLOCK FALSE
