SPECIFICATION LiveSpec
CONSTANTS
    None = None
    MaxAsked = 1
    MaxPolicies = 1
    MaxCrashes = 1
    MaxStarts = 1
INVARIANTS
    StopKeepsLocks
PROPERTIES
    AlertsAreRight
    AlertComes
