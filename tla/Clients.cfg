SPECIFICATION EitherSpec
CONSTANTS
    \* callers: background work that can be cancelled, two requests, recovery
    countdown = countdown
    request = request
    other = other
    recovery = recovery
    NoHolder = NoHolder
    Keys <- MCKeys
    Holders <- MCHolders
    Clients <- MCClients
    Background <- MCBackground
    KeySets <- MCKeySets
    Recovery = recovery
    \* one schedule with two edits, one change of access, one fault or crash
    Day = 4
    Week = 2
    Grace = 2
    Ids = {1}
    Inputs <- MCInputs
    Zones <- MCZones
    End = 4
    MaxLag = 1
    MaxEdits = 2
    MaxChanges = 1
    MaxFaults = 1
    MaxInAll = 2
    MaxAtMidnight = 1
INVARIANTS
    WaitersAreTold
    SlotsAreKept
    CountsToFirst
PROPERTIES
    ImplementsExclusive
    SleepersWake
    WorkIsCurrent
