SPECIFICATION WorkSpec
CONSTANTS
    \* two roots whose old and new entries share a name
    Last = 2
    OldNames = {"world", "config"}
    NewNames = {"world", "mods"}
    MaxCrashes = 2
    MaxExternal = 2
    MaxInAll = 3
    \* a command that runs, one that is queued and one that is refused
    MaxPending = 1
    MaxCommands = 3
    MaxEvents = 2
INVARIANTS
    DataSurvives
    CommandsConfined
PROPERTIES
    RestoreIsAtomic
    WorkIsDone
CHECK_DEADLOCK FALSE
