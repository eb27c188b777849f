SPECIFICATION PartsSpec
CONSTANTS
    Parts = {"database"}
    x1 = x1
    x2 = x2
    y1 = y1
    y2 = y2
    None = None
    \* two accounts and two browsers; tokens and hashes enough for the three requests
    User = {x1, x2}
    Client = {y1, y2}
    Token = {1, 2, 3, 4, 5, 6}
    Hash = {0, 1, 2, 3, 4, 5, 6}
    Weak = {0}
    MaxFailures = 2
    MaxAsked = 3
    \* crashes during an update, and deeds of others
    MaxCrashes = 3
    MaxExternal = 2
    \* starts by the owner while a backup is made, and crashes
    MaxStarts = 2
    MaxDataCrashes = 2
    \* two administrators, one of them with two tabs, and two users
    Conn <- Connections
    UserOf <- Owners
    Administrators = {"admin", "root"}
    MaxSockets = 2
    MaxPerUser = 1
    Reserved = 1
    MaxBuffer = 1
    \* two requests, as many helpers, two names in the folder
    Req = {x1, x2}
    Helper = {y1, y2}
    Names = {"n", "m"}
    Nothing = Nothing
    MaxRequests = 2
    MaxFileEvents = 2
    \* files from an older release, a newer one and the future
    Proc = {"old", "new"}
    Latest <- Releases
    Oldest = 1
    Newest = 4
    MaxKeys = 3
    MaxDatabaseFaults = 3
    \* two callers, one answer lost or another Engine
    Caller = {x1, x2}
    Engines <- Versions
    Pinned = TRUE
    Attempts = 1
    MaxCalls = 3
    MaxDockerFaults = 1
    MaxWrites = 4
    \* requests and what happens meanwhile, calls and faults
    MaxInAll = 3
PROPERTY
    NewerIsRefused
CHECK_DEADLOCK FALSE
