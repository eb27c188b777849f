SPECIFICATION Spec
CONSTANTS
    Last = 1
    Limit = 1
    MaxCycle = 2
    Workers = {w1, w2}
    w1 = w1
    w2 = w2
    Configs = {"a", "b"}
    MaxEdits = 1
    MaxClicks = 1
    MaxFaults = 1
    MaxCrashes = 1
    DestOf <- Single
    EventOf <- SingleEvent
SYMMETRY WorkersAlike
INVARIANT
    SendsAreSingle
