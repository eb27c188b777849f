SPECIFICATION FairSpec
CONSTANTS
    Last = 2
    Limit = 1
    MaxCycle = 2
    Workers = {w1, w2}
    w1 = w1
    w2 = w2
    Configs = {"a"}
    MaxEdits = 1
    MaxClicks = 0
    MaxFaults = 0
    MaxCrashes = 0
    DestOf <- TwoDestinations
    EventOf <- TwoEvents
PROPERTY
    DeliveryEnds
