SPECIFICATION FleetSpec
CONSTANTS
    c1 = c1
    c2 = c2
    host = host
    fpA = fpA
    fpB = fpB
    x1 = x1
    x2 = x2
    None = None
    Cont = {c1, c2}
    Ident = {host}
    identOf <- MCIdentOf
    fpOf <- MCFpOf
    Proc = {x1, x2}
    MaxChanges = 4
    MaxDiscoveries = 2
    \* changes and discoveries in all; rows, times and changes of access in all
    MaxInAll = 4
INVARIANTS
    RequestsAreSound
    OnlySafeMountsReached
    RestoredIsSaved
    OwnersChoicesStay
    ConsoleAnswers
    ListingsAreWhole
    OutputIsRedacted
PROPERTY
    AcceptedOnlyByReview
SYMMETRY Alike
CHECK_DEADLOCK FALSE
