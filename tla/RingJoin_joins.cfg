\* Three joins in any order, with timeouts at any time.
CONSTANTS
    a = a
    b = b
    c = c
    j1 = j1
    j2 = j2
    j3 = j3
    None = None
    Nodes = {a, b, c}
    Joiners = {j1, j2, j3}
    Starts <- MCStarts
    RMax = 3
    InitialR = 1
    PingFinds = {TRUE, FALSE}
    EarlyTimeouts = TRUE
SPECIFICATION FairSpec
INVARIANTS
    TypeOK
    ListStartsWithSuccessor
    SuccessorsFormARing
    NeighboursAgree
    PredecessorHasJoined
PROPERTIES
    HandlingJoinEnds
\* All joins are over.
CHECK_DEADLOCK FALSE
