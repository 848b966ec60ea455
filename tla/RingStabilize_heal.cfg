SPECIFICATION Spec
CONSTANTS
    a = a
    b = b
    c = c
    Ring <- MCRing
    None = None
    RMax = 2
    MaxCrashes = 1
    MaxTokens = 1
    MaxPings = 3
    Overlap = "rest"
INVARIANTS
    NoLiveNodeSkipped
    
PROPERTIES
    RingHeals
\* A member whose exchange was cut short may hang, and a ring of those stops.
CHECK_DEADLOCK FALSE
