SPECIFICATION Spec
CONSTANTS
    a = a
    b = b
    c = c
    Ring <- MCRing
    None = None
    RMax = 2
    MaxCrashes = 0
    MaxTokens = 0
    MaxPings = 3
    Overlap = "member"
SYMMETRY Rotations
INVARIANTS
    RingStands
    RestIsClean
    AcksInStep
