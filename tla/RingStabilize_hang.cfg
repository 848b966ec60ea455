SPECIFICATION Spec
CONSTANTS
    a = a
    b = b
    c = c
    Ring <- MCRing2
    None = None
    RMax = 2
    MaxCrashes = 0
    MaxTokens = 0
    MaxPings = 3
    Overlap = "any"
PROPERTY DueIsHandled
CHECK_DEADLOCK FALSE
