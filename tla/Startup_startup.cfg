SPECIFICATION Spec
CONSTANTS
    Lengths <- MCLengths
    Names = {n1, n2}
    MaxSpaces = 2
    None = None
INVARIANTS  RefusesOnlyFaults UndefinedOnlyIf
CHECK_DEADLOCK FALSE
