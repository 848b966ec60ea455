\* The life of a space: connects, terms and connects again, every kind of tuple.
CONSTANTS
    master = master
    worker1 = worker1
    worker2 = worker2
    None = None
    Clients = {master, worker1, worker2}
    Names <- MCNames
    Patterns <- MCPatterns
    Regexec <- MCRegexec
    Matches <- TplMatches
    Workload <- LifeWorkload
    Direct = FALSE
    MaxCalls = 2
SPECIFICATION Spec
PROPERTIES
    IsTupleSpace
    TermEndsSession
\* Programs come to their end.
CHECK_DEADLOCK FALSE
