\* A master and two workers multiply a matrix of twelve rows.
CONSTANTS
    master = master
    worker1 = worker1
    worker2 = worker2
    None = None
    Clients = {master, worker1, worker2}
    Names <- MCNames
    Patterns <- MCPatterns
    Matches <- TplMatches
    Workload <- MCWorkload
    Regexec <- MCRegexec
    Direct = FALSE
    MaxCalls = 10
    SIZE = 12
    PART = 3
    ranks <- MCranks
SPECIFICATION MatrixSpec
INVARIANTS
    RowsOnce
PROPERTIES
    MasterFinishes
\* Workers wait for work that does not come.
CHECK_DEADLOCK FALSE
