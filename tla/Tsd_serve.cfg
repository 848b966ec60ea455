\* An open space with one writer and two askers; nobody closes it.
CONSTANTS
    master = master
    worker1 = worker1
    worker2 = worker2
    None = None
    Clients = {master, worker1, worker2}
    Names <- MCNames
    Patterns <- MCPatterns
    Regexec <- MCRegexec
    Matches <- TplMatches
    Workload <- ServeWorkload
    Direct = FALSE
    MaxCalls = 2
SPECIFICATION FairSpec
INVARIANTS
    TypeOK
    NoMissedMatch
    
    
    
    

    
\* A client may stay in a blocking call for good.
CHECK_DEADLOCK FALSE
