\* Two processes at either end, one chunk per item, one crash or failed malloc.
CONSTANTS
    w1 = w1
    w2 = w2
    r1 = r1
    r2 = r2
    Writers = {w1, w2}
    Readers = {r1, r2}
    MaxChunks = 1
    MaxItems = 2
    MaxFaults = 1
    Zero = Zero
SPECIFICATION Spec
INVARIANTS
    TypeOK
    
    
    

    
\* A crash between a wait and a post stops everybody, and writers may stop.
CHECK_DEADLOCK FALSE
