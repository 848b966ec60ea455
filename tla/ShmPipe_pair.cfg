\* One process at either end, items of up to three chunks, no faults.
CONSTANTS
    w1 = w1
    r1 = r1
    Writers = {w1}
    Readers = {r1}
    MaxChunks = 3
    MaxItems = 3
    MaxFaults = 0
    Zero = Zero
SPECIFICATION FairSpec
INVARIANTS
    ItemsInOrder
PROPERTIES
    SendReturns
\* The writer may stop sending.
CHECK_DEADLOCK FALSE
