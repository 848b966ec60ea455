SPECIFICATION Spec
CONSTANTS
    k1 = k1
    k2 = k2
    k3 = k3
    Keys <- MCKeys
    d1 = d1
    d2 = d2
    Datas <- MCDatas
    HashOf <- MCHashOf
    GroupSize = 2
    MIN_HASH_SIZE = 4
    Goals <- MCGoals
    MaxItems = 3
    DELETED = DELETED
    NULL = NULL
    Unset = Unset
INVARIANTS TypeOK  FindEnds
 
SYMMETRY Symmetry
