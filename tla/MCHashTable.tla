------------------------------ MODULE MCHashTable ------------------------------
(* An instance of HashTable: two keys that always collide, and a third in    *)
(* the bucket after theirs, but before them in a table of 16 buckets.        *)
EXTENDS HashTable, TLC

CONSTANTS k1, k2, k3, d1, d2

MCKeys == {k1, k2, k3}
MCHashOf == k1 :> 12 @@ k2 :> 12 @@ k3 :> 5
MCDatas == {d1, d2}
MCGoals == {-1, 4}
Symmetry == Permutations({k1, k2}) \cup Permutations(MCDatas)
=============================================================================
