---------------------------- MODULE OnePlaceBuffer ----------------------------
(***************************************************************************)
(* What the shared memory pipe promises one level up: a buffer that holds  *)
(* at most one chunk.  A chunk can be put only into the empty buffer and   *)
(* leaves it once, so that puts and takes alternate (the W-R-W-R of the    *)
(* header comment of shared_memory.h).                                     *)
(***************************************************************************)
CONSTANTS
    Chunk,  (* what can be put into the buffer            *)
    Zero    (* the empty buffer, not an element of Chunk  *)

VARIABLE slot

Init == slot = Zero

Put  == slot = Zero /\ slot' \in Chunk

Take == slot # Zero /\ slot' = Zero

Next == Put \/ Take

Spec == Init /\ [][Next]_slot
===============================================================================
