------------------------------- MODULE HashMap -------------------------------
(***************************************************************************)
(* What a hash table of libchash promises: a map from keys to data (the    *)
(* set of its items, one for a key), the item that the last HashFind has   *)
(* found, and the items that an iteration has still to return.             *)
(*                                                                         *)
(* The promise has limits, and "risks" says when one of them is near: a    *)
(* goal was given, a key was deleted.  They are written where they bite.   *)
(***************************************************************************)
CONSTANTS Keys, Datas, None

VARIABLES
    state,    \* "none", "open" or "broken"
    map,      \* the items in the table
    last,     \* the item found by the last call, if that was a HashFind
    ret,      \* the item returned by the last call
    left,     \* items an iteration has still to return
    risks     \* subset of {"goal", "deleted"}

vars == <<state, map, last, ret, left, risks>>

Item(k) == {i \in map : i.key = k}
Only(items) == IF items = {} THEN None ELSE CHOOSE i \in items : TRUE

Init ==
    /\ state = "none" /\ map = {} /\ last = None /\ ret = None
    /\ left = {} /\ risks = {}

Fresh(s) ==
    /\ state' = s /\ map' = {} /\ last' = None /\ ret' = None
    /\ left' = {} /\ risks' = {}

Allocate == state = "none" /\ Fresh("open")
Close == Fresh("none")
Clear == state = "open" /\ Fresh("open")

Find(k) ==
    /\ state = "open"
    /\ ret' = Only(Item(k)) /\ last' = ret'
    /\ UNCHANGED <<state, map, left, risks>>

FindLast ==
    /\ state = "open" /\ ret' = last
    /\ UNCHANGED <<state, map, last, left, risks>>

Changed == state = "open" /\ last' = None /\ left' = {} /\ UNCHANGED state

Insert(k, d) ==
    /\ Changed
    /\ ret' = [key |-> k, data |-> d]
    /\ map' = (map \ Item(k)) \cup {ret'}
    /\ UNCHANGED risks

(* A key that is not in the table is put in, unless keys have been deleted:  *)
(* then it may be left out, and what is returned is no item.                 *)
FindOrInsert(k, d) ==
    \/ Item(k) = {} /\ Insert(k, d)
    \/ /\ Changed
       /\ Item(k) # {} \/ "deleted" \in risks
       /\ ret' = Only(Item(k))
       /\ UNCHANGED <<map, risks>>

(* With a goal given, the table may break when its last item is deleted.     *)
Delete(items) ==
    \/ /\ Changed
       /\ map' = map \ items /\ ret' = None
       /\ risks' = IF items = {} THEN risks ELSE risks \cup {"deleted"}
    \/ /\ state = "open" /\ map = items /\ items # {} /\ "goal" \in risks
       /\ Fresh("broken")

DeleteLast == last # None /\ Delete({last})

Hint ==
    /\ state = "open" /\ risks' = risks \cup {"goal"}
    /\ UNCHANGED <<state, map, last, ret, left>>

(* An iteration returns one of the items it has not returned, and nothing    *)
(* when it has returned them all.                                            *)
Return(items) ==
    /\ state = "open"
    /\ IF items = {} THEN ret' = None ELSE ret' \in items
    /\ left' = items \ {ret'}
    /\ UNCHANGED <<state, map, last, risks>>

First == Return(map)
Rest == Return(left)

(* Another iteration, of the table's own, ends this one.                     *)
Stop == state = "open" /\ left' = {} /\ UNCHANGED <<state, map, last, ret, risks>>

Next ==
    \/ Allocate \/ Close \/ Clear \/ FindLast \/ DeleteLast \/ Hint \/ First \/ Rest \/ Stop
    \/ \E k \in Keys : Find(k) \/ Delete(Item(k))
    \/ \E k \in Keys, d \in Datas : Insert(k, d) \/ FindOrInsert(k, d)

Spec == Init /\ [][Next]_vars
=============================================================================
