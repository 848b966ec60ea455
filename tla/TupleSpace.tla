----------------------------- MODULE TupleSpace -----------------------------
(***************************************************************************)
(* What a tuple space daemon promises its clients about the data: a tuple  *)
(* that was put is in the space until one client takes it, and at most one *)
(* client ever does.  A put may hand its tuple straight to a client that   *)
(* was waiting for it.  Closing the space discards what is left in it.     *)
(* Tuples are numbered in the order in which the daemon accepts them.      *)
(***************************************************************************)
EXTENDS Naturals

CONSTANT Clients

VARIABLES
    accepted,   (* number of tuples accepted so far                *)
    space,      (* the tuples in the space                         *)
    taken       (* the tuples that each client has taken           *)

tsVars == <<accepted, space, taken>>

Init ==
    /\ accepted = 0
    /\ space = {}
    /\ taken = [c \in Clients |-> {}]

Put ==
    /\ accepted' = accepted + 1
    /\ space' = space \union {accepted + 1}
    /\ UNCHANGED taken

Hand(c) ==
    /\ accepted' = accepted + 1
    /\ taken' = [taken EXCEPT ![c] = @ \union {accepted + 1}]
    /\ UNCHANGED space

Take(c, t) ==
    /\ t \in space
    /\ space' = space \ {t}
    /\ taken' = [taken EXCEPT ![c] = @ \union {t}]
    /\ UNCHANGED accepted

Close ==
    /\ space' = {}
    /\ UNCHANGED <<accepted, taken>>

Next ==
    \/ Put
    \/ Close
    \/ \E c \in Clients : Hand(c) \/ \E t \in space : Take(c, t)

Spec == Init /\ [][Next]_tsVars

(* No tuple is with two clients, and what is still in the space is with none *)
TakenOnce ==
    /\ \A c, d \in Clients : c # d => taken[c] \intersect taken[d] = {}
    /\ \A c \in Clients : taken[c] \intersect space = {}
===============================================================================
