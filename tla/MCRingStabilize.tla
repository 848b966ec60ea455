---------------------------- MODULE MCRingStabilize ----------------------------
(***************************************************************************)
(* Small rings for RingStabilize.  Nothing tells the members of a ring     *)
(* apart but their order, so that turning the ring is a symmetry.          *)
(***************************************************************************)
EXTENDS RingStabilize

CONSTANTS a, b, c

MCRing == <<a, b, c>>
MCRing2 == <<a, b>>

TurnedBy(k) == [n \in Nodes |-> After(n, k)]
Rotations == {TurnedBy(k) : k \in 0 .. Len(Ring) - 1}
================================================================================
