------------------------------ MODULE MCRingJoin ------------------------------
(***************************************************************************)
(* Three joiners at rings of two and three nodes, so that joins meet at    *)
(* one contact, work on neighbouring members, and build on one another; or *)
(* one of them at a node that is alone (the others' contact is not there). *)
(***************************************************************************)
EXTENDS RingJoin

CONSTANTS a, b, c, j1, j2, j3

Start(ring, x, y, z) ==
    [ring |-> ring,
     contact |-> [j \in {j1, j2, j3} |-> CASE j = j1 -> x [] j = j2 -> y [] j = j3 -> z]]

MCAlone == {Start(<<a>>, a, b, b)}

MCStarts == MCAlone \union
    {Start(<<a, b>>, a, a, j1), Start(<<a, b>>, a, b, j1), Start(<<a, b, c>>, a, b, j1)}
===============================================================================
