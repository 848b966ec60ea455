----------------------------- MODULE MCActivation -----------------------------
(***************************************************************************)
(* A ring of a master and three more daemons: m -> w1 -> w2 -> w3 -> m.    *)
(* One client at the master, two in the middle, one at the last daemon.    *)
(***************************************************************************)
EXTENDS Activation

CONSTANTS m, w1, w2, w3, c0, c1, c2, c3

MCSucc == [n \in {m, w1, w2, w3} |->
              CASE n = m -> w1 [] n = w1 -> w2 [] n = w2 -> w3 [] n = w3 -> m]

MCHome == [c \in {c0, c1, c2, c3} |->
              CASE c = c0 -> m [] c \in {c1, c2} -> w2 [] OTHER -> w3]
===============================================================================
