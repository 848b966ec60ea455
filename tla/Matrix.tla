-------------------------------- MODULE Matrix --------------------------------
(***************************************************************************)
(* Matrix multiplication over a tuple space: the programs matrix_master.c  *)
(* and matrix_worker.c as clients of the daemon of module Tsd.             *)
(*                                                                         *)
(* A program is one MPI group.  Its rank 0 talks to the tuple space; the   *)
(* others compute the slice of a part that rank 0 sends them and send the  *)
(* result back.  The barrier, the sends and the receives of one round      *)
(* concern nobody but the group: a round is one step.  The master keeps    *)
(* part 0 for its own group and puts the others as tuples A_0, A_1...; the *)
(* worker that takes A_p puts C_p, and the master takes every C_p.         *)
(*                                                                         *)
(* The calls of a client are actions of Tsd joined with the program's own  *)
(* step; the daemon's steps leave the programs alone.                      *)
(***************************************************************************)
EXTENDS NamedTuples, TLC

CONSTANTS
    master,     (* the client that runs matrix_master                        *)
    SIZE, PART, (* rows of the matrix, rows of a part                        *)
    ranks       (* per client: the number of ranks of its group (pc)         *)

Workers == Clients \ {master}

ASSUME MatrixAssumption ==
    /\ master \in Clients
    /\ PART \in Nat \ {0}
    /\ SIZE \in Nat \ {0}
    /\ SIZE % PART = 0
    /\ ranks \in [Clients -> Nat \ {0, 1}]

Parts == 0..((SIZE \div PART) - 2)

(* The rows of part p, which start at PART * (p + 1) of the matrix.          *)
RowsOf(p) == {PART * (p + 1) + r : r \in 0..(PART - 1)}

BName   == <<"B", "_">>
AnyPart == <<":", "A", "_", "*">>

_get_name(pt)  == <<"A", "_", ToString(pt)>>
_get_name1(pt) == <<"C", "_", ToString(pt)>>

VARIABLES
    at,        (* per client: where its rank 0 is                            *)
    pt,        (* of the master: the p of its loops                          *)
    reply,     (* per client: the reply that ended its last call             *)
    computed,  (* <<row, client, rank>>: who computed a row, A by B          *)
    results    (* <<name, rows>>: the result tuples put                      *)

programVars == <<at, pt, reply, computed, results>>
matrixVars  == <<vars, programVars>>

MatrixInit ==
    /\ Init
    /\ at = [c \in Clients |-> "start"]
    /\ pt = 0
    /\ reply = [c \in Clients |-> Enf]
    /\ computed = {}
    /\ results = {}

Goes(c, from, to) ==
    /\ at[c] = from
    /\ at' = [at EXCEPT ![c] = to]

Call(cmd, name) == [cmd |-> cmd, arg |-> name]

(* The rows of a part that a rank of n computes: PART / n for each but the   *)
(* last, which gets what is left.  A variant gives it as many as the others. *)
SliceEven(rank, n) == LET pp == PART \div n IN (rank * pp)..((rank + 1) * pp - 1)

Slice(rank, n) ==
    LET pp == PART \div n
    IN  IF rank = n - 1 THEN (rank * pp)..(PART - 1) ELSE (rank * pp)..((rank + 1) * pp - 1)

(* The round of a group: each rank its slice of the part whose first row is  *)
(* row "first" of the matrix.                                                *)
Round(c, first) ==
    computed' = computed \union
        UNION {{<<first + r, c, rank>> : r \in Slice(rank, ranks[c])} : rank \in 0..(ranks[c] - 1)}

-------------------------------------------------------------------------------
(* matrix_master *)

Open(c) ==
    /\ Goes(c, "start", "opened")
    /\ TsOpen(c)
    /\ UNCHANGED <<pt, reply, computed, results>>

(* "putting tB tuple"                                                        *)
PutB ==
    /\ Goes(master, "opened", "sending")
    /\ TsIn(master, Call("TsPut", BName))
    /\ UNCHANGED <<pt, reply, computed, results>>

(* "sending A_Parts..."                                                      *)
PutPart ==
    /\ Goes(master, "sending", "sending")
    /\ pt \in Parts
    /\ TsIn(master, Call("TsPut", _get_name(pt)))
    /\ pt' = pt + 1
    /\ UNCHANGED <<reply, computed, results>>

(* The group of the master computes its own part, then p starts again at 0.  *)
OwnPart ==
    /\ Goes(master, "sending", "collecting")
    /\ pc[master] = "open"
    /\ pt \notin Parts
    /\ Round(master, 0)
    /\ pt' = 0
    /\ UNCHANGED <<vars, reply, results>>

(* ts_out returns 0: after it the program asserts r == 0.                    *)
Ok(c) == reply[c].re \in {"TsAck", "TsAnon"}

(* "collecting remote"                                                       *)
Collect ==
    /\ Goes(master, "collecting", "collected")
    /\ pt \in Parts
    /\ TsOut(master, Call("TsGet_Blocking", _get_name1(pt)))
    /\ UNCHANGED <<pt, reply, computed, results>>

Collected ==
    /\ Goes(master, "collected", IF Ok(master) THEN "collecting" ELSE "failed")
    /\ pc[master] = "open"
    /\ pt' = pt + 1
    /\ UNCHANGED <<vars, reply, computed, results>>

Finish ==
    /\ Goes(master, "collecting", "done")
    /\ pt \notin Parts
    /\ TsClose(master)
    /\ UNCHANGED <<pt, reply, computed, results>>

-------------------------------------------------------------------------------
(* matrix_worker *)

(* "taking tB from space", and again an assertion that it came.              *)
ReadB(c) ==
    /\ Goes(c, "opened", "reading")
    /\ TsOut(c, Call("TsRead_Blocking", BName))
    /\ UNCHANGED <<pt, reply, computed, results>>

GotB(c) ==
    /\ Goes(c, "reading", IF Ok(c) THEN "idle" ELSE "failed")
    /\ pc[c] = "open"
    /\ UNCHANGED <<vars, pt, reply, computed, results>>

(* "Waiting on tP data": ts_out leaves the name of the tuple it found in     *)
(* tP.name, which is why it is reset in each round.  A variant does not.     *)
QueryKept(c) == IF reply[c].name \in Names \ {BName} THEN reply[c].name ELSE AnyPart

Query(c) == AnyPart

GetPart(c) ==
    /\ Goes(c, "idle", "waiting")
    /\ TsOut(c, Call("TsGet_Blocking", Query(c)))
    /\ UNCHANGED <<pt, reply, computed, results>>

(* A call that fails ends the group.                                         *)
Abort(c) ==
    /\ Goes(c, "waiting", "aborted")
    /\ pc[c] = "open"
    /\ ~Ok(c)
    /\ UNCHANGED <<vars, pt, reply, computed, results>>

(* tplname[0] = 'C'.                                                         *)
ResultName(name) == [name EXCEPT ![1] = "C"]

(* The group computes the part and rank 0 puts the result.                   *)
PartIn(name) == CHOOSE p \in Parts : _get_name(p) = name

Work(c) ==
    /\ Goes(c, "waiting", "idle")
    /\ pc[c] = "open"
    /\ Ok(c)
    /\ LET part == PartIn(reply[c].name)
           name == ResultName(reply[c].name)
       IN  /\ Round(c, PART * (part + 1))
           /\ results' = results \union {<<name, RowsOf(part)>>}
           /\ TsIn(c, Call("TsPut", name))
    /\ UNCHANGED <<pt, reply>>

-------------------------------------------------------------------------------

(* ts_open and ts_out return: a call at an end leaves its reply.             *)
Return(c) ==
    /\ Receive(c)
    /\ reply' = [reply EXCEPT ![c] = Head(outbox[c])]
    /\ UNCHANGED <<at, pt, computed, results>>

Serve(c) == Daemon(c) /\ UNCHANGED programVars

Master == Open(master) \/ PutB \/ PutPart \/ OwnPart \/ Collect \/ Collected \/ Finish

Worker(c) == Open(c) \/ ReadB(c) \/ GotB(c) \/ GetPart(c) \/ Abort(c) \/ Work(c)

MatrixNext ==
    \/ Master
    \/ \E c \in Workers : Worker(c)
    \/ \E c \in Clients : Return(c) \/ Serve(c)

(* A program goes on when it can, and so do the daemon and the replies.      *)
MatrixSpec ==
    /\ MatrixInit
    /\ [][MatrixNext]_matrixVars
    /\ WF_matrixVars(Master)
    /\ \A c \in Workers : WF_matrixVars(Worker(c))
    /\ \A c \in Clients : WF_matrixVars(Return(c)) /\ WF_matrixVars(Serve(c))

-------------------------------------------------------------------------------
(* Properties *)

(* No row is computed by two ranks or in two groups, whoever gets which part *)
(* and when; a result goes under the name that the master asks for, with the *)
(* rows of that part computed; when the master is done no row is missing, no *)
(* result is left in the space, and no assertion has failed on the way.      *)
RowsOnce ==
    /\ \A x, y \in computed : x[1] = y[1] => x = y
    /\ \A s \in results :
          /\ \E p \in Parts : s = <<_get_name1(p), RowsOf(p)>>
          /\ s[2] \subseteq {x[1] : x \in computed}
    /\ \A c \in Clients : at[c] # "failed"
    /\ at[master] = "done" =>
          /\ {x[1] : x \in computed} = 0..(SIZE - 1)
          /\ \A t \in named_queue : t.name = BName

(* The multiplication comes to its end: the daemon drops the request of a    *)
(* second worker when one tuple matches two, but a part that nobody waits    *)
(* for stays in the space, and the worker that has just put a result asks    *)
(* for the next.                                                             *)
MasterFinishes == <>(at[master] = "done")
===============================================================================
