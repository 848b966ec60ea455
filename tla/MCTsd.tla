-------------------------------- MODULE MCTsd --------------------------------
(***************************************************************************)
(* Small instances of Tsd: one program that puts, two that ask.            *)
(***************************************************************************)
EXTENDS NamedTuples

CONSTANTS master, worker1, worker2

(* Names of tuples, and queries: "*" and a wildcard expression for names     *)
(* that contain '_'.                                                         *)
a   == <<"A", "_">>
b   == <<"A", "1">>
any == <<"*">>
isA == <<"!", "*", "_", "*">>

MCNames == {a, b}

MCPatterns == {any, isA}

MCRegexec(expr, name) == FALSE

Cmd(name, arg) == [cmd |-> name, arg |-> arg]

(* Tuples of two names; takers and readers, with and without blocking.       *)
ServeWorkload ==
    [c \in Clients |->
        CASE c = master  -> {Cmd("TsPut", a), Cmd("TsPut", b), Cmd("TsPeek_Blocking", None)}
          [] c = worker1 -> {Cmd("TsGet_Blocking", isA), Cmd("TsRead_Blocking", isA),
                             Cmd("TsGet", any), Cmd("TsPut", a)}
          [] c = worker2 -> {Cmd("TsPop_Blocking", None), Cmd("TsRead", any),
                             Cmd("TsGet_Blocking", any), Cmd("TsPop", None)}]

(* Everything that brings a space up and down, anonymous tuples and the      *)
(* bcast queue.                                                              *)
LifeWorkload ==
    [c \in Clients |->
        IF c = master
        THEN {Cmd("TsPut", a), Cmd("TsAdd", None), Cmd("TsBCast_Write", a), Cmd("TsTerm", None)}
        ELSE {Cmd("TsGet_Blocking", isA), Cmd("TsPop", None), Cmd("TsRead", any),
              Cmd("TsBCast_Read", isA), Cmd("TsBCast_Read_Blocking", isA), Cmd("TsTerm", None)}]
===============================================================================
