----------------------------- MODULE NamedTuples -----------------------------
(***************************************************************************)
(* The daemon of module Tsd with the names of module TupleMatch: tuples    *)
(* have plain names, and a query finds a tuple where tplcmp says so.       *)
(***************************************************************************)
EXTENDS Tsd, TupleMatch

(* tplcmp over the names and the queries of an instance.                     *)
TplMatches == {m \in Patterns \X Names : tplcmp(m[1], m[2]) = 0}

(* Names and queries are strings of at least one character.  The name of a   *)
(* tuple is no query: it has no wildcards, and does not begin as one.        *)
ASSUME NamesAssumption ==
    /\ Matches = TplMatches
    /\ \A query \in Patterns : Text(query) /\ query # <<>>
    /\ \A name \in Names : Plain(name) /\ name # <<>> /\ name[1] \notin {":", "!"}

(* Queries meet the tuples they describe: with the waiting requests compared *)
(* as blckcmp_str and the stored tuples as tplcmp does, no read or get waits *)
(* while a tuple is stored that its query asks for, and none is answered     *)
(* with another.  An anonymous tuple has no name to ask for.                 *)
QueriesMeetTuples ==
    /\ \A q \in named_queue_requests, t \in named_queue :
          q.cmd \in Reads /\ q.arg # None /\ t.name # None => ~Asks(q.arg, t.name)
    /\ \A c \in Clients : \A k \in DOMAIN outbox[c] :
          outbox[c][k].re = "TsAck" /\ call[c].cmd \in Reads
              => Asks(call[c].arg, outbox[c][k].name)
===============================================================================
