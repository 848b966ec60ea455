--------------------------------- MODULE Tsd ---------------------------------
(***************************************************************************)
(* The tuple space daemon (tsd.c) for one space in master mode, and the    *)
(* clients that use it through libts (ts.c).                               *)
(*                                                                         *)
(* The daemon is a single thread: tsd_listen polls its sockets and runs    *)
(* handler() to the end for one message.  So one action stands for one     *)
(* run of handler() with everything it calls, and the interleavings are    *)
(* those of the messages of the clients.  A client is one session of a     *)
(* DEALER socket, from ts_open to ts_close; its requests reach the daemon  *)
(* in order, the replies come back in order, and ts_in, ts_bcast_write and *)
(* ts_close do not wait for one.                                           *)
(*                                                                         *)
(* zlistx queues are sets whose elements carry their place in the queue:   *)
(* removing an element is set difference and the head is the lowest place. *)
(* Names and patterns are model values; Matches is tplcmp.  A reply is one *)
(* message here; the shared memory leg of a local reply is in ShmPipe.     *)
(***************************************************************************)
EXTENDS Integers, Sequences, FiniteSets

CONSTANTS
    Clients,   (* the sessions                                               *)
    Names,     (* names of tuples                                            *)
    Patterns,  (* names that queries ask for: "A_1", "*", "!A_*", ":A_.*"    *)
    Matches,   (* the pairs <<pattern, name>> for which tplcmp returns 0     *)
    None,      (* no name: an anonymous tuple, or a command without a name   *)
    Workload,  (* the commands that each client may issue                    *)
    Direct,    (* tsd_mode == TsdModeDirect: the space starts activated      *)
    MaxCalls   (* bound: commands a client issues between open and close     *)

Writes  == {"TsPut", "TsAdd"}
Reads   == {"TsGet", "TsGet_Blocking", "TsRead", "TsRead_Blocking"}
Fetches == {"TsPop", "TsPop_Blocking", "TsPeek", "TsPeek_Blocking"}

(* OUT_BLOCK of ts.c: the commands for which the daemon queues a request.    *)
Waits == {"TsGet_Blocking", "TsRead_Blocking", "TsPop_Blocking", "TsPeek_Blocking"}

(* The commands that remove the tuple they return.                           *)
Takes == {"TsGet", "TsGet_Blocking", "TsPop", "TsPop_Blocking"}

BCastReads == {"TsBCast_Read", "TsBCast_Read_Blocking"}

Stores  == Writes \union {"TsBCast_Write"}
Queries == Reads \union Fetches \union BCastReads
Others  == {"TsNone", "TsConnect", "TsTerm"}

Command == [cmd : Stores, arg : Names \union {None}]
             \union [cmd : Queries, arg : Patterns \union {None}]
             \union [cmd : Others, arg : {None}]

Tuple   == [at : Nat, name : Names \union {None}]
Request == [at : Nat, client : Clients, cmd : Waits, arg : Patterns \union {None}]
Reply   == [re : {"TsModeMaster", "TsAck", "TsAnon", "TsEnf", "TsTerm"},
            at : Nat, name : Names \union {None}, mine : BOOLEAN]

ASSUME TsdAssumption ==
    /\ None \notin Names \union Patterns
    /\ Matches \subseteq Patterns \X Names
    /\ Workload \in [Clients -> SUBSET Command]
    /\ Direct \in BOOLEAN
    /\ MaxCalls \in Nat

VARIABLES
    daemon,                (* "listening", "crashed" or "spinning" in a loop     *)
    is_activated,          (* element->is_activated                              *)
    named_queue,           (* the tuples of the space                            *)
    named_queue_requests,  (* blocking requests that found nothing               *)
    bcast_queue,           (* number of tuples written to the bcast queue        *)
    bcast_queue_requests,  (* number of requests waiting there                   *)
    accepted,              (* number of tuples taken from clients so far         *)
    inbox,                 (* per client: requests on their way to the daemon    *)
    outbox,                (* per client: replies on their way back              *)
    pc,                    (* per client: "new", "open", "calling" or "gone"     *)
    call,                  (* per client: the call it is in                      *)
    calls,                 (* per client: number of commands issued              *)
    holds                  (* per client: the tuples its calls have taken        *)

spaceVars  == <<is_activated, named_queue, named_queue_requests, bcast_queue,
                bcast_queue_requests, accepted>>
clientVars == <<pc, call, calls, holds>>
vars == <<daemon, spaceVars, inbox, outbox, clientVars>>

NoCall == [cmd |-> "TsNone", arg |-> None]

Init ==
    /\ daemon = "listening"
    /\ is_activated = Direct
    /\ named_queue = {}
    /\ named_queue_requests = {}
    /\ bcast_queue = 0
    /\ bcast_queue_requests = 0
    /\ accepted = 0
    /\ inbox = [c \in Clients |-> <<>>]
    /\ outbox = [c \in Clients |-> <<>>]
    /\ pc = [c \in Clients |-> "new"]
    /\ call = [c \in Clients |-> NoCall]
    /\ calls = [c \in Clients |-> 0]
    /\ holds = [c \in Clients |-> {}]

-------------------------------------------------------------------------------
(* Queues *)

First(S) == CHOOSE x \in S : \A y \in S : x.at <= y.at

InOrder(S) ==
    [k \in 1..Cardinality(S) |->
        CHOOSE x \in S : Cardinality({y \in S : y.at <= x.at}) = k]

NextPlace(S) == IF S = {} THEN 1 ELSE 1 + (CHOOSE x \in S : \A y \in S : x.at >= y.at).at

-------------------------------------------------------------------------------
(* The client library *)

Send(c, m) == inbox' = [inbox EXCEPT ![c] = Append(@, m)]

Begin(c, m) ==
    /\ pc' = [pc EXCEPT ![c] = "calling"]
    /\ call' = [call EXCEPT ![c] = m]

(* ts_open sends TsConnect and waits for the mode.                           *)
TsOpen(c) ==
    /\ pc[c] = "new"
    /\ LET m == [cmd |-> "TsConnect", arg |-> None] IN Send(c, m) /\ Begin(c, m)
    /\ UNCHANGED <<daemon, spaceVars, outbox, calls, holds>>

(* ts_in and ts_bcast_write return as soon as the message is sent.           *)
TsIn(c, m) ==
    /\ pc[c] = "open"
    /\ calls[c] < MaxCalls
    /\ m.cmd \in Stores
    /\ Send(c, m)
    /\ calls' = [calls EXCEPT ![c] = @ + 1]
    /\ UNCHANGED <<daemon, spaceVars, outbox, pc, call, holds>>

(* ts_out and ts_bcast_read send the query and wait at _handle_reply.        *)
TsOut(c, m) ==
    /\ pc[c] = "open"
    /\ calls[c] < MaxCalls
    /\ m.cmd \in Queries
    /\ Send(c, m)
    /\ Begin(c, m)
    /\ calls' = [calls EXCEPT ![c] = @ + 1]
    /\ UNCHANGED <<daemon, spaceVars, outbox, holds>>

(* ts_close sends TsTerm and closes the socket.                              *)
TsClose(c) ==
    /\ pc[c] = "open"
    /\ \E m \in Workload[c] : m.cmd = "TsTerm" /\ Send(c, m)
    /\ pc' = [pc EXCEPT ![c] = "gone"]
    /\ UNCHANGED <<daemon, spaceVars, outbox, call, calls, holds>>

(* A blocking call goes back to _handle_reply on TsEnf.  ts_bcast_read does  *)
(* so for blocking # 0, for which it has sent TsBCast_Read.                  *)
(* A variant goes back whether it blocks or not.                             *)
WaitsAlways(c, r) == r.re = "TsEnf"

WaitsOn(c, r) == r.re = "TsEnf" /\ call[c].cmd \in Waits \union {"TsBCast_Read"}

(* The replies that ts_out and ts_open meet at their receive, whatever the   *)
(* request was that they belong to.                                          *)
Receive(c) ==
    /\ pc[c] = "calling"
    /\ outbox[c] # <<>>
    /\ outbox' = [outbox EXCEPT ![c] = Tail(@)]
    /\ LET r == Head(outbox[c]) IN
       /\ pc' = [pc EXCEPT ![c] = IF WaitsOn(c, r) THEN "calling" ELSE "open"]
       /\ call' = [call EXCEPT ![c] = IF WaitsOn(c, r) THEN @ ELSE NoCall]
       /\ holds' = [holds EXCEPT ![c] = IF r.mine THEN @ \union {r.at} ELSE @]
    /\ UNCHANGED <<daemon, spaceVars, inbox, calls>>

-------------------------------------------------------------------------------
(* The daemon: handler() and what it dispatches to *)

Msg(c) == Head(inbox[c])

(* handler() takes the next message of c, a command in cmds.                 *)
Handle(c, cmds) ==
    /\ daemon = "listening"
    /\ inbox[c] # <<>>
    /\ Msg(c).cmd \in cmds
    /\ inbox' = [inbox EXCEPT ![c] = Tail(@)]
    /\ UNCHANGED clientVars

Answer(c, r) == outbox' = [outbox EXCEPT ![c] = Append(@, r)]

(* The clients of the requests in S are answered, in the order of S.         *)
AnswerAll(S, reply(_)) ==
    outbox' = [c \in Clients |->
        LET mine == InOrder({q \in S : q.client = c})
        IN  outbox[c] \o [k \in DOMAIN mine |-> reply(mine[k])]]

Enf == [re |-> "TsEnf", at |-> 0, name |-> None, mine |-> FALSE]

TermReply == [re |-> "TsTerm", at |-> 0, name |-> None, mine |-> FALSE]

(* handle_named_queue_read_response, handle_named_queue_fetch_response: the  *)
(* tuple goes out, for good if the command detaches it.                      *)
Found(t, cmd) ==
    [re |-> IF t.name = None THEN "TsAnon" ELSE "TsAck",
     at |-> t.at, name |-> t.name, mine |-> cmd \in Takes]

(* "handle case where illegal tuple case is got": on a space that is not     *)
(* activated everything but TsConnect is answered with TsEnf, a write too.   *)
HandleInactive(c) ==
    /\ ~is_activated
    /\ Handle(c, Stores \union Queries \union {"TsTerm"})
    /\ Answer(c, Enf)
    /\ UNCHANGED <<daemon, spaceVars>>

(* ts_connect_handler in master mode, for a client that opens as master or   *)
(* as worker.                                                                *)
HandleConnect(c) ==
    /\ Handle(c, {"TsConnect"})
    /\ is_activated' = TRUE
    /\ Answer(c, [re |-> "TsModeMaster", at |-> 0, name |-> None, mine |-> FALSE])
    /\ UNCHANGED <<daemon, named_queue, named_queue_requests, bcast_queue,
                   bcast_queue_requests, accepted>>

(* blckcmp_str: a waiting pop or peek matches any tuple.                     *)
RequestMatches(q, t) == q.cmd \in Fetches \/ <<q.arg, t.name>> \in Matches

(* A variant looks for the name only.                                        *)
MatchingName(t) == {q \in named_queue_requests : <<q.arg, t.name>> \in Matches}

Matching(t) == {q \in named_queue_requests : RequestMatches(q, t)}

(* The loop of match_blocking_requests goes through the matching requests in *)
(* the order of the queue.  It serves them up to the first one that takes    *)
(* the tuple.  It then finds the next match, and before it leaves detaches   *)
(* that request too and frees it.                                            *)
(* A variant goes on after a request has taken the tuple.                    *)
ServedAll(M) == M

Served(M) ==
    LET takers == {q \in M : q.cmd \in Takes}
    IN  IF takers = {} THEN M ELSE {q \in M : q.at <= First(takers).at}

Dropped(M) == IF M \ Served(M) = {} THEN {} ELSE {First(M \ Served(M))}

(* match_blocking_requests: the tuple is appended unless a request took it.  *)
(* A variant does not ask need_append.                                       *)
AppendAlways(t, M) == named_queue' = named_queue \union {t}

AppendIfNeeded(t, M) ==
    named_queue' = IF \E q \in M : q.cmd \in Takes THEN named_queue
                   ELSE named_queue \union {t}

(* A variant leaves the requests that it has served in the queue.            *)
MatchLeavesRequests(t) ==
    LET M == Matching(t)
    IN  /\ UNCHANGED named_queue_requests
        /\ AppendIfNeeded(t, M)
        /\ AnswerAll(Served(M), LAMBDA q : Found(t, q.cmd))

MatchBlockingRequests(t) ==
    LET M == Matching(t)
    IN  /\ named_queue_requests' = named_queue_requests \ (Served(M) \union Dropped(M))
        /\ AppendIfNeeded(t, M)
        /\ AnswerAll(Served(M), LAMBDA q : Found(t, q.cmd))

(* named_queue_write_handler for TsPut.                                      *)
HandlePut(c) ==
    /\ is_activated
    /\ Handle(c, {"TsPut"})
    /\ accepted' = accepted + 1
    /\ MatchBlockingRequests([at |-> accepted + 1, name |-> Msg(c).arg])
    /\ UNCHANGED <<daemon, is_activated, bcast_queue, bcast_queue_requests>>

(* named_queue_write_handler for TsAdd.  The comparison of the anonymous     *)
(* tuple with the first waiting request, or the answer to a waiting pop,     *)
(* passes its NULL name to a string function.                                *)
HandleAdd(c) ==
    /\ is_activated
    /\ Handle(c, {"TsAdd"})
    /\ \/ /\ named_queue_requests = {}
          /\ accepted' = accepted + 1
          /\ MatchBlockingRequests([at |-> accepted + 1, name |-> None])
          /\ UNCHANGED daemon
       \/ /\ named_queue_requests # {}
          /\ daemon' = "crashed"
          /\ UNCHANGED <<accepted, named_queue, named_queue_requests, outbox>>
    /\ UNCHANGED <<is_activated, bcast_queue, bcast_queue_requests>>

(* The tail of named_queue_read_handler and named_queue_fetch_handler when   *)
(* there is no tuple: a blocking request is queued, and TsEnf sent.  A       *)
(* variant queues every request.                                             *)
QueueAlways(c) ==
    named_queue_requests' = named_queue_requests \union
        {[at |-> NextPlace(named_queue_requests), client |-> c,
          cmd |-> Msg(c).cmd, arg |-> Msg(c).arg]}

QueueRequest(c) ==
    named_queue_requests' = named_queue_requests \union
        {[at |-> NextPlace(named_queue_requests), client |-> c,
          cmd |-> cmd, arg |-> Msg(c).arg] : cmd \in Waits \intersect {Msg(c).cmd}}

NotFound(c) ==
    /\ QueueRequest(c)
    /\ Answer(c, Enf)
    /\ UNCHANGED named_queue

(* Their tail when there is one.                                             *)
FoundOne(c, t) ==
    /\ named_queue' = IF Msg(c).cmd \in Takes THEN named_queue \ {t} ELSE named_queue
    /\ Answer(c, Found(t, Msg(c).cmd))
    /\ UNCHANGED named_queue_requests

(* The tuples a query finds: zlistx_find with tplcmp, or the whole queue.    *)
Candidates(m) ==
    IF m.cmd \in Fetches THEN named_queue
    ELSE {t \in named_queue : <<m.arg, t.name>> \in Matches}

(* named_queue_read_handler and named_queue_fetch_handler.                   *)
HandleQuery(c) ==
    /\ is_activated
    /\ Handle(c, Reads \union Fetches)
    /\ \/ Candidates(Msg(c)) = {} /\ NotFound(c)
       \/ Candidates(Msg(c)) # {} /\ FoundOne(c, First(Candidates(Msg(c))))
    /\ UNCHANGED <<daemon, is_activated, bcast_queue, bcast_queue_requests, accepted>>

(* bcast_queue_write_handler: what it appends is not the tuple it received   *)
(* but a copy of the bytes at &recv.  Nobody waiting is looked at.  The data *)
(* of a remote client are received over the pointer that should hold them    *)
(* and what follows it on the stack: the daemon may die of it.               *)
HandleBCastWrite(c) ==
    /\ is_activated
    /\ Handle(c, {"TsBCast_Write"})
    /\ bcast_queue' = bcast_queue + 1
    /\ daemon' \in {"listening", "crashed"}
    /\ UNCHANGED <<is_activated, named_queue, named_queue_requests,
                   bcast_queue_requests, accepted, outbox>>

(* bcast_queue_read_handler: on an empty queue a blocking request is queued  *)
(* (with a name and a client id that are freed at once) and TsEnf sent; on   *)
(* any other the comparison follows a pointer made of those bytes.           *)
HandleBCastRead(c) ==
    /\ is_activated
    /\ Handle(c, BCastReads)
    /\ \/ /\ bcast_queue = 0
          /\ bcast_queue_requests' = bcast_queue_requests
                + (IF Msg(c).cmd = "TsBCast_Read_Blocking" THEN 1 ELSE 0)
          /\ Answer(c, Enf)
          /\ UNCHANGED daemon
       \/ /\ bcast_queue # 0
          /\ daemon' = "crashed"
          /\ UNCHANGED <<bcast_queue_requests, outbox>>
    /\ UNCHANGED <<is_activated, named_queue, named_queue_requests, bcast_queue, accepted>>

(* ts_term_clear_requests, its first loop, and a variant that only empties   *)
(* the queue of requests.                                                    *)
ReleaseNobody == UNCHANGED outbox

ReleaseAll == AnswerAll(named_queue_requests, LAMBDA q : TermReply)

(* TsTerm: ts_term_send_decomission_signal and ts_term_clear_requests.  All  *)
(* waiting requests are answered and dropped, then the queues are emptied;   *)
(* the loop for a bcast queue that is not empty detaches from named_queue    *)
(* and does not end.  The requests of the bcast queue hold freed memory: the *)
(* daemon frees it again and dies, or the reply goes nowhere.                *)
HandleTerm(c) ==
    /\ is_activated
    /\ Handle(c, {"TsTerm"})
    /\ is_activated' = FALSE
    /\ named_queue_requests' = {}
    /\ named_queue' = {}
    /\ ReleaseAll
    /\ bcast_queue_requests' = 0
    /\ \/ daemon' = IF bcast_queue = 0 THEN "listening" ELSE "spinning"
       \/ bcast_queue_requests # 0 /\ daemon' = "crashed"
    /\ UNCHANGED <<bcast_queue, accepted>>

Daemon(c) ==
    \/ HandleInactive(c)
    \/ HandleConnect(c)
    \/ HandlePut(c)
    \/ HandleAdd(c)
    \/ HandleQuery(c)
    \/ HandleBCastWrite(c)
    \/ HandleBCastRead(c)
    \/ HandleTerm(c)

Client(c) ==
    \/ TsOpen(c)
    \/ TsClose(c)
    \/ Receive(c)
    \/ \E m \in Workload[c] : TsIn(c, m) \/ TsOut(c, m)

Next == \E c \in Clients : Client(c) \/ Daemon(c)

Spec == Init /\ [][Next]_vars

(* ROUTER sockets serve their peers in turn and tsd_listen comes back to     *)
(* both sockets, so that no client's message waits forever while the daemon  *)
(* listens; a client that waits for a reply reads it when it is there.       *)
FairSpec ==
    /\ Spec
    /\ \A c \in Clients : WF_vars(Daemon(c)) /\ WF_vars(Receive(c))

-------------------------------------------------------------------------------
(* Properties *)

(* Type invariant.                                                           *)
TypeOK ==
    /\ daemon \in {"listening", "crashed", "spinning"}
    /\ is_activated \in BOOLEAN
    /\ named_queue \subseteq Tuple
    /\ named_queue_requests \subseteq Request
    /\ bcast_queue \in Nat
    /\ bcast_queue_requests \in Nat
    /\ accepted \in Nat
    /\ inbox \in [Clients -> Seq(Command)]
    /\ outbox \in [Clients -> Seq(Reply)]
    /\ pc \in [Clients -> {"new", "open", "calling", "gone"}]
    /\ call \in [Clients -> Command]
    /\ calls \in [Clients -> Nat]
    /\ holds \in [Clients -> SUBSET Nat]

(* The tuples that have left the daemon for c: in a reply under way or in    *)
(* the hands of the program.                                                 *)
Taken(c) ==
    holds[c] \union {outbox[c][k].at : k \in {k \in DOMAIN outbox[c] : outbox[c][k].mine}}

Space == INSTANCE TupleSpace WITH
    space <- {t.at : t \in named_queue},
    taken <- [c \in Clients |-> Taken(c)]

(* The daemon implements the tuple space: whatever blocking requests, takes, *)
(* connects and terms interleave, a tuple is taken at most once, and only    *)
(* out of the space or straight from the put.                                *)
IsTupleSpace == Space!Spec

(* Nobody waits for a tuple that is there: no request in the queue matches a *)
(* stored tuple, and a pop or peek waits only while the queue is empty.      *)
NoMissedMatch ==
    \A q \in named_queue_requests, t \in named_queue : ~RequestMatches(q, t)

(* As long as the space stays open no tuple gets lost: each one that was     *)
(* accepted is in the queue or has been taken by exactly one client.         *)
Conserved ==
    \A n \in 1..accepted :
        \/ /\ \E t \in named_queue : t.at = n
           /\ \A c \in Clients : n \notin Taken(c)
        \/ /\ \A t \in named_queue : t.at # n
           /\ \E c \in Clients : \A d \in Clients : n \in Taken(d) <=> d = c

(* A queued request belongs to a client that is still in exactly that call,  *)
(* has nothing else under way and is on the list once: the tuple it will get *)
(* finds its caller.                                                         *)
RequestsAreLive ==
    \A q \in named_queue_requests :
        /\ pc[q.client] = "calling"
        /\ call[q.client] = [cmd |-> q.cmd, arg |-> q.arg]
        /\ inbox[q.client] = <<>>
        /\ \A k \in DOMAIN outbox[q.client] : outbox[q.client][k].re = "TsEnf"
        /\ \A p \in named_queue_requests : p.client = q.client => p = q

(* A client between calls has no reply waiting for it, and the tuple in a    *)
(* reply is one that the call at hand asked for.                             *)
RepliesInStep ==
    \A c \in Clients :
        /\ pc[c] = "open" => outbox[c] = <<>>
        /\ pc[c] = "calling" => \A k \in DOMAIN outbox[c] :
              /\ outbox[c][k].re = "TsAck" /\ call[c].cmd \in Reads
                    => <<call[c].arg, outbox[c][k].name>> \in Matches
              /\ outbox[c][k].mine => call[c].cmd \in Takes

(* The step that takes a space down answers everyone who is on the list, as  *)
(* the last thing the daemon has to say to them about that call; and while   *)
(* it is down it is empty: nothing of one session is left for the next, and  *)
(* what comes before the next connect is not taken in.                       *)
TermEndsSession ==
    [][~is_activated' =>
          /\ named_queue' = {} /\ named_queue_requests' = {}
          /\ is_activated =>
                \A q \in named_queue_requests :
                    /\ outbox'[q.client] # <<>>
                    /\ outbox'[q.client][Len(outbox'[q.client])] = TermReply]_vars

(* A call that does not block returns.                                       *)
NonBlockingReturns ==
    \A c \in Clients :
        pc[c] = "calling" /\ call[c].cmd \notin Waits \union {"TsBCast_Read"}
            ~> pc[c] # "calling"

===============================================================================
