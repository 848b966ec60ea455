----------------------------- MODULE RingStabilize -----------------------------
(*****************************************************************************)
(* The actor p2pmd_actor of the members of a ring and the protocol that      *)
(* its loop runs: timers, pings, stabilisation with the successor, the       *)
(* promotion of the next successor when one is dead, the replication of      *)
(* successor lists to the predecessors, and the forwarding of tokens.        *)
(*                                                                           *)
(* One action is one turn of the loop: zmq_poll, a message of the pipe,      *)
(* p2pm_loop_server with its three parts, and the test at the end, after     *)
(* which the loop goes round without polling (pc "again") while the node's   *)
(* interval is over.  A turn is worked out in stages, AtPipe, AtServer,      *)
(* AtSuccessor, AtPredecessor, Ended; each takes the records x of the turns  *)
(* that are possible so far: the node's state nd, what is on its sockets,    *)
(* what it has sent.                                                         *)
(*                                                                           *)
(* Time.  A wait (RECV_WAIT, 5 s) runs out only when nobody has anything     *)
(* else to do; the intervals (STABILIZE_INTERVAL_MS, 10 min) are of one      *)
(* length, so that each ends once between two states of rest.  Nodes crash   *)
(* anywhere, MaxCrashes of them; the daemons give their actors MaxTokens     *)
(* tokens.  Joins are in RingJoin.                                           *)
(*****************************************************************************)
EXTENDS Integers, Sequences, FiniteSets

CONSTANTS
    Ring,          \* the members, in the order of the ring at the start
    None,
    RMax,          \* r_max, the length of a successor list
    MaxCrashes,
    MaxTokens,
    MaxPings,      \* bound: pings kept on one link
    Overlap        \* when an interval may end: "rest": when all is at rest,
                   \* "member": when the node is not in an exchange, "any"

Nodes == {Ring[i] : i \in DOMAIN Ring}

ASSUME RingAssumption ==
    /\ Ring \in Seq(Nodes) /\ Len(Ring) > 1
    /\ \A i, j \in DOMAIN Ring : Ring[i] = Ring[j] => i = j
    /\ None \notin Nodes \cup (1 .. MaxTokens)
    /\ RMax \in Nat /\ RMax > 1
    /\ MaxCrashes \in Nat /\ MaxTokens \in Nat /\ MaxPings \in Nat
    /\ Overlap \in {"rest", "member", "any"}

Socks == {"succ", "pred"}
Tokens == 1 .. MaxTokens
Position == [n \in Nodes |-> CHOOSE i \in DOMAIN Ring : Ring[i] = n]
Dist(n, m) == ((Position[m] - Position[n] + Len(Ring) - 1) % Len(Ring)) + 1
After(n, i) == CHOOSE m \in Nodes : (Dist(n, m) - i) % Len(Ring) = 0

VARIABLES
    node,      \* node[n]: the p2pm_t of n with its node_list
    wire,      \* wire[n, s, m]: messages n has sent on socket s to m's server
    frames,    \* frames[n][s]: the frames that wait on n's socket s
    clock,     \* clock[n]: "running", "due" (interval over), "reset" (begun anew)
    pipe,      \* pipe[n]: tokens the daemon has given to the actor
    arrived,   \* arrived[n]: tokens the actor has handed to the daemon
    issued     \* how many tokens there have been

vars == <<node, wire, frames, clock, pipe, arrived, issued>>

Request ==
    [type : {"PING", "STABILIZE_REQ", "SYN", "NSYN", "FIND_HEAD"}]
    \cup [type : {"SYNC_SLIST"}, ttl : 1 .. RMax, r : 0 .. RMax,
          list : [1 .. RMax -> Nodes \cup {None}]]
    \cup [type : {"TOKEN"}, token : Tokens]

Status == {"MEMBER", "HANDLING_STABILIZE", "FINDING_HEAD"}
SuccXpv == {"NO", "REQ", "REQ2", "ACK", "FAILURE"}
PredXpv == {"NO", "PING1", "PING2", "PING3", "REPLICATE", "RELAY", "FIND_HEAD"}
Triggers == {"NO", "STABILIZE", "FIND_HEAD", "REPLICATE", "RELAY"}

Node ==
    [pc : {"poll", "again", "spin", "down", "left"},
     revents : SUBSET {"server", "succ", "pred"},
     status : Status,
     successor : Nodes, predecessor : Nodes \cup {None}, temp_predecessor : Nodes \cup {None},
     successor_list : [1 .. RMax -> Nodes \cup {None}], r : 0 .. RMax,
     last_ttl : 0 .. RMax,
     succ_xpv : SuccXpv, pred_xpv : PredXpv,
     pred_trig : {"NO", "FIND_HEAD", "REPLICATE", "RELAY"}, trig : Triggers,
     send_token : Tokens \cup {None}, recv_token : Tokens \cup {None}]

Live == {n \in Nodes : node[n].pc \notin {"down", "left"}}

MemberAt(n) ==
    [pc |-> "poll", revents |-> {}, status |-> "MEMBER",
     successor |-> After(n, 1), predecessor |-> After(n, Len(Ring) - 1),
     temp_predecessor |-> None,
     successor_list |-> [i \in 1 .. RMax |-> After(n, i)], r |-> RMax, last_ttl |-> 0,
     succ_xpv |-> "NO", pred_xpv |-> "NO", pred_trig |-> "NO", trig |-> "NO",
     send_token |-> None, recv_token |-> None]

Init ==
    /\ node = [n \in Nodes |-> MemberAt(n)]
    /\ wire = [l \in Nodes \X Socks \X Nodes |-> <<>>]
    /\ frames = [n \in Nodes |-> [s \in Socks |-> <<>>]]
    /\ clock = [n \in Nodes |-> "running"]
    /\ pipe = [n \in Nodes |-> <<>>]
    /\ arrived = [n \in Nodes |-> <<>>]
    /\ issued = 0

--------------------------------------------------------------------------------
(* The record of a turn and what can be done with it.                        *)

Begin(n) ==
    [self |-> n, nd |-> [node[n] EXCEPT !.pc = "poll"], frames |-> frames[n], clock |-> clock[n],
     link |-> None, took |-> FALSE, out |-> <<>>, reply |-> <<>>, up |-> <<>>]

Peer(nd, s) == IF s = "succ" THEN nd.successor ELSE nd.predecessor

Send(x, s, m) ==
    [x EXCEPT !.out = Append(@, [link |-> <<x.self, s, Peer(x.nd, s)>>, msg |-> m])]

Ping == [type |-> "PING"]

(* One frame, if there is one, off socket s.                                 *)
Drop(x, s) == [x EXCEPT !.frames[s] = IF @ = <<>> THEN @ ELSE Tail(@)]

(* A new peer on socket s: what the old one has sent is discarded.           *)
Connect(x, s) == [x EXCEPT !.frames[s] = <<>>]

(* A variant copies one place too far on.                                    *)
CopySuccessorListInPlace(nd, l, n_r) == [nd EXCEPT !.successor_list = l]

(* p2pm_ni_copy_successor_list: l goes behind the first entry.               *)
CopySuccessorList(nd, l, n_r) ==
    LET k == IF n_r + 1 > RMax THEN RMax - 1 ELSE n_r
    IN  [nd EXCEPT !.r = k + 1,
                   !.successor_list =
                        [i \in 1 .. RMax |-> IF i \in 2 .. k + 1 THEN l[i - 1] ELSE @[i]]]

(* _p2pm_ni_condense_successor_list: it compares an index where it means an  *)
(* entry, and so clears the second entry of a list that is not full.         *)
Condense(nd) ==
    IF nd.r >= RMax THEN nd ELSE [nd EXCEPT !.successor_list[2] = None]

--------------------------------------------------------------------------------
(* The server's handlers: y is the turn after the handler.                   *)

PingReq(x) == [x EXCEPT !.reply = <<[type |-> "PONG"]>>]

(* A variant serves nobody while it is in an exchange itself.                *)
StabilizeReqMember(x, from) ==
    IF x.nd.status # "MEMBER" THEN x
    ELSE [x EXCEPT !.nd.status = "HANDLING_STABILIZE",
                   !.nd.temp_predecessor = from,
                   !.reply = <<[type |-> "ACK", r |-> x.nd.r, list |-> x.nd.successor_list]>>]

(* A refusal is sent without the client's id and goes nowhere.               *)
StabilizeReq(x, from) ==
    IF x.nd.status \notin {"MEMBER", "HANDLING_STABILIZE"} THEN x
    ELSE [x EXCEPT !.nd.status = "HANDLING_STABILIZE",
                   !.nd.temp_predecessor = from,
                   !.reply = <<[type |-> "ACK", r |-> x.nd.r,
                               list |-> x.nd.successor_list]>>]

StabilizeSynReq(x) ==
    IF x.nd.status # "HANDLING_STABILIZE" THEN [x EXCEPT !.nd.temp_predecessor = None]
    ELSE LET y == [x EXCEPT !.nd.predecessor = x.nd.temp_predecessor,
                            !.nd.temp_predecessor = None,
                            !.nd.trig = "NO",
                            !.nd.status = "MEMBER"]
         IN  IF y.nd.predecessor = x.nd.predecessor THEN y ELSE Connect(y, "pred")

StabilizeNsynReq(x) ==
    [x EXCEPT !.nd.temp_predecessor = None,
              !.nd.status = IF @ = "HANDLING_STABILIZE" THEN "MEMBER" ELSE @]

SyncSlist(x, m) ==
    LET y == [x EXCEPT !.reply = <<[type |-> "SYNC_SLIST_ACK"]>>]
    IN  IF m.r \notin 1 .. RMax THEN x
        ELSE IF m.ttl - 1 > 0
        THEN [y EXCEPT !.nd = [CopySuccessorList(@, m.list, m.r) EXCEPT
                                  !.last_ttl = m.ttl - 1, !.trig = "RELAY"]]
        ELSE y

TokenReq(x, m) == [x EXCEPT !.nd.recv_token = m.token]

Handle(x, from, m) ==
    CASE m.type = "PING"          -> PingReq(x)
      [] m.type = "STABILIZE_REQ" -> StabilizeReq(x, from)
      [] m.type = "SYN"           -> StabilizeSynReq(x)
      [] m.type = "NSYN"          -> StabilizeNsynReq(x)
      [] m.type = "SYNC_SLIST"    -> SyncSlist(x, m)
      [] m.type = "TOKEN"         -> TokenReq(x, m)
      [] m.type = "FIND_HEAD"     -> x

(* The server's part of a turn: a message off link l, or nothing.            *)
Server(x, l) ==
    IF l = None THEN x ELSE [Handle(x, l[1], Head(wire[l])) EXCEPT !.link = l]

(* The timer of p2pm_loop_server.                                            *)
Timer(x) ==
    IF x.nd.status = "MEMBER" /\ x.clock = "due"
    THEN [x EXCEPT !.nd.trig = "STABILIZE", !.nd.status = "HANDLING_STABILIZE"]
    ELSE x


--------------------------------------------------------------------------------
(* The successor's socket.                                                   *)

(* A variant goes on expecting an answer to its ping.                        *)
PongExpectedStays(x, f) ==
    IF f.type = "PONG" THEN Send(x, "succ", [type |-> "STABILIZE_REQ"])
    ELSE [Send(x, "succ", Ping) EXCEPT !.nd.succ_xpv = "FAILURE"]

(* An answer to a ping.                                                      *)
PongExpected(x, f) ==
    IF f.type = "PONG"
    THEN [Send(x, "succ", [type |-> "STABILIZE_REQ"]) EXCEPT !.nd.succ_xpv = "ACK"]
    ELSE [Send(x, "succ", Ping) EXCEPT !.nd.succ_xpv = "FAILURE"]

(* A variant: the test of r is off by one.                                   *)
AckExpectedStrict(x, f) ==
    IF f.type # "ACK" \/ f.r \notin 1 .. RMax - 1
    THEN [Send(x, "succ", [type |-> "NSYN"]) EXCEPT !.nd.succ_xpv = "FAILURE"]
    ELSE Send([x EXCEPT !.nd.succ_xpv = "NO", !.nd.status = "MEMBER"], "succ", [type |-> "SYN"])

(* The answer to STABILIZE_REQ.                                              *)
AckExpected(x, f) ==
    IF f.type # "ACK" \/ f.r \notin 1 .. RMax
    THEN [Send(x, "succ", [type |-> "NSYN"]) EXCEPT !.nd.succ_xpv = "FAILURE"]
    ELSE LET y == [x EXCEPT !.nd = [CopySuccessorList(@, f.list, f.r) EXCEPT
                                        !.trig = "REPLICATE", !.succ_xpv = "NO",
                                        !.status = "MEMBER"]]
         IN  Send(y, "succ", [type |-> "SYN"])

(* A variant forgets to set the successor from the list.                     *)
NextSuccessorStays(x) ==
    IF x.nd.successor_list[2] # None
    THEN [x EXCEPT !.nd.successor_list[1] = x.nd.successor_list[2], !.nd.succ_xpv = "REQ"]
    ELSE [x EXCEPT !.nd.trig = "FIND_HEAD", !.nd.status = "FINDING_HEAD",
                   !.nd.succ_xpv = "NO"]

NextSuccessor(x) ==
    IF x.nd.successor_list[2] # None
    THEN LET nd == Condense([x.nd EXCEPT !.successor_list[1] = x.nd.successor_list[2]])
         IN  Connect([x EXCEPT !.nd = [nd EXCEPT !.successor = nd.successor_list[1],
                                                 !.succ_xpv = "REQ"]], "succ")
    ELSE [x EXCEPT !.nd.trig = "FIND_HEAD", !.nd.status = "FINDING_HEAD",
                   !.nd.succ_xpv = "NO"]

(* The wait is over.  After the first one two pings are sent: the first case *)
(* of the switch falls through to the second.                                *)
SuccessorLate(x) ==
    CASE x.nd.succ_xpv = "REQ" ->
            [Send(Send(x, "succ", Ping), "succ", Ping) EXCEPT !.nd.succ_xpv = "REQ2"]
      [] x.nd.succ_xpv \in {"REQ2", "FAILURE"} -> NextSuccessor(x)
      [] OTHER -> x

StartStabilize(x) ==
    [Send(x, "succ", Ping) EXCEPT !.clock = "reset", !.nd.succ_xpv = "REQ",
                                  !.nd.trig = "NO"]

SkipPongs(fs) ==
    LET other == {i \in DOMAIN fs : fs[i].type # "PONG"}
    IN  SubSeq(fs, CHOOSE k \in 1 .. Len(fs) + 1 :
                       /\ \A i \in 1 .. k - 1 : i \notin other
                       /\ k \in other \/ k = Len(fs) + 1, Len(fs))

(* With POLLIN set the handler reads, without waiting, until it has a frame, *)
(* and, when it expects an ACK, until it has one that is not a PONG.         *)
SuccessorFrames(x) ==
    IF x.nd.succ_xpv = "ACK" THEN SkipPongs(x.frames["succ"]) ELSE x.frames["succ"]

SuccessorSocket(x, pollin, late) ==
    IF pollin
    THEN LET fs == SuccessorFrames(x)
             y == [x EXCEPT !.frames["succ"] = Tail(fs)]
         IN  IF fs = <<>> THEN [x EXCEPT !.frames["succ"] = fs, !.nd.pc = "spin"]
             ELSE CASE x.nd.succ_xpv \in {"REQ", "REQ2"} -> PongExpected(y, Head(fs))
                    [] x.nd.succ_xpv = "ACK" -> AckExpected(y, Head(fs))
                    [] OTHER -> y
    ELSE IF late \/ x.nd.succ_xpv = "FAILURE" THEN SuccessorLate(x)
    ELSE IF x.nd.trig = "STABILIZE" THEN StartStabilize(x)
    ELSE x

(* A variant leaves the token in the slot.                                   *)
SendTokenKeeps(x) ==
    IF x.nd.send_token = None \/ x.nd.pc = "spin" THEN x
    ELSE Send(x, "succ", [type |-> "TOKEN", token |-> x.nd.send_token])

SendToken(x) ==
    IF x.nd.send_token = None \/ x.nd.pc = "spin" THEN x
    ELSE [Send(x, "succ", [type |-> "TOKEN", token |-> x.nd.send_token]) EXCEPT
             !.nd.send_token = None]

--------------------------------------------------------------------------------
(* The predecessor's socket.                                                 *)

Pinging == {"PING1", "PING2", "PING3"}

SyncSlistOf(nd, ttl) ==
    [type |-> "SYNC_SLIST", ttl |-> ttl, r |-> nd.r, list |-> nd.successor_list]

(* The predecessor is alive: what it was pinged for is done.                 *)
PredecessorAlive(x) ==
    LET y == [x EXCEPT !.nd.pred_trig = "NO", !.nd.pred_xpv = x.nd.pred_trig]
    IN  CASE x.nd.pred_trig = "FIND_HEAD" ->
                [Send(y, "pred", [type |-> "FIND_HEAD"]) EXCEPT
                    !.nd.status = "FINDING_HEAD"]
          [] x.nd.pred_trig = "REPLICATE" -> Send(y, "pred", SyncSlistOf(x.nd, RMax))
          [] x.nd.pred_trig = "RELAY" ->
                [Send(y, "pred", SyncSlistOf(x.nd, x.nd.last_ttl)) EXCEPT !.nd.trig = "NO"]
          [] OTHER -> y

PingPredecessor(x, t) ==
    [Send(x, "pred", Ping) EXCEPT !.nd.pred_trig = t, !.nd.pred_xpv = "PING1",
                                  !.nd.trig = "NO"]

(* p2pm_form_one_ring closes two sockets that the pollers still name: the    *)
(* next zmq_poll fails and the actor returns.                                *)
FormOneRing(x) == [x EXCEPT !.nd.pc = "left"]

PredecessorLate(x) ==
    CASE x.nd.pred_xpv = "PING1" -> [Send(x, "pred", Ping) EXCEPT !.nd.pred_xpv = "PING2"]
      [] x.nd.pred_xpv = "PING2" -> [Send(x, "pred", Ping) EXCEPT !.nd.pred_xpv = "PING3"]
      [] x.nd.pred_xpv = "PING3" ->
            IF x.nd.status = "MEMBER"
            THEN [x EXCEPT !.nd.trig = "FIND_HEAD", !.nd.pred_xpv = "NO"]
            ELSE FormOneRing(x)
      [] x.nd.pred_xpv \in {"RELAY", "REPLICATE"} -> PingPredecessor(x, x.nd.pred_xpv)
      [] OTHER -> x

PredecessorPollin(x, v) ==
    CASE x.nd.pred_xpv \in Pinging /\ v = "PONG" -> PredecessorAlive(x)
      [] x.nd.pred_xpv \in {"NO", "FIND_HEAD"} -> x
      [] OTHER -> [x EXCEPT !.nd.pred_xpv = "NO", !.nd.trig = "NO"]

PredecessorIdle(x, late) ==
    IF late THEN PredecessorLate(x)
    ELSE IF x.nd.trig \in {"FIND_HEAD", "REPLICATE", "RELAY"}
    THEN PingPredecessor(x, x.nd.trig)
    ELSE x

--------------------------------------------------------------------------------
(* The end of a turn: a token that has come goes up the pipe, and the loop   *)
(* polls again unless the node's interval is over still.                     *)
Finish(x, revents) ==
    IF x.nd.pc = "left" THEN x
    ELSE [x EXCEPT !.up = IF x.nd.recv_token = None THEN <<>> ELSE <<x.nd.recv_token>>,
                   !.nd.recv_token = None,
                   !.nd.trig = "NO",
                   !.nd.pc = IF x.clock = "due" THEN "again" ELSE "poll",
                   !.nd.revents = IF x.clock = "due" THEN revents ELSE {}]

(* One stage of a turn after another, each from the turns x that have come   *)
(* so far: the two sockets, the end.  late: the sockets whose wait is over.  *)
AtSuccessor(turns, revents, late) ==
    {SendToken(y) : y \in {SuccessorSocket(x, "succ" \in revents, "succ" \in late) : x \in turns}}

(* p2pm_recv_uint32 leaves its result unset if there is no frame after all.  *)
Received(x) ==
    IF x.frames["pred"] # <<>> THEN {Head(x.frames["pred"]).type} ELSE {"PONG", "none"}

AtPredecessor(turns, revents, late) ==
    UNION {CASE x.nd.pc = "spin" -> {x}
             [] x.nd.pc # "spin" /\ "pred" \in revents ->
                   {PredecessorPollin(Drop(x, "pred"), v) : v \in Received(x)}
             [] OTHER -> {PredecessorIdle(x, "pred" \in late)} : x \in turns}

Ended(turns, revents) ==
    {IF x.nd.pc = "spin" THEN [x EXCEPT !.nd.revents = revents] ELSE Finish(x, revents) : x \in turns}

Sockets(turns, revents, late) ==
    Ended(AtPredecessor(AtSuccessor(turns, revents, late), revents, late), revents)

(* What is ready on a node: the links to its server, and its sockets.        *)
Inbox(n) == {l \in DOMAIN wire : l[3] = n /\ wire[l] # <<>>}
Ready(n) ==
    {s \in Socks : frames[n][s] # <<>>} \cup {s \in {"server"} : Inbox(n) # {}}
    \cup {s \in {"pipe"} : pipe[n] # <<>>}

(* The sockets whose wait matters, and those that are late without effect.   *)
Waits(nd) ==
    {s \in {"succ"} : nd.succ_xpv \in {"REQ", "REQ2"}}
    \cup {s \in {"pred"} : nd.pred_xpv \in Pinging \cup {"RELAY", "REPLICATE"}}
IdleLate(nd) == {s \in {"pred"} : nd.pred_xpv \in {"NO", "FIND_HEAD"}}

(* Has the node anything to do before a wait is over?                        *)
Moves(n) ==
    LET nd == node[n]
    IN  CASE nd.pc = "poll" ->
                Ready(n) # {} \/ nd.succ_xpv = "FAILURE" \/ clock[n] = "due"
          [] nd.pc = "spin" -> frames[n]["succ"] # <<>>
          [] nd.pc = "again" /\ "server" \in nd.revents -> Inbox(n) # {}
          [] nd.pc = "again" /\ "server" \notin nd.revents ->
                \/ "succ" \in nd.revents \/ nd.succ_xpv = "FAILURE" \/ nd.status = "MEMBER"
                \/ "pred" \in nd.revents /\ nd.pred_xpv \notin {"NO", "FIND_HEAD"}
          [] OTHER -> FALSE

Quiet == \A n \in Nodes : ~Moves(n)

(* The sockets that may be late in a turn of n that has work to do, or none. *)
Lateness(n) ==
    {late \in SUBSET ((IF Quiet THEN Waits(node[n]) ELSE {}) \cup IdleLate(node[n])) :
        Moves(n) \/ late \cap Waits(node[n]) # {}}

--------------------------------------------------------------------------------
(* What is sent to the dead is lost; nor are more than MaxPings pings kept   *)
(* that a hung node does not read.                                           *)
Post(w, o) ==
    IF \/ o.link[3] \notin Live
       \/ o.msg = Ping /\ Cardinality({i \in DOMAIN w[o.link] : w[o.link][i] = Ping}) >= MaxPings
    THEN w ELSE [w EXCEPT ![o.link] = Append(@, o.msg)]

(* The messages of a turn, no more than four, in the order they were sent.   *)
PostAll(w, out) ==
    LET post(v, i) == IF i <= Len(out) THEN Post(v, out[i]) ELSE v
    IN  post(post(post(post(w, 1), 2), 3), 4)

(* What the turn x changes.                                                  *)
Effect(x) ==
    LET n    == x.self
        read == IF x.link = None THEN wire ELSE [wire EXCEPT ![x.link] = Tail(@)]
        mine == [frames EXCEPT ![n] = x.frames]
        peer == IF x.link[1] = n THEN x.nd ELSE node[x.link[1]]
    IN  /\ node' = [node EXCEPT ![n] = x.nd]
        /\ clock' = [clock EXCEPT ![n] = x.clock]
        /\ wire' = PostAll(read, x.out)
        /\ frames' = IF x.reply # <<>> /\ x.link[1] \in Live /\ Peer(peer, x.link[2]) = n
                     THEN [mine EXCEPT ![x.link[1]][x.link[2]] = @ \o x.reply]
                     ELSE mine
        /\ pipe' = [pipe EXCEPT ![n] = IF x.took THEN Tail(@) ELSE @]
        /\ arrived' = [arrived EXCEPT ![n] = @ \o x.up]
        /\ UNCHANGED issued

(* The stages before the sockets: the pipe, the server and the timer.        *)
TakeToken(x) == [x EXCEPT !.nd.send_token = Head(pipe[x.self]), !.took = TRUE]
AtPipe(n, revents) == {IF "pipe" \in revents THEN TakeToken(Begin(n)) ELSE Begin(n)}
AtServer(turns, revents) ==
    {Timer(y) : y \in UNION {{Server(x, l) :
                        l \in IF "server" \in revents THEN Inbox(x.self) ELSE {None}} : x \in turns}}

(* zmq_poll and one turn.  A message in flight may be late: revents is any   *)
(* part of what is ready.                                                    *)
Poll(n) ==
    /\ node[n].pc = "poll"
    /\ \E revents \in SUBSET Ready(n), late \in Lateness(n) :
         /\ \/ revents # {} \/ late \cap Waits(node[n]) # {}
            \/ node[n].succ_xpv = "FAILURE" \/ clock[n] = "due"
         /\ \E x \in Sockets(AtServer(AtPipe(n, revents), revents), revents \ {"pipe"}, late) :
               Effect(x)

(* A turn without polling: the server is read if it was ready before.        *)
Again(n) ==
    /\ node[n].pc = "again"
    /\ \E late \in Lateness(n) :
       \E x \in Sockets(AtServer({Begin(n)}, node[n].revents), node[n].revents, late) : Effect(x)

(* The successor's socket gets a frame at last.                              *)
Spin(n) ==
    /\ node[n].pc = "spin" /\ frames[n]["succ"] # <<>>
    /\ \E late \in Lateness(n) :
       \E x \in Sockets({Begin(n)}, node[n].revents, late) : Effect(x)

Turn(n) == Poll(n) \/ Again(n) \/ Spin(n)

(* STABILIZE_INTERVAL_MS has gone by since the last stabilisation of n.      *)
Elapse(n) ==
    /\ n \in Live /\ clock[n] = "running"
    /\ Quiet \/ Overlap = "any" \/ (Overlap = "member" /\ node[n].status = "MEMBER")
    /\ clock' = [clock EXCEPT ![n] = "due"]
    /\ UNCHANGED <<node, wire, frames, pipe, arrived, issued>>

(* All is at rest, and every member has had its turn: the next intervals.    *)
Calm ==
    /\ Quiet /\ \A n \in Live : Waits(node[n]) = {} /\ clock[n] # "running"
    /\ \E n \in Live : clock[n] = "reset"
    /\ clock' = [n \in Nodes |-> IF clock[n] = "reset" THEN "running" ELSE clock[n]]
    /\ UNCHANGED <<node, wire, frames, pipe, arrived, issued>>

(* The daemon of n gives its actor a token (TSD_P2PMD_SEND_TOKEN).           *)
Issue(n) ==
    /\ n \in Live /\ issued < MaxTokens
    /\ issued' = issued + 1
    /\ pipe' = [pipe EXCEPT ![n] = Append(@, issued')]
    /\ UNCHANGED <<node, wire, frames, clock, arrived>>

Crash(n) ==
    /\ n \in Live /\ Cardinality({m \in Nodes : node[m].pc = "down"}) < MaxCrashes
    /\ node' = [node EXCEPT ![n] = [MemberAt(n) EXCEPT !.pc = "down"]]
    /\ wire' = [l \in DOMAIN wire |-> IF l[3] = n THEN <<>> ELSE wire[l]]
    /\ frames' = [frames EXCEPT ![n] = [s \in Socks |-> <<>>]]
    /\ clock' = [clock EXCEPT ![n] = "reset"]
    /\ pipe' = [pipe EXCEPT ![n] = <<>>]
    /\ UNCHANGED <<arrived, issued>>

Next ==
    \/ \E n \in Nodes : Turn(n) \/ Elapse(n) \/ Issue(n) \/ Crash(n)
    \/ Calm

Spec ==
    /\ Init /\ [][Next]_vars
    /\ WF_vars(\E n \in Nodes : Turn(n)) /\ WF_vars(\E n \in Nodes : Elapse(n))
    /\ WF_vars(Calm)

--------------------------------------------------------------------------------
(* Properties.                                                               *)

(* The live node that comes next.                                            *)
NextLive(n) == CHOOSE m \in Live : \A k \in Live : Dist(n, m) <= Dist(n, k)

(* The exchange of n with its successor, or with its next predecessor, was   *)
(* cut short by a crash: the actor waits for an ACK, or for a SYN, that will *)
(* not come, and there is no timer for either.                               *)
CutShort(n) ==
    \/ /\ node[n].succ_xpv = "ACK" /\ node[n].successor \notin Live
       /\ \A i \in DOMAIN frames[n]["succ"] : frames[n]["succ"][i].type # "ACK"
    \/ LET p == node[n].temp_predecessor
       IN  /\ p \notin Live \cup {None}
           /\ \A i \in DOMAIN wire[p, "succ", n] : wire[p, "succ", n][i].type # "SYN"

(* Promotion passes over the dead only: no live node lies between a live     *)
(* node and its successor, but one that hangs since its exchange was cut     *)
(* short (_successor_socket_handler, STABILIZE_FAILURE).                     *)
NoLiveNodeSkipped ==
    \A n, m \in Live : Dist(n, m) < Dist(n, node[n].successor) => CutShort(m)

(* An ACK has three frames.  They are read in one go: an ACK reaches a node  *)
(* only while the node waits for it, and last, so that the tail of one is    *)
(* never taken for an opcode.                                                *)
AcksInStep ==
    \A n \in Live : \A i \in DOMAIN frames[n]["succ"] :
        frames[n]["succ"][i].type = "ACK" =>
            node[n].succ_xpv = "ACK" /\ i = Len(frames[n]["succ"])

(* While nobody crashes, nothing that the members do to keep the ring up     *)
(* damages it: neighbours and lists are what they were.                      *)
RingStands ==
    \A n \in Nodes : /\ node[n].successor = After(n, 1)
                     /\ node[n].predecessor = After(n, Len(Ring) - 1)
                     /\ \A i \in 1 .. RMax : node[n].successor_list[i] = After(n, i)

(* When everything has come to rest every exchange has been brought to its   *)
(* end: nobody waits for an answer, no status is left behind, no actor       *)
(* hangs.  Most waits have no timer, so this rests on the answers.           *)
RestIsClean ==
    (Quiet /\ \A n \in Live : Waits(node[n]) = {}) =>
        \A n \in Live : /\ node[n].pc = "poll" /\ node[n].status = "MEMBER"
                        /\ node[n].succ_xpv = "NO" /\ node[n].pred_xpv = "NO"
                        /\ node[n].temp_predecessor = None

(* A token is in one place at a time on its way from the daemon of a member  *)
(* to that of its successor: neither the one slot for tokens to send nor the *)
(* one for tokens received is overwritten, whatever the turn is held up by.  *)
Places(t) ==
    {<<"pipe", n, 0>> : n \in {m \in Nodes : \E j \in DOMAIN pipe[m] : pipe[m][j] = t}}
    \cup {<<"slot", n, 0>> : n \in {m \in Nodes : node[m].send_token = t}}
    \cup {<<"up", n, 0>> : n \in {m \in Nodes : node[m].recv_token = t}}
    \cup (UNION {{<<"wire", l, i>> : i \in {j \in DOMAIN wire[l] :
                      wire[l][j].type = "TOKEN" /\ wire[l][j].token = t}} : l \in DOMAIN wire})
    \cup (UNION {{<<"arrived", n, i>> : i \in {j \in DOMAIN arrived[n] : arrived[n][j] = t}} :
                      n \in Nodes})
TokensOnce ==
    \A t \in 1 .. issued : LET k == Cardinality(Places(t)) IN k <= 1 /\ (Live = Nodes => k = 1)

Healed ==
    \A n \in Live : node[n].successor = NextLive(n) /\ node[NextLive(n)].predecessor = n

(* The ring heals after a crash, unless the crash cut an exchange short: the *)
(* live nodes form a ring again and stay one, and the dead go out of their   *)
(* successor lists, entry by entry.                                          *)
RingHeals ==
    <>[](\/ /\ Healed
            /\ \A n \in Live : \A i \in 1 .. RMax : node[n].successor_list[i] \in Live
         \/ \E n \in Live : CutShort(n))

(* p2pmd.c:135: that an interval is over "is expected behaviour, shall be    *)
(* handled in loop body".                                                    *)
DueIsHandled == \A n \in Nodes : clock[n] = "due" ~> clock[n] # "due"
===============================================================================
