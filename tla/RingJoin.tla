------------------------------- MODULE RingJoin -------------------------------
(***************************************************************************)
(* How a node joins a ring of p2pmd actors: p2pm_join of the joiner, which *)
(* runs once and to its end, and the handlers of the server sockets of the *)
(* members (p2pmd_server.c).  The joiner talks to the node it was given as *)
(* its predecessor, here its contact, and to the successor which that node *)
(* names.  Each of its two sockets is a FIFO channel, and between the two  *)
(* there is no order; it waits for one answer at a time and gives up when  *)
(* its receive times out.  A joiner that gave up is destroyed, and what it *)
(* has sent still arrives.                                                 *)
(*                                                                         *)
(* successor_list stands for its first r entries.  Stabilisation, and with *)
(* it the repair of a ring that has lost a node, is left out.              *)
(***************************************************************************)
EXTENDS Integers, Sequences, FiniteSets

CONSTANTS
    Nodes,           (* nodes that may be on the ring from the start          *)
    Joiners,         (* nodes that join                                       *)
    Starts,          (* how things may stand: the ring, and a contact for each *)
    RMax,            (* r_max                                                 *)
    InitialR,        (* r of the nodes on the ring                            *)
    PingFinds,       (* what p2pm_try_live may return                         *)
    EarlyTimeouts,   (* whether an answer may come later than the receiver    *)
                     (* is willing to wait                                    *)
    None             (* an address that has been set to zeros                 *)

Peers == Nodes \union Joiners

ASSUME RingJoinAssumption ==
    /\ Nodes \intersect Joiners = {}
    /\ IsFiniteSet(Peers) /\ None \notin Peers
    /\ \A s \in Starts : /\ s.ring \in Seq(Nodes) /\ s.ring # <<>>
                         /\ \A i, k \in DOMAIN s.ring : s.ring[i] = s.ring[k] => i = k
                         /\ s.contact \in [Joiners -> Peers]
    /\ RMax \in Nat /\ InitialR \in 1 .. RMax
    /\ PingFinds \subseteq BOOLEAN
    /\ EarlyTimeouts \in BOOLEAN

VARIABLES
    node,        (* per peer: current_status and node_list                    *)
    contact,     (* per joiner: the predecessor it was started with           *)
    pc,          (* per joiner: the answer it waits for, or how it ended      *)
    sent,        (* per joiner and peer: the requests on their way            *)
    answer,      (* per joiner: the answer that has come back                 *)
    contested    (* history: a request of one join has displaced another's    *)

vars == <<node, contact, pc, sent, answer, contested>>

Address == Peers \union {None}

Node == [status : {"OFF", "ONE_RING", "JOINING", "APPENDAGE", "MEMBER", "HANDLING_JOIN"},
         predecessor : Address, successor : Address, successor_list : Seq(Address),
         temp_predecessor : Address, temp_successor : Address]

Request == {"GET_REQ", "JOIN_REQ", "JOIN_CMT", "PRED_JOIN_CMT", "JOIN_ABRT",
            "PRED_JOIN_ABRT", "ONE_RING_JOIN_REQ"}

Answer == [type : {"none", "GET_ACK", "GET_NACK", "GET_CONTACTED_ONE_RING",
                   "JOIN_ACK1", "JOIN_ACK2", "INVALID_REP"},
           successor : Address, list : Seq(Address)]

Waiting == {"get_ack", "join_ack1", "join_ack2"}
Failed == {"predecessor_failed", "successor_failed", "one_ring_failed"}
Over == Failed \union {"need_one_ring", "success"}

NodeOf(status, p, s, list) ==
    [status |-> status, predecessor |-> p, successor |-> s, successor_list |-> list,
     temp_predecessor |-> None, temp_successor |-> None]

(* The member at place i of a ring knows its neighbours and the next r nodes *)
MemberAt(ring, i) ==
    LET at(k) == ring[(k % Len(ring)) + 1]
    IN NodeOf(IF Len(ring) = 1 THEN "ONE_RING" ELSE "MEMBER",
              at(i + Len(ring) - 2), at(i), [k \in 1 .. InitialR |-> at(i + k - 1)])

Just(type) == [type |-> type, successor |-> None, list |-> <<>>]

Init ==
    /\ \E s \in Starts :
         /\ contact = s.contact
         /\ node = [n \in Peers |->
              IF n \in Joiners THEN NodeOf("JOINING", s.contact[n], None, <<>>)
              ELSE IF \E i \in DOMAIN s.ring : s.ring[i] = n
              THEN MemberAt(s.ring, CHOOSE i \in DOMAIN s.ring : s.ring[i] = n)
              ELSE NodeOf("OFF", None, None, <<>>)]
    /\ pc = [j \in Joiners |-> "new"]
    /\ sent = [j \in Joiners |-> [n \in Peers |-> <<>>]]
    /\ answer = [j \in Joiners |-> Just("none")]
    /\ contested = FALSE

(* A node whose p2pm_loop_server runs                                        *)
Running(n) == node[n].status \in {"ONE_RING", "MEMBER", "HANDLING_JOIN"}

(* p2pm_ni_copy_successor_list behind a first entry; a variant forgets that  *)
(* the first entry takes a place.                                            *)
CopyTooMany(s, list) ==
    <<s>> \o SubSeq(list, 1, IF Len(list) > RMax THEN RMax ELSE Len(list))

CopySuccessorList(s, list) ==
    <<s>> \o SubSeq(list, 1, IF Len(list) + 1 > RMax THEN RMax - 1 ELSE Len(list))

-------------------------------------------------------------------------------
(* The joiner *)

WaitFor(j, next) == pc' = [pc EXCEPT ![j] = next] /\ answer' = [answer EXCEPT ![j] = Just("none")]

Send(j, n, request) == sent' = [sent EXCEPT ![j][n] = Append(@, request)]

(* The end of a p2pm_join that does not succeed: p2pmd_actor destroys it     *)
Destroyed(j) == [node EXCEPT ![j].status = "OFF"]

(* The label predecessor_connected: nobody is told                           *)
PredecessorConnected(j) ==
    /\ WaitFor(j, "predecessor_failed")
    /\ node' = Destroyed(j)
    /\ UNCHANGED sent

(* The label successor_connected.  A variant does not tell the predecessor.  *)
TellSuccessorOnly(j, s) ==
    /\ WaitFor(j, "successor_failed")
    /\ sent' = [sent EXCEPT ![j][s] = Append(@, "PRED_JOIN_ABRT")]
    /\ node' = Destroyed(j)

SuccessorConnected(j, s) ==
    /\ WaitFor(j, "successor_failed")
    /\ sent' = [sent EXCEPT ![j] = [n \in Peers |->
                   sent[j][n] \o (IF n = contact[j] THEN <<"JOIN_ABRT">> ELSE <<>>)
                              \o (IF n = s THEN <<"PRED_JOIN_ABRT">> ELSE <<>>)]]
    /\ node' = Destroyed(j)

(* p2pm_join up to GET_REQ.  p2pm_try_live compares a reply that nobody has  *)
(* asked for, in a variable nobody has set: it may return anything.          *)
P2pmJoin(j) ==
    /\ pc[j] = "new"
    /\ \/ /\ TRUE \in PingFinds
          /\ Send(j, contact[j], "GET_REQ")
          /\ WaitFor(j, "get_ack")
          /\ UNCHANGED node
       \/ /\ FALSE \in PingFinds
          /\ PredecessorConnected(j)
    /\ UNCHANGED <<contact, contested>>

Receives(j, at, type) == pc[j] = at /\ answer[j].type = type

(* GET_ACK names the successor: connect to it, see whether it lives.         *)
RecvGetAck(j) ==
    LET s == answer[j].successor
    IN /\ Receives(j, "get_ack", "GET_ACK")
       /\ IF s = None                         (* zmq_connect fails *)
          THEN PredecessorConnected(j)
          ELSE \/ /\ TRUE \in PingFinds
                  /\ node' = [node EXCEPT ![j].successor = s]
                  /\ Send(j, s, "JOIN_REQ")
                  /\ WaitFor(j, "join_ack1")
               \/ /\ FALSE \in PingFinds
                  /\ SuccessorConnected(j, s)
       /\ UNCHANGED <<contact, contested>>

RecvGetNack(j) ==
    /\ Receives(j, "get_ack", "GET_NACK")
    /\ WaitFor(j, "need_one_ring")
    /\ node' = Destroyed(j)
    /\ UNCHANGED <<contact, sent, contested>>

(* p2pm_join_one_ring sends its request and takes the result of the send,    *)
(* the number of bytes, for an error.                                        *)
JoinOneRing(j) ==
    /\ Receives(j, "get_ack", "GET_CONTACTED_ONE_RING")
    /\ Send(j, contact[j], "ONE_RING_JOIN_REQ")
    /\ WaitFor(j, "one_ring_failed")
    /\ node' = Destroyed(j)
    /\ UNCHANGED <<contact, contested>>

(* JOIN_ACK1, r and the list; then the commit goes to the predecessor.  A    *)
(* variant tells the successor at the same time.                             *)
CommitBoth(j) ==
    /\ Receives(j, "join_ack1", "JOIN_ACK1")
    /\ sent' = [sent EXCEPT ![j][contact[j]] = Append(@, "JOIN_CMT"),
                            ![j][node[j].successor] = Append(@, "PRED_JOIN_CMT")]
    /\ node' = [node EXCEPT ![j].status = "APPENDAGE",
                            ![j].successor_list = CopySuccessorList(node[j].successor, answer[j].list)]
    /\ WaitFor(j, "join_ack2")
    /\ UNCHANGED <<contact, contested>>

RecvJoinAck1(j) ==
    LET r == Len(answer[j].list)
    IN /\ Receives(j, "join_ack1", "JOIN_ACK1")
       /\ \/ /\ r \in 1 .. RMax /\ TRUE \in PingFinds
             /\ node' = [node EXCEPT
                   ![j].status = "APPENDAGE",
                   ![j].successor_list = CopySuccessorList(node[j].successor, answer[j].list)]
             /\ Send(j, contact[j], "JOIN_CMT")
             /\ WaitFor(j, "join_ack2")
          \/ /\ r \notin 1 .. RMax \/ FALSE \in PingFinds
             /\ SuccessorConnected(j, node[j].successor)
       /\ UNCHANGED <<contact, contested>>

(* Any other answer passes for JOIN_ACK1, too; but it is a message of one    *)
(* part, and the wait for r ends in a timeout.                               *)
RecvRefusal(j) ==
    /\ pc[j] = "join_ack1"
    /\ answer[j].type \notin {"none", "JOIN_ACK1"}
    /\ SuccessorConnected(j, node[j].successor)
    /\ UNCHANGED <<contact, contested>>

RecvJoinAck2(j) ==
    /\ Receives(j, "join_ack2", "JOIN_ACK2")
    /\ Send(j, node[j].successor, "PRED_JOIN_CMT")
    /\ node' = [node EXCEPT ![j].status = "MEMBER"]
    /\ WaitFor(j, "success")
    /\ UNCHANGED <<contact, contested>>

(* A receive comes back without a message.  If the members answer in time    *)
(* that happens only when there is nobody to answer.                         *)
Asked(j) == IF pc[j] = "join_ack1" THEN node[j].successor ELSE contact[j]

Timeout(j) ==
    /\ pc[j] \in Waiting
    /\ answer[j].type = "none"
    /\ EarlyTimeouts \/ ~Running(Asked(j))
    /\ \/ pc[j] = "get_ack" /\ PredecessorConnected(j)
       \/ pc[j] # "get_ack" /\ SuccessorConnected(j, node[j].successor)
    /\ UNCHANGED <<contact, contested>>

Joiner(j) ==
    \/ P2pmJoin(j) \/ RecvGetAck(j) \/ RecvGetNack(j) \/ JoinOneRing(j)
    \/ RecvJoinAck1(j) \/ RecvRefusal(j) \/ RecvJoinAck2(j) \/ Timeout(j)

-------------------------------------------------------------------------------
(* The server socket of member n: the next request of joiner j *)

Takes(n, j, request) ==
    /\ Running(n)
    /\ sent[j][n] # <<>> /\ Head(sent[j][n]) = request
    /\ sent' = [sent EXCEPT ![j][n] = Tail(@)]

(* An answer to a joiner that is no longer there is lost                     *)
Reply(j, a) == answer' = IF pc[j] \in Waiting THEN [answer EXCEPT ![j] = a] ELSE answer

(* What ends the care for a join, whichever message does                     *)
Released(status) == IF status = "HANDLING_JOIN" THEN "MEMBER" ELSE status

(* The handlers keep one joiner each way, and do not look whose request they *)
(* have: this one meets the address that another joiner has left.            *)
Meets(address, j) == contested' = (contested \/ address \notin {None, j})

(* _GET_REQ_handler: the address is stored before the status is looked at    *)
GetReq(n, j) ==
    /\ Takes(n, j, "GET_REQ")
    /\ Meets(node[n].temp_successor, j)
    /\ node' = [node EXCEPT ![n].temp_successor = j,
                            ![n].status = IF @ = "MEMBER" THEN "HANDLING_JOIN" ELSE @]
    /\ Reply(j, CASE node[n].status = "MEMBER" ->
                        [Just("GET_ACK") EXCEPT !.successor = node[n].successor]
                   [] node[n].status = "ONE_RING" -> Just("GET_CONTACTED_ONE_RING")
                   [] OTHER -> Just("GET_NACK"))
    /\ UNCHANGED <<contact, pc>>

(* _JOIN_REQ_handler: as before; the status stays                            *)
JoinReq(n, j) ==
    /\ Takes(n, j, "JOIN_REQ")
    /\ Meets(node[n].temp_predecessor, j)
    /\ node' = [node EXCEPT ![n].temp_predecessor = j]
    /\ Reply(j, CASE node[n].status = "MEMBER" ->
                        [Just("JOIN_ACK1") EXCEPT !.list = node[n].successor_list]
                   [] node[n].status = "ONE_RING" -> Just("GET_CONTACTED_ONE_RING")
                   [] OTHER -> Just("INVALID_REP"))
    /\ UNCHANGED <<contact, pc>>

(* _JOIN_CMT_handler, with the list of the joiner, which stays as it was     *)
(* sent.  A variant resets temp_successor before it has been read.           *)
JoinCmtResetFirst(n, j) ==
    /\ Takes(n, j, "JOIN_CMT")
    /\ Meets(node[n].temp_successor, j)
    /\ node' = [node EXCEPT ![n].successor = None, ![n].temp_successor = None,
                            ![n].status = Released(@)]
    /\ Reply(j, Just("JOIN_ACK2"))
    /\ UNCHANGED <<contact, pc>>

(* Another takes the list as it is (p2pm_ni_move_successor_list).            *)
JoinCmtMovesList(n, j) ==
    /\ Takes(n, j, "JOIN_CMT")
    /\ Meets(node[n].temp_successor, j)
    /\ node' = [node EXCEPT ![n].successor = node[n].temp_successor,
                            ![n].successor_list = node[j].successor_list,
                            ![n].temp_successor = None,
                            ![n].status = Released(@)]
    /\ Reply(j, Just("JOIN_ACK2"))
    /\ UNCHANGED <<contact, pc>>

JoinCmt(n, j) ==
    /\ Takes(n, j, "JOIN_CMT")
    /\ Meets(node[n].temp_successor, j)
    /\ node' = [node EXCEPT
          ![n].successor = node[n].temp_successor,
          ![n].successor_list = CopySuccessorList(node[n].temp_successor, node[j].successor_list),
          ![n].temp_successor = None,
          ![n].status = Released(@)]
    /\ Reply(j, Just("JOIN_ACK2"))
    /\ UNCHANGED <<contact, pc>>

(* _PRED_JOIN_CMT_handler.  A variant keeps the old predecessor.             *)
PredJoinCmtKeeps(n, j) ==
    /\ Takes(n, j, "PRED_JOIN_CMT")
    /\ Meets(node[n].temp_predecessor, j)
    /\ node' = [node EXCEPT ![n].temp_predecessor = None, ![n].status = Released(@)]
    /\ UNCHANGED <<contact, pc, answer>>

PredJoinCmt(n, j) ==
    /\ Takes(n, j, "PRED_JOIN_CMT")
    /\ Meets(node[n].temp_predecessor, j)
    /\ node' = [node EXCEPT ![n].predecessor = node[n].temp_predecessor,
                            ![n].temp_predecessor = None,
                            ![n].status = Released(@)]
    /\ UNCHANGED <<contact, pc, answer>>

(* _JOIN_ABRT_handler, _PRED_JOIN_ABRT_handler                               *)
JoinAbrt(n, j) ==
    /\ Takes(n, j, "JOIN_ABRT")
    /\ Meets(node[n].temp_successor, j)
    /\ node' = [node EXCEPT ![n].temp_successor = None, ![n].status = Released(@)]
    /\ UNCHANGED <<contact, pc, answer>>

PredJoinAbrt(n, j) ==
    /\ Takes(n, j, "PRED_JOIN_ABRT")
    /\ Meets(node[n].temp_predecessor, j)
    /\ node' = [node EXCEPT ![n].temp_predecessor = None, ![n].status = Released(@)]
    /\ UNCHANGED <<contact, pc, answer>>

(* _ONE_RING_JOIN_REQ_handler waits for an address that was not sent, and    *)
(* then frees a pointer nobody has set: the node goes down, or it stays in   *)
(* HANDLING_JOIN.  (Starts gives a one-ring node one joiner, so that no      *)
(* other request is there to be taken for the address.)                      *)
OneRingJoinReq(n, j) ==
    /\ Takes(n, j, "ONE_RING_JOIN_REQ")
    /\ IF node[n].status = "ONE_RING"
       THEN \E status \in {"HANDLING_JOIN", "OFF"} : node' = [node EXCEPT ![n].status = status]
       ELSE UNCHANGED node
    /\ UNCHANGED <<contact, pc, answer, contested>>

Serve(n, j) ==
    \/ GetReq(n, j) \/ JoinReq(n, j) \/ JoinCmt(n, j) \/ PredJoinCmt(n, j)
    \/ JoinAbrt(n, j) \/ PredJoinAbrt(n, j) \/ OneRingJoinReq(n, j)

Next == \/ \E j \in Joiners : Joiner(j)
        \/ \E n \in Peers, j \in Joiners : Serve(n, j)

Spec == Init /\ [][Next]_vars

(* Every receive of the joiner ends, by an answer or by its timeout, and the *)
(* actor of a member polls its server socket in every turn of its loop.      *)
FairSpec ==
    /\ Spec
    /\ \A j \in Joiners : WF_vars(Joiner(j))
    /\ \A n \in Peers, j \in Joiners : WF_vars(Serve(n, j))

-------------------------------------------------------------------------------
(* Properties *)

(* Type invariant; successor_list has room for r_max entries.                *)
TypeOK ==
    /\ node \in [Peers -> Node]
    /\ \A n \in Peers : Len(node[n].successor_list) <= RMax
    /\ contact \in [Joiners -> Peers]
    /\ pc \in [Joiners -> {"new"} \union Waiting \union Over]
    /\ sent \in [Joiners -> [Peers -> Seq(Request)]]
    /\ answer \in [Joiners -> Answer]
    /\ contested \in BOOLEAN

(* A member's list is never empty (a joiner would refuse it), and its first  *)
(* entry is the successor it is connected to, whatever joins have met.       *)
ListStartsWithSuccessor ==
    \A n \in Peers : Running(n) =>
        /\ node[n].successor_list # <<>>
        /\ Head(node[n].successor_list) = node[n].successor

Members == {n \in Peers : Running(n)}

(* Whoever is in such a set, all who are reached from there by successors    *)
(* are in it, too                                                            *)
Closed(R) == \A n \in R \ {None} : node[n].successor \in R

(* No member is left with a successor that gave up after it had sent its     *)
(* commit: that one is for the stabilisation to repair.                      *)
NoOrphan == \A n \in Members : node[n].successor \in Joiners => pc[node[n].successor] \notin Failed

(* Tokens go round by the successors.  Whatever joins are under way, refused *)
(* or given up, they come from the successor of any member to all of them,   *)
(* those whose p2pm_join has returned success among them.                    *)
SuccessorsFormARing ==
    ~contested /\ NoOrphan =>
        \A n \in Members, R \in SUBSET Address :
            node[n].successor \in R /\ Closed(R) => Members \subseteq R

(* Nothing is under way                                                      *)
Quiet ==
    /\ \A j \in Joiners : pc[j] \notin Waiting
    /\ \A j \in Joiners, n \in Members : sent[j][n] = <<>>

(* Once nothing is under way predecessors and successors agree.              *)
NeighboursAgree ==
    Quiet /\ ~contested /\ NoOrphan =>
        \A n \in Members : /\ node[n].successor \in Members
                           /\ node[node[n].successor].predecessor = n

(* A member takes only a node for its predecessor that is on the ring: a     *)
(* join that fails leaves nothing behind at the successor.                   *)
PredecessorHasJoined ==
    ~contested =>
        \A n \in Members : node[n].predecessor \in Joiners =>
            pc[node[n].predecessor] = "success"

(* A member in HANDLING_JOIN refuses all joins and does not stabilise; it is *)
(* let go in the end, unless its joiner left without a word.                 *)
LeftWithoutAWord(n) ==
    \E j \in Joiners : contact[j] = n /\ pc[j] \in {"predecessor_failed", "one_ring_failed"}

HandlingJoinEnds ==
    \A n \in Peers : node[n].status = "HANDLING_JOIN" ~>
                        node[n].status # "HANDLING_JOIN" \/ LeftWithoutAWord(n)
===============================================================================
