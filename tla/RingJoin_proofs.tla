---------------------------- MODULE RingJoin_proofs ----------------------------
(***************************************************************************)
(* Theorems about RingJoin, for any ring, any joiners and contacts, any    *)
(* r_max, and with or without early timeouts.                              *)
(***************************************************************************)
EXTENDS RingJoin, SequenceTheorems, WellFoundedInduction, TLAPS

USE RingJoinAssumption

(* What becomes of a successor list stays within the room for r_max entries. *)
LEMMA CopyFits ==
    ASSUME NEW s \in Address, NEW list \in Seq(Address), Len(list) <= RMax
    PROVE  /\ CopySuccessorList(s, list) \in Seq(Address)
           /\ CopySuccessorList(s, list) # <<>>
           /\ Head(CopySuccessorList(s, list)) = s
           /\ Len(CopySuccessorList(s, list)) \in 1 .. RMax
<1> DEFINE k == IF Len(list) + 1 > RMax THEN RMax - 1 ELSE Len(list)
           rest == SubSeq(list, 1, k)
<1>1. Len(list) \in Nat /\ k \in 0 .. Len(list) /\ k + 1 <= RMax
  BY LenProperties
<1>2. rest \in Seq(Address) /\ Len(rest) = k
  <2>1. CASE k = 0
    BY <1>1, <2>1, SubSeqProperties, EmptySeq
  <2>2. CASE k # 0
    BY <1>1, <2>2, SubSeqProperties
  <2> QED BY <2>1, <2>2
<1>3. <<s>> \in Seq(Address) /\ Len(<<s>>) = 1 /\ <<s>>[1] = s
  OBVIOUS
<1>4. /\ <<s>> \o rest \in Seq(Address)
      /\ Len(<<s>> \o rest) = 1 + k
      /\ (<<s>> \o rest)[1] = s
  BY <1>1, <1>2, <1>3, ConcatProperties
<1> HIDE DEF rest, k
<1>5. /\ <<s>> \o rest # <<>>
      /\ Head(<<s>> \o rest) = s
  BY <1>1, <1>4, HeadTailProperties, EmptySeq
<1> QED
  BY <1>1, <1>4, <1>5 DEF CopySuccessorList, rest, k

-------------------------------------------------------------------------------
(* The inductive invariant *)

Listed(v) == v.successor_list # <<>> /\ Head(v.successor_list) = v.successor

(* What is known of the nodes.  While p2pm_join runs its node serves nobody, *)
(* so that no handler and no step of the joiner write to the same node_list; *)
(* and when it waits for its last answer its list is complete.               *)
NodesOK ==
    /\ node \in [Peers -> Node]
    /\ \A n \in Peers : Len(node[n].successor_list) <= RMax
    /\ \A n \in Peers : Running(n) => Listed(node[n])
    /\ \A j \in Joiners : pc[j] \in {"new"} \union Waiting => ~Running(j)
    /\ \A j \in Joiners : pc[j] = "join_ack2" => Listed(node[j])

(* What is known of the channels, and of the joiners' progress               *)
ChannelsOK ==
    /\ contact \in [Joiners -> Peers]
    /\ pc \in [Joiners -> {"new"} \union Waiting \union Over]
    /\ sent \in [Joiners -> [Peers -> Seq(Request)]]
    /\ answer \in [Joiners -> Answer]
    /\ contested \in BOOLEAN

JoinInv == NodesOK /\ ChannelsOK

LEMMA JoinInvImplies == JoinInv => TypeOK /\ ListStartsWithSuccessor
  BY DEF JoinInv, NodesOK, ChannelsOK, TypeOK, ListStartsWithSuccessor, Listed

LEMMA JustIsAnswer ==
    ASSUME NEW type \in {"none", "GET_ACK", "GET_NACK", "GET_CONTACTED_ONE_RING",
                         "JOIN_ACK1", "JOIN_ACK2", "INVALID_REP"}
    PROVE  /\ Just(type) \in Answer
           /\ \A s \in Address : [Just(type) EXCEPT !.successor = s] \in Answer
           /\ \A l \in Seq(Address) : [Just(type) EXCEPT !.list = l] \in Answer
<1>1. <<>> \in Seq(Address) /\ None \in Address
  BY EmptySeq DEF Address
<1> QED
  BY <1>1 DEF Just, Answer

(* A node whose server runs gets a new value.                                *)
LEMMA ServedNode ==
    ASSUME JoinInv, NEW n \in Peers, Running(n),
           NEW v \in Node, Len(v.successor_list) <= RMax, Listed(v),
           node' = [node EXCEPT ![n] = v], pc' = pc
    PROVE  NodesOK'
<1> USE DEF JoinInv, NodesOK
<1>1. node' \in [Peers -> Node]
  OBVIOUS
<1>2. \A k \in Peers : node'[k] = IF k = n THEN v ELSE node[k]
  OBVIOUS
<1>3. ASSUME NEW j \in Joiners, pc[j] \in {"new"} \union Waiting
      PROVE  j \in Peers /\ j # n
  BY <1>3 DEF Peers
<1>4. \A j \in Joiners : pc'[j] \in {"new"} \union Waiting => ~Running(j)'
  BY <1>2, <1>3 DEF Running
<1>5. \A j \in Joiners : pc'[j] = "join_ack2" => Listed(node'[j])
  BY <1>2, <1>3 DEF Waiting
<1>6. \A k \in Peers : Running(k)' => Listed(node'[k])
  BY <1>2 DEF Running
<1> QED
  BY <1>1, <1>2, <1>4, <1>5, <1>6

(* A joiner's own node gets a new value.                                     *)
LEMMA JoinersNode ==
    ASSUME JoinInv, NEW j \in Joiners, pc[j] \in {"new"} \union Waiting,
           NEW v \in Node, Len(v.successor_list) <= RMax,
           NEW next \in {"new"} \union Waiting \union Over,
           next = "join_ack2" \/ v.status = "MEMBER" => Listed(v),
           v.status \in {"JOINING", "APPENDAGE", "OFF", "MEMBER"},
           next \in {"new"} \union Waiting => v.status # "MEMBER",
           node' = [node EXCEPT ![j] = v], pc' = [pc EXCEPT ![j] = next]
    PROVE  NodesOK'
<1> USE DEF JoinInv, NodesOK
<1>1. j \in Peers /\ node' \in [Peers -> Node]
  BY DEF Peers
<1>2. \A k \in Peers : node'[k] = IF k = j THEN v ELSE node[k]
  OBVIOUS
<1>3. \A i \in Joiners : i \in Peers /\ pc'[i] = IF i = j THEN next ELSE pc[i]
  BY DEF ChannelsOK, Peers
<1>4. \A k \in Peers : Running(k)' => Listed(node'[k])
  BY <1>2 DEF Running
<1>5. ASSUME NEW i \in Joiners, pc'[i] \in {"new"} \union Waiting
      PROVE  ~Running(i)'
  <2>1. CASE i # j
    BY <1>2, <1>3, <1>5, <2>1 DEF Running
  <2>2. CASE i = j
    BY <1>1, <1>2, <1>3, <1>5, <2>2 DEF Running
  <2> QED BY <2>1, <2>2
<1>6. ASSUME NEW i \in Joiners, pc'[i] = "join_ack2"
      PROVE  Listed(node'[i])
  BY <1>1, <1>2, <1>3, <1>6
<1> QED
  BY <1>1, <1>2, <1>4, <1>5, <1>6

-------------------------------------------------------------------------------
(* Channels *)

Channels == [Joiners -> [Peers -> Seq(Request)]]

LEMMA SendOK ==
    ASSUME JoinInv, NEW j \in Joiners, NEW s, NEW request \in Request, Send(j, s, request)
    PROVE  sent' \in Channels
<1>1. sent \in Channels /\ sent[j] \in [Peers -> Seq(Request)]
  BY DEF JoinInv, ChannelsOK, Channels
<1>2. [sent[j] EXCEPT ![s] = Append(sent[j][s], request)] \in [Peers -> Seq(Request)]
  <2>1. CASE s \in Peers
    BY <1>1, <2>1, AppendProperties
  <2>2. CASE s \notin Peers
    BY <1>1, <2>2
  <2> QED BY <2>1, <2>2
<1> QED
  BY <1>1, <1>2 DEF Send, Channels

LEMMA TakesOK ==
    ASSUME JoinInv, NEW n \in Peers, NEW j \in Joiners, NEW request, Takes(n, j, request)
    PROVE  sent' \in Channels
<1>1. sent \in Channels /\ sent[j] \in [Peers -> Seq(Request)] /\ sent[j][n] \in Seq(Request)
  BY DEF JoinInv, ChannelsOK, Channels
<1>2. Tail(sent[j][n]) \in Seq(Request)
  BY <1>1, HeadTailProperties DEF Takes
<1>3. [sent[j] EXCEPT ![n] = Tail(sent[j][n])] \in [Peers -> Seq(Request)]
  BY <1>1, <1>2
<1> QED
  BY <1>1, <1>3 DEF Takes, Channels

LEMMA ReplyOK ==
    ASSUME JoinInv, NEW j \in Joiners, NEW a \in Answer, Reply(j, a)
    PROVE  answer' \in [Joiners -> Answer]
  BY DEF JoinInv, ChannelsOK, Reply

LEMMA WaitForOK ==
    ASSUME JoinInv, NEW j \in Joiners, NEW next \in {"new"} \union Waiting \union Over,
           WaitFor(j, next)
    PROVE  /\ pc' \in [Joiners -> {"new"} \union Waiting \union Over]
           /\ answer' \in [Joiners -> Answer]
           /\ pc' = [pc EXCEPT ![j] = next]
<1>1. Just("none") \in Answer
  BY JustIsAnswer
<1> QED
  BY <1>1 DEF JoinInv, ChannelsOK, WaitFor

-------------------------------------------------------------------------------
(* The joiner's steps *)

LEMMA DestroyedOK ==
    ASSUME JoinInv, NEW j \in Joiners, pc[j] \in {"new"} \union Waiting,
           NEW next \in Over,
           node' = Destroyed(j), pc' = [pc EXCEPT ![j] = next]
    PROVE  NodesOK'
<1> DEFINE v == [node[j] EXCEPT !.status = "OFF"]
<1>1. node[j] \in Node /\ j \in Peers /\ Len(node[j].successor_list) <= RMax
  BY DEF JoinInv, NodesOK, Peers
<1>2. v \in Node /\ v.status = "OFF" /\ v.successor_list = node[j].successor_list
  BY <1>1 DEF Node
<1>3. node' = [node EXCEPT ![j] = v]
  BY DEF Destroyed
<1>4. next \notin {"new"} \union Waiting
  BY DEF Waiting, Over, Failed
<1> QED
  BY <1>1, <1>2, <1>3, <1>4, JoinersNode DEF Waiting

LEMMA PredecessorConnectedOK ==
    ASSUME JoinInv, NEW j \in Joiners, pc[j] \in {"new"} \union Waiting,
           PredecessorConnected(j), UNCHANGED <<contact, contested>>
    PROVE  JoinInv'
<1> DEFINE next == "predecessor_failed"
<1>1. next \in Over
  BY DEF Over, Failed
<1>2. /\ pc' \in [Joiners -> {"new"} \union Waiting \union Over]
      /\ answer' \in [Joiners -> Answer]
      /\ pc' = [pc EXCEPT ![j] = next]
  BY <1>1, WaitForOK DEF PredecessorConnected
<1>3. NodesOK'
  BY <1>1, <1>2, DestroyedOK DEF PredecessorConnected
<1> QED
  BY <1>2, <1>3 DEF JoinInv, ChannelsOK, PredecessorConnected

LEMMA SuccessorConnectedOK ==
    ASSUME JoinInv, NEW j \in Joiners, pc[j] \in {"new"} \union Waiting,
           NEW s, SuccessorConnected(j, s), UNCHANGED <<contact, contested>>
    PROVE  JoinInv'
<1> DEFINE next == "successor_failed"
           abrt(n) == IF n = contact[j] THEN <<"JOIN_ABRT">> ELSE <<>>
           pred_abrt(n) == IF n = s THEN <<"PRED_JOIN_ABRT">> ELSE <<>>
<1>1. next \in Over
  BY DEF Over, Failed
<1>2. /\ pc' \in [Joiners -> {"new"} \union Waiting \union Over]
      /\ answer' \in [Joiners -> Answer]
      /\ pc' = [pc EXCEPT ![j] = next]
  BY <1>1, WaitForOK DEF SuccessorConnected
<1>3. NodesOK'
  BY <1>1, <1>2, DestroyedOK DEF SuccessorConnected
<1>4. sent \in Channels
  BY DEF JoinInv, ChannelsOK, Channels
<1>5. ASSUME NEW n \in Peers
      PROVE  sent[j][n] \o abrt(n) \o pred_abrt(n) \in Seq(Request)
  <2>1. sent[j][n] \in Seq(Request)
    BY <1>4 DEF Channels
  <2>2. abrt(n) \in Seq(Request) /\ pred_abrt(n) \in Seq(Request)
    <3>1. <<>> \in Seq(Request)
      BY EmptySeq
    <3>2. "JOIN_ABRT" \in Request /\ "PRED_JOIN_ABRT" \in Request
      BY DEF Request
    <3>3. <<"JOIN_ABRT">> \in Seq(Request) /\ <<"PRED_JOIN_ABRT">> \in Seq(Request)
      BY <3>2
    <3> QED
      BY <3>1, <3>3
  <2>3. sent[j][n] \o abrt(n) \in Seq(Request)
    BY <2>1, <2>2, ConcatProperties
  <2> QED
    BY <2>2, <2>3, ConcatProperties
<1>6. sent' = [sent EXCEPT ![j] = [n \in Peers |-> sent[j][n] \o abrt(n) \o pred_abrt(n)]]
  BY DEF SuccessorConnected
<1> HIDE DEF abrt, pred_abrt
<1>7. sent' \in Channels
  BY <1>4, <1>5, <1>6 DEF Channels
<1> QED
  BY <1>2, <1>3, <1>7 DEF JoinInv, ChannelsOK, Channels

LEMMA P2pmJoinOK == ASSUME JoinInv, NEW j \in Joiners, P2pmJoin(j) PROVE JoinInv'
<1>0. pc[j] = "new"
  BY DEF P2pmJoin
<1>1. CASE PredecessorConnected(j)
  BY <1>0, <1>1, PredecessorConnectedOK DEF P2pmJoin
<1>2. CASE /\ Send(j, contact[j], "GET_REQ")
           /\ WaitFor(j, "get_ack")
           /\ UNCHANGED node
  <2>1. /\ pc' \in [Joiners -> {"new"} \union Waiting \union Over]
        /\ answer' \in [Joiners -> Answer]
        /\ pc' = [pc EXCEPT ![j] = "get_ack"]
    BY <1>2, WaitForOK DEF Waiting
  <2>2. sent' \in Channels
    BY <1>2, SendOK DEF Request
  <2>3. /\ node[j] \in Node /\ ~Running(j) /\ Len(node[j].successor_list) <= RMax
        /\ node' = [node EXCEPT ![j] = node[j]]
    BY <1>0, <1>2 DEF JoinInv, NodesOK, Peers
  <2>4. node[j].status \in {"JOINING", "APPENDAGE", "OFF"}
    BY <2>3 DEF Node, Running
  <2>5. NodesOK'
    BY <1>0, <2>1, <2>3, <2>4, JoinersNode DEF Waiting
  <2> QED
    BY <2>1, <2>2, <2>5 DEF JoinInv, ChannelsOK, Channels, P2pmJoin
<1> QED
  BY <1>1, <1>2 DEF P2pmJoin

LEMMA RecvGetAckOK == ASSUME JoinInv, NEW j \in Joiners, RecvGetAck(j) PROVE JoinInv'
<1> DEFINE s == answer[j].successor
           v == [node[j] EXCEPT !.successor = s]
<1>0. pc[j] = "get_ack" /\ s \in Address
  BY DEF RecvGetAck, Receives, JoinInv, ChannelsOK, Answer
<1>1. CASE PredecessorConnected(j)
  BY <1>0, <1>1, PredecessorConnectedOK DEF RecvGetAck, Waiting
<1>2. CASE SuccessorConnected(j, s)
  BY <1>0, <1>2, SuccessorConnectedOK DEF RecvGetAck, Waiting
<1>3. CASE /\ node' = [node EXCEPT ![j].successor = s]
           /\ Send(j, s, "JOIN_REQ")
           /\ WaitFor(j, "join_ack1")
  <2>1. /\ pc' \in [Joiners -> {"new"} \union Waiting \union Over]
        /\ answer' \in [Joiners -> Answer]
        /\ pc' = [pc EXCEPT ![j] = "join_ack1"]
    BY <1>3, WaitForOK DEF Waiting
  <2>2. sent' \in Channels
    BY <1>3, SendOK DEF Request
  <2>3. /\ node[j] \in Node /\ ~Running(j) /\ Len(node[j].successor_list) <= RMax
        /\ node' = [node EXCEPT ![j] = v]
    BY <1>0, <1>3 DEF JoinInv, NodesOK, Peers, Waiting
  <2>4. /\ v \in Node /\ v.status \in {"JOINING", "APPENDAGE", "OFF"}
        /\ v.successor_list = node[j].successor_list
    BY <1>0, <2>3 DEF Node, Running
  <2> HIDE DEF v
  <2>5. NodesOK'
    BY <1>0, <2>1, <2>3, <2>4, JoinersNode DEF Waiting
  <2> QED
    BY <2>1, <2>2, <2>5 DEF JoinInv, ChannelsOK, Channels, RecvGetAck
<1> QED
  BY <1>1, <1>2, <1>3 DEF RecvGetAck

LEMMA RecvGetNackOK == ASSUME JoinInv, NEW j \in Joiners, RecvGetNack(j) PROVE JoinInv'
<1>1. pc[j] \in Waiting /\ "need_one_ring" \in Over
  BY DEF RecvGetNack, Receives, Waiting, Over
<1>2. /\ pc' \in [Joiners -> {"new"} \union Waiting \union Over]
      /\ answer' \in [Joiners -> Answer]
      /\ pc' = [pc EXCEPT ![j] = "need_one_ring"]
  BY <1>1, WaitForOK DEF RecvGetNack
<1>3. NodesOK'
  BY <1>1, <1>2, DestroyedOK DEF RecvGetNack
<1> QED
  BY <1>2, <1>3 DEF JoinInv, ChannelsOK, RecvGetNack

LEMMA JoinOneRingOK == ASSUME JoinInv, NEW j \in Joiners, JoinOneRing(j) PROVE JoinInv'
<1>1. pc[j] \in Waiting /\ "one_ring_failed" \in Over
  BY DEF JoinOneRing, Receives, Waiting, Over, Failed
<1>2. /\ pc' \in [Joiners -> {"new"} \union Waiting \union Over]
      /\ answer' \in [Joiners -> Answer]
      /\ pc' = [pc EXCEPT ![j] = "one_ring_failed"]
  BY <1>1, WaitForOK DEF JoinOneRing
<1>3. NodesOK'
  BY <1>1, <1>2, DestroyedOK DEF JoinOneRing
<1>4. sent' \in Channels
  BY SendOK DEF JoinOneRing, Request
<1> QED
  BY <1>2, <1>3, <1>4 DEF JoinInv, ChannelsOK, Channels, JoinOneRing

LEMMA RecvJoinAck1OK == ASSUME JoinInv, NEW j \in Joiners, RecvJoinAck1(j) PROVE JoinInv'
<1> DEFINE s == node[j].successor
           list == CopySuccessorList(s, answer[j].list)
           v == [node[j] EXCEPT !.status = "APPENDAGE", !.successor_list = list]
<1>0. pc[j] = "join_ack1" /\ answer[j] \in Answer /\ node[j] \in Node
  BY DEF RecvJoinAck1, Receives, JoinInv, ChannelsOK, NodesOK, Peers
<1>1. CASE SuccessorConnected(j, s)
  BY <1>0, <1>1, SuccessorConnectedOK DEF RecvJoinAck1, Waiting
<1>2. CASE /\ Len(answer[j].list) \in 1 .. RMax
           /\ node' = [node EXCEPT ![j].status = "APPENDAGE", ![j].successor_list = list]
           /\ Send(j, contact[j], "JOIN_CMT")
           /\ WaitFor(j, "join_ack2")
  <2>1. /\ pc' \in [Joiners -> {"new"} \union Waiting \union Over]
        /\ answer' \in [Joiners -> Answer]
        /\ pc' = [pc EXCEPT ![j] = "join_ack2"]
    BY <1>2, WaitForOK DEF Waiting
  <2>2. sent' \in Channels
    BY <1>2, SendOK DEF Request
  <2>3. s \in Address /\ answer[j].list \in Seq(Address) /\ Len(answer[j].list) <= RMax
    BY <1>0, <1>2 DEF Node, Answer
  <2>4. /\ list \in Seq(Address) /\ list # <<>> /\ Head(list) = s /\ Len(list) <= RMax
    BY <2>3, CopyFits
  <2>5. node' = [node EXCEPT ![j] = v]
    BY <1>2
  <2> HIDE DEF list
  <2>6. /\ v \in Node /\ v.status = "APPENDAGE"
        /\ v.successor_list = list /\ v.successor = s
    BY <1>0, <2>4 DEF Node
  <2> HIDE DEF v
  <2>7. Listed(v) /\ Len(v.successor_list) <= RMax
    BY <2>4, <2>6 DEF Listed
  <2>8. NodesOK'
    BY <1>0, <2>1, <2>5, <2>6, <2>7, JoinersNode DEF Waiting
  <2> QED
    BY <2>1, <2>2, <2>8 DEF JoinInv, ChannelsOK, Channels, RecvJoinAck1
<1> QED
  BY <1>1, <1>2 DEF RecvJoinAck1

LEMMA RecvJoinAck2OK == ASSUME JoinInv, NEW j \in Joiners, RecvJoinAck2(j) PROVE JoinInv'
<1> DEFINE v == [node[j] EXCEPT !.status = "MEMBER"]
<1>0. /\ pc[j] = "join_ack2" /\ Listed(node[j]) /\ node[j] \in Node
      /\ Len(node[j].successor_list) <= RMax
  BY DEF RecvJoinAck2, Receives, JoinInv, NodesOK, Peers
<1>1. "success" \in Over /\ "success" \notin {"new"} \union Waiting
  BY DEF Over, Waiting
<1>2. /\ pc' \in [Joiners -> {"new"} \union Waiting \union Over]
      /\ answer' \in [Joiners -> Answer]
      /\ pc' = [pc EXCEPT ![j] = "success"]
  BY <1>1, WaitForOK DEF RecvJoinAck2
<1>3. sent' \in Channels
  BY SendOK DEF RecvJoinAck2, Request
<1>4. node' = [node EXCEPT ![j] = v]
  BY DEF RecvJoinAck2
<1>5. /\ v \in Node /\ v.status = "MEMBER"
      /\ v.successor_list = node[j].successor_list /\ v.successor = node[j].successor
  BY <1>0 DEF Node
<1> HIDE DEF v
<1>6. Listed(v) /\ Len(v.successor_list) <= RMax
  BY <1>0, <1>5 DEF Listed
<1>7. NodesOK'
  BY <1>0, <1>1, <1>2, <1>4, <1>5, <1>6, JoinersNode DEF Waiting
<1> QED
  BY <1>2, <1>3, <1>7 DEF JoinInv, ChannelsOK, Channels, RecvJoinAck2

LEMMA JoinerOK == ASSUME JoinInv, NEW j \in Joiners, Joiner(j) PROVE JoinInv'
<1>1. CASE RecvRefusal(j)
  BY <1>1, SuccessorConnectedOK DEF RecvRefusal, Waiting
<1>2. CASE Timeout(j)
  BY <1>2, PredecessorConnectedOK, SuccessorConnectedOK DEF Timeout
<1> QED
  BY <1>1, <1>2, P2pmJoinOK, RecvGetAckOK, RecvGetNackOK, JoinOneRingOK,
     RecvJoinAck1OK, RecvJoinAck2OK DEF Joiner

-------------------------------------------------------------------------------
(* The members' steps *)

(* A handler that leaves the successor and its list as they are.             *)
LEMMA HandlerOK ==
    ASSUME JoinInv, NEW n \in Peers, NEW j \in Joiners, NEW request,
           Takes(n, j, request),
           NEW v \in Node, v.status \in {"ONE_RING", "MEMBER", "HANDLING_JOIN", "OFF"},
           v.successor_list = node[n].successor_list, v.successor = node[n].successor,
           node' = [node EXCEPT ![n] = v],
           answer' \in [Joiners -> Answer],
           contested' \in BOOLEAN,
           UNCHANGED <<contact, pc>>
    PROVE  JoinInv'
<1>1. Running(n) /\ Len(node[n].successor_list) <= RMax /\ Listed(node[n])
  BY DEF Takes, JoinInv, NodesOK
<1>2. Listed(v) /\ Len(v.successor_list) <= RMax
  BY <1>1 DEF Listed
<1>3. NodesOK'
  BY <1>1, <1>2, ServedNode
<1>4. sent' \in Channels
  BY TakesOK
<1> QED
  BY <1>3, <1>4 DEF JoinInv, ChannelsOK, Channels

LEMMA MeetsOK ==
    ASSUME JoinInv, NEW address, NEW j, Meets(address, j)
    PROVE  contested' \in BOOLEAN
  BY DEF Meets

LEMMA SameAnswerOK == ASSUME JoinInv, UNCHANGED answer PROVE answer' \in [Joiners -> Answer]
  BY DEF JoinInv, ChannelsOK

LEMMA ReleasedOK ==
    ASSUME JoinInv, NEW n \in Peers, Running(n)
    PROVE  Released(node[n].status) \in {"ONE_RING", "MEMBER"}
  BY DEF Running, Released

LEMMA GetReqOK == ASSUME JoinInv, NEW n \in Peers, NEW j \in Joiners, GetReq(n, j) PROVE JoinInv'
<1> DEFINE v == [node[n] EXCEPT !.temp_successor = j,
                                !.status = IF @ = "MEMBER" THEN "HANDLING_JOIN" ELSE @]
<1>1. node[n] \in Node /\ Running(n) /\ j \in Address
  BY DEF GetReq, Takes, JoinInv, NodesOK, Address, Peers
<1>2. /\ v \in Node /\ v.status \in {"ONE_RING", "MEMBER", "HANDLING_JOIN", "OFF"}
      /\ v.successor_list = node[n].successor_list /\ v.successor = node[n].successor
  BY <1>1 DEF Node, Running
<1>3. node' = [node EXCEPT ![n] = v]
  BY DEF GetReq
<1>4. answer' \in [Joiners -> Answer]
  <2>1. node[n].successor \in Address
    BY <1>1 DEF Node
  <2> QED
    BY <2>1, JustIsAnswer, ReplyOK DEF GetReq
<1>5. contested' \in BOOLEAN
  BY MeetsOK DEF GetReq
<1> HIDE DEF v
<1> QED
  BY <1>2, <1>3, <1>4, <1>5, HandlerOK DEF GetReq

LEMMA JoinReqOK == ASSUME JoinInv, NEW n \in Peers, NEW j \in Joiners, JoinReq(n, j) PROVE JoinInv'
<1> DEFINE v == [node[n] EXCEPT !.temp_predecessor = j]
<1>1. node[n] \in Node /\ Running(n) /\ j \in Address
  BY DEF JoinReq, Takes, JoinInv, NodesOK, Address, Peers
<1>2. /\ v \in Node /\ v.status \in {"ONE_RING", "MEMBER", "HANDLING_JOIN", "OFF"}
      /\ v.successor_list = node[n].successor_list /\ v.successor = node[n].successor
  BY <1>1 DEF Node, Running
<1>3. node' = [node EXCEPT ![n] = v]
  BY DEF JoinReq
<1>4. answer' \in [Joiners -> Answer]
  <2>1. node[n].successor_list \in Seq(Address)
    BY <1>1 DEF Node
  <2> QED
    BY <2>1, JustIsAnswer, ReplyOK DEF JoinReq
<1>5. contested' \in BOOLEAN
  BY MeetsOK DEF JoinReq
<1> HIDE DEF v
<1> QED
  BY <1>2, <1>3, <1>4, <1>5, HandlerOK DEF JoinReq

LEMMA JoinCmtOK == ASSUME JoinInv, NEW n \in Peers, NEW j \in Joiners, JoinCmt(n, j) PROVE JoinInv'
<1> DEFINE s == node[n].temp_successor
           list == CopySuccessorList(s, node[j].successor_list)
           v == [node[n] EXCEPT !.successor = s, !.successor_list = list,
                                !.temp_successor = None, !.status = Released(@)]
<1>1. /\ node[n] \in Node /\ Running(n) /\ node[j] \in Node
      /\ Len(node[j].successor_list) <= RMax /\ None \in Address
  BY DEF JoinCmt, Takes, JoinInv, NodesOK, Address, Peers
<1>2. s \in Address /\ node[j].successor_list \in Seq(Address)
  BY <1>1 DEF Node
<1>3. list \in Seq(Address) /\ list # <<>> /\ Head(list) = s /\ Len(list) <= RMax
  BY <1>1, <1>2, CopyFits
<1>4. node' = [node EXCEPT ![n] = v]
  BY DEF JoinCmt
<1>5. Released(node[n].status) \in {"ONE_RING", "MEMBER"}
  BY <1>1, ReleasedOK
<1> HIDE DEF list
<1>6. /\ v \in Node
      /\ v.successor_list = list /\ v.successor = s
  BY <1>1, <1>2, <1>3, <1>5 DEF Node
<1>7. answer' \in [Joiners -> Answer]
  BY JustIsAnswer, ReplyOK DEF JoinCmt
<1>8. contested' \in BOOLEAN
  BY MeetsOK DEF JoinCmt
<1>9. sent' \in Channels
  BY TakesOK DEF JoinCmt
<1> HIDE DEF v
<1>10. Listed(v) /\ Len(v.successor_list) <= RMax
  BY <1>3, <1>6 DEF Listed
<1>11. NodesOK'
  BY <1>1, <1>4, <1>6, <1>10, ServedNode DEF JoinCmt
<1> QED
  BY <1>7, <1>8, <1>9, <1>11 DEF JoinInv, ChannelsOK, Channels, JoinCmt

LEMMA PredJoinCmtOK ==
    ASSUME JoinInv, NEW n \in Peers, NEW j \in Joiners, PredJoinCmt(n, j)
    PROVE  JoinInv'
<1> DEFINE v == [node[n] EXCEPT !.predecessor = node[n].temp_predecessor,
                                !.temp_predecessor = None, !.status = Released(@)]
<1>1. node[n] \in Node /\ Running(n) /\ None \in Address
  BY DEF PredJoinCmt, Takes, JoinInv, NodesOK, Address
<1>2. Released(node[n].status) \in {"ONE_RING", "MEMBER"}
  BY <1>1, ReleasedOK
<1>3. /\ v \in Node /\ v.status \in {"ONE_RING", "MEMBER", "HANDLING_JOIN", "OFF"}
      /\ v.successor_list = node[n].successor_list /\ v.successor = node[n].successor
  BY <1>1, <1>2 DEF Node
<1>4. node' = [node EXCEPT ![n] = v]
  BY DEF PredJoinCmt
<1>5. contested' \in BOOLEAN
  BY MeetsOK DEF PredJoinCmt
<1>6. answer' \in [Joiners -> Answer]
  BY SameAnswerOK DEF PredJoinCmt
<1> HIDE DEF v
<1> QED
  BY <1>3, <1>4, <1>5, <1>6, HandlerOK DEF PredJoinCmt

LEMMA JoinAbrtOK ==
    ASSUME JoinInv, NEW n \in Peers, NEW j \in Joiners, JoinAbrt(n, j)
    PROVE  JoinInv'
<1> DEFINE v == [node[n] EXCEPT !.temp_successor = None, !.status = Released(@)]
<1>1. node[n] \in Node /\ Running(n) /\ None \in Address
  BY DEF JoinAbrt, Takes, JoinInv, NodesOK, Address
<1>2. Released(node[n].status) \in {"ONE_RING", "MEMBER"}
  BY <1>1, ReleasedOK
<1>3. /\ v \in Node /\ v.status \in {"ONE_RING", "MEMBER", "HANDLING_JOIN", "OFF"}
      /\ v.successor_list = node[n].successor_list /\ v.successor = node[n].successor
  BY <1>1, <1>2 DEF Node
<1>4. node' = [node EXCEPT ![n] = v]
  BY DEF JoinAbrt
<1>5. contested' \in BOOLEAN
  BY MeetsOK DEF JoinAbrt
<1>6. answer' \in [Joiners -> Answer]
  BY SameAnswerOK DEF JoinAbrt
<1> HIDE DEF v
<1> QED
  BY <1>3, <1>4, <1>5, <1>6, HandlerOK DEF JoinAbrt

LEMMA PredJoinAbrtOK ==
    ASSUME JoinInv, NEW n \in Peers, NEW j \in Joiners, PredJoinAbrt(n, j)
    PROVE  JoinInv'
<1> DEFINE v == [node[n] EXCEPT !.temp_predecessor = None, !.status = Released(@)]
<1>1. node[n] \in Node /\ Running(n) /\ None \in Address
  BY DEF PredJoinAbrt, Takes, JoinInv, NodesOK, Address
<1>2. Released(node[n].status) \in {"ONE_RING", "MEMBER"}
  BY <1>1, ReleasedOK
<1>3. /\ v \in Node /\ v.status \in {"ONE_RING", "MEMBER", "HANDLING_JOIN", "OFF"}
      /\ v.successor_list = node[n].successor_list /\ v.successor = node[n].successor
  BY <1>1, <1>2 DEF Node
<1>4. node' = [node EXCEPT ![n] = v]
  BY DEF PredJoinAbrt
<1>5. contested' \in BOOLEAN
  BY MeetsOK DEF PredJoinAbrt
<1>6. answer' \in [Joiners -> Answer]
  BY SameAnswerOK DEF PredJoinAbrt
<1> HIDE DEF v
<1> QED
  BY <1>3, <1>4, <1>5, <1>6, HandlerOK DEF PredJoinAbrt

LEMMA OneRingJoinReqOK ==
    ASSUME JoinInv, NEW n \in Peers, NEW j \in Joiners, OneRingJoinReq(n, j)
    PROVE  JoinInv'
<1>1. /\ node[n] \in Node /\ Running(n)
      /\ Len(node[n].successor_list) <= RMax /\ Listed(node[n])
  BY DEF OneRingJoinReq, Takes, JoinInv, NodesOK
<1>2. answer' \in [Joiners -> Answer] /\ contested' \in BOOLEAN
  BY DEF OneRingJoinReq, JoinInv, ChannelsOK
<1>3. ASSUME NEW status \in {"HANDLING_JOIN", "OFF"},
             node' = [node EXCEPT ![n].status = status]
      PROVE  JoinInv'
  <2> DEFINE v == [node[n] EXCEPT !.status = status]
  <2>1. /\ v \in Node /\ v.status \in {"ONE_RING", "MEMBER", "HANDLING_JOIN", "OFF"}
        /\ v.successor_list = node[n].successor_list /\ v.successor = node[n].successor
    BY <1>1 DEF Node
  <2>2. node' = [node EXCEPT ![n] = v]
    BY <1>3
  <2> HIDE DEF v
  <2> QED
    BY <1>2, <2>1, <2>2, HandlerOK DEF OneRingJoinReq
<1>4. CASE UNCHANGED node
  <2>1. sent' \in Channels
    BY TakesOK DEF OneRingJoinReq
  <2>2. NodesOK'
    BY <1>4 DEF JoinInv, NodesOK, OneRingJoinReq, Running
  <2> QED
    BY <1>2, <2>1, <2>2 DEF JoinInv, ChannelsOK, Channels, OneRingJoinReq
<1> QED
  BY <1>3, <1>4 DEF OneRingJoinReq

LEMMA ServeOK == ASSUME JoinInv, NEW n \in Peers, NEW j \in Joiners, Serve(n, j) PROVE JoinInv'
  BY GetReqOK, JoinReqOK, JoinCmtOK, PredJoinCmtOK, JoinAbrtOK, PredJoinAbrtOK,
     OneRingJoinReqOK DEF Serve

LEMMA StepOK == JoinInv /\ [Next]_vars => JoinInv'
<1> SUFFICES ASSUME JoinInv, [Next]_vars PROVE JoinInv'
  OBVIOUS
<1>1. CASE Next
  BY <1>1, JoinerOK, ServeOK DEF Next
<1>2. CASE UNCHANGED vars
  BY <1>2 DEF vars, JoinInv, NodesOK, ChannelsOK, Running
<1> QED
  BY <1>1, <1>2

-------------------------------------------------------------------------------
(* The initial states *)

LEMMA MemberAtOK ==
    ASSUME NEW ring \in Seq(Nodes), ring # <<>>, NEW i \in DOMAIN ring
    PROVE  LET v == MemberAt(ring, i)
           IN v \in Node /\ Len(v.successor_list) <= RMax /\ Listed(v)
              /\ v.predecessor \in Nodes
<1> DEFINE at(k) == ring[(k % Len(ring)) + 1]
           list == [k \in 1 .. InitialR |-> at(i + k - 1)]
<1>1. Len(ring) \in Nat \ {0} /\ i \in 1 .. Len(ring) /\ ring \in [1 .. Len(ring) -> Nodes]
  BY EmptySeq, LenProperties
<1>2. ASSUME NEW k \in Nat PROVE at(k) \in Nodes
  <2>1. k % Len(ring) \in 0 .. Len(ring) - 1
    BY <1>1, Z3
  <2> QED
    BY <1>1, <2>1
<1>3. \A k \in 1 .. InitialR : at(i + k - 1) \in Nodes
  BY <1>1, <1>2
<1>4. at(i) \in Nodes /\ at(i + Len(ring) - 2) \in Nodes
  BY <1>1, <1>2
<1>5. Nodes \subseteq Address /\ None \in Address
  BY DEF Address, Peers
<1>6. InitialR \in Nat /\ InitialR >= 1 /\ InitialR <= RMax
  OBVIOUS
<1>7. i + 1 - 1 = i
  BY <1>1
<1>8. list[1] = at(i)
  BY <1>6, <1>7
<1> HIDE DEF at
<1>9. list \in [1 .. InitialR -> Address]
  BY <1>3, <1>5
<1>10. list \in Seq(Address) /\ Len(list) = InitialR
  BY <1>6, <1>9
<1>11. list # <<>> /\ Head(list) = list[1]
  BY <1>6, <1>10
<1> HIDE DEF list
<1> DEFINE v == NodeOf(IF Len(ring) = 1 THEN "ONE_RING" ELSE "MEMBER",
                       at(i + Len(ring) - 2), at(i), list)
<1>12. v \in Node /\ v.successor_list = list /\ v.successor = at(i)
       /\ v.predecessor = at(i + Len(ring) - 2)
  BY <1>4, <1>5, <1>10 DEF NodeOf, Node
<1>13. MemberAt(ring, i) = v
  BY DEF MemberAt, at, list
<1> HIDE DEF v
<1> QED
  BY <1>4, <1>6, <1>8, <1>10, <1>11, <1>12, <1>13 DEF Listed

LEMMA InitOK == Init => JoinInv
<1> SUFFICES ASSUME Init PROVE JoinInv
  OBVIOUS
<1>1. PICK s \in Starts :
        /\ contact = s.contact
        /\ node = [n \in Peers |->
             IF n \in Joiners THEN NodeOf("JOINING", s.contact[n], None, <<>>)
             ELSE IF \E i \in DOMAIN s.ring : s.ring[i] = n
             THEN MemberAt(s.ring, CHOOSE i \in DOMAIN s.ring : s.ring[i] = n)
             ELSE NodeOf("OFF", None, None, <<>>)]
  BY DEF Init
<1>2. s.ring \in Seq(Nodes) /\ s.ring # <<>> /\ s.contact \in [Joiners -> Peers]
  OBVIOUS
<1>3. <<>> \in Seq(Address) /\ Len(<<>>) = 0 /\ <<>> \in Seq(Request)
  BY EmptySeq
<1>4. ASSUME NEW n \in Peers
      PROVE  /\ node[n] \in Node /\ Len(node[n].successor_list) <= RMax
             /\ Running(n) => Listed(node[n])
             /\ n \in Joiners => ~Running(n)
  <2>1. CASE n \in Joiners
    <3>1. s.contact[n] \in Address /\ None \in Address
      BY <1>2, <2>1 DEF Address
    <3>2. node[n] = NodeOf("JOINING", s.contact[n], None, <<>>)
      BY <1>1, <2>1
    <3> QED
      BY <1>3, <3>1, <3>2 DEF NodeOf, Node, Running
  <2>2. CASE n \notin Joiners /\ \E i \in DOMAIN s.ring : s.ring[i] = n
    <3> DEFINE i == CHOOSE k \in DOMAIN s.ring : s.ring[k] = n
    <3>1. i \in DOMAIN s.ring /\ node[n] = MemberAt(s.ring, i)
      BY <1>1, <2>2
    <3> HIDE DEF i
    <3> QED
      BY <1>2, <2>2, <3>1, MemberAtOK
  <2>3. CASE n \notin Joiners /\ ~\E i \in DOMAIN s.ring : s.ring[i] = n
    <3>1. node[n] = NodeOf("OFF", None, None, <<>>) /\ None \in Address
      BY <1>1, <2>3 DEF Address
    <3> QED
      BY <1>3, <2>3, <3>1 DEF NodeOf, Node, Running
  <2> QED BY <2>1, <2>2, <2>3
<1>5. NodesOK
  <2>1. node \in [Peers -> Node]
    BY <1>1, <1>4
  <2>2. \A j \in Joiners : pc[j] = "new" /\ j \in Peers
    BY DEF Init, Peers
  <2> QED
    BY <1>4, <2>1, <2>2 DEF NodesOK
<1>6. ChannelsOK
  <2>1. Just("none") \in Answer
    BY JustIsAnswer
  <2> QED
    BY <1>1, <1>2, <1>3, <2>1 DEF Init, ChannelsOK
<1> QED
  BY <1>5, <1>6 DEF JoinInv

(* The types of the variables, with r never above r_max, hold whatever joins *)
(* there are and however they meet.                                          *)
THEOREM TypeCorrect == Spec => []TypeOK
<1>1. JoinInv => TypeOK
  BY JoinInvImplies
<1> QED
  BY InitOK, StepOK, <1>1, PTL DEF Spec

(* A member always has a successor list that starts with the successor it is *)
(* connected to: no handler and no step of p2pm_join changes one without the *)
(* other in a node that serves.                                              *)
THEOREM ListsAgree == Spec => []ListStartsWithSuccessor
<1>1. JoinInv => ListStartsWithSuccessor
  BY JoinInvImplies
<1> QED
  BY InitOK, StepOK, <1>1, PTL DEF Spec

-------------------------------------------------------------------------------
(***************************************************************************)
(* The pointers: as long as no join meets another, successors form one     *)
(* ring, neighbours agree once nothing is under way, and predecessors have *)
(* joined.                                                                 *)
(***************************************************************************)
(* The mail of a joiner: the requests that are on their way from it *)

Items(q) == {q[i] : i \in 1 .. Len(q)}

On(j, n) == Items(sent[j][n])

(* No request is sent twice to one node, and none is committed once aborted. *)
Orderly(q) ==
    \A i, k \in 1 .. Len(q) : i < k =>
        q[i] # q[k] /\ ~(q[i] = "JOIN_ABRT" /\ q[k] = "JOIN_CMT")

(* A request that waits for an answer is sent where the answer is to come    *)
(* from, and is there no longer than the answer is missing.                  *)
Unanswered(j, at, failed) == (pc[j] = at /\ answer[j].type = "none") \/ pc[j] = failed

MailOK(j, n) ==
    /\ Orderly(sent[j][n])
    /\ "GET_REQ" \in On(j, n) =>
           n = contact[j] /\ Unanswered(j, "get_ack", "predecessor_failed")
    /\ "JOIN_REQ" \in On(j, n) =>
           n = node[j].successor /\ Unanswered(j, "join_ack1", "successor_failed")
    /\ "JOIN_CMT" \in On(j, n) =>
           n = contact[j] /\ Unanswered(j, "join_ack2", "successor_failed")
    /\ "PRED_JOIN_CMT" \in On(j, n) => n = node[j].successor /\ pc[j] = "success"
    /\ On(j, n) \intersect {"JOIN_ABRT", "PRED_JOIN_ABRT"} # {} => pc[j] = "successor_failed"
    /\ "ONE_RING_JOIN_REQ" \in On(j, n) => pc[j] = "one_ring_failed"

-------------------------------------------------------------------------------
(* One join, as long as no other meets it *)

Up(n) == n \in Peers /\ Running(n)

(* The contact keeps its place before s for j.                               *)
Keeps(j, s) ==
    /\ Up(contact[j])
    /\ node[contact[j]].temp_successor = j
    /\ node[contact[j]].successor = s

Committing(j) == "JOIN_CMT" \in On(j, contact[j])

Kept(j) ==
    /\ pc[j] = "get_ack" /\ answer[j].type = "GET_ACK" => Keeps(j, answer[j].successor)
    /\ pc[j] = "join_ack1" \/ Committing(j) => Keeps(j, node[j].successor)

(* From its answer on the successor keeps the place behind j, and has heard  *)
(* the last of the node that was there before.                               *)
Heard(j) == pc[j] = "join_ack1" /\ answer[j].type = "JOIN_ACK1"

Accepted(j) == Heard(j) \/ pc[j] = "join_ack2"

Told(j) == node[j].successor \in Peers /\ "PRED_JOIN_CMT" \in On(j, node[j].successor)

Promised(j) ==
    /\ Accepted(j) \/ Committing(j) => Up(node[j].successor)
    /\ Accepted(j) \/ Told(j) => node[node[j].successor].temp_predecessor = j
    /\ contact[j] \in Joiners /\ (Heard(j) \/ Committing(j)) =>
          "PRED_JOIN_CMT" \notin On(contact[j], node[j].successor)

(* The contact has taken j for its successor.                                *)
Taken(j) == pc[j] = "join_ack2" /\ answer[j].type # "none"

Acknowledged(j) ==
    Taken(j) => /\ answer[j].type = "JOIN_ACK2"
                /\ Up(contact[j])
                /\ node[contact[j]].successor = j

(* Before it serves anyone the joiner is nobody's successor but its          *)
(* contact's, and that from the commit on.                                   *)
Fresh(n, j) ==
    node[n].successor = j =>
        /\ pc[j] \in {"join_ack2", "success", "successor_failed"}
        /\ pc[j] = "join_ack2" => Taken(j)
        /\ ~Committing(j)

Starting(j) ==
    /\ pc[j] # "success" => node[j].predecessor = contact[j]
    /\ pc[j] \in {"new", "get_ack"} => node[j].successor = None
    /\ Running(j) <=> pc[j] = "success"

Joining(j) ==
    /\ \A n \in Peers : MailOK(j, n) /\ Fresh(n, j)
    /\ Kept(j) /\ Promised(j) /\ Acknowledged(j) /\ Starting(j)

-------------------------------------------------------------------------------
(* The ring *)

(* The members, and the joiners that a member has for its successor          *)
InRing(n) == Running(n) \/ (n \in Joiners /\ Taken(n))

Distinct ==
    \A m, n \in Peers : InRing(m) /\ InRing(n) /\ node[m].successor = node[n].successor => m = n

(* A member is its successor's predecessor, or has told it so.               *)
Linked(n) ==
    Running(n) =>
        /\ node[n].successor \in Joiners \/ Up(node[n].successor)
        /\ \/ node[node[n].successor].predecessor = n
           \/ n \in Joiners /\ Told(n)
        /\ node[n].predecessor \in Joiners => pc[node[n].predecessor] = "success"

(* Successors do not lead out of R.                                          *)
Shut(R) == \A n \in R : node[n].successor \in R \union {None}

Cycle ==
    NoOrphan => \A R \in SUBSET Peers :
                   Shut(R) /\ R \intersect Members # {} => Members \subseteq R

RingOf ==
    /\ \A n \in Peers : node[n].status # "ONE_RING" /\ Linked(n)
    /\ \A j \in Joiners : Joining(j)
    /\ Distinct
    /\ Cycle

(* Or a node is alone, and stays so.                                         *)
Alone(l) ==
    /\ l \in Nodes
    /\ \A n \in Peers : Running(n) => n = l
    /\ node[l].status # "MEMBER" /\ node[l].successor = l /\ node[l].predecessor = l
    /\ \A j \in Joiners :
         /\ pc[j] \in {"new", "get_ack", "predecessor_failed", "need_one_ring", "one_ring_failed"}
         /\ answer[j].type \in {"none", "GET_NACK", "GET_CONTACTED_ONE_RING"}
         /\ \A n \in Peers : sent[j][n] \in Seq({"GET_REQ", "ONE_RING_JOIN_REQ"})

RingInv == ~contested => RingOf \/ \E l \in Nodes : Alone(l)
-------------------------------------------------------------------------------
(* Requests that are sent and taken *)

LEMMA Appended ==
    ASSUME NEW q \in Seq(Request), NEW r \in Request
    PROVE  LET new == Append(q, r)
           IN /\ Items(new) = Items(q) \union {r}
              /\ Orderly(q) /\ r \notin Items(q)
                 /\ (r = "JOIN_CMT" => "JOIN_ABRT" \notin Items(q))
                 => Orderly(new)
<1> USE DEF Items
<1> DEFINE new == Append(q, r)
<1>1. /\ Len(q) \in Nat /\ Len(new) = Len(q) + 1
      /\ \A i \in 1 .. Len(q) : new[i] = q[i]
      /\ new[Len(q) + 1] = r
  BY AppendProperties, LenProperties
<1>2. \A i \in 1 .. Len(new) : i \in 1 .. Len(q) \/ i = Len(q) + 1
  BY <1>1
<1>3. \A i \in 1 .. Len(q) : i \in 1 .. Len(new) /\ Len(q) + 1 \in 1 .. Len(new)
  BY <1>1
<1>4. Len(q) + 1 \in 1 .. Len(new)
  BY <1>1
<1> HIDE DEF new
<1>5. Items(new) = Items(q) \union {r}
  BY <1>1, <1>2, <1>3, <1>4
<1>6. ASSUME Orderly(q), r \notin Items(q),
             r = "JOIN_CMT" => "JOIN_ABRT" \notin Items(q)
      PROVE  Orderly(new)
  <2> SUFFICES ASSUME NEW i \in 1 .. Len(new), NEW k \in 1 .. Len(new), i < k
               PROVE  new[i] # new[k] /\ ~(new[i] = "JOIN_ABRT" /\ new[k] = "JOIN_CMT")
    BY DEF Orderly
  <2>1. i \in 1 .. Len(q) /\ new[i] = q[i] /\ q[i] \in Items(q)
    BY <1>1
  <2>2. CASE k \in 1 .. Len(q)
    BY <1>1, <1>6, <2>1, <2>2 DEF Orderly
  <2>3. CASE k = Len(q) + 1
    BY <1>1, <1>6, <2>1, <2>3
  <2> QED BY <1>2, <2>2, <2>3
<1> QED
  BY <1>5, <1>6 DEF new

LEMMA TakenOff ==
    ASSUME NEW q \in Seq(Request), q # <<>>, Orderly(q)
    PROVE  LET rest == Tail(q)
           IN /\ Items(rest) = Items(q) \ {Head(q)}
              /\ Orderly(rest)
              /\ Head(q) \in Items(q)
              /\ Head(q) = "JOIN_ABRT" => "JOIN_CMT" \notin Items(q)
<1> USE DEF Items
<1> DEFINE rest == Tail(q)
<1>1. /\ Len(q) \in Nat \ {0} /\ Len(rest) = Len(q) - 1
      /\ \A i \in 1 .. Len(rest) : rest[i] = q[i + 1]
      /\ Head(q) = q[1]
  BY HeadTailProperties, LenProperties, EmptySeq
<1>2. \A i \in 1 .. Len(rest) : i + 1 \in 1 .. Len(q) /\ 1 < i + 1
  BY <1>1
<1>3. \A i \in 1 .. Len(q) : i = 1 \/ (i - 1 \in 1 .. Len(rest) /\ rest[i - 1] = q[i] /\ 1 < i)
  BY <1>1
<1>4. 1 \in 1 .. Len(q)
  BY <1>1
<1> HIDE DEF rest
<1>5. \A i \in 1 .. Len(q) : 1 < i => q[i] # q[1]
  BY <1>4 DEF Orderly
<1>6. Items(rest) = Items(q) \ {q[1]}
  <2>1. ASSUME NEW i \in 1 .. Len(rest)
        PROVE  rest[i] \in Items(q) \ {q[1]}
    BY <1>1, <1>2, <1>5
  <2>2. ASSUME NEW i \in 1 .. Len(q), q[i] # q[1]
        PROVE  q[i] \in Items(rest)
    BY <1>3, <2>2
  <2> QED BY <2>1, <2>2
<1>7. Orderly(rest)
  <2> SUFFICES ASSUME NEW i \in 1 .. Len(rest), NEW k \in 1 .. Len(rest), i < k
               PROVE  rest[i] # rest[k] /\ ~(rest[i] = "JOIN_ABRT" /\ rest[k] = "JOIN_CMT")
    BY DEF Orderly
  <2>1. i + 1 \in 1 .. Len(q) /\ k + 1 \in 1 .. Len(q) /\ i + 1 < k + 1
    BY <1>2
  <2>2. rest[i] = q[i + 1] /\ rest[k] = q[k + 1]
    BY <1>1
  <2> QED BY <2>1, <2>2 DEF Orderly
<1>8. Head(q) = "JOIN_ABRT" => "JOIN_CMT" \notin Items(q)
  BY <1>1, <1>3, <1>4 DEF Orderly
<1> QED
  BY <1>1, <1>4, <1>6, <1>7, <1>8 DEF rest

LEMMA EmptyMail ==
    ASSUME NEW j \in Joiners, NEW n \in Peers, sent[j][n] = <<>>
    PROVE  On(j, n) = {} /\ Orderly(sent[j][n])
  BY DEF On, Items, Orderly

LEMMA MailTypes ==
    ASSUME JoinInv, NEW j \in Joiners, NEW n \in Peers
    PROVE  sent \in Channels /\ sent[j][n] \in Seq(Request) /\ On(j, n) \subseteq Request
<1>1. sent \in Channels /\ sent[j] \in [Peers -> Seq(Request)] /\ sent[j][n] \in Seq(Request)
  BY DEF JoinInv, ChannelsOK, Channels
<1> QED
  BY <1>1 DEF On, Items

(* A request is sent that is not on its way yet.                             *)
LEMMA SendMail ==
    ASSUME JoinInv, NEW j \in Joiners, NEW s \in Peers, NEW r \in Request, Send(j, s, r),
           \A n \in Peers : Orderly(sent[j][n]),
           r \notin On(j, s), r = "JOIN_CMT" => "JOIN_ABRT" \notin On(j, s)
    PROVE  /\ \A k \in Joiners, n \in Peers :
                On(k, n)' = IF k = j /\ n = s THEN On(k, n) \union {r} ELSE On(k, n)
           /\ \A k \in Joiners, n \in Peers : Orderly(sent[k][n]) => Orderly(sent'[k][n])
<1>1. sent \in Channels /\ sent[j][s] \in Seq(Request)
  BY MailTypes
<1>2. \A k \in Joiners, n \in Peers :
        sent'[k][n] = IF k = j /\ n = s THEN Append(sent[j][s], r) ELSE sent[k][n]
  BY <1>1 DEF Send, Channels
<1>3. /\ Items(sent'[j][s]) = Items(sent[j][s]) \union {r}
      /\ Orderly(sent'[j][s])
  BY <1>1, <1>2, Appended DEF On
<1>4. \A k \in Joiners, n \in Peers :
        Items(sent'[k][n]) = IF k = j /\ n = s THEN Items(sent[k][n]) \union {r}
                             ELSE Items(sent[k][n])
  BY <1>2, <1>3
<1>5. \A k \in Joiners, n \in Peers : Orderly(sent[k][n]) => Orderly(sent'[k][n])
  BY <1>2, <1>3
<1> QED
  BY <1>4, <1>5 DEF On

(* A request is taken by the server of n.                                    *)
LEMMA TakeMail ==
    ASSUME JoinInv, NEW n \in Peers, NEW j \in Joiners, NEW r \in Request, Takes(n, j, r),
           Orderly(sent[j][n])
    PROVE  /\ r \in On(j, n)
           /\ r = "JOIN_ABRT" => "JOIN_CMT" \notin On(j, n)
           /\ \A k \in Joiners, m \in Peers :
                On(k, m)' = IF k = j /\ m = n THEN On(k, m) \ {r} ELSE On(k, m)
           /\ \A k \in Joiners, m \in Peers : Orderly(sent[k][m]) => Orderly(sent'[k][m])
<1>1. sent \in Channels /\ sent[j][n] \in Seq(Request)
  BY MailTypes
<1>2. \A k \in Joiners, m \in Peers :
        sent'[k][m] = IF k = j /\ m = n THEN Tail(sent[j][n]) ELSE sent[k][m]
  BY <1>1 DEF Takes, Channels
<1>3. sent[j][n] # <<>> /\ Head(sent[j][n]) = r
  BY DEF Takes
<1>4. /\ Items(Tail(sent[j][n])) = Items(sent[j][n]) \ {r}
      /\ Orderly(Tail(sent[j][n]))
      /\ r \in Items(sent[j][n])
      /\ r = "JOIN_ABRT" => "JOIN_CMT" \notin Items(sent[j][n])
  BY <1>1, <1>3, TakenOff
<1>5. \A k \in Joiners, m \in Peers :
        Items(sent'[k][m]) = IF k = j /\ m = n THEN Items(sent[k][m]) \ {r}
                             ELSE Items(sent[k][m])
  BY <1>2, <1>4
<1>6. \A k \in Joiners, m \in Peers : Orderly(sent[k][m]) => Orderly(sent'[k][m])
  BY <1>2, <1>4
<1> QED
  BY <1>4, <1>5, <1>6 DEF On

-------------------------------------------------------------------------------
(* The steps of a member that leave the pointers as they are *)

LEMMA PeersAre == None \notin Peers /\ Joiners \subseteq Peers
<1>1. None \notin Peers
  BY RingJoinAssumption
<1> QED BY <1>1 DEF Peers

LEMMA CycleStays ==
    ASSUME RingOf,
           \A m \in Peers : /\ \/ node'[m].successor = node[m].successor
                               \/ node[m].successor = None /\ ~Running(m)
                            /\ Running(m)' <=> Running(m),
           \A k \in Joiners : pc[k] \in Failed => pc'[k] \in Failed
    PROVE  Cycle'
<1>1. Members' = Members /\ Members \subseteq Peers
  BY DEF Members
<1>2. SUFFICES ASSUME NoOrphan', NEW R \in SUBSET Peers, Shut(R)', R \intersect Members' # {}
               PROVE  Members' \subseteq R
  BY DEF Cycle
<1>3. NoOrphan
  <2> SUFFICES ASSUME NEW n \in Members, node[n].successor \in Joiners
               PROVE  pc[node[n].successor] \notin Failed
    BY DEF NoOrphan
  <2>1. node'[n].successor = node[n].successor /\ n \in Members'
    BY <1>1 DEF Members
  <2> QED BY <1>2, <2>1 DEF NoOrphan
<1>4. Shut(R)
  BY <1>2 DEF Shut
<1> QED BY <1>1, <1>2, <1>3, <1>4 DEF RingOf, Cycle

(* What the handlers of GET_REQ, JOIN_REQ and the aborts have in common      *)
SamePointers ==
    /\ pc' = pc /\ contact' = contact
    /\ \A m \in Peers : /\ node'[m].successor = node[m].successor
                        /\ node'[m].predecessor = node[m].predecessor
                        /\ Running(m)' <=> Running(m)
                        /\ node'[m].status # "ONE_RING"
    /\ \A k \in Joiners : Taken(k)' <=> Taken(k)
    /\ \A k \in Joiners, m \in Peers :
         "PRED_JOIN_CMT" \in On(k, m)' <=> "PRED_JOIN_CMT" \in On(k, m)

LEMMA RingStays ==
    ASSUME JoinInv, RingOf, SamePointers
    PROVE  /\ \A m \in Peers : node'[m].status # "ONE_RING" /\ Linked(m)'
           /\ \A k \in Joiners : Starting(k)'
           /\ Distinct'
           /\ Cycle'
<1> USE DEF SamePointers
<1>0. Joiners \subseteq Peers
  BY DEF Peers
<1>1. \A m \in Peers : node'[m].status # "ONE_RING"
  OBVIOUS
<1>2. ASSUME NEW k \in Joiners PROVE Told(k)' <=> Told(k)
  BY <1>0 DEF Told
<1>3. ASSUME NEW m \in Peers PROVE Linked(m)'
  <2>1. Linked(m)
    BY DEF RingOf
  <2>2. SUFFICES ASSUME Running(m) PROVE Linked(m)'
    BY DEF Linked
  <2>3. node[m].successor \in Peers
    BY <1>0, <2>1, <2>2 DEF Linked, Up
  <2> QED BY <1>2, <2>1, <2>2, <2>3 DEF Linked, Up
<1>4. ASSUME NEW k \in Joiners PROVE Starting(k)'
  BY <1>0 DEF RingOf, Joining, Starting
<1>5. Distinct'
  BY <1>0 DEF RingOf, Distinct, InRing
<1>6. Cycle'
  BY CycleStays
<1> QED
  BY <1>1, <1>3, <1>4, <1>5, <1>6

LEMMA PromiseStays ==
    ASSUME JoinInv, NEW k \in Joiners, Promised(k), SamePointers,
           Accepted(k)' <=> Accepted(k), Heard(k)' <=> Heard(k), Committing(k)' <=> Committing(k),
           Accepted(k) \/ Told(k) => node'[node[k].successor].temp_predecessor = k
    PROVE  Promised(k)'
<1>1. /\ k \in Peers /\ node'[k].successor = node[k].successor /\ contact' = contact
      /\ Told(k)' <=> Told(k)
  BY PeersAre DEF SamePointers, Told
<1>2. Accepted(k) \/ Committing(k) =>
        \E s \in Peers : s = node[k].successor /\ Running(s)'
  BY DEF Promised, Up, SamePointers
<1>3. Heard(k) => Accepted(k)
  BY DEF Accepted
<1>4. ASSUME contact[k] \in Joiners, Heard(k) \/ Committing(k)
      PROVE  "PRED_JOIN_CMT" \notin On(contact[k], node[k].successor)'
  <2>1. PICK c \in Joiners, s \in Peers :
           /\ c = contact[k] /\ s = node[k].successor
           /\ "PRED_JOIN_CMT" \notin On(c, s)
    BY <1>2, <1>3, <1>4 DEF Up, Promised
  <2>2. "PRED_JOIN_CMT" \notin On(c, s)'
    BY <2>1 DEF SamePointers
  <2>3. contact'[k] = c /\ node'[k].successor = s
    BY <1>1, <2>1
  <2> QED BY <2>2, <2>3 DEF On
<1>5. Accepted(k)' \/ Told(k)' => node'[node'[k].successor].temp_predecessor = k
  BY <1>1
<1>6. Accepted(k)' \/ Committing(k)' => Up(node[k].successor)'
  BY <1>1, <1>2 DEF Up, Running
<1> QED
  BY <1>1, <1>4, <1>5, <1>6 DEF Promised, On, Up

LEMMA JoinAbrtKeepsRing ==
    ASSUME JoinInv, RingOf, NEW n \in Peers, NEW j \in Joiners, JoinAbrt(n, j), ~contested'
    PROVE  RingOf'
<1>1. /\ Running(n) /\ Takes(n, j, "JOIN_ABRT") /\ node[n].temp_successor \in {None, j}
      /\ pc' = pc /\ contact' = contact /\ answer' = answer
  BY DEF JoinAbrt, Meets, Takes
<1>2. \A m \in Peers : node[m] \in Node
  BY DEF JoinInv, NodesOK
<1>3. \A m \in Peers : /\ node'[m].successor = node[m].successor
                       /\ node'[m].predecessor = node[m].predecessor
                       /\ node'[m].temp_predecessor = node[m].temp_predecessor
                       /\ m # n => node'[m].temp_successor = node[m].temp_successor
                       /\ Running(m)' <=> Running(m)
                       /\ node'[m].status # "ONE_RING"
  <2>1. node \in [Peers -> Node] /\ \A m \in Peers : node[m].status # "ONE_RING"
    BY DEF JoinInv, NodesOK, RingOf
  <2> QED BY <1>2, <2>1 DEF JoinAbrt, Node, Running, Released
<1>4. \A k \in Joiners, m \in Peers : MailOK(k, m)
  BY DEF RingOf, Joining
<1>5. /\ pc[j] = "successor_failed" /\ "JOIN_CMT" \notin On(j, n)
      /\ \A k \in Joiners, m \in Peers :
                On(k, m)' = IF k = j /\ m = n THEN On(k, m) \ {"JOIN_ABRT"} ELSE On(k, m)
      /\ \A k \in Joiners, m \in Peers : Orderly(sent'[k][m])
  BY <1>1, <1>4, TakeMail DEF MailOK, Request
<1>6. SamePointers
  BY <1>1, <1>3, <1>5 DEF SamePointers, Taken
<1>7. ASSUME NEW k \in Joiners PROVE Joining(k)'
  <2>1. Joining(k) /\ k \in Peers /\ contact[k] \in Peers
    BY DEF RingOf, Peers, JoinInv, ChannelsOK
  <2>2. ASSUME NEW m \in Peers PROVE MailOK(k, m)'
    BY <1>1, <1>3, <1>4, <1>5, <2>1 DEF MailOK, Unanswered
  <2>3. ASSUME NEW m \in Peers PROVE Fresh(m, k)'
    BY <1>1, <1>3, <1>5, <2>1 DEF Joining, Fresh, Taken, Committing
  <2>4. Kept(k)'
    <3>1. Kept(k) /\ k # None
      BY <2>1, PeersAre DEF Joining
    <3>2. Committing(k)' => Committing(k) /\ ~(k = j /\ contact[k] = n)
      BY <1>1, <1>5, <2>1 DEF Committing
    <3>3. ASSUME NEW s, Keeps(k, s), ~(k = j /\ contact[k] = n)
          PROVE  Keeps(k, s)'
      BY <1>1, <1>3, <2>1, <3>1, <3>3 DEF Keeps, Up
    <3>4. ASSUME pc[k] \in Waiting, NEW s, Keeps(k, s) PROVE Keeps(k, s)'
      BY <1>5, <3>3, <3>4 DEF Waiting
    <3> QED BY <1>1, <1>3, <2>1, <3>1, <3>2, <3>3, <3>4 DEF Kept, Waiting
  <2>5. Promised(k)'
    BY <1>1, <1>3, <1>5, <2>1 DEF Joining, Promised, Up, Committing, Accepted, Heard, Told
  <2>6. Acknowledged(k)'
    BY <1>1, <1>3, <1>5, <2>1 DEF Joining, Acknowledged, Up, Taken
  <2> QED BY <1>6, <2>2, <2>3, <2>4, <2>5, <2>6, RingStays DEF Joining
<1> QED
  BY <1>6, <1>7, RingStays DEF RingOf

LEMMA PredJoinAbrtKeepsRing ==
    ASSUME JoinInv, RingOf, NEW n \in Peers, NEW j \in Joiners, PredJoinAbrt(n, j), ~contested'
    PROVE  RingOf'
<1>1. /\ Running(n) /\ Takes(n, j, "PRED_JOIN_ABRT") /\ node[n].temp_predecessor \in {None, j}
      /\ pc' = pc /\ contact' = contact /\ answer' = answer
  BY DEF PredJoinAbrt, Meets, Takes
<1>2. \A m \in Peers : /\ node'[m].successor = node[m].successor
                       /\ node'[m].predecessor = node[m].predecessor
                       /\ node'[m].temp_successor = node[m].temp_successor
                       /\ m # n => node'[m].temp_predecessor = node[m].temp_predecessor
                       /\ Running(m)' <=> Running(m)
                       /\ node'[m].status # "ONE_RING"
  <2>1. node \in [Peers -> Node] /\ \A m \in Peers : node[m].status # "ONE_RING"
    BY DEF JoinInv, NodesOK, RingOf
  <2> QED BY <2>1 DEF PredJoinAbrt, Node, Running, Released
<1>3. \A k \in Joiners, m \in Peers : MailOK(k, m)
  BY DEF RingOf, Joining
<1>4. /\ pc[j] = "successor_failed"
      /\ \A k \in Joiners, m \in Peers :
                On(k, m)' = IF k = j /\ m = n THEN On(k, m) \ {"PRED_JOIN_ABRT"} ELSE On(k, m)
      /\ \A k \in Joiners, m \in Peers : Orderly(sent'[k][m])
  BY <1>1, <1>3, TakeMail DEF MailOK, Request
<1>5. SamePointers
  BY <1>1, <1>2, <1>4 DEF SamePointers, Taken
<1>6. ASSUME NEW k \in Joiners PROVE Joining(k)'
  <2>1. Joining(k) /\ k \in Peers /\ contact[k] \in Peers /\ k # None
    BY PeersAre DEF RingOf, JoinInv, ChannelsOK
  <2>2. ASSUME NEW m \in Peers PROVE MailOK(k, m)'
    BY <1>1, <1>2, <1>3, <1>4, <2>1 DEF MailOK, Unanswered
  <2>3. ASSUME NEW m \in Peers PROVE Fresh(m, k)'
    BY <1>1, <1>2, <1>4, <2>1 DEF Joining, Fresh, Taken, Committing
  <2>4. Kept(k)'
    BY <1>1, <1>2, <1>4, <2>1 DEF Joining, Kept, Keeps, Up, Committing
  <2>5. Promised(k)'
    <3>1. Promised(k) /\ (Accepted(k)' <=> Accepted(k)) /\ (Committing(k)' <=> Committing(k))
      BY <1>1, <1>4, <2>1 DEF Joining, Accepted, Heard, Committing
    <3>2. /\ node'[k].successor = node[k].successor /\ (Heard(k)' <=> Heard(k))
          /\ Told(k)' <=> Told(k)
      BY <1>1, <1>2, <1>4, <2>1 DEF Heard, Told
    <3>3. Accepted(k) \/ Told(k) => node[k].successor \in Peers /\ ~(k = j)
      BY <1>3, <1>4, <3>1 DEF Promised, Up, Told, MailOK, Accepted, Heard
    <3>4. Accepted(k) \/ Told(k) => node'[node[k].successor].temp_predecessor = k
      BY <1>1, <1>2, <2>1, <3>1, <3>3 DEF Promised
    <3> QED BY <1>5, <3>1, <3>2, <3>4, PromiseStays
  <2>6. Acknowledged(k)'
    BY <1>1, <1>2, <1>4, <2>1 DEF Joining, Acknowledged, Up, Taken
  <2> QED BY <1>5, <2>2, <2>3, <2>4, <2>5, <2>6, RingStays DEF Joining
<1> QED
  BY <1>5, <1>6, RingStays DEF RingOf

LEMMA OneRingJoinReqKeepsRing ==
    ASSUME JoinInv, RingOf, NEW n \in Peers, NEW j \in Joiners, OneRingJoinReq(n, j)
    PROVE  RingOf'
<1>1. /\ Takes(n, j, "ONE_RING_JOIN_REQ")
      /\ node' = node /\ pc' = pc /\ contact' = contact /\ answer' = answer
  BY DEF OneRingJoinReq, RingOf
<1>2. \A m \in Peers : Running(m)' <=> Running(m)
  BY <1>1 DEF Running
<1>3. \A k \in Joiners, m \in Peers : MailOK(k, m)
  BY DEF RingOf, Joining
<1>4. /\ \A k \in Joiners, m \in Peers :
                On(k, m)' = IF k = j /\ m = n THEN On(k, m) \ {"ONE_RING_JOIN_REQ"} ELSE On(k, m)
      /\ \A k \in Joiners, m \in Peers : Orderly(sent'[k][m])
  BY <1>1, <1>3, TakeMail DEF MailOK, Request
<1>5. SamePointers
  BY <1>1, <1>2, <1>4 DEF SamePointers, Taken, RingOf
<1>6. ASSUME NEW k \in Joiners PROVE Joining(k)'
  <2>1. Joining(k) /\ k \in Peers /\ contact[k] \in Peers /\ k # None
    BY PeersAre DEF RingOf, JoinInv, ChannelsOK
  <2>2. ASSUME NEW m \in Peers PROVE MailOK(k, m)'
    BY <1>1, <1>3, <1>4, <2>1 DEF MailOK, Unanswered
  <2>3. ASSUME NEW m \in Peers PROVE Fresh(m, k)'
    BY <1>1, <1>4, <2>1 DEF Joining, Fresh, Taken, Committing
  <2>4. Kept(k)'
    BY <1>1, <1>2, <1>4, <2>1 DEF Joining, Kept, Keeps, Up, Committing
  <2>5. Promised(k)'
    BY <1>1, <1>2, <1>4, <2>1 DEF Joining, Promised, Up, Committing, Accepted, Heard, Told
  <2>6. Acknowledged(k)'
    BY <1>1, <1>2, <1>4, <2>1 DEF Joining, Acknowledged, Up, Taken
  <2> QED BY <1>5, <2>2, <2>3, <2>4, <2>5, <2>6, RingStays DEF Joining
<1> QED
  BY <1>5, <1>6, RingStays DEF RingOf

LEMMA GetReqKeepsRing ==
    ASSUME JoinInv, RingOf, NEW n \in Peers, NEW j \in Joiners, GetReq(n, j), ~contested'
    PROVE  RingOf'
<1>1. /\ Running(n) /\ Takes(n, j, "GET_REQ") /\ node[n].temp_successor \in {None, j}
      /\ pc' = pc /\ contact' = contact
      /\ \A k \in Joiners : k # j => answer'[k] = answer[k]
      /\ pc[j] \notin Waiting => answer' = answer
  BY DEF GetReq, Meets, Takes, Reply, JoinInv, ChannelsOK
<1>2. \A m \in Peers : /\ node'[m].successor = node[m].successor
                       /\ node'[m].predecessor = node[m].predecessor
                       /\ node'[m].temp_predecessor = node[m].temp_predecessor
                       /\ node'[m].temp_successor = IF m = n THEN j ELSE node[m].temp_successor
                       /\ Running(m)' <=> Running(m)
                       /\ node'[m].status # "ONE_RING"
  <2>1. node \in [Peers -> Node] /\ \A m \in Peers : node[m].status # "ONE_RING"
    BY DEF JoinInv, NodesOK, RingOf
  <2> QED BY <2>1 DEF GetReq, Node, Running
<1>3. \A k \in Joiners, m \in Peers : MailOK(k, m)
  BY DEF RingOf, Joining
<1>4. /\ n = contact[j] /\ pc[j] \in {"get_ack", "predecessor_failed"}
      /\ \A k \in Joiners, m \in Peers :
                On(k, m)' = IF k = j /\ m = n THEN On(k, m) \ {"GET_REQ"} ELSE On(k, m)
      /\ \A k \in Joiners, m \in Peers : Orderly(sent'[k][m])
  BY <1>1, <1>3, TakeMail DEF MailOK, Unanswered, Request
<1>5. answer'[j].type = "GET_ACK" => answer'[j].successor = node[n].successor \/ pc[j] # "get_ack"
  <2>1. CASE pc[j] \in Waiting
    BY <2>1 DEF GetReq, Reply, JoinInv, ChannelsOK, Just
  <2>2. CASE pc[j] \notin Waiting
    BY <2>2 DEF Waiting
  <2> QED BY <2>1, <2>2
<1>6. SamePointers
  BY <1>1, <1>2, <1>4 DEF SamePointers, Taken
<1>7. ASSUME NEW k \in Joiners PROVE Joining(k)'
  <2>1. Joining(k) /\ k \in Peers /\ contact[k] \in Peers /\ k # None
    BY PeersAre DEF RingOf, JoinInv, ChannelsOK
  <2>2. ASSUME NEW m \in Peers PROVE MailOK(k, m)'
    BY <1>1, <1>2, <1>3, <1>4, <2>1 DEF MailOK, Unanswered
  <2>3. ASSUME NEW m \in Peers PROVE Fresh(m, k)'
    BY <1>1, <1>2, <1>4, <2>1 DEF Joining, Fresh, Taken, Committing
  <2>4. Kept(k)'
    <3>1. Kept(k) /\ (Committing(k)' <=> Committing(k))
      BY <1>1, <1>4, <2>1 DEF Joining, Committing
    <3>2. ASSUME NEW s, Keeps(k, s) PROVE Keeps(k, s)'
      BY <1>1, <1>2, <2>1, <3>2 DEF Keeps, Up
    <3>3. CASE k = j
      BY <1>1, <1>2, <1>4, <1>5, <2>1, <3>1, <3>2, <3>3 DEF Kept, Keeps, Up
    <3>4. CASE k # j
      BY <1>1, <1>2, <2>1, <3>1, <3>2, <3>4 DEF Kept
    <3> QED BY <3>3, <3>4
  <2>5. Promised(k)'
    BY <1>1, <1>2, <1>4, <2>1 DEF Joining, Promised, Up, Committing, Accepted, Heard, Told
  <2>6. Acknowledged(k)'
    BY <1>1, <1>2, <1>4, <2>1 DEF Joining, Acknowledged, Up, Taken
  <2> QED BY <1>6, <2>2, <2>3, <2>4, <2>5, <2>6, RingStays DEF Joining
<1> QED
  BY <1>6, <1>7, RingStays DEF RingOf

LEMMA JoinReqKeepsRing ==
    ASSUME JoinInv, RingOf, NEW n \in Peers, NEW j \in Joiners, JoinReq(n, j), ~contested'
    PROVE  RingOf'
<1>1. /\ Running(n) /\ Takes(n, j, "JOIN_REQ") /\ node[n].temp_predecessor \in {None, j}
      /\ pc' = pc /\ contact' = contact
      /\ \A k \in Joiners : k # j => answer'[k] = answer[k]
      /\ pc[j] \notin Waiting => answer' = answer
  BY DEF JoinReq, Meets, Takes, Reply, JoinInv, ChannelsOK
<1>2. \A m \in Peers : /\ node'[m].successor = node[m].successor
                       /\ node'[m].predecessor = node[m].predecessor
                       /\ node'[m].temp_successor = node[m].temp_successor
                       /\ node'[m].temp_predecessor = IF m = n THEN j ELSE node[m].temp_predecessor
                       /\ Running(m)' <=> Running(m)
                       /\ node'[m].status # "ONE_RING"
  <2>1. node \in [Peers -> Node] /\ \A m \in Peers : node[m].status # "ONE_RING"
    BY DEF JoinInv, NodesOK, RingOf
  <2> QED BY <2>1 DEF JoinReq, Node, Running
<1>3. \A k \in Joiners, m \in Peers : MailOK(k, m)
  BY DEF RingOf, Joining
<1>4. /\ n = node[j].successor /\ pc[j] \in {"join_ack1", "successor_failed"}
      /\ \A k \in Joiners, m \in Peers :
                On(k, m)' = IF k = j /\ m = n THEN On(k, m) \ {"JOIN_REQ"} ELSE On(k, m)
      /\ \A k \in Joiners, m \in Peers : Orderly(sent'[k][m])
  BY <1>1, <1>3, TakeMail DEF MailOK, Unanswered, Request
<1>5. SamePointers
  BY <1>1, <1>2, <1>4 DEF SamePointers, Taken
<1>6. ASSUME NEW k \in Joiners PROVE Joining(k)'
  <2>1. Joining(k) /\ k \in Peers /\ contact[k] \in Peers /\ k # None
    BY PeersAre DEF RingOf, JoinInv, ChannelsOK
  <2>2. ASSUME NEW m \in Peers PROVE MailOK(k, m)'
    BY <1>1, <1>2, <1>3, <1>4, <2>1 DEF MailOK, Unanswered
  <2>3. ASSUME NEW m \in Peers PROVE Fresh(m, k)'
    BY <1>1, <1>2, <1>4, <2>1 DEF Joining, Fresh, Taken, Committing
  <2>4. Kept(k)'
    BY <1>1, <1>2, <1>4, <2>1 DEF Joining, Kept, Keeps, Up, Committing
  <2>5. Promised(k)'
    <3>1. /\ Promised(k) /\ (Committing(k)' <=> Committing(k))
          /\ node'[k].successor = node[k].successor /\ (Told(k)' <=> Told(k))
      BY <1>1, <1>2, <1>4, <2>1 DEF Joining, Committing, Told
    <3>2. ASSUME "PRED_JOIN_CMT" \in On(contact[j], n), contact[j] \in Joiners PROVE FALSE
      <4>1. Told(contact[j]) /\ pc[contact[j]] = "success" /\ n = node[contact[j]].successor
        BY <1>3, <3>2 DEF Told, MailOK
      <4>2. node[n].temp_predecessor = contact[j] /\ contact[j] # None
        BY <3>2, <4>1, PeersAre DEF RingOf, Joining, Promised
      <4> QED BY <1>1, <1>4, <4>1, <4>2
    <3>3. CASE k = j
      BY <1>1, <1>2, <1>4, <2>1, <3>1, <3>2, <3>3 DEF Promised, Up, Accepted, Heard
    <3>4. CASE k # j
      <4>1. (Accepted(k)' <=> Accepted(k)) /\ (Heard(k)' <=> Heard(k))
        BY <1>1, <3>4 DEF Accepted, Heard
      <4>2. Accepted(k) \/ Told(k) => node[k].successor \in Peers /\ node[k].successor # n
        BY <1>1, <2>1, <3>1, <3>4 DEF Promised, Up, Told
      <4>3. Accepted(k) \/ Told(k) => node'[node[k].successor].temp_predecessor = k
        BY <1>2, <2>1, <3>1, <4>2 DEF Promised
      <4> QED BY <1>5, <3>1, <4>1, <4>3, PromiseStays
    <3> QED BY <3>3, <3>4
  <2>6. Acknowledged(k)'
    BY <1>1, <1>2, <1>4, <2>1 DEF Joining, Acknowledged, Up, Taken
  <2> QED BY <1>5, <2>2, <2>3, <2>4, <2>5, <2>6, RingStays DEF Joining
<1> QED
  BY <1>5, <1>6, RingStays DEF RingOf

-------------------------------------------------------------------------------
(* The steps of a member that set its pointers *)

LEMMA PredJoinCmtKeepsRing ==
    ASSUME JoinInv, RingOf, NEW n \in Peers, NEW j \in Joiners, PredJoinCmt(n, j), ~contested'
    PROVE  RingOf'
<1>1. /\ Running(n) /\ Takes(n, j, "PRED_JOIN_CMT")
      /\ pc' = pc /\ contact' = contact /\ answer' = answer
  BY DEF PredJoinCmt, Takes
<1>2. \A k \in Joiners, m \in Peers : MailOK(k, m)
  BY DEF RingOf, Joining
<1>3. /\ pc[j] = "success" /\ n = node[j].successor
      /\ "PRED_JOIN_CMT" \in On(j, n)
      /\ \A k \in Joiners, m \in Peers :
                On(k, m)' = IF k = j /\ m = n THEN On(k, m) \ {"PRED_JOIN_CMT"} ELSE On(k, m)
      /\ \A k \in Joiners, m \in Peers : Orderly(sent'[k][m])
  BY <1>1, <1>2, TakeMail DEF MailOK, Request
<1>4. node[n].temp_predecessor = j
  BY <1>3 DEF RingOf, Joining, Promised, Told
<1>5. \A m \in Peers : /\ node'[m].successor = node[m].successor
                       /\ node'[m].predecessor = IF m = n THEN j ELSE node[m].predecessor
                       /\ node'[m].temp_successor = node[m].temp_successor
                       /\ m # n => node'[m].temp_predecessor = node[m].temp_predecessor
                       /\ Running(m)' <=> Running(m)
                       /\ node'[m].status # "ONE_RING"
  <2>1. node \in [Peers -> Node] /\ \A m \in Peers : node[m].status # "ONE_RING"
    BY DEF JoinInv, NodesOK, RingOf
  <2> QED BY <1>4, <2>1 DEF PredJoinCmt, Node, Running, Released
<1>6. ASSUME NEW k \in Joiners PROVE Joining(k)'
  <2>1. Joining(k) /\ k \in Peers /\ contact[k] \in Peers /\ k # None
    BY PeersAre DEF RingOf, JoinInv, ChannelsOK
  <2>2. ASSUME NEW m \in Peers PROVE MailOK(k, m)'
    BY <1>1, <1>2, <1>3, <1>5, <2>1 DEF MailOK, Unanswered
  <2>3. ASSUME NEW m \in Peers PROVE Fresh(m, k)'
    BY <1>1, <1>3, <1>5, <2>1 DEF Joining, Fresh, Taken, Committing
  <2>4. Kept(k)'
    BY <1>1, <1>3, <1>5, <2>1 DEF Joining, Kept, Keeps, Up, Committing
  <2>5. Promised(k)'
    <3>1. /\ Promised(k) /\ (Accepted(k)' <=> Accepted(k)) /\ (Committing(k)' <=> Committing(k))
          /\ Heard(k)' <=> Heard(k)
      BY <1>1, <1>3, <2>1 DEF Joining, Accepted, Heard, Committing
    <3>2. Told(k)' => Told(k) /\ k # j
      BY <1>1, <1>3, <1>5, <2>1 DEF Told
    <3>3. Accepted(k) => k # j
      BY <1>3 DEF Accepted, Heard
    <3>4. Accepted(k) \/ Told(k)' => node'[node[k].successor].temp_predecessor = k
      BY <1>4, <1>5, <2>1, <3>1, <3>2, <3>3 DEF Promised, Up, Told
    <3>5. Accepted(k) \/ Committing(k) =>
            \E s \in Peers : s = node[k].successor /\ Running(s) /\ Running(s)'
      BY <1>5, <3>1 DEF Promised, Up
    <3>6. ASSUME contact[k] \in Joiners, Heard(k) \/ Committing(k)
          PROVE  \E c \in Joiners, s \in Peers : /\ c = contact[k] /\ s = node[k].successor
                                                 /\ "PRED_JOIN_CMT" \notin On(c, s)
                                                 /\ "PRED_JOIN_CMT" \notin On(c, s)'
      BY <1>3, <3>1, <3>5, <3>6 DEF Promised, Up, Accepted
    <3>7. node'[k].successor = node[k].successor
      BY <1>5, <2>1
    <3>8. Accepted(k)' \/ Committing(k)' => Up(node[k].successor)'
      BY <3>1, <3>5, <3>7 DEF Up, Running
    <3> QED BY <1>1, <3>1, <3>4, <3>6, <3>7, <3>8 DEF Promised, On
  <2>6. Acknowledged(k)'
    BY <1>1, <1>3, <1>5, <2>1 DEF Joining, Acknowledged, Up, Taken
  <2>7. Starting(k)'
    BY <1>1, <1>5, <2>1 DEF Joining, Starting
  <2> QED BY <2>2, <2>3, <2>4, <2>5, <2>6, <2>7 DEF Joining
<1>7. ASSUME NEW m \in Peers PROVE Linked(m)'
  <2>1. Linked(m)
    BY DEF RingOf
  <2>2. SUFFICES ASSUME Running(m) PROVE Linked(m)'
    BY <1>5 DEF Linked
  <2>3. node[m].successor \in Peers /\ node'[m].successor = node[m].successor
    BY <1>5, <2>1, <2>2, PeersAre DEF Linked, Up
  <2>4. node[m].successor \notin Joiners => Up(node[m].successor)'
    <3>1. PICK v \in Peers : v = node[m].successor /\ v = node'[m].successor
      BY <2>3
    <3>2. v \notin Joiners => Running(v)'
      BY <1>5, <2>1, <2>2, <3>1 DEF Linked, Up
    <3> QED BY <3>1, <3>2 DEF Up, Running
  <2>5. node[m].successor = n => m = j
    <3>1. Running(j) /\ j \in Peers
      BY <1>3, PeersAre DEF RingOf, Joining, Starting
    <3> QED BY <1>3, <2>2, <3>1 DEF RingOf, Distinct, InRing
  <2>6. m \in Joiners /\ Told(m) /\ m # j => Told(m)'
    BY <1>3, <2>3 DEF Told
  <2>7. \/ node'[node'[m].successor].predecessor = m
        \/ m \in Joiners /\ Told(m)'
    BY <1>3, <1>5, <2>1, <2>2, <2>3, <2>5, <2>6 DEF Linked
  <2>8. node'[m].predecessor \in Joiners => pc'[node'[m].predecessor] = "success"
    BY <1>1, <1>3, <1>5, <2>1, <2>2 DEF Linked
  <2> QED BY <2>3, <2>4, <2>7, <2>8 DEF Linked
<1>8. Distinct'
  BY <1>1, <1>5 DEF RingOf, Distinct, InRing, Taken
<1>9. Cycle'
  BY <1>1, <1>5, CycleStays
<1> QED
  BY <1>5, <1>6, <1>7, <1>8, <1>9 DEF RingOf

LEMMA JoinCmtKeepsRing ==
    ASSUME JoinInv, RingOf, NEW n \in Peers, NEW j \in Joiners, JoinCmt(n, j), ~contested'
    PROVE  RingOf'
<1>1. /\ Running(n) /\ Takes(n, j, "JOIN_CMT") /\ pc' = pc /\ contact' = contact
      /\ \A k \in Joiners : k # j => answer'[k] = answer[k]
      /\ pc[j] \in Waiting => answer'[j].type = "JOIN_ACK2"
      /\ pc[j] \notin Waiting => answer' = answer
  BY DEF JoinCmt, Takes, Reply, Just, JoinInv, ChannelsOK
<1>2. \A k \in Joiners, m \in Peers : MailOK(k, m)
  BY DEF RingOf, Joining
<1>3. /\ n = contact[j] /\ "JOIN_CMT" \in On(j, n)
      /\ Unanswered(j, "join_ack2", "successor_failed")
      /\ \A k \in Joiners, m \in Peers :
                On(k, m)' = IF k = j /\ m = n THEN On(k, m) \ {"JOIN_CMT"} ELSE On(k, m)
      /\ \A k \in Joiners, m \in Peers : Orderly(sent'[k][m])
  BY <1>1, <1>2, TakeMail DEF MailOK, Request
<1>4. PICK s \in Peers : /\ s = node[j].successor /\ s = node[n].successor /\ Running(s)
                         /\ node[n].temp_successor = j
                         /\ n \in Joiners => "PRED_JOIN_CMT" \notin On(n, s)
  BY <1>3 DEF RingOf, Joining, Kept, Keeps, Promised, Up, Committing
<1>5. /\ j \in Peers /\ pc[j] \in {"join_ack2", "successor_failed"} /\ ~Running(j)
      /\ j # n /\ j # s /\ j # None
      /\ pc[j] = "join_ack2" => ~Taken(j)
  BY <1>1, <1>3, <1>4, PeersAre DEF Unanswered, Taken, RingOf, Joining, Starting
<1>6. \A m \in Peers : /\ node'[m].successor = IF m = n THEN j ELSE node[m].successor
                       /\ node'[m].predecessor = node[m].predecessor
                       /\ m # n => node'[m].temp_successor = node[m].temp_successor
                       /\ node'[m].temp_predecessor = node[m].temp_predecessor
                       /\ Running(m)' <=> Running(m)
                       /\ node'[m].status # "ONE_RING"
  <2>1. node \in [Peers -> Node] /\ \A m \in Peers : node[m].status # "ONE_RING"
    BY DEF JoinInv, NodesOK, RingOf
  <2> QED BY <1>4, <2>1 DEF JoinCmt, Node, Running, Released
<1>7. \A m \in Peers : node[m].successor # j
  BY <1>3 DEF RingOf, Joining, Fresh, Committing
<1>8. ASSUME NEW k \in Joiners, Running(k) \/ k = n
      PROVE  /\ pc[k] = "success" /\ k # j
  BY <1>1, <1>5, <1>8 DEF RingOf, Joining, Starting
<1>9. ASSUME NEW k \in Joiners PROVE Joining(k)'
  <2>1. Joining(k) /\ k \in Peers /\ contact[k] \in Peers /\ k # None
    BY PeersAre DEF RingOf, JoinInv, ChannelsOK
  <2>2. ASSUME NEW m \in Peers PROVE MailOK(k, m)'
    <3>1. CASE k = n
      BY <1>1, <1>2, <1>3, <1>4, <1>5, <1>6, <1>8, <3>1 DEF MailOK, Unanswered
    <3>2. CASE k = j
      BY <1>1, <1>2, <1>3, <1>5, <1>6, <3>2 DEF MailOK, Unanswered
    <3>3. CASE k # n /\ k # j
      BY <1>1, <1>2, <1>3, <1>6, <2>1, <3>3 DEF MailOK, Unanswered
    <3> QED BY <3>1, <3>2, <3>3
  <2>3. Committing(k)' <=> Committing(k) /\ k # j
    BY <1>1, <1>3, <2>1 DEF Committing
  <2>4. ASSUME NEW m \in Peers PROVE Fresh(m, k)'
    <3>1. CASE m = n
      BY <1>1, <1>5, <1>6, <2>3, <3>1 DEF Fresh, Taken, Waiting
    <3>2. CASE m # n
      BY <1>1, <1>6, <1>7, <2>1, <2>3, <3>2 DEF Joining, Fresh, Taken
    <3> QED BY <3>1, <3>2
  <2>5. Kept(k)'
    <3>1. CASE k = j
      BY <1>1, <1>5, <2>3, <3>1 DEF Kept
    <3>2. CASE k # j
      <4>1. Kept(k) /\ answer'[k] = answer[k]
        BY <1>1, <2>1, <3>2 DEF Joining
      <4>2. ASSUME NEW v, Keeps(k, v) PROVE Keeps(k, v)'
        <5>1. contact[k] # n
          BY <1>4, <3>2, <4>2 DEF Keeps
        <5> QED BY <1>1, <1>6, <2>1, <4>2, <5>1 DEF Keeps, Up
      <4>3. pc[k] = "join_ack1" \/ Committing(k) => node'[k].successor = node[k].successor
        BY <1>2, <1>6, <1>8, <2>1 DEF Committing, MailOK, Unanswered
      <4> QED BY <1>1, <2>3, <4>1, <4>2, <4>3 DEF Kept
    <3> QED BY <3>1, <3>2
  <2>6. Promised(k)'
    <3>1. Promised(k)
      BY <2>1 DEF Joining
    <3>2. CASE k = n
      <4>1. ~Accepted(k)' /\ ~Heard(k)' /\ ~Committing(k)'
        BY <1>1, <1>2, <1>8, <2>1, <2>3, <3>2 DEF Accepted, Heard, Committing, MailOK, Unanswered
      <4>2. "PRED_JOIN_CMT" \notin On(n, j) /\ node'[n].successor = j
        BY <1>2, <1>5, <1>6, <1>7, <2>1, <3>2 DEF MailOK
      <4>3. "PRED_JOIN_CMT" \notin On(n, j)'
        BY <1>3, <1>5, <2>1, <3>2, <4>2
      <4>4. ~Told(n)'
        BY <4>2, <4>3 DEF Told, On
      <4> QED BY <3>2, <4>1, <4>4 DEF Promised
    <3>3. CASE k # n
      <4>1. node'[k].successor = node[k].successor
        BY <1>6, <2>1, <3>3
      <4>2. Told(k)' <=> Told(k)
        BY <1>3, <2>1, <4>1 DEF Told
      <4>3. (Accepted(k)' => Accepted(k)) /\ (Heard(k)' => Heard(k))
        BY <1>1, <1>5 DEF Accepted, Heard
      <4>4. Accepted(k) \/ Told(k) => node'[node[k].successor].temp_predecessor = k
        BY <1>6, <3>1 DEF Promised, Up, Told
      <4>5. Accepted(k) \/ Committing(k) => \E v \in Peers : v = node[k].successor /\ Running(v)'
        BY <1>6, <3>1 DEF Promised, Up
      <4>6. ASSUME contact[k] \in Joiners, Heard(k) \/ Committing(k)
            PROVE  \E c \in Joiners, v \in Peers : /\ c = contact[k] /\ v = node[k].successor
                                                   /\ "PRED_JOIN_CMT" \notin On(c, v)'
        BY <1>3, <3>1, <4>5, <4>6 DEF Promised, Accepted
      <4>7. Accepted(k)' \/ Committing(k)' => Up(node[k].successor)'
        BY <2>3, <4>1, <4>3, <4>5 DEF Up, Running
      <4> QED BY <1>1, <2>3, <4>1, <4>2, <4>3, <4>4, <4>6, <4>7 DEF Promised, On
    <3> QED BY <3>2, <3>3
  <2>7. Acknowledged(k)'
    <3>1. CASE k = j
      BY <1>1, <1>3, <1>6, <3>1 DEF Acknowledged, Taken, Up, Waiting
    <3>2. CASE k # j
      <4>1. SUFFICES ASSUME Taken(k) PROVE Acknowledged(k)'
        BY <1>1, <3>2 DEF Acknowledged, Taken
      <4>2. contact[k] # n
        <5>1. contact[k] = n => s = k
          BY <1>4, <2>1, <4>1 DEF Joining, Acknowledged
        <5> QED BY <1>4, <1>8, <4>1, <5>1 DEF Taken
      <4> QED BY <1>1, <1>6, <2>1, <3>2, <4>1, <4>2 DEF Joining, Acknowledged, Taken, Up
    <3> QED BY <3>1, <3>2
  <2>8. Starting(k)'
    BY <1>1, <1>6, <1>8, <2>1 DEF Joining, Starting
  <2> QED BY <2>2, <2>4, <2>5, <2>6, <2>7, <2>8 DEF Joining
<1>10. ASSUME NEW m \in Peers PROVE Linked(m)'
  <2>1. Linked(m)
    BY DEF RingOf
  <2>2. SUFFICES ASSUME Running(m) PROVE Linked(m)'
    BY <1>6 DEF Linked
  <2>3. node'[m].predecessor \in Joiners => pc'[node'[m].predecessor] = "success"
    BY <1>1, <1>6, <2>1, <2>2 DEF Linked
  <2>4. CASE m = n
    <3>1. node'[n].successor = j /\ node'[j].predecessor = n
      BY <1>3, <1>5, <1>6 DEF RingOf, Joining, Starting
    <3> QED BY <2>3, <2>4, <3>1 DEF Linked
  <2>5. CASE m # n
    <3>1. node'[m].successor = node[m].successor /\ node[m].successor \in Peers
      BY <1>6, <2>1, <2>2, <2>5, PeersAre DEF Linked, Up
    <3>2. node[m].successor \notin Joiners => Up(node[m].successor)'
      <4>1. PICK v \in Peers : v = node[m].successor /\ v = node'[m].successor
        BY <3>1
      <4>2. v \notin Joiners => Running(v)'
        BY <1>6, <2>1, <2>2, <4>1 DEF Linked, Up
      <4> QED BY <4>1, <4>2 DEF Up, Running
    <3>3. m \in Joiners /\ Told(m) => Told(m)'
      BY <1>3, <3>1 DEF Told
    <3>4. \/ node'[node'[m].successor].predecessor = m
          \/ m \in Joiners /\ Told(m)'
      BY <1>6, <2>1, <2>2, <3>1, <3>3 DEF Linked
    <3> QED BY <2>3, <3>1, <3>2, <3>4 DEF Linked
  <2> QED BY <2>4, <2>5
<1>11. Distinct'
  <2>1. \A m \in Peers : InRing(m)' => InRing(m) \/ m = j
    BY <1>1, <1>6 DEF InRing, Taken
  <2>2. \A m \in Peers : InRing(m) /\ node[m].successor = s => m = n
    BY <1>1, <1>4 DEF RingOf, Distinct, InRing
  <2> SUFFICES ASSUME NEW l \in Peers, NEW m \in Peers, InRing(l)', InRing(m)',
                      node'[l].successor = node'[m].successor
               PROVE  l = m
    BY DEF Distinct
  <2>3. CASE l = n \/ m = n
    BY <1>4, <1>5, <1>6, <1>7, <2>3
  <2>4. CASE l # n /\ m # n
    <3>1. node[l].successor = node[m].successor
      BY <1>6, <2>4
    <3>2. CASE l = j \/ m = j
      BY <1>4, <2>1, <2>2, <2>4, <3>1, <3>2
    <3>3. CASE l # j /\ m # j
      BY <2>1, <3>1, <3>3 DEF RingOf, Distinct
    <3> QED BY <3>2, <3>3
  <2> QED BY <2>3, <2>4
<1>12. Cycle'
  <2>1. Members' = Members /\ Members \subseteq Peers /\ n \in Members
    BY <1>1, <1>6 DEF Members
  <2>2. SUFFICES ASSUME NoOrphan', NEW R \in SUBSET Peers, Shut(R)', R \intersect Members # {}
                 PROVE  Members \subseteq R
    BY <2>1 DEF Cycle
  <2>3. NoOrphan
    <3> SUFFICES ASSUME NEW m \in Members, node[m].successor \in Joiners
                 PROVE  pc[node[m].successor] \notin Failed
      BY DEF NoOrphan
    <3>1. CASE m = n
      BY <1>4, <1>8, <3>1 DEF Failed
    <3>2. CASE m # n
      <4>1. node'[m].successor = node[m].successor /\ m \in Members'
        BY <1>6, <2>1, <3>2
      <4> QED BY <1>1, <2>2, <4>1 DEF NoOrphan
    <3> QED BY <3>1, <3>2
  <2>4. \A m \in R : node'[m].successor \in R \union {None}
    BY <2>2 DEF Shut
  <2>5. n \in R => s \in R
    <3>1. node'[n].successor = j /\ node'[j].successor = s
      BY <1>4, <1>5, <1>6
    <3>2. j # None /\ s # None
      BY <1>5, PeersAre
    <3> QED BY <2>4, <3>1, <3>2
  <2>6. Shut(R)
    BY <1>4, <1>6, <2>4, <2>5 DEF Shut
  <2> QED BY <2>2, <2>3, <2>6 DEF RingOf, Cycle
<1> QED
  BY <1>6, <1>9, <1>10, <1>11, <1>12 DEF RingOf

-------------------------------------------------------------------------------
(* The steps of a joiner *)

(* What every step of p2pm_join leaves alone: it writes to its own node, and *)
(* sends its own requests.                                                   *)
OwnStep(j) ==
    /\ pc[j] \in {"new"} \union Waiting
    /\ contact' = contact
    /\ \A k \in Joiners : k # j => pc'[k] = pc[k] /\ answer'[k] = answer[k]
    /\ answer'[j].type = "none"
    /\ \A m \in Peers : m # j => node'[m] = node[m]
    /\ node'[j].predecessor = node[j].predecessor
    /\ node'[j].temp_predecessor = node[j].temp_predecessor
    /\ node'[j].status # "ONE_RING"
    /\ \A k \in Joiners, m \in Peers :
         /\ k # j => On(k, m)' = On(k, m)
         /\ Orderly(sent[k][m]) => Orderly(sent'[k][m])

LEMMA OthersStay ==
    ASSUME JoinInv, RingOf, NEW j \in Joiners, OwnStep(j),
           \A k \in Joiners : k # j => Fresh(j, k)',
           Running(j)' => Taken(j) /\ node'[j].successor = node[j].successor
    PROVE  /\ \A k \in Joiners : k # j => Joining(k)'
           /\ \A m \in Peers : m # j => Linked(m)'
           /\ Distinct'
           /\ \A m \in Peers : m # j => (Running(m)' <=> Running(m))
           /\ \A m \in Peers : node'[m].status # "ONE_RING"
<1>0. ~Running(j) /\ j \in Peers /\ pc[j] # "success"
  BY PeersAre DEF JoinInv, NodesOK, OwnStep, Waiting
<1>1. \A m \in Peers : m # j => (Running(m)' <=> Running(m))
  BY DEF OwnStep, Running
<1>2. ASSUME NEW k \in Joiners, k # j PROVE Joining(k)'
  <2>1. Joining(k) /\ k \in Peers /\ contact[k] \in Peers
    BY PeersAre DEF RingOf, JoinInv, ChannelsOK
  <2>2. /\ pc'[k] = pc[k] /\ answer'[k] = answer[k] /\ node'[k] = node[k]
        /\ contact'[k] = contact[k]
        /\ \A m \in Peers : On(k, m)' = On(k, m)
    BY <1>2, <2>1 DEF OwnStep
  <2>3. ASSUME NEW m \in Peers PROVE MailOK(k, m)'
    BY <2>1, <2>2, <2>3 DEF OwnStep, Joining, MailOK, Unanswered
  <2>4. (Committing(k)' <=> Committing(k)) /\ (Told(k)' <=> Told(k))
    BY <2>1, <2>2 DEF Committing, Told
  <2>5. ASSUME NEW m \in Peers PROVE Fresh(m, k)'
    <3>1. CASE m = j
      BY <1>2, <3>1
    <3>2. CASE m # j
      BY <2>1, <2>2, <2>4, <3>2 DEF OwnStep, Joining, Fresh, Taken
    <3> QED BY <3>1, <3>2
  <2>6. ASSUME Up(contact[k]) PROVE /\ contact[k] # j /\ node'[contact[k]] = node[contact[k]]
                                    /\ Running(contact[k])'
    <3>1. PICK c \in Peers : c = contact[k] /\ Running(c)
      BY <2>6 DEF Up
    <3>2. c # j /\ node'[c] = node[c] /\ Running(c)'
      BY <1>0, <1>1, <3>1 DEF OwnStep
    <3> QED BY <2>2, <3>1, <3>2 DEF Running
  <2>7. ASSUME NEW v, Keeps(k, v) PROVE Keeps(k, v)'
    BY <2>1, <2>2, <2>6, <2>7 DEF Keeps, Up
  <2>8. Kept(k)'
    BY <2>1, <2>2, <2>4, <2>7 DEF Joining, Kept
  <2>9. Promised(k)'
    <3>1. Promised(k) /\ (Accepted(k)' <=> Accepted(k)) /\ (Heard(k)' <=> Heard(k))
      BY <2>1, <2>2 DEF Joining, Accepted, Heard
    <3>2. Accepted(k) \/ Told(k) => node'[node[k].successor].temp_predecessor = k
      BY <3>1 DEF OwnStep, Promised, Up, Told
    <3>3. Accepted(k) \/ Committing(k) => \E v \in Peers : v = node[k].successor /\ Running(v)'
      BY <1>0, <1>1, <3>1 DEF Promised, Up
    <3>4. ASSUME contact[k] \in Joiners, Heard(k) \/ Committing(k)
          PROVE  \E c \in Joiners, v \in Peers : /\ c = contact[k] /\ v = node[k].successor
                                                 /\ "PRED_JOIN_CMT" \notin On(c, v)'
      <4>1. PICK c \in Joiners, v \in Peers : /\ c = contact[k] /\ v = node[k].successor
                                              /\ "PRED_JOIN_CMT" \notin On(c, v)
        BY <3>1, <3>3, <3>4 DEF Promised, Accepted
      <4>2. Up(c)
        BY <2>1, <3>4, <4>1 DEF Joining, Kept, Keeps, Heard
      <4>3. c # j
        BY <1>0, <4>2 DEF Up
      <4> QED BY <4>1, <4>3 DEF OwnStep
    <3>5. Accepted(k)' \/ Committing(k)' => Up(node[k].successor)'
      BY <2>2, <2>4, <3>1, <3>3 DEF Up, Running
    <3> QED BY <2>2, <2>4, <3>1, <3>2, <3>4, <3>5 DEF Promised, On
  <2>10. Acknowledged(k)'
    BY <2>1, <2>2, <2>6 DEF Joining, Acknowledged, Taken, Up
  <2>11. Starting(k)'
    BY <1>1, <1>2, <2>1, <2>2 DEF Joining, Starting
  <2> QED BY <2>3, <2>5, <2>8, <2>9, <2>10, <2>11 DEF Joining
<1>3. ASSUME NEW m \in Peers, m # j PROVE Linked(m)'
  <2>1. Linked(m) /\ node'[m] = node[m]
    BY <1>3 DEF RingOf, OwnStep
  <2>2. SUFFICES ASSUME Running(m) PROVE Linked(m)'
    BY <1>1, <1>3 DEF Linked
  <2>3. PICK v \in Peers : v = node[m].successor
    BY <2>1, <2>2, PeersAre DEF Linked, Up
  <2>4. v \notin Joiners => Up(node[m].successor)'
    <3>1. v \notin Joiners => Running(v)'
      BY <1>1, <2>1, <2>2, <2>3 DEF Linked, Up
    <3> QED BY <2>1, <2>3, <3>1 DEF Up, Running
  <2>5. node'[v].predecessor = node[v].predecessor
    BY <2>3 DEF OwnStep
  <2>6. m \in Joiners /\ Told(m) => Told(m)'
    BY <1>3, <2>1, <2>3 DEF Told, OwnStep
  <2>7. node[m].predecessor \in Joiners => pc'[node[m].predecessor] = "success"
    BY <1>0, <2>1, <2>2 DEF Linked, OwnStep
  <2> QED BY <2>1, <2>2, <2>3, <2>4, <2>5, <2>6, <2>7 DEF Linked
<1>4. Distinct'
  <2>1. \A m \in Peers : m # j /\ InRing(m)' => InRing(m) /\ node'[m].successor = node[m].successor
    BY <1>1 DEF InRing, Taken, OwnStep
  <2>2. ~Taken(j)'
    BY DEF Taken, OwnStep
  <2>3. InRing(j)' => InRing(j) /\ node'[j].successor = node[j].successor
    BY <2>2 DEF InRing
  <2> QED BY <2>1, <2>3 DEF RingOf, Distinct, InRing
<1>5. \A m \in Peers : node'[m].status # "ONE_RING"
  BY DEF RingOf, OwnStep
<1> QED
  BY <1>1, <1>2, <1>3, <1>4, <1>5
(* A joiner that gives up leaves the ring as it is.                          *)
LEMMA GiveUp ==
    ASSUME JoinInv, RingOf, NEW j \in Joiners, OwnStep(j),
           node' = Destroyed(j), pc'[j] \in Failed \union {"need_one_ring"},
           pc[j] = "join_ack2" => pc'[j] = "successor_failed",
           \A m \in Peers : /\ MailOK(j, m)'
                            /\ "JOIN_CMT" \in On(j, m)' <=> "JOIN_CMT" \in On(j, m)
    PROVE  RingOf'
<1>1. /\ Joining(j) /\ j \in Peers /\ contact[j] \in Peers
      /\ pc[j] \notin Failed \union {"success"}
      /\ pc'[j] \notin {"new", "success", "join_ack2"} \union Waiting
  BY PeersAre DEF RingOf, JoinInv, ChannelsOK, OwnStep, Waiting, Failed
<1>2. /\ node'[j].successor = node[j].successor /\ node'[j].predecessor = node[j].predecessor
      /\ ~Running(j) /\ ~Running(j)'
  BY <1>1 DEF JoinInv, NodesOK, Destroyed, Joining, Starting, Running, Node
<1>3. \A k \in Joiners : Fresh(j, k) /\ (k # j => (Committing(k)' <=> Committing(k)))
  BY <1>1 DEF RingOf, Joining, Committing, OwnStep, JoinInv, ChannelsOK
<1>4. \A k \in Joiners : k # j => Fresh(j, k)'
  BY <1>2, <1>3 DEF Fresh, Taken, OwnStep
<1>5. /\ \A k \in Joiners : k # j => Joining(k)'
      /\ \A m \in Peers : m # j => Linked(m)'
      /\ Distinct'
      /\ \A m \in Peers : m # j => (Running(m)' <=> Running(m))
      /\ \A m \in Peers : node'[m].status # "ONE_RING"
  BY <1>2, <1>4, OthersStay
<1>6. Cycle'
  <2>1. \A m \in Peers : /\ node'[m].successor = node[m].successor
                         /\ Running(m)' <=> Running(m)
    BY <1>2, <1>5 DEF OwnStep
  <2>2. \A k \in Joiners : pc[k] \in Failed => pc'[k] \in Failed
    BY <1>1 DEF OwnStep
  <2> QED BY <2>1, <2>2, CycleStays
<1>7. Joining(j)'
  <2>1. Committing(j)' <=> Committing(j)
    BY <1>1 DEF Committing, OwnStep
  <2>2. ASSUME NEW m \in Peers PROVE Fresh(m, j)'
    <3>1. node'[m].successor = node[m].successor
      BY <1>2 DEF OwnStep
    <3>2. node[m].successor = j => pc[j] = "join_ack2" /\ ~Committing(j)
      BY <1>1 DEF Joining, Fresh, Failed
    <3> QED BY <2>1, <3>1, <3>2 DEF Fresh, Taken
  <2>3. ASSUME Committing(j)
        PROVE  \E c \in Peers : /\ c = contact[j] /\ c # j /\ Running(c) /\ node'[c] = node[c]
                                /\ node[c].temp_successor = j
                                /\ node[c].successor = node[j].successor
    BY <1>1, <1>2, <2>3 DEF Joining, Kept, Keeps, Up, OwnStep
  <2>4. Kept(j)'
    <3>1. SUFFICES ASSUME Committing(j) PROVE Keeps(j, node[j].successor)'
      BY <1>1, <2>1 DEF Kept, Waiting
    <3>2. contact' = contact
      BY DEF OwnStep
    <3> QED BY <1>2, <2>3, <3>1, <3>2 DEF Keeps, Up, Running
  <2>5. Promised(j)'
    <3>1. ~Accepted(j)' /\ ~Heard(j)' /\ ~Told(j)'
      BY <1>1 DEF Accepted, Heard, Told, Waiting, MailOK, On
    <3>2. ASSUME Committing(j)
          PROVE  \E s \in Peers : /\ s = node[j].successor /\ s # j /\ Running(s) /\ node'[s] = node[s]
      BY <1>1, <1>2, <3>2 DEF Joining, Promised, Up, OwnStep
    <3>3. ASSUME Committing(j) PROVE Up(node[j].successor)'
      BY <1>2, <3>2, <3>3 DEF Up, Running
    <3>4. ASSUME Committing(j), contact[j] \in Joiners
          PROVE  "PRED_JOIN_CMT" \notin On(contact[j], node[j].successor)'
      <4>1. PICK c \in Joiners, s \in Peers : c = contact[j] /\ s = node[j].successor /\ c # j
        BY <2>3, <3>2, <3>4
      <4>2. "PRED_JOIN_CMT" \notin On(c, s)
        BY <1>1, <3>4, <4>1 DEF Joining, Promised
      <4>3. "PRED_JOIN_CMT" \notin On(c, s)'
        BY <4>1, <4>2 DEF OwnStep
      <4>4. contact'[j] = c /\ node'[j].successor = s
        BY <1>2, <4>1 DEF OwnStep
      <4> QED BY <4>3, <4>4 DEF On
    <3> QED BY <2>1, <3>1, <3>3, <3>4 DEF Promised, OwnStep
  <2>6. Acknowledged(j)'
    BY <1>1 DEF Acknowledged, Taken, Waiting
  <2>7. Starting(j)'
    BY <1>1, <1>2 DEF Joining, Starting, OwnStep, Waiting
  <2> QED BY <2>2, <2>4, <2>5, <2>6, <2>7 DEF Joining
<1>8. Linked(j)'
  BY <1>2 DEF Linked
<1> QED BY <1>5, <1>6, <1>7, <1>8 DEF RingOf

LEMMA WaitsFor ==
    ASSUME JoinInv, NEW j \in Joiners, NEW next, WaitFor(j, next)
    PROVE  /\ \A k \in Joiners : /\ pc'[k] = IF k = j THEN next ELSE pc[k]
                                 /\ k # j => answer'[k] = answer[k]
           /\ answer'[j].type = "none"
  BY DEF JoinInv, ChannelsOK, WaitFor, Just

LEMMA DestroyedNode ==
    ASSUME JoinInv, NEW j \in Joiners, node' = Destroyed(j)
    PROVE  /\ \A m \in Peers : m # j => node'[m] = node[m]
           /\ node'[j].status = "OFF"
           /\ node'[j].predecessor = node[j].predecessor
           /\ node'[j].successor = node[j].successor
           /\ node'[j].temp_predecessor = node[j].temp_predecessor
<1>1. node \in [Peers -> Node] /\ j \in Peers
  BY PeersAre DEF JoinInv, NodesOK
<1> QED BY <1>1 DEF Destroyed, Node

LEMMA PredecessorConnectedKeepsRing ==
    ASSUME JoinInv, RingOf, NEW j \in Joiners, pc[j] \in {"new", "get_ack"},
           PredecessorConnected(j), UNCHANGED contact
    PROVE  RingOf'
<1>1. /\ \A k \in Joiners : /\ pc'[k] = IF k = j THEN "predecessor_failed" ELSE pc[k]
                            /\ k # j => answer'[k] = answer[k]
      /\ answer'[j].type = "none"
  BY WaitsFor DEF PredecessorConnected
<1>2. sent' = sent /\ node' = Destroyed(j) /\ contact' = contact
  BY DEF PredecessorConnected
<1>3. /\ node'[j].status = "OFF" /\ node'[j].successor = node[j].successor
      /\ OwnStep(j)
  BY <1>1, <1>2, DestroyedNode DEF OwnStep, Waiting, On
<1>4. ASSUME NEW m \in Peers PROVE MailOK(j, m)' /\ On(j, m)' = On(j, m)
  <2>1. MailOK(j, m) /\ On(j, m)' = On(j, m)
    BY <1>2 DEF RingOf, Joining, On
  <2> QED BY <1>1, <1>2, <1>3, <2>1 DEF MailOK, Unanswered
<1> QED
  BY <1>1, <1>2, <1>3, <1>4, GiveUp DEF Failed

LEMMA RecvGetNackKeepsRing ==
    ASSUME JoinInv, RingOf, NEW j \in Joiners, RecvGetNack(j)
    PROVE  RingOf'
<1>1. /\ \A k \in Joiners : /\ pc'[k] = IF k = j THEN "need_one_ring" ELSE pc[k]
                            /\ k # j => answer'[k] = answer[k]
      /\ answer'[j].type = "none"
  BY WaitsFor DEF RecvGetNack
<1>2. /\ sent' = sent /\ node' = Destroyed(j) /\ contact' = contact
      /\ pc[j] = "get_ack" /\ answer[j].type = "GET_NACK"
  BY DEF RecvGetNack, Receives
<1>3. OwnStep(j)
  BY <1>1, <1>2, DestroyedNode DEF OwnStep, Waiting, On
<1>4. ASSUME NEW m \in Peers PROVE MailOK(j, m)' /\ On(j, m)' = On(j, m)
  <2>1. MailOK(j, m) /\ On(j, m)' = On(j, m)
    BY <1>2 DEF RingOf, Joining, On
  <2> QED BY <1>1, <1>2, <2>1 DEF MailOK, Unanswered
<1> QED
  BY <1>1, <1>2, <1>3, <1>4, GiveUp

LEMMA JoinOneRingKeepsRing ==
    ASSUME JoinInv, RingOf, NEW j \in Joiners, JoinOneRing(j)
    PROVE  RingOf'
<1>1. /\ \A k \in Joiners : /\ pc'[k] = IF k = j THEN "one_ring_failed" ELSE pc[k]
                            /\ k # j => answer'[k] = answer[k]
      /\ answer'[j].type = "none"
  BY WaitsFor DEF JoinOneRing
<1>2. /\ Send(j, contact[j], "ONE_RING_JOIN_REQ") /\ node' = Destroyed(j) /\ contact' = contact
      /\ pc[j] = "get_ack" /\ answer[j].type # "none"
  BY DEF JoinOneRing, Receives
<1>3. \A m \in Peers : MailOK(j, m)
  BY DEF RingOf, Joining
<1>4. PICK c \in Peers : c = contact[j]
  BY DEF JoinInv, ChannelsOK
<1>5. /\ \A k \in Joiners, m \in Peers :
           On(k, m)' = IF k = j /\ m = c THEN On(k, m) \union {"ONE_RING_JOIN_REQ"} ELSE On(k, m)
      /\ \A k \in Joiners, m \in Peers : Orderly(sent[k][m]) => Orderly(sent'[k][m])
  BY <1>2, <1>3, <1>4, SendMail DEF MailOK, Request
<1>6. OwnStep(j)
  BY <1>1, <1>2, <1>5, DestroyedNode DEF OwnStep, Waiting
<1>7. ASSUME NEW m \in Peers PROVE MailOK(j, m)'
  BY <1>1, <1>2, <1>3, <1>5 DEF MailOK, Unanswered
<1> QED
  BY <1>1, <1>2, <1>5, <1>6, <1>7, GiveUp DEF Failed

LEMMA TwoAborts ==
    ASSUME NEW q \in Seq(Request), Orderly(q), NEW b \in BOOLEAN, NEW d \in BOOLEAN,
           "JOIN_ABRT" \notin Items(q), "PRED_JOIN_ABRT" \notin Items(q)
    PROVE  LET new == q \o (IF b THEN <<"JOIN_ABRT">> ELSE <<>>)
                        \o (IF d THEN <<"PRED_JOIN_ABRT">> ELSE <<>>)
           IN /\ Orderly(new)
              /\ Items(new) \subseteq Items(q) \union {"JOIN_ABRT", "PRED_JOIN_ABRT"}
              /\ Items(q) \subseteq Items(new)
<1> DEFINE p == q \o (IF b THEN <<"JOIN_ABRT">> ELSE <<>>)
<1>1. \A s \in Seq(Request) : s \o <<>> = s
  BY ConcatEmptySeq
<1>2. \A s \in Seq(Request), r \in Request : s \o <<r>> = Append(s, r) /\ Append(s, r) \in Seq(Request)
  BY AppendIsConcat, AppendProperties
<1>3. "JOIN_ABRT" \in Request /\ "PRED_JOIN_ABRT" \in Request
  BY DEF Request
<1>4. /\ p \in Seq(Request) /\ Orderly(p) /\ Items(q) \subseteq Items(p)
      /\ Items(p) \subseteq Items(q) \union {"JOIN_ABRT"}
  <2>1. CASE b
    <3>1. p = Append(q, "JOIN_ABRT")
      BY <1>2, <1>3, <2>1
    <3>2. /\ Items(Append(q, "JOIN_ABRT")) = Items(q) \union {"JOIN_ABRT"}
          /\ Orderly(Append(q, "JOIN_ABRT"))
      BY <1>3, Appended
    <3> HIDE DEF p
    <3> QED BY <1>2, <1>3, <3>1, <3>2
  <2>2. CASE ~b
    <3>1. p = q
      BY <1>1, <2>2
    <3> QED BY <3>1
  <2> QED BY <2>1, <2>2
<1>5. "PRED_JOIN_ABRT" \notin Items(p)
  BY <1>4
<1> HIDE DEF p
<1> DEFINE new == p \o (IF d THEN <<"PRED_JOIN_ABRT">> ELSE <<>>)
<1>6. /\ Orderly(new) /\ Items(p) \subseteq Items(new)
      /\ Items(new) \subseteq Items(p) \union {"PRED_JOIN_ABRT"}
  <2>1. CASE d
    <3>1. new = Append(p, "PRED_JOIN_ABRT")
      BY <1>2, <1>3, <1>4, <2>1
    <3>2. /\ Orderly(Append(p, "PRED_JOIN_ABRT"))
          /\ Items(Append(p, "PRED_JOIN_ABRT")) = Items(p) \union {"PRED_JOIN_ABRT"}
      BY <1>3, <1>4, <1>5, Appended
    <3> HIDE DEF new
    <3> QED BY <3>1, <3>2
  <2>2. CASE ~d
    BY <1>1, <1>4, <2>2
  <2> QED BY <2>1, <2>2
<1> QED BY <1>4, <1>6 DEF p

LEMMA SuccessorConnectedKeepsRing ==
    ASSUME JoinInv, RingOf, NEW j \in Joiners, NEW s, SuccessorConnected(j, s),
           pc[j] \in Waiting, pc[j] = "get_ack" => answer[j].type # "none", UNCHANGED contact
    PROVE  RingOf'
<1>1. /\ \A k \in Joiners : /\ pc'[k] = IF k = j THEN "successor_failed" ELSE pc[k]
                            /\ k # j => answer'[k] = answer[k]
      /\ answer'[j].type = "none"
  BY WaitsFor DEF SuccessorConnected
<1>2. node' = Destroyed(j) /\ contact' = contact
  BY DEF SuccessorConnected
<1>3. \A m \in Peers : MailOK(j, m)
  BY DEF RingOf, Joining
<1>4. ASSUME NEW m \in Peers
      PROVE  /\ Orderly(sent'[j][m])
             /\ On(j, m) \subseteq On(j, m)'
             /\ On(j, m)' \subseteq On(j, m) \union {"JOIN_ABRT", "PRED_JOIN_ABRT"}
  <2> DEFINE q == sent[j][m]
             b == m = contact[j]
             d == m = s
             new == q \o (IF b THEN <<"JOIN_ABRT">> ELSE <<>>)
                      \o (IF d THEN <<"PRED_JOIN_ABRT">> ELSE <<>>)
  <2>1. sent \in Channels /\ q \in Seq(Request)
    BY MailTypes
  <2>2. sent'[j][m] = new
    BY <2>1 DEF SuccessorConnected, Channels
  <2>3. Orderly(q) /\ "JOIN_ABRT" \notin Items(q) /\ "PRED_JOIN_ABRT" \notin Items(q)
    BY <1>3 DEF MailOK, On, Waiting
  <2>4. b \in BOOLEAN /\ d \in BOOLEAN
    OBVIOUS
  <2>5. Orderly(new) /\ Items(q) \subseteq Items(new)
        /\ Items(new) \subseteq Items(q) \union {"JOIN_ABRT", "PRED_JOIN_ABRT"}
    <3> HIDE DEF q, b, d
    <3> QED BY <2>1, <2>3, <2>4, TwoAborts
  <2> QED BY <2>2, <2>5 DEF On
<1>5. ASSUME NEW k \in Joiners, NEW m \in Peers, k # j PROVE sent'[k][m] = sent[k][m]
  BY <1>5 DEF SuccessorConnected, JoinInv, ChannelsOK
<1>6. \A k \in Joiners, m \in Peers : Orderly(sent[k][m]) => Orderly(sent'[k][m])
  BY <1>4, <1>5
<1>7. \A k \in Joiners, m \in Peers : k # j => On(k, m)' = On(k, m)
  BY <1>5 DEF On
<1>8. OwnStep(j)
  BY <1>1, <1>2, <1>6, <1>7, DestroyedNode DEF OwnStep, Waiting
<1>9. ASSUME NEW m \in Peers
      PROVE  MailOK(j, m)' /\ ("JOIN_CMT" \in On(j, m)' <=> "JOIN_CMT" \in On(j, m))
  <2>1. node'[j].successor = node[j].successor
    BY <1>2, DestroyedNode
  <2>2. \A r : r \in On(j, m)' => r \in On(j, m) \/ r \in {"JOIN_ABRT", "PRED_JOIN_ABRT"}
    BY <1>4
  <2> QED BY <1>1, <1>2, <1>3, <1>4, <2>1, <2>2 DEF MailOK, Unanswered, Waiting
<1> QED
  BY <1>1, <1>2, <1>8, <1>9, GiveUp DEF Failed

LEMMA P2pmJoinKeepsRing ==
    ASSUME JoinInv, RingOf, NEW j \in Joiners, P2pmJoin(j)
    PROVE  RingOf'
<1>0. pc[j] = "new" /\ contact' = contact
  BY DEF P2pmJoin
<1>1. CASE PredecessorConnected(j)
  BY <1>0, <1>1, PredecessorConnectedKeepsRing
<1>2. CASE Send(j, contact[j], "GET_REQ") /\ WaitFor(j, "get_ack") /\ node' = node
  <2>1. /\ \A k \in Joiners : /\ pc'[k] = IF k = j THEN "get_ack" ELSE pc[k]
                              /\ k # j => answer'[k] = answer[k]
        /\ answer'[j].type = "none"
    BY <1>2, WaitsFor
  <2>2. PICK c \in Peers : c = contact[j]
    BY DEF JoinInv, ChannelsOK
  <2>3. \A m \in Peers : MailOK(j, m)
    BY DEF RingOf, Joining
  <2>4. /\ \A k \in Joiners, m \in Peers :
             On(k, m)' = IF k = j /\ m = c THEN On(k, m) \union {"GET_REQ"} ELSE On(k, m)
        /\ \A k \in Joiners, m \in Peers : Orderly(sent[k][m]) => Orderly(sent'[k][m])
    BY <1>0, <1>2, <2>2, <2>3, SendMail DEF MailOK, Unanswered, Request
  <2>5. OwnStep(j)
    BY <1>0, <1>2, <2>1, <2>4, PeersAre DEF OwnStep, RingOf
  <2>6. ~Running(j) /\ ~Running(j)' /\ j \in Peers /\ Joining(j)
    BY <1>0, <1>2, PeersAre DEF JoinInv, NodesOK, Running, RingOf
  <2>7. \A k \in Joiners : k # j => Fresh(j, k)'
    BY <1>0, <1>2, <2>1, <2>2, <2>4, <2>6
       DEF RingOf, Joining, Fresh, Taken, Committing, OwnStep, JoinInv, ChannelsOK
  <2>8. /\ \A k \in Joiners : k # j => Joining(k)'
        /\ \A m \in Peers : m # j => Linked(m)'
        /\ Distinct'
        /\ \A m \in Peers : m # j => (Running(m)' <=> Running(m))
        /\ \A m \in Peers : node'[m].status # "ONE_RING"
    BY <2>5, <2>6, <2>7, OthersStay
  <2>9. Cycle'
    <3>1. \A k \in Joiners : pc[k] \in Failed => pc'[k] \in Failed
      BY <1>0, <2>1 DEF Failed
    <3> QED BY <1>2, <2>6, <2>8, <3>1, CycleStays
  <2>10. Joining(j)'
    <3>1. ASSUME NEW m \in Peers PROVE MailOK(j, m)'
      BY <1>0, <1>2, <2>1, <2>2, <2>3, <2>4 DEF MailOK, Unanswered
    <3>2. ASSUME NEW m \in Peers PROVE Fresh(m, j)'
      BY <1>0, <1>2, <2>6 DEF Joining, Fresh
    <3>3. ~Committing(j)' /\ ~Told(j)'
      BY <1>0, <1>2, <2>2, <2>3, <2>4, <2>6 DEF Committing, Told, MailOK, Unanswered
    <3>4. Kept(j)' /\ Promised(j)' /\ Acknowledged(j)'
      BY <2>1, <3>3 DEF Kept, Promised, Acknowledged, Taken, Accepted, Heard
    <3>5. Starting(j)'
      BY <1>0, <1>2, <2>1, <2>6 DEF Joining, Starting
    <3> QED BY <3>1, <3>2, <3>4, <3>5 DEF Joining
  <2> QED BY <2>6, <2>8, <2>9, <2>10 DEF RingOf, Linked
<1> QED BY <1>1, <1>2 DEF P2pmJoin

LEMMA RecvGetAckKeepsRing ==
    ASSUME JoinInv, RingOf, NEW j \in Joiners, RecvGetAck(j)
    PROVE  RingOf'
<1>0. pc[j] = "get_ack" /\ answer[j].type = "GET_ACK" /\ contact' = contact
  BY DEF RecvGetAck, Receives
<1>1. /\ Joining(j) /\ j \in Peers /\ ~Running(j)
      /\ node \in [Peers -> Node] /\ contact[j] \in Peers
  BY <1>0, PeersAre DEF RingOf, JoinInv, NodesOK, ChannelsOK, Waiting
<1>2. PICK c \in Peers : /\ c = contact[j] /\ Running(c) /\ node[c].temp_successor = j
                         /\ node[c].successor = answer[j].successor
  BY <1>0, <1>1 DEF Joining, Kept, Keeps, Up
<1>3. PICK s \in Peers : s = answer[j].successor /\ s = node[c].successor
  BY <1>2, PeersAre DEF RingOf, Linked, Up
<1>4. CASE PredecessorConnected(j)
  BY <1>0, <1>4, PredecessorConnectedKeepsRing
<1>5. CASE SuccessorConnected(j, answer[j].successor)
  BY <1>0, <1>5, SuccessorConnectedKeepsRing DEF Waiting
<1>6. CASE /\ node' = [node EXCEPT ![j].successor = s]
           /\ Send(j, s, "JOIN_REQ")
           /\ WaitFor(j, "join_ack1")
  <2>1. /\ \A k \in Joiners : /\ pc'[k] = IF k = j THEN "join_ack1" ELSE pc[k]
                              /\ k # j => answer'[k] = answer[k]
        /\ answer'[j].type = "none"
    BY <1>6, WaitsFor
  <2>2. /\ \A m \in Peers : m # j => node'[m] = node[m]
        /\ node'[j].successor = s /\ node'[j].status = node[j].status
        /\ node'[j].predecessor = node[j].predecessor
        /\ node'[j].temp_predecessor = node[j].temp_predecessor
    BY <1>1, <1>6 DEF Node
  <2>3. \A m \in Peers : MailOK(j, m)
    BY DEF RingOf, Joining
  <2>4. /\ \A k \in Joiners, m \in Peers :
             On(k, m)' = IF k = j /\ m = s THEN On(k, m) \union {"JOIN_REQ"} ELSE On(k, m)
        /\ \A k \in Joiners, m \in Peers : Orderly(sent[k][m]) => Orderly(sent'[k][m])
    BY <1>0, <1>6, <2>3, SendMail DEF MailOK, Unanswered, Request
  <2>5. OwnStep(j)
    BY <1>0, <1>1, <2>1, <2>2, <2>4 DEF OwnStep, RingOf, Waiting
  <2>6. ~Running(j)'
    BY <1>1, <2>2 DEF Running
  <2>7. ASSUME NEW k \in Joiners, k # j PROVE Fresh(j, k)'
    <3>1. Fresh(c, k) /\ contact[k] \in Peers
      BY DEF RingOf, Joining, JoinInv, ChannelsOK
    <3>2. (Committing(k)' <=> Committing(k)) /\ pc'[k] = pc[k] /\ answer'[k] = answer[k]
      BY <1>0, <2>1, <2>4, <2>7, <3>1 DEF Committing
    <3> QED BY <1>3, <2>2, <3>1, <3>2 DEF Fresh, Taken
  <2>8. /\ \A k \in Joiners : k # j => Joining(k)'
        /\ \A m \in Peers : m # j => Linked(m)'
        /\ Distinct'
        /\ \A m \in Peers : m # j => (Running(m)' <=> Running(m))
        /\ \A m \in Peers : node'[m].status # "ONE_RING"
    BY <2>5, <2>6, <2>7, OthersStay
  <2>9. Cycle'
    <3>1. \A k \in Joiners : pc[k] \in Failed => pc'[k] \in Failed
      BY <1>0, <2>1 DEF Failed
    <3>2. node[j].successor = None
      BY <1>0, <1>1 DEF Joining, Starting
    <3> QED BY <1>1, <2>2, <2>6, <2>8, <3>1, <3>2, CycleStays
  <2>10. Joining(j)'
    <3>1. ASSUME NEW m \in Peers PROVE MailOK(j, m)'
      BY <1>0, <2>1, <2>2, <2>3, <2>4 DEF MailOK, Unanswered
    <3>2. \A m \in Peers : node'[m].successor # j
      <4>1. \A m \in Peers : node[m].successor # j
        BY <1>0, <1>1 DEF Joining, Fresh
      <4> QED BY <1>3, <2>2, <4>1
    <3>3. ASSUME NEW m \in Peers PROVE Fresh(m, j)'
      BY <3>2 DEF Fresh
    <3>4. ~Committing(j)' /\ ~Told(j)'
      BY <1>0, <1>1, <2>2, <2>3, <2>4 DEF Committing, Told, MailOK, Unanswered
    <3>5. Promised(j)' /\ Acknowledged(j)'
      BY <2>1, <3>4 DEF Promised, Acknowledged, Taken, Accepted, Heard
    <3>6. Kept(j)'
      <4>1. node'[c] = node[c] /\ Running(c)' /\ contact'[j] = c /\ node'[j].successor = s
        BY <1>0, <1>1, <1>2, <2>2, <2>8
      <4>2. Keeps(j, node[j].successor)'
        BY <1>2, <1>3, <4>1 DEF Keeps, Up, Running
      <4> QED BY <2>1, <4>2 DEF Kept
    <3>7. Starting(j)'
      BY <1>0, <1>1, <2>1, <2>2, <2>6 DEF Joining, Starting
    <3> QED BY <3>1, <3>3, <3>5, <3>6, <3>7 DEF Joining
  <2> QED BY <2>6, <2>8, <2>9, <2>10 DEF RingOf, Linked
<1> QED BY <1>3, <1>4, <1>5, <1>6 DEF RecvGetAck

LEMMA RecvJoinAck1KeepsRing ==
    ASSUME JoinInv, RingOf, NEW j \in Joiners, RecvJoinAck1(j)
    PROVE  RingOf'
<1>0. /\ pc[j] = "join_ack1" /\ answer[j].type = "JOIN_ACK1" /\ contact' = contact
      /\ Heard(j) /\ Accepted(j)
  BY DEF RecvJoinAck1, Receives, Heard, Accepted
<1>1. /\ Joining(j) /\ j \in Peers /\ ~Running(j) /\ node \in [Peers -> Node]
  BY <1>0, PeersAre DEF RingOf, JoinInv, NodesOK, Waiting
<1>2. PICK c \in Peers : /\ c = contact[j] /\ Running(c) /\ node[c].temp_successor = j
                         /\ node[c].successor = node[j].successor
  BY <1>0, <1>1 DEF Joining, Kept, Keeps, Up
<1>3. PICK s \in Peers : /\ s = node[j].successor /\ Running(s) /\ node[s].temp_predecessor = j
                         /\ c \in Joiners => "PRED_JOIN_CMT" \notin On(c, s)
  BY <1>0, <1>1, <1>2 DEF Joining, Promised, Up
<1>4. CASE SuccessorConnected(j, node[j].successor)
  BY <1>0, <1>4, SuccessorConnectedKeepsRing DEF Waiting
<1>5. CASE /\ \E list : node' = [node EXCEPT ![j].status = "APPENDAGE", ![j].successor_list = list]
           /\ Send(j, contact[j], "JOIN_CMT")
           /\ WaitFor(j, "join_ack2")
  <2>1. /\ \A k \in Joiners : /\ pc'[k] = IF k = j THEN "join_ack2" ELSE pc[k]
                              /\ k # j => answer'[k] = answer[k]
        /\ answer'[j].type = "none"
    BY <1>5, WaitsFor
  <2>2. /\ \A m \in Peers : m # j => node'[m] = node[m]
        /\ node'[j].successor = node[j].successor /\ node'[j].status = "APPENDAGE"
        /\ node'[j].predecessor = node[j].predecessor
        /\ node'[j].temp_predecessor = node[j].temp_predecessor
    BY <1>1, <1>5 DEF Node
  <2>3. \A m \in Peers : MailOK(j, m)
    BY DEF RingOf, Joining
  <2>4. /\ \A k \in Joiners, m \in Peers :
             On(k, m)' = IF k = j /\ m = c THEN On(k, m) \union {"JOIN_CMT"} ELSE On(k, m)
        /\ \A k \in Joiners, m \in Peers : Orderly(sent[k][m]) => Orderly(sent'[k][m])
    BY <1>0, <1>2, <1>5, <2>3, SendMail DEF MailOK, Unanswered, Request
  <2>5. OwnStep(j)
    BY <1>0, <1>1, <2>1, <2>2, <2>4 DEF OwnStep, Waiting
  <2>6. ~Running(j)'
    BY <2>2 DEF Running
  <2>7. ASSUME NEW k \in Joiners, k # j PROVE Fresh(j, k)'
    <3>1. Fresh(j, k) /\ contact[k] \in Peers
      BY <1>1 DEF RingOf, Joining, JoinInv, ChannelsOK
    <3>2. (Committing(k)' <=> Committing(k)) /\ pc'[k] = pc[k] /\ answer'[k] = answer[k]
      BY <1>0, <2>1, <2>4, <2>7, <3>1 DEF Committing
    <3> QED BY <2>2, <3>1, <3>2 DEF Fresh, Taken
  <2>8. /\ \A k \in Joiners : k # j => Joining(k)'
        /\ \A m \in Peers : m # j => Linked(m)'
        /\ Distinct'
        /\ \A m \in Peers : m # j => (Running(m)' <=> Running(m))
        /\ \A m \in Peers : node'[m].status # "ONE_RING"
    BY <2>5, <2>6, <2>7, OthersStay
  <2>9. Cycle'
    <3>1. \A k \in Joiners : pc[k] \in Failed => pc'[k] \in Failed
      BY <1>0, <2>1 DEF Failed
    <3> QED BY <1>1, <2>2, <2>6, <2>8, <3>1, CycleStays
  <2>10. Joining(j)'
    <3>0. /\ node'[c] = node[c] /\ Running(c)' /\ contact'[j] = c /\ node'[j].successor = s
          /\ node'[s] = node[s] /\ Running(s)' /\ c # j /\ s # j
      BY <1>0, <1>1, <1>2, <1>3, <2>2, <2>8
    <3>1. ASSUME NEW m \in Peers PROVE MailOK(j, m)'
      BY <1>0, <1>2, <2>1, <2>2, <2>3, <2>4 DEF MailOK, Unanswered
    <3>2. \A m \in Peers : node'[m].successor # j
      <4>1. \A m \in Peers : node[m].successor # j
        BY <1>0, <1>1 DEF Joining, Fresh
      <4> QED BY <2>2, <4>1
    <3>3. ASSUME NEW m \in Peers PROVE Fresh(m, j)'
      BY <3>2 DEF Fresh
    <3>4. ~Told(j)' /\ ~Heard(j)' /\ ~Taken(j)'
      <4>1. "PRED_JOIN_CMT" \notin On(j, s)'
        BY <1>0, <2>3, <2>4 DEF MailOK
      <4> QED BY <2>1, <3>0, <4>1 DEF Told, Heard, Taken, On
    <3>5. Up(node[j].successor)'
      BY <3>0 DEF Up, Running
    <3>6. Promised(j)'
      <4>1. c \in Joiners => "PRED_JOIN_CMT" \notin On(c, s)'
        BY <1>3, <2>4, <3>0
      <4> QED BY <1>3, <3>0, <3>4, <3>5, <4>1 DEF Promised, On
    <3>7. Kept(j)'
      <4>1. Keeps(j, node[j].successor)'
        BY <1>2, <1>3, <3>0 DEF Keeps, Up, Running
      <4> QED BY <2>1, <4>1 DEF Kept
    <3>8. Acknowledged(j)'
      BY <3>4 DEF Acknowledged
    <3>9. Starting(j)'
      BY <1>0, <1>1, <2>1, <2>2, <2>6 DEF Joining, Starting
    <3> QED BY <3>1, <3>3, <3>6, <3>7, <3>8, <3>9 DEF Joining
  <2> QED BY <2>6, <2>8, <2>9, <2>10 DEF RingOf, Linked
<1> QED BY <1>4, <1>5 DEF RecvJoinAck1

LEMMA RecvJoinAck2KeepsRing ==
    ASSUME JoinInv, RingOf, NEW j \in Joiners, RecvJoinAck2(j)
    PROVE  RingOf'
<1>0. /\ pc[j] = "join_ack2" /\ answer[j].type = "JOIN_ACK2" /\ contact' = contact
      /\ Taken(j) /\ Accepted(j)
  BY DEF RecvJoinAck2, Receives, Taken, Accepted
<1>1. /\ Joining(j) /\ j \in Peers /\ ~Running(j) /\ node \in [Peers -> Node]
  BY <1>0, PeersAre DEF RingOf, JoinInv, NodesOK, Waiting
<1>2. PICK c \in Peers : c = contact[j] /\ Running(c) /\ node[c].successor = j /\ c # j
  BY <1>0, <1>1 DEF Joining, Acknowledged, Up
<1>3. PICK s \in Peers : s = node[j].successor /\ Running(s) /\ node[s].temp_predecessor = j /\ s # j
  BY <1>0, <1>1 DEF Joining, Promised, Up
<1>4. /\ \A k \in Joiners : /\ pc'[k] = IF k = j THEN "success" ELSE pc[k]
                            /\ k # j => answer'[k] = answer[k]
      /\ answer'[j].type = "none"
  BY WaitsFor DEF RecvJoinAck2
<1>5. /\ \A m \in Peers : m # j => node'[m] = node[m]
      /\ node'[j].successor = node[j].successor /\ node'[j].status = "MEMBER"
      /\ node'[j].predecessor = node[j].predecessor
      /\ node'[j].temp_predecessor = node[j].temp_predecessor
  BY <1>1 DEF RecvJoinAck2, Node
<1>6. \A m \in Peers : MailOK(j, m)
  BY DEF RingOf, Joining
<1>7. /\ \A k \in Joiners, m \in Peers :
           On(k, m)' = IF k = j /\ m = s THEN On(k, m) \union {"PRED_JOIN_CMT"} ELSE On(k, m)
      /\ \A k \in Joiners, m \in Peers : Orderly(sent[k][m]) => Orderly(sent'[k][m])
  BY <1>0, <1>3, <1>6, SendMail DEF RecvJoinAck2, MailOK, Request
<1>8. OwnStep(j)
  BY <1>0, <1>1, <1>4, <1>5, <1>7 DEF OwnStep, Waiting
<1>9. Running(j)'
  BY <1>5 DEF Running
<1>10. ASSUME NEW k \in Joiners, k # j PROVE Fresh(j, k)'
  <2>1. Fresh(j, k) /\ contact[k] \in Peers
    BY <1>1 DEF RingOf, Joining, JoinInv, ChannelsOK
  <2>2. (Committing(k)' <=> Committing(k)) /\ pc'[k] = pc[k] /\ answer'[k] = answer[k]
    BY <1>0, <1>4, <1>7, <1>10, <2>1 DEF Committing
  <2> QED BY <1>5, <2>1, <2>2 DEF Fresh, Taken
<1>11. /\ \A k \in Joiners : k # j => Joining(k)'
       /\ \A m \in Peers : m # j => Linked(m)'
       /\ Distinct'
       /\ \A m \in Peers : m # j => (Running(m)' <=> Running(m))
       /\ \A m \in Peers : node'[m].status # "ONE_RING"
  BY <1>0, <1>5, <1>8, <1>10, OthersStay
<1>12. node'[j].successor = s /\ node'[s] = node[s] /\ Running(s)' /\ Told(j)'
  <2>1. "PRED_JOIN_CMT" \in On(j, s)'
    BY <1>7
  <2>2. node'[j].successor = s /\ node'[s] = node[s] /\ Running(s)'
    BY <1>3, <1>5, <1>11
  <2> QED BY <2>1, <2>2 DEF Told, On
<1>13. Linked(j)'
  <2>1. Up(node[j].successor)'
    BY <1>12 DEF Up, Running
  <2>2. node[j].predecessor = contact[j]
    BY <1>0, <1>1 DEF Joining, Starting
  <2>3. node'[j].predecessor = c
    BY <1>2, <1>5, <2>2
  <2>4. c \in Joiners => pc'[c] = "success"
    BY <1>2, <1>4 DEF RingOf, Joining, Starting
  <2> QED BY <1>12, <2>1, <2>3, <2>4 DEF Linked
<1>14. Joining(j)'
  <2>1. ASSUME NEW m \in Peers PROVE MailOK(j, m)'
    BY <1>0, <1>3, <1>4, <1>5, <1>6, <1>7 DEF MailOK, Unanswered
  <2>2. ~Committing(j)' /\ ~Accepted(j)' /\ ~Heard(j)' /\ ~Taken(j)'
    <3>1. "JOIN_CMT" \notin On(j, c)'
      BY <1>0, <1>6, <1>7 DEF MailOK, Unanswered
    <3>2. contact'[j] = c
      BY <1>0, <1>2
    <3> QED BY <1>4, <3>1, <3>2 DEF Committing, Accepted, Heard, Taken, On
  <2>3. ASSUME NEW m \in Peers PROVE Fresh(m, j)'
    BY <1>4, <2>2 DEF Fresh
  <2>4. Kept(j)' /\ Acknowledged(j)'
    BY <1>4, <2>2 DEF Kept, Acknowledged
  <2>5. Promised(j)'
    BY <1>3, <1>12, <2>2 DEF Promised
  <2>6. Starting(j)'
    BY <1>4, <1>9 DEF Starting
  <2> QED BY <2>1, <2>3, <2>4, <2>5, <2>6 DEF Joining
<1>15. Cycle'
  <2>1. Members' = Members \union {j} /\ Members \subseteq Peers /\ c \in Members /\ s \in Members
    BY <1>1, <1>2, <1>3, <1>9, <1>11 DEF Members
  <2>2. SUFFICES ASSUME NoOrphan', NEW R \in SUBSET Peers, Shut(R)', R \intersect Members' # {}
                 PROVE  Members' \subseteq R
    BY DEF Cycle
  <2>3. \A m \in Peers : node'[m].successor = node[m].successor
    BY <1>5
  <2>4. NoOrphan
    <3> SUFFICES ASSUME NEW m \in Members, node[m].successor \in Joiners
                 PROVE  pc[node[m].successor] \notin Failed
      BY DEF NoOrphan
    <3>1. node'[m].successor = node[m].successor /\ m \in Members'
      BY <2>1, <2>3
    <3>2. pc'[node[m].successor] \notin Failed
      BY <2>2, <3>1 DEF NoOrphan
    <3> QED BY <1>0, <1>4, <3>2 DEF Failed
  <2>5. \A m \in R : node[m].successor \in R \union {None}
    BY <2>2, <2>3 DEF Shut
  <2>6. Shut(R)
    BY <2>5 DEF Shut
  <2>7. j \in R => s \in R
    BY <1>3, <2>5, PeersAre
  <2>8. R \intersect Members # {}
    BY <2>1, <2>2, <2>7
  <2>9. Members \subseteq R
    BY <2>4, <2>6, <2>8 DEF RingOf, Cycle
  <2>10. j \in R
    BY <1>1, <1>2, <2>1, <2>5, <2>9, PeersAre
  <2> QED BY <2>1, <2>9, <2>10
<1> QED BY <1>11, <1>13, <1>14, <1>15 DEF RingOf

-------------------------------------------------------------------------------
(* Any step *)

LEMMA AloneStays ==
    ASSUME JoinInv, NEW l, Alone(l), [Next]_vars
    PROVE  Alone(l)'
<1> DEFINE Asks == {"GET_REQ", "ONE_RING_JOIN_REQ"}
<1>1. /\ l \in Nodes /\ l \in Peers /\ l \notin Joiners /\ Joiners \subseteq Peers
      /\ node \in [Peers -> Node] /\ sent \in [Joiners -> [Peers -> Seq(Request)]]
      /\ contact \in [Joiners -> Peers]
  BY RingJoinAssumption DEF Alone, Peers, JoinInv, NodesOK, ChannelsOK
<1>2. ASSUME NEW j \in Joiners, PredecessorConnected(j), pc[j] \in {"new", "get_ack"},
             UNCHANGED contact
      PROVE  Alone(l)'
  <2>1. /\ \A k \in Joiners : /\ pc'[k] = IF k = j THEN "predecessor_failed" ELSE pc[k]
                              /\ k # j => answer'[k] = answer[k]
        /\ answer'[j].type = "none"
    BY <1>2, WaitsFor DEF PredecessorConnected
  <2>2. /\ \A m \in Peers : m # j => node'[m] = node[m]
        /\ node'[j].status = "OFF" /\ sent' = sent
    BY <1>2, DestroyedNode DEF PredecessorConnected
  <2> QED BY <1>1, <2>1, <2>2 DEF Alone, Running
<1>3. ASSUME NEW j \in Joiners, NEW r \in Asks, Send(j, contact[j], r)
      PROVE  \A k \in Joiners, m \in Peers : sent[k][m] \in Seq(Asks) => sent'[k][m] \in Seq(Asks)
  <2>1. \A k \in Joiners, m \in Peers :
          sent'[k][m] = IF k = j /\ m = contact[j] THEN Append(sent[k][m], r) ELSE sent[k][m]
    BY <1>1, <1>3 DEF Send
  <2>2. \A q \in Seq(Asks) : Append(q, r) \in Seq(Asks)
    BY AppendProperties
  <2> HIDE DEF Asks
  <2> QED BY <2>1, <2>2
<1>4. ASSUME NEW j \in Joiners, Joiner(j) PROVE Alone(l)'
  <2>1. CASE P2pmJoin(j)
    <3>1. CASE PredecessorConnected(j)
      BY <1>2, <2>1, <3>1 DEF P2pmJoin
    <3>2. CASE Send(j, contact[j], "GET_REQ") /\ WaitFor(j, "get_ack") /\ node' = node
      <4>1. /\ \A k \in Joiners : /\ pc'[k] = IF k = j THEN "get_ack" ELSE pc[k]
                                  /\ k # j => answer'[k] = answer[k]
            /\ answer'[j].type = "none"
        BY <3>2, WaitsFor
      <4>2. \A k \in Joiners, m \in Peers : sent'[k][m] \in Seq(Asks)
        BY <1>3, <3>2 DEF Alone
      <4> QED BY <3>2, <4>1, <4>2 DEF Alone, Running
    <3> QED BY <2>1, <3>1, <3>2 DEF P2pmJoin
  <2>2. CASE RecvGetNack(j)
    <3>1. /\ \A k \in Joiners : /\ pc'[k] = IF k = j THEN "need_one_ring" ELSE pc[k]
                                /\ k # j => answer'[k] = answer[k]
          /\ answer'[j].type = "none"
      BY <2>2, WaitsFor DEF RecvGetNack
    <3>2. /\ \A m \in Peers : m # j => node'[m] = node[m]
          /\ node'[j].status = "OFF" /\ sent' = sent
      BY <2>2, DestroyedNode DEF RecvGetNack
    <3> QED BY <1>1, <3>1, <3>2 DEF Alone, Running
  <2>3. CASE JoinOneRing(j)
    <3>1. /\ \A k \in Joiners : /\ pc'[k] = IF k = j THEN "one_ring_failed" ELSE pc[k]
                                /\ k # j => answer'[k] = answer[k]
          /\ answer'[j].type = "none"
      BY <2>3, WaitsFor DEF JoinOneRing
    <3>2. /\ \A m \in Peers : m # j => node'[m] = node[m]
          /\ node'[j].status = "OFF"
      BY <2>3, DestroyedNode DEF JoinOneRing
    <3>3. \A k \in Joiners, m \in Peers : sent'[k][m] \in Seq(Asks)
      BY <1>3, <2>3 DEF JoinOneRing, Alone
    <3> QED BY <1>1, <3>1, <3>2, <3>3 DEF Alone, Running
  <2>4. CASE Timeout(j)
    <3>1. pc[j] = "get_ack"
      BY <2>4 DEF Timeout, Alone, Waiting
    <3>2. PredecessorConnected(j) /\ UNCHANGED contact
      BY <2>4, <3>1 DEF Timeout
    <3> QED BY <1>2, <3>1, <3>2
  <2>5. ~RecvGetAck(j) /\ ~RecvJoinAck1(j) /\ ~RecvRefusal(j) /\ ~RecvJoinAck2(j)
    BY DEF Alone, RecvGetAck, RecvJoinAck1, RecvRefusal, RecvJoinAck2, Receives
  <2> QED BY <1>4, <2>1, <2>2, <2>3, <2>4, <2>5 DEF Joiner
<1>5. ASSUME NEW n \in Peers, NEW j \in Joiners, NEW r \in Request, Takes(n, j, r)
      PROVE  /\ n = l /\ r \in Asks
             /\ \A k \in Joiners, m \in Peers : sent'[k][m] \in Seq(Asks)
  <2>1. sent[j][n] \in Seq(Asks) /\ sent[j][n] # <<>> /\ r = Head(sent[j][n])
    BY <1>5 DEF Takes, Alone
  <2>2. r \in Asks /\ Tail(sent[j][n]) \in Seq(Asks)
    BY <2>1, HeadTailProperties
  <2>3. \A k \in Joiners, m \in Peers :
          sent'[k][m] = IF k = j /\ m = n THEN Tail(sent[j][n]) ELSE sent[k][m]
    BY <1>1, <1>5 DEF Takes
  <2> QED BY <1>5, <2>2, <2>3 DEF Takes, Alone
<1>6. ASSUME NEW n \in Peers, NEW j \in Joiners, Serve(n, j) PROVE Alone(l)'
  <2>1. CASE GetReq(n, j)
    <3>1. n = l /\ \A k \in Joiners, m \in Peers : sent'[k][m] \in Seq(Asks)
      BY <1>5, <2>1 DEF GetReq, Request
    <3>2. /\ \A m \in Peers : m # l => node'[m] = node[m]
          /\ node'[l].status = node[l].status
          /\ node'[l].successor = node[l].successor /\ node'[l].predecessor = node[l].predecessor
      BY <1>1, <2>1, <3>1 DEF GetReq, Alone, Node
    <3>3. pc' = pc /\ \A k \in Joiners : answer'[k].type \in {"none", "GET_NACK", "GET_CONTACTED_ONE_RING"}
      <4>1. PICK a : /\ Reply(j, a) /\ a.type \in {"GET_NACK", "GET_CONTACTED_ONE_RING"}
        BY <2>1, <3>1 DEF GetReq, Alone, Just
      <4> QED BY <2>1, <4>1 DEF GetReq, Reply, Alone, JoinInv, ChannelsOK
    <3> QED BY <1>1, <3>1, <3>2, <3>3 DEF Alone, Running
  <2>2. CASE OneRingJoinReq(n, j)
    <3>1. n = l /\ \A k \in Joiners, m \in Peers : sent'[k][m] \in Seq(Asks)
      BY <1>5, <2>2 DEF OneRingJoinReq, Request
    <3>2. /\ \A m \in Peers : m # l => node'[m] = node[m]
          /\ node'[l].status # "MEMBER"
          /\ node'[l].successor = node[l].successor /\ node'[l].predecessor = node[l].predecessor
      BY <1>1, <2>2, <3>1 DEF OneRingJoinReq, Alone, Node
    <3> QED BY <1>1, <2>2, <3>1, <3>2 DEF OneRingJoinReq, Alone, Running
  <2>3. /\ ~JoinReq(n, j) /\ ~JoinCmt(n, j) /\ ~PredJoinCmt(n, j)
        /\ ~JoinAbrt(n, j) /\ ~PredJoinAbrt(n, j)
    BY <1>5 DEF JoinReq, JoinCmt, PredJoinCmt, JoinAbrt, PredJoinAbrt, Request
  <2> QED BY <1>6, <2>1, <2>2, <2>3 DEF Serve
<1>7. CASE UNCHANGED vars
  BY <1>7 DEF vars, Alone, Running
<1> QED BY <1>4, <1>6, <1>7 DEF Next

LEMMA JoinerKeepsRing == ASSUME JoinInv, RingOf, NEW j \in Joiners, Joiner(j) PROVE RingOf'
<1>1. CASE RecvRefusal(j)
  BY <1>1, SuccessorConnectedKeepsRing DEF RecvRefusal, Waiting
<1>2. CASE Timeout(j)
  <2>1. CASE pc[j] = "get_ack" /\ PredecessorConnected(j)
    BY <1>2, <2>1, PredecessorConnectedKeepsRing DEF Timeout
  <2>2. CASE pc[j] # "get_ack" /\ SuccessorConnected(j, node[j].successor)
    BY <1>2, <2>2, SuccessorConnectedKeepsRing DEF Timeout
  <2> QED BY <1>2, <2>1, <2>2 DEF Timeout
<1> QED
  BY <1>1, <1>2, P2pmJoinKeepsRing, RecvGetAckKeepsRing, RecvGetNackKeepsRing,
     JoinOneRingKeepsRing, RecvJoinAck1KeepsRing, RecvJoinAck2KeepsRing DEF Joiner

LEMMA ServeKeepsRing ==
    ASSUME JoinInv, RingOf, NEW n \in Peers, NEW j \in Joiners, Serve(n, j), ~contested'
    PROVE  RingOf'
  BY GetReqKeepsRing, JoinReqKeepsRing, JoinCmtKeepsRing, PredJoinCmtKeepsRing,
     JoinAbrtKeepsRing, PredJoinAbrtKeepsRing, OneRingJoinReqKeepsRing DEF Serve

LEMMA StutterKeepsRing == ASSUME RingOf, UNCHANGED vars PROVE RingOf'
<1> USE DEF vars
<1>1. ASSUME NEW j \in Joiners PROVE Joining(j)'
  <2>1. Joining(j)
    BY DEF RingOf
  <2> QED BY <2>1 DEF Joining, MailOK, On, Unanswered, Fresh, Committing, Kept, Keeps, Up, Running,
                       Promised, Accepted, Heard, Told, Acknowledged, Taken, Starting
<1>2. ASSUME NEW n \in Peers PROVE Linked(n)'
  <2>1. Linked(n)
    BY DEF RingOf
  <2> QED BY <2>1 DEF Linked, Running, Up, Told, On
<1>3. Distinct' /\ Cycle'
  BY DEF RingOf, Distinct, InRing, Running, Taken, Cycle, NoOrphan, Shut, Members
<1> QED BY <1>1, <1>2, <1>3 DEF RingOf

(* Once a join has met another, that is never undone.                        *)
LEMMA ContestStays == ASSUME JoinInv, [Next]_vars, contested PROVE contested'
<1>1. ASSUME NEW j \in Joiners, Joiner(j) PROVE contested' = contested
  <2>1. CASE P2pmJoin(j) BY <2>1 DEF P2pmJoin
  <2>2. CASE RecvGetAck(j) BY <2>2 DEF RecvGetAck
  <2>3. CASE RecvGetNack(j) BY <2>3 DEF RecvGetNack
  <2>4. CASE JoinOneRing(j) BY <2>4 DEF JoinOneRing
  <2>5. CASE RecvJoinAck1(j) BY <2>5 DEF RecvJoinAck1
  <2>6. CASE RecvRefusal(j) BY <2>6 DEF RecvRefusal
  <2>7. CASE RecvJoinAck2(j) BY <2>7 DEF RecvJoinAck2
  <2>8. CASE Timeout(j) BY <2>8 DEF Timeout
  <2> QED BY <1>1, <2>1, <2>2, <2>3, <2>4, <2>5, <2>6, <2>7, <2>8 DEF Joiner
<1>2. ASSUME NEW n \in Peers, NEW j \in Joiners, Serve(n, j) PROVE contested'
  <2>1. \A a : Meets(a, j) => contested'
    BY DEF Meets
  <2>2. CASE GetReq(n, j) BY <2>1, <2>2 DEF GetReq
  <2>3. CASE JoinReq(n, j) BY <2>1, <2>3 DEF JoinReq
  <2>4. CASE JoinCmt(n, j) BY <2>1, <2>4 DEF JoinCmt
  <2>5. CASE PredJoinCmt(n, j) BY <2>1, <2>5 DEF PredJoinCmt
  <2>6. CASE JoinAbrt(n, j) BY <2>1, <2>6 DEF JoinAbrt
  <2>7. CASE PredJoinAbrt(n, j) BY <2>1, <2>7 DEF PredJoinAbrt
  <2>8. CASE OneRingJoinReq(n, j)
    <3>1. contested' = contested BY <2>8 DEF OneRingJoinReq
    <3> QED BY <3>1
  <2> QED BY <1>2, <2>2, <2>3, <2>4, <2>5, <2>6, <2>7, <2>8 DEF Serve
<1>3. CASE Next
  <2>1. CASE \E j \in Joiners : Joiner(j)
    <3>1. contested' = contested BY <1>1, <2>1
    <3> QED BY <3>1
  <2>2. CASE \E n \in Peers, j \in Joiners : Serve(n, j) BY <1>2, <2>2
  <2> QED BY <1>3, <2>1, <2>2 DEF Next
<1>4. CASE UNCHANGED vars
  <2>1. contested' = contested BY <1>4 DEF vars
  <2> QED BY <2>1
<1> QED BY <1>3, <1>4

LEMMA RingStep == JoinInv /\ RingInv /\ [Next]_vars => RingInv'
<1> SUFFICES ASSUME JoinInv, RingInv, [Next]_vars, ~contested'
             PROVE  RingOf' \/ \E l \in Nodes : Alone(l)'
  BY DEF RingInv
<1>1. ~contested
  BY ContestStays DEF JoinInv, ChannelsOK
<1>2. CASE RingOf
  <2>1. CASE Next
    BY <1>2, <2>1, JoinerKeepsRing, ServeKeepsRing DEF Next
  <2>2. CASE UNCHANGED vars
    BY <1>2, <2>2, StutterKeepsRing
  <2> QED BY <2>1, <2>2
<1>3. CASE \E l \in Nodes : Alone(l)
  BY <1>3, AloneStays
<1> QED BY <1>1, <1>2, <1>3 DEF RingInv


-------------------------------------------------------------------------------
(* The initial states *)

(* A set of naturals that is not empty has a least element.                  *)
LEMMA MinimalNumber ==
    ASSUME NEW R, IsWellFoundedOn(R, Nat), NEW T, T \subseteq Nat, T # {}
    PROVE  \E n \in T : \A m \in T : ~(<<m, n>> \in R)
  BY WFMin

LEMMA LeastBy ==
    ASSUME NEW R, IsWellFoundedOn(R, Nat), \A m, n \in Nat : m < n => <<m, n>> \in R,
           NEW T \in SUBSET Nat, T # {}
    PROVE  \E n \in T : \A m \in T : n <= m
<1>1. PICK n \in T : \A m \in T : ~(<<m, n>> \in R)
  BY MinimalNumber
<1>2. ASSUME NEW m \in T PROVE n <= m
  <2>1. m \in Nat /\ n \in Nat
    OBVIOUS
  <2>2. m < n => <<m, n>> \in R
    BY <2>1
  <2> QED BY <1>1, <2>1, <2>2
<1> QED BY <1>2

LEMMA LeastNumber ==
    ASSUME NEW T \in SUBSET Nat, T # {}
    PROVE  \E n \in T : \A m \in T : n <= m
<1>1. \A m, n \in Nat : m < n => <<m, n>> \in OpToRel(<, Nat)
  BY DEF OpToRel
<1> QED BY <1>1, NatLessThanWellFounded, LeastBy

(* A set of places that holds the next place with each of its own, but the   *)
(* last one's, holds all from its first.                                     *)
LEMMA AllFrom ==
    ASSUME NEW L \in Nat, NEW T \in SUBSET (1 .. L), NEW i \in T,
           \A k \in T : k < L => k + 1 \in T
    PROVE  i .. L \subseteq T
<1> DEFINE Left == {k \in Nat : k \in i .. L /\ k \notin T}
<1>1. CASE Left = {}
  BY <1>1
<1>2. CASE Left # {}
  <2>1. PICK m \in Left : \A k \in Left : m <= k
    BY <1>2, LeastNumber
  <2>2. m # i /\ m - 1 \in i .. L /\ m - 1 \in Nat /\ m - 1 < L
    BY <2>1
  <2>3. m - 1 \in T
    BY <2>1, <2>2
  <2>4. m - 1 + 1 = m
    BY <2>1
  <2> QED BY <2>1, <2>2, <2>3, <2>4
<1> QED BY <1>1, <1>2

Behind(ring, i) == IF i = Len(ring) THEN 1 ELSE i + 1
Before(ring, i) == IF i = 1 THEN Len(ring) ELSE i - 1

LEMMA PlacesAround ==
    ASSUME NEW ring \in Seq(Nodes), ring # <<>>, NEW i \in 1 .. Len(ring)
    PROVE  /\ Behind(ring, i) \in 1 .. Len(ring) /\ Before(ring, i) \in 1 .. Len(ring)
           /\ Before(ring, Behind(ring, i)) = i
           /\ (i % Len(ring)) + 1 = Behind(ring, i)
           /\ ((i + Len(ring) - 2) % Len(ring)) + 1 = Before(ring, i)
<1>1. Len(ring) \in Nat \ {0}
  BY EmptySeq, LenProperties
<1> DEFINE L == Len(ring)
<1> HIDE DEF L
<1>2. L \in Nat \ {0} /\ i \in 1 .. L
  BY <1>1 DEF L
<1>3. \A a \in 0 .. L - 1 : a % L = a /\ (a + L) % L = a
  BY <1>2, Z3
<1>4. L % L = 0
  BY <1>2, <1>3, Z3
<1>5. (i % L) + 1 = IF i = L THEN 1 ELSE i + 1
  BY <1>2, <1>3, <1>4
<1>6. ((i + L - 2) % L) + 1 = IF i = 1 THEN L ELSE i - 1
  <2>1. CASE i = 1
    <3>1. i + L - 2 = L - 1 /\ L - 1 \in 0 .. L - 1
      BY <1>2, <2>1
    <3> QED BY <1>2, <1>3, <2>1, <3>1
  <2>2. CASE i # 1
    <3>1. i + L - 2 = (i - 2) + L /\ i - 2 \in 0 .. L - 1
      BY <1>2, <2>2
    <3> QED BY <1>2, <1>3, <2>2, <3>1
  <2> QED BY <2>1, <2>2
<1> QED
  BY <1>2, <1>5, <1>6 DEF Behind, Before, L

(* How the nodes stand at the start.                                         *)
StartsAs(ring) ==
    /\ ring \in Seq(Nodes) /\ ring # <<>>
    /\ \A i, k \in 1 .. Len(ring) : ring[i] = ring[k] => i = k
    /\ \A i \in 1 .. Len(ring) :
         /\ node[ring[i]].status = IF Len(ring) = 1 THEN "ONE_RING" ELSE "MEMBER"
         /\ node[ring[i]].successor = ring[Behind(ring, i)]
         /\ node[ring[i]].predecessor = ring[Before(ring, i)]
    /\ \A n \in Peers : n \notin {ring[i] : i \in 1 .. Len(ring)} =>
         /\ node[n].status \in {"OFF", "JOINING"} /\ node[n].successor = None
         /\ n \in Joiners => node[n].predecessor = contact[n]

LEMMA StartingRing == ASSUME Init PROVE \E ring : StartsAs(ring)
<1>1. PICK s \in Starts :
        /\ contact = s.contact
        /\ node = [n \in Peers |->
             IF n \in Joiners THEN NodeOf("JOINING", s.contact[n], None, <<>>)
             ELSE IF \E i \in DOMAIN s.ring : s.ring[i] = n
             THEN MemberAt(s.ring, CHOOSE i \in DOMAIN s.ring : s.ring[i] = n)
             ELSE NodeOf("OFF", None, None, <<>>)]
  BY DEF Init
<1> DEFINE ring == s.ring
<1>2. /\ ring \in Seq(Nodes) /\ ring # <<>> /\ DOMAIN ring = 1 .. Len(ring)
      /\ \A i, k \in 1 .. Len(ring) : ring[i] = ring[k] => i = k
      /\ \A i \in 1 .. Len(ring) : ring[i] \in Nodes /\ ring[i] \in Peers /\ ring[i] \notin Joiners
  BY RingJoinAssumption, LenProperties DEF Peers
<1> HIDE DEF ring
<1>3. ASSUME NEW i \in 1 .. Len(ring)
      PROVE  /\ node[ring[i]].status = IF Len(ring) = 1 THEN "ONE_RING" ELSE "MEMBER"
             /\ node[ring[i]].successor = ring[Behind(ring, i)]
             /\ node[ring[i]].predecessor = ring[Before(ring, i)]
  <2>1. (CHOOSE k \in DOMAIN ring : ring[k] = ring[i]) = i
    BY <1>2
  <2>2. node[ring[i]] = MemberAt(ring, i)
    BY <1>1, <1>2, <2>1 DEF ring
  <2>3. /\ (i % Len(ring)) + 1 = Behind(ring, i)
        /\ ((i + Len(ring) - 2) % Len(ring)) + 1 = Before(ring, i)
    BY <1>2, PlacesAround
  <2> QED BY <2>2, <2>3 DEF MemberAt, NodeOf
<1>4. ASSUME NEW n \in Peers, n \notin {ring[i] : i \in 1 .. Len(ring)}
      PROVE  /\ node[n].status \in {"OFF", "JOINING"} /\ node[n].successor = None
             /\ n \in Joiners => node[n].predecessor = contact[n]
  <2>1. ~\E i \in DOMAIN s.ring : s.ring[i] = n
    BY <1>2, <1>4 DEF ring
  <2> QED BY <1>1, <2>1 DEF NodeOf
<1>5. StartsAs(ring)
  BY <1>2, <1>3, <1>4 DEF StartsAs
<1> QED BY <1>5

(* A ring that stands makes every member reachable from every other.         *)
LEMMA StartingCycle ==
    ASSUME NEW ring, StartsAs(ring), NEW R \in SUBSET Peers, Shut(R),
           NEW i \in 1 .. Len(ring), ring[i] \in R
    PROVE  \A k \in 1 .. Len(ring) : ring[k] \in R
<1> DEFINE T == {k \in 1 .. Len(ring) : ring[k] \in R}
<1>1. ring \in Seq(Nodes) /\ ring # <<>> /\ Len(ring) \in Nat
  BY LenProperties DEF StartsAs
<1>2. ASSUME NEW k \in T PROVE Behind(ring, k) \in T
  <2>1. Behind(ring, k) \in 1 .. Len(ring)
    BY <1>1, PlacesAround
  <2>2. ring[Behind(ring, k)] \in Peers /\ ring[Behind(ring, k)] # None
    BY <1>1, <2>1, PeersAre DEF Peers
  <2>3. node[ring[k]].successor = ring[Behind(ring, k)]
    BY DEF StartsAs
  <2> QED BY <2>1, <2>2, <2>3 DEF Shut
<1>3. \A k \in T : k < Len(ring) => k + 1 \in T
  BY <1>1, <1>2 DEF Behind
<1>4. T \in SUBSET (1 .. Len(ring)) /\ i \in T
  OBVIOUS
<1> HIDE DEF T
<1>5. i .. Len(ring) \subseteq T
  BY <1>1, <1>3, <1>4, AllFrom
<1>6. Len(ring) \in T
  BY <1>1, <1>4, <1>5
<1>7. 1 \in T
  BY <1>2, <1>6 DEF Behind
<1>8. 1 .. Len(ring) \subseteq T
  BY <1>1, <1>3, <1>4, <1>7, AllFrom
<1> QED BY <1>8 DEF T

LEMMA RingStart == Init => RingInv
<1> SUFFICES ASSUME Init PROVE RingInv
  OBVIOUS
<1>1. PICK ring : StartsAs(ring)
  BY StartingRing
<1> DEFINE L == Len(ring)
<1>2. /\ L \in Nat \ {0} /\ ring \in Seq(Nodes) /\ ring # <<>>
      /\ \A i \in 1 .. L : /\ ring[i] \in Nodes /\ ring[i] \in Peers /\ ring[i] \notin Joiners
                           /\ ring[i] # None
  BY <1>1, RingJoinAssumption, PeersAre, EmptySeq, LenProperties DEF StartsAs, Peers
<1>3. \A i \in 1 .. L : /\ Behind(ring, i) \in 1 .. L /\ Before(ring, i) \in 1 .. L
                       /\ Before(ring, Behind(ring, i)) = i
  BY <1>2, PlacesAround
<1>4. \A i \in 1 .. L :
        /\ node[ring[i]].status = IF L = 1 THEN "ONE_RING" ELSE "MEMBER"
        /\ node[ring[i]].successor = ring[Behind(ring, i)]
        /\ node[ring[i]].predecessor = ring[Before(ring, i)]
        /\ Running(ring[i])
  BY <1>1 DEF StartsAs, Running
<1>5. \A n \in Peers : \/ \E i \in 1 .. L : n = ring[i]
                       \/ /\ ~Running(n) /\ node[n].status # "ONE_RING"
                          /\ node[n].successor = None
                          /\ n \in Joiners => node[n].predecessor = contact[n]
  BY <1>1 DEF StartsAs, Running
<1>6. \A j \in Joiners : /\ j \in Peers /\ pc[j] = "new" /\ answer[j].type = "none"
                         /\ \A n \in Peers : sent[j][n] = <<>>
  BY PeersAre DEF Init, Just
<1>7. CASE L = 1
  <2>1. Alone(ring[1])
    <3>1. Behind(ring, 1) = 1 /\ Before(ring, 1) = 1
      BY <1>7 DEF Behind, Before
    <3>2. <<>> \in Seq({"GET_REQ", "ONE_RING_JOIN_REQ"})
      BY EmptySeq
    <3>3. \A n \in Peers : Running(n) => n = ring[1]
      BY <1>5, <1>7
    <3>4. /\ node[ring[1]].status # "MEMBER" /\ node[ring[1]].successor = ring[1]
          /\ node[ring[1]].predecessor = ring[1] /\ ring[1] \in Nodes
      BY <1>2, <1>4, <1>7, <3>1
    <3> QED BY <1>6, <3>2, <3>3, <3>4 DEF Alone
  <2> QED BY <1>2, <1>7, <2>1 DEF RingInv
<1>8. CASE L # 1
  <2>1. ASSUME NEW n \in Peers PROVE node[n].status # "ONE_RING" /\ Linked(n)
    <3>1. CASE \E i \in 1 .. L : n = ring[i]
      <4>1. PICK i \in 1 .. L : n = ring[i]
        BY <3>1
      <4> DEFINE s == ring[Behind(ring, i)]
      <4>2. node[n].status = "MEMBER" /\ node[n].successor = s
            /\ node[n].predecessor \notin Joiners
        BY <1>2, <1>3, <1>4, <1>8, <4>1
      <4>3. Up(s) /\ node[s].predecessor = n
        BY <1>2, <1>3, <1>4, <4>1 DEF Up
      <4> HIDE DEF s
      <4> QED BY <4>2, <4>3 DEF Linked
    <3>2. CASE ~Running(n) /\ node[n].status # "ONE_RING"
      BY <3>2 DEF Linked
    <3> QED BY <1>5, <3>1, <3>2
  <2>2. ASSUME NEW j \in Joiners PROVE Joining(j)
    <3>1. \A n \in Peers : On(j, n) = {} /\ Orderly(sent[j][n])
      BY <1>6, EmptyMail
    <3>2. contact[j] \in Peers
      BY InitOK DEF JoinInv, ChannelsOK
    <3>3. ~Committing(j) /\ ~Told(j) /\ ~Accepted(j) /\ ~Heard(j) /\ ~Taken(j)
      BY <1>6, <3>1, <3>2 DEF Committing, Told, Accepted, Heard, Taken
    <3>4. ASSUME NEW n \in Peers PROVE node[n].successor # j
      <4>1. CASE \E i \in 1 .. L : n = ring[i]
        <5>1. PICK i \in 1 .. L : n = ring[i]
          BY <4>1
        <5>2. ring[Behind(ring, i)] \notin Joiners
          BY <1>2, <1>3
        <5> QED BY <1>4, <5>1, <5>2
      <4>2. CASE node[n].successor = None
        BY <1>6, <4>2, PeersAre
      <4> QED BY <1>5, <4>1, <4>2
    <3>5. Starting(j)
      <4>1. /\ ~Running(j) /\ node[j].successor = None
            /\ node[j].predecessor = contact[j]
        BY <1>2, <1>5, <1>6
      <4> QED BY <1>6, <4>1 DEF Starting
    <3>6. \A n \in Peers : MailOK(j, n) /\ Fresh(n, j)
      BY <3>1, <3>4 DEF MailOK, Fresh
    <3>7. Kept(j) /\ Promised(j) /\ Acknowledged(j)
      BY <1>6, <3>3 DEF Kept, Promised, Acknowledged
    <3> QED BY <3>5, <3>6, <3>7 DEF Joining
  <2>3. Distinct
    <3> SUFFICES ASSUME NEW m \in Peers, NEW n \in Peers, InRing(m), InRing(n),
                        node[m].successor = node[n].successor
                 PROVE  m = n
      BY DEF Distinct
    <3>1. Running(m) /\ Running(n)
      BY <1>6 DEF InRing, Taken
    <3>2. PICK i \in 1 .. L, k \in 1 .. L : m = ring[i] /\ n = ring[k]
      BY <1>5, <3>1
    <3>3. ring[Behind(ring, i)] = ring[Behind(ring, k)]
      BY <1>4, <3>2
    <3>4. Behind(ring, i) = Behind(ring, k)
      BY <1>1, <1>3, <3>3 DEF StartsAs
    <3> QED BY <1>3, <3>2, <3>4
  <2>4. Cycle
    <3> SUFFICES ASSUME NEW R \in SUBSET Peers, Shut(R), R \intersect Members # {}
                 PROVE  Members \subseteq R
      BY DEF Cycle
    <3>1. \A n \in Members : \E i \in 1 .. L : n = ring[i]
      BY <1>5 DEF Members
    <3>2. PICK i \in 1 .. L : ring[i] \in R
      BY <3>1
    <3>3. \A k \in 1 .. L : ring[k] \in R
      BY <1>1, <3>2, StartingCycle
    <3> QED BY <3>1, <3>3
  <2> QED BY <2>1, <2>2, <2>3, <2>4 DEF RingOf, RingInv
<1> QED BY <1>7, <1>8

-------------------------------------------------------------------------------
(* What the invariant is for *)

(* A member's successor serves, or is about to: its commit has gone through. *)
LEMMA SuccessorServes ==
    ASSUME JoinInv, RingOf, NoOrphan, NEW n \in Members
    PROVE  LET s == node[n].successor
           IN /\ s \in Peers
              /\ s \in Members \/ (pc[s] = "join_ack2" /\ node[s].successor \in Members)
<1> DEFINE s == node[n].successor
<1>1. n \in Peers /\ Running(n)
  BY DEF Members
<1>2. s \in Joiners \/ Up(s)
  BY <1>1 DEF RingOf, Linked
<1>3. CASE s \in Joiners
  <2>1. s \in Peers /\ Joining(s) /\ Fresh(n, s)
    BY <1>1, <1>3, PeersAre DEF RingOf, Joining
  <2>2. pc[s] \in {"join_ack2", "success"}
    BY <1>3, <2>1 DEF Fresh, NoOrphan, Failed
  <2>3. CASE pc[s] = "success"
    BY <2>1, <2>3 DEF Joining, Starting, Members
  <2>4. CASE pc[s] = "join_ack2"
    BY <2>1, <2>4 DEF Joining, Promised, Accepted, Up, Members
  <2> QED BY <2>1, <2>2, <2>3, <2>4
<1>4. CASE Up(s)
  BY <1>4 DEF Up, Members
<1> QED BY <1>2, <1>3, <1>4

LEMMA RingImpliesCycle == JoinInv /\ RingInv => SuccessorsFormARing
<1> SUFFICES ASSUME JoinInv, RingInv, ~contested, NoOrphan,
                    NEW n \in Members, NEW R \in SUBSET Address,
                    node[n].successor \in R, Closed(R)
             PROVE  Members \subseteq R
  BY DEF SuccessorsFormARing
<1>1. CASE RingOf
  <2> DEFINE S == R \ {None}
  <2>1. S \in SUBSET Peers /\ Shut(S)
    BY DEF Address, Closed, Shut
  <2>2. S \intersect Members # {}
    <3>1. CASE node[n].successor \in Members
      BY <3>1, PeersAre DEF Members
    <3>2. CASE node[node[n].successor].successor \in Members /\ node[n].successor \in Peers
      BY <3>2, PeersAre DEF Members, Closed
    <3> QED BY <1>1, <3>1, <3>2, SuccessorServes
  <2> HIDE DEF S
  <2>3. Members \subseteq S
    BY <1>1, <2>1, <2>2 DEF RingOf, Cycle
  <2> QED BY <2>3 DEF S
<1>2. CASE \E l \in Nodes : Alone(l)
  BY <1>2 DEF Alone, Members
<1> QED BY <1>1, <1>2 DEF RingInv

LEMMA RingImpliesNeighbours == JoinInv /\ RingInv => NeighboursAgree
<1> SUFFICES ASSUME JoinInv, RingInv, ~contested, NoOrphan, Quiet, NEW n \in Members
             PROVE  /\ node[n].successor \in Members
                    /\ node[node[n].successor].predecessor = n
  BY DEF NeighboursAgree
<1>1. n \in Peers /\ Running(n)
  BY DEF Members
<1>2. CASE RingOf
  <2>1. node[n].successor \in Members
    <3>1. CASE node[n].successor \in Joiners
      <4>1. pc[node[n].successor] # "join_ack2"
        BY <3>1 DEF Quiet, Waiting
      <4> QED BY <1>2, <4>1, SuccessorServes
    <3>2. CASE Up(node[n].successor)
      BY <3>2 DEF Up, Members
    <3> QED BY <1>1, <1>2, <3>1, <3>2 DEF RingOf, Linked
  <2>2. ~(n \in Joiners /\ Told(n))
    <3> SUFFICES ASSUME n \in Joiners, Told(n) PROVE FALSE
      OBVIOUS
    <3>1. sent[n][node[n].successor] = <<>> /\ node[n].successor \in Peers
      BY <2>1 DEF Quiet, Members
    <3>2. On(n, node[n].successor) = {}
      BY <3>1, EmptyMail
    <3> QED BY <3>2 DEF Told
  <2> QED BY <1>1, <1>2, <2>1, <2>2 DEF RingOf, Linked
<1>3. CASE \E l \in Nodes : Alone(l)
  <2>1. PICK l \in Nodes : Alone(l)
    BY <1>3
  <2>2. n = l
    BY <1>1, <2>1 DEF Alone
  <2> QED BY <2>1, <2>2 DEF Alone
<1> QED BY <1>2, <1>3 DEF RingInv

LEMMA RingImpliesPredecessors == RingInv => PredecessorHasJoined
<1> SUFFICES ASSUME RingInv, ~contested, NEW n \in Members, node[n].predecessor \in Joiners
             PROVE  pc[node[n].predecessor] = "success"
  BY DEF PredecessorHasJoined
<1>1. n \in Peers /\ Running(n)
  BY DEF Members
<1>2. CASE RingOf
  BY <1>1, <1>2 DEF RingOf, Linked
<1>3. CASE \E l \in Nodes : Alone(l)
  BY <1>1, <1>3, RingJoinAssumption DEF Alone
<1> QED BY <1>2, <1>3 DEF RingInv

(* Whatever joins are under way, refused or given up: as long as no request  *)
(* of one is taken for another's by the handlers of p2pmd_server.c, and no   *)
(* joiner gives up behind its JOIN_CMT, the successors make one ring of all  *)
(* members, those whose p2pm_join has returned success among them.           *)
THEOREM SuccessorsStayARing == Spec => []SuccessorsFormARing
<1>1. JoinInv /\ RingInv => SuccessorsFormARing
  BY RingImpliesCycle
<1> QED BY InitOK, StepOK, RingStart, RingStep, <1>1, PTL DEF Spec

(* Once all requests have been served, and under the same conditions, every  *)
(* member is its successor's predecessor: JOIN_CMT and PRED_JOIN_CMT leave   *)
(* the two ends of every connection with the same view of it.                *)
THEOREM NeighboursComeToAgree == Spec => []NeighboursAgree
<1>1. JoinInv /\ RingInv => NeighboursAgree
  BY RingImpliesNeighbours
<1> QED BY InitOK, StepOK, RingStart, RingStep, <1>1, PTL DEF Spec

(* _PRED_JOIN_CMT_handler makes only a joiner the predecessor that p2pm_join *)
(* has made a member: one that gives up takes its place at the successor     *)
(* back, or leaves it to the next joiner.                                    *)
THEOREM PredecessorsHaveJoined == Spec => []PredecessorHasJoined
<1>1. RingInv => PredecessorHasJoined
  BY RingImpliesPredecessors
<1> QED BY InitOK, StepOK, RingStart, RingStep, <1>1, PTL DEF Spec
===============================================================================
