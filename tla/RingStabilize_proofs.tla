------------------------- MODULE RingStabilize_proofs -------------------------
(***************************************************************************)
(* Proofs about the actors of a ring, for a ring of any size, successor    *)
(* lists of any length, and any number of crashes and tokens: types, and   *)
(* that a token is in one place, and gets lost only when a node is.  Then  *)
(* about the exchanges of the members of a ring that nobody has left: that *)
(* they damage no pointer and no list, that an answer comes where it is    *)
(* awaited, and that each is brought to its end.                           *)
(***************************************************************************)
EXTENDS RingStabilize, FiniteSetTheorems, SequenceTheorems, WellFoundedInduction, TLAPS

-------------------------------------------------------------------------------
(* Types *)

Links == Nodes \X Socks \X Nodes

(* A predecessor may have been set to an address that was reset.             *)
Targets == Nodes \X Socks \X (Nodes \cup {None})

Clock == {"running", "due", "reset"}

List == [1 .. RMax -> Nodes \cup {None}]

Frame == [type : {"PONG", "SYNC_SLIST_ACK"}] \cup [type : {"ACK"}, r : 0 .. RMax, list : List]

(* Who relays a successor list has been sent one that has steps to go.       *)
NodeOK(nd) ==
    /\ nd \in Node
    /\ "RELAY" \in {nd.trig, nd.pred_trig, nd.pred_xpv} => nd.last_ttl # 0

Types ==
    /\ node \in [Nodes -> Node] /\ \A n \in Nodes : NodeOK(node[n])
    /\ wire \in [Links -> Seq(Request)]
    /\ frames \in [Nodes -> [Socks -> Seq(Frame)]]
    /\ clock \in [Nodes -> Clock]
    /\ pipe \in [Nodes -> Seq(Tokens)]
    /\ arrived \in [Nodes -> Seq(Tokens)]
    /\ issued \in 0 .. MaxTokens

(* A turn, at any of its stages                                              *)
Sending == [link : Targets, msg : Request]

TurnRecord ==
    [self : Nodes, nd : Node, frames : [Socks -> Seq(Frame)], clock : Clock,
     link : Links \cup {None}, took : BOOLEAN, out : Seq(Sending),
     reply : Seq(Frame), up : Seq(Tokens)]

TurnOK(x) == x \in TurnRecord /\ NodeOK(x.nd)

(* From x to y a handler has not touched a token, and has sent k messages at *)
(* most, none of them a token.                                               *)
Plainly(x, y, k) ==
    /\ y.self = x.self /\ y.link = x.link /\ y.took = x.took /\ y.up = x.up
    /\ y.nd.send_token = x.nd.send_token /\ y.nd.recv_token = x.nd.recv_token
    /\ Len(x.out) <= Len(y.out) /\ Len(y.out) <= Len(x.out) + k
    /\ \A i \in 1 .. Len(x.out) : y.out[i] = x.out[i]
    /\ \A i \in Len(x.out) + 1 .. Len(y.out) : y.out[i].msg.type # "TOKEN"

-------------------------------------------------------------------------------
(* Handlers *)

LEMMA Bounds == /\ RMax \in Nat /\ RMax > 1 /\ 1 \in 1 .. RMax /\ 2 \in 1 .. RMax
                /\ None \notin Nodes /\ MaxTokens \in Nat
  BY RingAssumption

LEMMA Enumerated ==
    /\ "MEMBER" \in Status /\ "HANDLING_STABILIZE" \in Status
    /\ "NO" \in SuccXpv /\ "REQ" \in SuccXpv
    /\ "NO" \in Triggers /\ "REPLICATE" \in Triggers
  BY DEF Status, SuccXpv, Triggers

LEMMA PlainlyOne ==
    ASSUME NEW x, TurnOK(x), NEW y, TurnOK(y), NEW o \in Sending, o.msg.type # "TOKEN",
           y.out = Append(x.out, o),
           y.self = x.self, y.link = x.link, y.took = x.took, y.up = x.up,
           y.nd.send_token = x.nd.send_token, y.nd.recv_token = x.nd.recv_token
    PROVE  Plainly(x, y, 1)
<1>1. x.out \in Seq(Sending) /\ Len(x.out) \in Nat
  BY LenProperties DEF TurnOK, TurnRecord
<1>2. /\ Len(y.out) = Len(x.out) + 1
      /\ \A i \in 1 .. Len(x.out) : y.out[i] = x.out[i]
      /\ y.out[Len(x.out) + 1] = o
  BY <1>1, AppendProperties
<1>3. \A i \in Len(x.out) + 1 .. Len(y.out) : i = Len(x.out) + 1
  BY <1>1, <1>2
<1> QED BY <1>1, <1>2, <1>3 DEF Plainly

LEMMA PlainlyNone ==
    ASSUME NEW x, TurnOK(x), NEW y, NEW k \in Nat, y.out = x.out,
           y.self = x.self, y.link = x.link, y.took = x.took, y.up = x.up,
           y.nd.send_token = x.nd.send_token, y.nd.recv_token = x.nd.recv_token
    PROVE  Plainly(x, y, k)
<1>1. x.out \in Seq(Sending) /\ Len(x.out) \in Nat
  BY LenProperties DEF TurnOK, TurnRecord
<1> QED BY <1>1 DEF Plainly

LEMMA PlainlyTrans ==
    ASSUME NEW x, NEW y, NEW z, NEW j \in Nat, NEW k \in Nat,
           TurnOK(x), TurnOK(y), TurnOK(z), Plainly(x, y, j), Plainly(y, z, k)
    PROVE  Plainly(x, z, j + k)
<1>1. Len(x.out) \in Nat /\ Len(y.out) \in Nat /\ Len(z.out) \in Nat
  BY LenProperties DEF TurnOK, TurnRecord
<1>2. \A i \in 1 .. Len(x.out) : i \in 1 .. Len(y.out)
  BY <1>1 DEF Plainly
<1>3. \A i \in Len(x.out) + 1 .. Len(z.out) :
        i \in Len(x.out) + 1 .. Len(y.out) \/ i \in Len(y.out) + 1 .. Len(z.out)
  BY <1>1
<1>4. \A i \in Len(x.out) + 1 .. Len(y.out) : i \in 1 .. Len(y.out)
  BY <1>1
<1>5. Len(x.out) <= Len(z.out) /\ Len(z.out) <= Len(x.out) + (j + k)
  <2>1. PICK a, b, c : a = Len(x.out) /\ b = Len(y.out) /\ c = Len(z.out)
    OBVIOUS
  <2>2. a <= b /\ b <= a + j /\ b <= c /\ c <= b + k
    BY <2>1 DEF Plainly
  <2>3. a \in Nat /\ b \in Nat /\ c \in Nat
    BY <1>1, <2>1
  <2>4. a <= c /\ c <= a + (j + k)
    BY <2>2, <2>3
  <2> QED BY <2>1, <2>4
<1>6. \A i \in 1 .. Len(x.out) : z.out[i] = x.out[i]
  BY <1>2 DEF Plainly
<1>7. \A i \in Len(x.out) + 1 .. Len(z.out) : z.out[i].msg.type # "TOKEN"
  BY <1>3, <1>4 DEF Plainly
<1> QED BY <1>5, <1>6, <1>7 DEF Plainly

(* A message to the peer of socket s.                                        *)
LEMMA SendOK ==
    ASSUME NEW x, TurnOK(x), NEW s \in Socks, NEW m \in Request
    PROVE  LET y == Send(x, s, m)
               l == <<x.self, s, Peer(x.nd, s)>>
           IN /\ TurnOK(y) /\ y.nd = x.nd /\ y.frames = x.frames /\ y.clock = x.clock
              /\ y.reply = x.reply
              /\ l \in Targets /\ y.out = Append(x.out, [link |-> l, msg |-> m])
              /\ y.self = x.self /\ y.link = x.link /\ y.took = x.took /\ y.up = x.up
              /\ m.type # "TOKEN" => Plainly(x, y, 1)
<1> DEFINE y == Send(x, s, m)
           l == <<x.self, s, Peer(x.nd, s)>>
           o == [link |-> l, msg |-> m]
<1>1. x \in TurnRecord /\ x.nd \in Node /\ x.self \in Nodes
  BY DEF TurnOK, TurnRecord
<1>2. l \in Targets
  BY <1>1 DEF Peer, Node, Targets
<1>3. o \in Sending /\ Append(x.out, o) \in Seq(Sending)
  BY <1>1, <1>2, AppendProperties DEF Sending, TurnRecord
<1>4. y = [x EXCEPT !.out = Append(@, o)]
  BY DEF Send
<1> HIDE DEF o, l
<1>5. /\ y \in TurnRecord /\ y.out = Append(x.out, o)
      /\ y.nd = x.nd /\ y.frames = x.frames /\ y.clock = x.clock /\ y.reply = x.reply
      /\ y.self = x.self /\ y.link = x.link /\ y.took = x.took /\ y.up = x.up
  BY <1>1, <1>3, <1>4 DEF TurnRecord
<1> HIDE DEF y
<1>6. TurnOK(y)
  BY <1>5 DEF TurnOK
<1>7. m.type # "TOKEN" => Plainly(x, y, 1)
  <2>1. o.msg = m
    BY DEF o
  <2> QED BY <1>3, <1>5, <1>6, <2>1, PlainlyOne
<1> QED BY <1>2, <1>5, <1>6, <1>7 DEF y, l, o

(* From x to y a handler has sent nothing and not touched a token.           *)
Untouched(x, y) ==
    /\ TurnOK(y)
    /\ y.self = x.self /\ y.link = x.link /\ y.took = x.took /\ y.up = x.up /\ y.out = x.out
    /\ y.nd.send_token = x.nd.send_token /\ y.nd.recv_token = x.nd.recv_token

LEMMA UntouchedIsPlain ==
    ASSUME NEW x, TurnOK(x), NEW y, Untouched(x, y), NEW k \in Nat
    PROVE  Plainly(x, y, k)
  BY PlainlyNone DEF Untouched

LEMMA NodeChange ==
    ASSUME NEW x, TurnOK(x), NEW nd, NodeOK(nd),
           nd.send_token = x.nd.send_token, nd.recv_token = x.nd.recv_token
    PROVE  LET y == [x EXCEPT !.nd = nd]
           IN Untouched(x, y) /\ y.nd = nd /\ y.frames = x.frames
<1> DEFINE y == [x EXCEPT !.nd = nd]
<1>1. /\ y \in TurnRecord /\ y.nd = nd /\ y.out = x.out /\ y.frames = x.frames
      /\ y.self = x.self /\ y.link = x.link /\ y.took = x.took /\ y.up = x.up
  BY DEF TurnOK, NodeOK, TurnRecord
<1> HIDE DEF y
<1>2. Untouched(x, y)
  BY <1>1 DEF TurnOK, Untouched
<1> QED BY <1>1, <1>2 DEF y

LEMMA ConnectOK ==
    ASSUME NEW x, TurnOK(x), NEW s \in Socks
    PROVE  Untouched(x, Connect(x, s)) /\ Connect(x, s).nd = x.nd
<1>1. <<>> \in Seq(Frame)
  BY EmptySeq
<1> QED BY <1>1 DEF Connect, TurnOK, TurnRecord, Untouched

LEMMA DropOK ==
    ASSUME NEW x, TurnOK(x), NEW s \in Socks
    PROVE  Untouched(x, Drop(x, s)) /\ Drop(x, s).nd = x.nd
<1>1. \A q \in Seq(Frame) : q # <<>> => Tail(q) \in Seq(Frame)
  BY HeadTailProperties
<1> QED BY <1>1 DEF Drop, TurnOK, TurnRecord, Untouched

LEMMA CopyOK ==
    ASSUME NEW nd, NodeOK(nd), NEW l \in List, NEW r \in 1 .. RMax
    PROVE  LET c == CopySuccessorList(nd, l, r)
           IN NodeOK(c) /\ c.send_token = nd.send_token /\ c.recv_token = nd.recv_token
              /\ c.pc = nd.pc /\ c.status = nd.status /\ c.trig = nd.trig
              /\ c.pred_trig = nd.pred_trig /\ c.pred_xpv = nd.pred_xpv
<1> DEFINE k == IF r + 1 > RMax THEN RMax - 1 ELSE r
           new == [i \in 1 .. RMax |-> IF i \in 2 .. k + 1 THEN l[i - 1] ELSE nd.successor_list[i]]
<1>1. k \in Nat /\ k + 1 \in 0 .. RMax
  BY Bounds
<1>2. nd \in Node /\ nd.successor_list \in List
  BY DEF NodeOK, Node, List
<1>3. new \in List
  <2>1. \A i \in 1 .. RMax : i \in 2 .. k + 1 => i - 1 \in 1 .. RMax
    BY <1>1, Bounds
  <2> QED BY <1>2, <2>1 DEF List
<1>4. CopySuccessorList(nd, l, r) = [nd EXCEPT !.r = k + 1, !.successor_list = new]
  BY <1>2 DEF CopySuccessorList, Node
<1> DEFINE c == CopySuccessorList(nd, l, r)
           k1 == k + 1
<1>5. k1 \in 0 .. RMax /\ c = [nd EXCEPT !.r = k1, !.successor_list = new]
  BY <1>1, <1>4
<1> HIDE DEF new, k, k1, c
<1>6. /\ c \in Node /\ c.pc = nd.pc /\ c.status = nd.status /\ c.trig = nd.trig
      /\ c.pred_trig = nd.pred_trig /\ c.pred_xpv = nd.pred_xpv /\ c.last_ttl = nd.last_ttl
      /\ c.send_token = nd.send_token /\ c.recv_token = nd.recv_token
  BY <1>2, <1>3, <1>5 DEF Node, List
<1>7. NodeOK(c)
  BY <1>6 DEF NodeOK
<1> QED BY <1>6, <1>7 DEF c

-------------------------------------------------------------------------------
(* The server's handlers *)

(* What a handler makes of the turn x when it is given a request that is no  *)
(* token: y.                                                                 *)
Handled(x, y) == Untouched(x, y) /\ y.nd.pc = x.nd.pc

LEMMA PingReqOK == ASSUME NEW x, TurnOK(x) PROVE Handled(x, PingReq(x))
<1>1. <<[type |-> "PONG"]>> \in Seq(Frame)
  BY DEF Frame
<1> QED BY <1>1 DEF Handled, Untouched, PingReq, TurnOK, TurnRecord

LEMMA StabilizeReqOK ==
    ASSUME NEW x, TurnOK(x), NEW from \in Nodes PROVE Handled(x, StabilizeReq(x, from))
<1> DEFINE f == [type |-> "ACK", r |-> x.nd.r, list |-> x.nd.successor_list]
           nd == [x.nd EXCEPT !.status = "HANDLING_STABILIZE", !.temp_predecessor = from]
<1>1. x \in TurnRecord /\ x.nd \in Node /\ NodeOK(x.nd)
  BY DEF TurnOK, TurnRecord
<1>2. <<f>> \in Seq(Frame)
  BY <1>1 DEF Frame, Node, List
<1>3. /\ NodeOK(nd) /\ nd.send_token = x.nd.send_token /\ nd.recv_token = x.nd.recv_token
      /\ nd.pc = x.nd.pc
  BY <1>1 DEF NodeOK, Node, Status
<1>4. StabilizeReq(x, from) \in {x, [x EXCEPT !.nd = nd, !.reply = <<f>>]}
  BY <1>1 DEF StabilizeReq, TurnRecord
<1> HIDE DEF f, nd
<1> QED BY <1>1, <1>2, <1>3, <1>4 DEF Handled, Untouched, TurnOK, TurnRecord, NodeOK

LEMMA StabilizeSynReqOK ==
    ASSUME NEW x, TurnOK(x) PROVE Handled(x, StabilizeSynReq(x))
<1>1. x \in TurnRecord /\ x.nd \in Node /\ NodeOK(x.nd)
  BY DEF TurnOK, TurnRecord
<1>2. CASE x.nd.status # "HANDLING_STABILIZE"
  <2> DEFINE nd == [x.nd EXCEPT !.temp_predecessor = None]
  <2>1. /\ NodeOK(nd) /\ nd.send_token = x.nd.send_token /\ nd.recv_token = x.nd.recv_token
        /\ nd.pc = x.nd.pc
    BY <1>1 DEF NodeOK, Node
  <2>2. StabilizeSynReq(x) = [x EXCEPT !.nd = nd]
    BY <1>1, <1>2 DEF StabilizeSynReq, TurnRecord
  <2> HIDE DEF nd
  <2> QED BY <1>1, <2>1, <2>2 DEF Handled, Untouched, TurnOK, TurnRecord, NodeOK
<1>3. CASE x.nd.status = "HANDLING_STABILIZE"
  <2> DEFINE nd == [x.nd EXCEPT !.predecessor = x.nd.temp_predecessor,
                                !.temp_predecessor = None,
                                !.trig = "NO", !.status = "MEMBER"]
             y == [x EXCEPT !.nd = nd]
  <2>1. /\ NodeOK(nd) /\ nd.send_token = x.nd.send_token /\ nd.recv_token = x.nd.recv_token
        /\ nd.pc = x.nd.pc
    <3>1. x.nd.temp_predecessor \in Nodes \cup {None}
      BY <1>1 DEF Node
    <3>2. /\ nd \in Node /\ nd.trig = "NO" /\ nd.pred_trig = x.nd.pred_trig
          /\ nd.pred_xpv = x.nd.pred_xpv /\ nd.last_ttl = x.nd.last_ttl
          /\ nd.send_token = x.nd.send_token /\ nd.recv_token = x.nd.recv_token
          /\ nd.pc = x.nd.pc
      BY <1>1, <3>1, Enumerated DEF Node
    <3> HIDE DEF nd
    <3> QED BY <1>1, <3>2 DEF NodeOK
  <2>2. StabilizeSynReq(x) \in {y, Connect(y, "pred")}
    BY <1>1, <1>3 DEF StabilizeSynReq, TurnRecord
  <2> HIDE DEF nd
  <2>3. Untouched(x, y) /\ y.nd = nd
    BY <2>1, NodeChange
  <2> HIDE DEF y
  <2>4. Untouched(y, Connect(y, "pred")) /\ Connect(y, "pred").nd = nd
    BY <2>3, ConnectOK DEF Untouched, Socks
  <2> QED BY <2>1, <2>2, <2>3, <2>4 DEF Handled, Untouched
<1> QED BY <1>2, <1>3

LEMMA StabilizeNsynReqOK ==
    ASSUME NEW x, TurnOK(x) PROVE Handled(x, StabilizeNsynReq(x))
<1> DEFINE nd == [x.nd EXCEPT !.temp_predecessor = None,
                              !.status = IF @ = "HANDLING_STABILIZE" THEN "MEMBER" ELSE @]
<1>1. x \in TurnRecord /\ x.nd \in Node /\ NodeOK(x.nd)
  BY DEF TurnOK, TurnRecord
<1>2. /\ NodeOK(nd) /\ nd.send_token = x.nd.send_token /\ nd.recv_token = x.nd.recv_token
      /\ nd.pc = x.nd.pc
  <2>1. PICK v : v = IF x.nd.status = "HANDLING_STABILIZE" THEN "MEMBER" ELSE x.nd.status
    OBVIOUS
  <2>2. v \in Status
    BY <1>1, <2>1, Enumerated DEF Node
  <2>3. nd = [x.nd EXCEPT !.temp_predecessor = None, !.status = v]
    BY <1>1, <2>1 DEF Node
  <2> HIDE DEF nd
  <2>4. /\ nd \in Node /\ nd.trig = x.nd.trig /\ nd.pred_trig = x.nd.pred_trig
        /\ nd.pred_xpv = x.nd.pred_xpv /\ nd.last_ttl = x.nd.last_ttl
        /\ nd.send_token = x.nd.send_token /\ nd.recv_token = x.nd.recv_token
        /\ nd.pc = x.nd.pc
    BY <1>1, <2>2, <2>3 DEF Node
  <2> QED BY <1>1, <2>4 DEF NodeOK
<1>3. StabilizeNsynReq(x) = [x EXCEPT !.nd = nd]
  BY <1>1 DEF StabilizeNsynReq, TurnRecord
<1> HIDE DEF nd
<1> QED BY <1>2, <1>3, NodeChange DEF Handled

LEMMA SyncSlistOK ==
    ASSUME NEW x, TurnOK(x), NEW m \in Request, m.type = "SYNC_SLIST"
    PROVE  Handled(x, SyncSlist(x, m))
<1> DEFINE y == [x EXCEPT !.reply = <<[type |-> "SYNC_SLIST_ACK"]>>]
           c == CopySuccessorList(x.nd, m.list, m.r)
           nd == [c EXCEPT !.last_ttl = m.ttl - 1, !.trig = "RELAY"]
<1>1. x \in TurnRecord /\ x.nd \in Node /\ NodeOK(x.nd)
  BY DEF TurnOK, TurnRecord
<1>2. m.ttl \in 1 .. RMax /\ m.list \in List
  BY DEF Request, List
<1>3. Untouched(x, y) /\ y.nd = x.nd /\ TurnOK(y)
  <2>1. <<[type |-> "SYNC_SLIST_ACK"]>> \in Seq(Frame)
    BY DEF Frame
  <2> QED BY <1>1, <2>1 DEF Untouched, TurnOK, TurnRecord
<1>4. CASE m.r \in 1 .. RMax /\ m.ttl - 1 > 0
  <2>1. NodeOK(c) /\ c.send_token = x.nd.send_token /\ c.recv_token = x.nd.recv_token
        /\ c.pc = x.nd.pc
    BY <1>1, <1>2, <1>4, CopyOK
  <2>2. SyncSlist(x, m) = [y EXCEPT !.nd = nd]
    BY <1>1, <1>3, <1>4 DEF SyncSlist
  <2> HIDE DEF c
  <2>3. /\ NodeOK(nd) /\ nd.send_token = x.nd.send_token /\ nd.recv_token = x.nd.recv_token
        /\ nd.pc = x.nd.pc
    <3>1. m.ttl - 1 \in 0 .. RMax /\ m.ttl - 1 # 0
      BY <1>2, <1>4, Bounds
    <3>2. c \in Node
      BY <2>1 DEF NodeOK
    <3> DEFINE ttl == m.ttl - 1
    <3> HIDE DEF ttl
    <3>3. /\ nd \in Node /\ nd.last_ttl = ttl
          /\ nd.send_token = c.send_token /\ nd.recv_token = c.recv_token /\ nd.pc = c.pc
      BY <3>1, <3>2 DEF Node, Triggers, ttl
    <3> QED BY <2>1, <3>1, <3>3 DEF NodeOK, ttl
  <2> HIDE DEF nd, y
  <2>4. Untouched(y, [y EXCEPT !.nd = nd]) /\ [y EXCEPT !.nd = nd].nd = nd
    BY <1>3, <2>3, NodeChange
  <2> QED BY <1>3, <2>2, <2>3, <2>4 DEF Handled, Untouched
<1>5. CASE ~(m.r \in 1 .. RMax /\ m.ttl - 1 > 0)
  <2>1. SyncSlist(x, m) \in {x, y}
    BY <1>5 DEF SyncSlist
  <2> HIDE DEF y
  <2> QED BY <1>3, <2>1 DEF Handled, Untouched
<1> QED BY <1>4, <1>5

(* The token in a request goes into the slot for tokens received.            *)
LEMMA HandleOK ==
    ASSUME NEW x, TurnOK(x), NEW from \in Nodes, NEW m \in Request
    PROVE  LET y == Handle(x, from, m)
           IN /\ m.type # "TOKEN" => Handled(x, y)
              /\ m.type = "TOKEN" =>
                   /\ TurnOK(y) /\ y.nd.pc = x.nd.pc
                   /\ y.self = x.self /\ y.link = x.link /\ y.took = x.took
                   /\ y.up = x.up /\ y.out = x.out
                   /\ y.nd.send_token = x.nd.send_token /\ y.nd.recv_token = m.token
<1>1. x \in TurnRecord /\ x.nd \in Node /\ NodeOK(x.nd)
  BY DEF TurnOK, TurnRecord
<1>2. CASE m.type = "PING"
  BY <1>2, PingReqOK DEF Handle
<1>3. CASE m.type = "STABILIZE_REQ"
  BY <1>3, StabilizeReqOK DEF Handle
<1>4. CASE m.type = "SYN"
  BY <1>4, StabilizeSynReqOK DEF Handle
<1>5. CASE m.type = "NSYN"
  BY <1>5, StabilizeNsynReqOK DEF Handle
<1>6. CASE m.type = "SYNC_SLIST"
  BY <1>6, SyncSlistOK DEF Handle
<1>7. CASE m.type = "FIND_HEAD"
  <2>1. Handle(x, from, m) = x
    BY <1>7 DEF Handle
  <2> QED BY <1>1, <1>7, <2>1 DEF Handled, Untouched
<1>8. CASE m.type = "TOKEN"
  <2> DEFINE nd == [x.nd EXCEPT !.recv_token = m.token]
  <2>1. m.token \in Tokens
    BY <1>8 DEF Request
  <2>2. /\ NodeOK(nd) /\ nd.send_token = x.nd.send_token /\ nd.recv_token = m.token
        /\ nd.pc = x.nd.pc
    BY <1>1, <2>1 DEF NodeOK, Node
  <2>3. Handle(x, from, m) = [x EXCEPT !.nd = nd]
    BY <1>1, <1>8 DEF Handle, TokenReq, TurnRecord
  <2> HIDE DEF nd
  <2> QED BY <1>1, <1>8, <2>2, <2>3 DEF TurnOK, NodeOK, TurnRecord
<1>9. m.type \in {"PING", "STABILIZE_REQ", "SYN", "NSYN", "FIND_HEAD", "SYNC_SLIST", "TOKEN"}
  BY DEF Request
<1> QED BY <1>2, <1>3, <1>4, <1>5, <1>6, <1>7, <1>8, <1>9
LEMMA MinimalNumber ==
    ASSUME NEW R, IsWellFoundedOn(R, Nat), NEW T, T \subseteq Nat, T # {}
    PROVE  \E n \in T : \A m \in T : ~(<<m, n>> \in R)
  BY WFMin

LEMMA LeastBy ==
    ASSUME NEW R, IsWellFoundedOn(R, Nat), \A m, n \in Nat : m < n => <<m, n>> \in R,
           NEW T \in SUBSET Nat, T # {}
    PROVE  \E n \in T : \A m \in T : n <= m
<1>1. PICK n \in T : \A m \in T : ~(<<m, n>> \in R)
  BY MinimalNumber
<1>2. ASSUME NEW m \in T PROVE n <= m
  <2>1. m \in Nat /\ n \in Nat
    OBVIOUS
  <2>2. m < n => <<m, n>> \in R
    BY <2>1
  <2> QED BY <1>1, <2>1, <2>2
<1> QED BY <1>2

LEMMA LeastNumber ==
    ASSUME NEW T \in SUBSET Nat, T # {}
    PROVE  \E n \in T : \A m \in T : n <= m
<1>1. \A m, n \in Nat : m < n => <<m, n>> \in OpToRel(<, Nat)
  BY DEF OpToRel
<1> QED BY <1>1, NatLessThanWellFounded, LeastBy

-------------------------------------------------------------------------------
(* The successor's socket *)

(* A handler's step from x to y: k messages at most, none of them a token.   *)
Step(x, y, k) == TurnOK(y) /\ Plainly(x, y, k) /\ y.nd.pc = x.nd.pc

LEMMA HandledIsStep ==
    ASSUME NEW x, TurnOK(x), NEW y, Handled(x, y), NEW k \in Nat
    PROVE  Step(x, y, k)
<1>1. Untouched(x, y) /\ TurnOK(y) /\ y.nd.pc = x.nd.pc
  BY DEF Handled, Untouched
<1>2. Plainly(x, y, k)
  BY <1>1, UntouchedIsPlain
<1> QED BY <1>1, <1>2 DEF Step

LEMMA StepTrans ==
    ASSUME NEW x, TurnOK(x), NEW y, NEW z, NEW j \in Nat, NEW k \in Nat,
           Step(x, y, j), Step(y, z, k)
    PROVE  Step(x, z, j + k)
  BY PlainlyTrans DEF Step

(* A message to the peer of socket s and a change of the node.               *)
LEMMA SendAs ==
    ASSUME NEW x, TurnOK(x), NEW s \in Socks, NEW m \in Request, m.type # "TOKEN",
           NEW nd, NodeOK(nd), nd.send_token = x.nd.send_token,
           nd.recv_token = x.nd.recv_token, nd.pc = x.nd.pc
    PROVE  LET y == [Send(x, s, m) EXCEPT !.nd = nd]
           IN Step(x, y, 1) /\ y.nd = nd /\ y.frames = x.frames
<1> DEFINE z == Send(x, s, m)
           y == [z EXCEPT !.nd = nd]
<1>1. TurnOK(z) /\ z.nd = x.nd /\ z.frames = x.frames /\ Plainly(x, z, 1)
  BY SendOK
<1> HIDE DEF z
<1>2. Untouched(z, y) /\ y.nd = nd /\ y.frames = z.frames
  BY <1>1, NodeChange
<1> HIDE DEF y
<1>3. TurnOK(y) /\ Plainly(z, y, 0)
  BY <1>1, <1>2, UntouchedIsPlain DEF Untouched
<1>4. Plainly(x, y, 1 + 0)
  BY <1>1, <1>3, PlainlyTrans
<1>5. Plainly(x, y, 1)
  BY <1>4
<1> QED BY <1>1, <1>2, <1>3, <1>5 DEF Step, y, z

LEMMA Requests ==
    /\ \A t \in {"PING", "STABILIZE_REQ", "SYN", "NSYN", "FIND_HEAD"} :
         [type |-> t] \in Request /\ [type |-> t].type # "TOKEN"
    /\ Ping \in Request /\ Ping.type # "TOKEN"
    /\ \A t \in Tokens : [type |-> "TOKEN", token |-> t] \in Request
  BY DEF Request, Ping

LEMMA PongExpectedOK ==
    ASSUME NEW x, TurnOK(x), NEW f \in Frame
    PROVE  Step(x, PongExpected(x, f), 1)
<1>1. x \in TurnRecord /\ x.nd \in Node /\ NodeOK(x.nd) /\ "succ" \in Socks
  BY DEF TurnOK, TurnRecord, Socks
<1>2. ASSUME NEW m \in Request, m.type # "TOKEN", NEW v \in SuccXpv
      PROVE  Step(x, [Send(x, "succ", m) EXCEPT !.nd.succ_xpv = v], 1)
  <2> DEFINE z == Send(x, "succ", m)
             nd == [x.nd EXCEPT !.succ_xpv = v]
  <2>1. /\ NodeOK(nd) /\ nd.send_token = x.nd.send_token /\ nd.recv_token = x.nd.recv_token
        /\ nd.pc = x.nd.pc
    BY <1>1 DEF NodeOK, Node
  <2>2. z \in TurnRecord /\ z.nd = x.nd
    BY <1>1, SendOK DEF TurnOK
  <2> HIDE DEF z
  <2>3. [z EXCEPT !.nd.succ_xpv = v] = [z EXCEPT !.nd = nd]
    BY <2>2 DEF TurnRecord
  <2> HIDE DEF nd
  <2> QED BY <1>1, <1>2, <2>1, <2>3, SendAs DEF z
<1> DEFINE m == [type |-> "STABILIZE_REQ"]
<1>3. /\ m \in Request /\ m.type # "TOKEN" /\ Ping \in Request /\ Ping.type # "TOKEN"
      /\ "ACK" \in SuccXpv /\ "FAILURE" \in SuccXpv
  BY Requests DEF SuccXpv
<1>4. PongExpected(x, f) = IF f.type = "PONG" THEN [Send(x, "succ", m) EXCEPT !.nd.succ_xpv = "ACK"]
                           ELSE [Send(x, "succ", Ping) EXCEPT !.nd.succ_xpv = "FAILURE"]
  BY DEF PongExpected
<1> HIDE DEF m
<1>5. CASE f.type = "PONG"
  BY <1>2, <1>3, <1>4, <1>5
<1>6. CASE f.type # "PONG"
  BY <1>2, <1>3, <1>4, <1>6
<1> QED BY <1>5, <1>6

LEMMA AckExpectedOK ==
    ASSUME NEW x, TurnOK(x), NEW f \in Frame
    PROVE  Step(x, AckExpected(x, f), 1)
<1>1. x \in TurnRecord /\ x.nd \in Node /\ NodeOK(x.nd) /\ "succ" \in Socks
  BY DEF TurnOK, TurnRecord, Socks
<1>2. CASE f.type # "ACK" \/ f.r \notin 1 .. RMax
  <2> DEFINE m == [type |-> "NSYN"]
             z == Send(x, "succ", m)
             nd == [x.nd EXCEPT !.succ_xpv = "FAILURE"]
  <2>1. /\ NodeOK(nd) /\ nd.send_token = x.nd.send_token /\ nd.recv_token = x.nd.recv_token
        /\ nd.pc = x.nd.pc
    BY <1>1 DEF NodeOK, Node, SuccXpv
  <2>2. m \in Request /\ m.type # "TOKEN"
    BY Requests
  <2>3. AckExpected(x, f) = [z EXCEPT !.nd.succ_xpv = "FAILURE"]
    BY <1>2 DEF AckExpected
  <2> HIDE DEF m
  <2>4. z \in TurnRecord /\ z.nd = x.nd
    BY <1>1, <2>2, SendOK DEF TurnOK
  <2> HIDE DEF z
  <2>5. AckExpected(x, f) = [z EXCEPT !.nd = nd]
    BY <2>3, <2>4 DEF TurnRecord
  <2> HIDE DEF nd
  <2> QED BY <1>1, <2>1, <2>2, <2>5, SendAs DEF z
<1>3. CASE f.type = "ACK" /\ f.r \in 1 .. RMax
  <2> DEFINE m == [type |-> "SYN"]
             c == CopySuccessorList(x.nd, f.list, f.r)
             nd == [c EXCEPT !.trig = "REPLICATE", !.succ_xpv = "NO", !.status = "MEMBER"]
             y == [x EXCEPT !.nd = nd]
  <2>1. f.list \in List
    BY <1>3 DEF Frame
  <2>2. /\ NodeOK(c) /\ c.send_token = x.nd.send_token /\ c.recv_token = x.nd.recv_token
        /\ c.pc = x.nd.pc
    BY <1>1, <1>3, <2>1, CopyOK
  <2>3. AckExpected(x, f) = Send(y, "succ", m)
    BY <1>1, <1>3 DEF AckExpected, TurnRecord
  <2>4. m \in Request /\ m.type # "TOKEN"
    BY Requests
  <2> HIDE DEF c, m
  <2>5. /\ NodeOK(nd) /\ nd.send_token = x.nd.send_token /\ nd.recv_token = x.nd.recv_token
        /\ nd.pc = x.nd.pc
    <3>1. c \in Node
      BY <2>2 DEF NodeOK
    <3>2. /\ nd \in Node /\ nd.trig = "REPLICATE" /\ nd.pred_trig = c.pred_trig
          /\ nd.pred_xpv = c.pred_xpv /\ nd.last_ttl = c.last_ttl
          /\ nd.send_token = c.send_token /\ nd.recv_token = c.recv_token /\ nd.pc = c.pc
      BY <3>1, Enumerated DEF Node
    <3> QED BY <2>2, <3>2 DEF NodeOK
  <2> HIDE DEF nd
  <2>6. Untouched(x, y) /\ y.nd = nd
    BY <2>5, NodeChange
  <2> HIDE DEF y
  <2>7. Step(x, y, 0)
    BY <2>5, <2>6, HandledIsStep DEF Handled
  <2>8. Step(y, Send(y, "succ", m), 1)
    BY <1>1, <2>4, <2>7, SendOK DEF Step
  <2>9. Step(x, Send(y, "succ", m), 0 + 1)
    BY <2>7, <2>8, StepTrans
  <2> QED BY <2>3, <2>9
<1> QED BY <1>2, <1>3

LEMMA NextSuccessorOK ==
    ASSUME NEW x, TurnOK(x) PROVE Step(x, NextSuccessor(x), 0)
<1>1. x \in TurnRecord /\ x.nd \in Node /\ NodeOK(x.nd) /\ x.nd.successor_list \in List
  BY DEF TurnOK, TurnRecord, NodeOK, Node, List
<1>2. CASE x.nd.successor_list[2] # None
  <2> DEFINE b == [x.nd EXCEPT !.successor_list[1] = x.nd.successor_list[2]]
             c == Condense(b)
             nd == [c EXCEPT !.successor = c.successor_list[1], !.succ_xpv = "REQ"]
             y == [x EXCEPT !.nd = nd]
  <2>4. NextSuccessor(x) = Connect(y, "succ")
    BY <1>2 DEF NextSuccessor
  <2>1. x.nd.successor_list[2] \in Nodes
    BY <1>1, <1>2, Bounds DEF List
  <2>2. /\ NodeOK(b) /\ b.successor_list[1] \in Nodes
        /\ b.send_token = x.nd.send_token /\ b.recv_token = x.nd.recv_token /\ b.pc = x.nd.pc
    BY <1>1, <2>1, Bounds DEF NodeOK, Node
  <2> HIDE DEF b
  <2>3. /\ NodeOK(c) /\ c.successor_list[1] \in Nodes
        /\ c.send_token = x.nd.send_token /\ c.recv_token = x.nd.recv_token /\ c.pc = x.nd.pc
    <3>1. b.successor_list \in List /\ [b.successor_list EXCEPT ![2] = None] \in List
      BY <2>2 DEF NodeOK, Node, List
    <3>2. [b.successor_list EXCEPT ![2] = None][1] = b.successor_list[1]
      BY <3>1, Bounds DEF List
    <3> DEFINE l == [b.successor_list EXCEPT ![2] = None]
    <3>3. c \in {b, [b EXCEPT !.successor_list = l]}
      BY <2>2 DEF Condense, NodeOK, Node
    <3> HIDE DEF l, c
    <3>4. l \in List /\ l[1] \in Nodes
      BY <2>2, <3>1, <3>2 DEF l
    <3>5. /\ c \in Node /\ c.pc = b.pc /\ c.trig = b.trig /\ c.pred_trig = b.pred_trig
          /\ c.pred_xpv = b.pred_xpv /\ c.last_ttl = b.last_ttl
          /\ c.send_token = b.send_token /\ c.recv_token = b.recv_token
      BY <2>2, <3>3, <3>4 DEF NodeOK, Node, List
    <3>6. c.successor_list \in {b.successor_list, l}
      BY <2>2, <3>3, <3>4 DEF NodeOK, Node, List
    <3> QED BY <2>2, <3>4, <3>5, <3>6 DEF NodeOK
  <2> HIDE DEF c
  <2>5. /\ NodeOK(nd) /\ nd.send_token = x.nd.send_token /\ nd.recv_token = x.nd.recv_token
        /\ nd.pc = x.nd.pc
    <3>1. c \in Node /\ c.successor_list[1] \in Nodes
      BY <2>3 DEF NodeOK
    <3>2. /\ nd \in Node /\ nd.pc = c.pc /\ nd.trig = c.trig /\ nd.pred_trig = c.pred_trig
          /\ nd.pred_xpv = c.pred_xpv /\ nd.last_ttl = c.last_ttl
          /\ nd.send_token = c.send_token /\ nd.recv_token = c.recv_token
      BY <3>1, Enumerated DEF Node
    <3> HIDE DEF nd
    <3> QED BY <2>3, <3>2 DEF NodeOK
  <2> HIDE DEF nd
  <2>6. Untouched(x, y) /\ y.nd = nd /\ TurnOK(y)
    BY <2>5, NodeChange DEF Untouched
  <2> HIDE DEF y
  <2>7. Untouched(y, Connect(y, "succ")) /\ Connect(y, "succ").nd = nd
    BY <2>6, ConnectOK DEF Socks
  <2>8. Handled(x, Connect(y, "succ"))
    BY <2>5, <2>6, <2>7 DEF Handled, Untouched
  <2> QED BY <2>4, <2>8, HandledIsStep
<1>3. CASE x.nd.successor_list[2] = None
  <2> DEFINE nd == [x.nd EXCEPT !.trig = "FIND_HEAD", !.status = "FINDING_HEAD",
                                !.succ_xpv = "NO"]
  <2>1. /\ NodeOK(nd) /\ nd.send_token = x.nd.send_token /\ nd.recv_token = x.nd.recv_token
        /\ nd.pc = x.nd.pc
    <3>1. ASSUME NEW a \in Node
          PROVE  LET b == [a EXCEPT !.trig = "FIND_HEAD", !.status = "FINDING_HEAD",
                                    !.succ_xpv = "NO"]
                 IN /\ b \in Node /\ b.trig = "FIND_HEAD" /\ b.pred_trig = a.pred_trig
                    /\ b.pred_xpv = a.pred_xpv /\ b.last_ttl = a.last_ttl
                    /\ b.send_token = a.send_token /\ b.recv_token = a.recv_token
                    /\ b.pc = a.pc
      <4> DEFINE b == [a EXCEPT !.trig = "FIND_HEAD", !.status = "FINDING_HEAD",
                                !.succ_xpv = "NO"]
      <4>1. /\ "FIND_HEAD" \in Triggers /\ "FINDING_HEAD" \in Status /\ "NO" \in SuccXpv
        BY DEF SuccXpv, Triggers, Status
      <4>2. b \in Node
        BY <4>1 DEF Node
      <4>3. /\ b.trig = "FIND_HEAD" /\ b.pred_trig = a.pred_trig
            /\ b.pred_xpv = a.pred_xpv /\ b.last_ttl = a.last_ttl
        BY DEF Node
      <4>4. /\ b.send_token = a.send_token /\ b.recv_token = a.recv_token
            /\ b.pc = a.pc
        BY DEF Node
      <4> QED BY <4>2, <4>3, <4>4
    <3>2. x.nd \in Node
      BY <1>1
    <3>3. /\ nd \in Node /\ nd.trig = "FIND_HEAD" /\ nd.pred_trig = x.nd.pred_trig
          /\ nd.pred_xpv = x.nd.pred_xpv /\ nd.last_ttl = x.nd.last_ttl
          /\ nd.send_token = x.nd.send_token /\ nd.recv_token = x.nd.recv_token
          /\ nd.pc = x.nd.pc
      BY <3>1, <3>2
    <3> HIDE DEF nd
    <3> QED BY <1>1, <3>3 DEF NodeOK
  <2>2. NextSuccessor(x) = [x EXCEPT !.nd = nd]
    BY <1>1, <1>3 DEF NextSuccessor, TurnRecord
  <2> HIDE DEF nd
  <2>3. Handled(x, NextSuccessor(x))
    BY <2>1, <2>2, NodeChange DEF Handled
  <2> QED BY <2>3, HandledIsStep
<1> QED BY <1>2, <1>3

(* A message, and a new expectation of an answer.                            *)
LEMMA SendAndExpect ==
    ASSUME NEW x, TurnOK(x), NEW s \in Socks, NEW m \in Request, m.type # "TOKEN",
           NEW v \in SuccXpv
    PROVE  Step(x, [Send(x, s, m) EXCEPT !.nd.succ_xpv = v], 1)
<1> DEFINE z == Send(x, s, m)
           nd == [x.nd EXCEPT !.succ_xpv = v]
<1>1. x \in TurnRecord /\ x.nd \in Node /\ NodeOK(x.nd)
  BY DEF TurnOK, TurnRecord
<1>2. /\ NodeOK(nd) /\ nd.send_token = x.nd.send_token /\ nd.recv_token = x.nd.recv_token
      /\ nd.pc = x.nd.pc
  BY <1>1 DEF NodeOK, Node
<1>3. z \in TurnRecord /\ z.nd = x.nd
  BY <1>1, SendOK DEF TurnOK
<1> HIDE DEF z
<1>4. [z EXCEPT !.nd.succ_xpv = v] = [z EXCEPT !.nd = nd]
  BY <1>3 DEF TurnRecord
<1> HIDE DEF nd
<1> QED BY <1>1, <1>2, <1>4, SendAs DEF z

LEMMA SuccessorLateOK ==
    ASSUME NEW x, TurnOK(x) PROVE Step(x, SuccessorLate(x), 2)
<1>1. x \in TurnRecord /\ x.nd \in Node /\ NodeOK(x.nd) /\ "succ" \in Socks
  BY DEF TurnOK, TurnRecord, Socks
<1>2. CASE x.nd.succ_xpv = "REQ"
  <2> DEFINE y == Send(x, "succ", Ping)
             z == [Send(y, "succ", Ping) EXCEPT !.nd.succ_xpv = "REQ2"]
  <2>1. Step(x, y, 1)
    BY <1>1, Requests, SendOK DEF Step
  <2>2. SuccessorLate(x) = z
    BY <1>2 DEF SuccessorLate
  <2> HIDE DEF y
  <2>3. Step(y, z, 1)
    BY <1>1, <2>1, Requests, SendAndExpect DEF Step, SuccXpv
  <2> HIDE DEF z
  <2>4. Step(x, z, 1 + 1)
    BY <2>1, <2>3, StepTrans
  <2> QED BY <2>2, <2>4
<1>3. CASE x.nd.succ_xpv \in {"REQ2", "FAILURE"}
  <2>1. SuccessorLate(x) = NextSuccessor(x)
    BY <1>3 DEF SuccessorLate
  <2>2. Step(x, NextSuccessor(x), 0)
    BY NextSuccessorOK
  <2> HIDE <1>3
  <2> QED BY <2>1, <2>2 DEF Step, Plainly, TurnOK, TurnRecord
<1>4. CASE x.nd.succ_xpv \notin {"REQ", "REQ2", "FAILURE"}
  <2>1. SuccessorLate(x) = x
    BY <1>4 DEF SuccessorLate
  <2>2. Handled(x, x)
    BY DEF Handled, Untouched
  <2> QED BY <2>1, <2>2, HandledIsStep
<1> QED BY <1>2, <1>3, <1>4

LEMMA StartStabilizeOK ==
    ASSUME NEW x, TurnOK(x) PROVE Step(x, StartStabilize(x), 1)
<1> DEFINE z == Send(x, "succ", Ping)
           nd == [x.nd EXCEPT !.succ_xpv = "REQ", !.trig = "NO"]
           y == [z EXCEPT !.nd = nd]
<1>1. x \in TurnRecord /\ x.nd \in Node /\ NodeOK(x.nd) /\ "succ" \in Socks
  BY DEF TurnOK, TurnRecord, Socks
<1>2. /\ NodeOK(nd) /\ nd.send_token = x.nd.send_token /\ nd.recv_token = x.nd.recv_token
      /\ nd.pc = x.nd.pc
  <2>1. /\ nd \in Node /\ nd.trig = "NO" /\ nd.pred_trig = x.nd.pred_trig
        /\ nd.pred_xpv = x.nd.pred_xpv /\ nd.last_ttl = x.nd.last_ttl
        /\ nd.send_token = x.nd.send_token /\ nd.recv_token = x.nd.recv_token
        /\ nd.pc = x.nd.pc
    BY <1>1, Enumerated DEF Node
  <2> QED BY <1>1, <2>1 DEF NodeOK
<1>3. z \in TurnRecord /\ z.nd = x.nd
  BY <1>1, Requests, SendOK DEF TurnOK
<1>4. StartStabilize(x) = [z EXCEPT !.clock = "reset", !.nd.succ_xpv = "REQ", !.nd.trig = "NO"]
  BY DEF StartStabilize
<1> HIDE DEF z
<1>5. StartStabilize(x) = [y EXCEPT !.clock = "reset"]
  BY <1>3, <1>4 DEF TurnRecord
<1> HIDE DEF nd
<1>6. Step(x, y, 1)
  BY <1>1, <1>2, Requests, SendAs DEF z
<1> HIDE DEF y
<1>7. Handled(y, StartStabilize(x))
  BY <1>5, <1>6 DEF Step, Handled, Untouched, TurnOK, TurnRecord, Clock
<1>8. Step(y, StartStabilize(x), 0)
  BY <1>6, <1>7, HandledIsStep DEF Step
<1>9. Step(x, StartStabilize(x), 1 + 0)
  BY <1>6, <1>8, StepTrans
<1> QED BY <1>9

LEMMA SkipPongsOK == ASSUME NEW fs \in Seq(Frame) PROVE SkipPongs(fs) \in Seq(Frame)
<1> DEFINE L == Len(fs)
           other == {i \in DOMAIN fs : fs[i].type # "PONG"}
           P(k) == /\ \A i \in 1 .. k - 1 : i \notin other
                   /\ k \in other \/ k = L + 1
           T == {k \in 1 .. L + 1 : k \in other \/ k = L + 1}
<1>1. L \in Nat /\ T \in SUBSET Nat /\ L + 1 \in T
  BY LenProperties
<1>2. PICK k \in T : \A j \in T : k <= j
  <2> HIDE DEF T
  <2>1. T # {}
    BY <1>1
  <2> QED BY <1>1, <2>1, LeastNumber
<1>3. k \in 1 .. L + 1 /\ P(k)
  <2>1. ASSUME NEW i \in 1 .. k - 1 PROVE i \notin other
    <3>1. i \in 1 .. L + 1 /\ i < k
      BY <1>1, <1>2
    <3> QED BY <1>1, <1>2, <3>1
  <2> QED BY <1>2, <2>1
<1> DEFINE j == CHOOSE i \in 1 .. L + 1 : P(i)
<1>4. j \in 1 .. L + 1
  <2> HIDE DEF P
  <2> QED BY <1>3
<1>5. SkipPongs(fs) = SubSeq(fs, j, L)
  BY DEF SkipPongs
<1> HIDE DEF j
<1>6. \A i \in j .. L : fs[i] \in Frame
  BY <1>1, <1>4, ElementOfSeq
<1> QED BY <1>1, <1>4, <1>5, <1>6, SubSeqProperties


(* The successor's frames are replaced.                                      *)
LEMMA SuccessorReads ==
    ASSUME NEW x, TurnOK(x), NEW fs \in Seq(Frame)
    PROVE  LET y == [x EXCEPT !.frames["succ"] = fs]
           IN Handled(x, y) /\ y.nd = x.nd
  BY DEF Handled, Untouched, TurnOK, TurnRecord, Socks

(* An actor may be left reading: nothing is sent then, and it is not known   *)
(* any more whether the socket had anything to read.                         *)
LEMMA SuccessorSocketOK ==
    ASSUME NEW x, TurnOK(x), NEW pollin, NEW late
    PROVE  LET y == SuccessorSocket(x, pollin, late)
           IN TurnOK(y) /\ Plainly(x, y, 2) /\ y.nd.pc \in {x.nd.pc, "spin"}
<1> DEFINE z == SuccessorSocket(x, pollin, late)
<1>1. x \in TurnRecord /\ x.nd \in Node /\ NodeOK(x.nd) /\ x.frames["succ"] \in Seq(Frame)
  BY DEF TurnOK, TurnRecord, Socks
<1>2. ASSUME NEW y, Step(x, y, 1) PROVE Step(x, y, 2)
  <2>1. TurnOK(y) /\ Handled(y, y)
    BY <1>2 DEF Step, Handled, Untouched
  <2>2. Step(x, y, 1 + 1)
    BY <1>2, <2>1, HandledIsStep, StepTrans
  <2> QED BY <2>2
<1>3. CASE pollin
  <2> DEFINE fs == SuccessorFrames(x)
             y == [x EXCEPT !.frames["succ"] = Tail(fs)]
             w == [x EXCEPT !.frames["succ"] = fs, !.nd.pc = "spin"]
  <2>1. fs \in Seq(Frame)
    BY <1>1, SkipPongsOK DEF SuccessorFrames
  <2>2. z = IF fs = <<>> THEN w
            ELSE CASE x.nd.succ_xpv \in {"REQ", "REQ2"} -> PongExpected(y, Head(fs))
                   [] x.nd.succ_xpv = "ACK" -> AckExpected(y, Head(fs))
                   [] OTHER -> y
    BY <1>3 DEF SuccessorSocket
  <2> HIDE DEF fs, z
  <2>3. CASE fs = <<>>
    <3> DEFINE v == [x EXCEPT !.frames["succ"] = fs]
               nd == [x.nd EXCEPT !.pc = "spin"]
    <3>1. Handled(x, v) /\ v.nd = x.nd /\ TurnOK(v) /\ v \in TurnRecord
      BY <2>1, SuccessorReads DEF Handled, Untouched, TurnOK
    <3>2. w = [v EXCEPT !.nd = nd]
      BY <1>1, <2>1 DEF TurnRecord
    <3>3. /\ NodeOK(nd) /\ nd.send_token = x.nd.send_token /\ nd.recv_token = x.nd.recv_token
          /\ nd.pc = "spin"
      BY <1>1 DEF NodeOK, Node
    <3> HIDE DEF nd, v, w
    <3>4. Untouched(v, w) /\ w.nd = nd
      BY <3>1, <3>2, <3>3, NodeChange
    <3>5. Untouched(x, w) /\ w.nd.pc = "spin"
      BY <3>1, <3>3, <3>4 DEF Handled, Untouched
    <3>6. TurnOK(w) /\ Plainly(x, w, 2)
      BY <3>5, UntouchedIsPlain DEF Untouched
    <3>7. z = w
      BY <2>2, <2>3
    <3> QED BY <3>5, <3>6, <3>7 DEF z
  <2>4. CASE fs # <<>>
    <3>1. Head(fs) \in Frame /\ Tail(fs) \in Seq(Frame)
      BY <2>1, <2>4, HeadTailProperties
    <3>2. Handled(x, y) /\ TurnOK(y)
      BY <3>1, SuccessorReads DEF Handled, Untouched
    <3>3. z \in {PongExpected(y, Head(fs)), AckExpected(y, Head(fs)), y}
      BY <2>2, <2>4
    <3> HIDE DEF y
    <3>4. Step(x, y, 0) /\ Step(x, y, 1)
      BY <3>2, HandledIsStep
    <3>5. Step(y, PongExpected(y, Head(fs)), 1) /\ Step(y, AckExpected(y, Head(fs)), 1)
      BY <3>1, <3>2, PongExpectedOK, AckExpectedOK
    <3>6. \A u : Step(y, u, 1) => Step(x, u, 0 + 1)
      BY <3>4, StepTrans
    <3>7. Step(x, z, 1)
      BY <3>3, <3>4, <3>5, <3>6
    <3>8. Step(x, z, 2)
      BY <1>2, <3>7
    <3> QED BY <3>8 DEF z, Step
  <2> QED BY <2>3, <2>4
<1>4. CASE ~pollin
  <2>1. z \in {SuccessorLate(x), StartStabilize(x), x}
    BY <1>4 DEF SuccessorSocket
  <2>2. Step(x, SuccessorLate(x), 2)
    BY SuccessorLateOK
  <2>3. Step(x, StartStabilize(x), 2)
    BY <1>2, StartStabilizeOK
  <2>4. Handled(x, x)
    BY DEF Handled, Untouched
  <2>5. Step(x, x, 2)
    BY <2>4, HandledIsStep
  <2>6. Step(x, z, 2)
    BY <2>1, <2>2, <2>3, <2>5
  <2> HIDE DEF z
  <2> QED BY <2>6 DEF z, Step
<1> QED BY <1>3, <1>4

(* The token to send goes to the successor, and its slot is free.            *)
LEMMA SendTokenOK ==
    ASSUME NEW x, TurnOK(x)
    PROVE  LET y == SendToken(x)
               o == [link |-> <<x.self, "succ", x.nd.successor>>,
                     msg |-> [type |-> "TOKEN", token |-> x.nd.send_token]]
           IN /\ x.nd.send_token = None \/ x.nd.pc = "spin" => y = x
              /\ x.nd.send_token # None /\ x.nd.pc # "spin" =>
                   /\ TurnOK(y) /\ o.link \in Links /\ o \in Sending
                   /\ y.out = Append(x.out, o) /\ y.nd.send_token = None
                   /\ y.self = x.self /\ y.link = x.link /\ y.took = x.took /\ y.up = x.up
                   /\ y.nd.recv_token = x.nd.recv_token /\ y.nd.pc = x.nd.pc
<1> DEFINE y == SendToken(x)
           l == <<x.self, "succ", x.nd.successor>>
           m == [type |-> "TOKEN", token |-> x.nd.send_token]
           o == [link |-> l, msg |-> m]
           z == Send(x, "succ", m)
           nd == [x.nd EXCEPT !.send_token = None]
<1>1. x \in TurnRecord /\ x.nd \in Node /\ NodeOK(x.nd) /\ "succ" \in Socks
  BY DEF TurnOK, TurnRecord, Socks
<1>2. CASE x.nd.send_token = None \/ x.nd.pc = "spin"
  BY <1>2 DEF SendToken
<1>3. CASE x.nd.send_token # None /\ x.nd.pc # "spin"
  <2>1. m \in Request
    <3>1. x.nd.send_token \in Tokens
      BY <1>1, <1>3 DEF Node
    <3> QED BY <3>1, Requests
  <2>2. l \in Links
    BY <1>1 DEF Links, Node, TurnRecord
  <2>3. Peer(x.nd, "succ") = x.nd.successor
    BY DEF Peer
  <2>4. y = [z EXCEPT !.nd.send_token = None]
    BY <1>3 DEF SendToken
  <2>5. l \in Targets /\ o \in Sending
    <3>1. l \in Targets
      BY <2>2 DEF Links, Targets
    <3> HIDE DEF l, m
    <3> QED BY <2>1, <3>1 DEF Sending
  <2> HIDE DEF m, y
  <2>6. /\ TurnOK(z) /\ z \in TurnRecord /\ z.nd = x.nd /\ z.out = Append(x.out, o)
        /\ z.self = x.self /\ z.link = x.link /\ z.took = x.took /\ z.up = x.up
    BY <1>1, <2>1, <2>3, SendOK DEF TurnOK
  <2>7. /\ NodeOK(nd) /\ nd.send_token = None /\ nd.recv_token = x.nd.recv_token
        /\ nd.pc = x.nd.pc
    BY <1>1 DEF NodeOK, Node
  <2> HIDE DEF z, o, l
  <2>8. y = [z EXCEPT !.nd = nd]
    BY <2>4, <2>6 DEF TurnRecord
  <2> HIDE DEF nd
  <2>9. /\ y \in TurnRecord /\ y.nd = nd /\ y.out = z.out
        /\ y.self = z.self /\ y.link = z.link /\ y.took = z.took /\ y.up = z.up
    BY <2>6, <2>7, <2>8 DEF NodeOK, TurnRecord
  <2>10. TurnOK(y)
    BY <2>7, <2>9 DEF TurnOK
  <2>11. o.link = l
    BY DEF o
  <2>12. /\ TurnOK(y) /\ o.link \in Links /\ o \in Sending
         /\ y.out = Append(x.out, o) /\ y.nd.send_token = None
         /\ y.self = x.self /\ y.link = x.link /\ y.took = x.took /\ y.up = x.up
         /\ y.nd.recv_token = x.nd.recv_token /\ y.nd.pc = x.nd.pc
    BY <2>2, <2>5, <2>6, <2>7, <2>9, <2>10, <2>11
  <2> QED BY <1>3, <2>12 DEF y, o, l, m
<1> QED BY <1>2, <1>3

-------------------------------------------------------------------------------
(* The predecessor's socket *)

(* Between the nodes a and b a handler has not touched the tokens.           *)
Same(a, b) == /\ NodeOK(b) /\ b.send_token = a.send_token /\ b.recv_token = a.recv_token
              /\ b.pc = a.pc

LEMMA SyncSlistSent ==
    ASSUME NEW nd, NodeOK(nd), NEW ttl \in 1 .. RMax
    PROVE  SyncSlistOf(nd, ttl) \in Request /\ SyncSlistOf(nd, ttl).type # "TOKEN"
<1>1. nd.r \in 0 .. RMax /\ nd.successor_list \in [1 .. RMax -> Nodes \cup {None}]
  BY DEF NodeOK, Node
<1> QED BY <1>1 DEF SyncSlistOf, Request

(* What a node says of the predecessor's socket, and of what is to be done.  *)
LEMMA PredFields ==
    ASSUME NEW a, NodeOK(a), NEW t \in {"NO", "FIND_HEAD", "REPLICATE", "RELAY"},
           NEW v \in PredXpv, NEW g \in Triggers, NEW u \in Status,
           "RELAY" \in {t, v, g} => a.last_ttl # 0
    PROVE  Same(a, [a EXCEPT !.pred_trig = t, !.pred_xpv = v, !.trig = g, !.status = u])
<1> DEFINE b == [a EXCEPT !.pred_trig = t, !.pred_xpv = v, !.trig = g, !.status = u]
<1>1. a \in Node
  BY DEF NodeOK
<1>2. b \in Node
  BY <1>1 DEF Node
<1>3. b.pred_trig = t /\ b.pred_xpv = v /\ b.trig = g /\ b.last_ttl = a.last_ttl
  BY <1>1 DEF Node
<1>4. b.send_token = a.send_token /\ b.recv_token = a.recv_token /\ b.pc = a.pc
  BY <1>1 DEF Node
<1> HIDE DEF b
<1>5. NodeOK(b)
  BY <1>2, <1>3 DEF NodeOK
<1> QED BY <1>4, <1>5 DEF Same, b

LEMMA PingPredecessorOK ==
    ASSUME NEW x, TurnOK(x), NEW t \in {"FIND_HEAD", "REPLICATE", "RELAY"},
           t = "RELAY" => x.nd.last_ttl # 0
    PROVE  Step(x, PingPredecessor(x, t), 1)
<1> DEFINE z == Send(x, "pred", Ping)
           a == x.nd
           nd == [a EXCEPT !.pred_trig = t, !.pred_xpv = "PING1", !.trig = "NO",
                           !.status = a.status]
<1>1. x \in TurnRecord /\ a \in Node /\ NodeOK(a) /\ "pred" \in Socks
  BY DEF TurnOK, TurnRecord, Socks
<1>2. "PING1" \in PredXpv /\ "NO" \in Triggers /\ a.status \in Status
  BY <1>1 DEF PredXpv, Triggers, Node
<1>3. Same(a, nd)
  <2> HIDE DEF a
  <2>1. "RELAY" \in {t, "PING1", "NO"} => a.last_ttl # 0
    BY DEF a
  <2> QED BY <1>1, <1>2, <2>1, PredFields
<1>4. z \in TurnRecord /\ z.nd = a
  BY <1>1, Requests, SendOK DEF TurnOK
<1>5. PingPredecessor(x, t) =
        [z EXCEPT !.nd.pred_trig = t, !.nd.pred_xpv = "PING1", !.nd.trig = "NO"]
  BY DEF PingPredecessor
<1> HIDE DEF z
<1>6. nd = [a EXCEPT !.pred_trig = t, !.pred_xpv = "PING1", !.trig = "NO"]
  BY <1>1 DEF Node
<1>7. PingPredecessor(x, t) = [z EXCEPT !.nd = nd]
  <2> HIDE DEF nd
  <2> QED BY <1>4, <1>5, <1>6 DEF TurnRecord
<1> HIDE DEF nd
<1> QED BY <1>1, <1>3, <1>7, Requests, SendAs DEF Same, z

LEMMA PredecessorAliveOK ==
    ASSUME NEW x, TurnOK(x) PROVE Step(x, PredecessorAlive(x), 1)
<1> DEFINE a == x.nd
           b == [a EXCEPT !.pred_trig = "NO", !.pred_xpv = a.pred_trig]
           y == [x EXCEPT !.nd = b]
           m == [type |-> "FIND_HEAD"]
<1>1. x \in TurnRecord /\ a \in Node /\ NodeOK(a) /\ "pred" \in Socks
  BY DEF TurnOK, TurnRecord, Socks
<1>2. /\ a.pred_trig \in PredXpv /\ a.trig \in Triggers /\ a.status \in Status
      /\ a.pred_trig \in {"NO", "FIND_HEAD", "REPLICATE", "RELAY"}
  BY <1>1 DEF PredXpv, Node
<1>3. "RELAY" \in {"NO", a.pred_trig, a.trig} => a.last_ttl # 0
  BY <1>1 DEF NodeOK
<1>4. b = [a EXCEPT !.pred_trig = "NO", !.pred_xpv = a.pred_trig, !.trig = a.trig,
                    !.status = a.status]
  BY <1>1 DEF Node
<1>5. y = [x EXCEPT !.nd.pred_trig = "NO", !.nd.pred_xpv = x.nd.pred_trig]
  BY <1>1 DEF TurnRecord
<1>6. PredecessorAlive(x) =
        CASE a.pred_trig = "FIND_HEAD" ->
                [Send(y, "pred", m) EXCEPT !.nd.status = "FINDING_HEAD"]
          [] a.pred_trig = "REPLICATE" -> Send(y, "pred", SyncSlistOf(a, RMax))
          [] a.pred_trig = "RELAY" ->
                [Send(y, "pred", SyncSlistOf(a, a.last_ttl)) EXCEPT !.nd.trig = "NO"]
          [] OTHER -> y
  BY <1>5 DEF PredecessorAlive
<1>7. b.last_ttl = a.last_ttl /\ b.trig = a.trig /\ b.status = a.status
      /\ b.pred_trig = "NO" /\ b.pred_xpv = a.pred_trig
  BY <1>1 DEF Node
<1> HIDE DEF b
<1>8. Same(a, b)
  <2> HIDE DEF a
  <2>1. "NO" \in {"NO", "FIND_HEAD", "REPLICATE", "RELAY"}
    OBVIOUS
  <2> QED BY <1>1, <1>2, <1>3, <1>4, <2>1, PredFields
<1>9. Untouched(x, y) /\ y.nd = b /\ TurnOK(y) /\ y \in TurnRecord
  BY <1>8, NodeChange DEF Same, Untouched, TurnOK
<1> HIDE DEF y
<1>10. Step(x, y, 0)
  BY <1>8, <1>9, HandledIsStep DEF Handled, Same
<1>11. \A z : Step(y, z, 1) => Step(x, z, 0 + 1)
  BY <1>10, StepTrans
<1>12. Step(x, y, 1)
  BY <1>8, <1>9, HandledIsStep DEF Handled, Same
(* A message k to the predecessor and a change of the node.                  *)
<1>13. ASSUME NEW k \in Request, k.type # "TOKEN", NEW g \in Triggers, NEW u \in Status,
              "RELAY" \in {b.pred_xpv, g} => b.last_ttl # 0
       PROVE  Step(y, [Send(y, "pred", k) EXCEPT
                         !.nd = [b EXCEPT !.pred_trig = "NO", !.pred_xpv = b.pred_xpv,
                                          !.trig = g, !.status = u]], 1)
  <2> DEFINE c == [b EXCEPT !.pred_trig = "NO", !.pred_xpv = b.pred_xpv,
                            !.trig = g, !.status = u]
  <2>1. "NO" \in {"NO", "FIND_HEAD", "REPLICATE", "RELAY"} /\ NodeOK(b) /\ b.pred_xpv \in PredXpv
    BY <1>2, <1>7, <1>8 DEF Same
  <2>2. "RELAY" \in {"NO", b.pred_xpv, g} => b.last_ttl # 0
    BY <1>13
  <2>3. Same(b, c)
    BY <2>1, <2>2, PredFields
  <2> HIDE DEF c
  <2>4. Step(y, [Send(y, "pred", k) EXCEPT !.nd = c], 1)
    BY <1>1, <1>9, <1>13, <2>3, SendAs DEF Same
  <2> QED BY <2>4 DEF c
<1>14. b \in Node
  BY <1>8 DEF Same, NodeOK
<1>15. CASE a.pred_trig = "FIND_HEAD"
  <2> DEFINE z == Send(y, "pred", m)
             c == [b EXCEPT !.pred_trig = "NO", !.pred_xpv = b.pred_xpv,
                            !.trig = a.trig, !.status = "FINDING_HEAD"]
  <2>1. PredecessorAlive(x) = [z EXCEPT !.nd.status = "FINDING_HEAD"]
    BY <1>6, <1>15
  <2>2. m \in Request /\ m.type # "TOKEN" /\ "FINDING_HEAD" \in Status
    BY Requests DEF Status
  <2> HIDE DEF m
  <2>3. z \in TurnRecord /\ z.nd = b
    BY <1>1, <1>9, <2>2, SendOK DEF TurnOK
  <2>4. [b EXCEPT !.status = "FINDING_HEAD"] = c
    BY <1>7, <1>14 DEF Node
  <2> HIDE DEF z
  <2>5. PredecessorAlive(x) = [z EXCEPT !.nd = c]
    <3> HIDE DEF c
    <3> QED BY <2>1, <2>3, <2>4 DEF TurnRecord
  <2>6. Step(y, [z EXCEPT !.nd = c], 1)
    <3>1. "RELAY" \in {b.pred_xpv, a.trig} => b.last_ttl # 0
      BY <1>3, <1>7
    <3> QED BY <1>2, <1>13, <2>2, <3>1 DEF z
  <2> QED BY <1>11, <2>5, <2>6
<1>16. CASE a.pred_trig = "REPLICATE"
  <2> DEFINE k == SyncSlistOf(a, RMax)
  <2>1. PredecessorAlive(x) = Send(y, "pred", k)
    BY <1>6, <1>16
  <2>2. RMax \in 1 .. RMax
    BY Bounds
  <2>3. k \in Request /\ k.type # "TOKEN"
    BY <1>1, <2>2, SyncSlistSent
  <2> HIDE DEF k
  <2>4. Step(y, Send(y, "pred", k), 1)
    BY <1>1, <1>9, <2>3, SendOK DEF Step
  <2> QED BY <1>11, <2>1, <2>4
<1>17. CASE a.pred_trig = "RELAY"
  <2> DEFINE k == SyncSlistOf(a, a.last_ttl)
             z == Send(y, "pred", k)
             c == [b EXCEPT !.pred_trig = "NO", !.pred_xpv = b.pred_xpv,
                            !.trig = "NO", !.status = a.status]
  <2>1. PredecessorAlive(x) = [z EXCEPT !.nd.trig = "NO"]
    BY <1>6, <1>17
  <2>2. a.last_ttl \in 1 .. RMax
    <3>1. a.last_ttl \in 0 .. RMax
      BY <1>1 DEF Node
    <3> QED BY <1>3, <1>17, <3>1, Bounds
  <2>3. k \in Request /\ k.type # "TOKEN"
    BY <1>1, <2>2, SyncSlistSent
  <2> HIDE DEF k
  <2>4. z \in TurnRecord /\ z.nd = b
    BY <1>1, <1>9, <2>3, SendOK DEF TurnOK
  <2>5. [b EXCEPT !.trig = "NO"] = c
    BY <1>7, <1>14 DEF Node
  <2> HIDE DEF z
  <2>6. PredecessorAlive(x) = [z EXCEPT !.nd = c]
    <3> HIDE DEF c
    <3> QED BY <2>1, <2>4, <2>5 DEF TurnRecord
  <2>7. Step(y, [z EXCEPT !.nd = c], 1)
    <3> DEFINE g == "NO"
               u == a.status
    <3>1. ("RELAY" \in {b.pred_xpv, g} => b.last_ttl # 0) /\ g \in Triggers /\ u \in Status
      BY <1>2, <1>3, <1>7 DEF Triggers
    <3>2. c = [b EXCEPT !.pred_trig = "NO", !.pred_xpv = b.pred_xpv, !.trig = g, !.status = u]
      OBVIOUS
    <3> HIDE DEF g, u, c
    <3>3. Step(y, [Send(y, "pred", k) EXCEPT !.nd = c], 1)
      BY <1>13, <2>3, <3>1, <3>2
    <3> QED BY <3>3 DEF z
  <2> QED BY <1>11, <2>6, <2>7
<1>18. CASE a.pred_trig \notin {"FIND_HEAD", "REPLICATE", "RELAY"}
  BY <1>6, <1>12, <1>18
<1> QED BY <1>15, <1>16, <1>17, <1>18

(* p2pm_form_one_ring leaves an actor that goes no further.                  *)
LEMMA PredecessorLateOK ==
    ASSUME NEW x, TurnOK(x)
    PROVE  LET y == PredecessorLate(x)
           IN TurnOK(y) /\ Plainly(x, y, 1) /\ y.nd.pc \in {x.nd.pc, "left"}
<1> DEFINE a == x.nd
           y == PredecessorLate(x)
<1>1. x \in TurnRecord /\ a \in Node /\ NodeOK(a) /\ "pred" \in Socks
  BY DEF TurnOK, TurnRecord, Socks
<1>2. ASSUME NEW v \in {"PING2", "PING3"}
      PROVE  Step(x, [Send(x, "pred", Ping) EXCEPT !.nd.pred_xpv = v], 1)
  <2> DEFINE z == Send(x, "pred", Ping)
             nd == [a EXCEPT !.pred_trig = a.pred_trig, !.pred_xpv = v, !.trig = a.trig,
                             !.status = a.status]
  <2>1. /\ v \in PredXpv /\ a.trig \in Triggers /\ a.status \in Status
        /\ a.pred_trig \in {"NO", "FIND_HEAD", "REPLICATE", "RELAY"}
    BY <1>1 DEF PredXpv, Node
  <2>2. "RELAY" \in {a.pred_trig, v, a.trig} => a.last_ttl # 0
    BY <1>1 DEF NodeOK
  <2>3. nd = [a EXCEPT !.pred_xpv = v]
    BY <1>1 DEF Node
  <2> HIDE DEF nd
  <2>4. Same(a, nd)
    <3> HIDE DEF a
    <3> QED BY <1>1, <2>1, <2>2, PredFields DEF nd
  <2>5. z \in TurnRecord /\ z.nd = a
    BY <1>1, Requests, SendOK DEF TurnOK
  <2> HIDE DEF z
  <2>6. [z EXCEPT !.nd.pred_xpv = v] = [z EXCEPT !.nd = nd]
    BY <2>3, <2>5 DEF TurnRecord
  <2>7. Step(x, [Send(x, "pred", Ping) EXCEPT !.nd = nd], 1)
    BY <1>1, <2>4, Requests, SendAs DEF Same
  <2> QED BY <2>6, <2>7 DEF z
<1>3. CASE a.pred_xpv = "PING1"
  <2>1. y = [Send(x, "pred", Ping) EXCEPT !.nd.pred_xpv = "PING2"]
    BY <1>3 DEF PredecessorLate
  <2> HIDE DEF y
  <2> QED BY <1>2, <2>1 DEF Step, y
<1>4. CASE a.pred_xpv = "PING2"
  <2>1. y = [Send(x, "pred", Ping) EXCEPT !.nd.pred_xpv = "PING3"]
    BY <1>4 DEF PredecessorLate
  <2> HIDE DEF y
  <2> QED BY <1>2, <2>1 DEF Step, y
<1>5. CASE a.pred_xpv = "PING3"
  <2> DEFINE b == [a EXCEPT !.trig = "FIND_HEAD", !.pred_xpv = "NO"]
             c == [a EXCEPT !.pc = "left"]
  <2>1. b \in Node /\ c \in Node
    <3>1. "FIND_HEAD" \in Triggers /\ "NO" \in PredXpv
      BY DEF Triggers, PredXpv
    <3> QED BY <1>1, <3>1 DEF Node
  <2>2. /\ b.trig = "FIND_HEAD" /\ b.pred_xpv = "NO" /\ b.pred_trig = a.pred_trig
        /\ b.last_ttl = a.last_ttl /\ b.pc = a.pc
        /\ b.send_token = a.send_token /\ b.recv_token = a.recv_token
    BY <1>1 DEF Node
  <2>3. /\ c.trig = a.trig /\ c.pred_xpv = a.pred_xpv /\ c.pred_trig = a.pred_trig
        /\ c.last_ttl = a.last_ttl /\ c.pc = "left"
        /\ c.send_token = a.send_token /\ c.recv_token = a.recv_token
    BY <1>1 DEF Node
  <2>4. y \in {[x EXCEPT !.nd = b], [x EXCEPT !.nd = c]}
    BY <1>1, <1>5 DEF PredecessorLate, FormOneRing, TurnRecord
  <2> HIDE DEF b, c
  <2>5. NodeOK(b) /\ NodeOK(c)
    BY <1>1, <2>1, <2>2, <2>3 DEF NodeOK
  <2> DEFINE u == [x EXCEPT !.nd = b]
             w == [x EXCEPT !.nd = c]
  <2>6. Untouched(x, u) /\ u.nd = b /\ Untouched(x, w) /\ w.nd = c
    BY <2>2, <2>3, <2>5, NodeChange
  <2>7. y \in {u, w}
    BY <2>4
  <2> HIDE DEF u, w, y
  <2>8. TurnOK(y) /\ Plainly(x, y, 1)
    BY <2>6, <2>7, UntouchedIsPlain DEF Untouched
  <2>9. y.nd.pc \in {x.nd.pc, "left"}
    BY <2>2, <2>3, <2>6, <2>7
  <2> QED BY <2>8, <2>9 DEF y
<1>6. CASE a.pred_xpv \in {"RELAY", "REPLICATE"}
  <2>1. y = PingPredecessor(x, a.pred_xpv)
    BY <1>6 DEF PredecessorLate
  <2>2. a.pred_xpv \in {"FIND_HEAD", "REPLICATE", "RELAY"} /\ (a.pred_xpv = "RELAY" => x.nd.last_ttl # 0)
    BY <1>1, <1>6 DEF NodeOK
  <2> HIDE DEF y
  <2>3. Step(x, y, 1)
    BY <2>1, <2>2, PingPredecessorOK
  <2> QED BY <2>3 DEF Step, y
<1>7. CASE a.pred_xpv \notin {"PING1", "PING2", "PING3", "RELAY", "REPLICATE"}
  <2>1. y = x
    BY <1>7 DEF PredecessorLate
  <2>2. Untouched(x, x)
    BY DEF Untouched
  <2> HIDE DEF y
  <2> QED BY <2>1, <2>2, UntouchedIsPlain DEF Untouched, y
<1> QED BY <1>3, <1>4, <1>5, <1>6, <1>7

LEMMA PredecessorPollinOK ==
    ASSUME NEW x, TurnOK(x), NEW v PROVE Step(x, PredecessorPollin(x, v), 1)
<1> DEFINE nd == [x.nd EXCEPT !.pred_xpv = "NO", !.trig = "NO"]
           y == [x EXCEPT !.nd = nd]
<1>1. x \in TurnRecord /\ x.nd \in Node /\ NodeOK(x.nd)
  BY DEF TurnOK, TurnRecord
<1>2. y = [x EXCEPT !.nd.pred_xpv = "NO", !.nd.trig = "NO"]
  BY <1>1 DEF TurnRecord
<1>3. PredecessorPollin(x, v) \in {PredecessorAlive(x), x, y}
  BY <1>2 DEF PredecessorPollin, Pinging
<1>4. /\ nd \in Node /\ nd.trig = "NO" /\ nd.pred_xpv = "NO" /\ nd.pred_trig = x.nd.pred_trig
      /\ nd.last_ttl = x.nd.last_ttl /\ nd.pc = x.nd.pc
      /\ nd.send_token = x.nd.send_token /\ nd.recv_token = x.nd.recv_token
  <2>1. "NO" \in Triggers /\ "NO" \in PredXpv
    BY DEF Triggers, PredXpv
  <2> QED BY <1>1, <2>1 DEF Node
<1> HIDE DEF nd
<1>5. NodeOK(nd)
  BY <1>1, <1>4 DEF NodeOK
<1>6. Handled(x, y)
  BY <1>4, <1>5, NodeChange DEF Handled
<1>7. Handled(x, x)
  BY DEF Handled, Untouched
<1> HIDE DEF y
<1> QED BY <1>3, <1>6, <1>7, HandledIsStep, PredecessorAliveOK

LEMMA PredecessorIdleOK ==
    ASSUME NEW x, TurnOK(x), NEW late
    PROVE  LET y == PredecessorIdle(x, late)
           IN TurnOK(y) /\ Plainly(x, y, 1) /\ y.nd.pc \in {x.nd.pc, "left"}
<1> DEFINE y == PredecessorIdle(x, late)
<1>1. NodeOK(x.nd)
  BY DEF TurnOK
<1>2. CASE late
  <2>1. y = PredecessorLate(x)
    BY <1>2 DEF PredecessorIdle
  <2> HIDE DEF y
  <2> QED BY <2>1, PredecessorLateOK DEF y
<1>3. CASE ~late /\ x.nd.trig \in {"FIND_HEAD", "REPLICATE", "RELAY"}
  <2>1. y = PingPredecessor(x, x.nd.trig)
    BY <1>3 DEF PredecessorIdle
  <2>2. x.nd.trig = "RELAY" => x.nd.last_ttl # 0
    BY <1>1 DEF NodeOK
  <2> HIDE DEF y
  <2>3. Step(x, y, 1)
    BY <1>3, <2>1, <2>2, PingPredecessorOK
  <2> QED BY <2>3 DEF Step, y
<1>4. CASE ~late /\ x.nd.trig \notin {"FIND_HEAD", "REPLICATE", "RELAY"}
  <2>1. y = x
    BY <1>4 DEF PredecessorIdle
  <2>2. Untouched(x, x)
    BY DEF Untouched
  <2> HIDE DEF y
  <2> QED BY <2>1, <2>2, UntouchedIsPlain DEF Untouched, y
<1> QED BY <1>2, <1>3, <1>4

-------------------------------------------------------------------------------
(* A turn *)

(* The token to send that a turn has, and the token received.                *)
Taken(n, took) == IF took THEN Head(pipe[n]) ELSE node[n].send_token
Read(n, l) == IF l # None /\ Head(wire[l]).type = "TOKEN" THEN Head(wire[l]).token
              ELSE node[n].recv_token

(* The turn x of n before the sockets                                        *)
Begun(n, x) ==
    /\ TurnOK(x) /\ x.self = n /\ x.out = <<>> /\ x.up = <<>> /\ x.nd.pc = "poll"
    /\ x.took => pipe[n] # <<>>
    /\ x.link # None => x.link \in Inbox(n)
    /\ x.nd.send_token = Taken(n, x.took) /\ x.nd.recv_token = Read(n, x.link)

(* Of the messages in out one is the token s, if that is one, and no other   *)
(* is a token.                                                               *)
TokenOut(out, s) ==
    IF s = None THEN \A i \in 1 .. Len(out) : out[i].msg.type # "TOKEN"
    ELSE \E p \in 1 .. Len(out) :
           /\ out[p].link \in Links /\ out[p].msg.type = "TOKEN" /\ out[p].msg.token = s
           /\ \A i \in 1 .. Len(out) : i # p => out[i].msg.type # "TOKEN"

LEMMA BeginOK ==
    ASSUME Types, NEW n \in Nodes
    PROVE  Begun(n, Begin(n)) /\ ~Begin(n).took /\ Begin(n).link = None
<1> DEFINE nd == [node[n] EXCEPT !.pc = "poll"]
           x == Begin(n)
<1>1. /\ node[n] \in Node /\ NodeOK(node[n]) /\ frames[n] \in [Socks -> Seq(Frame)]
      /\ clock[n] \in Clock
  BY DEF Types
<1>2. /\ NodeOK(nd) /\ nd.pc = "poll" /\ nd.send_token = node[n].send_token
      /\ nd.recv_token = node[n].recv_token
  BY <1>1 DEF NodeOK, Node
<1>3. x = [self |-> n, nd |-> nd, frames |-> frames[n], clock |-> clock[n],
           link |-> None, took |-> FALSE, out |-> <<>>, reply |-> <<>>, up |-> <<>>]
  BY DEF Begin
<1> HIDE DEF nd, x
<1>4. x \in TurnRecord
  <2>1. <<>> \in Seq(Sending) /\ <<>> \in Seq(Frame) /\ <<>> \in Seq(Tokens)
    BY EmptySeq
  <2> QED BY <1>1, <1>2, <1>3, <2>1 DEF NodeOK, TurnRecord
<1>5. /\ x.self = n /\ x.nd = nd /\ x.link = None /\ x.took = FALSE /\ x.out = <<>>
      /\ x.up = <<>>
  BY <1>3
<1>6. TurnOK(x)
  BY <1>2, <1>4, <1>5 DEF TurnOK
<1>7. Taken(n, FALSE) = node[n].send_token /\ Read(n, None) = node[n].recv_token
  BY DEF Taken, Read
<1> QED BY <1>2, <1>5, <1>6, <1>7 DEF Begun, x

LEMMA TakeTokenOK ==
    ASSUME Types, NEW n \in Nodes, pipe[n] # <<>>
    PROVE  Begun(n, TakeToken(Begin(n))) /\ TakeToken(Begin(n)).link = None
<1> DEFINE b == Begin(n)
           nd == [b.nd EXCEPT !.send_token = Head(pipe[n])]
           x == TakeToken(b)
<1>1. Begun(n, b) /\ b.link = None /\ TurnOK(b) /\ b \in TurnRecord /\ b.self = n
  BY BeginOK DEF Begun, TurnOK
<1> HIDE DEF b
<1>2. Head(pipe[n]) \in Tokens
  BY HeadTailProperties DEF Types
<1>3. b.nd \in Node /\ NodeOK(b.nd)
  BY <1>1 DEF TurnOK, NodeOK
<1>4. /\ NodeOK(nd) /\ nd.send_token = Head(pipe[n]) /\ nd.recv_token = b.nd.recv_token
      /\ nd.pc = b.nd.pc
  BY <1>2, <1>3 DEF NodeOK, Node
<1>5. x = [b EXCEPT !.nd = nd, !.took = TRUE]
  BY <1>1 DEF TakeToken, TurnRecord
<1> HIDE DEF nd, x
<1>6. /\ x \in TurnRecord /\ x.nd = nd /\ x.took /\ x.self = b.self /\ x.link = b.link
      /\ x.out = b.out /\ x.up = b.up
  BY <1>1, <1>4, <1>5 DEF TurnRecord, NodeOK
<1>7. TurnOK(x)
  BY <1>4, <1>6 DEF TurnOK
<1>8. x.nd.send_token = Taken(n, x.took)
  BY <1>4, <1>6 DEF Taken
<1> QED BY <1>1, <1>4, <1>6, <1>7, <1>8 DEF Begun, x, b

LEMMA ServerOK ==
    ASSUME Types, NEW n \in Nodes, NEW x, Begun(n, x), x.link = None,
           NEW l, l = None \/ l \in Inbox(n)
    PROVE  Begun(n, Server(x, l))
<1>1. CASE l = None
  <2>1. Server(x, l) = x
    BY <1>1 DEF Server
  <2> QED BY <2>1
<1>2. CASE l # None
  <2> DEFINE m == Head(wire[l])
             y == Handle(x, l[1], m)
             z == Server(x, l)
  <2>1. l \in Links /\ l \in Inbox(n) /\ wire[l] \in Seq(Request) /\ wire[l] # <<>>
    BY <1>2 DEF Inbox, Types
  <2>2. l[1] \in Nodes /\ m \in Request
    <3>1. l[1] \in Nodes
      BY <2>1 DEF Links
    <3> QED BY <2>1, <3>1, HeadTailProperties
  <2>3. z = [y EXCEPT !.link = l]
    BY <1>2 DEF Server
  <2>4. m.type = "TOKEN" => m.token \in Tokens
    BY <2>2 DEF Request
  <2> HIDE DEF m
  <2>5. /\ TurnOK(y) /\ y.nd.pc = x.nd.pc /\ y.self = x.self /\ y.took = x.took
        /\ y.up = x.up /\ y.out = x.out
        /\ y.nd.send_token = x.nd.send_token
        /\ m.type = "TOKEN" => y.nd.recv_token = m.token
        /\ m.type # "TOKEN" => y.nd.recv_token = x.nd.recv_token
    BY <2>2, HandleOK DEF Begun, Handled, Untouched
  <2> HIDE DEF y, z
  <2>6. /\ z \in TurnRecord /\ z.link = l /\ z.nd = y.nd /\ z.self = y.self /\ z.took = y.took
        /\ z.up = y.up /\ z.out = y.out
    BY <2>1, <2>3, <2>5 DEF TurnOK, TurnRecord
  <2>7. TurnOK(z)
    BY <2>5, <2>6 DEF TurnOK
  <2>8. z.nd.recv_token = Read(n, l)
    <3>1. x.nd.recv_token = node[n].recv_token
      BY DEF Begun, Read
    <3> QED BY <1>2, <2>5, <2>6, <3>1 DEF Read, m
  <2>9. /\ z.self = n /\ z.out = <<>> /\ z.up = <<>> /\ z.nd.pc = "poll"
        /\ z.took = x.took /\ z.nd.send_token = Taken(n, z.took)
    BY <2>5, <2>6 DEF Begun
  <2>10. z.took => pipe[n] # <<>>
    BY <2>9 DEF Begun
  <2> QED BY <2>1, <2>6, <2>7, <2>8, <2>9, <2>10 DEF Begun, z
<1> QED BY <1>1, <1>2

LEMMA TimerOK ==
    ASSUME NEW n, NEW x, Begun(n, x) PROVE Begun(n, Timer(x))
<1> DEFINE nd == [x.nd EXCEPT !.trig = "STABILIZE", !.status = "HANDLING_STABILIZE"]
           y == [x EXCEPT !.nd = nd]
<1>1. x \in TurnRecord /\ x.nd \in Node /\ NodeOK(x.nd) /\ TurnOK(x)
  BY DEF Begun, TurnOK, NodeOK
<1>2. y = [x EXCEPT !.nd.trig = "STABILIZE", !.nd.status = "HANDLING_STABILIZE"]
  BY <1>1 DEF TurnRecord
<1>3. Timer(x) \in {x, y}
  BY <1>2 DEF Timer
<1>4. /\ nd \in Node /\ nd.trig = "STABILIZE" /\ nd.pred_xpv = x.nd.pred_xpv
      /\ nd.pred_trig = x.nd.pred_trig /\ nd.last_ttl = x.nd.last_ttl /\ nd.pc = x.nd.pc
      /\ nd.send_token = x.nd.send_token /\ nd.recv_token = x.nd.recv_token
  <2>1. "STABILIZE" \in Triggers /\ "HANDLING_STABILIZE" \in Status
    BY DEF Triggers, Status
  <2> QED BY <1>1, <2>1 DEF Node
<1> HIDE DEF nd
<1>5. NodeOK(nd)
  BY <1>1, <1>4 DEF NodeOK
<1>6. Untouched(x, y) /\ y.nd = nd
  BY <1>1, <1>4, <1>5, NodeChange
<1> HIDE DEF y
<1>7. Begun(n, y)
  BY <1>4, <1>6 DEF Begun, Untouched
<1> QED BY <1>3, <1>7

(* What of a turn the sockets leave as it was.                               *)
Kept(x, y) == y.self = x.self /\ y.link = x.link /\ y.took = x.took /\ y.up = x.up

(* From x on, k messages at most have been sent, and the token to send with  *)
(* them, unless the actor is left reading.                                   *)
Passed(x, y, k) ==
    /\ TurnOK(y) /\ Kept(x, y) /\ Len(y.out) <= k /\ y.nd.recv_token = x.nd.recv_token
    /\ \/ y.nd.pc = "spin" /\ y.nd.send_token = x.nd.send_token /\ TokenOut(y.out, None)
       \/ y.nd.pc # "spin" /\ y.nd.send_token = None /\ TokenOut(y.out, x.nd.send_token)

LEMMA TokenOutMore ==
    ASSUME NEW a \in Seq(Sending), NEW b \in Seq(Sending), NEW s, TokenOut(a, s),
           Len(a) <= Len(b), \A i \in 1 .. Len(a) : b[i] = a[i],
           \A i \in Len(a) + 1 .. Len(b) : b[i].msg.type # "TOKEN"
    PROVE  TokenOut(b, s)
<1>1. Len(a) \in Nat /\ Len(b) \in Nat
  BY LenProperties
<1>2. \A i \in 1 .. Len(b) : i \in 1 .. Len(a) \/ i \in Len(a) + 1 .. Len(b)
  BY <1>1
<1>3. \A i \in 1 .. Len(a) : i \in 1 .. Len(b)
  BY <1>1
<1>4. CASE s = None
  <2>1. \A i \in 1 .. Len(a) : a[i].msg.type # "TOKEN"
    BY <1>4 DEF TokenOut
  <2>2. \A i \in 1 .. Len(b) : b[i].msg.type # "TOKEN"
    BY <1>2, <2>1
  <2> QED BY <1>4, <2>2 DEF TokenOut
<1>5. CASE s # None
  <2>1. PICK p \in 1 .. Len(a) :
           /\ a[p].link \in Links /\ a[p].msg.type = "TOKEN" /\ a[p].msg.token = s
           /\ \A i \in 1 .. Len(a) : i # p => a[i].msg.type # "TOKEN"
    BY <1>5 DEF TokenOut
  <2>2. p \in 1 .. Len(b) /\ b[p] = a[p]
    BY <1>3
  <2>3. \A i \in 1 .. Len(b) : i # p => b[i].msg.type # "TOKEN"
    BY <1>2, <2>1
  <2> QED BY <1>5, <2>1, <2>2, <2>3 DEF TokenOut
<1> QED BY <1>4, <1>5

LEMMA SuccessorStage ==
    ASSUME NEW n, NEW x, Begun(n, x), NEW pollin, NEW late
    PROVE  LET y == SendToken(SuccessorSocket(x, pollin, late))
           IN Passed(x, y, 3) /\ y.nd.pc \in {"poll", "spin"}
<1> DEFINE u == SuccessorSocket(x, pollin, late)
           y == SendToken(u)
           s == x.nd.send_token
<1>1. TurnOK(x) /\ x.out = <<>> /\ Len(x.out) = 0 /\ x.nd.pc = "poll"
  <2>1. TurnOK(x) /\ x.out = <<>> /\ x.nd.pc = "poll"
    BY DEF Begun
  <2> QED BY <2>1, EmptySeq
<1>2. TurnOK(u) /\ Plainly(x, u, 2) /\ u.nd.pc \in {"poll", "spin"}
  BY <1>1, SuccessorSocketOK
<1> HIDE DEF u, s
<1>3. /\ Len(u.out) \in Nat /\ u.out \in Seq(Sending) /\ Len(u.out) <= 2 /\ Kept(x, u)
      /\ u.nd.send_token = s /\ u.nd.recv_token = x.nd.recv_token
      /\ \A i \in 1 .. Len(u.out) : u.out[i].msg.type # "TOKEN"
  <2>1. Len(u.out) \in Nat /\ u.out \in Seq(Sending)
    BY <1>2, LenProperties DEF TurnOK, TurnRecord
  <2>2. Len(u.out) <= 0 + 2 /\ Kept(x, u)
    BY <1>1, <1>2 DEF Plainly, Kept
  <2>3. \A i \in 0 + 1 .. Len(u.out) : u.out[i].msg.type # "TOKEN"
    BY <1>1, <1>2 DEF Plainly
  <2>4. u.nd.send_token = s /\ u.nd.recv_token = x.nd.recv_token
    BY <1>2 DEF Plainly, s
  <2> QED BY <2>1, <2>2, <2>3, <2>4
<1>4. CASE u.nd.pc = "spin"
  <2>1. y = u
    BY <1>2, <1>4, SendTokenOK
  <2> HIDE DEF y
  <2>2. TokenOut(y.out, None)
    BY <1>3, <2>1 DEF TokenOut
  <2>3. Len(y.out) <= 3
    BY <1>3, <2>1
  <2> QED BY <1>2, <1>3, <1>4, <2>1, <2>2, <2>3 DEF Passed, y, u, s
<1>5. CASE u.nd.pc # "spin" /\ s = None
  <2>1. y = u
    BY <1>2, <1>3, <1>5, SendTokenOK
  <2> HIDE DEF y
  <2>2. TokenOut(y.out, s)
    BY <1>3, <1>5, <2>1 DEF TokenOut
  <2>3. Len(y.out) <= 3
    BY <1>3, <2>1
  <2> QED BY <1>2, <1>3, <1>5, <2>1, <2>2, <2>3 DEF Passed, y, u, s
<1>6. CASE u.nd.pc # "spin" /\ s # None
  <2> DEFINE o == [link |-> <<u.self, "succ", u.nd.successor>>,
                   msg |-> [type |-> "TOKEN", token |-> u.nd.send_token]]
             N == Len(u.out)
  <2>1. /\ TurnOK(y) /\ o.link \in Links /\ o \in Sending
        /\ y.out = Append(u.out, o) /\ y.nd.send_token = None
        /\ y.self = u.self /\ y.link = u.link /\ y.took = u.took /\ y.up = u.up
        /\ y.nd.recv_token = u.nd.recv_token /\ y.nd.pc = u.nd.pc
    BY <1>2, <1>3, <1>6, SendTokenOK
  <2>2. o.msg.type = "TOKEN" /\ o.msg.token = s
    BY <1>3
  <2> HIDE DEF o, y
  <2>3. /\ Len(y.out) = N + 1 /\ y.out[N + 1] = o
        /\ \A i \in 1 .. N : y.out[i] = u.out[i]
    BY <1>3, <2>1, AppendProperties
  <2>4. N + 1 \in 1 .. Len(y.out) /\ Len(y.out) <= 3
        /\ \A i \in 1 .. Len(y.out) : i # N + 1 => i \in 1 .. N
    BY <1>3, <2>3
  <2>5. TokenOut(y.out, s)
    <3>1. \A i \in 1 .. Len(y.out) : i # N + 1 => y.out[i].msg.type # "TOKEN"
      BY <1>3, <2>3, <2>4
    <3>2. y.out[N + 1].link \in Links /\ y.out[N + 1].msg.type = "TOKEN"
          /\ y.out[N + 1].msg.token = s
      BY <2>1, <2>2, <2>3
    <3> QED BY <1>6, <2>4, <3>1, <3>2 DEF TokenOut
  <2>6. Kept(x, y)
    BY <1>3, <2>1 DEF Kept
  <2>7. y.nd.pc = "poll" /\ y.nd.pc # "spin" /\ y.nd.recv_token = x.nd.recv_token
    BY <1>2, <1>3, <1>6, <2>1
  <2> QED BY <2>1, <2>4, <2>5, <2>6, <2>7 DEF Passed, y, u, s
<1> QED BY <1>4, <1>5, <1>6

(* One more message that is no token                                         *)
LEMMA PassedMore ==
    ASSUME NEW x, NEW y, NEW z, Passed(x, y, 3), y.nd.pc # "spin",
           TurnOK(z), Plainly(y, z, 1), z.nd.pc # "spin"
    PROVE  Passed(x, z, 4)
<1>1. TurnOK(y) /\ Kept(x, y) /\ Len(y.out) <= 3 /\ y.nd.recv_token = x.nd.recv_token
      /\ y.nd.send_token = None /\ TokenOut(y.out, x.nd.send_token)
  BY DEF Passed
<1>2. y.out \in Seq(Sending) /\ z.out \in Seq(Sending) /\ Len(y.out) \in Nat /\ Len(z.out) \in Nat
  BY <1>1, LenProperties DEF TurnOK, TurnRecord
<1>3. Len(z.out) <= 4
  BY <1>1, <1>2 DEF Plainly
<1>4. TokenOut(z.out, x.nd.send_token)
  BY <1>1, <1>2, TokenOutMore DEF Plainly
<1>5. Kept(x, z) /\ z.nd.recv_token = x.nd.recv_token /\ z.nd.send_token = None
  BY <1>1 DEF Kept, Plainly
<1> QED BY <1>3, <1>4, <1>5 DEF Passed

LEMMA PredecessorStage ==
    ASSUME NEW x, NEW y, Passed(x, y, 3), y.nd.pc \in {"poll", "spin"},
           NEW revents, NEW late, NEW z \in AtPredecessor({y}, revents, late)
    PROVE  Passed(x, z, 4) /\ z.nd.pc \in {"poll", "spin", "left"}
<1>1. TurnOK(y)
  BY DEF Passed
<1>2. CASE y.nd.pc = "spin"
  <2>1. z = y
    BY <1>2 DEF AtPredecessor
  <2>2. Len(y.out) <= 4
    <3>1. Len(y.out) \in Nat /\ Len(y.out) <= 3
      BY <1>1, LenProperties DEF Passed, TurnOK, TurnRecord
    <3> QED BY <3>1
  <2> QED BY <1>2, <2>1, <2>2 DEF Passed
<1>3. CASE y.nd.pc # "spin" /\ "pred" \in revents
  <2>1. PICK v : z = PredecessorPollin(Drop(y, "pred"), v)
    <3>1. z \in {PredecessorPollin(Drop(y, "pred"), v) : v \in Received(y)}
      BY <1>3 DEF AtPredecessor
    <3> QED BY <3>1
  <2> DEFINE d == Drop(y, "pred")
  <2>2. Untouched(y, d) /\ d.nd = y.nd
    BY <1>1, DropOK DEF Socks
  <2>3. Step(y, d, 0)
    BY <1>1, <2>2, HandledIsStep DEF Handled
  <2> HIDE DEF d
  <2>4. TurnOK(d)
    BY <2>2 DEF Untouched
  <2>5. Step(d, z, 1)
    BY <2>1, <2>4, PredecessorPollinOK DEF d
  <2>6. Step(y, z, 0 + 1)
    BY <1>1, <2>3, <2>5, StepTrans
  <2>7. TurnOK(z) /\ Plainly(y, z, 1) /\ z.nd.pc = y.nd.pc
    BY <2>6 DEF Step
  <2> QED BY <1>3, <2>7, PassedMore
<1>4. CASE y.nd.pc # "spin" /\ "pred" \notin revents
  <2>1. z = PredecessorIdle(y, "pred" \in late)
    BY <1>4 DEF AtPredecessor
  <2>2. TurnOK(z) /\ Plainly(y, z, 1) /\ z.nd.pc \in {y.nd.pc, "left"}
    BY <1>1, <2>1, PredecessorIdleOK
  <2> QED BY <1>4, <2>2, PassedMore
<1> QED BY <1>2, <1>3, <1>4

(* The turn x of n at its end: where its tokens are.                         *)
Done(n, x) ==
    LET s == Taken(n, x.took)
        r == Read(n, x.link)
    IN  /\ TurnOK(x) /\ x.self = n /\ Len(x.out) <= 4
        /\ x.took => pipe[n] # <<>>
        /\ x.link # None => x.link \in Inbox(n)
        /\ \/ /\ x.nd.pc = "spin" /\ x.nd.send_token = s /\ x.nd.recv_token = r
              /\ x.up = <<>> /\ TokenOut(x.out, None)
           \/ /\ x.nd.pc = "left" /\ x.nd.send_token = None /\ x.nd.recv_token = r
              /\ x.up = <<>> /\ TokenOut(x.out, s)
           \/ /\ x.nd.pc \in {"poll", "again"} /\ x.nd.send_token = None
              /\ x.nd.recv_token = None
              /\ x.up = (IF r = None THEN <<>> ELSE <<r>>) /\ TokenOut(x.out, s)

LEMMA EndStage ==
    ASSUME NEW n, NEW x, Begun(n, x), NEW y, Passed(x, y, 4),
           y.nd.pc \in {"poll", "spin", "left"},
           NEW revents \in SUBSET {"server", "succ", "pred"}, NEW z \in Ended({y}, revents)
    PROVE  Done(n, z)
<1> DEFINE s == x.nd.send_token
           r == x.nd.recv_token
<1>1. /\ y \in TurnRecord /\ y.nd \in Node /\ NodeOK(y.nd) /\ y.self = n /\ y.up = <<>>
      /\ Len(y.out) <= 4 /\ y.took = x.took /\ y.link = x.link /\ y.nd.recv_token = r
  BY DEF Passed, Begun, Kept, TurnOK, NodeOK
<1>2. /\ s = Taken(n, y.took) /\ r = Read(n, y.link)
      /\ y.took => pipe[n] # <<>>
      /\ y.link # None => y.link \in Inbox(n)
  BY <1>1 DEF Begun
<1>3. r \in Tokens \cup {None}
  BY <1>1 DEF Node
<1>8. ASSUME z.took = y.took, z.link = y.link, z.out = y.out
      PROVE  /\ s = Taken(n, z.took) /\ r = Read(n, z.link) /\ Len(z.out) <= 4
             /\ z.took => pipe[n] # <<>>
             /\ z.link # None => z.link \in Inbox(n)
  <2> HIDE DEF s, r
  <2>1. s = Taken(n, z.took) /\ r = Read(n, z.link)
    BY <1>2, <1>8, Zenon
  <2>2. Len(z.out) <= 4
    BY <1>1, <1>8
  <2>3. z.took => pipe[n] # <<>>
    <3>1. y.took => pipe[n] # <<>>
      BY <1>2
    <3> QED BY <1>8, <3>1, Zenon
  <2>4. z.link # None => z.link \in Inbox(n)
    BY <1>2, <1>8
  <2> QED BY <2>1, <2>2, <2>3, <2>4
<1>4. CASE y.nd.pc = "spin"
  <2> DEFINE nd == [y.nd EXCEPT !.revents = revents]
  <2>1. z = [y EXCEPT !.nd.revents = revents]
    BY <1>4 DEF Ended
  <2>2. z = [y EXCEPT !.nd = nd]
    BY <1>1, <2>1 DEF TurnRecord
  <2>3. NodeOK(nd) /\ nd.pc = "spin" /\ nd.send_token = y.nd.send_token /\ nd.recv_token = r
    BY <1>1, <1>4 DEF NodeOK, Node
  <2> HIDE DEF nd
  <2>4. /\ z \in TurnRecord /\ z.nd = nd /\ z.self = n /\ z.took = y.took /\ z.link = y.link
        /\ z.out = y.out /\ z.up = <<>>
    BY <1>1, <2>2, <2>3 DEF TurnRecord, NodeOK
  <2>5. TurnOK(z)
    BY <2>3, <2>4 DEF TurnOK
  <2>6. y.nd.send_token = s /\ TokenOut(y.out, None)
    BY <1>4 DEF Passed
  <2>7. /\ z.nd.pc = "spin" /\ z.nd.send_token = s /\ z.nd.recv_token = r
        /\ z.up = <<>> /\ TokenOut(z.out, None)
    BY <2>3, <2>4, <2>6
  <2> HIDE DEF s, r
  <2> QED BY <1>8, <2>4, <2>5, <2>7, Zenon DEF Done
<1>5. y.nd.pc # "spin" => y.nd.send_token = None /\ TokenOut(y.out, s)
  BY DEF Passed
<1>6. CASE y.nd.pc = "left"
  <2>1. z = y
    BY <1>6 DEF Ended, Finish
  <2>2. /\ z.nd.pc = "left" /\ z.nd.send_token = None /\ z.nd.recv_token = r
        /\ z.up = <<>> /\ TokenOut(z.out, s) /\ TurnOK(z) /\ z.self = n
        /\ z.took = y.took /\ z.link = y.link /\ z.out = y.out
    BY <1>1, <1>5, <1>6, <2>1 DEF TurnOK
  <2> HIDE DEF s, r
  <2> QED BY <1>8, <2>2, Zenon DEF Done
<1>7. CASE y.nd.pc = "poll"
  <2> DEFINE up == IF y.nd.recv_token = None THEN <<>> ELSE <<y.nd.recv_token>>
             p == IF y.clock = "due" THEN "again" ELSE "poll"
             q == IF y.clock = "due" THEN revents ELSE {}
             nd == [y.nd EXCEPT !.recv_token = None, !.trig = "NO", !.pc = p, !.revents = q]
  <2>1. z = [y EXCEPT !.up = up, !.nd.recv_token = None, !.nd.trig = "NO",
                      !.nd.pc = p, !.nd.revents = q]
    BY <1>7 DEF Ended, Finish
  <2>2. up \in Seq(Tokens) /\ up = IF r = None THEN <<>> ELSE <<r>>
    BY <1>1, <1>3
  <2>3. p \in {"poll", "again"} /\ q \in SUBSET {"server", "succ", "pred"}
    OBVIOUS
  <2> HIDE DEF up, p, q
  <2>4. z = [y EXCEPT !.up = up, !.nd = nd]
    BY <1>1, <2>1 DEF TurnRecord
  <2>5. /\ nd \in Node /\ nd.trig = "NO" /\ nd.pred_xpv = y.nd.pred_xpv
        /\ nd.pred_trig = y.nd.pred_trig /\ nd.last_ttl = y.nd.last_ttl
    <3>1. "NO" \in Triggers
      BY DEF Triggers
    <3> QED BY <1>1, <2>3, <3>1 DEF Node
  <2>6. nd.pc = p /\ nd.send_token = y.nd.send_token /\ nd.recv_token = None
    BY <1>1 DEF Node
  <2> HIDE DEF nd
  <2>7. NodeOK(nd)
    BY <1>1, <2>5 DEF NodeOK
  <2>8. /\ z \in TurnRecord /\ z.nd = nd /\ z.self = n /\ z.took = y.took /\ z.link = y.link
        /\ z.out = y.out /\ z.up = up
    BY <1>1, <2>2, <2>4, <2>5 DEF TurnRecord
  <2>9. TurnOK(z)
    BY <2>7, <2>8 DEF TurnOK
  <2>10. y.nd.send_token = None /\ TokenOut(y.out, s)
    BY <1>5, <1>7
  <2>11. z.nd.pc \in {"poll", "again"} /\ z.nd.send_token = None /\ z.nd.recv_token = None
    BY <2>3, <2>6, <2>8, <2>10
  <2>12. z.up = (IF r = None THEN <<>> ELSE <<r>>) /\ TokenOut(z.out, s)
    BY <2>2, <2>8, <2>10
  <2> HIDE DEF s, r
  <2> QED BY <1>8, <2>8, <2>9, <2>11, <2>12, Zenon DEF Done
<1> QED BY <1>4, <1>6, <1>7

LEMMA SocketsDone ==
    ASSUME NEW n, NEW turns, \A x \in turns : Begun(n, x),
           NEW revents \in SUBSET {"server", "succ", "pred"}, NEW late,
           NEW z \in Sockets(turns, revents, late)
    PROVE  Done(n, z)
<1>1. PICK w \in AtPredecessor(AtSuccessor(turns, revents, late), revents, late) :
         z \in Ended({w}, revents)
  BY DEF Sockets, Ended
<1>2. PICK y \in AtSuccessor(turns, revents, late) : w \in AtPredecessor({y}, revents, late)
  BY <1>1 DEF AtPredecessor
<1>3. PICK x \in turns :
         y = SendToken(SuccessorSocket(x, "succ" \in revents, "succ" \in late))
  BY <1>2 DEF AtSuccessor
<1>4. Begun(n, x)
  OBVIOUS
<1>5. Passed(x, y, 3) /\ y.nd.pc \in {"poll", "spin"}
  BY <1>3, <1>4, SuccessorStage
<1>6. Passed(x, w, 4) /\ w.nd.pc \in {"poll", "spin", "left"}
  BY <1>2, <1>5, PredecessorStage
<1> QED BY <1>1, <1>4, <1>6, EndStage

LEMMA ServerStage ==
    ASSUME Types, NEW n \in Nodes, NEW turns, \A x \in turns : Begun(n, x) /\ x.link = None,
           NEW revents, NEW z \in AtServer(turns, revents)
    PROVE  Begun(n, z)
<1>1. PICK x \in turns : \E l \in IF "server" \in revents THEN Inbox(x.self) ELSE {None} :
         z = Timer(Server(x, l))
  BY DEF AtServer
<1>2. Begun(n, x) /\ x.link = None /\ x.self = n
  BY DEF Begun
<1>3. PICK l : (l = None \/ l \in Inbox(n)) /\ z = Timer(Server(x, l))
  BY <1>1, <1>2
<1> QED BY <1>2, <1>3, ServerOK, TimerOK

LEMMA TurnDone ==
    ASSUME Types, NEW n \in Nodes, Turn(n)
    PROVE  /\ node[n].pc \in {"poll", "again", "spin"}
           /\ \E x : /\ Done(n, x) /\ Effect(x)
                     /\ node[n].pc = "spin" => ~x.took /\ x.link = None
<1>1. /\ node[n].revents \in SUBSET {"server", "succ", "pred"} /\ node[n] \in Node
  BY DEF Types, Node
<1>2. Begun(n, Begin(n)) /\ ~Begin(n).took /\ Begin(n).link = None
  BY BeginOK
<1>3. CASE Poll(n)
  <2>1. PICK revents \in SUBSET Ready(n), late \in Lateness(n) :
          \E x \in Sockets(AtServer(AtPipe(n, revents), revents), revents \ {"pipe"}, late) :
             Effect(x)
    BY <1>3 DEF Poll
  <2>7. PICK z \in Sockets(AtServer(AtPipe(n, revents), revents), revents \ {"pipe"}, late) :
          Effect(z)
    BY <2>1
  <2>2. node[n].pc = "poll"
    BY <1>3 DEF Poll
  <2>3. \A x \in AtPipe(n, revents) : Begun(n, x) /\ x.link = None
    <3>1. "pipe" \in revents => pipe[n] # <<>>
      BY DEF Ready, Socks
    <3>2. CASE "pipe" \in revents
      BY <3>1, <3>2, TakeTokenOK DEF AtPipe
    <3>3. CASE "pipe" \notin revents
      BY <1>2, <3>3 DEF AtPipe
    <3> QED BY <3>2, <3>3
  <2>4. \A x \in AtServer(AtPipe(n, revents), revents) : Begun(n, x)
    BY <2>3, ServerStage
  <2>5. revents \ {"pipe"} \in SUBSET {"server", "succ", "pred"}
    BY DEF Ready, Socks
  <2>6. Done(n, z)
    BY <2>4, <2>5, SocketsDone
  <2> QED BY <2>2, <2>6, <2>7
<1>4. CASE Again(n)
  <2>1. PICK late \in Lateness(n) :
          \E x \in Sockets(AtServer({Begin(n)}, node[n].revents), node[n].revents, late) :
             Effect(x)
    BY <1>4 DEF Again
  <2>6. PICK z \in Sockets(AtServer({Begin(n)}, node[n].revents), node[n].revents, late) :
          Effect(z)
    BY <2>1
  <2>2. node[n].pc = "again"
    BY <1>4 DEF Again
  <2>3. \A x \in {Begin(n)} : Begun(n, x) /\ x.link = None
    BY <1>2
  <2>4. \A x \in AtServer({Begin(n)}, node[n].revents) : Begun(n, x)
    BY <2>3, ServerStage
  <2>5. Done(n, z)
    BY <1>1, <2>4, SocketsDone
  <2> QED BY <2>2, <2>5, <2>6
<1>5. CASE Spin(n)
  <2>1. PICK late \in Lateness(n) :
          \E x \in Sockets({Begin(n)}, node[n].revents, late) : Effect(x)
    BY <1>5 DEF Spin
  <2>6. PICK z \in Sockets({Begin(n)}, node[n].revents, late) : Effect(z)
    BY <2>1
  <2>2. node[n].pc = "spin"
    BY <1>5 DEF Spin
  <2>3. \A x \in {Begin(n)} : Begun(n, x)
    BY <1>2
  <2>4. Done(n, z)
    BY <1>1, <2>3, SocketsDone
  <2>5. ~z.took /\ z.link = None
    <3>1. PICK w \in AtPredecessor(AtSuccessor({Begin(n)}, node[n].revents, late),
                                   node[n].revents, late) : z \in Ended({w}, node[n].revents)
      BY <2>1 DEF Sockets, Ended
    <3>2. PICK y \in AtSuccessor({Begin(n)}, node[n].revents, late) :
             w \in AtPredecessor({y}, node[n].revents, late)
      BY <3>1 DEF AtPredecessor
    <3>3. y = SendToken(SuccessorSocket(Begin(n), "succ" \in node[n].revents, "succ" \in late))
      BY <3>2 DEF AtSuccessor
    <3>4. Passed(Begin(n), y, 3) /\ y.nd.pc \in {"poll", "spin"}
      BY <1>2, <3>3, SuccessorStage
    <3>5. Passed(Begin(n), w, 4) /\ w.nd.pc \in {"poll", "spin", "left"}
      BY <3>2, <3>4, PredecessorStage
    <3>6. w.took = Begin(n).took /\ w.link = Begin(n).link /\ w \in TurnRecord
      BY <3>5 DEF Passed, Kept, TurnOK
    <3>7. z.took = w.took /\ z.link = w.link
      <4>1. ASSUME NEW revents
            PROVE  /\ [w EXCEPT !.nd.revents = revents].took = w.took
                   /\ [w EXCEPT !.nd.revents = revents].link = w.link
        BY <3>6 DEF TurnRecord
      <4>2. ASSUME NEW up, NEW pc, NEW revents
            PROVE  LET u == [w EXCEPT !.up = up, !.nd.recv_token = None, !.nd.trig = "NO",
                                      !.nd.pc = pc, !.nd.revents = revents]
                   IN u.took = w.took /\ u.link = w.link
        BY <3>6 DEF TurnRecord
      <4>3. z = IF w.nd.pc = "spin" THEN [w EXCEPT !.nd.revents = node[n].revents]
                ELSE Finish(w, node[n].revents)
        BY <3>1 DEF Ended
      <4>4. Finish(w, node[n].revents).took = w.took /\ Finish(w, node[n].revents).link = w.link
        BY <4>2 DEF Finish
      <4> QED BY <4>1, <4>3, <4>4
    <3> QED BY <1>2, <3>6, <3>7
  <2> QED BY <2>2, <2>4, <2>5, <2>6
<1> QED BY <1>3, <1>4, <1>5 DEF Turn

-------------------------------------------------------------------------------
(* Tokens in sequences *)

Has(q, t) == \E j \in 1 .. Len(q) : q[j] = t
Distinct(q) == \A i, j \in 1 .. Len(q) : q[i] = q[j] => i = j

Bears(q, t) == \E j \in 1 .. Len(q) : q[j].type = "TOKEN" /\ q[j].token = t
BearsOnce(q) ==
    \A i, j \in 1 .. Len(q) :
        q[i].type = "TOKEN" /\ q[j].type = "TOKEN" /\ q[i].token = q[j].token => i = j

LEMMA TailOf ==
    ASSUME NEW S, NEW q \in Seq(S), q # <<>>
    PROVE  /\ Tail(q) \in Seq(S) /\ Head(q) = q[1] /\ Head(q) \in S /\ 1 \in 1 .. Len(q)
           /\ \A j \in 1 .. Len(Tail(q)) : j + 1 \in 1 .. Len(q) /\ Tail(q)[j] = q[j + 1] /\ j + 1 # 1
           /\ \A j \in 1 .. Len(q) : j # 1 => j - 1 \in 1 .. Len(Tail(q)) /\ Tail(q)[j - 1] = q[j]
<1>1. Len(q) \in Nat /\ Len(q) # 0
  BY LenProperties, EmptySeq
<1>2. Tail(q) \in Seq(S) /\ Head(q) \in S
  BY HeadTailProperties
<1>3. Len(Tail(q)) = Len(q) - 1 /\ \A i \in 1 .. Len(Tail(q)) : Tail(q)[i] = q[i + 1]
  BY HeadTailProperties
<1>4. Head(q) = q[1]
  OBVIOUS
<1>5. \A j \in 1 .. Len(Tail(q)) : j + 1 \in 1 .. Len(q) /\ Tail(q)[j] = q[j + 1] /\ j + 1 # 1
  BY <1>1, <1>3
<1>6. ASSUME NEW j \in 1 .. Len(q), j # 1
      PROVE  j - 1 \in 1 .. Len(Tail(q)) /\ Tail(q)[j - 1] = q[j]
  <2>1. j - 1 \in 1 .. Len(Tail(q)) /\ j - 1 + 1 = j
    BY <1>1, <1>3, <1>6
  <2> QED BY <1>3, <2>1
<1> QED BY <1>1, <1>2, <1>4, <1>5, <1>6

LEMMA TailHas ==
    ASSUME NEW q \in Seq(Tokens), q # <<>>, Distinct(q)
    PROVE  /\ Tail(q) \in Seq(Tokens) /\ Distinct(Tail(q)) /\ Has(q, Head(q))
           /\ \A t : Has(Tail(q), t) <=> Has(q, t) /\ t # Head(q)
<1>1. ASSUME NEW i \in 1 .. Len(Tail(q)), NEW j \in 1 .. Len(Tail(q)), Tail(q)[i] = Tail(q)[j]
      PROVE  i = j
  <2>1. i + 1 = j + 1
    BY <1>1, TailOf DEF Distinct
  <2> QED BY <2>1
<1>2. ASSUME NEW t, Has(Tail(q), t) PROVE Has(q, t) /\ t # Head(q)
  <2>1. PICK j \in 1 .. Len(Tail(q)) : Tail(q)[j] = t
    BY <1>2 DEF Has
  <2>2. j + 1 \in 1 .. Len(q) /\ q[j + 1] = t /\ j + 1 # 1 /\ 1 \in 1 .. Len(q) /\ Head(q) = q[1]
    BY <2>1, TailOf
  <2> QED BY <2>2 DEF Has, Distinct
<1>3. ASSUME NEW t, Has(q, t), t # Head(q) PROVE Has(Tail(q), t)
  <2>1. PICK j \in 1 .. Len(q) : q[j] = t
    BY <1>3 DEF Has
  <2>2. j # 1
    BY <1>3, <2>1, TailOf
  <2> QED BY <2>1, <2>2, TailOf DEF Has
<1>4. Has(q, Head(q)) /\ Tail(q) \in Seq(Tokens)
  BY TailOf DEF Has
<1> QED BY <1>1, <1>2, <1>3, <1>4 DEF Distinct

LEMMA TailBears ==
    ASSUME NEW q \in Seq(Request), q # <<>>, BearsOnce(q)
    PROVE  /\ Tail(q) \in Seq(Request) /\ BearsOnce(Tail(q))
           /\ Head(q).type = "TOKEN" => Bears(q, Head(q).token)
           /\ \A t : Bears(Tail(q), t)
                     <=> Bears(q, t) /\ ~(Head(q).type = "TOKEN" /\ Head(q).token = t)
<1>1. ASSUME NEW i \in 1 .. Len(Tail(q)), NEW j \in 1 .. Len(Tail(q)),
             Tail(q)[i].type = "TOKEN", Tail(q)[j].type = "TOKEN",
             Tail(q)[i].token = Tail(q)[j].token
      PROVE  i = j
  <2>1. i + 1 = j + 1
    BY <1>1, TailOf DEF BearsOnce
  <2> QED BY <2>1
<1>2. ASSUME NEW t, Bears(Tail(q), t)
      PROVE  Bears(q, t) /\ ~(Head(q).type = "TOKEN" /\ Head(q).token = t)
  <2>1. PICK j \in 1 .. Len(Tail(q)) : Tail(q)[j].type = "TOKEN" /\ Tail(q)[j].token = t
    BY <1>2 DEF Bears
  <2>2. /\ j + 1 \in 1 .. Len(q) /\ q[j + 1] = Tail(q)[j] /\ j + 1 # 1 /\ 1 \in 1 .. Len(q)
        /\ Head(q) = q[1]
    BY TailOf
  <2>3. q[j + 1].type = "TOKEN" /\ q[j + 1].token = t
    BY <2>1, <2>2
  <2> QED BY <2>2, <2>3 DEF Bears, BearsOnce
<1>3. ASSUME NEW t, Bears(q, t), ~(Head(q).type = "TOKEN" /\ Head(q).token = t)
      PROVE  Bears(Tail(q), t)
  <2>1. PICK j \in 1 .. Len(q) : q[j].type = "TOKEN" /\ q[j].token = t
    BY <1>3 DEF Bears
  <2>2. j # 1
    BY <1>3, <2>1, TailOf
  <2>3. j - 1 \in 1 .. Len(Tail(q)) /\ Tail(q)[j - 1] = q[j]
    BY <2>2, TailOf
  <2> QED BY <2>1, <2>3 DEF Bears
<1>4. Tail(q) \in Seq(Request) /\ (Head(q).type = "TOKEN" => Bears(q, Head(q).token))
  BY TailOf DEF Bears
<1>5. BearsOnce(Tail(q))
  BY <1>1 DEF BearsOnce
<1> QED BY <1>2, <1>3, <1>4, <1>5

LEMMA AppendOf ==
    ASSUME NEW S, NEW q \in Seq(S), NEW e \in S
    PROVE  /\ Append(q, e) \in Seq(S) /\ Len(Append(q, e)) = Len(q) + 1 /\ Len(q) \in Nat
           /\ Append(q, e)[Len(q) + 1] = e
           /\ \A j \in 1 .. Len(q) : Append(q, e)[j] = q[j] /\ j \in 1 .. Len(q) + 1 /\ j # Len(q) + 1
           /\ \A j \in 1 .. Len(q) + 1 : j \in 1 .. Len(q) \/ j = Len(q) + 1
           /\ Len(q) + 1 \in 1 .. Len(q) + 1
<1>1. Len(q) \in Nat
  BY LenProperties
<1> QED BY <1>1, AppendProperties

LEMMA AppendHas ==
    ASSUME NEW q \in Seq(Tokens), NEW e \in Tokens
    PROVE  /\ Append(q, e) \in Seq(Tokens)
           /\ \A t : Has(Append(q, e), t) <=> Has(q, t) \/ t = e
           /\ Distinct(q) /\ ~Has(q, e) => Distinct(Append(q, e))
<1> DEFINE a == Append(q, e)
           L == Len(q)
<1>1. /\ a \in Seq(Tokens) /\ Len(a) = L + 1 /\ a[L + 1] = e
      /\ \A j \in 1 .. L : a[j] = q[j] /\ j \in 1 .. L + 1
      /\ \A j \in 1 .. L + 1 : j \in 1 .. L \/ j = L + 1
      /\ L + 1 \in 1 .. L + 1
  BY AppendOf
<1> HIDE DEF a, L
<1>2. \A t : Has(a, t) <=> (\E j \in 1 .. L : q[j] = t) \/ t = e
  BY <1>1 DEF Has
<1>3. ASSUME Distinct(q), ~Has(q, e) PROVE Distinct(a)
  <2>1. \A i, j \in 1 .. L : q[i] = q[j] => i = j
    BY <1>3 DEF Distinct, L
  <2>2. \A j \in 1 .. L : q[j] # e
    BY <1>3 DEF Has, L
  <2> QED BY <1>1, <2>1, <2>2 DEF Distinct
<1> QED BY <1>1, <1>2, <1>3 DEF Has, a, L

LEMMA AppendBears ==
    ASSUME NEW q \in Seq(Request), NEW e \in Request
    PROVE  /\ Append(q, e) \in Seq(Request)
           /\ \A t : Bears(Append(q, e), t)
                     <=> Bears(q, t) \/ (e.type = "TOKEN" /\ e.token = t)
           /\ BearsOnce(q) /\ (e.type = "TOKEN" => ~Bears(q, e.token))
                => BearsOnce(Append(q, e))
<1> DEFINE a == Append(q, e)
           L == Len(q)
<1>1. /\ a \in Seq(Request) /\ Len(a) = L + 1 /\ a[L + 1] = e
      /\ \A j \in 1 .. L : a[j] = q[j] /\ j \in 1 .. L + 1
      /\ \A j \in 1 .. L + 1 : j \in 1 .. L \/ j = L + 1
      /\ L + 1 \in 1 .. L + 1
  BY AppendOf
<1> HIDE DEF a, L
<1>2. \A t : Bears(a, t) <=> (\E j \in 1 .. L : q[j].type = "TOKEN" /\ q[j].token = t)
                             \/ (e.type = "TOKEN" /\ e.token = t)
  BY <1>1 DEF Bears
<1>3. ASSUME BearsOnce(q), e.type = "TOKEN" => ~Bears(q, e.token) PROVE BearsOnce(a)
  <2>1. \A i, j \in 1 .. L :
          q[i].type = "TOKEN" /\ q[j].type = "TOKEN" /\ q[i].token = q[j].token => i = j
    BY <1>3 DEF BearsOnce, L
  <2>2. \A j \in 1 .. L : e.type = "TOKEN" /\ q[j].type = "TOKEN" => q[j].token # e.token
    BY <1>3 DEF Bears, L
  <2> QED BY <1>1, <2>1, <2>2 DEF BearsOnce
<1> QED BY <1>1, <1>2, <1>3 DEF Bears, a, L

-------------------------------------------------------------------------------
(* What is sent *)

(* From the wires w to v the tokens A, pairs of a link and a token, have     *)
(* been added.                                                               *)
Adds(w, v, A) ==
    /\ v \in [Links -> Seq(Request)]
    /\ \A l \in Links : \A t : Bears(v[l], t) <=> Bears(w[l], t) \/ <<l, t>> \in A
    /\ (\A l \in Links : BearsOnce(w[l])) /\ (\A l \in Links : \A t : <<l, t>> \in A => ~Bears(w[l], t))
         => \A l \in Links : BearsOnce(v[l])

LEMMA AddsNone ==
    ASSUME NEW w \in [Links -> Seq(Request)] PROVE Adds(w, w, {})
  BY DEF Adds

LEMMA AddsTrans ==
    ASSUME NEW w, NEW v, NEW u, NEW A, NEW B, A = {} \/ B = {}, Adds(w, v, A), Adds(v, u, B)
    PROVE  Adds(w, u, A \cup B)
  BY DEF Adds

(* The token that a message brings to a live node.                           *)
Borne(o) == IF o.msg.type = "TOKEN" /\ o.link[3] \in Live
            THEN {<<o.link, o.msg.token>>} ELSE {}

LEMMA PostOK ==
    ASSUME NEW w \in [Links -> Seq(Request)], NEW o \in Sending
    PROVE  Adds(w, Post(w, o), Borne(o))
<1>1. o.link \in Targets /\ o.msg \in Request
  BY DEF Sending
<1>2. CASE o.link[3] \notin Live
  <2>1. Post(w, o) = w /\ Borne(o) = {}
    BY <1>2 DEF Post, Borne
  <2> QED BY <2>1, AddsNone
<1>3. CASE o.link[3] \in Live /\ Post(w, o) = w /\ o.msg = Ping
  <2>1. Borne(o) = {}
    BY <1>3 DEF Borne, Ping
  <2> QED BY <1>3, <2>1, AddsNone
<1>4. CASE o.link[3] \in Live /\ Post(w, o) = [w EXCEPT ![o.link] = Append(@, o.msg)]
  <2> DEFINE l0 == o.link
             m == o.msg
             v == [w EXCEPT ![l0] = Append(@, m)]
             A == Borne(o)
  <2>1. l0 \in Links
    <3>1. l0[3] \in Nodes
      BY <1>4 DEF Live
    <3> QED BY <1>1, <3>1 DEF Targets, Links
  <2>2. A = IF m.type = "TOKEN" THEN {<<l0, m.token>>} ELSE {}
    BY <1>4 DEF Borne
  <2> HIDE DEF l0, m, A
  <2>3. w[l0] \in Seq(Request) /\ m \in Request
    BY <1>1, <2>1 DEF m
  <2>4. Append(w[l0], m) \in Seq(Request)
    BY <2>3, AppendBears
  <2>5. /\ v \in [Links -> Seq(Request)] /\ v[l0] = Append(w[l0], m)
        /\ \A l \in Links : l # l0 => v[l] = w[l]
    BY <2>1, <2>4
  <2> HIDE DEF v
  <2>6. ASSUME NEW l \in Links, NEW t
        PROVE  Bears(v[l], t) <=> Bears(w[l], t) \/ <<l, t>> \in A
    <3>1. <<l, t>> \in A <=> m.type = "TOKEN" /\ l = l0 /\ m.token = t
      BY <2>2
    <3>2. CASE l = l0
      <4>1. Bears(Append(w[l0], m), t) <=> Bears(w[l0], t) \/ (m.type = "TOKEN" /\ m.token = t)
        BY <2>3, AppendBears
      <4>2. v[l] = Append(w[l0], m) /\ w[l] = w[l0]
        BY <2>5, <3>2
      <4>3. Bears(v[l], t) <=> Bears(w[l], t) \/ (m.type = "TOKEN" /\ m.token = t)
        BY <4>1, <4>2, Zenon
      <4> QED BY <3>1, <3>2, <4>3
    <3>3. CASE l # l0
      BY <2>5, <3>1, <3>3
    <3> QED BY <3>2, <3>3
  <2>7. ASSUME \A l \in Links : BearsOnce(w[l]),
               \A l \in Links : \A t : <<l, t>> \in A => ~Bears(w[l], t), NEW l \in Links
        PROVE  BearsOnce(v[l])
    <3>1. m.type = "TOKEN" => <<l0, m.token>> \in A
      BY <2>2
    <3>2. m.type = "TOKEN" => ~Bears(w[l0], m.token)
      BY <2>1, <2>7, <3>1
    <3>3. BearsOnce(v[l0])
      BY <2>1, <2>3, <2>5, <2>7, <3>2, AppendBears
    <3> QED BY <2>5, <2>7, <3>3
  <2>8. Post(w, o) = v
    BY <1>4 DEF v, l0, m
  <2>9. Adds(w, v, A)
    BY <2>5, <2>6, <2>7 DEF Adds
  <2> QED BY <2>8, <2>9 DEF A
<1>5. /\ o.link[3] \in Live
         => (Post(w, o) = w /\ o.msg = Ping)
            \/ Post(w, o) = [w EXCEPT ![o.link] = Append(@, o.msg)]
  BY DEF Post
<1> QED BY <1>2, <1>3, <1>4, <1>5

(* The messages of a turn add its token to send, if its link leads to a live *)
(* node, and nothing else.                                                   *)
LEMMA PostAllOK ==
    ASSUME NEW w \in [Links -> Seq(Request)], NEW out \in Seq(Sending), Len(out) <= 4,
           NEW s, TokenOut(out, s)
    PROVE  \E A : /\ Adds(w, PostAll(w, out), A)
                  /\ s = None => A = {}
                  /\ s # None => \E l \in Links : /\ A \in {{}, {<<l, s>>}}
                                                  /\ l[3] \in Live => A = {<<l, s>>}
<1> DEFINE L == Len(out)
           post(v, i) == IF i <= Len(out) THEN Post(v, out[i]) ELSE v
           B(i) == IF i \in 1 .. L THEN Borne(out[i]) ELSE {}
           w1 == post(w, 1)
           w2 == post(w1, 2)
           w3 == post(w2, 3)
           w4 == post(w3, 4)
<1>1. L \in 0 .. 4 /\ \A i \in 1 .. L : out[i] \in Sending
  <2>1. L \in Nat
    BY LenProperties
  <2>2. \A i \in 1 .. L : out[i] \in Sending
    BY ElementOfSeq
  <2>3. L \in 0 .. 4
    <3>1. L <= 4
      OBVIOUS
    <3> HIDE DEF L
    <3> QED BY <2>1, <3>1
  <2> QED BY <2>2, <2>3
<1>2. ASSUME NEW v \in [Links -> Seq(Request)], NEW i \in 1 .. 4
      PROVE  Adds(v, post(v, i), B(i)) /\ post(v, i) \in [Links -> Seq(Request)]
  <2>1. CASE i <= L
    <3>1. i \in 1 .. L /\ out[i] \in Sending
      BY <1>1, <2>1
    <3>2. post(v, i) = Post(v, out[i]) /\ B(i) = Borne(out[i])
      BY <2>1, <3>1
    <3>3. Adds(v, Post(v, out[i]), Borne(out[i]))
      BY <3>1, PostOK
    <3> QED BY <3>2, <3>3 DEF Adds
  <2>2. CASE ~(i <= L)
    <3>1. post(v, i) = v /\ B(i) = {}
      BY <1>1, <2>2
    <3> QED BY <3>1, AddsNone
  <2> QED BY <2>1, <2>2
<1>3. PostAll(w, out) = w4
  BY DEF PostAll
(* At most one of the messages bears a token.                                *)
<1>4. \E p : (\A i \in 1 .. 4 : i # p => B(i) = {})
             /\ (s = None => \A i \in 1 .. 4 : B(i) = {})
             /\ (s # None => p \in 1 .. 4 /\ p \in 1 .. L /\ out[p].link \in Links
                             /\ out[p].msg.type = "TOKEN" /\ out[p].msg.token = s)
  <2>1. \A i \in 1 .. L : out[i].msg.type # "TOKEN" => B(i) = {}
    BY DEF Borne
  <2>2. \A i \in 1 .. 4 : i \notin 1 .. L => B(i) = {}
    OBVIOUS
  <2>3. CASE s = None
    <3>1. \A i \in 1 .. L : out[i].msg.type # "TOKEN"
      BY <2>3 DEF TokenOut
    <3> HIDE DEF B
    <3> QED BY <2>1, <2>2, <2>3, <3>1
  <2>4. CASE s # None
    <3>1. PICK p \in 1 .. L :
             /\ out[p].link \in Links /\ out[p].msg.type = "TOKEN" /\ out[p].msg.token = s
             /\ \A i \in 1 .. L : i # p => out[i].msg.type # "TOKEN"
      BY <2>4 DEF TokenOut
    <3>2. p \in 1 .. 4
      BY <1>1
    <3> HIDE DEF B
    <3> QED BY <2>1, <2>2, <2>4, <3>1, <3>2
  <2> QED BY <2>3, <2>4
<1>5. PICK p : /\ \A i \in 1 .. 4 : i # p => B(i) = {}
               /\ s = None => \A i \in 1 .. 4 : B(i) = {}
               /\ s # None => p \in 1 .. 4 /\ p \in 1 .. L /\ out[p].link \in Links
                              /\ out[p].msg.type = "TOKEN" /\ out[p].msg.token = s
  BY <1>4
<1>6. B(p) = IF p \in 1 .. L THEN Borne(out[p]) ELSE {}
  OBVIOUS
<1>7. /\ Adds(w, w1, B(1)) /\ w1 \in [Links -> Seq(Request)]
      /\ Adds(w1, w2, B(2)) /\ w2 \in [Links -> Seq(Request)]
      /\ Adds(w2, w3, B(3)) /\ w3 \in [Links -> Seq(Request)]
      /\ Adds(w3, w4, B(4)) /\ w4 \in [Links -> Seq(Request)]
  <2>1. 1 \in 1 .. 4 /\ 2 \in 1 .. 4 /\ 3 \in 1 .. 4 /\ 4 \in 1 .. 4
    OBVIOUS
  <2> HIDE DEF post, B
  <2>2. Adds(w, w1, B(1)) /\ w1 \in [Links -> Seq(Request)]
    BY <1>2, <2>1
  <2>3. Adds(w1, w2, B(2)) /\ w2 \in [Links -> Seq(Request)]
    BY <1>2, <2>1, <2>2
  <2>4. Adds(w2, w3, B(3)) /\ w3 \in [Links -> Seq(Request)]
    BY <1>2, <2>1, <2>3
  <2>5. Adds(w3, w4, B(4)) /\ w4 \in [Links -> Seq(Request)]
    BY <1>2, <2>1, <2>4
  <2> QED BY <2>2, <2>3, <2>4, <2>5
<1> DEFINE A == B(1) \cup B(2) \cup B(3) \cup B(4)
<1> HIDE DEF B, w1, w2, w3, w4
<1>8. /\ B(1) = {} \/ B(2) = {}
      /\ B(1) \cup B(2) = {} \/ B(3) = {}
      /\ B(1) \cup B(2) \cup B(3) = {} \/ B(4) = {}
  BY <1>5
<1>9. Adds(w, w2, B(1) \cup B(2))
  BY <1>7, <1>8, AddsTrans
<1>10. Adds(w, w3, B(1) \cup B(2) \cup B(3))
  BY <1>7, <1>8, <1>9, AddsTrans
<1>11. Adds(w, w4, A)
  BY <1>7, <1>8, <1>10, AddsTrans
<1>12. s = None => A = {}
  BY <1>5
<1>13. ASSUME s # None
       PROVE  \E l \in Links : A \in {{}, {<<l, s>>}} /\ (l[3] \in Live => A = {<<l, s>>})
  <2>1. p \in 1 .. 4 /\ A = B(p)
    BY <1>5, <1>13
  <2>2. B(p) = IF out[p].link[3] \in Live THEN {<<out[p].link, s>>} ELSE {}
    BY <1>5, <1>6, <1>13 DEF Borne
  <2>3. out[p].link \in Links
    BY <1>5, <1>13
  <2> HIDE DEF A
  <2> QED BY <2>1, <2>2, <2>3
<1> HIDE DEF A
<1> QED BY <1>3, <1>11, <1>12, <1>13

-------------------------------------------------------------------------------
(* Where the tokens are *)

(* Token t is in the place of kind k at the node, or on the link, a.         *)
In(t, k, a) ==
    \/ k = "pipe" /\ a \in Nodes /\ Has(pipe[a], t)
    \/ k = "slot" /\ a \in Nodes /\ node[a].send_token = t
    \/ k = "wire" /\ a \in Links /\ Bears(wire[a], t)
    \/ k = "up" /\ a \in Nodes /\ node[a].recv_token = t
    \/ k = "arrived" /\ a \in Nodes /\ Has(arrived[a], t)

InOnePlace == \A t \in Tokens : \A k, a, j, b : In(t, k, a) /\ In(t, j, b) => k = j /\ a = b

(* ... and once there.                                                       *)
OnceThere ==
    /\ \A n \in Nodes : Distinct(pipe[n]) /\ Distinct(arrived[n])
    /\ \A l \in Links : BearsOnce(wire[l])

Known == \A t \in Tokens : \A k, a : In(t, k, a) => t <= issued

(* Between two turns only an actor that is left reading has anything in its  *)
(* slots.                                                                    *)
SlotsFree ==
    \A n \in Nodes : node[n].pc \in {"poll", "again"} =>
                         node[n].send_token = None /\ node[n].recv_token = None

NoneLost == Live = Nodes => \A t \in 1 .. issued : \E k, a : In(t, k, a)

Accounted == Types /\ InOnePlace /\ OnceThere /\ Known /\ SlotsFree /\ NoneLost

(* The wires without the message that a turn has read                        *)
Without(w, l) == IF l = None THEN w ELSE [w EXCEPT ![l] = Tail(@)]

(* A turn reads the token t off link l.                                      *)
Reads(l, t) == l # None /\ Head(wire[l]).type = "TOKEN" /\ Head(wire[l]).token = t

LEMMA WithoutOK ==
    ASSUME Types, OnceThere, NEW n \in Nodes, NEW l, l # None => l \in Inbox(n)
    PROVE  /\ Without(wire, l) \in [Links -> Seq(Request)]
           /\ \A m \in Links : BearsOnce(Without(wire, l)[m])
           /\ l # None => l \in Links /\ Head(wire[l]) \in Request
           /\ \A t : Reads(l, t) => Bears(wire[l], t)
           /\ \A m \in Links : \A t :
                Bears(Without(wire, l)[m], t) <=> Bears(wire[m], t) /\ ~(m = l /\ Reads(l, t))
<1>1. wire \in [Links -> Seq(Request)] /\ \A m \in Links : BearsOnce(wire[m])
  BY DEF Types, OnceThere
<1>2. CASE l = None
  <2>1. Without(wire, l) = wire /\ \A t : ~Reads(l, t)
    BY <1>2 DEF Without, Reads
  <2> QED BY <1>1, <1>2, <2>1
<1>3. CASE l # None
  <2> DEFINE q == wire[l]
             v == Without(wire, l)
  <2>1. l \in Links /\ q \in Seq(Request) /\ q # <<>> /\ BearsOnce(q)
    BY <1>1, <1>3 DEF Inbox
  <2>2. v = [wire EXCEPT ![l] = Tail(q)]
    BY <1>3 DEF Without
  <2>3. \A t : Reads(l, t) <=> Head(q).type = "TOKEN" /\ Head(q).token = t
    BY <1>3 DEF Reads
  <2> HIDE DEF v
  <2>4. /\ Tail(q) \in Seq(Request) /\ BearsOnce(Tail(q)) /\ Head(q) \in Request
        /\ \A t : Reads(l, t) => Bears(q, t)
        /\ \A t : Bears(Tail(q), t) <=> Bears(q, t) /\ ~Reads(l, t)
    <3>1. Head(q) \in Request
      BY <2>1, TailOf
    <3>2. /\ Tail(q) \in Seq(Request) /\ BearsOnce(Tail(q))
          /\ Head(q).type = "TOKEN" => Bears(q, Head(q).token)
          /\ \A t : Bears(Tail(q), t)
                    <=> Bears(q, t) /\ ~(Head(q).type = "TOKEN" /\ Head(q).token = t)
      BY <2>1, TailBears
    <3> HIDE DEF q
    <3> QED BY <2>3, <3>1, <3>2
  <2> HIDE DEF q
  <2>5. /\ v \in [Links -> Seq(Request)] /\ v[l] = Tail(q)
        /\ \A m \in Links : m # l => v[m] = wire[m]
    BY <1>1, <2>1, <2>2, <2>4
  <2>6. \A m \in Links : BearsOnce(v[m])
    BY <1>1, <2>4, <2>5
  <2>7. ASSUME NEW m \in Links, NEW t
        PROVE  Bears(v[m], t) <=> Bears(wire[m], t) /\ ~(m = l /\ Reads(l, t))
    <3>1. CASE m = l
      <4>1. v[m] = Tail(q) /\ wire[m] = q
        BY <2>5, <3>1 DEF q
      <4>2. Bears(v[m], t) <=> Bears(wire[m], t) /\ ~Reads(l, t)
        BY <2>4, <4>1, Zenon
      <4> QED BY <3>1, <4>2
    <3>2. CASE m # l
      BY <2>5, <3>2
    <3> QED BY <3>1, <3>2
  <2>8. \A t : Reads(l, t) => Bears(wire[l], t)
    BY <2>4 DEF q
  <2>9. Head(wire[l]) \in Request
    BY <2>4 DEF q
  <2> QED BY <2>1, <2>5, <2>6, <2>7, <2>8, <2>9 DEF v
<1> QED BY <1>2, <1>3

LEMMA TurnTypes ==
    ASSUME Types, OnceThere, NEW n \in Nodes, NEW x, Done(n, x), Effect(x)
    PROVE  Types'
<1>1. /\ TurnOK(x) /\ x \in TurnRecord /\ x.self = n /\ Len(x.out) <= 4
      /\ x.took => pipe[n] # <<>>
  BY DEF Done, TurnOK
<1>2. /\ x.nd \in Node /\ NodeOK(x.nd) /\ x.frames \in [Socks -> Seq(Frame)]
      /\ x.clock \in Clock /\ x.out \in Seq(Sending) /\ x.reply \in Seq(Frame)
      /\ x.up \in Seq(Tokens)
  BY <1>1 DEF TurnOK, TurnRecord
<1>3. /\ node' = [node EXCEPT ![n] = x.nd] /\ clock' = [clock EXCEPT ![n] = x.clock]
      /\ pipe' = [pipe EXCEPT ![n] = IF x.took THEN Tail(@) ELSE @]
      /\ arrived' = [arrived EXCEPT ![n] = @ \o x.up]
      /\ issued' = issued
      /\ wire' = PostAll(Without(wire, x.link), x.out)
  BY <1>1 DEF Effect, Without
<1>4. node' \in [Nodes -> Node] /\ \A m \in Nodes : NodeOK(node'[m])
  BY <1>2, <1>3 DEF Types
<1>5. clock' \in [Nodes -> Clock] /\ issued' \in 0 .. MaxTokens
  BY <1>2, <1>3 DEF Types
<1>6. pipe' \in [Nodes -> Seq(Tokens)]
  <2>1. pipe[n] \in Seq(Tokens) /\ (x.took => Tail(pipe[n]) \in Seq(Tokens))
    BY <1>1, HeadTailProperties DEF Types
  <2> QED BY <1>3, <2>1 DEF Types
<1>7. arrived' \in [Nodes -> Seq(Tokens)]
  <2>1. arrived[n] \o x.up \in Seq(Tokens)
    BY <1>2, ConcatProperties DEF Types
  <2> QED BY <1>3, <2>1 DEF Types
<1>8. frames' \in [Nodes -> [Socks -> Seq(Frame)]]
  <2> DEFINE mine == [frames EXCEPT ![n] = x.frames]
  <2>1. mine \in [Nodes -> [Socks -> Seq(Frame)]]
    BY <1>2 DEF Types
  <2>2. frames' \in {mine, [mine EXCEPT ![x.link[1]][x.link[2]] = @ \o x.reply]}
    BY <1>1 DEF Effect
  <2> HIDE DEF mine
  <2>3. ASSUME NEW a, NEW s
        PROVE  [mine EXCEPT ![a][s] = @ \o x.reply] \in [Nodes -> [Socks -> Seq(Frame)]]
    <3>1. a \in Nodes /\ s \in Socks => mine[a][s] \o x.reply \in Seq(Frame)
      BY <1>2, <2>1, ConcatProperties
    <3>2. a \in Nodes => [mine[a] EXCEPT ![s] = @ \o x.reply] \in [Socks -> Seq(Frame)]
      BY <2>1, <3>1
    <3> QED BY <2>1, <3>2
  <2>4. CASE frames' = mine
    BY <2>1, <2>4
  <2>5. CASE frames' = [mine EXCEPT ![x.link[1]][x.link[2]] = @ \o x.reply]
    BY <2>3, <2>5, Zenon
  <2> QED BY <2>2, <2>4, <2>5
<1>9. wire' \in [Links -> Seq(Request)]
  <2>1. Without(wire, x.link) \in [Links -> Seq(Request)]
    BY WithoutOK DEF Done
  <2>2. \E s : TokenOut(x.out, s)
    BY DEF Done
  <2>3. PICK s : TokenOut(x.out, s)
    BY <2>2
  <2>4. \E A : Adds(Without(wire, x.link), PostAll(Without(wire, x.link), x.out), A)
    BY <1>1, <1>2, <2>1, <2>3, PostAllOK
  <2> QED BY <1>3, <2>4 DEF Adds
<1> QED BY <1>4, <1>5, <1>6, <1>7, <1>8, <1>9 DEF Types

LEMMA NoToken == None \notin Tokens
  BY RingAssumption DEF Tokens

(* A turn moves the token to send, s, from the pipe or its slot onto a link, *)
(* or leaves it in its slot, and the token received, r, from a link or its   *)
(* slot up to the daemon, or leaves it in its slot.                          *)
LEMMA TurnAccounted ==
    ASSUME Accounted, NEW n \in Nodes, Turn(n) PROVE Accounted'
<1>1. PICK x : /\ Done(n, x) /\ Effect(x) /\ node[n].pc \in {"poll", "again", "spin"}
               /\ node[n].pc = "spin" => ~x.took /\ x.link = None
  BY TurnDone DEF Accounted
<1>2. Types /\ OnceThere /\ InOnePlace /\ SlotsFree /\ Known /\ NoneLost
  BY DEF Accounted
<1>3. /\ TurnOK(x) /\ x \in TurnRecord /\ x.self = n /\ Len(x.out) <= 4
      /\ x.took => pipe[n] # <<>>
      /\ x.link # None => x.link \in Inbox(n)
      /\ x.out \in Seq(Sending) /\ node[n] \in Node
  BY <1>1, <1>2 DEF Done, TurnOK, TurnRecord, Types
<1>4. PICK s, r : s = Taken(n, x.took) /\ r = Read(n, x.link)
  OBVIOUS
<1>5. PICK ks, kr, ar : /\ ks = IF x.took THEN "pipe" ELSE "slot"
                        /\ kr = IF x.link # None /\ Head(wire[x.link]).type = "TOKEN"
                                THEN "wire" ELSE "up"
                        /\ ar = IF kr = "wire" THEN x.link ELSE n
  OBVIOUS
<1>6. PICK spin, up : spin = (x.nd.pc = "spin") /\ up = (x.nd.pc \in {"spin", "left"})
  OBVIOUS
<1>7. /\ x.nd.send_token = IF spin THEN s ELSE None
      /\ x.nd.recv_token = IF up THEN r ELSE None
      /\ x.up = IF up \/ r = None THEN <<>> ELSE <<r>>
      /\ TokenOut(x.out, IF spin THEN None ELSE s)
      /\ x.nd.pc \in {"poll", "again", "spin", "left"}
      /\ spin => up
  BY <1>1, <1>4, <1>6 DEF Done
<1>8. /\ node' = [node EXCEPT ![n] = x.nd]
      /\ pipe' = [pipe EXCEPT ![n] = IF x.took THEN Tail(@) ELSE @]
      /\ arrived' = [arrived EXCEPT ![n] = @ \o x.up]
      /\ issued' = issued
      /\ wire' = PostAll(Without(wire, x.link), x.out)
  BY <1>1, <1>3 DEF Effect, Without
<1>9. Types'
  BY <1>1, <1>2, TurnTypes
(* Where the two tokens are.                                                 *)
<1>10. /\ s \in Tokens \cup {None}
       /\ s \in Tokens => In(s, ks, n)
       /\ ks = "pipe" => s = Head(pipe[n]) /\ pipe[n] # <<>>
       /\ node[n].send_token \in {None, s}
  <2>1. CASE x.took
    <3>1. s = Head(pipe[n]) /\ ks = "pipe" /\ pipe[n] # <<>>
      BY <1>3, <1>4, <1>5, <2>1 DEF Taken
    <3>2. s \in Tokens /\ Has(pipe[n], s)
      BY <1>2, <3>1, TailHas, HeadTailProperties DEF Types, OnceThere
    <3>3. node[n].send_token = None
      BY <1>1, <1>2, <2>1 DEF SlotsFree
    <3> QED BY <3>1, <3>2, <3>3 DEF In
  <2>2. CASE ~x.took
    <3>1. s = node[n].send_token /\ ks = "slot"
      BY <1>4, <1>5, <2>2 DEF Taken
    <3>2. s \in Tokens \cup {None}
      BY <1>3, <3>1 DEF Node
    <3> QED BY <3>1, <3>2 DEF In
  <2> QED BY <2>1, <2>2
<1>11. /\ Without(wire, x.link) \in [Links -> Seq(Request)]
       /\ \A m \in Links : BearsOnce(Without(wire, x.link)[m])
       /\ x.link # None => x.link \in Links /\ Head(wire[x.link]) \in Request
       /\ \A t : Reads(x.link, t) => Bears(wire[x.link], t)
       /\ \A m \in Links : \A t :
            Bears(Without(wire, x.link)[m], t)
              <=> Bears(wire[m], t) /\ ~(m = x.link /\ Reads(x.link, t))
  BY <1>2, <1>3, WithoutOK
<1>12. /\ r \in Tokens \cup {None}
       /\ r \in Tokens => In(r, kr, ar)
       /\ \A t : Reads(x.link, t) <=> kr = "wire" /\ t = r
       /\ node[n].recv_token \in {None, r}
       /\ kr = "wire" => ar = x.link
       /\ kr = "up" => ar = n
  <2>1. CASE x.link # None /\ Head(wire[x.link]).type = "TOKEN"
    <3>1. /\ r = Head(wire[x.link]).token /\ kr = "wire" /\ ar = x.link /\ x.link \in Links
          /\ Head(wire[x.link]) \in Request
      BY <1>4, <1>5, <1>11, <2>1 DEF Read
    <3>2. r \in Tokens
      BY <2>1, <3>1 DEF Request
    <3>3. \A t : Reads(x.link, t) <=> t = r
      BY <2>1, <3>1 DEF Reads
    <3>4. node[n].recv_token = None
      BY <1>1, <1>2, <2>1 DEF SlotsFree
    <3>5. In(r, kr, ar)
      BY <1>11, <3>1, <3>3 DEF In
    <3> QED BY <3>1, <3>2, <3>3, <3>4, <3>5
  <2>2. CASE ~(x.link # None /\ Head(wire[x.link]).type = "TOKEN")
    <3>1. r = node[n].recv_token /\ kr = "up" /\ ar = n
      BY <1>4, <1>5, <2>2 DEF Read
    <3>2. r \in Tokens \cup {None}
      BY <1>3, <3>1 DEF Node
    <3>3. \A t : ~Reads(x.link, t)
      BY <2>2 DEF Reads
    <3> QED BY <3>1, <3>2, <3>3 DEF In
  <2> QED BY <2>1, <2>2
<1>13. ks \in {"pipe", "slot"} /\ kr \in {"wire", "up"}
  BY <1>5
(* What becomes of each place.                                               *)
<1>14. \A a \in Nodes :
          /\ pipe'[a] = IF ks = "pipe" /\ a = n THEN Tail(pipe[a]) ELSE pipe[a]
          /\ node'[a] = IF a = n THEN x.nd ELSE node[a]
          /\ arrived'[a] = IF a = n THEN arrived[a] \o x.up ELSE arrived[a]
  BY <1>2, <1>5, <1>8 DEF Types
<1>15. \A a \in Nodes : /\ Distinct(pipe'[a])
                        /\ \A t \in Tokens : Has(pipe'[a], t)
                             <=> Has(pipe[a], t) /\ ~(ks = "pipe" /\ a = n /\ t = s)
  <2> TAKE a \in Nodes
  <2>1. pipe[a] \in Seq(Tokens) /\ Distinct(pipe[a])
    BY <1>2 DEF Types, OnceThere
  <2>2. CASE ks = "pipe" /\ a = n
    <3>1. pipe'[a] = Tail(pipe[a]) /\ pipe[a] # <<>> /\ s = Head(pipe[a])
      BY <1>10, <1>14, <2>2
    <3>2. Distinct(Tail(pipe[a])) /\ \A t : Has(Tail(pipe[a]), t) <=> Has(pipe[a], t) /\ t # s
      BY <2>1, <3>1, TailHas
    <3> QED BY <2>2, <3>1, <3>2
  <2>3. CASE ~(ks = "pipe" /\ a = n)
    <3>1. pipe'[a] = pipe[a]
      BY <1>14, <2>3
    <3> QED BY <2>1, <2>3, <3>1
  <2> QED BY <2>2, <2>3
<1>16. \A a \in Nodes, t \in Tokens :
          /\ node'[a].send_token = t <=> IF a = n THEN spin /\ t = s ELSE node[a].send_token = t
          /\ node'[a].recv_token = t <=> IF a = n THEN up /\ t = r ELSE node[a].recv_token = t
  BY <1>7, <1>14, NoToken
<1>17. r \in Tokens => ~Has(arrived[n], r)
  BY <1>2, <1>12, <1>13 DEF InOnePlace, In
<1>18. \A a \in Nodes : /\ Distinct(arrived'[a])
                        /\ \A t \in Tokens : Has(arrived'[a], t)
                             <=> Has(arrived[a], t) \/ (a = n /\ ~up /\ t = r)
  <2> TAKE a \in Nodes
  <2>1. arrived[a] \in Seq(Tokens) /\ Distinct(arrived[a])
    BY <1>2 DEF Types, OnceThere
  <2>2. CASE a = n /\ ~up /\ r # None
    <3>1. r \in Tokens /\ x.up = <<r>> /\ ~Has(arrived[a], r)
      BY <1>7, <1>12, <1>17, <2>2
    <3>2. arrived'[a] = arrived[a] \o <<r>>
      BY <1>14, <2>2, <3>1
    <3>3. arrived[a] \o <<r>> = Append(arrived[a], r)
      BY <2>1, <3>1
    <3>4. Distinct(Append(arrived[a], r))
          /\ \A t : Has(Append(arrived[a], r), t) <=> Has(arrived[a], t) \/ t = r
      BY <2>1, <3>1, AppendHas
    <3> QED BY <2>2, <3>2, <3>3, <3>4
  <2>3. CASE ~(a = n /\ ~up /\ r # None)
    <3>1. arrived'[a] = arrived[a]
      <4>1. CASE a = n
        <5>1. x.up = <<>>
          BY <1>7, <2>3, <4>1
        <5>2. arrived[a] \o <<>> = arrived[a]
          BY <2>1, ConcatEmptySeq
        <5> QED BY <1>14, <4>1, <5>1, <5>2
      <4>2. CASE a # n
        BY <1>14, <4>2
      <4> QED BY <4>1, <4>2
    <3> QED BY <2>1, <2>3, <3>1, NoToken
  <2> QED BY <2>2, <2>3
<1>19. PICK A : /\ Adds(Without(wire, x.link), wire', A)
                /\ spin \/ s = None => A = {}
                /\ ~spin /\ s # None =>
                     \E l \in Links : A \in {{}, {<<l, s>>}} /\ (l[3] \in Live => A = {<<l, s>>})
  <2> DEFINE so == IF spin THEN None ELSE s
  <2>1. TokenOut(x.out, so)
    BY <1>7
  <2> HIDE DEF so
  <2>2. PICK A : /\ Adds(Without(wire, x.link), PostAll(Without(wire, x.link), x.out), A)
                 /\ so = None => A = {}
                 /\ so # None => \E l \in Links : /\ A \in {{}, {<<l, so>>}}
                                                  /\ l[3] \in Live => A = {<<l, so>>}
    BY <1>3, <1>11, <2>1, PostAllOK
  <2>3. Adds(Without(wire, x.link), wire', A)
    BY <1>8, <2>2
  <2>4. (spin \/ s = None => so = None) /\ (~spin /\ s # None => so = s)
    BY DEF so
  <2> QED BY <2>2, <2>3, <2>4
<1>20. PICK ls : A = {} \/ (~spin /\ s \in Tokens /\ ls \in Links /\ A = {<<ls, s>>})
  BY <1>10, <1>19
<1>21. s \in Tokens /\ ~spin /\ Live = Nodes => ls \in Links /\ A = {<<ls, s>>}
  <2>1. ASSUME s \in Tokens, ~spin, Live = Nodes PROVE A # {}
    <3>1. PICK l \in Links : A \in {{}, {<<l, s>>}} /\ (l[3] \in Live => A = {<<l, s>>})
      BY <1>19, <2>1, NoToken
    <3>2. l[3] \in Nodes
      BY DEF Links
    <3> QED BY <2>1, <3>1, <3>2
  <2> QED BY <1>20, <2>1
<1>22. \A m \in Links, t \in Tokens :
          Bears(wire'[m], t)
            <=> (Bears(wire[m], t) /\ ~(kr = "wire" /\ m = ar /\ t = r)) \/ <<m, t>> \in A
  <2> TAKE m \in Links, t \in Tokens
  <2>1. Bears(wire'[m], t) <=> Bears(Without(wire, x.link)[m], t) \/ <<m, t>> \in A
    BY <1>19 DEF Adds
  <2>2. Bears(Without(wire, x.link)[m], t)
          <=> Bears(wire[m], t) /\ ~(m = x.link /\ Reads(x.link, t))
    BY <1>11
  <2>3. Reads(x.link, t) <=> kr = "wire" /\ t = r
    BY <1>12
  <2>4. kr = "wire" => ar = x.link
    BY <1>12
  <2> QED BY <2>1, <2>2, <2>3, <2>4
<1>23. \A m \in Links : BearsOnce(wire'[m])
  <2>1. ASSUME NEW m \in Links, NEW t, <<m, t>> \in A PROVE ~Bears(Without(wire, x.link)[m], t)
    <3>1. t = s /\ s \in Tokens
      BY <1>20, <2>1
    <3>2. ~In(s, "wire", m)
      BY <1>2, <1>10, <1>13, <3>1 DEF InOnePlace
    <3>3. ~Bears(wire[m], s)
      BY <3>2 DEF In
    <3> QED BY <1>11, <3>1, <3>3
  <2> QED BY <1>11, <1>19, <2>1 DEF Adds
<1>24. PICK kd, ad, ke : /\ kd = IF spin THEN "slot" ELSE "wire"
                         /\ ad = IF spin THEN n ELSE ls
                         /\ ke = IF up THEN "up" ELSE "arrived"
  OBVIOUS
(* A token that the turn moves is where it was put, any other where it was.  *)
<1>25. ASSUME NEW t \in Tokens, NEW k, NEW a, In(t, k, a)'
       PROVE  \/ In(t, k, a) /\ ~(t = s /\ k = ks /\ a = n) /\ ~(t = r /\ k = kr /\ a = ar)
              \/ t = s /\ k = kd /\ a = ad
              \/ t = r /\ k = ke /\ a = n
  <2>1. CASE k = "pipe"
    <3>1. a \in Nodes /\ Has(pipe'[a], t)
      BY <1>25, <2>1 DEF In
    <3>2. Has(pipe[a], t) /\ ~(ks = "pipe" /\ a = n /\ t = s)
      BY <1>15, <3>1
    <3> QED BY <1>13, <2>1, <3>1, <3>2 DEF In
  <2>2. CASE k = "slot"
    <3>1. a \in Nodes /\ node'[a].send_token = t
      BY <1>25, <2>2 DEF In
    <3>2. IF a = n THEN spin /\ t = s ELSE node[a].send_token = t
      BY <1>16, <3>1
    <3> QED BY <1>13, <1>24, <2>2, <3>1, <3>2 DEF In
  <2>3. CASE k = "wire"
    <3>1. a \in Links /\ Bears(wire'[a], t)
      BY <1>25, <2>3 DEF In
    <3>2. (Bears(wire[a], t) /\ ~(kr = "wire" /\ a = ar /\ t = r)) \/ <<a, t>> \in A
      BY <1>22, <3>1
    <3>3. <<a, t>> \in A => t = s /\ a = ls /\ ~spin
      BY <1>20
    <3> QED BY <1>13, <1>24, <2>3, <3>1, <3>2, <3>3 DEF In
  <2>4. CASE k = "up"
    <3>1. a \in Nodes /\ node'[a].recv_token = t
      BY <1>25, <2>4 DEF In
    <3>2. IF a = n THEN up /\ t = r ELSE node[a].recv_token = t
      BY <1>16, <3>1
    <3>3. kr = "up" => ar = n
      BY <1>12
    <3> QED BY <1>13, <1>24, <2>4, <3>1, <3>2, <3>3 DEF In
  <2>5. CASE k = "arrived"
    <3>1. a \in Nodes /\ Has(arrived'[a], t)
      BY <1>25, <2>5 DEF In
    <3>2. Has(arrived[a], t) \/ (a = n /\ ~up /\ t = r)
      BY <1>18, <3>1
    <3> QED BY <1>13, <1>24, <2>5, <3>1, <3>2 DEF In
  <2> QED BY <1>25, <2>1, <2>2, <2>3, <2>4, <2>5 DEF In
<1>26. s \in Tokens /\ r \in Tokens => s # r
  BY <1>2, <1>10, <1>12, <1>13 DEF InOnePlace
<1>27. InOnePlace'
  <2> SUFFICES ASSUME NEW t \in Tokens, NEW k, NEW a, NEW j, NEW b, In(t, k, a)', In(t, j, b)'
               PROVE  k = j /\ a = b
    BY DEF InOnePlace
  <2>1. /\ \/ In(t, k, a) /\ ~(t = s /\ k = ks /\ a = n) /\ ~(t = r /\ k = kr /\ a = ar)
           \/ t = s /\ k = kd /\ a = ad
           \/ t = r /\ k = ke /\ a = n
        /\ \/ In(t, j, b) /\ ~(t = s /\ j = ks /\ b = n) /\ ~(t = r /\ j = kr /\ b = ar)
           \/ t = s /\ j = kd /\ b = ad
           \/ t = r /\ j = ke /\ b = n
    BY <1>25
  <2>2. \A g, c, h, d : In(t, g, c) /\ In(t, h, d) => g = h /\ c = d
    BY <1>2 DEF InOnePlace
  <2>3. CASE t = s
    <3>1. In(t, ks, n) /\ t # r
      BY <1>10, <1>26, <2>3
    <3> QED BY <2>1, <2>2, <3>1
  <2>4. CASE t = r /\ t # s
    <3>1. In(t, kr, ar)
      BY <1>12, <2>4
    <3> QED BY <2>1, <2>2, <2>4, <3>1
  <2>5. CASE t # s /\ t # r
    BY <2>1, <2>2, <2>5
  <2> QED BY <2>3, <2>4, <2>5
<1>28. OnceThere'
  BY <1>15, <1>18, <1>23 DEF OnceThere
<1>29. Known'
  <2> SUFFICES ASSUME NEW t \in Tokens, NEW k, NEW a, In(t, k, a)' PROVE t <= issued
    BY <1>8 DEF Known
  <2>1. In(t, k, a) \/ t = s \/ t = r
    BY <1>25
  <2>2. \E j, b : In(t, j, b)
    BY <1>10, <1>12, <2>1
  <2> QED BY <1>2, <2>2 DEF Known
<1>30. SlotsFree'
  <2>1. ASSUME NEW a \in Nodes, node'[a].pc \in {"poll", "again"}
        PROVE  node'[a].send_token = None /\ node'[a].recv_token = None
    <3>1. CASE a = n
      <4>1. x.nd.pc \in {"poll", "again"} /\ node'[a] = x.nd
        BY <1>14, <2>1, <3>1
      <4>2. ~spin /\ ~up
        BY <1>6, <4>1
      <4> QED BY <1>7, <4>1, <4>2
    <3>2. CASE a # n
      BY <1>2, <1>14, <2>1, <3>2 DEF SlotsFree
    <3> QED BY <3>1, <3>2
  <2> QED BY <2>1 DEF SlotsFree
<1>31. NoneLost'
  <2> SUFFICES ASSUME Live' = Nodes, NEW t \in 1 .. issued PROVE \E k, a : In(t, k, a)'
    BY <1>8 DEF NoneLost
  <2>1. Live = Nodes
    <3>1. \A a \in Nodes : node[a].pc \in {"down", "left"} => node'[a].pc \in {"down", "left"}
      BY <1>1, <1>14
    <3>2. \A a \in Nodes : node'[a].pc \notin {"down", "left"}
      BY DEF Live
    <3> QED BY <3>1, <3>2 DEF Live
  <2>2. t \in Tokens
    BY <1>2, Bounds DEF Types, Tokens
  <2>3. PICK k, a : In(t, k, a)
    BY <1>2, <2>1 DEF NoneLost
  <2>4. CASE t = s
    <3>1. CASE spin
      <4>1. node'[n].send_token = t
        BY <1>16, <2>2, <2>4, <3>1
      <4>2. In(t, "slot", n)'
        BY <4>1 DEF In
      <4> QED BY <4>2
    <3>2. CASE ~spin
      <4>1. ls \in Links /\ <<ls, t>> \in A
        BY <1>21, <2>1, <2>2, <2>4, <3>2
      <4>2. Bears(wire'[ls], t)
        BY <1>22, <2>2, <4>1
      <4>3. In(t, "wire", ls)'
        BY <4>1, <4>2 DEF In
      <4> QED BY <4>3
    <3> QED BY <3>1, <3>2
  <2>5. CASE t = r
    <3>1. CASE up
      <4>1. node'[n].recv_token = t
        BY <1>16, <2>2, <2>5, <3>1
      <4>2. In(t, "up", n)'
        BY <4>1 DEF In
      <4> QED BY <4>2
    <3>2. CASE ~up
      <4>1. Has(arrived'[n], t)
        BY <1>18, <2>2, <2>5, <3>2
      <4>2. In(t, "arrived", n)'
        BY <4>1 DEF In
      <4> QED BY <4>2
    <3> QED BY <3>1, <3>2
  <2>6. CASE t # s /\ t # r
    <3>1. CASE k = "pipe"
      <4>1. a \in Nodes /\ Has(pipe[a], t)
        BY <2>3, <3>1 DEF In
      <4>2. Has(pipe'[a], t)
        BY <1>15, <2>2, <2>6, <4>1
      <4> QED BY <3>1, <4>1, <4>2 DEF In
    <3>2. CASE k = "slot"
      <4>1. a \in Nodes /\ node[a].send_token = t
        BY <2>3, <3>2 DEF In
      <4>2. a # n
        BY <1>10, <2>2, <2>6, <4>1, NoToken
      <4>3. node'[a].send_token = t
        BY <1>14, <4>1, <4>2
      <4> QED BY <3>2, <4>1, <4>3 DEF In
    <3>3. CASE k = "wire"
      <4>1. a \in Links /\ Bears(wire[a], t)
        BY <2>3, <3>3 DEF In
      <4>2. Bears(wire'[a], t)
        BY <1>22, <2>2, <2>6, <4>1
      <4> QED BY <3>3, <4>1, <4>2 DEF In
    <3>4. CASE k = "up"
      <4>1. a \in Nodes /\ node[a].recv_token = t
        BY <2>3, <3>4 DEF In
      <4>2. a # n
        BY <1>12, <2>2, <2>6, <4>1, NoToken
      <4>3. node'[a].recv_token = t
        BY <1>14, <4>1, <4>2
      <4> QED BY <3>4, <4>1, <4>3 DEF In
    <3>5. CASE k = "arrived"
      <4>1. a \in Nodes /\ Has(arrived[a], t)
        BY <2>3, <3>5 DEF In
      <4>2. Has(arrived'[a], t)
        BY <1>18, <2>2, <4>1
      <4> QED BY <3>5, <4>1, <4>2 DEF In
    <3> QED BY <2>3, <3>1, <3>2, <3>3, <3>4, <3>5 DEF In
  <2> QED BY <2>4, <2>5, <2>6
<1> QED BY <1>9, <1>27, <1>28, <1>29, <1>30, <1>31 DEF Accounted

-------------------------------------------------------------------------------
(* Nodes as they are at the start, and after a crash *)

LEMMA Quotient ==
    ASSUME NEW L \in Nat, L > 0, NEW a \in Int
    PROVE  /\ a \div L \in Int /\ a % L \in 0 .. L - 1
           /\ a = L * (a \div L) + (a % L)
  BY Z3

LEMMA MultipleOf ==
    ASSUME NEW L \in Nat, L > 0, NEW q \in Int PROVE (L * q) % L = 0
<1> DEFINE d == (L * q) \div L
           r == (L * q) % L
<1>1. L * q \in Int
  OBVIOUS
<1>2. d \in Int /\ r \in 0 .. L - 1 /\ L * q = L * d + r
  BY <1>1, Quotient
<1> HIDE DEF d, r
<1>3. r = L * (q - d)
  BY <1>2
<1>4. CASE q - d >= 1
  <2>1. L * (q - d) >= L
    BY <1>2, <1>4
  <2> QED BY <1>2, <1>3, <2>1
<1>5. CASE q - d <= -1
  <2>1. L * (q - d) <= -L
    BY <1>2, <1>5
  <2> QED BY <1>2, <1>3, <2>1
<1>6. CASE q - d = 0
  BY <1>2, <1>3, <1>6
<1>7. r = 0
  BY <1>2, <1>4, <1>5, <1>6
<1> QED BY <1>7 DEF r

(* There is a member at every distance, counted around the ring.             *)
LEMMA AfterOK ==
    ASSUME NEW n \in Nodes, NEW i \in Int
    PROVE  After(n, i) \in Nodes /\ (Dist(n, After(n, i)) - i) % Len(Ring) = 0
<1> DEFINE L == Len(Ring)
           at(k) == Position[k]
<1>1. L \in Nat /\ L > 1 /\ DOMAIN Ring = 1 .. L
  BY RingAssumption, LenProperties
<1>2. \A k \in Nodes : at(k) \in 1 .. L /\ Ring[at(k)] = k
  BY <1>1 DEF Nodes, Position
<1>3. \A j \in 1 .. L : Ring[j] \in Nodes /\ at(Ring[j]) = j
  <2> SUFFICES ASSUME NEW j \in 1 .. L PROVE Ring[j] \in Nodes /\ at(Ring[j]) = j
    OBVIOUS
  <2>1. Ring[j] \in Nodes
    BY <1>1 DEF Nodes
  <2>2. at(Ring[j]) \in 1 .. L /\ Ring[at(Ring[j])] = Ring[j]
    BY <1>2, <2>1
  <2> HIDE DEF at
  <2> QED BY <1>1, <2>1, <2>2, RingAssumption
<1>4. \A m \in Nodes : Dist(n, m) = ((at(m) - at(n) + L - 1) % L) + 1
  BY DEF Dist
<1> HIDE DEF L, at
<1> DEFINE c == at(n) + i - 1
           p == (c % L) + 1
           b == p - at(n) + L - 1
<1>5. c \in Int /\ at(n) \in Int
  BY <1>1, <1>2
<1>6. c \div L \in Int /\ c % L \in 0 .. L - 1 /\ c = L * (c \div L) + (c % L)
  <2> HIDE DEF c
  <2> QED BY <1>1, <1>5, Quotient
<1>7. p \in 1 .. L /\ b \in Int
  <2>1. PICK w : w = c % L
    OBVIOUS
  <2>2. p = w + 1 /\ w \in 0 .. L - 1
    BY <1>6, <2>1
  <2>3. p \in 1 .. L
    BY <1>1, <2>2
  <2> HIDE DEF p
  <2> QED BY <1>1, <1>5, <2>3
<1>8. b \div L \in Int /\ b % L \in 0 .. L - 1 /\ b = L * (b \div L) + (b % L)
  <2> HIDE DEF b
  <2> QED BY <1>1, <1>7, Quotient
<1>9. Dist(n, Ring[p]) = (b % L) + 1
  <2>1. Ring[p] \in Nodes /\ at(Ring[p]) = p
    BY <1>3, <1>7
  <2> QED BY <1>4, <2>1
<1>10. PICK u, v, w, z : u = c \div L /\ v = b \div L /\ w = c % L /\ z = b % L
  OBVIOUS
<1>11. z + 1 - i = L * (1 - u - v)
  <2>1. u \in Int /\ v \in Int /\ w \in Int /\ z \in Int
    BY <1>1, <1>6, <1>8, <1>10
  <2>2. at(n) + i - 1 = L * u + w
    BY <1>6, <1>10
  <2>3. w + 1 - at(n) + L - 1 = L * v + z
    <3>1. p - at(n) + L - 1 = L * v + z
      BY <1>8, <1>10
    <3>2. p = w + 1
      BY <1>10
    <3> HIDE DEF p
    <3> QED BY <1>1, <1>5, <1>7, <2>1, <3>1, <3>2
  <2>4. L * (1 - u - v) = L - L * u - L * v
    BY <1>1, <2>1
  <2>5. L * u \in Int /\ L * v \in Int
    BY <1>1, <2>1
  <2> QED BY <1>1, <1>5, <2>1, <2>2, <2>3, <2>4, <2>5
<1>12. (Dist(n, Ring[p]) - i) % L = 0
  <2>1. 1 - u - v \in Int
    BY <1>6, <1>8, <1>10
  <2>2. (L * (1 - u - v)) % L = 0
    BY <1>1, <2>1, MultipleOf
  <2> QED BY <1>9, <1>10, <1>11, <2>2
<1>13. \E m \in Nodes : (Dist(n, m) - i) % Len(Ring) = 0
  BY <1>3, <1>7, <1>12 DEF L
<1> QED BY <1>13 DEF After

LEMMA MemberOK ==
    ASSUME NEW n \in Nodes
    PROVE  /\ NodeOK(MemberAt(n))
           /\ MemberAt(n).send_token = None /\ MemberAt(n).recv_token = None
           /\ MemberAt(n).pc = "poll"
<1>1. After(n, 1) \in Nodes /\ After(n, Len(Ring) - 1) \in Nodes
  <2>1. 1 \in Int /\ Len(Ring) - 1 \in Int
    BY RingAssumption, LenProperties
  <2> QED BY <2>1, AfterOK
<1>2. [i \in 1 .. RMax |-> After(n, i)] \in [1 .. RMax -> Nodes \cup {None}]
  <2>1. \A i \in 1 .. RMax : After(n, i) \in Nodes
    BY AfterOK
  <2> QED BY <2>1
<1>3. RMax \in 0 .. RMax /\ 0 \in 0 .. RMax
  BY Bounds
<1>4. MemberAt(n) \in Node
  BY <1>1, <1>2, <1>3 DEF MemberAt, Node, Status, SuccXpv, PredXpv, Triggers
<1>5. /\ MemberAt(n).trig = "NO" /\ MemberAt(n).pred_trig = "NO" /\ MemberAt(n).pred_xpv = "NO"
      /\ MemberAt(n).send_token = None /\ MemberAt(n).recv_token = None
      /\ MemberAt(n).pc = "poll"
  BY DEF MemberAt
<1> QED BY <1>4, <1>5 DEF NodeOK

-------------------------------------------------------------------------------
(* The other steps *)

(* Where a step takes tokens away only, and a node is dead after it, what    *)
(* has to be shown is short.                                                 *)
LEMMA FewerAccounted ==
    ASSUME Accounted, Types', OnceThere', SlotsFree', Live' # Nodes, issued' = issued,
           \A t \in Tokens : \A k, a : In(t, k, a)' => In(t, k, a)
    PROVE  Accounted'
<1>1. InOnePlace'
  BY DEF Accounted, InOnePlace
<1>2. Known'
  BY DEF Accounted, Known
<1>3. NoneLost'
  BY DEF NoneLost
<1> QED BY <1>1, <1>2, <1>3 DEF Accounted

(* What a node that crashes had is gone, and so is what was on its way to it.*)
LEMMA CrashAccounted ==
    ASSUME Accounted, NEW n \in Nodes, Crash(n) PROVE Accounted'
<1>1. Types /\ OnceThere /\ SlotsFree
  BY DEF Accounted
<1> DEFINE dead == [MemberAt(n) EXCEPT !.pc = "down"]
<1>2. /\ NodeOK(dead) /\ dead.send_token = None /\ dead.recv_token = None /\ dead.pc = "down"
  <2>1. PICK m : m = MemberAt(n)
    OBVIOUS
  <2>2. m \in Node /\ NodeOK(m) /\ m.send_token = None /\ m.recv_token = None
    BY <2>1, MemberOK DEF NodeOK
  <2>3. dead = [m EXCEPT !.pc = "down"]
    BY <2>1
  <2> HIDE DEF dead
  <2>4. /\ dead \in Node /\ dead.pc = "down" /\ dead.trig = m.trig
        /\ dead.pred_trig = m.pred_trig /\ dead.pred_xpv = m.pred_xpv
        /\ dead.last_ttl = m.last_ttl
        /\ dead.send_token = m.send_token /\ dead.recv_token = m.recv_token
    BY <2>2, <2>3 DEF Node
  <2> QED BY <2>2, <2>4 DEF NodeOK
<1>3. /\ node' = [node EXCEPT ![n] = dead]
      /\ wire' = [l \in Links |-> IF l[3] = n THEN <<>> ELSE wire[l]]
      /\ frames' = [frames EXCEPT ![n] = [s \in Socks |-> <<>>]]
      /\ clock' = [clock EXCEPT ![n] = "reset"]
      /\ pipe' = [pipe EXCEPT ![n] = <<>>]
      /\ arrived' = arrived /\ issued' = issued
  <2>1. DOMAIN wire = Links
    BY <1>1 DEF Types
  <2> QED BY <2>1 DEF Crash
<1> HIDE DEF dead
<1>4. <<>> \in Seq(Tokens) /\ <<>> \in Seq(Frame) /\ <<>> \in Seq(Request)
  BY EmptySeq
<1>5. /\ \A a \in Nodes : node'[a] = IF a = n THEN dead ELSE node[a]
      /\ \A a \in Nodes : pipe'[a] = IF a = n THEN <<>> ELSE pipe[a]
      /\ \A l \in Links : wire'[l] = IF l[3] = n THEN <<>> ELSE wire[l]
  BY <1>1, <1>3 DEF Types
<1>6. Types'
  <2>1. node' \in [Nodes -> Node] /\ \A a \in Nodes : NodeOK(node'[a])
    <3>1. dead \in Node
      BY <1>2 DEF NodeOK
    <3> QED BY <1>1, <1>2, <1>3, <1>5, <3>1 DEF Types
  <2>2. wire' \in [Links -> Seq(Request)]
    BY <1>1, <1>3, <1>4 DEF Types
  <2>3. frames' \in [Nodes -> [Socks -> Seq(Frame)]]
    BY <1>1, <1>3, <1>4 DEF Types
  <2>4. clock' \in [Nodes -> Clock]
    BY <1>1, <1>3 DEF Types, Clock
  <2>5. pipe' \in [Nodes -> Seq(Tokens)]
    BY <1>1, <1>3, <1>4 DEF Types
  <2> QED BY <1>1, <1>3, <2>1, <2>2, <2>3, <2>4, <2>5 DEF Types
<1>7. /\ \A t : ~Has(<<>>, t) /\ ~Bears(<<>>, t)
      /\ Distinct(<<>>) /\ BearsOnce(<<>>)
  BY DEF Has, Bears, Distinct, BearsOnce
<1>8. OnceThere'
  <2>1. \A a \in Nodes : Distinct(pipe'[a]) /\ Distinct(arrived'[a])
    BY <1>1, <1>3, <1>5, <1>7 DEF OnceThere
  <2>2. \A l \in Links : BearsOnce(wire'[l])
    BY <1>1, <1>5, <1>7 DEF OnceThere
  <2> QED BY <2>1, <2>2 DEF OnceThere
<1>9. SlotsFree'
  BY <1>1, <1>2, <1>5 DEF SlotsFree
<1>10. Live' # Nodes
  BY <1>2, <1>5 DEF Live
<1>11. ASSUME NEW t \in Tokens, NEW k, NEW a, In(t, k, a)' PROVE In(t, k, a)
  <2>1. CASE k = "pipe"
    <3>1. a \in Nodes /\ Has(pipe'[a], t)
      BY <1>11, <2>1 DEF In
    <3>2. Has(pipe[a], t)
      BY <1>5, <1>7, <3>1
    <3> QED BY <2>1, <3>1, <3>2 DEF In
  <2>2. CASE k = "slot"
    <3>1. a \in Nodes /\ node'[a].send_token = t
      BY <1>11, <2>2 DEF In
    <3>2. node[a].send_token = t
      BY <1>2, <1>5, <3>1, NoToken
    <3> QED BY <2>2, <3>1, <3>2 DEF In
  <2>3. CASE k = "wire"
    <3>1. a \in Links /\ Bears(wire'[a], t)
      BY <1>11, <2>3 DEF In
    <3>2. Bears(wire[a], t)
      BY <1>5, <1>7, <3>1
    <3> QED BY <2>3, <3>1, <3>2 DEF In
  <2>4. CASE k = "up"
    <3>1. a \in Nodes /\ node'[a].recv_token = t
      BY <1>11, <2>4 DEF In
    <3>2. node[a].recv_token = t
      BY <1>2, <1>5, <3>1, NoToken
    <3> QED BY <2>4, <3>1, <3>2 DEF In
  <2>5. CASE k = "arrived"
    BY <1>3, <1>11, <2>5 DEF In
  <2> QED BY <1>11, <2>1, <2>2, <2>3, <2>4, <2>5 DEF In
<1> QED BY <1>3, <1>6, <1>8, <1>9, <1>10, <1>11, FewerAccounted

(* A token that is given to an actor was nowhere before.                     *)
LEMMA IssueAccounted ==
    ASSUME Accounted, NEW n \in Nodes, Issue(n) PROVE Accounted'
<1>1. Types /\ OnceThere /\ InOnePlace /\ SlotsFree /\ Known /\ NoneLost
  BY DEF Accounted
<1>2. PICK e : e = issued + 1
  OBVIOUS
<1>3. /\ issued' = e /\ pipe' = [pipe EXCEPT ![n] = Append(@, e)]
      /\ node' = node /\ wire' = wire /\ frames' = frames /\ clock' = clock
      /\ arrived' = arrived
  BY <1>2 DEF Issue
<1>4. e \in Tokens /\ e \in 0 .. MaxTokens /\ issued \in Nat /\ ~(e <= issued)
  BY <1>1, <1>2, Bounds DEF Issue, Types, Tokens
<1>5. \A k, a : ~In(e, k, a)
  BY <1>1, <1>4 DEF Known
<1>6. pipe[n] \in Seq(Tokens) /\ Distinct(pipe[n]) /\ ~Has(pipe[n], e)
  BY <1>1, <1>5 DEF Types, OnceThere, In
<1>7. /\ Append(pipe[n], e) \in Seq(Tokens) /\ Distinct(Append(pipe[n], e))
      /\ \A t : Has(Append(pipe[n], e), t) <=> Has(pipe[n], t) \/ t = e
  BY <1>4, <1>6, AppendHas
<1>8. \A a \in Nodes : pipe'[a] = IF a = n THEN Append(pipe[n], e) ELSE pipe[a]
  BY <1>1, <1>3 DEF Types
<1>9. Types'
  BY <1>1, <1>3, <1>4, <1>7 DEF Types
<1>10. OnceThere'
  BY <1>1, <1>3, <1>7, <1>8 DEF OnceThere
<1>11. SlotsFree'
  BY <1>1, <1>3 DEF SlotsFree
<1>12. \A t, k, a : In(t, k, a)' <=> In(t, k, a) \/ (t = e /\ k = "pipe" /\ a = n)
  <2> TAKE t, k, a
  <2>1. CASE k = "pipe" /\ a \in Nodes
    <3>1. Has(pipe'[a], t) <=> Has(pipe[a], t) \/ (a = n /\ t = e)
      BY <1>7, <1>8, <2>1
    <3> QED BY <2>1, <3>1 DEF In
  <2>2. CASE ~(k = "pipe" /\ a \in Nodes)
    BY <1>3, <2>2 DEF In
  <2> QED BY <2>1, <2>2
<1>13. InOnePlace'
  BY <1>1, <1>5, <1>12 DEF InOnePlace
<1>14. Known'
  <2> SUFFICES ASSUME NEW t \in Tokens, NEW k, NEW a, In(t, k, a)' PROVE t <= issued'
    BY DEF Known
  <2>1. CASE In(t, k, a)
    <3>1. t <= issued
      BY <1>1, <2>1 DEF Known
    <3> QED BY <1>2, <1>3, <1>4, <3>1, Bounds DEF Tokens
  <2>2. CASE t = e
    BY <1>3, <1>4, <2>2
  <2> QED BY <1>12, <2>1, <2>2
<1>15. NoneLost'
  <2> SUFFICES ASSUME Live' = Nodes, NEW t \in 1 .. e PROVE \E k, a : In(t, k, a)'
    BY <1>3 DEF NoneLost
  <2>1. Live = Nodes
    BY <1>3 DEF Live
  <2>2. t = e \/ t \in 1 .. issued
    BY <1>2, <1>4
  <2> QED BY <1>1, <1>12, <2>1, <2>2 DEF NoneLost
<1> QED BY <1>9, <1>10, <1>11, <1>13, <1>14, <1>15 DEF Accounted

(* Time goes by, or nothing happens.                                         *)
LEMMA ClockAccounted ==
    ASSUME Accounted, clock' \in [Nodes -> Clock],
           UNCHANGED <<node, wire, frames, pipe, arrived, issued>>
    PROVE  Accounted'
<1>1. \A t, k, a : In(t, k, a)' <=> In(t, k, a)
  BY DEF In
<1>2. Live' = Live
  BY DEF Live
<1>3. Types'
  BY DEF Accounted, Types
<1>4. OnceThere' /\ SlotsFree'
  BY DEF Accounted, OnceThere, SlotsFree
<1>5. InOnePlace' /\ Known' /\ NoneLost'
  BY <1>1, <1>2 DEF Accounted, InOnePlace, Known, NoneLost
<1> QED BY <1>3, <1>4, <1>5 DEF Accounted

LEMMA NextAccounted == Accounted /\ [Next]_vars => Accounted'
<1> SUFFICES ASSUME Accounted, [Next]_vars PROVE Accounted'
  OBVIOUS
<1>1. clock \in [Nodes -> Clock]
  BY DEF Accounted, Types
<1>2. ASSUME NEW n \in Nodes, Turn(n) PROVE Accounted'
  BY <1>2, TurnAccounted
<1>3. ASSUME NEW n \in Nodes, Elapse(n) PROVE Accounted'
  <2>1. clock' \in [Nodes -> Clock] /\ UNCHANGED <<node, wire, frames, pipe, arrived, issued>>
    BY <1>1, <1>3 DEF Elapse, Clock
  <2> QED BY <2>1, ClockAccounted
<1>4. ASSUME NEW n \in Nodes, Issue(n) PROVE Accounted'
  BY <1>4, IssueAccounted
<1>5. ASSUME NEW n \in Nodes, Crash(n) PROVE Accounted'
  BY <1>5, CrashAccounted
<1>6. CASE Calm
  <2>1. clock' \in [Nodes -> Clock] /\ UNCHANGED <<node, wire, frames, pipe, arrived, issued>>
    BY <1>1, <1>6 DEF Calm, Clock
  <2> QED BY <2>1, ClockAccounted
<1>7. CASE UNCHANGED vars
  <2>1. clock' \in [Nodes -> Clock] /\ UNCHANGED <<node, wire, frames, pipe, arrived, issued>>
    BY <1>1, <1>7 DEF vars
  <2> QED BY <2>1, ClockAccounted
<1> QED BY <1>2, <1>3, <1>4, <1>5, <1>6, <1>7 DEF Next

LEMMA InitAccounted == Init => Accounted
<1> SUFFICES ASSUME Init PROVE Accounted
  OBVIOUS
<1>1. <<>> \in Seq(Tokens) /\ <<>> \in Seq(Frame) /\ <<>> \in Seq(Request)
  BY EmptySeq
<1>2. /\ \A n \in Nodes : node[n] = MemberAt(n) /\ pipe[n] = <<>> /\ arrived[n] = <<>>
      /\ \A l \in Links : wire[l] = <<>>
  BY DEF Init, Links
<1>3. Types
  <2>1. node \in [Nodes -> Node] /\ \A n \in Nodes : NodeOK(node[n])
    <3>1. \A n \in Nodes : NodeOK(MemberAt(n)) /\ MemberAt(n) \in Node
      BY MemberOK DEF NodeOK
    <3> QED BY <1>2, <3>1 DEF Init
  <2>2. issued \in 0 .. MaxTokens
    BY Bounds DEF Init
  <2> QED BY <1>1, <2>1, <2>2 DEF Init, Types, Links, Clock
<1>4. /\ \A t : ~Has(<<>>, t) /\ ~Bears(<<>>, t)
      /\ Distinct(<<>>) /\ BearsOnce(<<>>)
  BY DEF Has, Bears, Distinct, BearsOnce
<1>5. OnceThere
  BY <1>2, <1>4 DEF OnceThere
<1>6. \A n \in Nodes : node[n].send_token = None /\ node[n].recv_token = None
  BY <1>2, MemberOK
<1>7. SlotsFree
  BY <1>6 DEF SlotsFree
<1>8. \A t \in Tokens : \A k, a : ~In(t, k, a)
  BY <1>2, <1>4, <1>6, NoToken DEF In
<1>9. InOnePlace /\ Known
  BY <1>8 DEF InOnePlace, Known
<1>10. NoneLost
  BY DEF Init, NoneLost
<1> QED BY <1>3, <1>5, <1>7, <1>9, <1>10 DEF Accounted

(* The places of TokensOnce, in words                                        *)
LEMMA PlacesAre ==
    ASSUME NEW t, NEW u
    PROVE  u \in Places(t) <=>
             \/ \E n \in Nodes : u = <<"pipe", n, 0>> /\ \E j \in DOMAIN pipe[n] : pipe[n][j] = t
             \/ \E n \in Nodes : u = <<"slot", n, 0>> /\ node[n].send_token = t
             \/ \E n \in Nodes : u = <<"up", n, 0>> /\ node[n].recv_token = t
             \/ \E l \in DOMAIN wire : \E i \in DOMAIN wire[l] :
                  u = <<"wire", l, i>> /\ wire[l][i].type = "TOKEN" /\ wire[l][i].token = t
             \/ \E n \in Nodes : \E i \in DOMAIN arrived[n] :
                  u = <<"arrived", n, i>> /\ arrived[n][i] = t
<1> DEFINE P == {<<"pipe", n, 0>> : n \in {m \in Nodes : \E j \in DOMAIN pipe[m] : pipe[m][j] = t}}
           S == {<<"slot", n, 0>> : n \in {m \in Nodes : node[m].send_token = t}}
           U == {<<"up", n, 0>> : n \in {m \in Nodes : node[m].recv_token = t}}
           W(l) == {<<"wire", l, i>> : i \in {j \in DOMAIN wire[l] :
                        wire[l][j].type = "TOKEN" /\ wire[l][j].token = t}}
           A(n) == {<<"arrived", n, i>> : i \in {j \in DOMAIN arrived[n] : arrived[n][j] = t}}
           Ws == UNION {W(l) : l \in DOMAIN wire}
           As == UNION {A(n) : n \in Nodes}
<1>1. Places(t) = P \cup S \cup U \cup Ws \cup As
  BY Zenon DEF Places
<1>2. u \in P <=> \E n \in Nodes : u = <<"pipe", n, 0>> /\ \E j \in DOMAIN pipe[n] : pipe[n][j] = t
  BY Zenon
<1>3. u \in S <=> \E n \in Nodes : u = <<"slot", n, 0>> /\ node[n].send_token = t
  BY Zenon
<1>4. u \in U <=> \E n \in Nodes : u = <<"up", n, 0>> /\ node[n].recv_token = t
  BY Zenon
<1>5. \A l : u \in W(l) <=> \E i \in DOMAIN wire[l] :
                  u = <<"wire", l, i>> /\ wire[l][i].type = "TOKEN" /\ wire[l][i].token = t
  BY Zenon
<1>6. \A n : u \in A(n) <=> \E i \in DOMAIN arrived[n] :
                  u = <<"arrived", n, i>> /\ arrived[n][i] = t
  BY Zenon
<1> HIDE DEF P, S, U, W, A
<1>7. u \in Ws <=> \E l \in DOMAIN wire : u \in W(l)
  BY Zenon
<1>8. u \in As <=> \E n \in Nodes : u \in A(n)
  BY Zenon
<1> HIDE DEF Ws, As
<1>9. u \in Places(t) <=> \/ u \in P \/ u \in S \/ u \in U
                          \/ \E l \in DOMAIN wire : u \in W(l)
                          \/ \E n \in Nodes : u \in A(n)
  <2>1. u \in Places(t) <=> u \in P \/ u \in S \/ u \in U \/ u \in Ws \/ u \in As
    BY <1>1
  <2> QED BY <1>7, <1>8, <2>1, Zenon
<1>10. /\ (\E l \in DOMAIN wire : u \in W(l)) <=>
              \E l \in DOMAIN wire : \E i \in DOMAIN wire[l] :
                  u = <<"wire", l, i>> /\ wire[l][i].type = "TOKEN" /\ wire[l][i].token = t
       /\ (\E n \in Nodes : u \in A(n)) <=>
              \E n \in Nodes : \E i \in DOMAIN arrived[n] :
                  u = <<"arrived", n, i>> /\ arrived[n][i] = t
  BY <1>5, <1>6, Zenon
<1> QED BY <1>2, <1>3, <1>4, <1>9, <1>10, Zenon

(* The places of TokensOnce are those of In, told apart by index.            *)
LEMMA PlaceIsIn ==
    ASSUME Accounted, NEW t \in Tokens, NEW u \in Places(t)
    PROVE  \E k, a, i : /\ u = <<k, a, i>> /\ In(t, k, a)
                        /\ k = "wire" => /\ i \in 1 .. Len(wire[a])
                                         /\ wire[a][i].type = "TOKEN" /\ wire[a][i].token = t
                        /\ k = "arrived" => i \in 1 .. Len(arrived[a]) /\ arrived[a][i] = t
                        /\ k \in {"pipe", "slot", "up"} => i = 0
<1>1. /\ DOMAIN wire = Links
      /\ \A n \in Nodes : /\ DOMAIN pipe[n] = 1 .. Len(pipe[n])
                          /\ DOMAIN arrived[n] = 1 .. Len(arrived[n])
      /\ \A l \in Links : DOMAIN wire[l] = 1 .. Len(wire[l])
  BY LenProperties DEF Accounted, Types
<1>2. CASE \E n \in Nodes : u = <<"pipe", n, 0>> /\ \E j \in DOMAIN pipe[n] : pipe[n][j] = t
  <2>1. PICK n \in Nodes : u = <<"pipe", n, 0>> /\ \E j \in DOMAIN pipe[n] : pipe[n][j] = t
    BY <1>2
  <2>2. In(t, "pipe", n)
    BY <1>1, <2>1 DEF In, Has
  <2> QED BY <2>1, <2>2
<1>3. CASE \E n \in Nodes : u = <<"slot", n, 0>> /\ node[n].send_token = t
  <2>1. PICK n \in Nodes : u = <<"slot", n, 0>> /\ node[n].send_token = t
    BY <1>3
  <2>2. In(t, "slot", n)
    BY <2>1 DEF In
  <2> QED BY <2>1, <2>2
<1>4. CASE \E n \in Nodes : u = <<"up", n, 0>> /\ node[n].recv_token = t
  <2>1. PICK n \in Nodes : u = <<"up", n, 0>> /\ node[n].recv_token = t
    BY <1>4
  <2>2. In(t, "up", n)
    BY <2>1 DEF In
  <2> QED BY <2>1, <2>2
<1>5. CASE \E l \in DOMAIN wire : \E i \in DOMAIN wire[l] :
              u = <<"wire", l, i>> /\ wire[l][i].type = "TOKEN" /\ wire[l][i].token = t
  <2>1. PICK l \in Links : \E i \in DOMAIN wire[l] :
              u = <<"wire", l, i>> /\ wire[l][i].type = "TOKEN" /\ wire[l][i].token = t
    BY <1>1, <1>5
  <2>2. PICK i \in 1 .. Len(wire[l]) :
              u = <<"wire", l, i>> /\ wire[l][i].type = "TOKEN" /\ wire[l][i].token = t
    BY <1>1, <2>1
  <2>3. In(t, "wire", l)
    BY <2>2 DEF In, Bears
  <2> QED BY <2>2, <2>3
<1>6. CASE \E n \in Nodes : \E i \in DOMAIN arrived[n] :
              u = <<"arrived", n, i>> /\ arrived[n][i] = t
  <2>1. PICK n \in Nodes : \E i \in DOMAIN arrived[n] :
              u = <<"arrived", n, i>> /\ arrived[n][i] = t
    BY <1>6
  <2>2. PICK i \in 1 .. Len(arrived[n]) : u = <<"arrived", n, i>> /\ arrived[n][i] = t
    BY <1>1, <2>1
  <2>3. In(t, "arrived", n)
    BY <2>2 DEF In, Has
  <2> QED BY <2>2, <2>3
<1> QED BY <1>2, <1>3, <1>4, <1>5, <1>6, PlacesAre

LEMMA InIsPlace ==
    ASSUME Accounted, NEW t \in Tokens, NEW k, NEW a, In(t, k, a)
    PROVE  Places(t) # {}
<1>1. /\ DOMAIN wire = Links
      /\ \A n \in Nodes : /\ DOMAIN pipe[n] = 1 .. Len(pipe[n])
                          /\ DOMAIN arrived[n] = 1 .. Len(arrived[n])
      /\ \A l \in Links : DOMAIN wire[l] = 1 .. Len(wire[l])
  BY LenProperties DEF Accounted, Types
<1>2. CASE k = "pipe"
  <2>1. a \in Nodes /\ \E j \in DOMAIN pipe[a] : pipe[a][j] = t
    BY <1>1, <1>2 DEF In, Has
  <2>2. <<"pipe", a, 0>> \in Places(t)
    BY <2>1, PlacesAre
  <2> QED BY <2>2
<1>3. CASE k = "slot"
  <2>1. a \in Nodes /\ node[a].send_token = t
    BY <1>3 DEF In
  <2>2. <<"slot", a, 0>> \in Places(t)
    BY <2>1, PlacesAre
  <2> QED BY <2>2
<1>4. CASE k = "up"
  <2>1. a \in Nodes /\ node[a].recv_token = t
    BY <1>4 DEF In
  <2>2. <<"up", a, 0>> \in Places(t)
    BY <2>1, PlacesAre
  <2> QED BY <2>2
<1>5. CASE k = "wire"
  <2>1. a \in DOMAIN wire /\ Bears(wire[a], t)
    BY <1>1, <1>5 DEF In
  <2>2. PICK i \in DOMAIN wire[a] : wire[a][i].type = "TOKEN" /\ wire[a][i].token = t
    BY <1>1, <2>1 DEF Bears
  <2>3. <<"wire", a, i>> \in Places(t)
    BY <2>1, <2>2, PlacesAre
  <2> QED BY <2>3
<1>6. CASE k = "arrived"
  <2>1. a \in Nodes /\ Has(arrived[a], t)
    BY <1>6 DEF In
  <2>2. PICK i \in DOMAIN arrived[a] : arrived[a][i] = t
    BY <1>1, <2>1 DEF Has
  <2>3. <<"arrived", a, i>> \in Places(t)
    BY <2>1, <2>2, PlacesAre
  <2> QED BY <2>3
<1> QED BY <1>2, <1>3, <1>4, <1>5, <1>6 DEF In

LEMMA AccountedOnce == Accounted => TokensOnce
<1> SUFFICES ASSUME Accounted, NEW t \in 1 .. issued
             PROVE  /\ Cardinality(Places(t)) <= 1
                    /\ Live = Nodes => Cardinality(Places(t)) = 1
  BY DEF TokensOnce
<1>1. t \in Tokens
  BY Bounds DEF Accounted, Types, Tokens
<1>2. ASSUME NEW u \in Places(t), NEW v \in Places(t) PROVE u = v
  <2>1. PICK k, a, i : /\ u = <<k, a, i>> /\ In(t, k, a)
                       /\ k = "wire" => /\ i \in 1 .. Len(wire[a])
                                        /\ wire[a][i].type = "TOKEN" /\ wire[a][i].token = t
                       /\ k = "arrived" => i \in 1 .. Len(arrived[a]) /\ arrived[a][i] = t
                       /\ k \in {"pipe", "slot", "up"} => i = 0
    BY <1>1, PlaceIsIn
  <2>2. PICK j, b, h : /\ v = <<j, b, h>> /\ In(t, j, b)
                       /\ j = "wire" => /\ h \in 1 .. Len(wire[b])
                                        /\ wire[b][h].type = "TOKEN" /\ wire[b][h].token = t
                       /\ j = "arrived" => h \in 1 .. Len(arrived[b]) /\ arrived[b][h] = t
                       /\ j \in {"pipe", "slot", "up"} => h = 0
    BY <1>1, PlaceIsIn
  <2>3. k = j /\ a = b
    BY <1>1, <2>1, <2>2 DEF Accounted, InOnePlace
  <2>4. CASE k = "wire"
    <3>1. a \in Links /\ BearsOnce(wire[a])
      BY <2>1, <2>4 DEF In, Accounted, OnceThere
    <3>2. i = h
      BY <2>1, <2>2, <2>3, <2>4, <3>1 DEF BearsOnce
    <3> QED BY <2>1, <2>2, <2>3, <3>2
  <2>5. CASE k = "arrived"
    <3>1. a \in Nodes /\ Distinct(arrived[a])
      BY <2>1, <2>5 DEF In, Accounted, OnceThere
    <3>2. i = h
      BY <2>1, <2>2, <2>3, <2>5, <3>1 DEF Distinct
    <3> QED BY <2>1, <2>2, <2>3, <3>2
  <2>6. CASE k \in {"pipe", "slot", "up"}
    BY <2>1, <2>2, <2>3, <2>6
  <2>7. k \in {"pipe", "slot", "up", "wire", "arrived"}
    BY <2>1 DEF In
  <2> QED BY <2>4, <2>5, <2>6, <2>7
<1>3. Live = Nodes => Places(t) # {}
  <2> SUFFICES ASSUME Live = Nodes PROVE Places(t) # {}
    OBVIOUS
  <2>1. PICK k, a : In(t, k, a)
    BY DEF Accounted, NoneLost
  <2> QED BY <1>1, <2>1, InIsPlace
<1>4. PICK P : P = Places(t)
  OBVIOUS
<1>5. CASE P = {}
  <2>1. Cardinality(P) = 0
    BY <1>5, FS_EmptySet
  <2> QED BY <1>3, <1>4, <1>5, <2>1
<1>6. CASE P # {}
  <2>1. PICK u : u \in P
    BY <1>6
  <2>2. P = {u}
    BY <1>2, <1>4, <2>1
  <2>3. Cardinality(P) = 1
    BY <2>2, FS_Singleton
  <2> QED BY <1>4, <2>3
<1> QED BY <1>5, <1>6

-------------------------------------------------------------------------------
(* Whatever the members send each other, whoever crashes, and whoever is     *)
(* left reading a socket: what the nodes, the wires and the frames hold is   *)
(* what the handlers of p2pmd_actor can take, a token is in one place, and   *)
(* the slots of an actor (send_token, recv_token) are free when it polls.    *)
THEOREM TokensAreAccountedFor == Spec => []Accounted
<1> QED BY InitAccounted, NextAccounted, PTL DEF Spec

(* A token that a daemon hands to its actor is never in two places, nor      *)
(* handed on twice, and while nobody has crashed it is somewhere: the slot   *)
(* of p2pmd_actor for the token to send is not overwritten by the next one   *)
(* from the pipe before it is sent, nor that for the token received before   *)
(* it has gone up the pipe, in a ring of any size.                           *)
THEOREM TokensArriveOnce == Spec => []TokensOnce
<1> QED BY TokensAreAccountedFor, AccountedOnce, PTL

-------------------------------------------------------------------------------
(* A ring that nobody has left: the invariant *)

Follower(n) == After(n, 1)
Leader(n) == After(n, Len(Ring) - 1)
ListOf(n) == [i \in 1 .. RMax |-> After(n, i)]

(* A queue that holds tokens only, or tokens and one message of type t.      *)
OnlyTokens(q) == \A i \in DOMAIN q : q[i].type = "TOKEN"
Only(q, t) ==
    \E i \in DOMAIN q : q[i].type = t /\ \A j \in DOMAIN q : j # i => q[j].type = "TOKEN"

Pong == [type |-> "PONG"]
AckOf(n) == [type |-> "ACK", r |-> RMax, list |-> ListOf(n)]

(* The stages of the exchange of k with its successor: k's succ_xpv and what *)
(* its socket holds, f; what is on the way to the successor, q; whom the     *)
(* successor takes for its next predecessor, t; k's interval, c.             *)
Exchange(k, xpv, f, q, t, c) ==
    \/ xpv = "NO"  /\ f = <<>> /\ OnlyTokens(q) /\ t # k
    \/ xpv = "REQ" /\ f = <<>> /\ Only(q, "PING") /\ t # k /\ c = "reset"
    \/ xpv = "REQ" /\ f = <<Pong>> /\ OnlyTokens(q) /\ t # k /\ c = "reset"
    \/ xpv = "ACK" /\ f = <<>> /\ Only(q, "STABILIZE_REQ") /\ t # k /\ c = "reset"
    \/ xpv = "ACK" /\ f = <<AckOf(Follower(k))>> /\ OnlyTokens(q) /\ t = k /\ c = "reset"
    \/ xpv = "NO"  /\ f = <<>> /\ Only(q, "SYN") /\ t = k /\ c = "reset"

(* The neighbours and the list of k are what they were.                      *)
Placed(k, nd) ==
    /\ nd.successor = Follower(k) /\ nd.predecessor = Leader(k)
    /\ nd.successor_list = ListOf(k) /\ nd.r = RMax
    /\ nd.temp_predecessor \in {None, Leader(k)}
    /\ nd.pred_trig \in {"NO", "REPLICATE", "RELAY"}
    /\ nd.status \in {"MEMBER", "HANDLING_STABILIZE"}

(* Who has a status left over is in an exchange: with its successor, or with *)
(* its predecessor, whose SYN it waits for if its interval is over.          *)
Busy(nd, c) ==
    /\ nd.pc \in {"poll", "again"}
    /\ nd.trig = "NO"
    /\ nd.succ_xpv = "NO" /\ nd.status = "HANDLING_STABILIZE" => nd.temp_predecessor # None
    /\ nd.pc = "poll" /\ c = "due" => nd.status = "MEMBER"
    /\ nd.pc = "again" => /\ c = "due" /\ nd.status = "HANDLING_STABILIZE"
                          /\ "server" \in nd.revents /\ "succ" \notin nd.revents

(* Who waits for the predecessor has something on the way, to or from it.    *)
Awaited(xpv, q, f) ==
    /\ xpv \in {"NO", "PING1", "REPLICATE", "RELAY"}
    /\ xpv # "NO" => q # <<>> \/ f # <<>>

(* What is on link l: it leads to a neighbour, and a list that is sent back  *)
(* is that of the sender.                                                    *)
Carried(l, q) ==
    \A i \in DOMAIN q :
        /\ l[2] = "succ" => l[3] = Follower(l[1])
        /\ l[2] = "pred" => /\ l[3] = Leader(l[1]) /\ q[i].type \in {"PING", "SYNC_SLIST"}
                            /\ q[i].type = "SYNC_SLIST" =>
                                 q[i].r = RMax /\ q[i].list = ListOf(l[1])

InStep(k) ==
    /\ Placed(k, node[k]) /\ Busy(node[k], clock[k])
    /\ Exchange(k, node[k].succ_xpv, frames[k]["succ"], wire[<<k, "succ", Follower(k)>>],
                node[Follower(k)].temp_predecessor, clock[k])
    /\ Awaited(node[k].pred_xpv, wire[<<k, "pred", Leader(k)>>], frames[k]["pred"])

Good == /\ \A k \in Nodes : InStep(k)
        /\ \A l \in Links : Carried(l, wire[l])

(* Until the first crash                                                     *)
Standing == Live = Nodes => Good

-------------------------------------------------------------------------------
(* The ring *)

LEMMA PositionOK ==
    /\ Len(Ring) \in Nat /\ Len(Ring) > 1
    /\ \A k \in Nodes : Position[k] \in 1 .. Len(Ring)
    /\ \A k, m \in Nodes : Position[k] = Position[m] => k = m
<1>1. Len(Ring) \in Nat /\ Len(Ring) > 1 /\ DOMAIN Ring = 1 .. Len(Ring)
  BY RingAssumption, LenProperties
<1>2. \A k \in Nodes : Position[k] \in 1 .. Len(Ring) /\ Ring[Position[k]] = k
  BY <1>1 DEF Nodes, Position
<1> QED BY <1>1, <1>2

LEMMA NoMultiple ==
    ASSUME NEW L \in Nat, L > 1, NEW k \in Int, L * k < L, L * k > -L
    PROVE  k = 0
<1>1. CASE k >= 1
  <2>1. L * k >= L
    BY <1>1
  <2> QED BY <2>1
<1>2. CASE k <= -1
  <2>1. L * k <= -L
    BY <1>2
  <2> QED BY <2>1
<1> QED BY <1>1, <1>2

(* Whose places differ by whole rounds are one.                              *)
LEMMA SamePlace ==
    ASSUME NEW n \in Nodes, NEW m \in Nodes, NEW k \in Int,
           Position[n] = Position[m] + Len(Ring) * k
    PROVE  n = m
<1>1. PICK L, a, b, d : L = Len(Ring) /\ a = Position[n] /\ b = Position[m] /\ d = L * k
  OBVIOUS
<1>2. L \in Nat /\ L > 1 /\ a \in 1 .. L /\ b \in 1 .. L
  BY <1>1, PositionOK
<1>3. d \in Int /\ a = b + d
  BY <1>1, <1>2
<1>4. d < L /\ d > -L
  BY <1>2, <1>3
<1>5. k = 0
  BY <1>1, <1>2, <1>4, NoMultiple
<1>6. d = 0
  BY <1>1, <1>2, <1>5
<1>7. a = b
  BY <1>2, <1>3, <1>6
<1> QED BY <1>1, <1>7, PositionOK

(* The member i places on, and only it, is i places on but for whole rounds. *)
LEMMA AfterPlace ==
    ASSUME NEW n \in Nodes, NEW i \in Int
    PROVE  /\ After(n, i) \in Nodes
           /\ \E k \in Int : Position[After(n, i)] = Position[n] + i + Len(Ring) * k
<1>1. After(n, i) \in Nodes
  BY AfterOK
<1>2. PICK m : m = After(n, i)
  OBVIOUS
<1>3. (Dist(n, m) - i) % Len(Ring) = 0
  BY <1>1, <1>2, AfterOK
<1>4. PICK L, a, b : L = Len(Ring) /\ a = Position[n] /\ b = Position[m]
  OBVIOUS
<1>5. L \in Nat /\ L > 1 /\ a \in 1 .. L /\ b \in 1 .. L
  BY <1>1, <1>2, <1>4, PositionOK
<1>6. Dist(n, m) = ((b - a + L - 1) % L) + 1
  BY <1>4 DEF Dist
<1>7. PICK e : e = b - a + L - 1
  OBVIOUS
<1>8. e \in Int
  BY <1>5, <1>7
<1>9. e \div L \in Int /\ e % L \in 0 .. L - 1 /\ e = L * (e \div L) + (e % L)
  BY <1>5, <1>8, Quotient
<1>10. PICK u, v : u = e \div L /\ v = e % L
  OBVIOUS
<1>11. u \in Int /\ v \in Int /\ e = L * u + v
  BY <1>9, <1>10
<1>12. PICK g : g = v + 1 - i
  OBVIOUS
<1>13. g \in Int /\ g % L = 0
  <2>1. g = Dist(n, m) - i
    BY <1>6, <1>7, <1>10, <1>12
  <2>2. g \in Int
    BY <1>11, <1>12
  <2> QED BY <1>3, <1>4, <2>1, <2>2
<1>14. g \div L \in Int /\ g = L * (g \div L) + (g % L)
  BY <1>5, <1>13, Quotient
<1>15. PICK w : w = g \div L
  OBVIOUS
<1>16. w \in Int /\ g = L * w
  BY <1>5, <1>13, <1>14, <1>15
<1>17. b = a + i + L * (u + w - 1)
  <2>1. PICK lu, lw : lu = L * u /\ lw = L * w
    OBVIOUS
  <2>2. lu \in Int /\ lw \in Int
    BY <1>5, <1>11, <1>16, <2>1
  <2>3. L * (u + w - 1) = lu + lw - L
    BY <1>5, <1>11, <1>16, <2>1
  <2>4. e = lu + v /\ v + 1 - i = lw /\ e = b - a + L - 1
    BY <1>7, <1>11, <1>12, <1>16, <2>1
  <2>5. b = a + i + (lu + lw - L)
    BY <1>5, <1>8, <1>11, <2>2, <2>4
  <2> QED BY <2>3, <2>5
<1>18. u + w - 1 \in Int
  BY <1>11, <1>16
<1> QED BY <1>1, <1>2, <1>4, <1>17, <1>18

LEMMA AfterIs ==
    ASSUME NEW n \in Nodes, NEW i \in Int, NEW m \in Nodes, NEW k \in Int,
           Position[m] = Position[n] + i + Len(Ring) * k
    PROVE  After(n, i) = m
<1>1. After(n, i) \in Nodes
  BY AfterPlace
<1>2. PICK j \in Int : Position[After(n, i)] = Position[n] + i + Len(Ring) * j
  BY AfterPlace
<1>3. PICK L, a, b, x : /\ L = Len(Ring) /\ a = Position[n] /\ b = Position[m]
                        /\ x = After(n, i)
  OBVIOUS
<1>4. PICK c : c = Position[x]
  OBVIOUS
<1>5. L \in Nat /\ a \in Int /\ b \in Int /\ c \in Int
  BY <1>1, <1>3, <1>4, PositionOK
<1>6. c = b + L * (j - k)
  <2>1. PICK lj, lk : lj = L * j /\ lk = L * k
    OBVIOUS
  <2>2. lj \in Int /\ lk \in Int /\ L * (j - k) = lj - lk
    BY <1>5, <2>1
  <2>3. c = a + i + lj /\ b = a + i + lk
    BY <1>2, <1>3, <1>4, <2>1
  <2> QED BY <1>5, <2>2, <2>3
<1>7. j - k \in Int
  OBVIOUS
<1> QED BY <1>1, <1>3, <1>4, <1>6, <1>7, SamePlace

(* One place on and then i are i + 1; the next one and the one before it are *)
(* where they belong, and nobody is its own neighbour.                       *)
LEMMA Neighbours ==
    ASSUME NEW n \in Nodes
    PROVE  /\ Follower(n) \in Nodes /\ Leader(n) \in Nodes
           /\ Follower(Leader(n)) = n /\ Leader(Follower(n)) = n
           /\ Follower(n) # n /\ Leader(n) # n
           /\ \A i \in Int : After(Follower(n), i) = After(n, i + 1)
<1>1. PICK L, a : L = Len(Ring) /\ a = Position[n]
  OBVIOUS
<1>2. L \in Nat /\ L > 1 /\ a \in 1 .. L /\ 1 \in Int /\ L - 1 \in Int
  BY <1>1, PositionOK
<1>3. Follower(n) \in Nodes /\ Leader(n) \in Nodes
  BY <1>1, <1>2, AfterPlace DEF Follower, Leader
<1>4. PICK s, p : s = Follower(n) /\ p = Leader(n)
  OBVIOUS
<1>5. PICK b, d : b = Position[s] /\ d = Position[p]
  OBVIOUS
<1>6. b \in 1 .. L /\ d \in 1 .. L
  BY <1>1, <1>3, <1>4, <1>5, PositionOK
<1>7. PICK j \in Int : b = a + 1 + L * j
  BY <1>1, <1>2, <1>4, <1>5, AfterPlace DEF Follower
<1>8. PICK k \in Int : d = a + (L - 1) + L * k
  BY <1>1, <1>2, <1>4, <1>5, AfterPlace DEF Leader
<1>9. PICK lj, lk : lj = L * j /\ lk = L * k
  OBVIOUS
<1>10. /\ lj \in Int /\ lk \in Int /\ L * (-1 - k) = -L - lk /\ L * (-1 - j) = -L - lj
       /\ -1 - k \in Int /\ -1 - j \in Int
  BY <1>2, <1>9
<1>11. After(p, 1) = n
  <2>1. a = d + 1 + L * (-1 - k)
    BY <1>2, <1>6, <1>8, <1>9, <1>10
  <2>2. PICK q : q = -1 - k
    OBVIOUS
  <2>3. /\ p \in Nodes /\ n \in Nodes /\ 1 \in Int /\ q \in Int
        /\ Position[n] = Position[p] + 1 + Len(Ring) * q
    BY <1>1, <1>3, <1>4, <1>5, <1>10, <2>1, <2>2
  <2> QED BY <2>3, AfterIs
<1>12. After(s, L - 1) = n
  <2>1. a = b + (L - 1) + L * (-1 - j)
    BY <1>2, <1>6, <1>7, <1>9, <1>10
  <2>2. PICK q : q = -1 - j
    OBVIOUS
  <2>3. /\ s \in Nodes /\ n \in Nodes /\ L - 1 \in Int /\ q \in Int
        /\ Position[n] = Position[s] + (L - 1) + Len(Ring) * q
    BY <1>1, <1>2, <1>3, <1>4, <1>5, <1>10, <2>1, <2>2
  <2> QED BY <2>3, AfterIs
<1>13. s # n
  <2> SUFFICES ASSUME s = n PROVE FALSE
    OBVIOUS
  <2>1. lj = -1
    BY <1>1, <1>2, <1>5, <1>6, <1>7, <1>9, <1>10, SMTT(30)
  <2>2. j = 0
    BY <1>2, <1>9, <2>1, NoMultiple
  <2> QED BY <1>2, <1>9, <2>1, <2>2
<1>14. p # n
  <2> SUFFICES ASSUME p = n PROVE FALSE
    OBVIOUS
  <2>1. After(n, 1) = n
    BY <1>11
  <2> QED BY <1>4, <1>13, <2>1 DEF Follower
<1>15. ASSUME NEW i \in Int PROVE After(s, i) = After(n, i + 1)
  <2>1. PICK m : m = After(s, i)
    OBVIOUS
  <2>2. PICK c : c = Position[m]
    OBVIOUS
  <2>3. m \in Nodes /\ \E g \in Int : c = b + i + L * g
    BY <1>1, <1>3, <1>4, <1>5, <2>1, <2>2, AfterPlace
  <2>4. PICK g \in Int : c = b + i + L * g
    BY <2>3
  <2>5. c = a + (i + 1) + L * (j + g)
    <3>1. PICK lg : lg = L * g
      OBVIOUS
    <3>2. lg \in Int /\ L * (j + g) = lj + lg
      BY <1>2, <1>9, <3>1
    <3> QED BY <1>2, <1>6, <1>7, <1>9, <1>10, <2>4, <3>1, <3>2
  <2>6. j + g \in Int /\ i + 1 \in Int
    OBVIOUS
  <2> QED BY <1>1, <2>1, <2>2, <2>3, <2>5, <2>6, AfterIs, ZenonT(30)
<1> QED BY <1>1, <1>3, <1>4, <1>11, <1>12, <1>13, <1>14, <1>15 DEF Follower, Leader

-------------------------------------------------------------------------------
(* Queues *)

LEMMA QueueAppend ==
    ASSUME NEW q \in Seq(Request), NEW m \in Request
    PROVE  /\ m.type = "TOKEN" /\ OnlyTokens(q) => OnlyTokens(Append(q, m))
           /\ m.type # "TOKEN" /\ OnlyTokens(q) => Only(Append(q, m), m.type)
           /\ \A t : m.type = "TOKEN" /\ Only(q, t) => Only(Append(q, m), t)
           /\ \A l : Carried(l, q) /\ Carried(l, <<m>>) => Carried(l, Append(q, m))
           /\ Append(q, m) # <<>>
<1> DEFINE p == Append(q, m)
           k == Len(q) + 1
<1>1. /\ p \in Seq(Request) /\ Len(q) \in Nat /\ DOMAIN q = 1 .. Len(q) /\ DOMAIN p = 1 .. k
      /\ \A i \in 1 .. Len(q) : p[i] = q[i]
      /\ p[k] = m /\ p # <<>>
  BY AppendProperties, LenProperties
<1>2. /\ k \in DOMAIN p /\ \A i \in DOMAIN p : i # k => i \in DOMAIN q
      /\ \A i \in DOMAIN q : i \in DOMAIN p /\ i # k /\ p[i] = q[i]
  BY <1>1
<1> HIDE DEF p, k
<1>3. m.type = "TOKEN" /\ OnlyTokens(q) => OnlyTokens(p)
  BY <1>1, <1>2 DEF OnlyTokens
<1>4. m.type # "TOKEN" /\ OnlyTokens(q) => Only(p, m.type)
  BY <1>1, <1>2 DEF OnlyTokens, Only
<1>5. ASSUME NEW t, m.type = "TOKEN", Only(q, t) PROVE Only(p, t)
  <2>1. PICK i \in DOMAIN q : q[i].type = t /\ \A j \in DOMAIN q : j # i => q[j].type = "TOKEN"
    BY <1>5 DEF Only
  <2>2. p[i].type = t /\ i \in DOMAIN p
    BY <1>2, <2>1
  <2>3. ASSUME NEW j \in DOMAIN p, j # i PROVE p[j].type = "TOKEN"
    BY <1>1, <1>2, <1>5, <2>1, <2>3
  <2> QED BY <2>2, <2>3 DEF Only
<1>6. ASSUME NEW l, Carried(l, q), Carried(l, <<m>>) PROVE Carried(l, p)
  <2>1. /\ l[2] = "succ" => l[3] = Follower(l[1])
        /\ l[2] = "pred" => /\ l[3] = Leader(l[1]) /\ m.type \in {"PING", "SYNC_SLIST"}
                            /\ m.type = "SYNC_SLIST" => m.r = RMax /\ m.list = ListOf(l[1])
    <3>1. 1 \in DOMAIN <<m>> /\ <<m>>[1] = m
      OBVIOUS
    <3> QED BY <1>6, <3>1 DEF Carried
  <2> QED BY <1>1, <1>2, <1>6, <2>1 DEF Carried
<1> QED BY <1>1, <1>3, <1>4, <1>5, <1>6 DEF p

LEMMA QueueTail ==
    ASSUME NEW q \in Seq(Request), q # <<>>
    PROVE  /\ OnlyTokens(q) => Head(q).type = "TOKEN" /\ OnlyTokens(Tail(q))
           /\ \A t : Only(q, t) /\ t # "TOKEN" =>
                /\ Head(q).type = "TOKEN" => Only(Tail(q), t)
                /\ Head(q).type # "TOKEN" => Head(q).type = t /\ OnlyTokens(Tail(q))
           /\ \A l : Carried(l, q) => Carried(l, Tail(q))
<1> DEFINE p == Tail(q)
<1>1. p \in Seq(Request) /\ Head(q) = q[1]
  BY TailOf
<1>2. /\ 1 \in DOMAIN q
      /\ \A i \in DOMAIN p : i + 1 \in DOMAIN q /\ p[i] = q[i + 1] /\ i + 1 # 1 /\ i \in Nat
      /\ \A i \in DOMAIN q : i # 1 => i - 1 \in DOMAIN p /\ p[i - 1] = q[i]
      /\ \A i \in DOMAIN q : i \in Nat
  <2>1. DOMAIN q = 1 .. Len(q) /\ DOMAIN p = 1 .. Len(p)
    BY <1>1, LenProperties
  <2>2. \A i \in 1 .. Len(p) : i \in Nat
    OBVIOUS
  <2>3. \A i \in 1 .. Len(q) : i \in Nat
    OBVIOUS
  <2> QED BY <2>1, <2>2, <2>3, TailOf
<1> HIDE DEF p
<1>3. OnlyTokens(q) => Head(q).type = "TOKEN" /\ OnlyTokens(p)
  BY <1>1, <1>2 DEF OnlyTokens
<1>4. ASSUME NEW t, Only(q, t), t # "TOKEN"
      PROVE  /\ Head(q).type = "TOKEN" => Only(p, t)
             /\ Head(q).type # "TOKEN" => Head(q).type = t /\ OnlyTokens(p)
  <2>1. PICK i \in DOMAIN q : q[i].type = t /\ \A j \in DOMAIN q : j # i => q[j].type = "TOKEN"
    BY <1>4 DEF Only
  <2>2. CASE i = 1
    <3>1. Head(q).type = t
      BY <1>1, <2>1, <2>2
    <3>2. ASSUME NEW j \in DOMAIN p PROVE p[j].type = "TOKEN"
      <4>1. PICK h \in DOMAIN q : p[j] = q[h] /\ h # 1
        BY <1>2
      <4> QED BY <2>1, <2>2, <4>1
    <3> QED BY <1>4, <3>1, <3>2 DEF OnlyTokens
  <2>3. CASE i # 1
    <3>1. Head(q).type = "TOKEN"
      BY <1>1, <1>2, <2>1, <2>3
    <3>2. i - 1 \in DOMAIN p /\ p[i - 1].type = t
      BY <1>2, <2>1, <2>3
    <3>3. ASSUME NEW j \in DOMAIN p, j # i - 1 PROVE p[j].type = "TOKEN"
      <4>1. j + 1 \in DOMAIN q /\ j + 1 # i /\ p[j] = q[j + 1]
        BY <1>2, <3>3
      <4> QED BY <2>1, <4>1
    <3>4. Only(p, t)
      BY <3>2, <3>3 DEF Only
    <3> QED BY <3>1, <3>4
  <2> QED BY <2>2, <2>3
<1>5. ASSUME NEW l, Carried(l, q) PROVE Carried(l, p)
  BY <1>2, <1>5, SMTT(30) DEF Carried
<1> QED BY <1>3, <1>4, <1>5 DEF p

LEMMA QueueEmpty ==
    /\ OnlyTokens(<<>>) /\ \A t : ~Only(<<>>, t)
    /\ \A l : Carried(l, <<>>)
  BY DEF OnlyTokens, Only, Carried

LEMMA QueueHead ==
    ASSUME NEW l, NEW q \in Seq(Request), q # <<>>, Carried(l, q)
    PROVE  /\ l[2] = "succ" => l[3] = Follower(l[1])
           /\ l[2] = "pred" => /\ l[3] = Leader(l[1]) /\ Head(q).type \in {"PING", "SYNC_SLIST"}
                               /\ Head(q).type = "SYNC_SLIST" =>
                                    Head(q).r = RMax /\ Head(q).list = ListOf(l[1])
<1>1. 1 \in DOMAIN q /\ Head(q) = q[1]
  <2>1. 1 \in 1 .. Len(q) /\ Head(q) = q[1]
    BY TailOf
  <2>2. DOMAIN q = 1 .. Len(q)
    BY LenProperties
  <2> QED BY <2>1, <2>2
<1> QED BY <1>1 DEF Carried

-------------------------------------------------------------------------------
(* At rest *)

LEMMA LinksOf ==
    ASSUME NEW k \in Nodes
    PROVE  <<k, "succ", Follower(k)>> \in Links /\ <<k, "pred", Leader(k)>> \in Links
  BY Neighbours DEF Links, Socks

LEMMA InInbox ==
    ASSUME Types, NEW l \in Links, wire[l] # <<>>
    PROVE  l[3] \in Nodes /\ l \in Inbox(l[3])
  BY DEF Types, Links, Inbox

(* Nobody who polls moves: nothing is on its way to it, or waits for it.     *)
LEMMA NothingReady ==
    ASSUME Types, NEW k \in Nodes, node[k].pc = "poll", ~Moves(k)
    PROVE  /\ Inbox(k) = {} /\ \A s \in Socks : frames[k][s] = <<>>
           /\ clock[k] # "due"
<1>1. Ready(k) = {} /\ clock[k] # "due"
  BY DEF Moves
<1> QED BY <1>1 DEF Ready

(* Who waits for a SYN has something on the way to it, or its predecessor    *)
(* has an answer to read.                                                    *)
LEMMA SynAwaited ==
    ASSUME Types, Good, NEW k \in Nodes, node[k].temp_predecessor # None
    PROVE  LET p == Leader(k)
           IN /\ p \in Nodes /\ clock[p] = "reset"
              /\ Inbox(k) # {} \/ frames[p]["succ"] # <<>>
<1> DEFINE p == Leader(k)
           q == wire[<<p, "succ", k>>]
<1>1. p \in Nodes /\ Follower(p) = k
  BY Neighbours
<1>2. InStep(k) /\ InStep(p)
  BY <1>1 DEF Good
<1>3. node[k].temp_predecessor = p
  BY <1>2 DEF InStep, Placed
<1>4. Exchange(p, node[p].succ_xpv, frames[p]["succ"], q, p, clock[p])
  BY <1>1, <1>2, <1>3 DEF InStep
<1> HIDE DEF p, q
<1>5. /\ clock[p] = "reset"
      /\ frames[p]["succ"] = <<AckOf(Follower(p))>> \/ Only(q, "SYN")
  BY <1>4 DEF Exchange
<1>6. ASSUME Only(q, "SYN") PROVE Inbox(k) # {}
  <2>1. <<p, "succ", k>> \in Links
    BY <1>1, LinksOf
  <2>2. q # <<>>
    BY <1>6, QueueEmpty
  <2> QED BY <2>1, <2>2, InInbox DEF q
<1>7. <<AckOf(Follower(p))>> # <<>>
  OBVIOUS
<1> QED BY <1>1, <1>5, <1>6, <1>7 DEF p

LEMMA QuietPolls ==
    ASSUME Types, Good, Quiet, NEW k \in Nodes PROVE node[k].pc = "poll"
<1> SUFFICES ASSUME node[k].pc # "poll" PROVE FALSE
  OBVIOUS
<1>1. InStep(k) /\ ~Moves(k)
  BY DEF Good, Quiet
<1>2. /\ node[k].pc = "again" /\ clock[k] = "due" /\ node[k].status = "HANDLING_STABILIZE"
      /\ "server" \in node[k].revents
  BY <1>1 DEF InStep, Busy
<1>3. node[k].succ_xpv = "NO"
  BY <1>1, <1>2 DEF InStep, Exchange
<1>4. node[k].temp_predecessor # None
  BY <1>1, <1>2, <1>3 DEF InStep, Busy
<1> DEFINE p == Leader(k)
<1>5. p \in Nodes /\ clock[p] = "reset" /\ (Inbox(k) # {} \/ frames[p]["succ"] # <<>>)
  BY <1>4, SynAwaited
<1>6. Inbox(k) = {}
  BY <1>1, <1>2 DEF Moves
<1> HIDE DEF p
<1>7. InStep(p) /\ ~Moves(p)
  BY <1>5 DEF Good, Quiet
<1>8. node[p].pc = "poll"
  BY <1>5, <1>7 DEF InStep, Busy
<1>9. frames[p]["succ"] = <<>>
  BY <1>5, <1>7, <1>8, NothingReady DEF Socks
<1> QED BY <1>5, <1>6, <1>9

LEMMA QuietClean ==
    ASSUME Types, Good, Quiet, NEW k \in Nodes
    PROVE  /\ node[k].pc = "poll" /\ node[k].status = "MEMBER"
           /\ node[k].succ_xpv = "NO" /\ node[k].pred_xpv = "NO"
           /\ node[k].temp_predecessor = None
           /\ clock[k] # "due" /\ Waits(node[k]) = {}
           /\ \A c : Exchange(k, "NO", frames[k]["succ"], wire[<<k, "succ", Follower(k)>>],
                              node[Follower(k)].temp_predecessor, c)
<1>1. ASSUME NEW m \in Nodes
      PROVE  /\ node[m].pc = "poll" /\ Inbox(m) = {} /\ clock[m] # "due"
             /\ \A s \in Socks : frames[m][s] = <<>>
  <2>1. node[m].pc = "poll" /\ ~Moves(m)
    BY QuietPolls DEF Quiet
  <2> QED BY <2>1, NothingReady
<1>2. \A l \in Links : wire[l] = <<>>
  BY <1>1, InInbox
<1>3. ASSUME NEW m \in Nodes
      PROVE  node[m].succ_xpv = "NO" /\ node[m].pred_xpv = "NO"
             /\ node[Follower(m)].temp_predecessor # m /\ InStep(m)
  <2>1. InStep(m)
    BY DEF Good
  <2>2. /\ frames[m]["succ"] = <<>> /\ frames[m]["pred"] = <<>>
        /\ wire[<<m, "succ", Follower(m)>>] = <<>> /\ wire[<<m, "pred", Leader(m)>>] = <<>>
    BY <1>1, <1>2, LinksOf DEF Socks
  <2>3. node[m].pred_xpv = "NO"
    BY <2>1, <2>2 DEF InStep, Awaited
  <2>4. Exchange(m, node[m].succ_xpv, <<>>, <<>>, node[Follower(m)].temp_predecessor, clock[m])
    BY <2>1, <2>2 DEF InStep
  <2>5. <<Pong>> # <<>> /\ <<AckOf(Follower(m))>> # <<>>
    OBVIOUS
  <2>6. node[m].succ_xpv = "NO" /\ node[Follower(m)].temp_predecessor # m
    BY <2>4, <2>5, QueueEmpty DEF Exchange
  <2> QED BY <2>1, <2>3, <2>6
<1>4. node[k].temp_predecessor = None
  <2>1. Leader(k) \in Nodes /\ Follower(Leader(k)) = k
    BY Neighbours
  <2>2. node[k].temp_predecessor # Leader(k)
    BY <1>3, <2>1
  <2> QED BY <1>3, <2>2 DEF InStep, Placed
<1>5. node[k].status = "MEMBER"
  BY <1>3, <1>4 DEF InStep, Placed, Busy
<1>6. Waits(node[k]) = {}
  BY <1>3 DEF Waits, Pinging
<1>7. ASSUME NEW c
      PROVE  Exchange(k, "NO", frames[k]["succ"], wire[<<k, "succ", Follower(k)>>],
                      node[Follower(k)].temp_predecessor, c)
  <2>1. frames[k]["succ"] = <<>> /\ wire[<<k, "succ", Follower(k)>>] = <<>>
    BY <1>1, <1>2, LinksOf DEF Socks
  <2>2. OnlyTokens(wire[<<k, "succ", Follower(k)>>])
    BY <2>1, QueueEmpty
  <2> QED BY <1>3, <2>1, <2>2 DEF Exchange
<1> QED BY <1>1, <1>3, <1>4, <1>5, <1>6, <1>7

-------------------------------------------------------------------------------
(* The start, and the steps that are no turns *)

LEMMA InitGood == Init => Good
<1> SUFFICES ASSUME Init PROVE Good
  OBVIOUS
<1>1. ASSUME NEW k \in Nodes PROVE InStep(k)
  <2> DEFINE s == Follower(k)
  <2>1. s \in Nodes /\ Leader(k) \in Nodes /\ <<k, "succ", s>> \in Links
        /\ <<k, "pred", Leader(k)>> \in Links
    BY Neighbours, LinksOf
  <2>2. /\ node[k] = MemberAt(k) /\ node[s] = MemberAt(s)
        /\ wire[<<k, "succ", s>>] = <<>> /\ wire[<<k, "pred", Leader(k)>>] = <<>>
        /\ frames[k]["succ"] = <<>> /\ frames[k]["pred"] = <<>> /\ clock[k] = "running"
    BY <2>1 DEF Init, Links, Socks
  <2> HIDE DEF s
  <2>3. /\ node[k].pc = "poll" /\ node[k].status = "MEMBER"
        /\ node[k].successor = Follower(k) /\ node[k].predecessor = Leader(k)
        /\ node[k].successor_list = ListOf(k) /\ node[k].r = RMax
        /\ node[k].temp_predecessor = None /\ node[k].pred_trig = "NO"
        /\ node[k].trig = "NO" /\ node[k].succ_xpv = "NO" /\ node[k].pred_xpv = "NO"
        /\ node[s].temp_predecessor = None
    BY <2>2 DEF MemberAt, Follower, Leader, ListOf
  <2>4. Placed(k, node[k]) /\ Busy(node[k], clock[k])
    BY <2>2, <2>3 DEF Placed, Busy
  <2>5. Exchange(k, node[k].succ_xpv, frames[k]["succ"], wire[<<k, "succ", s>>],
                 node[s].temp_predecessor, clock[k])
    <3>1. k # None
      BY RingAssumption
    <3>2. OnlyTokens(wire[<<k, "succ", s>>])
      BY <2>2, QueueEmpty
    <3> QED BY <2>2, <2>3, <3>1, <3>2 DEF Exchange
  <2>6. Awaited(node[k].pred_xpv, wire[<<k, "pred", Leader(k)>>], frames[k]["pred"])
    BY <2>3 DEF Awaited
  <2> QED BY <2>4, <2>5, <2>6 DEF InStep, s
<1>2. ASSUME NEW l \in Links PROVE Carried(l, wire[l])
  <2>1. wire[l] = <<>>
    BY DEF Init, Links
  <2> QED BY <2>1, QueueEmpty
<1> QED BY <1>1, <1>2 DEF Good

(* Only the clocks have changed.                                             *)
LEMMA ClocksGood ==
    ASSUME Good, node' = node, wire' = wire, frames' = frames,
           \A k \in Nodes :
             /\ Busy(node[k], clock'[k])
             /\ Exchange(k, node[k].succ_xpv, frames[k]["succ"], wire[<<k, "succ", Follower(k)>>],
                         node[Follower(k)].temp_predecessor, clock'[k])
    PROVE  Good'
  BY DEF Good, InStep

LEMMA ElapseGood ==
    ASSUME Types, Good, Overlap # "any", NEW n \in Nodes, Elapse(n) PROVE Good'
<1>1. /\ clock[n] = "running" /\ clock' = [clock EXCEPT ![n] = "due"]
      /\ node' = node /\ wire' = wire /\ frames' = frames
      /\ Quiet \/ (Overlap = "member" /\ node[n].status = "MEMBER")
  BY DEF Elapse
<1>2. node[n].status = "MEMBER"
  BY <1>1, QuietClean
<1>3. ASSUME NEW k \in Nodes
      PROVE  /\ Busy(node[k], clock'[k])
             /\ Exchange(k, node[k].succ_xpv, frames[k]["succ"],
                         wire[<<k, "succ", Follower(k)>>],
                         node[Follower(k)].temp_predecessor, clock'[k])
  <2>1. InStep(k)
    BY DEF Good
  <2>2. CASE k # n
    <3>1. clock'[k] = clock[k]
      BY <1>1, <2>2 DEF Types
    <3> QED BY <2>1, <3>1 DEF InStep
  <2>3. CASE k = n
    <3>1. clock'[k] = "due"
      BY <1>1, <2>3 DEF Types
    <3>2. Busy(node[k], clock'[k])
      BY <1>1, <1>2, <2>1, <2>3, <3>1 DEF InStep, Busy
    <3>3. Exchange(k, node[k].succ_xpv, frames[k]["succ"], wire[<<k, "succ", Follower(k)>>],
                   node[Follower(k)].temp_predecessor, clock'[k])
      BY <1>1, <2>1, <2>3 DEF InStep, Exchange
    <3> QED BY <3>2, <3>3
  <2> QED BY <2>2, <2>3
<1> QED BY <1>1, <1>3, ClocksGood

LEMMA CalmGood ==
    ASSUME Types, Good, Calm PROVE Good'
<1>1. /\ Quiet /\ node' = node /\ wire' = wire /\ frames' = frames
      /\ clock' = [n \in Nodes |-> IF clock[n] = "reset" THEN "running" ELSE clock[n]]
  BY DEF Calm
<1>2. ASSUME NEW k \in Nodes
      PROVE  /\ Busy(node[k], clock'[k])
             /\ Exchange(k, node[k].succ_xpv, frames[k]["succ"],
                         wire[<<k, "succ", Follower(k)>>],
                         node[Follower(k)].temp_predecessor, clock'[k])
  <2>1. InStep(k)
    BY DEF Good
  <2>2. /\ node[k].pc = "poll" /\ node[k].status = "MEMBER" /\ node[k].succ_xpv = "NO"
        /\ Exchange(k, "NO", frames[k]["succ"], wire[<<k, "succ", Follower(k)>>],
                    node[Follower(k)].temp_predecessor, clock'[k])
    BY <1>1, QuietClean
  <2>3. Busy(node[k], clock'[k])
    BY <2>1, <2>2 DEF InStep, Busy
  <2> QED BY <2>2, <2>3
<1> QED BY <1>1, <1>2, ClocksGood

-------------------------------------------------------------------------------
(* The server's handlers, in a node that has its place in the ring *)

(* What a handler leaves of the node.                                        *)
AsWas(a, b) ==
    /\ b.successor = a.successor /\ b.predecessor = a.predecessor
    /\ b.successor_list = a.successor_list /\ b.r = a.r
    /\ b.succ_xpv = a.succ_xpv /\ b.pred_xpv = a.pred_xpv /\ b.pred_trig = a.pred_trig

(* The turn y after a handler, but for the lists.                            *)
AsBefore(x, y) ==
    /\ y \in TurnRecord /\ y.frames = x.frames /\ y.clock = x.clock
    /\ AsWas(x.nd, y.nd)

LEMMA PingAnswered ==
    ASSUME NEW x \in TurnRecord, NEW y, y = PingReq(x)
    PROVE  AsBefore(x, y) /\ y.nd = x.nd /\ y.reply = <<Pong>>
<1>1. x.nd \in Node /\ <<Pong>> \in Seq(Frame)
  BY DEF TurnRecord, Frame, Pong
<1>2. y = [x EXCEPT !.nd = x.nd, !.reply = <<Pong>>]
  BY DEF PingReq, Pong, TurnRecord
<1>3. AsWas(x.nd, x.nd)
  BY DEF AsWas
<1>8. AsBefore(x, y) /\ y.nd = x.nd /\ y.reply = <<Pong>>
  BY <1>1, <1>2, <1>3 DEF TurnRecord, AsBefore
<1> QED BY <1>1, <1>2, <1>3, <1>8

LEMMA TokenAnswered ==
    ASSUME NEW x \in TurnRecord, NEW m, m.token \in Tokens, NEW y, y = TokenReq(x, m)
    PROVE  /\ AsBefore(x, y) /\ y.nd.status = x.nd.status /\ y.reply = x.reply
           /\ y.nd.temp_predecessor = x.nd.temp_predecessor /\ y.nd.trig = x.nd.trig
<1> DEFINE nd == [x.nd EXCEPT !.recv_token = m.token]
<1>1. x.nd \in Node /\ x.reply \in Seq(Frame)
  BY DEF TurnRecord
<1>2. y = [x EXCEPT !.nd = nd, !.reply = x.reply]
  BY DEF TokenReq, TurnRecord
<1>3. /\ nd \in Node /\ AsWas(x.nd, nd)
      /\ nd.status = x.nd.status /\ nd.temp_predecessor = x.nd.temp_predecessor
      /\ nd.trig = x.nd.trig
  BY <1>1 DEF Node, AsWas
<1> HIDE DEF nd
<1>8. AsBefore(x, y) /\ y.nd = nd /\ y.reply = x.reply
  BY <1>1, <1>2, <1>3 DEF TurnRecord, AsBefore
<1> QED BY <1>1, <1>2, <1>3, <1>8

LEMMA RequestAnswered ==
    ASSUME NEW n \in Nodes, NEW x \in TurnRecord, Placed(n, x.nd), NEW from \in Nodes,
           NEW y, y = StabilizeReq(x, from)
    PROVE  /\ AsBefore(x, y) /\ y.nd.status = "HANDLING_STABILIZE" /\ y.reply = <<AckOf(n)>>
           /\ y.nd.temp_predecessor = from /\ y.nd.trig = x.nd.trig
<1> DEFINE nd == [x.nd EXCEPT !.status = "HANDLING_STABILIZE", !.temp_predecessor = from]
           f == [type |-> "ACK", r |-> x.nd.r, list |-> x.nd.successor_list]
<1>1. x.nd \in Node /\ x.nd.status \in {"MEMBER", "HANDLING_STABILIZE"}
  BY DEF TurnRecord, Placed
<1>2. f = AckOf(n)
  BY DEF Placed, AckOf
<1>3. <<f>> \in Seq(Frame)
  BY <1>1 DEF Frame, Node, List
<1>4. y = [x EXCEPT !.nd = nd, !.reply = <<f>>]
  BY <1>1 DEF StabilizeReq, TurnRecord
<1>5. /\ nd \in Node /\ AsWas(x.nd, nd) /\ nd.status = "HANDLING_STABILIZE"
      /\ nd.temp_predecessor = from /\ nd.trig = x.nd.trig
  BY <1>1, Enumerated DEF Node, AsWas
<1> HIDE DEF nd, f
<1>8. AsBefore(x, y) /\ y.nd = nd /\ y.reply = <<f>>
  BY <1>2, <1>3, <1>4, <1>5 DEF TurnRecord, AsBefore
<1> QED BY <1>2, <1>3, <1>4, <1>5, <1>8

LEMMA SynAnswered ==
    ASSUME NEW n \in Nodes, NEW x \in TurnRecord, Placed(n, x.nd),
           x.nd.temp_predecessor = x.nd.predecessor, NEW y, y = StabilizeSynReq(x)
    PROVE  /\ AsBefore(x, y) /\ y.nd.status = "MEMBER" /\ y.reply = x.reply
           /\ y.nd.temp_predecessor = None /\ y.nd.trig \in {x.nd.trig, "NO"}
<1>1. x.nd \in Node /\ x.reply \in Seq(Frame)
  BY DEF TurnRecord
<1>2. CASE x.nd.status = "MEMBER"
  <2> DEFINE nd == [x.nd EXCEPT !.temp_predecessor = None]
  <2>1. y = [x EXCEPT !.nd = nd, !.reply = x.reply]
    BY <1>1, <1>2 DEF StabilizeSynReq, TurnRecord
  <2>2. /\ nd \in Node /\ AsWas(x.nd, nd) /\ nd.status = "MEMBER"
        /\ nd.temp_predecessor = None /\ nd.trig = x.nd.trig
    BY <1>1, <1>2 DEF Node, AsWas
  <2> HIDE DEF nd
  <2>8. AsBefore(x, y) /\ y.nd = nd /\ y.reply = x.reply
    BY <1>1, <1>2, <2>1, <2>2 DEF TurnRecord, AsBefore
  <2> QED BY <1>1, <1>2, <2>1, <2>2, <2>8
<1>3. CASE x.nd.status = "HANDLING_STABILIZE"
  <2> DEFINE nd == [x.nd EXCEPT !.predecessor = x.nd.temp_predecessor,
                                !.temp_predecessor = None, !.trig = "NO", !.status = "MEMBER"]
  <2>1. /\ nd \in Node /\ AsWas(x.nd, nd) /\ nd.status = "MEMBER"
        /\ nd.temp_predecessor = None /\ nd.trig = "NO"
    BY <1>1, <1>3, Enumerated DEF Node, AsWas
  <2>2. y = [x EXCEPT !.nd = nd, !.reply = x.reply]
    <3> DEFINE u == [x EXCEPT !.nd.predecessor = x.nd.temp_predecessor,
                              !.nd.temp_predecessor = None, !.nd.trig = "NO",
                              !.nd.status = "MEMBER"]
    <3>1. u = [x EXCEPT !.nd = nd, !.reply = x.reply]
      BY <1>1 DEF TurnRecord
    <3>2. y = IF u.nd.predecessor = x.nd.predecessor THEN u ELSE Connect(u, "pred")
      BY <1>3 DEF StabilizeSynReq
    <3> HIDE DEF u, nd
    <3>3. u.nd = nd
      BY <2>1, <3>1 DEF TurnRecord
    <3>4. nd.predecessor = x.nd.predecessor
      BY <2>1 DEF AsWas
    <3> QED BY <3>1, <3>2, <3>3, <3>4
  <2> HIDE DEF nd
  <2>8. AsBefore(x, y) /\ y.nd = nd /\ y.reply = x.reply
    BY <1>1, <2>1, <2>2 DEF TurnRecord, AsBefore
  <2> QED BY <1>1, <2>1, <2>2, <2>8
<1> QED BY <1>2, <1>3 DEF Placed

(* The list of the next member, put behind the first entry, is the list that *)
(* was there.                                                                *)
LEMMA CopyNothingNew ==
    ASSUME NEW n \in Nodes, NEW nd \in Node, Placed(n, nd)
    PROVE  CopySuccessorList(nd, ListOf(Follower(n)), RMax) = nd
<1> DEFINE l == ListOf(Follower(n))
           new == [i \in 1 .. RMax |-> IF i \in 2 .. RMax - 1 + 1 THEN l[i - 1]
                                       ELSE nd.successor_list[i]]
<1>1. RMax \in Nat /\ RMax > 1
  BY Bounds
<1>2. nd.r = RMax /\ nd.successor_list = ListOf(n)
  BY DEF Placed
<1>3. new = ListOf(n)
  <2>1. ASSUME NEW i \in 1 .. RMax PROVE new[i] = After(n, i)
    <3>1. CASE i \in 2 .. RMax - 1 + 1
      <4>1. i - 1 \in 1 .. RMax /\ i - 1 \in Int /\ i - 1 + 1 = i
        BY <1>1, <3>1
      <4>2. l[i - 1] = After(Follower(n), i - 1)
        BY <4>1 DEF ListOf
      <4>3. After(Follower(n), i - 1) = After(n, i - 1 + 1)
        BY <4>1, Neighbours
      <4> QED BY <3>1, <4>1, <4>2, <4>3
    <3>2. CASE i \notin 2 .. RMax - 1 + 1
      BY <1>2, <3>2 DEF ListOf
    <3> QED BY <3>1, <3>2
  <2> HIDE DEF l
  <2> QED BY <2>1 DEF ListOf
<1> HIDE DEF l
<1>4. RMax + 1 > RMax /\ RMax - 1 + 1 = RMax
  BY <1>1
<1>5. CopySuccessorList(nd, l, RMax) = [nd EXCEPT !.r = RMax - 1 + 1, !.successor_list = new]
  BY <1>4 DEF CopySuccessorList, Node
<1> HIDE DEF new
<1>6. CopySuccessorList(nd, l, RMax) = [nd EXCEPT !.r = nd.r, !.successor_list = nd.successor_list]
  BY <1>2, <1>3, <1>4, <1>5
<1> QED BY <1>6 DEF Node, l

LEMMA ListAnswered ==
    ASSUME NEW n \in Nodes, NEW x \in TurnRecord, Placed(n, x.nd),
           NEW m \in Request, m.type = "SYNC_SLIST", m.r = RMax, m.list = ListOf(Follower(n)),
           NEW z, z = SyncSlist(x, m)
    PROVE  /\ AsBefore(x, z) /\ z.nd.status = x.nd.status /\ z.reply # <<>>
           /\ z.nd.temp_predecessor = x.nd.temp_predecessor /\ z.nd.trig \in {x.nd.trig, "RELAY"}
<1> DEFINE f == [type |-> "SYNC_SLIST_ACK"]
           nd == [x.nd EXCEPT !.last_ttl = m.ttl - 1, !.trig = "RELAY"]
           y == [x EXCEPT !.reply = <<f>>]
<1>1. x.nd \in Node /\ <<f>> \in Seq(Frame)
  BY DEF TurnRecord, Frame
<1>9. <<f>> # <<>>
  OBVIOUS
<1>2. m.r \in 1 .. RMax
  BY Bounds
<1>3. m.ttl \in 1 .. RMax
  BY DEF Request
<1>4. y.nd = x.nd /\ y = [x EXCEPT !.nd = x.nd, !.reply = <<f>>]
  BY DEF TurnRecord
<1>5. CopySuccessorList(x.nd, m.list, m.r) = x.nd
  BY <1>1, CopyNothingNew
<1>6. SyncSlist(x, m) =
        IF m.ttl - 1 > 0
        THEN [y EXCEPT !.nd = [CopySuccessorList(@, m.list, m.r) EXCEPT
                                  !.last_ttl = m.ttl - 1, !.trig = "RELAY"]]
        ELSE y
  BY <1>2 DEF SyncSlist
<1> HIDE DEF f
<1>7. CASE m.ttl - 1 > 0
  <2>1. SyncSlist(x, m) = [y EXCEPT !.nd = nd]
    <3>1. [y EXCEPT !.nd = [CopySuccessorList(@, m.list, m.r) EXCEPT
                                  !.last_ttl = m.ttl - 1, !.trig = "RELAY"]]
          = [y EXCEPT !.nd = [CopySuccessorList(y.nd, m.list, m.r) EXCEPT
                                  !.last_ttl = m.ttl - 1, !.trig = "RELAY"]]
      BY DEF TurnRecord
    <3> HIDE DEF y
    <3> QED BY <1>4, <1>5, <1>6, <1>7, <3>1
  <2>2. [y EXCEPT !.nd = nd] = [x EXCEPT !.nd = nd, !.reply = <<f>>]
    BY DEF TurnRecord
  <2>3. /\ nd \in Node /\ AsWas(x.nd, nd) /\ nd.status = x.nd.status
        /\ nd.temp_predecessor = x.nd.temp_predecessor /\ nd.trig = "RELAY"
    <3>1. m.ttl - 1 \in 0 .. RMax /\ "RELAY" \in Triggers
      BY <1>3, Bounds DEF Triggers
    <3> QED BY <1>1, <3>1, ZenonT(30) DEF Node, AsWas
  <2> HIDE DEF nd, y
  <2>4. z = [x EXCEPT !.nd = nd, !.reply = <<f>>]
    BY <2>1, <2>2, Zenon
  <2>8. AsBefore(x, z) /\ z.nd = nd /\ z.reply = <<f>>
    BY <1>1, <2>3, <2>4 DEF TurnRecord, AsBefore
  <2> QED BY <1>1, <1>9, <2>1, <2>2, <2>3, <2>8
<1>8. CASE ~(m.ttl - 1 > 0)
  <2>1. SyncSlist(x, m) = [x EXCEPT !.nd = x.nd, !.reply = <<f>>]
    BY <1>4, <1>6, <1>8
  <2>2. AsWas(x.nd, x.nd)
    BY DEF AsWas
  <2>8. AsBefore(x, z) /\ z.nd = x.nd /\ z.reply = <<f>>
    BY <1>1, <1>9, <2>1, <2>2 DEF TurnRecord, AsBefore
  <2> QED BY <1>1, <1>9, <2>1, <2>2, <2>8
<1> QED BY <1>7, <1>8

-------------------------------------------------------------------------------
(* A turn before the sockets *)

(* What the predecessor of n has of its exchange after the turn x of n.      *)
Upstream(n, x) ==
    LET p == Leader(n)
        l == <<p, "succ", n>>
    IN  Exchange(p, node[p].succ_xpv,
                 IF x.link # None /\ x.link = l THEN frames[p]["succ"] \o x.reply
                 ELSE frames[p]["succ"],
                 Without(wire, x.link)[l], x.nd.temp_predecessor, clock[p])

(* The successor, when it has asked for something, has been answered.        *)
Replied(n, x) ==
    /\ x.link = None => x.reply = <<>>
    /\ x.link # None /\ x.link = <<Follower(n), "pred", n>> => x.reply # <<>>

(* The turn x of n after its server, before its timer.                       *)
Served(n, x) ==
    /\ Begun(n, x) /\ x.frames = frames[n] /\ x.clock = clock[n]
    /\ Placed(n, x.nd)
    /\ x.nd.succ_xpv = node[n].succ_xpv /\ x.nd.pred_xpv = node[n].pred_xpv
    /\ Upstream(n, x) /\ Replied(n, x)
    /\ x.nd.trig \in {"NO", "RELAY"}
    /\ x.nd.succ_xpv = "NO" /\ x.nd.status = "HANDLING_STABILIZE"
         => x.nd.temp_predecessor # None
    /\ x.nd.status = "HANDLING_STABILIZE"
         => node[n].status = "HANDLING_STABILIZE" \/ x.link # None

LEMMA BeginServed ==
    ASSUME Types, Good, NEW n \in Nodes
    PROVE  Served(n, Begin(n)) /\ Begin(n).link = None
<1> DEFINE x == Begin(n)
           nd == [node[n] EXCEPT !.pc = "poll"]
           p == Leader(n)
<1>1. /\ Begun(n, x) /\ x.link = None /\ x.frames = frames[n] /\ x.clock = clock[n]
      /\ x.reply = <<>> /\ x.nd = nd
  <2>1. Begun(n, x) /\ x.link = None
    BY BeginOK
  <2> QED BY <2>1 DEF Begin
<1>2. node[n] \in Node /\ InStep(n)
  BY DEF Types, Good
<1>3. /\ nd.successor = node[n].successor /\ nd.predecessor = node[n].predecessor
      /\ nd.successor_list = node[n].successor_list /\ nd.r = node[n].r
      /\ nd.temp_predecessor = node[n].temp_predecessor /\ nd.pred_trig = node[n].pred_trig
      /\ nd.status = node[n].status /\ nd.trig = node[n].trig
      /\ nd.succ_xpv = node[n].succ_xpv /\ nd.pred_xpv = node[n].pred_xpv
  BY <1>2 DEF Node
<1> HIDE DEF x, nd
<1>4. Placed(n, x.nd)
  BY <1>1, <1>2, <1>3 DEF InStep, Placed
<1>5. /\ x.nd.trig = "NO"
      /\ x.nd.succ_xpv = "NO" /\ x.nd.status = "HANDLING_STABILIZE"
           => x.nd.temp_predecessor # None
  BY <1>1, <1>2, <1>3 DEF InStep, Busy
<1>6. Upstream(n, x)
  <2>1. p \in Nodes /\ Follower(p) = n /\ None \notin Nodes
    BY Neighbours, Bounds
  <2>2. InStep(p)
    BY <2>1 DEF Good
  <2> HIDE DEF p
  <2>4. x.nd.temp_predecessor = node[n].temp_predecessor /\ Without(wire, x.link) = wire
    BY <1>1, <1>3 DEF Without
  <2>5. Exchange(p, node[p].succ_xpv, frames[p]["succ"], wire[<<p, "succ", n>>],
                 node[n].temp_predecessor, clock[p])
    BY <2>1, <2>2 DEF InStep
  <2> QED BY <1>1, <2>4, <2>5 DEF Upstream, p
<1>7. Replied(n, x)
  BY <1>1 DEF Replied
<1> QED BY <1>1, <1>3, <1>4, <1>5, <1>6, <1>7 DEF Served, x

LEMMA TakeServed ==
    ASSUME Types, Good, NEW n \in Nodes, pipe[n] # <<>>
    PROVE  Served(n, TakeToken(Begin(n))) /\ TakeToken(Begin(n)).link = None
<1> DEFINE b == Begin(n)
           nd == [b.nd EXCEPT !.send_token = Head(pipe[n])]
           x == TakeToken(b)
<1>1. Served(n, b) /\ b.link = None /\ Begun(n, b)
  BY BeginServed DEF Served
<1>2. Begun(n, x) /\ x.link = None
  BY TakeTokenOK
<1>3. b \in TurnRecord /\ b.self = n /\ b.nd \in Node
  BY <1>1 DEF Begun, TurnOK, TurnRecord
<1> HIDE DEF b
<1>4. /\ nd.successor = b.nd.successor /\ nd.predecessor = b.nd.predecessor
      /\ nd.successor_list = b.nd.successor_list /\ nd.r = b.nd.r
      /\ nd.temp_predecessor = b.nd.temp_predecessor /\ nd.pred_trig = b.nd.pred_trig
      /\ nd.status = b.nd.status /\ nd.trig = b.nd.trig
      /\ nd.succ_xpv = b.nd.succ_xpv /\ nd.pred_xpv = b.nd.pred_xpv
  BY <1>3 DEF Node
<1>5. x.nd = nd /\ x.frames = b.frames /\ x.clock = b.clock /\ x.reply = b.reply
  BY <1>3 DEF TakeToken, TurnRecord
<1> HIDE DEF x, nd
<1>6. Placed(n, x.nd)
  BY <1>1, <1>4, <1>5 DEF Served, Placed
<1>7. Upstream(n, x) /\ Replied(n, x)
  BY <1>1, <1>2, <1>4, <1>5 DEF Served, Upstream, Replied
<1> QED BY <1>1, <1>2, <1>4, <1>5, <1>6, <1>7 DEF Served, x, b

(* Where a message to n comes from.                                          *)
LEMMA Sender ==
    ASSUME Types, Good, NEW n \in Nodes, NEW l \in Inbox(n)
    PROVE  /\ l \in Links /\ wire[l] \in Seq(Request) /\ wire[l] # <<>> /\ Head(wire[l]) \in Request
           /\ Carried(l, wire[l])
           /\ l = <<Leader(n), "succ", n>> \/ l = <<Follower(n), "pred", n>>
<1>1. l \in Links /\ wire[l] \in Seq(Request) /\ wire[l] # <<>> /\ l[3] = n
  BY DEF Inbox, Types
<1>2. Carried(l, wire[l]) /\ Head(wire[l]) \in Request
  BY <1>1, TailOf DEF Good
<1>3. /\ l = <<l[1], l[2], n>> /\ l[1] \in Nodes /\ l[2] \in {"succ", "pred"}
  BY <1>1 DEF Links, Socks
<1>4. l[2] = "succ" => l[1] = Leader(n)
  BY <1>1, <1>2, <1>3, QueueHead, Neighbours
<1>5. l[2] = "pred" => l[1] = Follower(n)
  BY <1>1, <1>2, <1>3, QueueHead, Neighbours
<1> QED BY <1>1, <1>2, <1>3, <1>4, <1>5

(* The turn after the server's handler.                                      *)
LEMMA ServerTurn ==
    ASSUME NEW x, NEW l \in Links, l # None, NEW y, y = Handle(x, l[1], Head(wire[l])),
           AsBefore(x, y), NEW z, z = Server(x, l)
    PROVE  AsBefore(x, z) /\ z.link = l /\ z.nd = y.nd /\ z.reply = y.reply
<1>1. z = [y EXCEPT !.link = l] /\ y \in TurnRecord
  BY DEF Server, AsBefore
<1>2. /\ z \in TurnRecord /\ z.link = l /\ z.nd = y.nd /\ z.frames = y.frames
      /\ z.clock = y.clock /\ z.reply = y.reply
  BY <1>1 DEF TurnRecord
<1> QED BY <1>2 DEF AsBefore

LEMMA ServedAfter ==
    ASSUME Types, NEW n \in Nodes, NEW x, Served(n, x), x.link = None,
           NEW l, l \in Inbox(n), l # None, NEW z, z = Server(x, l), AsBefore(x, z),
           z.nd.status \in {"MEMBER", "HANDLING_STABILIZE"},
           z.nd.temp_predecessor \in {None, Leader(n)}, z.nd.trig \in {"NO", "RELAY"},
           x.nd.succ_xpv = "NO" /\ z.nd.status = "HANDLING_STABILIZE"
             => z.nd.temp_predecessor # None,
           z.link = l, Upstream(n, z), Replied(n, z)
    PROVE  Served(n, z)
<1>1. Begun(n, z)
  BY ServerOK DEF Served
<1>2. z.frames = frames[n] /\ z.clock = clock[n] /\ AsWas(x.nd, z.nd)
  BY DEF AsBefore, Served
<1>3. Placed(n, z.nd)
  BY <1>2 DEF Served, Placed, AsWas
<1>4. z.nd.succ_xpv = x.nd.succ_xpv /\ z.nd.pred_xpv = x.nd.pred_xpv
  BY <1>2 DEF AsWas
<1> QED BY <1>1, <1>2, <1>3, <1>4 DEF Served

(* A message is taken off the exchange of k: what it is, and what its answer *)
(* makes of the exchange.                                                    *)
ReadOff(k, xpv, f, q, t, c, n) ==
    \/ Head(q).type = "TOKEN" /\ Exchange(k, xpv, f, Tail(q), t, c)
    \/ /\ Head(q).type = "PING" /\ f = <<>>
       /\ Exchange(k, xpv, <<Pong>>, Tail(q), t, c)
    \/ /\ Head(q).type = "STABILIZE_REQ" /\ f = <<>>
       /\ Exchange(k, xpv, <<AckOf(n)>>, Tail(q), k, c)
    \/ /\ Head(q).type = "SYN" /\ f = <<>> /\ t = k
       /\ \A u : u # k => Exchange(k, xpv, <<>>, Tail(q), u, c)

LEMMA ExchangeRead ==
    ASSUME NEW k, NEW xpv, NEW f, NEW q \in Seq(Request), q # <<>>, NEW t, NEW c,
           Exchange(k, xpv, f, q, t, c), NEW n, n = Follower(k)
    PROVE  ReadOff(k, xpv, f, q, t, c, n)
<1> USE DEF ReadOff
<1>1. /\ OnlyTokens(q) => Head(q).type = "TOKEN" /\ OnlyTokens(Tail(q))
      /\ \A g \in {"PING", "STABILIZE_REQ", "SYN"} : Only(q, g) =>
           /\ Head(q).type = "TOKEN" => Only(Tail(q), g)
           /\ Head(q).type # "TOKEN" => Head(q).type = g /\ OnlyTokens(Tail(q))
  BY QueueTail
<1>2. CASE OnlyTokens(q)
  <2>1. Exchange(k, xpv, f, Tail(q), t, c)
    <3>1. CASE xpv = "NO" /\ f = <<>> /\ OnlyTokens(q) /\ t # k
      BY <1>1, <3>1 DEF Exchange
    <3>2. CASE xpv = "REQ" /\ f = <<Pong>> /\ OnlyTokens(q) /\ t # k /\ c = "reset"
      BY <1>1, <3>2 DEF Exchange
    <3>3. CASE xpv = "ACK" /\ f = <<AckOf(Follower(k))>> /\ OnlyTokens(q) /\ t = k /\ c = "reset"
      BY <1>1, <3>3 DEF Exchange
    <3>4. ASSUME NEW g \in {"PING", "STABILIZE_REQ", "SYN"} PROVE ~Only(q, g)
      BY <1>2, <3>4 DEF OnlyTokens, Only
    <3> QED BY <3>1, <3>2, <3>3, <3>4 DEF Exchange
  <2> QED BY <1>1, <1>2, <2>1
<1>3. CASE xpv = "REQ" /\ f = <<>> /\ Only(q, "PING") /\ t # k /\ c = "reset"
  <2>1. CASE Head(q).type = "TOKEN"
    BY <1>1, <1>3, <2>1 DEF Exchange
  <2>2. CASE Head(q).type # "TOKEN"
    BY <1>1, <1>3, <2>2 DEF Exchange
  <2> QED BY <2>1, <2>2
<1>4. CASE xpv = "ACK" /\ f = <<>> /\ Only(q, "STABILIZE_REQ") /\ t # k /\ c = "reset"
  <2>1. CASE Head(q).type = "TOKEN"
    BY <1>1, <1>4, <2>1 DEF Exchange
  <2>2. CASE Head(q).type # "TOKEN"
    BY <1>1, <1>4, <2>2 DEF Exchange
  <2> QED BY <2>1, <2>2
<1>5. CASE xpv = "NO" /\ f = <<>> /\ Only(q, "SYN") /\ t = k /\ c = "reset"
  <2>1. CASE Head(q).type = "TOKEN"
    BY <1>1, <1>5, <2>1 DEF Exchange
  <2>2. CASE Head(q).type # "TOKEN"
    BY <1>1, <1>5, <2>2 DEF Exchange
  <2> QED BY <2>1, <2>2
<1> QED BY <1>2, <1>3, <1>4, <1>5 DEF Exchange

LEMMA PredecessorServed ==
    ASSUME Types, Good, NEW n \in Nodes, NEW x, Served(n, x), x.link = None,
           NEW l \in Inbox(n), l # None, l = <<Leader(n), "succ", n>>,
           NEW z, z = Server(x, l)
    PROVE  Served(n, z)
<1> DEFINE p == Leader(n)
           q == wire[l]
           m == Head(q)
           f == frames[p]["succ"]
           xpv == node[p].succ_xpv
           y == Handle(x, p, m)
<1>1. p \in Nodes /\ Follower(p) = n /\ p # None
  BY Neighbours, Bounds
<1>2. l \in Links /\ q \in Seq(Request) /\ q # <<>> /\ m \in Request /\ l[1] = p
  BY Sender
<1>3. Exchange(p, xpv, f, q, x.nd.temp_predecessor, clock[p])
  BY DEF Served, Upstream, Without
<1>4. f \in Seq(Frame)
  BY <1>1 DEF Types, Socks
<1>5. /\ x \in TurnRecord /\ Placed(n, x.nd) /\ x.nd.trig \in {"NO", "RELAY"} /\ x.reply = <<>>
      /\ x.nd.succ_xpv = "NO" /\ x.nd.status = "HANDLING_STABILIZE"
           => x.nd.temp_predecessor # None
  BY DEF Served, Begun, TurnOK, Replied
<1>6. /\ x.nd.status \in {"MEMBER", "HANDLING_STABILIZE"}
      /\ x.nd.temp_predecessor \in {None, p} /\ x.nd.predecessor = p
  BY <1>5 DEF Placed
<1>7. Without(wire, l)[l] = Tail(q)
  BY <1>2 DEF Types, Without
<1>8. ASSUME z.link = l, Exchange(p, xpv, f \o z.reply, Tail(q), z.nd.temp_predecessor, clock[p])
      PROVE  Upstream(n, z) /\ Replied(n, z)
  <2> HIDE DEF xpv, q
  <2>1. z.link # <<Follower(n), "pred", n>> /\ z.link # None /\ z.link = <<p, "succ", n>>
    BY <1>8
  <2>2. Upstream(n, z)
    BY <1>7, <1>8, <2>1 DEF Upstream, xpv
  <2> QED BY <2>1, <2>2 DEF Replied
<1>9. /\ f \o <<>> = f /\ <<>> \o <<Pong>> = <<Pong>>
      /\ <<>> \o <<AckOf(n)>> = <<AckOf(n)>> /\ <<>> \o <<>> = <<>>
  BY <1>4
<1>10. y = Handle(x, l[1], Head(wire[l]))
  BY <1>2
<1>11. ASSUME AsBefore(x, y),
              y.nd.status \in {"MEMBER", "HANDLING_STABILIZE"},
              y.nd.temp_predecessor \in {None, p}, y.nd.trig \in {"NO", "RELAY"},
              x.nd.succ_xpv = "NO" /\ y.nd.status = "HANDLING_STABILIZE"
                => y.nd.temp_predecessor # None,
              Exchange(p, xpv, f \o y.reply, Tail(q), y.nd.temp_predecessor, clock[p])
       PROVE  Served(n, z)
  <2> HIDE DEF q, f, xpv, y
  <2>1. z.link = l /\ AsBefore(x, z) /\ z.nd = y.nd /\ z.reply = y.reply
    BY <1>2, <1>10, <1>11, ServerTurn
  <2>2. Exchange(p, xpv, f \o z.reply, Tail(q), z.nd.temp_predecessor, clock[p])
    BY <1>11, <2>1, Zenon
  <2>3. Upstream(n, z) /\ Replied(n, z)
    BY <1>8, <2>1, <2>2
  <2> QED BY <1>11, <2>1, <2>3, ServedAfter
<1> HIDE DEF p, q, f, xpv
<1>12. CASE m.type = "TOKEN" /\ Exchange(p, xpv, f, Tail(q), x.nd.temp_predecessor, clock[p])
  <2>1. y = TokenReq(x, m)
    BY <1>12 DEF Handle
  <2>2. m.token \in Tokens
    BY <1>2, <1>12 DEF Request
  <2> HIDE DEF m, y
  <2>3. /\ AsBefore(x, y) /\ y.nd.status = x.nd.status /\ y.reply = <<>>
        /\ y.nd.temp_predecessor = x.nd.temp_predecessor /\ y.nd.trig = x.nd.trig
    BY <1>5, <2>1, <2>2, TokenAnswered
  <2>4. f \o y.reply = f
    BY <1>9, <2>3
  <2>5. Exchange(p, xpv, f \o y.reply, Tail(q), y.nd.temp_predecessor, clock[p])
    BY <1>12, <2>3, <2>4, Zenon
  <2> QED BY <1>5, <1>6, <1>11, <2>3, <2>5
<1>13. CASE /\ m.type = "PING" /\ f = <<>>
            /\ Exchange(p, xpv, <<Pong>>, Tail(q), x.nd.temp_predecessor, clock[p])
  <2>1. y = PingReq(x)
    BY <1>13 DEF Handle
  <2> HIDE DEF m, y
  <2>2. AsBefore(x, y) /\ y.nd = x.nd /\ y.reply = <<Pong>>
    BY <1>5, <2>1, PingAnswered
  <2>3. f \o y.reply = <<Pong>>
    BY <1>9, <1>13, <2>2
  <2>4. Exchange(p, xpv, f \o y.reply, Tail(q), y.nd.temp_predecessor, clock[p])
    BY <1>13, <2>2, <2>3, Zenon
  <2> QED BY <1>5, <1>6, <1>11, <2>2, <2>4
<1>14. CASE /\ m.type = "STABILIZE_REQ" /\ f = <<>>
            /\ Exchange(p, xpv, <<AckOf(n)>>, Tail(q), p, clock[p])
  <2>1. y = StabilizeReq(x, p)
    BY <1>14 DEF Handle
  <2> HIDE DEF m, y
  <2>2. /\ AsBefore(x, y) /\ y.nd.status = "HANDLING_STABILIZE" /\ y.reply = <<AckOf(n)>>
        /\ y.nd.temp_predecessor = p /\ y.nd.trig = x.nd.trig
    BY <1>1, <1>5, <2>1, RequestAnswered
  <2>3. f \o y.reply = <<AckOf(n)>>
    BY <1>9, <1>14, <2>2
  <2>4. Exchange(p, xpv, f \o y.reply, Tail(q), y.nd.temp_predecessor, clock[p])
    BY <1>14, <2>2, <2>3, Zenon
  <2> QED BY <1>1, <1>5, <1>11, <2>2, <2>4
<1>15. CASE /\ m.type = "SYN" /\ f = <<>> /\ x.nd.temp_predecessor = p
            /\ \A u : u # p => Exchange(p, xpv, <<>>, Tail(q), u, clock[p])
  <2>1. y = StabilizeSynReq(x)
    BY <1>15 DEF Handle
  <2> HIDE DEF m, y
  <2>2. /\ AsBefore(x, y) /\ y.nd.status = "MEMBER" /\ y.reply = <<>>
        /\ y.nd.temp_predecessor = None /\ y.nd.trig \in {x.nd.trig, "NO"}
    BY <1>5, <1>6, <1>15, <2>1, SynAnswered
  <2>3. f \o y.reply = <<>> /\ None # p
    BY <1>1, <1>9, <1>15, <2>2
  <2>4. Exchange(p, xpv, f \o y.reply, Tail(q), y.nd.temp_predecessor, clock[p])
    BY <1>15, <2>2, <2>3, Zenon
  <2> QED BY <1>5, <1>11, <2>2, <2>4
<1>16. \/ m.type = "TOKEN" /\ Exchange(p, xpv, f, Tail(q), x.nd.temp_predecessor, clock[p])
       \/ /\ m.type = "PING" /\ f = <<>>
          /\ Exchange(p, xpv, <<Pong>>, Tail(q), x.nd.temp_predecessor, clock[p])
       \/ /\ m.type = "STABILIZE_REQ" /\ f = <<>>
          /\ Exchange(p, xpv, <<AckOf(n)>>, Tail(q), p, clock[p])
       \/ /\ m.type = "SYN" /\ f = <<>> /\ x.nd.temp_predecessor = p
          /\ \A u : u # p => Exchange(p, xpv, <<>>, Tail(q), u, clock[p])
  <2>1. PICK t, c : t = x.nd.temp_predecessor /\ c = clock[p]
    OBVIOUS
  <2>2. Exchange(p, xpv, f, q, t, c)
    BY <1>3, <2>1
  <2>3. ReadOff(p, xpv, f, q, t, c, n)
    <3>1. n = Follower(p) /\ q \in Seq(Request) /\ q # <<>>
      BY <1>1, <1>2
    <3> QED BY <2>2, <3>1, ExchangeRead, Zenon
  <2> QED BY <2>1, <2>3, Zenon DEF ReadOff
<1> QED BY <1>12, <1>13, <1>14, <1>15, <1>16

LEMMA SuccessorServed ==
    ASSUME Types, Good, NEW n \in Nodes, NEW x, Served(n, x), x.link = None,
           NEW l \in Inbox(n), l # None, l = <<Follower(n), "pred", n>>,
           NEW z, z = Server(x, l)
    PROVE  Served(n, z)
<1> DEFINE s == Follower(n)
           q == wire[l]
           m == Head(q)
           y == Handle(x, s, m)
<1>1. l \in Links /\ q \in Seq(Request) /\ q # <<>> /\ m \in Request /\ l[1] = s
      /\ Carried(l, q)
  BY Sender
<1>2. /\ m.type \in {"PING", "SYNC_SLIST"}
      /\ m.type = "SYNC_SLIST" => m.r = RMax /\ m.list = ListOf(s)
  BY <1>1, QueueHead
<1>3. /\ x \in TurnRecord /\ Placed(n, x.nd) /\ x.nd.trig \in {"NO", "RELAY"}
      /\ x.nd.succ_xpv = "NO" /\ x.nd.status = "HANDLING_STABILIZE"
           => x.nd.temp_predecessor # None
      /\ x.nd.status \in {"MEMBER", "HANDLING_STABILIZE"}
      /\ x.nd.temp_predecessor \in {None, Leader(n)}
  BY DEF Served, Begun, TurnOK, Placed
<1>4. ASSUME z.link = l, z.nd.temp_predecessor = x.nd.temp_predecessor, z.reply # <<>>
      PROVE  Upstream(n, z) /\ Replied(n, z)
  <2> DEFINE u == <<Leader(n), "succ", n>>
  <2> HIDE DEF q
  <2>1. Upstream(n, x) /\ x.link = None
    BY DEF Served
  <2>2. z.link # u
    BY <1>4
  <2>3. u \in Links /\ Without(wire, l)[u] = wire[u] /\ Without(wire, None)[u] = wire[u]
    <3>1. u \in Links
      BY LinksOf, Neighbours
    <3> HIDE DEF u
    <3> QED BY <1>1, <1>4, <2>2, <3>1 DEF Types, Without
  <2>4. Upstream(n, z)
    BY <1>4, <2>1, <2>2, <2>3 DEF Upstream
  <2> QED BY <1>4, <2>4 DEF Replied
<1>5. y = Handle(x, l[1], Head(wire[l]))
  BY <1>1
<1>6. ASSUME AsBefore(x, y), y.nd.status = x.nd.status, y.reply # <<>>,
             y.nd.temp_predecessor = x.nd.temp_predecessor, y.nd.trig \in {"NO", "RELAY"}
      PROVE  Served(n, z)
  <2> HIDE DEF q, y
  <2>1. z.link = l /\ AsBefore(x, z) /\ z.nd = y.nd /\ z.reply = y.reply
    BY <1>1, <1>5, <1>6, ServerTurn
  <2>2. Upstream(n, z) /\ Replied(n, z)
    BY <1>4, <1>6, <2>1
  <2> QED BY <1>3, <1>6, <2>1, <2>2, ServedAfter
<1> HIDE DEF q, s
<1>7. CASE m.type = "PING"
  <2>1. y = PingReq(x)
    BY <1>7 DEF Handle
  <2> HIDE DEF m, y
  <2>2. AsBefore(x, y) /\ y.nd = x.nd /\ y.reply = <<Pong>>
    BY <1>3, <2>1, PingAnswered
  <2>3. <<Pong>> # <<>>
    OBVIOUS
  <2> QED BY <1>3, <1>6, <2>2, <2>3
<1>8. CASE m.type = "SYNC_SLIST"
  <2>1. y = SyncSlist(x, m)
    BY <1>8 DEF Handle
  <2> HIDE DEF m, y
  <2>2. /\ AsBefore(x, y) /\ y.nd.status = x.nd.status /\ y.reply # <<>>
        /\ y.nd.temp_predecessor = x.nd.temp_predecessor /\ y.nd.trig \in {x.nd.trig, "RELAY"}
    BY <1>1, <1>2, <1>3, <1>8, <2>1, ListAnswered DEF s
  <2> QED BY <1>3, <1>6, <2>2
<1> QED BY <1>2, <1>7, <1>8

LEMMA ServerServed ==
    ASSUME Types, Good, NEW n \in Nodes, NEW x, Served(n, x), x.link = None,
           NEW l, l = None \/ l \in Inbox(n)
    PROVE  Served(n, Server(x, l)) /\ (l = None => Server(x, l).link = None)
<1>1. CASE l = None
  BY <1>1 DEF Server
<1>2. CASE l # None
  BY <1>2, Sender, PredecessorServed, SuccessorServed
<1> QED BY <1>1, <1>2


-------------------------------------------------------------------------------
(* What a turn has sent *)

Sent(x) == PostAll(Without(wire, x.link), x.out)

LEMMA PostNone == \A w : PostAll(w, <<>>) = w
<1>1. Len(<<>>) = 0 /\ ~(1 <= 0) /\ ~(2 <= 0) /\ ~(3 <= 0) /\ ~(4 <= 0)
  OBVIOUS
<1> QED BY <1>1 DEF PostAll

LEMMA PostMore ==
    ASSUME NEW w, NEW out \in Seq(Sending), Len(out) <= 3, NEW o \in Sending
    PROVE  PostAll(w, Append(out, o)) = Post(PostAll(w, out), o)
<1> DEFINE new == Append(out, o)
           a(v, i) == IF i <= Len(out) THEN Post(v, out[i]) ELSE v
           b(v, i) == IF i <= Len(new) THEN Post(v, new[i]) ELSE v
<1>1. /\ PostAll(w, out) = a(a(a(a(w, 1), 2), 3), 4)
      /\ PostAll(w, new) = b(b(b(b(w, 1), 2), 3), 4)
  BY DEF PostAll
<1>2. /\ Len(out) \in Nat /\ Len(new) = Len(out) + 1 /\ new[Len(out) + 1] = o
      /\ \A i \in 1 .. Len(out) : new[i] = out[i]
  BY AppendProperties, LenProperties
<1>3. PICK k : k = Len(out)
  OBVIOUS
<1>4. k \in {0, 1, 2, 3}
  BY <1>2, <1>3
<1>5. ASSUME NEW v, NEW i \in 1 .. 4
      PROVE  /\ i <= k => a(v, i) = Post(v, out[i]) /\ b(v, i) = Post(v, out[i])
             /\ i = k + 1 => a(v, i) = v /\ b(v, i) = Post(v, o)
             /\ i > k + 1 => a(v, i) = v /\ b(v, i) = v
  <2>1. CASE i <= k
    <3>1. i <= Len(out) /\ i <= Len(new) /\ new[i] = out[i] /\ ~(i = k + 1) /\ ~(i > k + 1)
      BY <1>2, <1>3, <2>1
    <3> QED BY <3>1
  <2>2. CASE i = k + 1
    <3>1. ~(i <= Len(out)) /\ i <= Len(new) /\ new[i] = o /\ ~(i <= k) /\ ~(i > k + 1)
      BY <1>2, <1>3, <2>2
    <3> QED BY <3>1
  <2>3. CASE i > k + 1
    <3>1. ~(i <= Len(out)) /\ ~(i <= Len(new)) /\ ~(i <= k) /\ ~(i = k + 1)
      BY <1>2, <1>3, <2>3
    <3> QED BY <3>1
  <2> QED BY <1>4, <2>1, <2>2, <2>3
<1> HIDE DEF a, b, new
<1>6. 1 \in 1 .. 4 /\ 2 \in 1 .. 4 /\ 3 \in 1 .. 4 /\ 4 \in 1 .. 4
  OBVIOUS
<1>7. b(b(b(b(w, 1), 2), 3), 4) = Post(a(a(a(a(w, 1), 2), 3), 4), o)
  <2>1. CASE k = 0
    BY <1>5, <1>6, <2>1
  <2>2. CASE k = 1
    BY <1>5, <1>6, <2>2
  <2>3. CASE k = 2
    BY <1>5, <1>6, <2>3
  <2>4. CASE k = 3
    BY <1>5, <1>6, <2>4
  <2> QED BY <1>4, <2>1, <2>2, <2>3, <2>4
<1> QED BY <1>1, <1>7 DEF new

(* Between the live, a message is added to its link, unless it is a ping and *)
(* there is one already.                                                     *)
LEMMA PostToLive ==
    ASSUME Live = Nodes, MaxPings > 0, NEW w \in [Links -> Seq(Request)],
           NEW l \in Links, NEW m \in Request, NEW o, o = [link |-> l, msg |-> m],
           NEW v, v = Post(w, o)
    PROVE  /\ v \in [Links -> Seq(Request)] /\ v[l] # <<>>
           /\ \A k \in Links : k # l => v[k] = w[k]
           /\ v[l] = Append(w[l], m) \/ (m = Ping /\ v[l] = w[l] /\ ~OnlyTokens(w[l]))
<1> DEFINE pings == {i \in DOMAIN w[o.link] : w[o.link][i] = Ping}
<1>1. o.link = l /\ o.msg = m /\ l[3] \in Live
  BY DEF Links
<1>2. w[l] \in Seq(Request)
  OBVIOUS
<1>3. Append(w[l], m) \in Seq(Request) /\ Append(w[l], m) # <<>>
  BY <1>2, AppendProperties
<1>4. CASE m = Ping /\ Cardinality(pings) >= MaxPings
  <2>1. v = w
    BY <1>1, <1>4 DEF Post
  <2>2. pings # {}
    <3>1. Cardinality({}) = 0
      BY FS_EmptySet
    <3>2. ~(Cardinality({}) >= MaxPings)
      BY <3>1, RingAssumption
    <3> HIDE DEF pings
    <3> QED BY <1>4, <3>2, Zenon
  <2>3. PICK i \in DOMAIN w[l] : w[l][i] = Ping
    BY <1>1, <2>2
  <2>4. Ping.type # "TOKEN"
    BY DEF Ping
  <2>5. ~OnlyTokens(w[l])
    BY <2>3, <2>4 DEF OnlyTokens
  <2>6. w[l] # <<>>
    BY <2>5, QueueEmpty
  <2> QED BY <1>4, <2>1, <2>5, <2>6
<1>5. CASE ~(m = Ping /\ Cardinality(pings) >= MaxPings)
  <2>1. v = [w EXCEPT ![l] = Append(w[l], m)]
    BY <1>1, <1>5 DEF Post
  <2> QED BY <1>3, <2>1
<1> QED BY <1>4, <1>5

LEMMA SentMore ==
    ASSUME Live = Nodes, MaxPings > 0, NEW x, x.out \in Seq(Sending), Len(x.out) <= 3,
           Sent(x) \in [Links -> Seq(Request)],
           NEW l \in Links, NEW m \in Request, NEW y, y.link = x.link,
           y.out = Append(x.out, [link |-> l, msg |-> m])
    PROVE  /\ Sent(y) \in [Links -> Seq(Request)] /\ Sent(y)[l] # <<>>
           /\ \A k \in Links : k # l => Sent(y)[k] = Sent(x)[k]
           /\ \/ Sent(y)[l] = Append(Sent(x)[l], m)
              \/ m = Ping /\ Sent(y)[l] = Sent(x)[l] /\ ~OnlyTokens(Sent(x)[l])
<1> DEFINE o == [link |-> l, msg |-> m]
<1>1. o \in Sending
  BY DEF Sending, Links, Targets
<1>2. PICK w, v : w = Sent(x) /\ v = Sent(y)
  OBVIOUS
<1> HIDE DEF o
<1>3. v = Post(w, o)
  <2>1. y.out = Append(x.out, o)
    BY DEF o
  <2> QED BY <1>1, <1>2, <2>1, PostMore DEF Sent
<1>4. w \in [Links -> Seq(Request)]
  BY <1>2
<1>5. /\ v \in [Links -> Seq(Request)] /\ v[l] # <<>>
      /\ \A k \in Links : k # l => v[k] = w[k]
      /\ v[l] = Append(w[l], m) \/ (m = Ping /\ v[l] = w[l] /\ ~OnlyTokens(w[l]))
  BY <1>3, <1>4, PostToLive, SMTT(30) DEF o
<1> QED BY <1>2, <1>5

-------------------------------------------------------------------------------
(* A turn after its timer *)

Down(n) == <<n, "succ", Follower(n)>>
Up(n) == <<n, "pred", Leader(n)>>

(* What the sockets of n can be said to have ready.                          *)
Polled(n, revents) ==
    /\ "succ" \in revents => frames[n]["succ"] # <<>>
    /\ clock[n] = "due" /\ node[n].status = "HANDLING_STABILIZE" => "server" \in revents

(* The turn x of n, at any stage between its timer and its end               *)
Underway(n, x, revents) ==
    /\ TurnOK(x) /\ x.self = n /\ x.nd.pc = "poll"
    /\ x.link # None => x.link \in Inbox(n)
    /\ Placed(n, x.nd) /\ Upstream(n, x) /\ Replied(n, x)
    /\ Sent(x) \in [Links -> Seq(Request)]
    /\ \A l \in Links : Carried(l, Sent(x)[l])
    /\ \A l \in Links : l[1] # n => Sent(x)[l] = Without(wire, x.link)[l]
    /\ Exchange(n, x.nd.succ_xpv, x.frames["succ"], Sent(x)[Down(n)],
                node[Follower(n)].temp_predecessor, x.clock)
    /\ Awaited(x.nd.pred_xpv, Sent(x)[Up(n)], x.frames["pred"])
    /\ x.nd.trig \in {"NO", "RELAY", "REPLICATE", "STABILIZE"}
    /\ x.nd.trig = "STABILIZE" => x.clock = "due"
    /\ x.nd.trig # "STABILIZE" =>
         /\ x.nd.succ_xpv = "NO" /\ x.nd.status = "HANDLING_STABILIZE"
              => x.nd.temp_predecessor # None
         /\ x.clock = "due" => /\ x.nd.status = "HANDLING_STABILIZE"
                               /\ "server" \in revents /\ "succ" \notin revents

LEMMA WithoutLink ==
    ASSUME Types, NEW n \in Nodes, NEW l, l # None => l \in Inbox(n)
    PROVE  /\ Without(wire, l) \in [Links -> Seq(Request)]
           /\ \A k \in Links : k # l => Without(wire, l)[k] = wire[k]
           /\ l # None => l \in Links /\ l[3] = n /\ Without(wire, l)[l] = Tail(wire[l])
           /\ \A k \in Links : Carried(k, wire[k]) => Carried(k, Without(wire, l)[k])
<1> DEFINE v == Without(wire, l)
<1>1. CASE l = None
  <2>1. v = wire
    BY <1>1 DEF Without
  <2> QED BY <1>1, <2>1 DEF Types
<1>2. CASE l # None
  <2>1. l \in Links /\ l[3] = n /\ wire[l] \in Seq(Request) /\ wire[l] # <<>>
    BY <1>2 DEF Types, Inbox
  <2>2. Tail(wire[l]) \in Seq(Request)
    BY <2>1, TailOf
  <2>3. v = [wire EXCEPT ![l] = Tail(wire[l])]
    BY <1>2 DEF Without
  <2> HIDE DEF v
  <2>4. /\ v \in [Links -> Seq(Request)] /\ v[l] = Tail(wire[l])
        /\ \A k \in Links : k # l => v[k] = wire[k]
    BY <2>1, <2>2, <2>3 DEF Types
  <2>5. ASSUME NEW k \in Links, Carried(k, wire[k]) PROVE Carried(k, v[k])
    <3>1. CASE k = l
      <4>1. PICK q : q = wire[l]
        OBVIOUS
      <4>2. Carried(l, Tail(q))
        BY <2>1, <2>5, <3>1, <4>1, QueueTail
      <4>3. v[k] = Tail(q)
        BY <2>4, <3>1, <4>1
      <4> QED BY <3>1, <4>2, <4>3, Zenon
    <3>2. CASE k # l
      <4>1. v[k] = wire[k]
        BY <2>4, <3>2
      <4> QED BY <2>5, <4>1, Zenon
    <3> QED BY <3>1, <3>2
  <2> QED BY <2>1, <2>4, <2>5 DEF v
<1> QED BY <1>1, <1>2

(* The timer changes the trigger and the status of a member whose interval   *)
(* is over.                                                                  *)
LEMMA TimerTurn ==
    ASSUME NEW x \in TurnRecord, NEW y, y = Timer(x)
    PROVE  /\ y.link = x.link /\ y.frames = x.frames /\ y.clock = x.clock /\ y.reply = x.reply
           /\ y.out = x.out /\ AsWas(x.nd, y.nd)
           /\ y.nd.temp_predecessor = x.nd.temp_predecessor
           /\ \/ /\ x.clock = "due" /\ x.nd.status = "MEMBER"
                 /\ y.nd.status = "HANDLING_STABILIZE" /\ y.nd.trig = "STABILIZE"
              \/ /\ x.clock = "due" => x.nd.status # "MEMBER"
                 /\ y.nd.status = x.nd.status /\ y.nd.trig = x.nd.trig
<1> DEFINE nd == [x.nd EXCEPT !.trig = "STABILIZE", !.status = "HANDLING_STABILIZE"]
<1>1. x.nd \in Node
  BY DEF TurnRecord
<1>2. CASE x.nd.status = "MEMBER" /\ x.clock = "due"
  <2>1. y = [x EXCEPT !.nd = nd]
    BY <1>1, <1>2 DEF Timer, TurnRecord
  <2>2. /\ AsWas(x.nd, nd) /\ nd.temp_predecessor = x.nd.temp_predecessor
        /\ nd.status = "HANDLING_STABILIZE" /\ nd.trig = "STABILIZE"
    BY <1>1 DEF Node, AsWas
  <2> HIDE DEF nd
  <2>3. /\ y.nd = nd /\ y.link = x.link /\ y.frames = x.frames /\ y.clock = x.clock
        /\ y.reply = x.reply /\ y.out = x.out
    BY <2>1 DEF TurnRecord
  <2> QED BY <1>2, <2>2, <2>3
<1>3. CASE ~(x.nd.status = "MEMBER" /\ x.clock = "due")
  <2>1. y = x
    BY <1>3 DEF Timer
  <2> QED BY <1>3, <2>1 DEF AsWas
<1> QED BY <1>2, <1>3

LEMMA TimerUnderway ==
    ASSUME Types, Good, NEW n \in Nodes, NEW revents, Polled(n, revents),
           NEW x, Served(n, x), x.link # None => "server" \in revents,
           NEW y, y = Timer(x)
    PROVE  /\ Underway(n, y, revents) /\ y.frames = frames[n] /\ y.out = <<>>
           /\ y.nd.pred_xpv = node[n].pred_xpv /\ Begun(n, y)
<1>1. /\ Begun(n, x) /\ x \in TurnRecord /\ x.frames = frames[n] /\ x.clock = clock[n]
      /\ Placed(n, x.nd) /\ x.nd.succ_xpv = node[n].succ_xpv
      /\ x.nd.pred_xpv = node[n].pred_xpv /\ Upstream(n, x) /\ Replied(n, x)
      /\ x.nd.trig \in {"NO", "RELAY"}
  BY DEF Served, Begun, TurnOK
<1>2. Begun(n, y)
  BY <1>1, TimerOK
<1>3. /\ y.link = x.link /\ y.frames = x.frames /\ y.clock = x.clock /\ y.reply = x.reply
      /\ y.out = x.out /\ AsWas(x.nd, y.nd)
      /\ y.nd.temp_predecessor = x.nd.temp_predecessor
  BY <1>1, TimerTurn
<1>4. \/ /\ x.clock = "due" /\ x.nd.status = "MEMBER"
         /\ y.nd.status = "HANDLING_STABILIZE" /\ y.nd.trig = "STABILIZE"
      \/ /\ x.clock = "due" => x.nd.status # "MEMBER"
         /\ y.nd.status = x.nd.status /\ y.nd.trig = x.nd.trig
  BY <1>1, TimerTurn
<1>5. y.out = <<>> /\ y.self = n /\ y.nd.pc = "poll" /\ TurnOK(y)
      /\ (y.link # None => y.link \in Inbox(n))
  BY <1>2 DEF Begun
<1>6. Placed(n, y.nd)
  BY <1>1, <1>3, <1>4 DEF Placed, AsWas
<1>7. Upstream(n, y) /\ Replied(n, y)
  BY <1>1, <1>3 DEF Upstream, Replied
<1>8. Sent(y) = Without(wire, y.link)
  BY <1>5, PostNone DEF Sent
<1>9. /\ Without(wire, y.link) \in [Links -> Seq(Request)]
      /\ \A k \in Links : k # y.link => Without(wire, y.link)[k] = wire[k]
      /\ \A k \in Links : Carried(k, wire[k]) => Carried(k, Without(wire, y.link)[k])
      /\ y.link # None => y.link[3] = n
  BY <1>5, WithoutLink
<1>10. InStep(n) /\ \A l \in Links : Carried(l, wire[l])
  BY DEF Good
<1>11. Sent(y)[Down(n)] = wire[Down(n)] /\ Sent(y)[Up(n)] = wire[Up(n)]
  <2>1. Down(n) \in Links /\ Up(n) \in Links
    BY LinksOf DEF Down, Up
  <2>2. Down(n)[3] # n /\ Up(n)[3] # n
    BY Neighbours DEF Down, Up
  <2>3. CASE y.link = None
    BY <1>8, <2>3 DEF Without
  <2>4. CASE y.link # None
    <3>1. y.link # Down(n) /\ y.link # Up(n)
      BY <1>9, <2>2, <2>4
    <3> QED BY <1>8, <1>9, <2>1, <3>1
  <2> QED BY <2>3, <2>4
<1>12. Exchange(n, y.nd.succ_xpv, y.frames["succ"], Sent(y)[Down(n)],
                node[Follower(n)].temp_predecessor, y.clock)
  BY <1>1, <1>3, <1>10, <1>11 DEF InStep, AsWas, Down
<1>13. Awaited(y.nd.pred_xpv, Sent(y)[Up(n)], y.frames["pred"])
  BY <1>1, <1>3, <1>10, <1>11 DEF InStep, AsWas, Up
<1>14. y.nd.trig \in {"NO", "RELAY", "REPLICATE", "STABILIZE"}
       /\ (y.nd.trig = "STABILIZE" => y.clock = "due")
  BY <1>1, <1>3, <1>4
<1>15. ASSUME y.nd.trig # "STABILIZE"
       PROVE  /\ y.nd.succ_xpv = "NO" /\ y.nd.status = "HANDLING_STABILIZE"
                   => y.nd.temp_predecessor # None
              /\ y.clock = "due" => /\ y.nd.status = "HANDLING_STABILIZE"
                                    /\ "server" \in revents /\ "succ" \notin revents
  <2>1. y.nd.status = x.nd.status /\ (x.clock = "due" => x.nd.status # "MEMBER")
    BY <1>4, <1>15
  <2>2. y.nd.succ_xpv = x.nd.succ_xpv
    BY <1>3 DEF AsWas
  <2>3. x.nd.status \in {"MEMBER", "HANDLING_STABILIZE"}
    BY <1>1 DEF Placed
  <2>4. ASSUME y.clock = "due" PROVE frames[n]["succ"] = <<>>
    BY <1>1, <1>3, <1>12, <2>4 DEF Exchange
  <2> QED BY <1>1, <1>3, <2>1, <2>2, <2>3, <2>4 DEF Served, Polled
<1> QED BY <1>1, <1>2, <1>3, <1>5, <1>6, <1>7, <1>8, <1>9, <1>10, <1>12, <1>13, <1>14, <1>15
        DEF Underway, AsWas

-------------------------------------------------------------------------------
(* A turn goes on *)

(* From x to y a turn has not touched what it has of its message, nor its    *)
(* next predecessor.                                                         *)
Onward(x, y) ==
    /\ TurnOK(y) /\ y.self = x.self /\ y.link = x.link /\ y.reply = x.reply
    /\ y.nd.pc = x.nd.pc /\ y.nd.temp_predecessor = x.nd.temp_predecessor

(* A message to the successor of a node that has its place in the ring, and  *)
(* one to its predecessor.                                                   *)
LEMMA SendDown ==
    ASSUME NEW x, TurnOK(x), x.nd.successor = Follower(x.self), NEW m \in Request
    PROVE  LET z == Send(x, "succ", m)
           IN /\ TurnOK(z) /\ z.self = x.self /\ z.link = x.link /\ z.reply = x.reply
              /\ z.nd = x.nd /\ z.clock = x.clock /\ z.frames = x.frames
              /\ z.out = Append(x.out, [link |-> Down(x.self), msg |-> m])
<1>1. "succ" \in Socks
  BY DEF Socks
<1>2. <<x.self, "succ", Peer(x.nd, "succ")>> = Down(x.self)
  BY DEF Peer, Down
<1> QED BY <1>1, <1>2, SendOK

LEMMA SendUp ==
    ASSUME NEW x, TurnOK(x), x.nd.predecessor = Leader(x.self), NEW m \in Request
    PROVE  LET z == Send(x, "pred", m)
           IN /\ TurnOK(z) /\ z.self = x.self /\ z.link = x.link /\ z.reply = x.reply
              /\ z.nd = x.nd /\ z.clock = x.clock /\ z.frames = x.frames
              /\ z.out = Append(x.out, [link |-> Up(x.self), msg |-> m])
<1>1. "pred" \in Socks
  BY DEF Socks
<1>2. <<x.self, "pred", Peer(x.nd, "pred")>> = Up(x.self)
  BY DEF Peer, Up
<1> QED BY <1>1, <1>2, SendOK

(* A change of the node and of its clock.                                    *)
LEMMA NodeAndClock ==
    ASSUME NEW x, TurnOK(x), NEW nd, NodeOK(nd), NEW c \in Clock
    PROVE  LET y == [x EXCEPT !.nd = nd, !.clock = c]
           IN /\ TurnOK(y) /\ y.self = x.self /\ y.link = x.link /\ y.reply = x.reply
              /\ y.nd = nd /\ y.clock = c /\ y.frames = x.frames /\ y.out = x.out
  BY DEF TurnOK, NodeOK, TurnRecord

(* What a message to a neighbour does to the links.                          *)
LEMMA SentOn ==
    ASSUME Live = Nodes, MaxPings > 0, NEW n \in Nodes, NEW revents,
           NEW x, Underway(n, x, revents), Len(x.out) <= 3, NEW l, l \in {Down(n), Up(n)},
           NEW m \in Request, Carried(l, <<m>>), NEW y, y.link = x.link,
           y.out = Append(x.out, [link |-> l, msg |-> m])
    PROVE  /\ Sent(y) \in [Links -> Seq(Request)]
           /\ \A k \in Links : Carried(k, Sent(y)[k])
           /\ \A k \in Links : k[1] # n => Sent(y)[k] = Without(wire, y.link)[k]
           /\ l = Up(n) => Sent(y)[Down(n)] = Sent(x)[Down(n)] /\ Sent(y)[Up(n)] # <<>>
           /\ l = Down(n) => Sent(y)[Up(n)] = Sent(x)[Up(n)]
           /\ Sent(x)[l] \in Seq(Request)
           /\ \/ Sent(y)[l] = Append(Sent(x)[l], m)
              \/ m = Ping /\ Sent(y)[l] = Sent(x)[l] /\ ~OnlyTokens(Sent(x)[l])
<1>1. /\ Down(n) \in Links /\ Up(n) \in Links /\ Down(n) # Up(n)
      /\ Down(n)[1] = n /\ Up(n)[1] = n
  BY LinksOf DEF Down, Up
<1>2. PICK w, v : w = Sent(x) /\ v = Sent(y)
  OBVIOUS
<1>3. /\ w \in [Links -> Seq(Request)] /\ \A k \in Links : Carried(k, w[k])
      /\ \A k \in Links : k[1] # n => w[k] = Without(wire, x.link)[k]
      /\ x.out \in Seq(Sending)
  BY <1>2 DEF Underway, TurnOK, TurnRecord
<1>4. l \in Links
  BY <1>1
<1>5. /\ v \in [Links -> Seq(Request)] /\ v[l] # <<>>
      /\ \A k \in Links : k # l => v[k] = w[k]
      /\ v[l] = Append(w[l], m) \/ (m = Ping /\ v[l] = w[l] /\ ~OnlyTokens(w[l]))
  BY <1>2, <1>3, <1>4, SentMore, SMTT(30)
<1>6. PICK q : q = w[l]
  OBVIOUS
<1>7. q \in Seq(Request) /\ Carried(l, q)
  BY <1>3, <1>4, <1>6
<1>8. Carried(l, Append(q, m))
  BY <1>7, QueueAppend
<1>9. Carried(l, v[l])
  <2>1. CASE v[l] = Append(q, m)
    BY <1>8, <2>1, Zenon
  <2>2. CASE v[l] = q
    BY <1>7, <2>2, Zenon
  <2> QED BY <1>5, <1>6, <2>1, <2>2
<1>10. \A k \in Links : Carried(k, v[k])
  <2>1. ASSUME NEW k \in Links PROVE Carried(k, v[k])
    <3>1. CASE k = l
      BY <1>9, <3>1, Zenon
    <3>2. CASE k # l
      <4>1. v[k] = w[k] /\ Carried(k, w[k])
        BY <1>3, <1>5, <3>2
      <4> QED BY <4>1, Zenon
    <3> QED BY <3>1, <3>2
  <2> QED BY <2>1
<1>11. \A k \in Links : k[1] # n => v[k] = Without(wire, y.link)[k]
  <2>1. \A k \in Links : k[1] # n => k # l
    BY <1>1
  <2> QED BY <1>3, <1>5, <2>1
<1> QED BY <1>1, <1>2, <1>3, <1>4, <1>5, <1>10, <1>11

LEMMA UnderwayAfter ==
    ASSUME NEW n, NEW revents, NEW x, Underway(n, x, revents), NEW y, Onward(x, y),
           Placed(n, y.nd), Sent(y) \in [Links -> Seq(Request)],
           \A l \in Links : Carried(l, Sent(y)[l]),
           \A l \in Links : l[1] # n => Sent(y)[l] = Without(wire, y.link)[l],
           Exchange(n, y.nd.succ_xpv, y.frames["succ"], Sent(y)[Down(n)],
                    node[Follower(n)].temp_predecessor, y.clock),
           Awaited(y.nd.pred_xpv, Sent(y)[Up(n)], y.frames["pred"]),
           y.nd.trig \in {"NO", "RELAY", "REPLICATE"},
           y.nd.succ_xpv = "NO" /\ y.nd.status = "HANDLING_STABILIZE"
              => y.nd.temp_predecessor # None,
           y.clock = "due" => /\ y.nd.status = "HANDLING_STABILIZE"
                              /\ "server" \in revents /\ "succ" \notin revents
    PROVE  Underway(n, y, revents)
<1>1. Upstream(n, y) /\ Replied(n, y)
  BY DEF Underway, Upstream, Replied, Onward
<1> QED BY <1>1 DEF Underway, Onward

-------------------------------------------------------------------------------
(* The successor's socket, in an exchange that goes well *)

StabilizeRequest == [type |-> "STABILIZE_REQ"]
Syn == [type |-> "SYN"]
SendsDown(n, x, y, m) == y.out = Append(x.out, [link |-> Down(n), msg |-> m])

(* The frames of the successor's socket have been read.                      *)
Emptied(x) == [x EXCEPT !.frames["succ"] = <<>>]

LEMMA FramesRead ==
    ASSUME NEW x, TurnOK(x)
    PROVE  LET u == Emptied(x)
           IN /\ TurnOK(u) /\ u.nd = x.nd /\ u.self = x.self /\ u.link = x.link
              /\ u.reply = x.reply /\ u.clock = x.clock /\ u.out = x.out
              /\ u.frames["succ"] = <<>> /\ u.frames["pred"] = x.frames["pred"]
<1>1. x \in TurnRecord /\ x.frames \in [Socks -> Seq(Frame)] /\ "succ" \in Socks
      /\ "pred" \in Socks
  BY DEF TurnOK, TurnRecord, Socks
<1>2. PICK e : e = <<>> /\ e \in Seq(Frame)
  BY EmptySeq
<1>3. PICK g : g = [x.frames EXCEPT !["succ"] = e]
  OBVIOUS
<1>4. g \in [Socks -> Seq(Frame)] /\ g["succ"] = e /\ g["pred"] = x.frames["pred"]
  BY <1>1, <1>2, <1>3
<1>5. PICK u : u = Emptied(x)
  OBVIOUS
<1>6. u = [x EXCEPT !.frames = g]
  BY <1>1, <1>2, <1>3, <1>5 DEF TurnRecord, Emptied
<1>7. /\ u \in TurnRecord /\ u.nd = x.nd /\ u.self = x.self /\ u.link = x.link
      /\ u.reply = x.reply /\ u.clock = x.clock /\ u.out = x.out /\ u.frames = g
  BY <1>1, <1>4, <1>6 DEF TurnRecord
<1>8. TurnOK(u)
  BY <1>7 DEF TurnOK
<1> QED BY <1>2, <1>4, <1>5, <1>7, <1>8

LEMMA OneFrame ==
    ASSUME NEW f, f.type # "PONG"
    PROVE  SkipPongs(<<f>>) = <<f>>
<1> DEFINE fs == <<f>>
           other == {i \in DOMAIN fs : fs[i].type # "PONG"}
           P(k) == (\A i \in 1 .. k - 1 : i \notin other) /\ (k \in other \/ k = Len(fs) + 1)
<1>1. DOMAIN fs = {1} /\ fs[1] = f /\ Len(fs) = 1
  OBVIOUS
<1>2. other = {1}
  BY <1>1
<1>3. P(1) /\ 1 \in 1 .. Len(fs) + 1
  BY <1>1, <1>2
<1>4. ASSUME NEW k \in 1 .. Len(fs) + 1, P(k) PROVE k = 1
  <2>1. k \in {1, 2}
    BY <1>1
  <2>2. ASSUME k = 2 PROVE FALSE
    <3>1. 1 \in 1 .. k - 1
      BY <2>2
    <3> QED BY <1>2, <1>4, <3>1
  <2> QED BY <2>1, <2>2
<1>5. (CHOOSE k \in 1 .. Len(fs) + 1 : P(k)) = 1
  <2> HIDE DEF P, fs
  <2> QED BY <1>3, <1>4
<1>6. SkipPongs(fs) = SubSeq(fs, CHOOSE k \in 1 .. Len(fs) + 1 : P(k), Len(fs))
  BY DEF SkipPongs
<1>7. SkipPongs(fs) = SubSeq(fs, 1, Len(fs))
  <2> HIDE DEF P, fs
  <2> QED BY <1>5, <1>6
<1>8. SubSeq(fs, 1, Len(fs)) = fs
  <2>1. fs \in Seq({f})
    OBVIOUS
  <2> HIDE DEF fs
  <2> QED BY <2>1, SubSeqFull
<1> QED BY <1>7, <1>8

(* The successor's socket is polled, and has frame f.                        *)
Fetch(x) == SuccessorSocket(x, TRUE, FALSE)
Holds(x, f) == x.frames["succ"] = <<f>>

(* A PONG is answered with STABILIZE_REQ.                                    *)
LEMMA PongTurn ==
    ASSUME NEW n, NEW revents, NEW x, Underway(n, x, revents), x.nd.succ_xpv = "REQ",
           Holds(x, Pong), NEW y, y = Fetch(x)
    PROVE  /\ Onward(x, y) /\ y.clock = x.clock /\ Placed(n, y.nd)
           /\ y.nd.succ_xpv = "ACK" /\ y.nd.trig = x.nd.trig /\ y.nd.pred_xpv = x.nd.pred_xpv
           /\ y.frames["succ"] = <<>> /\ y.frames["pred"] = x.frames["pred"]
           /\ SendsDown(n, x, y, StabilizeRequest)
<1> DEFINE m == StabilizeRequest
           nd == [x.nd EXCEPT !.succ_xpv = "ACK"]
<1>1. TurnOK(x) /\ x.nd \in Node /\ NodeOK(x.nd) /\ x.self = n /\ x.nd.successor = Follower(n)
      /\ x.clock \in Clock /\ Placed(n, x.nd)
  BY DEF Underway, TurnOK, TurnRecord, Placed
<1>2. PICK u : u = Emptied(x)
  OBVIOUS
<1>3. /\ TurnOK(u) /\ u.nd = x.nd /\ u.self = x.self /\ u.link = x.link
      /\ u.reply = x.reply /\ u.clock = x.clock /\ u.out = x.out
      /\ u.frames["succ"] = <<>> /\ u.frames["pred"] = x.frames["pred"] /\ u \in TurnRecord
  BY <1>1, <1>2, FramesRead DEF TurnOK
<1>4. SuccessorFrames(x) = <<Pong>> /\ <<Pong>> # <<>> /\ Head(<<Pong>>) = Pong
      /\ Tail(<<Pong>>) = <<>> /\ Pong.type = "PONG"
  BY DEF SuccessorFrames, Pong, Holds
<1>5. y = PongExpected(u, Pong)
  BY <1>2, <1>4 DEF SuccessorSocket, Emptied, Fetch
<1>6. y = [Send(u, "succ", m) EXCEPT !.nd.succ_xpv = "ACK"]
  BY <1>4, <1>5 DEF PongExpected, StabilizeRequest
<1>7. m \in Request /\ "succ" \in Socks
  BY Requests DEF Socks, StabilizeRequest
<1>8. /\ NodeOK(nd) /\ nd.pc = x.nd.pc /\ nd.temp_predecessor = x.nd.temp_predecessor
      /\ nd.succ_xpv = "ACK" /\ nd.trig = x.nd.trig /\ nd.pred_xpv = x.nd.pred_xpv
  BY <1>1 DEF NodeOK, Node, SuccXpv
<1>12. Placed(n, nd)
  BY <1>1 DEF Node, Placed
<1>9. PICK z : z = Send(u, "succ", m)
  OBVIOUS
<1> HIDE DEF m
<1>10. /\ TurnOK(z) /\ z.self = u.self /\ z.link = u.link /\ z.reply = u.reply
       /\ z.nd = u.nd /\ z.clock = u.clock /\ z.frames = u.frames
       /\ z.out = Append(u.out, [link |-> Down(n), msg |-> m])
  BY <1>1, <1>3, <1>7, <1>9, SendDown
<1>11. y = [z EXCEPT !.nd = nd]
  BY <1>3, <1>6, <1>9, <1>10 DEF TurnOK, TurnRecord
<1> HIDE DEF nd
<1>13. /\ TurnOK(y) /\ y.self = u.self /\ y.link = u.link /\ y.reply = u.reply
       /\ y.nd = nd /\ y.clock = x.clock /\ y.frames = u.frames
       /\ y.out = Append(u.out, [link |-> Down(n), msg |-> m])
  BY <1>3, <1>8, <1>10, <1>11 DEF TurnOK, TurnRecord, NodeOK
<1>14. Onward(x, y)
  BY <1>3, <1>8, <1>13 DEF Onward
<1> QED BY <1>3, <1>8, <1>12, <1>13, <1>14 DEF SendsDown, m

(* An ACK is answered with SYN; the list it brings is the one that is there. *)
LEMMA AckTurn ==
    ASSUME NEW n \in Nodes, NEW revents, NEW x, Underway(n, x, revents), x.nd.succ_xpv = "ACK",
           Holds(x, AckOf(Follower(n))), NEW y, y = Fetch(x)
    PROVE  /\ Onward(x, y) /\ y.clock = x.clock
           /\ Placed(n, y.nd) /\ y.nd.succ_xpv = "NO" /\ y.nd.trig = "REPLICATE"
           /\ y.nd.status = "MEMBER" /\ y.nd.pred_xpv = x.nd.pred_xpv
           /\ y.frames["succ"] = <<>> /\ y.frames["pred"] = x.frames["pred"]
           /\ SendsDown(n, x, y, Syn)
<1> DEFINE m == Syn
           nd == [x.nd EXCEPT !.trig = "REPLICATE", !.succ_xpv = "NO", !.status = "MEMBER"]
           f == AckOf(Follower(n))
<1>1. TurnOK(x) /\ x.nd \in Node /\ NodeOK(x.nd) /\ x.self = n /\ x.nd.successor = Follower(n)
      /\ Placed(n, x.nd)
  BY DEF Underway, TurnOK, TurnRecord, Placed
<1>2. PICK u : u = Emptied(x)
  OBVIOUS
<1>3. /\ TurnOK(u) /\ u.nd = x.nd /\ u.self = x.self /\ u.link = x.link
      /\ u.reply = x.reply /\ u.clock = x.clock /\ u.out = x.out
      /\ u.frames["succ"] = <<>> /\ u.frames["pred"] = x.frames["pred"] /\ u \in TurnRecord
  BY <1>1, <1>2, FramesRead DEF TurnOK
<1>4. f.type = "ACK" /\ f.r = RMax /\ f.list = ListOf(Follower(n)) /\ f.r \in 1 .. RMax
  BY Bounds DEF AckOf
<1> HIDE DEF f
<1>5. SuccessorFrames(x) = <<f>> /\ <<f>> # <<>> /\ Head(<<f>>) = f /\ Tail(<<f>>) = <<>>
  BY <1>4, OneFrame DEF SuccessorFrames, f, Holds
<1>6. y = AckExpected(u, f)
  BY <1>2, <1>5 DEF SuccessorSocket, Emptied, Fetch
<1>7. CopySuccessorList(u.nd, f.list, f.r) = x.nd
  BY <1>1, <1>3, <1>4, CopyNothingNew
<1>8. PICK z : z = [u EXCEPT !.nd = nd]
  OBVIOUS
<1>9. y = Send(z, "succ", m)
  <2>1. y = Send([u EXCEPT !.nd = [CopySuccessorList(u.nd, f.list, f.r) EXCEPT
                                        !.trig = "REPLICATE", !.succ_xpv = "NO",
                                        !.status = "MEMBER"]], "succ", m)
    BY <1>3, <1>4, <1>6 DEF AckExpected, TurnRecord, Syn
  <2> HIDE DEF m
  <2> QED BY <1>7, <1>8, <2>1
<1>10. /\ nd \in Node /\ nd.pc = x.nd.pc /\ nd.temp_predecessor = x.nd.temp_predecessor
       /\ nd.trig = "REPLICATE" /\ nd.pred_trig = x.nd.pred_trig
       /\ nd.pred_xpv = x.nd.pred_xpv /\ nd.last_ttl = x.nd.last_ttl
       /\ nd.successor = x.nd.successor /\ nd.succ_xpv = "NO" /\ nd.status = "MEMBER"
  BY <1>1, Enumerated DEF Node
<1>14. Placed(n, nd)
  BY <1>1 DEF Node, Placed
<1>11. NodeOK(nd)
  BY <1>1, <1>10 DEF NodeOK
<1>12. m \in Request /\ "succ" \in Socks
  BY Requests DEF Socks, Syn
<1> HIDE DEF m, nd
<1>13. /\ TurnOK(z) /\ z.nd = nd /\ z.self = u.self /\ z.link = u.link /\ z.reply = u.reply
       /\ z.clock = u.clock /\ z.frames = u.frames /\ z.out = u.out
  BY <1>3, <1>8, <1>10, <1>11 DEF TurnOK, TurnRecord
<1>15. /\ TurnOK(y) /\ y.nd = nd /\ y.frames = z.frames /\ y.clock = z.clock
       /\ y.reply = z.reply /\ y.out = Append(z.out, [link |-> Down(n), msg |-> m])
       /\ y.self = z.self /\ y.link = z.link
  <2>1. z.nd.successor = Follower(z.self) /\ z.self = n
    BY <1>1, <1>3, <1>10, <1>13
  <2>2. PICK v : v = Send(z, "succ", m)
    OBVIOUS
  <2>3. /\ TurnOK(v) /\ v.self = z.self /\ v.link = z.link /\ v.reply = z.reply
        /\ v.nd = z.nd /\ v.clock = z.clock /\ v.frames = z.frames
        /\ v.out = Append(z.out, [link |-> Down(z.self), msg |-> m])
    BY <1>12, <1>13, <2>1, <2>2, SendDown
  <2>4. y = v
    BY <1>9, <2>2
  <2> QED BY <1>13, <2>1, <2>3, <2>4
<1>16. Onward(x, y)
  BY <1>3, <1>10, <1>13, <1>15 DEF Onward
<1> QED BY <1>3, <1>10, <1>13, <1>14, <1>15, <1>16 DEF SendsDown, m

(* An exchange begins with a ping.                                           *)
LEMMA StartTurn ==
    ASSUME NEW n, NEW revents, NEW x, Underway(n, x, revents), NEW y, y = StartStabilize(x)
    PROVE  /\ Onward(x, y) /\ Placed(n, y.nd) /\ y.nd.succ_xpv = "REQ" /\ y.nd.trig = "NO"
           /\ y.nd.pred_xpv = x.nd.pred_xpv /\ y.clock = "reset" /\ y.frames = x.frames
           /\ SendsDown(n, x, y, Ping)
<1> DEFINE nd == [x.nd EXCEPT !.succ_xpv = "REQ", !.trig = "NO"]
<1>1. TurnOK(x) /\ x.nd \in Node /\ NodeOK(x.nd) /\ x.self = n /\ x.nd.successor = Follower(n)
      /\ Placed(n, x.nd)
  BY DEF Underway, TurnOK, TurnRecord, Placed
<1>2. Ping \in Request /\ "succ" \in Socks /\ "reset" \in Clock
  BY Requests DEF Socks, Clock
<1>3. /\ nd \in Node /\ nd.pc = x.nd.pc /\ nd.temp_predecessor = x.nd.temp_predecessor
      /\ nd.trig = "NO" /\ nd.pred_trig = x.nd.pred_trig
      /\ nd.pred_xpv = x.nd.pred_xpv /\ nd.last_ttl = x.nd.last_ttl /\ nd.succ_xpv = "REQ"
  BY <1>1, Enumerated DEF Node
<1>10. Placed(n, nd)
  BY <1>1 DEF Node, Placed
<1>4. NodeOK(nd)
  BY <1>1, <1>3 DEF NodeOK
<1>5. PICK z : z = Send(x, "succ", Ping)
  OBVIOUS
<1>6. /\ TurnOK(z) /\ z.self = x.self /\ z.link = x.link /\ z.reply = x.reply
      /\ z.nd = x.nd /\ z.frames = x.frames
      /\ z.out = Append(x.out, [link |-> Down(n), msg |-> Ping])
  BY <1>1, <1>2, <1>5, SendDown
<1>7. y = [z EXCEPT !.nd = nd, !.clock = "reset"]
  BY <1>5, <1>6 DEF StartStabilize, TurnOK, TurnRecord
<1> HIDE DEF nd
<1>9. PICK c : c = "reset"
  OBVIOUS
<1>11. /\ TurnOK(y) /\ y.self = x.self /\ y.link = x.link /\ y.reply = x.reply
       /\ y.nd = nd /\ y.clock = c /\ y.frames = x.frames
       /\ y.out = Append(x.out, [link |-> Down(n), msg |-> Ping])
  BY <1>2, <1>4, <1>6, <1>7, <1>9 DEF TurnOK, TurnRecord, NodeOK
<1>12. Onward(x, y)
  BY <1>3, <1>11 DEF Onward
<1> QED BY <1>3, <1>9, <1>10, <1>11, <1>12 DEF SendsDown

-------------------------------------------------------------------------------
(* The successor's part of a turn *)

(* No wait runs out with effect.                                             *)
LEMMA LateGood ==
    ASSUME Types, Good, NEW n \in Nodes, NEW late \in Lateness(n)
    PROVE  "succ" \notin late /\ ("pred" \in late => node[n].pred_xpv = "NO")
<1>1. IdleLate(node[n]) \subseteq {"pred"}
  BY DEF IdleLate
<1>2. "pred" \in IdleLate(node[n]) => node[n].pred_xpv = "NO"
  BY DEF IdleLate, Good, InStep, Awaited
<1>3. late \subseteq (IF Quiet THEN Waits(node[n]) ELSE {}) \cup IdleLate(node[n])
  BY DEF Lateness
<1>4. Quiet => Waits(node[n]) = {}
  BY QuietClean
<1>5. late \subseteq IdleLate(node[n])
  BY <1>3, <1>4
<1> QED BY <1>1, <1>2, <1>5

LEMMA DownCarries ==
    ASSUME NEW n \in Nodes, NEW m PROVE Carried(Down(n), <<m>>)
<1>1. Down(n)[1] = n /\ Down(n)[2] = "succ" /\ Down(n)[3] = Follower(n) /\ "succ" # "pred"
  BY DEF Down
<1> QED BY <1>1 DEF Carried

(* What a turn has to be like for its end.                                   *)
Orderly(y, revents) ==
    /\ y.nd.trig \in {"NO", "RELAY", "REPLICATE"}
    /\ y.nd.succ_xpv = "NO" /\ y.nd.status = "HANDLING_STABILIZE"
         => y.nd.temp_predecessor # None
    /\ y.clock = "due" => /\ y.nd.status = "HANDLING_STABILIZE"
                          /\ "server" \in revents /\ "succ" \notin revents

(* The exchange of n after the turn y, with q on the way to the successor.   *)
Continued(n, y, q) ==
    Exchange(n, y.nd.succ_xpv, y.frames["succ"], q, node[Follower(n)].temp_predecessor, y.clock)

(* A message to the successor that takes the exchange on.                    *)
LEMMA DownUnderway ==
    ASSUME Live = Nodes, MaxPings > 0, NEW n \in Nodes, NEW revents, NEW x,
           Underway(n, x, revents), Len(x.out) <= 3, NEW m \in Request,
           NEW y, Onward(x, y), SendsDown(n, x, y, m),
           y.frames["pred"] = x.frames["pred"], y.nd.pred_xpv = x.nd.pred_xpv,
           Placed(n, y.nd), NEW q, q = Sent(x)[Down(n)], m = Ping => OnlyTokens(q),
           Continued(n, y, Append(q, m)), Orderly(y, revents)
    PROVE  Underway(n, y, revents) /\ Len(y.out) = Len(x.out) + 1
<1>1. y.link = x.link
  BY DEF Onward
<1>2. PICK l : l = Down(n)
  OBVIOUS
<1>3. Carried(l, <<m>>) /\ l \in {Down(n), Up(n)} /\ y.out = Append(x.out, [link |-> l, msg |-> m])
  BY <1>2, DownCarries DEF SendsDown
<1>4. /\ Sent(y) \in [Links -> Seq(Request)]
      /\ \A k \in Links : Carried(k, Sent(y)[k])
      /\ \A k \in Links : k[1] # n => Sent(y)[k] = Without(wire, y.link)[k]
      /\ l = Down(n) => Sent(y)[Up(n)] = Sent(x)[Up(n)]
      /\ \/ Sent(y)[l] = Append(Sent(x)[l], m)
         \/ m = Ping /\ Sent(y)[l] = Sent(x)[l] /\ ~OnlyTokens(Sent(x)[l])
  BY <1>1, <1>3, SentOn, SMTT(30)
<1>5. Sent(y)[Up(n)] = Sent(x)[Up(n)] /\ Sent(y)[Down(n)] = Append(q, m)
  BY <1>2, <1>4
<1>6. Awaited(y.nd.pred_xpv, Sent(y)[Up(n)], y.frames["pred"])
  BY <1>5 DEF Underway
<1>7. Exchange(n, y.nd.succ_xpv, y.frames["succ"], Sent(y)[Down(n)],
               node[Follower(n)].temp_predecessor, y.clock)
  BY <1>5, Zenon DEF Continued
<1>8. Underway(n, y, revents)
  BY <1>4, <1>6, <1>7, UnderwayAfter DEF Orderly
<1>9. x.out \in Seq(Sending) /\ [link |-> Down(n), msg |-> m] \in Sending
  <2>1. Down(n) \in Links
    BY LinksOf DEF Down
  <2> QED BY <2>1 DEF Underway, TurnOK, TurnRecord, Sending, Links, Targets
<1>10. Len(y.out) = Len(x.out) + 1
  BY <1>9, AppendProperties DEF SendsDown
<1> QED BY <1>8, <1>10

Unsent(x) == x.out = <<>>

LEMMA NothingSent == ASSUME NEW x, Unsent(x) PROVE Len(x.out) = 0 /\ Len(x.out) <= 3
  BY DEF Unsent

(* The end of the successor's part: nothing is left to be begun.             *)
Onto(n, x, y, revents) ==
    /\ Underway(n, y, revents) /\ y.nd.trig # "STABILIZE"
    /\ y.nd.pred_xpv = x.nd.pred_xpv /\ y.frames["pred"] = x.frames["pred"]
    /\ Len(y.out) <= 1

LEMMA PongUnderway ==
    ASSUME Live = Nodes, MaxPings > 0, NEW n \in Nodes, NEW revents, NEW x,
           Underway(n, x, revents), Unsent(x), x.nd.succ_xpv = "REQ",
           Holds(x, Pong), NEW y, y = Fetch(x)
    PROVE  Onto(n, x, y, revents)
<1>1. /\ Onward(x, y) /\ y.clock = x.clock /\ Placed(n, y.nd)
      /\ y.nd.succ_xpv = "ACK" /\ y.nd.trig = x.nd.trig /\ y.nd.pred_xpv = x.nd.pred_xpv
      /\ y.frames["succ"] = <<>> /\ y.frames["pred"] = x.frames["pred"]
      /\ SendsDown(n, x, y, StabilizeRequest)
  BY PongTurn
<1>2. PICK m : m = StabilizeRequest
  OBVIOUS
<1>3. m \in Request /\ m.type = "STABILIZE_REQ" /\ m # Ping
  BY <1>2, Requests DEF Ping, StabilizeRequest, Syn
<1>4. PICK q, t : q = Sent(x)[Down(n)] /\ t = node[Follower(n)].temp_predecessor
  OBVIOUS
<1>5. /\ Exchange(n, x.nd.succ_xpv, x.frames["succ"], q, t, x.clock) /\ Placed(n, x.nd)
      /\ x.nd \in Node /\ x.nd.trig \in {"NO", "RELAY", "REPLICATE", "STABILIZE"}
      /\ x.nd.trig = "STABILIZE" => x.clock = "due"
      /\ q \in Seq(Request)
  <2>1. Down(n) \in Links
    BY LinksOf DEF Down
  <2> QED BY <1>4, <2>1 DEF Underway, TurnOK, TurnRecord
<1>6. OnlyTokens(q) /\ t # n /\ x.clock = "reset"
  BY <1>5 DEF Exchange, Holds
<1>7. Only(Append(q, m), "STABILIZE_REQ")
  BY <1>3, <1>5, <1>6, QueueAppend
<1>8. Orderly(y, revents)
  BY <1>1, <1>5, <1>6 DEF Orderly
<1>9. Continued(n, y, Append(q, m))
  BY <1>1, <1>4, <1>6, <1>7 DEF Exchange, Continued
<1>12. /\ Len(x.out) = 0 /\ Len(x.out) <= 3 /\ SendsDown(n, x, y, m)
       /\ m = Ping => OnlyTokens(q)
       /\ Onward(x, y) /\ Placed(n, y.nd) /\ y.nd.pred_xpv = x.nd.pred_xpv
       /\ y.frames["pred"] = x.frames["pred"] /\ q = Sent(x)[Down(n)]
  BY <1>1, <1>2, <1>3, <1>4, <1>6, NothingSent
<1>11. Underway(n, y, revents) /\ Len(y.out) = Len(x.out) + 1
  BY <1>3, <1>8, <1>9, <1>12, DownUnderway, ZenonT(30)
<1> QED BY <1>1, <1>5, <1>6, <1>8, <1>11, <1>12 DEF Onto

LEMMA AckUnderway ==
    ASSUME Live = Nodes, MaxPings > 0, NEW n \in Nodes, NEW revents, NEW x,
           Underway(n, x, revents), Unsent(x), x.nd.succ_xpv = "ACK",
           Holds(x, AckOf(Follower(n))), NEW y, y = Fetch(x)
    PROVE  Onto(n, x, y, revents)
<1>1. /\ Onward(x, y) /\ y.clock = x.clock
      /\ Placed(n, y.nd) /\ y.nd.succ_xpv = "NO" /\ y.nd.trig = "REPLICATE"
      /\ y.nd.status = "MEMBER" /\ y.nd.pred_xpv = x.nd.pred_xpv
      /\ y.frames["succ"] = <<>> /\ y.frames["pred"] = x.frames["pred"]
      /\ SendsDown(n, x, y, Syn)
  BY AckTurn
<1>2. PICK m : m = Syn
  OBVIOUS
<1>3. m \in Request /\ m.type = "SYN" /\ m # Ping
  BY <1>2, Requests DEF Ping, StabilizeRequest, Syn
<1>4. PICK q, t : q = Sent(x)[Down(n)] /\ t = node[Follower(n)].temp_predecessor
  OBVIOUS
<1>5. /\ Exchange(n, x.nd.succ_xpv, x.frames["succ"], q, t, x.clock) /\ Placed(n, x.nd)
      /\ x.nd \in Node /\ q \in Seq(Request)
  <2>1. Down(n) \in Links
    BY LinksOf DEF Down
  <2> QED BY <1>4, <2>1 DEF Underway, TurnOK, TurnRecord
<1>6. OnlyTokens(q) /\ t = n /\ x.clock = "reset"
  BY <1>5 DEF Exchange, Holds
<1>7. Only(Append(q, m), "SYN")
  BY <1>3, <1>5, <1>6, QueueAppend
<1>8. Orderly(y, revents)
  BY <1>1, <1>5, <1>6 DEF Orderly
<1>9. Continued(n, y, Append(q, m))
  BY <1>1, <1>4, <1>6, <1>7 DEF Exchange, Continued
<1>12. /\ Len(x.out) = 0 /\ Len(x.out) <= 3 /\ SendsDown(n, x, y, m)
       /\ m = Ping => OnlyTokens(q)
       /\ Onward(x, y) /\ Placed(n, y.nd) /\ y.nd.pred_xpv = x.nd.pred_xpv
       /\ y.frames["pred"] = x.frames["pred"] /\ q = Sent(x)[Down(n)]
  BY <1>1, <1>2, <1>3, <1>4, <1>6, NothingSent
<1>11. Underway(n, y, revents) /\ Len(y.out) = Len(x.out) + 1
  BY <1>3, <1>8, <1>9, <1>12, DownUnderway, ZenonT(30)
<1> QED BY <1>1, <1>8, <1>11, <1>12 DEF Onto

LEMMA StartUnderway ==
    ASSUME Live = Nodes, MaxPings > 0, NEW n \in Nodes, NEW revents, NEW x,
           Underway(n, x, revents), Unsent(x), x.nd.trig = "STABILIZE",
           NEW y, y = StartStabilize(x)
    PROVE  Onto(n, x, y, revents)
<1>1. /\ Onward(x, y) /\ Placed(n, y.nd) /\ y.nd.succ_xpv = "REQ" /\ y.nd.trig = "NO"
      /\ y.nd.pred_xpv = x.nd.pred_xpv /\ y.clock = "reset" /\ y.frames = x.frames
      /\ SendsDown(n, x, y, Ping)
  BY StartTurn
<1>2. PICK m : m = Ping
  OBVIOUS
<1>3. m \in Request /\ m.type = "PING"
  BY <1>2, Requests DEF Ping, StabilizeRequest, Syn
<1>4. PICK q, t : q = Sent(x)[Down(n)] /\ t = node[Follower(n)].temp_predecessor
  OBVIOUS
<1>5. /\ Exchange(n, x.nd.succ_xpv, x.frames["succ"], q, t, x.clock) /\ Placed(n, x.nd)
      /\ x.nd \in Node /\ q \in Seq(Request) /\ x.clock = "due"
  <2>1. Down(n) \in Links
    BY LinksOf DEF Down
  <2> QED BY <1>4, <2>1 DEF Underway, TurnOK, TurnRecord
<1>6. OnlyTokens(q) /\ t # n /\ x.frames["succ"] = <<>>
  BY <1>5 DEF Exchange
<1>7. Only(Append(q, m), "PING")
  BY <1>3, <1>5, <1>6, QueueAppend
<1>8. Orderly(y, revents)
  BY <1>1, <1>5, <1>6 DEF Orderly
<1>9. Continued(n, y, Append(q, m))
  BY <1>1, <1>4, <1>6, <1>7 DEF Exchange, Continued
<1>12. /\ Len(x.out) = 0 /\ Len(x.out) <= 3 /\ SendsDown(n, x, y, m)
       /\ m = Ping => OnlyTokens(q)
       /\ Onward(x, y) /\ Placed(n, y.nd) /\ y.nd.pred_xpv = x.nd.pred_xpv
       /\ y.frames["pred"] = x.frames["pred"] /\ q = Sent(x)[Down(n)]
  BY <1>1, <1>2, <1>3, <1>4, <1>6, NothingSent
<1>11. Underway(n, y, revents) /\ Len(y.out) = Len(x.out) + 1
  BY <1>3, <1>8, <1>9, <1>12, DownUnderway, ZenonT(30)
<1> QED BY <1>1, <1>8, <1>11, <1>12 DEF Onto

Polls(x, revents) == SuccessorSocket(x, "succ" \in revents, FALSE)

LEMMA SuccessorUnderway ==
    ASSUME Live = Nodes, MaxPings > 0, NEW n \in Nodes, NEW revents, Polled(n, revents), NEW x,
           Underway(n, x, revents), x.frames = frames[n], Unsent(x),
           NEW y, y = Polls(x, revents)
    PROVE  Onto(n, x, y, revents)
<1>1. PICK f, q, t : /\ f = x.frames["succ"] /\ q = Sent(x)[Down(n)]
                     /\ t = node[Follower(n)].temp_predecessor
  OBVIOUS
<1>2. Exchange(n, x.nd.succ_xpv, f, q, t, x.clock)
  BY <1>1 DEF Underway
<1>3. CASE "succ" \in revents
  <2>1. f # <<>>
    BY <1>1, <1>3 DEF Polled
  <2>2. \/ x.nd.succ_xpv = "REQ" /\ Holds(x, Pong)
        \/ x.nd.succ_xpv = "ACK" /\ Holds(x, AckOf(Follower(n)))
    BY <1>1, <1>2, <2>1 DEF Exchange, Holds
  <2>3. y = Fetch(x)
    BY <1>3 DEF Fetch, Polls
  <2> QED BY <2>2, <2>3, PongUnderway, AckUnderway
<1>4. CASE "succ" \notin revents
  <2>1. x.nd.succ_xpv # "FAILURE"
    BY <1>2 DEF Exchange
  <2>2. CASE x.nd.trig = "STABILIZE"
    <3>1. y = StartStabilize(x)
      BY <1>4, <2>1, <2>2 DEF SuccessorSocket, Polls
    <3> QED BY <2>2, <3>1, StartUnderway
  <2>3. CASE x.nd.trig # "STABILIZE"
    <3>1. y = x
      BY <1>4, <2>1, <2>3 DEF SuccessorSocket, Polls
    <3> QED BY <2>3, <3>1, NothingSent DEF Onto
  <2> QED BY <2>2, <2>3
<1> QED BY <1>3, <1>4

(* Whose turn has nothing left to begin is orderly.                          *)
LEMMA UnderwayOrderly ==
    ASSUME NEW n, NEW x, NEW revents, Underway(n, x, revents), x.nd.trig # "STABILIZE"
    PROVE  Orderly(x, revents)
  BY DEF Underway, Orderly

(* A turn with another node, and what else of a turn there is to keep.       *)
WithNode(x, nd) == [x EXCEPT !.nd = nd]
Rest(x, y) ==
    /\ y.self = x.self /\ y.link = x.link /\ y.reply = x.reply
    /\ y.clock = x.clock /\ y.frames = x.frames

LEMMA WithNodeOK ==
    ASSUME NEW x, TurnOK(x), NEW nd, NodeOK(nd)
    PROVE  LET y == WithNode(x, nd)
           IN TurnOK(y) /\ Rest(x, y) /\ y.nd = nd /\ y.out = x.out
  BY DEF TurnOK, NodeOK, TurnRecord, WithNode, Rest

(* The token goes out with what is on its way to the successor.              *)
LEMMA TokenUnderway ==
    ASSUME Live = Nodes, MaxPings > 0, NEW n \in Nodes, NEW revents, NEW x,
           Underway(n, x, revents), x.nd.trig # "STABILIZE", Len(x.out) <= 1,
           NEW y, y = SendToken(x)
    PROVE  /\ Underway(n, y, revents) /\ y.nd.trig # "STABILIZE" /\ Len(y.out) <= 2
           /\ y.nd.pred_xpv = x.nd.pred_xpv /\ y.frames = x.frames
<1>1. /\ TurnOK(x) /\ x.nd \in Node /\ NodeOK(x.nd) /\ x.self = n
      /\ x.nd.successor = Follower(n) /\ Placed(n, x.nd) /\ x.nd.pc = "poll"
      /\ Len(x.out) \in Nat
  <2>1. x.out \in Seq(Sending)
    BY DEF Underway, TurnOK, TurnRecord
  <2> QED BY <2>1, LenProperties DEF Underway, TurnOK, TurnRecord, Placed
<1>2. CASE x.nd.send_token = None
  <2>1. y = x
    BY <1>2 DEF SendToken
  <2> QED BY <1>1, <2>1
<1>3. CASE x.nd.send_token # None
  <2> DEFINE nd == [x.nd EXCEPT !.send_token = None]
  <2>1. PICK m : m = [type |-> "TOKEN", token |-> x.nd.send_token]
    OBVIOUS
  <2>2. m \in Request /\ m.type = "TOKEN" /\ m # Ping
    <3>1. x.nd.send_token \in Tokens
      BY <1>1, <1>3 DEF Node
    <3> QED BY <2>1, <3>1, Requests DEF Ping
  <2>3. PICK z : z = Send(x, "succ", m)
    OBVIOUS
  <2>4. /\ TurnOK(z) /\ z.self = x.self /\ z.link = x.link /\ z.reply = x.reply
        /\ z.nd = x.nd /\ z.clock = x.clock /\ z.frames = x.frames
        /\ z.out = Append(x.out, [link |-> Down(x.self), msg |-> m])
    BY <1>1, <2>2, <2>3, SendDown
  <2>5. y = WithNode(z, nd)
    <3>1. y = [z EXCEPT !.nd.send_token = None]
      BY <1>1, <1>3, <2>1, <2>3 DEF SendToken
    <3> QED BY <2>4, <3>1 DEF TurnOK, TurnRecord, WithNode
  <2>6. /\ NodeOK(nd) /\ Placed(n, nd) /\ nd.trig = x.nd.trig /\ nd.pred_xpv = x.nd.pred_xpv
        /\ nd.succ_xpv = x.nd.succ_xpv /\ nd.status = x.nd.status /\ nd.pc = x.nd.pc
        /\ nd.temp_predecessor = x.nd.temp_predecessor
    BY <1>1 DEF NodeOK, Node, Placed
  <2> HIDE DEF nd
  <2>7. TurnOK(y) /\ Rest(z, y) /\ y.nd = nd /\ y.out = z.out
    BY <2>4, <2>5, <2>6, WithNodeOK
  <2>8. Onward(x, y) /\ y.clock = x.clock /\ y.frames = x.frames /\ SendsDown(n, x, y, m)
    BY <1>1, <2>4, <2>6, <2>7 DEF Onward, Rest, SendsDown
  <2>9. Orderly(y, revents)
    <3>1. Orderly(x, revents)
      BY UnderwayOrderly
    <3> QED BY <2>6, <2>7, <2>8, <3>1 DEF Orderly
  <2>10. PICK q : q = Sent(x)[Down(n)]
    OBVIOUS
  <2>11. q \in Seq(Request)
    <3>1. Down(n) \in Links
      BY LinksOf DEF Down
    <3> QED BY <2>10, <3>1 DEF Underway
  <2>12. Continued(n, y, Append(q, m))
    <3>1. /\ OnlyTokens(q) => OnlyTokens(Append(q, m))
          /\ \A t : Only(q, t) => Only(Append(q, m), t)
      BY <2>2, <2>11, QueueAppend
    <3>2. PICK p : p = Append(q, m)
      OBVIOUS
    <3>3. Continued(n, x, q)
      BY <2>10 DEF Underway, Continued
    <3>4. /\ OnlyTokens(q) => OnlyTokens(p)
          /\ Only(q, "PING") => Only(p, "PING")
          /\ Only(q, "STABILIZE_REQ") => Only(p, "STABILIZE_REQ")
          /\ Only(q, "SYN") => Only(p, "SYN")
      BY <3>1, <3>2
    <3>5. Continued(n, x, p)
      BY <3>3, <3>4 DEF Continued, Exchange
    <3> QED BY <2>6, <2>7, <2>8, <3>2, <3>5 DEF Continued
  <2>13. /\ Len(x.out) <= 3 /\ SendsDown(n, x, y, m)
         /\ m = Ping => OnlyTokens(q)
         /\ Onward(x, y) /\ Placed(n, y.nd) /\ y.nd.pred_xpv = x.nd.pred_xpv
         /\ y.frames["pred"] = x.frames["pred"] /\ q = Sent(x)[Down(n)]
    BY <1>1, <2>2, <2>6, <2>7, <2>8, <2>10
  <2>14. Underway(n, y, revents) /\ Len(y.out) = Len(x.out) + 1
    BY <2>2, <2>9, <2>12, <2>13, DownUnderway
  <2> QED BY <1>1, <2>6, <2>7, <2>8, <2>14
<1> QED BY <1>2, <1>3

-------------------------------------------------------------------------------
(* The predecessor's part of a turn *)

SendsUp(n, x, y, m) == y.out = Append(x.out, [link |-> Up(n), msg |-> m])

(* A message to the predecessor, whose answer is awaited then.               *)
LEMMA UpUnderway ==
    ASSUME Live = Nodes, MaxPings > 0, NEW n \in Nodes, NEW revents, NEW x,
           Underway(n, x, revents), Len(x.out) <= 3, NEW m \in Request, Carried(Up(n), <<m>>),
           NEW y, Onward(x, y), SendsUp(n, x, y, m),
           y.frames["succ"] = x.frames["succ"], y.clock = x.clock,
           y.nd.succ_xpv = x.nd.succ_xpv, y.nd.pred_xpv \in {"PING1", "REPLICATE", "RELAY"},
           Placed(n, y.nd), Orderly(y, revents)
    PROVE  Underway(n, y, revents)
<1>1. y.link = x.link
  BY DEF Onward
<1>2. PICK l : l = Up(n)
  OBVIOUS
<1>3. Carried(l, <<m>>) /\ l \in {Down(n), Up(n)} /\ y.out = Append(x.out, [link |-> l, msg |-> m])
  BY <1>2 DEF SendsUp
<1>4. /\ Sent(y) \in [Links -> Seq(Request)]
      /\ \A k \in Links : Carried(k, Sent(y)[k])
      /\ \A k \in Links : k[1] # n => Sent(y)[k] = Without(wire, y.link)[k]
      /\ l = Up(n) => Sent(y)[Down(n)] = Sent(x)[Down(n)] /\ Sent(y)[Up(n)] # <<>>
  BY <1>1, <1>3, SentOn
<1>5. Sent(y)[Down(n)] = Sent(x)[Down(n)] /\ Sent(y)[Up(n)] # <<>>
  BY <1>2, <1>4
<1>6. Awaited(y.nd.pred_xpv, Sent(y)[Up(n)], y.frames["pred"])
  BY <1>5 DEF Awaited
<1>7. Exchange(n, y.nd.succ_xpv, y.frames["succ"], Sent(y)[Down(n)],
               node[Follower(n)].temp_predecessor, y.clock)
  BY <1>5 DEF Underway
<1> QED BY <1>4, <1>6, <1>7, UnderwayAfter DEF Orderly

(* Nothing is sent.                                                          *)
LEMMA StillUnderway ==
    ASSUME NEW n \in Nodes, NEW revents, NEW x, Underway(n, x, revents),
           NEW y, Onward(x, y), y.out = x.out,
           y.frames["succ"] = x.frames["succ"], y.clock = x.clock,
           y.nd.succ_xpv = x.nd.succ_xpv,
           Awaited(y.nd.pred_xpv, Sent(x)[Up(n)], y.frames["pred"]),
           Placed(n, y.nd), Orderly(y, revents)
    PROVE  Underway(n, y, revents)
<1>1. Sent(y) = Sent(x) /\ y.link = x.link
  BY DEF Sent, Onward
<1>2. /\ Sent(y) \in [Links -> Seq(Request)]
      /\ \A k \in Links : Carried(k, Sent(y)[k])
      /\ \A k \in Links : k[1] # n => Sent(y)[k] = Without(wire, y.link)[k]
      /\ Awaited(y.nd.pred_xpv, Sent(y)[Up(n)], y.frames["pred"])
      /\ Exchange(n, y.nd.succ_xpv, y.frames["succ"], Sent(y)[Down(n)],
                  node[Follower(n)].temp_predecessor, y.clock)
  BY <1>1 DEF Underway
<1> QED BY <1>2, UnderwayAfter DEF Orderly

(* What a node says of its predecessor's socket, and of what is to be done.  *)
PredSet(a, t, v, g) == [a EXCEPT !.pred_trig = t, !.pred_xpv = v, !.trig = g]

(* Node b is node a but for that.                                            *)
Save(a, b) ==
    /\ b.pc = a.pc /\ b.status = a.status /\ b.succ_xpv = a.succ_xpv
    /\ b.temp_predecessor = a.temp_predecessor /\ b.last_ttl = a.last_ttl

LEMMA PredSetOK ==
    ASSUME NEW n, NEW a, NodeOK(a), Placed(n, a), NEW t \in {"NO", "REPLICATE", "RELAY"},
           NEW v \in PredXpv, NEW g \in Triggers, "RELAY" \in {t, v, g} => a.last_ttl # 0
    PROVE  LET b == PredSet(a, t, v, g)
           IN /\ NodeOK(b) /\ Placed(n, b) /\ Save(a, b)
              /\ b.pred_trig = t /\ b.pred_xpv = v /\ b.trig = g
<1> DEFINE b == PredSet(a, t, v, g)
<1>1. a \in Node
  BY DEF NodeOK
<1>2. b \in Node
  BY <1>1 DEF Node, PredSet
<1>3. b.pred_trig = t /\ b.pred_xpv = v /\ b.trig = g /\ Save(a, b)
  BY <1>1 DEF Node, PredSet, Save
<1>4. Placed(n, b)
  BY <1>1 DEF Node, PredSet, Placed
<1> HIDE DEF b
<1>5. NodeOK(b)
  BY <1>2, <1>3 DEF NodeOK, Save
<1> QED BY <1>3, <1>4, <1>5 DEF b

LEMMA Words ==
    /\ "NO" \in Triggers /\ "NO" \in PredXpv /\ "PING1" \in PredXpv
    /\ "REPLICATE" \in PredXpv /\ "RELAY" \in PredXpv
    /\ "NO" \in {"NO", "REPLICATE", "RELAY"}
  BY DEF Triggers, PredXpv

(* The turn y is the turn x with another node, or a message m more.          *)
LEMMA SendUpOK ==
    ASSUME NEW n, NEW x, TurnOK(x), x.self = n, Placed(n, x.nd), NEW m \in Request
    PROVE  LET z == Send(x, "pred", m)
           IN TurnOK(z) /\ Rest(x, z) /\ z.nd = x.nd /\ SendsUp(n, x, z, m)
<1>1. x.nd.predecessor = Leader(x.self)
  BY DEF Placed
<1> QED BY <1>1, SendUp DEF Rest, SendsUp

LEMMA CarriedUp ==
    ASSUME NEW n \in Nodes
    PROVE  /\ Carried(Up(n), <<Ping>>)
           /\ \A nd, ttl : Placed(n, nd) => Carried(Up(n), <<SyncSlistOf(nd, ttl)>>)
<1>1. Up(n)[1] = n /\ Up(n)[2] = "pred" /\ Up(n)[3] = Leader(n) /\ "succ" # "pred"
  BY DEF Up
<1>2. ASSUME NEW m, m.type \in {"PING", "SYNC_SLIST"},
             m.type = "SYNC_SLIST" => m.r = RMax /\ m.list = ListOf(n)
      PROVE  Carried(Up(n), <<m>>)
  BY <1>1, <1>2 DEF Carried
<1>3. Carried(Up(n), <<Ping>>)
  <2>1. Ping.type \in {"PING", "SYNC_SLIST"} /\ Ping.type # "SYNC_SLIST"
    BY DEF Ping
  <2> QED BY <1>2, <2>1
<1>4. ASSUME NEW nd, NEW ttl, Placed(n, nd) PROVE Carried(Up(n), <<SyncSlistOf(nd, ttl)>>)
  <2>1. /\ SyncSlistOf(nd, ttl).type = "SYNC_SLIST" /\ SyncSlistOf(nd, ttl).r = RMax
        /\ SyncSlistOf(nd, ttl).list = ListOf(n)
    BY <1>4 DEF SyncSlistOf, Placed
  <2> QED BY <1>2, <2>1
<1> QED BY <1>3, <1>4

(* The predecessor is pinged.                                                *)
LEMMA PingUnderway ==
    ASSUME Live = Nodes, MaxPings > 0, NEW n \in Nodes, NEW revents, NEW x,
           Underway(n, x, revents), x.nd.trig # "STABILIZE", Len(x.out) <= 3,
           NEW t \in {"REPLICATE", "RELAY"}, x.nd.trig = t,
           NEW y, y = PingPredecessor(x, t)
    PROVE  Underway(n, y, revents) /\ y.nd.trig = "NO"
<1>1. /\ TurnOK(x) /\ x.nd \in Node /\ NodeOK(x.nd) /\ x.self = n /\ Placed(n, x.nd)
  BY DEF Underway, TurnOK, TurnRecord
<1>2. PICK v, g : v = "PING1" /\ g = "NO"
  OBVIOUS
<1>3. PICK nd : nd = PredSet(x.nd, t, v, g)
  OBVIOUS
<1>4. /\ NodeOK(nd) /\ Placed(n, nd) /\ Save(x.nd, nd)
      /\ nd.pred_trig = t /\ nd.pred_xpv = v /\ nd.trig = g
  <2>1. "RELAY" \in {t, v, g} => x.nd.last_ttl # 0
    BY <1>1, <1>2 DEF NodeOK
  <2>2. t \in {"NO", "REPLICATE", "RELAY"} /\ v \in PredXpv /\ g \in Triggers
    BY <1>2, Words
  <2> QED BY <1>1, <1>3, <2>1, <2>2, PredSetOK
<1>5. PICK m, z : m = Ping /\ z = Send(x, "pred", m)
  OBVIOUS
<1>6. m \in Request /\ Carried(Up(n), <<m>>)
  BY <1>5, Requests, CarriedUp
<1>7. TurnOK(z) /\ Rest(x, z) /\ z.nd = x.nd /\ SendsUp(n, x, z, m)
  BY <1>1, <1>5, <1>6, SendUpOK
<1>8. y = WithNode(z, nd)
  BY <1>2, <1>3, <1>5, <1>7 DEF PingPredecessor, TurnOK, TurnRecord, WithNode, PredSet
<1>9. TurnOK(y) /\ Rest(z, y) /\ y.nd = nd /\ y.out = z.out
  BY <1>4, <1>7, <1>8, WithNodeOK
<1>10. /\ Onward(x, y) /\ SendsUp(n, x, y, m) /\ y.clock = x.clock /\ y.frames = x.frames
       /\ y.nd.succ_xpv = x.nd.succ_xpv
  BY <1>4, <1>7, <1>9 DEF Onward, Rest, SendsUp, Save
<1>11. Orderly(y, revents)
  <2>1. Orderly(x, revents)
    BY UnderwayOrderly
  <2> QED BY <1>2, <1>4, <1>9, <1>10, <2>1 DEF Orderly, Save
<1>12. y.nd.pred_xpv \in {"PING1", "REPLICATE", "RELAY"} /\ Placed(n, y.nd) /\ y.nd.trig = "NO"
  BY <1>2, <1>4, <1>9
<1>13. y.frames["succ"] = x.frames["succ"]
  BY <1>10
<1> QED BY <1>6, <1>10, <1>11, <1>12, <1>13, UpUnderway

(* The predecessor has answered a ping.                                      *)
LEMMA AliveTurn ==
    ASSUME NEW n \in Nodes, NEW x, TurnOK(x), x.self = n, Placed(n, x.nd),
           NEW y, y = PredecessorAlive(x)
    PROVE  /\ TurnOK(y) /\ Placed(n, y.nd) /\ Rest(x, y) /\ Save(x.nd, y.nd)
           /\ y.nd.trig \in {x.nd.trig, "NO"}
           /\ \/ y.out = x.out /\ y.nd.pred_xpv = "NO"
              \/ /\ y.nd.pred_xpv \in {"REPLICATE", "RELAY"}
                 /\ \E m \in Request : Carried(Up(n), <<m>>) /\ SendsUp(n, x, y, m)
<1>1. x \in TurnRecord /\ x.nd \in Node /\ NodeOK(x.nd)
  BY DEF TurnOK, TurnRecord
<1>2. PICK a, t, v, g : a = x.nd /\ t = "NO" /\ v = a.pred_trig /\ g = a.trig
  OBVIOUS
<1>3. PICK b, w : b = PredSet(a, t, v, g) /\ w = WithNode(x, b)
  OBVIOUS
<1>4. v \in {"NO", "REPLICATE", "RELAY"} /\ v \in PredXpv /\ g \in Triggers
      /\ t \in {"NO", "REPLICATE", "RELAY"} /\ ("RELAY" \in {t, v, g} => a.last_ttl # 0)
  <2>1. v \in {"NO", "REPLICATE", "RELAY"}
    BY <1>2 DEF Placed
  <2>2. g \in Triggers /\ ("RELAY" \in {t, v, g} => a.last_ttl # 0)
    BY <1>1, <1>2 DEF Node, NodeOK
  <2>3. v \in PredXpv
    BY <2>1 DEF PredXpv
  <2> QED BY <1>2, <2>1, <2>2, <2>3, Words
<1>5. /\ NodeOK(b) /\ Placed(n, b) /\ Save(a, b)
      /\ b.pred_trig = t /\ b.pred_xpv = v /\ b.trig = g /\ b \in Node
  BY <1>1, <1>2, <1>3, <1>4, PredSetOK DEF NodeOK
<1>6. TurnOK(w) /\ Rest(x, w) /\ w.nd = b /\ w.out = x.out /\ w.self = n
  BY <1>3, <1>5, WithNodeOK DEF Rest
<1>7. w = [x EXCEPT !.nd.pred_trig = "NO", !.nd.pred_xpv = x.nd.pred_trig]
  <2>1. b = [a EXCEPT !.pred_trig = t, !.pred_xpv = v]
    BY <1>1, <1>2, <1>3 DEF PredSet, Node
  <2> QED BY <1>1, <1>2, <1>3, <2>1 DEF TurnRecord, WithNode
<1>8. /\ v = "REPLICATE" => y = Send(w, "pred", SyncSlistOf(a, RMax))
      /\ v = "RELAY" => y = [Send(w, "pred", SyncSlistOf(a, a.last_ttl)) EXCEPT !.nd.trig = "NO"]
      /\ v = "NO" => y = w
  BY <1>2, <1>7 DEF PredecessorAlive
<1>9. CASE v = "NO"
  BY <1>2, <1>5, <1>6, <1>8, <1>9
<1>10. CASE v = "REPLICATE"
  <2>1. PICK k, m : k = RMax /\ m = SyncSlistOf(a, k)
    OBVIOUS
  <2>2. m \in Request /\ Carried(Up(n), <<m>>)
    BY <1>1, <1>2, <2>1, Bounds, SyncSlistSent, CarriedUp
  <2>3. y = Send(w, "pred", m)
    BY <1>8, <1>10, <2>1
  <2>4. TurnOK(y) /\ Rest(w, y) /\ y.nd = w.nd /\ SendsUp(n, w, y, m)
    BY <1>5, <1>6, <2>2, <2>3, SendUpOK
  <2> QED BY <1>2, <1>5, <1>6, <1>10, <2>2, <2>4 DEF Rest, SendsUp
<1>11. CASE v = "RELAY"
  <2>1. PICK k, m, z : k = a.last_ttl /\ m = SyncSlistOf(a, k) /\ z = Send(w, "pred", m)
    OBVIOUS
  <2>2. m \in Request /\ Carried(Up(n), <<m>>)
    <3>1. k \in 1 .. RMax
      <4>1. k \in 0 .. RMax /\ k # 0
        BY <1>1, <1>2, <1>4, <1>11, <2>1 DEF Node
      <4> QED BY <4>1, Bounds
    <3> QED BY <1>1, <1>2, <2>1, <3>1, SyncSlistSent, CarriedUp
  <2>3. TurnOK(z) /\ Rest(w, z) /\ z.nd = w.nd /\ SendsUp(n, w, z, m)
    BY <1>5, <1>6, <2>1, <2>2, SendUpOK
  <2>4. PICK c : c = PredSet(b, t, v, t)
    OBVIOUS
  <2>5. /\ NodeOK(c) /\ Placed(n, c) /\ Save(b, c) /\ c.pred_xpv = v /\ c.trig = t
    <3>1. t \in Triggers /\ ("RELAY" \in {t, v, t} => b.last_ttl # 0)
      BY <1>2, <1>4, <1>5, <1>11, Words DEF Save
    <3> QED BY <1>4, <1>5, <2>4, <3>1, PredSetOK
  <2>6. y = WithNode(z, c)
    <3>1. c = [b EXCEPT !.trig = "NO"]
      BY <1>2, <1>5, <2>4 DEF PredSet, Node
    <3>2. y = [z EXCEPT !.nd.trig = "NO"]
      BY <1>8, <1>11, <2>1
    <3> QED BY <1>6, <2>3, <3>1, <3>2 DEF WithNode, TurnOK, TurnRecord
  <2>7. TurnOK(y) /\ Rest(z, y) /\ y.nd = c /\ y.out = z.out
    BY <2>3, <2>5, <2>6, WithNodeOK
  <2>8. SendsUp(n, x, y, m) /\ Rest(x, y) /\ Save(x.nd, y.nd)
    BY <1>2, <1>5, <1>6, <2>3, <2>5, <2>7 DEF SendsUp, Rest, Save
  <2> QED BY <1>2, <1>11, <2>2, <2>5, <2>7, <2>8
<1> QED BY <1>4, <1>9, <1>10, <1>11

(* A frame of the predecessor has been read.                                 *)
LEMMA PollinUnderway ==
    ASSUME Live = Nodes, MaxPings > 0, NEW n \in Nodes, NEW revents, NEW x,
           Underway(n, x, revents), x.nd.trig # "STABILIZE", Len(x.out) <= 3, NEW v,
           NEW y, y = PredecessorPollin(Drop(x, "pred"), v)
    PROVE  Underway(n, y, revents) /\ y.nd.trig # "STABILIZE"
<1>1. /\ TurnOK(x) /\ x.self = n /\ Placed(n, x.nd) /\ x \in TurnRecord /\ NodeOK(x.nd)
      /\ x.nd.pred_xpv \in {"NO", "PING1", "REPLICATE", "RELAY"} /\ x.nd \in Node
  BY DEF Underway, Awaited, TurnOK, TurnRecord
<1>2. PICK d : d = Drop(x, "pred")
  OBVIOUS
<1>3. /\ TurnOK(d) /\ d.self = x.self /\ d.link = x.link /\ d.reply = x.reply
      /\ d.clock = x.clock /\ d.nd = x.nd /\ d.out = x.out
      /\ d.frames["succ"] = x.frames["succ"]
  <2>1. x.frames["pred"] \in Seq(Frame) /\ x.frames \in [Socks -> Seq(Frame)]
    BY <1>1 DEF TurnRecord, Socks
  <2>2. PICK fs : fs = IF x.frames["pred"] = <<>> THEN x.frames["pred"] ELSE Tail(x.frames["pred"])
    OBVIOUS
  <2>3. fs \in Seq(Frame)
    BY <2>1, <2>2, TailOf
  <2>4. PICK f : f = [x.frames EXCEPT !["pred"] = fs]
    OBVIOUS
  <2>5. f \in [Socks -> Seq(Frame)] /\ f["succ"] = x.frames["succ"]
    BY <2>1, <2>3, <2>4 DEF Socks
  <2>6. d = [x EXCEPT !.frames = f]
    BY <1>1, <1>2, <2>2, <2>4 DEF Drop, TurnRecord
  <2> QED BY <1>1, <2>5, <2>6 DEF TurnOK, TurnRecord
<1>4. Orderly(x, revents)
  BY UnderwayOrderly
(* What is left to show when nothing is awaited.                             *)
<1>5. ASSUME TurnOK(y), Rest(d, y), Save(x.nd, y.nd), Placed(n, y.nd), y.out = x.out,
             y.nd.trig \in {x.nd.trig, "NO"}, y.nd.pred_xpv = "NO"
      PROVE  Underway(n, y, revents) /\ y.nd.trig # "STABILIZE"
  <2>1. /\ Onward(x, y) /\ y.frames["succ"] = x.frames["succ"] /\ y.clock = x.clock
        /\ y.nd.succ_xpv = x.nd.succ_xpv
    BY <1>3, <1>5 DEF Onward, Rest, Save
  <2>2. Orderly(y, revents)
    BY <1>4, <1>5, <2>1 DEF Orderly, Save
  <2>3. Awaited(y.nd.pred_xpv, Sent(x)[Up(n)], y.frames["pred"])
    BY <1>5 DEF Awaited
  <2>4. y.nd.trig # "STABILIZE"
    BY <1>5
  <2> QED BY <1>5, <2>1, <2>2, <2>3, <2>4, StillUnderway
<1>6. CASE x.nd.pred_xpv \in Pinging /\ v = "PONG"
  <2>1. y = PredecessorAlive(d)
    BY <1>2, <1>3, <1>6 DEF PredecessorPollin, Pinging
  <2>2. /\ TurnOK(y) /\ Placed(n, y.nd) /\ Rest(d, y) /\ Save(d.nd, y.nd)
        /\ y.nd.trig \in {d.nd.trig, "NO"}
        /\ \/ y.out = d.out /\ y.nd.pred_xpv = "NO"
           \/ /\ y.nd.pred_xpv \in {"REPLICATE", "RELAY"}
              /\ \E m \in Request : Carried(Up(n), <<m>>) /\ SendsUp(n, d, y, m)
    BY <1>1, <1>3, <2>1, AliveTurn
  <2>3. CASE y.out = d.out /\ y.nd.pred_xpv = "NO"
    BY <1>3, <1>5, <2>2, <2>3
  <2>4. ASSUME NEW m \in Request, Carried(Up(n), <<m>>), SendsUp(n, d, y, m),
               y.nd.pred_xpv \in {"REPLICATE", "RELAY"}
        PROVE  Underway(n, y, revents) /\ y.nd.trig # "STABILIZE"
    <3>1. /\ Onward(x, y) /\ y.frames["succ"] = x.frames["succ"] /\ y.clock = x.clock
          /\ y.nd.succ_xpv = x.nd.succ_xpv /\ SendsUp(n, x, y, m)
      BY <1>3, <2>2, <2>4 DEF Onward, Rest, Save, SendsUp
    <3>2. Orderly(y, revents)
      BY <1>3, <1>4, <2>2, <3>1 DEF Orderly, Save
    <3>3. y.nd.pred_xpv \in {"PING1", "REPLICATE", "RELAY"} /\ y.nd.trig # "STABILIZE"
      BY <1>3, <2>2, <2>4
    <3> QED BY <2>2, <2>4, <3>1, <3>2, <3>3, UpUnderway
  <2> QED BY <2>2, <2>3, <2>4
<1>7. CASE x.nd.pred_xpv = "NO"
  <2>1. y = d
    BY <1>2, <1>3, <1>7 DEF PredecessorPollin, Pinging
  <2> QED BY <1>1, <1>3, <1>5, <1>7, <2>1 DEF Rest, Save
<1>8. CASE x.nd.pred_xpv # "NO" /\ ~(x.nd.pred_xpv \in Pinging /\ v = "PONG")
  <2>1. y = [d EXCEPT !.nd.pred_xpv = "NO", !.nd.trig = "NO"]
    BY <1>1, <1>2, <1>3, <1>8 DEF PredecessorPollin
  <2>2. PICK t, w, b : t = x.nd.pred_trig /\ w = "NO" /\ b = PredSet(x.nd, t, w, w)
    OBVIOUS
  <2>3. y = WithNode(d, b)
    <3>1. b = [x.nd EXCEPT !.pred_xpv = "NO", !.trig = "NO"]
      BY <1>1, <2>2 DEF PredSet, Node
    <3> QED BY <1>3, <2>1, <3>1 DEF WithNode, TurnOK, TurnRecord
  <2>4. /\ NodeOK(b) /\ Placed(n, b) /\ Save(x.nd, b) /\ b.pred_xpv = w /\ b.trig = w
    <3>1. t \in {"NO", "REPLICATE", "RELAY"} /\ w \in PredXpv /\ w \in Triggers
      BY <1>1, <2>2, Words DEF Placed
    <3>2. "RELAY" \in {t, w, w} => x.nd.last_ttl # 0
      BY <1>1, <2>2 DEF NodeOK
    <3> QED BY <1>1, <2>2, <3>1, <3>2, PredSetOK
  <2>5. TurnOK(y) /\ Rest(d, y) /\ y.nd = b /\ y.out = d.out
    BY <1>3, <2>3, <2>4, WithNodeOK
  <2> QED BY <1>3, <1>5, <2>2, <2>4, <2>5
<1> QED BY <1>6, <1>7, <1>8

LEMMA PredecessorUnderway ==
    ASSUME Live = Nodes, MaxPings > 0, NEW n \in Nodes, NEW revents, NEW x,
           Underway(n, x, revents), x.nd.trig # "STABILIZE", Len(x.out) <= 3,
           NEW late, "pred" \in late => x.nd.pred_xpv = "NO",
           NEW y, y \in AtPredecessor({x}, revents, late)
    PROVE  Underway(n, y, revents) /\ y.nd.trig # "STABILIZE"
<1>1. x.nd.pc = "poll" /\ x.nd.trig \in {"NO", "RELAY", "REPLICATE"}
  BY DEF Underway
<1>2. CASE "pred" \in revents
  <2>1. PICK v : y = PredecessorPollin(Drop(x, "pred"), v)
    <3>1. y \in {PredecessorPollin(Drop(x, "pred"), v) : v \in Received(x)}
      BY <1>1, <1>2 DEF AtPredecessor
    <3> QED BY <3>1
  <2> QED BY <2>1, PollinUnderway
<1>3. CASE "pred" \notin revents
  <2>1. y = PredecessorIdle(x, "pred" \in late)
    BY <1>1, <1>3 DEF AtPredecessor
  <2>2. CASE "pred" \in late
    <3>1. y = x
      BY <2>1, <2>2 DEF PredecessorIdle, PredecessorLate
    <3> QED BY <3>1
  <2>3. CASE "pred" \notin late /\ x.nd.trig = "NO"
    <3>1. y = x
      BY <2>1, <2>3 DEF PredecessorIdle
    <3> QED BY <3>1
  <2>4. CASE "pred" \notin late /\ x.nd.trig # "NO"
    <3>1. PICK t : t = x.nd.trig
      OBVIOUS
    <3>2. t \in {"REPLICATE", "RELAY"} /\ y = PingPredecessor(x, t)
      BY <1>1, <2>1, <2>4, <3>1 DEF PredecessorIdle
    <3> QED BY <3>1, <3>2, PingUnderway
  <2> QED BY <2>2, <2>3, <2>4
<1> QED BY <1>2, <1>3

-------------------------------------------------------------------------------
(* The end of a turn *)

Settled(n, x) ==
    /\ TurnOK(x) /\ x.self = n
    /\ x.link # None => x.link \in Inbox(n)
    /\ Placed(n, x.nd) /\ Busy(x.nd, x.clock) /\ Upstream(n, x) /\ Replied(n, x)
    /\ Sent(x) \in [Links -> Seq(Request)]
    /\ \A l \in Links : Carried(l, Sent(x)[l])
    /\ \A l \in Links : l[1] # n => Sent(x)[l] = Without(wire, x.link)[l]
    /\ Exchange(n, x.nd.succ_xpv, x.frames["succ"], Sent(x)[Down(n)],
                node[Follower(n)].temp_predecessor, x.clock)
    /\ Awaited(x.nd.pred_xpv, Sent(x)[Up(n)], x.frames["pred"])

LEMMA EndSettled ==
    ASSUME NEW n, NEW revents \in SUBSET {"server", "succ", "pred"}, NEW x,
           Underway(n, x, revents), x.nd.trig # "STABILIZE", NEW z, z \in Ended({x}, revents)
    PROVE  Settled(n, z)
<1> DEFINE up == IF x.nd.recv_token = None THEN <<>> ELSE <<x.nd.recv_token>>
           p == IF x.clock = "due" THEN "again" ELSE "poll"
           q == IF x.clock = "due" THEN revents ELSE {}
           nd == [x.nd EXCEPT !.recv_token = None, !.trig = "NO", !.pc = p, !.revents = q]
<1>1. /\ TurnOK(x) /\ x \in TurnRecord /\ x.nd \in Node /\ NodeOK(x.nd) /\ x.nd.pc = "poll"
      /\ x.self = n /\ Placed(n, x.nd) /\ x.clock \in Clock
  BY DEF Underway, TurnOK, TurnRecord
<1>2. Orderly(x, revents)
  BY UnderwayOrderly
<1>3. z = [x EXCEPT !.up = up, !.nd.recv_token = None, !.nd.trig = "NO", !.nd.pc = p,
                    !.nd.revents = q]
  BY <1>1 DEF Ended, Finish
<1>4. up \in Seq(Tokens)
  BY <1>1 DEF Node
<1>5. /\ p \in {"poll", "again"} /\ q \in SUBSET {"server", "succ", "pred"}
      /\ p = "again" => x.clock = "due" /\ q = revents
      /\ p = "poll" => x.clock # "due"
  OBVIOUS
<1> HIDE DEF up, p, q
<1>6. z = [x EXCEPT !.up = up, !.nd = nd]
  BY <1>1, <1>3 DEF TurnRecord
<1>7. /\ nd \in Node /\ nd.trig = "NO" /\ nd.pred_xpv = x.nd.pred_xpv /\ nd.pc = p
      /\ nd.pred_trig = x.nd.pred_trig /\ nd.last_ttl = x.nd.last_ttl /\ nd.revents = q
      /\ nd.succ_xpv = x.nd.succ_xpv /\ nd.status = x.nd.status
      /\ nd.temp_predecessor = x.nd.temp_predecessor
  <2>1. "NO" \in Triggers
    BY DEF Triggers
  <2> QED BY <1>1, <1>5, <2>1 DEF Node
<1>8. Placed(n, nd)
  BY <1>1 DEF Node, Placed
<1> HIDE DEF nd
<1>9. NodeOK(nd)
  BY <1>1, <1>7 DEF NodeOK
<1>10. Busy(nd, x.clock)
  BY <1>2, <1>5, <1>7 DEF Orderly, Busy
<1>11. /\ z \in TurnRecord /\ z.nd = nd /\ z.self = n /\ z.link = x.link /\ z.reply = x.reply
       /\ z.out = x.out /\ z.clock = x.clock /\ z.frames = x.frames
  BY <1>1, <1>4, <1>6, <1>7 DEF TurnRecord
<1>12. TurnOK(z)
  BY <1>9, <1>11 DEF TurnOK
<1>13. Sent(z) = Sent(x)
  BY <1>11 DEF Sent
<1>14. Upstream(n, z) /\ Replied(n, z)
  BY <1>7, <1>11 DEF Underway, Upstream, Replied
<1> QED BY <1>7, <1>8, <1>10, <1>11, <1>12, <1>13, <1>14 DEF Underway, Settled

(* A turn, from what it begins with to its end                               *)
LEMMA SocketsSettled ==
    ASSUME Types, Good, Live = Nodes, MaxPings > 0, NEW n \in Nodes,
           NEW revents \in SUBSET {"server", "succ", "pred"}, Polled(n, revents),
           NEW all, "server" \in all <=> "server" \in revents,
           NEW late \in Lateness(n), NEW begins, \A b \in begins : Served(n, b) /\ b.link = None,
           NEW z \in Sockets(AtServer(begins, all), revents, late)
    PROVE  Settled(n, z)
<1> DEFINE turns == AtServer(begins, all)
<1>1. PICK w \in AtPredecessor(AtSuccessor(turns, revents, late), revents, late) :
         z \in Ended({w}, revents)
  BY DEF Sockets, Ended
<1>2. PICK y \in AtSuccessor(turns, revents, late) : w \in AtPredecessor({y}, revents, late)
  BY <1>1 DEF AtPredecessor
<1>3. PICK x \in turns :
         y = SendToken(SuccessorSocket(x, "succ" \in revents, "succ" \in late))
  BY <1>2 DEF AtSuccessor
<1>4. PICK b \in begins : \E l \in IF "server" \in all THEN Inbox(b.self) ELSE {None} :
         x = Timer(Server(b, l))
  BY <1>3 DEF AtServer
<1>5. Served(n, b) /\ b.link = None /\ b.self = n
  <2>1. Served(n, b) /\ b.link = None
    OBVIOUS
  <2> QED BY <2>1 DEF Served, Begun
<1>6. PICK l : /\ x = Timer(Server(b, l)) /\ (l = None \/ l \in Inbox(n))
               /\ l = None \/ "server" \in revents
  BY <1>4, <1>5
<1>7. PICK s : s = Server(b, l)
  OBVIOUS
<1>8. Served(n, s) /\ (s.link # None => "server" \in revents)
  BY <1>5, <1>6, <1>7, ServerServed
<1>9. /\ Underway(n, x, revents) /\ x.frames = frames[n] /\ x.out = <<>>
      /\ x.nd.pred_xpv = node[n].pred_xpv
  BY <1>6, <1>7, <1>8, TimerUnderway
<1>10. "succ" \notin late /\ ("pred" \in late => node[n].pred_xpv = "NO")
  BY LateGood
<1>11. PICK u : u = SuccessorSocket(x, "succ" \in revents, "succ" \in late)
  OBVIOUS
<1>12. u = Polls(x, revents) /\ y = SendToken(u) /\ Unsent(x)
  <2>1. u = Polls(x, revents)
    BY <1>10, <1>11 DEF Polls, SuccessorSocket
  <2> QED BY <1>3, <1>9, <1>11, <2>1 DEF Unsent
<1>13. Onto(n, x, u, revents)
  BY <1>9, <1>12, SuccessorUnderway
<1>14. /\ Underway(n, u, revents) /\ u.nd.trig # "STABILIZE" /\ Len(u.out) <= 1
       /\ u.nd.pred_xpv = x.nd.pred_xpv
  BY <1>13 DEF Onto
<1>15. /\ Underway(n, y, revents) /\ y.nd.trig # "STABILIZE" /\ Len(y.out) <= 2
       /\ y.nd.pred_xpv = u.nd.pred_xpv
  <2>1. y = SendToken(u)
    BY <1>12
  <2> QED BY <1>14, <2>1, TokenUnderway
<1>16. Len(y.out) <= 3
  <2>1. Len(y.out) \in Nat
    BY <1>15, LenProperties DEF Underway, TurnOK, TurnRecord
  <2> QED BY <1>15, <2>1
<1>17. Underway(n, w, revents) /\ w.nd.trig # "STABILIZE"
  BY <1>2, <1>9, <1>10, <1>14, <1>15, <1>16, PredecessorUnderway
<1> QED BY <1>1, <1>17, EndSettled

-------------------------------------------------------------------------------
(* What a turn changes *)

(* What is on the sockets after the turn x of n: its answer, if it has one,  *)
(* gets to the neighbour that has asked.                                     *)
LEMMA FramesAfter ==
    ASSUME Types, Good, Live = Nodes, NEW n \in Nodes, NEW x, Settled(n, x), Effect(x)
    PROVE  /\ frames'[n] = x.frames
           /\ \A k \in Nodes, s \in Socks : k # n =>
                frames'[k][s] = IF x.link # None /\ x.link = <<k, s, n>>
                                THEN frames[k][s] \o x.reply ELSE frames[k][s]
<1>1. /\ TurnOK(x) /\ x.self = n /\ (x.link # None => x.link \in Inbox(n)) /\ Replied(n, x)
      /\ x.frames \in [Socks -> Seq(Frame)] /\ x.reply \in Seq(Frame)
  BY DEF Settled, TurnOK, TurnRecord
<1>2. PICK mine : mine = [frames EXCEPT ![n] = x.frames]
  OBVIOUS
<1>3. mine \in [Nodes -> [Socks -> Seq(Frame)]] /\ mine[n] = x.frames
      /\ \A k \in Nodes : k # n => mine[k] = frames[k]
  BY <1>1, <1>2 DEF Types
<1>4. CASE x.link = None
  <2>1. x.reply = <<>>
    BY <1>1, <1>4 DEF Replied
  <2>2. frames' = mine
    BY <1>1, <1>2, <2>1 DEF Effect
  <2> QED BY <1>3, <1>4, <2>2
<1>5. CASE x.link # None
  <2>1. x.link \in Inbox(n)
    BY <1>1, <1>5
  <2>2. PICK a, r : a \in Nodes /\ r \in Socks /\ x.link = <<a, r, n>> /\ Peer(node[a], r) = n /\ a # n
    <3>1. x.link = <<Leader(n), "succ", n>> \/ x.link = <<Follower(n), "pred", n>>
      BY <2>1, Sender
    <3>2. /\ Leader(n) \in Nodes /\ Follower(n) \in Nodes /\ Leader(n) # n /\ Follower(n) # n
          /\ Follower(Leader(n)) = n /\ Leader(Follower(n)) = n
      BY Neighbours
    <3>3. node[Leader(n)].successor = n /\ node[Follower(n)].predecessor = n
      BY <3>2 DEF Good, InStep, Placed
    <3>4. CASE x.link = <<Leader(n), "succ", n>>
      <4>1. Peer(node[Leader(n)], "succ") = n /\ "succ" \in Socks
        BY <3>3 DEF Peer, Socks
      <4> QED BY <3>2, <3>4, <4>1
    <3>5. CASE x.link = <<Follower(n), "pred", n>>
      <4>1. Peer(node[Follower(n)], "pred") = n /\ "pred" \in Socks
        BY <3>3 DEF Peer, Socks
      <4> QED BY <3>2, <3>5, <4>1
    <3> QED BY <3>1, <3>4, <3>5
  <2>3. x.link[1] = a /\ x.link[2] = r
    BY <2>2
  <2>4. frames' = IF x.reply # <<>> /\ a \in Live /\ Peer(IF a = n THEN x.nd ELSE node[a], r) = n
                  THEN [mine EXCEPT ![a][r] = @ \o x.reply] ELSE mine
    BY <1>1, <1>2, <2>3 DEF Effect
  <2>5. frames' = IF x.reply # <<>> THEN [mine EXCEPT ![a][r] = @ \o x.reply] ELSE mine
    BY <2>2, <2>4
  <2>6. frames[a][r] \o <<>> = frames[a][r]
    <3>1. frames[a][r] \in Seq(Frame)
      BY <2>2 DEF Types
    <3> QED BY <3>1
  <2>7. /\ frames'[n] = mine[n]
        /\ \A k \in Nodes, s \in Socks : k # n =>
             frames'[k][s] = IF k = a /\ s = r THEN frames[k][s] \o x.reply ELSE frames[k][s]
    <3>1. CASE x.reply = <<>>
      BY <1>3, <2>5, <2>6, <3>1
    <3>2. CASE x.reply # <<>>
      <4>1. frames' = [mine EXCEPT ![a] = [mine[a] EXCEPT ![r] = mine[a][r] \o x.reply]]
        BY <1>3, <2>2, <2>5, <3>2
      <4> QED BY <1>3, <2>2, <4>1
    <3> QED BY <3>1, <3>2
  <2>8. ASSUME NEW k \in Nodes, NEW s \in Socks, k # n
        PROVE  frames'[k][s] = IF x.link # None /\ x.link = <<k, s, n>>
                               THEN frames[k][s] \o x.reply ELSE frames[k][s]
    <3>1. CASE k = a /\ s = r
      <4>1. x.link = <<k, s, n>>
        BY <2>2, <3>1
      <4> QED BY <1>5, <2>7, <2>8, <3>1, <4>1
    <3>2. CASE ~(k = a /\ s = r)
      <4>1. x.link # <<k, s, n>>
        BY <2>2, <3>2
      <4> QED BY <2>7, <2>8, <3>2, <4>1
    <3> QED BY <3>1, <3>2
  <2> QED BY <1>3, <2>7, <2>8
<1> QED BY <1>4, <1>5

LEMMA EffectGood ==
    ASSUME Types, Good, Live = Nodes, NEW n \in Nodes, NEW x, Settled(n, x), Effect(x)
    PROVE  Good'
<1>1. /\ TurnOK(x) /\ x.self = n /\ (x.link # None => x.link \in Inbox(n))
      /\ x.nd \in Node /\ x.clock \in Clock
  BY DEF Settled, TurnOK, TurnRecord
<1>2. /\ node' = [node EXCEPT ![n] = x.nd] /\ clock' = [clock EXCEPT ![n] = x.clock]
      /\ wire' = Sent(x)
  BY <1>1 DEF Effect, Sent, Without
<1>3. /\ node'[n] = x.nd /\ clock'[n] = x.clock
      /\ \A k \in Nodes : k # n => node'[k] = node[k] /\ clock'[k] = clock[k]
  BY <1>1, <1>2 DEF Types
<1>4. /\ frames'[n] = x.frames
      /\ \A k \in Nodes, s \in Socks : k # n =>
           frames'[k][s] = IF x.link # None /\ x.link = <<k, s, n>>
                           THEN frames[k][s] \o x.reply ELSE frames[k][s]
  BY FramesAfter
<1>5. \A l \in Links : l[1] # n => wire'[l] = Without(wire, x.link)[l]
  BY <1>2 DEF Settled
<1>6. \A l \in Links : Carried(l, wire'[l])
  BY <1>2 DEF Settled
<1>7. \A l \in Links : l # x.link => Without(wire, x.link)[l] = wire[l]
  BY <1>1, WithoutLink
<1>8. x.link # None =>
        x.link = <<Leader(n), "succ", n>> \/ x.link = <<Follower(n), "pred", n>>
  BY <1>1, Sender
<1>9. ASSUME NEW k \in Nodes PROVE InStep(k)'
  <2>1. PICK s, p, d, u : /\ s = Follower(k) /\ p = Leader(k)
                          /\ d = <<k, "succ", s>> /\ u = <<k, "pred", p>>
    OBVIOUS
  <2>2. s \in Nodes /\ p \in Nodes /\ s # k /\ p # k /\ Leader(s) = k /\ Follower(p) = k
    BY <2>1, Neighbours
  <2>3. d \in Links /\ u \in Links /\ d[1] = k /\ u[1] = k
    BY <2>1, LinksOf
  <2>4. InStep(k)
    BY DEF Good
  <2> "succ" \in Socks /\ "pred" \in Socks
    BY DEF Socks
  <2>5. Placed(k, node'[k]) /\ Busy(node'[k], clock'[k])
    <3>1. CASE k = n
      BY <1>3, <3>1 DEF Settled
    <3>2. CASE k # n
      BY <1>3, <2>4, <3>2 DEF InStep
    <3> QED BY <3>1, <3>2
  <2>6. Exchange(k, node'[k].succ_xpv, frames'[k]["succ"], wire'[d],
                 node'[s].temp_predecessor, clock'[k])
    <3>1. CASE k = n
      <4>1. node'[s] = node[s] /\ wire'[d] = Sent(x)[Down(n)]
        BY <1>2, <1>3, <2>1, <2>2, <3>1 DEF Down
      <4> QED BY <1>3, <1>4, <2>1, <3>1, <4>1 DEF Settled
    <3>2. CASE k # n /\ s = n
      <4>1. k = Leader(n) /\ d = <<k, "succ", n>>
        BY <2>1, <2>2, <3>2
      <4>2. Exchange(k, node[k].succ_xpv,
                     IF x.link # None /\ x.link = d THEN frames[k]["succ"] \o x.reply
                     ELSE frames[k]["succ"],
                     Without(wire, x.link)[d], x.nd.temp_predecessor, clock[k])
        BY <4>1 DEF Settled, Upstream
      <4>3. /\ node'[k] = node[k] /\ clock'[k] = clock[k] /\ node'[s] = x.nd
            /\ wire'[d] = Without(wire, x.link)[d]
            /\ frames'[k]["succ"] = IF x.link # None /\ x.link = d
                                    THEN frames[k]["succ"] \o x.reply ELSE frames[k]["succ"]
        BY <1>3, <1>4, <1>5, <2>3, <3>2, <4>1
      <4> QED BY <4>2, <4>3
    <3>3. CASE k # n /\ s # n
      <4>1. x.link # None => x.link # d /\ x.link # <<k, "succ", n>>
        <5>1. k # Leader(n)
          BY <2>1, <3>3, Neighbours
        <5> QED BY <1>8, <2>1, <3>3, <5>1
      <4>2. wire'[d] = wire[d]
        <5>1. CASE x.link = None
          BY <1>5, <2>3, <3>3, <5>1 DEF Without
        <5>2. CASE x.link # None
          BY <1>5, <1>7, <2>3, <3>3, <4>1, <5>2
        <5> QED BY <5>1, <5>2
      <4>3. /\ node'[k] = node[k] /\ clock'[k] = clock[k] /\ node'[s] = node[s]
            /\ frames'[k]["succ"] = frames[k]["succ"]
        BY <1>3, <1>4, <2>2, <3>3, <4>1
      <4> QED BY <2>1, <2>4, <4>2, <4>3 DEF InStep
    <3> QED BY <3>1, <3>2, <3>3
  <2>7. Awaited(node'[k].pred_xpv, wire'[u], frames'[k]["pred"])
    <3>1. CASE k = n
      <4>1. wire'[u] = Sent(x)[Up(n)]
        BY <1>2, <2>1, <3>1 DEF Up
      <4> QED BY <1>3, <1>4, <3>1, <4>1 DEF Settled
    <3>2. CASE k # n /\ x.link # None /\ x.link = <<k, "pred", n>>
      <4>1. x.link = <<Follower(n), "pred", n>>
        BY <1>8, <3>2
      <4>2. x.reply # <<>>
        BY <3>2, <4>1 DEF Settled, Replied
      <4>3. frames'[k]["pred"] = frames[k]["pred"] \o x.reply
        BY <1>4, <3>2
      <4>4. frames'[k]["pred"] # <<>>
        <5>1. frames[k]["pred"] \in Seq(Frame) /\ x.reply \in Seq(Frame)
          BY <1>1 DEF Types, TurnOK, TurnRecord
        <5>2. Len(frames[k]["pred"] \o x.reply) = Len(frames[k]["pred"]) + Len(x.reply)
              /\ Len(x.reply) \in Nat /\ Len(x.reply) # 0 /\ Len(frames[k]["pred"]) \in Nat
          BY <4>2, <5>1, ConcatProperties, LenProperties, EmptySeq
        <5>3. Len(<<>>) = 0
          OBVIOUS
        <5> QED BY <4>3, <5>2, <5>3
      <4>5. node'[k].pred_xpv = node[k].pred_xpv
        BY <1>3, <3>2
      <4> QED BY <2>4, <4>4, <4>5 DEF InStep, Awaited
    <3>3. CASE k # n /\ ~(x.link # None /\ x.link = <<k, "pred", n>>)
      <4>1. x.link # None => x.link # u
        <5>1. ASSUME x.link # None, x.link = u PROVE FALSE
          <6>1. u = <<Follower(n), "pred", n>>
            BY <1>8, <2>1, <5>1
          <6>2. x.link = <<k, "pred", n>>
            BY <2>1, <5>1, <6>1
          <6> QED BY <3>3, <5>1, <6>2
        <5> QED BY <5>1
      <4>2. wire'[u] = wire[u]
        <5>1. CASE x.link = None
          BY <1>5, <2>3, <3>3, <5>1 DEF Without
        <5>2. CASE x.link # None
          BY <1>5, <1>7, <2>3, <3>3, <4>1, <5>2
        <5> QED BY <5>1, <5>2
      <4>3. frames'[k]["pred"] = frames[k]["pred"] /\ node'[k] = node[k]
        BY <1>3, <1>4, <3>3
      <4> QED BY <2>1, <2>4, <4>2, <4>3 DEF InStep
    <3> QED BY <3>1, <3>2, <3>3
  <2> QED BY <2>1, <2>5, <2>6, <2>7 DEF InStep
<1> QED BY <1>6, <1>9 DEF Good

LEMMA PollPolled ==
    ASSUME Good, NEW n \in Nodes, node[n].pc = "poll", NEW revents \in SUBSET Ready(n)
    PROVE  Polled(n, revents \ {"pipe"})
<1>1. "succ" \in revents => frames[n]["succ"] # <<>>
  BY DEF Ready, Socks
<1>2. clock[n] = "due" => node[n].status = "MEMBER"
  BY DEF Good, InStep, Busy
<1> QED BY <1>1, <1>2 DEF Polled

LEMMA TurnSettled ==
    ASSUME Types, Good, Live = Nodes, MaxPings > 0, NEW n \in Nodes, Turn(n)
    PROVE  \E x : Settled(n, x) /\ Effect(x)
<1>1. /\ node[n].revents \in SUBSET {"server", "succ", "pred"}
      /\ node[n].pc \in {"poll", "again"}
  BY DEF Types, Node, Good, InStep, Busy
<1>2. Served(n, Begin(n)) /\ Begin(n).link = None
  BY BeginServed
<1>3. CASE Poll(n)
  <2>1. PICK all \in SUBSET Ready(n), late \in Lateness(n) :
          \E x \in Sockets(AtServer(AtPipe(n, all), all), all \ {"pipe"}, late) : Effect(x)
    BY <1>3 DEF Poll
  <2>2. PICK z \in Sockets(AtServer(AtPipe(n, all), all), all \ {"pipe"}, late) : Effect(z)
    BY <2>1
  <2>3. PICK revents : revents = all \ {"pipe"}
    OBVIOUS
  <2>4. revents \in SUBSET {"server", "succ", "pred"} /\ ("server" \in all <=> "server" \in revents)
    BY <2>3 DEF Ready, Socks
  <2>5. Polled(n, revents)
    BY <1>3, <2>3, PollPolled DEF Poll
  <2>6. \A b \in AtPipe(n, all) : Served(n, b) /\ b.link = None
    <3>1. "pipe" \in all => pipe[n] # <<>>
      BY DEF Ready, Socks
    <3>2. CASE "pipe" \in all
      BY <3>1, <3>2, TakeServed DEF AtPipe
    <3>3. CASE "pipe" \notin all
      BY <1>2, <3>3 DEF AtPipe
    <3> QED BY <3>2, <3>3
  <2>7. PICK begins : begins = AtPipe(n, all)
    OBVIOUS
  <2>8. z \in Sockets(AtServer(begins, all), revents, late) /\ Effect(z)
        /\ \A b \in begins : Served(n, b) /\ b.link = None
    BY <2>2, <2>3, <2>6, <2>7
  <2>9. Settled(n, z)
    BY <2>4, <2>5, <2>8, SocketsSettled
  <2> QED BY <2>8, <2>9
<1>4. CASE Again(n)
  <2>1. PICK late \in Lateness(n) :
          \E x \in Sockets(AtServer({Begin(n)}, node[n].revents), node[n].revents, late) :
             Effect(x)
    BY <1>4 DEF Again
  <2>2. PICK z \in Sockets(AtServer({Begin(n)}, node[n].revents), node[n].revents, late) :
          Effect(z)
    BY <2>1
  <2>3. PICK revents, begins : revents = node[n].revents /\ begins = {Begin(n)}
    OBVIOUS
  <2>4. Polled(n, revents) /\ revents \in SUBSET {"server", "succ", "pred"}
    <3>1. node[n].pc = "again"
      BY <1>4 DEF Again
    <3> QED BY <1>1, <2>3, <3>1 DEF Good, InStep, Busy, Polled
  <2>5. z \in Sockets(AtServer(begins, revents), revents, late) /\ Effect(z)
        /\ \A b \in begins : Served(n, b) /\ b.link = None
    BY <1>2, <2>2, <2>3
  <2>6. Settled(n, z)
    BY <2>4, <2>5, SocketsSettled
  <2> QED BY <2>5, <2>6
<1>5. CASE Spin(n)
  BY <1>1, <1>5 DEF Spin
<1> QED BY <1>3, <1>4, <1>5 DEF Turn

(* The dead stay dead.                                                       *)
LEMMA AllLiveBefore ==
    ASSUME Types, [Next]_vars, Live' = Nodes PROVE Live = Nodes
<1> SUFFICES ASSUME NEW m \in Nodes PROVE node[m].pc \notin {"down", "left"}
  BY DEF Live
<1>1. node'[m].pc \notin {"down", "left"}
  BY DEF Live
<1>2. CASE node' = node
  BY <1>1, <1>2
<1>3. ASSUME NEW n \in Nodes, Turn(n) PROVE node[m].pc \notin {"down", "left"}
  <2>1. PICK x : /\ Done(n, x) /\ Effect(x) /\ node[n].pc \in {"poll", "again", "spin"}
    BY <1>3, TurnDone
  <2>2. node' = [node EXCEPT ![n] = x.nd]
    BY <2>1 DEF Done, Effect
  <2>3. m # n => node'[m] = node[m]
    BY <2>2 DEF Types
  <2> QED BY <1>1, <2>1, <2>3
<1>4. ASSUME NEW n \in Nodes, Crash(n) PROVE FALSE
  <2>1. node' = [node EXCEPT ![n] = [MemberAt(n) EXCEPT !.pc = "down"]]
    BY <1>4 DEF Crash
  <2>2. node'[n].pc = "down"
    BY <2>1 DEF Types, MemberAt
  <2> QED BY <2>2 DEF Live
<1>5. ASSUME NEW n \in Nodes, Elapse(n) \/ Issue(n) PROVE node' = node
  BY <1>5 DEF Elapse, Issue
<1>6. Calm \/ UNCHANGED vars => node' = node
  BY DEF Calm, vars
<1> QED BY <1>2, <1>3, <1>4, <1>5, <1>6 DEF Next

LEMMA SameGood ==
    ASSUME Good, node' = node, wire' = wire, frames' = frames, clock' = clock PROVE Good'
  BY DEF Good, InStep

LEMMA NextStanding ==
    ASSUME Overlap # "any", MaxPings > 0, Types, Standing, [Next]_vars PROVE Standing'
<1> SUFFICES ASSUME Live' = Nodes PROVE Good'
  BY DEF Standing
<1>1. Live = Nodes /\ Good
  BY AllLiveBefore DEF Standing
<1>2. ASSUME NEW n \in Nodes, Turn(n) PROVE Good'
  <2>1. PICK x : Settled(n, x) /\ Effect(x)
    BY <1>1, <1>2, TurnSettled
  <2> QED BY <1>1, <2>1, EffectGood
<1>3. ASSUME NEW n \in Nodes, Elapse(n) PROVE Good'
  BY <1>1, <1>3, ElapseGood
<1>4. ASSUME NEW n \in Nodes, Issue(n) PROVE Good'
  <2>1. node' = node /\ wire' = wire /\ frames' = frames /\ clock' = clock
    BY <1>4 DEF Issue
  <2> QED BY <1>1, <2>1, SameGood
<1>5. ASSUME NEW n \in Nodes, Crash(n) PROVE FALSE
  <2>1. node' = [node EXCEPT ![n] = [MemberAt(n) EXCEPT !.pc = "down"]]
    BY <1>5 DEF Crash
  <2>2. node'[n].pc = "down"
    BY <2>1 DEF Types, MemberAt
  <2> QED BY <2>2 DEF Live
<1>6. CASE Calm
  BY <1>1, <1>6, CalmGood
<1>7. CASE UNCHANGED vars
  BY <1>1, <1>7, SameGood DEF vars
<1> QED BY <1>2, <1>3, <1>4, <1>5, <1>6, <1>7 DEF Next

-------------------------------------------------------------------------------
(* While nobody has crashed or left, and an interval of a member ends only   *)
(* when the member is not in an exchange: each exchange of pings, requests,  *)
(* lists and SYNs is at one of its stages, whatever of it a turn of          *)
(* p2pmd_actor serves first, and an answer is awaited where it comes.        *)
THEOREM ExchangesGoWell ==
    ASSUME Overlap # "any", MaxPings > 0
    PROVE  Spec => []Standing
<1>1. Init => Standing
  BY InitGood DEF Standing
<1>2. Accounted /\ Standing /\ [Next]_vars => Standing'
  BY NextStanding DEF Accounted
<1> QED BY <1>1, <1>2, TokensAreAccountedFor, PTL DEF Spec

(* What the members do to keep up a ring that nobody has left does not       *)
(* damage it (p2pm_ni_copy_successor_list, stabilize_syn_req): neighbours    *)
(* and successor lists stay what they were, in a ring of any size and for    *)
(* lists of any length.                                                      *)
THEOREM TheRingStands ==
    ASSUME Overlap # "any", MaxPings > 0
    PROVE  Spec => [](Live = Nodes => RingStands)
<1>1. ASSUME Standing, Live = Nodes PROVE RingStands
  <2> SUFFICES ASSUME NEW n \in Nodes
               PROVE  /\ node[n].successor = After(n, 1)
                      /\ node[n].predecessor = After(n, Len(Ring) - 1)
                      /\ \A i \in 1 .. RMax : node[n].successor_list[i] = After(n, i)
    BY DEF RingStands
  <2>1. Placed(n, node[n])
    BY <1>1 DEF Standing, Good, InStep
  <2> QED BY <2>1 DEF Placed, Follower, Leader, ListOf
<1>2. Standing => (Live = Nodes => RingStands)
  BY <1>1
<1> QED BY <1>2, ExchangesGoWell, PTL

(* An ACK, of three frames, gets only to a node that waits for one, and is   *)
(* the last thing on its socket: successor_socket_handler never takes a      *)
(* frame of it for an opcode.                                                *)
THEOREM AcksComeInStep ==
    ASSUME Overlap # "any", MaxPings > 0
    PROVE  Spec => [](Live = Nodes => AcksInStep)
<1>1. ASSUME Standing, Live = Nodes PROVE AcksInStep
  <2> SUFFICES ASSUME NEW n \in Nodes, NEW i \in DOMAIN frames[n]["succ"],
                      frames[n]["succ"][i].type = "ACK"
               PROVE  node[n].succ_xpv = "ACK" /\ i = Len(frames[n]["succ"])
    BY <1>1 DEF AcksInStep
  <2>1. PICK f, q, t : /\ f = frames[n]["succ"]
                       /\ Exchange(n, node[n].succ_xpv, f, q, t, clock[n])
    BY <1>1 DEF Standing, Good, InStep
  <2>2. \/ f = <<>> \/ f = <<Pong>>
        \/ f = <<AckOf(Follower(n))>> /\ node[n].succ_xpv = "ACK"
    BY <2>1 DEF Exchange
  <2>3. f # <<>> /\ f # <<Pong>>
    BY <2>1 DEF Pong
  <2>4. f = <<AckOf(Follower(n))>> /\ node[n].succ_xpv = "ACK"
    BY <2>2, <2>3
  <2>5. i = 1 /\ Len(f) = 1
    BY <2>1, <2>4
  <2> QED BY <2>1, <2>4, <2>5
<1>2. Standing => (Live = Nodes => AcksInStep)
  BY <1>1
<1> QED BY <1>2, ExchangesGoWell, PTL

(* Of the answers that the handlers of p2pmd_actor wait for without a timer  *)
(* (an ACK, a SYN) none stays out: when all has come to rest nobody waits,   *)
(* no status HANDLING_STABILIZE and no next predecessor is left over.        *)
THEOREM RestLeavesNothing ==
    ASSUME Overlap # "any", MaxPings > 0
    PROVE  Spec => [](Live = Nodes => RestIsClean)
<1>1. ASSUME Types, Standing, Live = Nodes PROVE RestIsClean
  <2> SUFFICES ASSUME Quiet, NEW n \in Live
               PROVE  /\ node[n].pc = "poll" /\ node[n].status = "MEMBER"
                      /\ node[n].succ_xpv = "NO" /\ node[n].pred_xpv = "NO"
                      /\ node[n].temp_predecessor = None
    BY DEF RestIsClean
  <2>1. Good /\ n \in Nodes
    BY <1>1 DEF Standing
  <2> QED BY <1>1, <2>1, QuietClean
<1>2. Accounted /\ Standing => (Live = Nodes => RestIsClean)
  BY <1>1 DEF Accounted
<1> QED BY <1>2, ExchangesGoWell, TokensAreAccountedFor, PTL
===============================================================================
