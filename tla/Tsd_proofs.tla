------------------------------ MODULE Tsd_proofs ------------------------------
(***************************************************************************)
(* Proofs about the tuple space daemon, for any clients, names, patterns   *)
(* and workloads: what its queues and replies are made of, that no request *)
(* waits for a tuple that is there, how a session ends, and that the       *)
(* daemon implements the tuple space of module TupleSpace.                 *)
(***************************************************************************)
EXTENDS Tsd, FiniteSetTheorems, SequenceTheorems, WellFoundedInduction, TLAPS

-------------------------------------------------------------------------------
(* Places in a queue *)

(* What is true of a queue: its elements have places, and different ones.    *)
Numbered(S) ==
    /\ IsFiniteSet(S)
    /\ \A x \in S : x.at \in Nat
    /\ \A x, y \in S : x.at = y.at => x = y

(* A set of naturals that is not empty has a least element.                  *)
LEMMA MinimalExists ==
  ASSUME NEW R, IsWellFoundedOn(R, Nat), NEW T, T \subseteq Nat, T # {}
  PROVE  \E n \in T : \A m \in T : ~(<<m, n>> \in R)
BY WFMin

LEMMA LeastByRelation ==
  ASSUME NEW R, IsWellFoundedOn(R, Nat), \A m, n \in Nat : m < n => <<m, n>> \in R,
         NEW T \in SUBSET Nat, T # {}
  PROVE  \E n \in T : \A m \in T : n <= m
<1>1. PICK n \in T : \A m \in T : ~(<<m, n>> \in R)
    BY MinimalExists
<1>2. ASSUME NEW m \in T PROVE n <= m
  <2>1. m \in Nat /\ n \in Nat
      OBVIOUS
  <2>2. m < n => <<m, n>> \in R
      BY <2>1
  <2> QED
      BY <1>1, <2>1, <2>2
<1> QED
    BY <1>2

LEMMA LeastExists ==
  ASSUME NEW T \in SUBSET Nat, T # {}
  PROVE  \E n \in T : \A m \in T : n <= m
<1>1. \A m, n \in Nat : m < n => <<m, n>> \in OpToRel(<, Nat)
    BY DEF OpToRel
<1> QED
    BY <1>1, NatLessThanWellFounded, LeastByRelation

(* zlistx_find and zlistx_first return an element of the queue.              *)
LEMMA FirstIsFirst ==
  ASSUME NEW S, S # {}, \A x \in S : x.at \in Nat
  PROVE  First(S) \in S /\ \A y \in S : First(S).at <= y.at
<1> DEFINE T == {x.at : x \in S}
<1>1. PICK n \in T : \A m \in T : n <= m
    BY LeastExists
<1>2. \E x \in S : \A y \in S : x.at <= y.at
    BY <1>1
<1> QED
    BY <1>2 DEF First

(* zlistx_add_end puts an element behind all others.                         *)
LEMMA NextPlaceIsBehind ==
  ASSUME NEW S, NEW b \in Nat, \A x \in S : x.at \in Nat /\ x.at <= b
  PROVE  NextPlace(S) \in Nat /\ \A x \in S : x.at < NextPlace(S)
<1>1. CASE S = {}
    BY <1>1 DEF NextPlace
<1>2. CASE S # {}
  <2> DEFINE U == {u \in Nat : \A x \in S : x.at <= u}
  <2>1. PICK u \in U : \A v \in U : u <= v
      BY LeastExists
  <2>2. \E x \in S : x.at = u
    <3> SUFFICES ASSUME \A x \in S : x.at # u PROVE FALSE
        OBVIOUS
    <3>1. \A x \in S : x.at < u
        BY <2>1
    <3>2. u # 0
        BY <1>2, <3>1
    <3>3. u - 1 \in U
        BY <2>1, <3>1, <3>2
    <3> QED
        BY <2>1, <3>3
  <2>3. \E x \in S : \A y \in S : x.at >= y.at
      BY <2>1, <2>2
  <2> DEFINE last == CHOOSE x \in S : \A y \in S : x.at >= y.at
  <2>4. last \in S /\ \A y \in S : last.at >= y.at
      BY <2>3
  <2>5. NextPlace(S) = 1 + last.at
      BY <1>2 DEF NextPlace
  <2> QED
      BY <2>4, <2>5
<1> QED
    BY <1>1, <1>2

-------------------------------------------------------------------------------
(* InOrder numbers the elements of a queue from 1 *)

Upto(S, x) == {y \in S : y.at <= x.at}

Rank(S, x) == Cardinality(Upto(S, x))

LEMMA RankType ==
  ASSUME NEW S, Numbered(S), NEW x \in S
  PROVE  Rank(S, x) \in 1..Cardinality(S)
<1>1. IsFiniteSet(S)
    BY DEF Numbered
<1>2. Upto(S, x) \in SUBSET S
    BY DEF Upto
<1>3. IsFiniteSet(Upto(S, x)) /\ Cardinality(Upto(S, x)) <= Cardinality(S)
    BY <1>1, <1>2, FS_Subset
<1>4. Cardinality(Upto(S, x)) \in Nat /\ Cardinality(S) \in Nat
    BY <1>1, <1>3, FS_CardinalityType
<1>5. x \in Upto(S, x)
    BY DEF Upto, Numbered
<1>6. Cardinality(Upto(S, x)) # 0
    BY <1>3, <1>5, FS_EmptySet
<1> QED
    BY <1>3, <1>4, <1>6 DEF Rank

LEMMA RankGrows ==
  ASSUME NEW S, Numbered(S), NEW x \in S, NEW y \in S, x.at < y.at
  PROVE  Rank(S, x) # Rank(S, y)
<1>1. \A z \in S : z.at \in Nat
    BY DEF Numbered
<1>2. Upto(S, x) \in SUBSET Upto(S, y)
    BY <1>1 DEF Upto
<1>3. y \in Upto(S, y) /\ y \notin Upto(S, x)
    BY <1>1 DEF Upto
<1>4. IsFiniteSet(Upto(S, y))
  <2>1. IsFiniteSet(S) /\ Upto(S, y) \in SUBSET S
      BY DEF Numbered, Upto
  <2> QED
      BY <2>1, FS_Subset
<1>5. Cardinality(Upto(S, y)) = Cardinality(Upto(S, x)) => Upto(S, y) = Upto(S, x)
    BY <1>2, <1>4, FS_Subset
<1> QED
    BY <1>3, <1>5 DEF Rank

LEMMA RankInjective ==
  ASSUME NEW S, Numbered(S), NEW x \in S, NEW y \in S, Rank(S, x) = Rank(S, y)
  PROVE  x = y
<1>1. x.at \in Nat /\ y.at \in Nat /\ (x.at = y.at => x = y)
    BY DEF Numbered
<1>2. ~(x.at < y.at) /\ ~(y.at < x.at)
    BY RankGrows
<1> QED
    BY <1>1, <1>2

(* Every number up to the length of the queue is the rank of an element.     *)
LEMMA RankOnto ==
  ASSUME NEW S, Numbered(S), NEW k \in 1..Cardinality(S)
  PROVE  \E x \in S : Rank(S, x) = k
<1> DEFINE n == Cardinality(S)
           f == [x \in S |-> Rank(S, x)]
<1>1. IsFiniteSet(S) /\ n \in Nat
    BY FS_CardinalityType DEF Numbered
<1>2. f \in [S -> 1..n]
    BY RankType
<1>3. \A x, y \in S : f[x] = f[y] => x = y
    BY RankInjective
<1>4. f \in Injection(S, 1..n)
    BY <1>2, <1>3 DEF Injection, IsInjective
<1>5. IsFiniteSet(1..n) /\ Cardinality(1..n) = n
    BY <1>1, FS_Interval
<1>6. f \in Surjection(S, 1..n)
    BY <1>4, <1>5, FS_Injection
<1>7. \E x \in S : f[x] = k
    BY <1>6 DEF Surjection
<1> QED
    BY <1>7

LEMMA InOrderNumbers ==
  ASSUME NEW S, Numbered(S)
  PROVE  /\ Cardinality(S) \in Nat
         /\ DOMAIN InOrder(S) = 1..Cardinality(S)
         /\ \A k \in 1..Cardinality(S) : InOrder(S)[k] \in S
         /\ \A x \in S : \E k \in 1..Cardinality(S) : InOrder(S)[k] = x
<1>1. Cardinality(S) \in Nat
    BY FS_CardinalityType DEF Numbered
<1>2. DOMAIN InOrder(S) = 1..Cardinality(S)
    BY DEF InOrder
<1>3. ASSUME NEW k \in 1..Cardinality(S)
      PROVE  InOrder(S)[k] \in S /\ Rank(S, InOrder(S)[k]) = k
  <2> DEFINE x == CHOOSE x \in S : Rank(S, x) = k
  <2>1. x \in S /\ Rank(S, x) = k
      BY RankOnto
  <2>2. InOrder(S)[k] = x
      BY DEF InOrder, Rank, Upto
  <2> QED
      BY <2>1, <2>2
<1>4. ASSUME NEW x \in S
      PROVE  \E k \in 1..Cardinality(S) : InOrder(S)[k] = x
  <2>1. Rank(S, x) \in 1..Cardinality(S)
      BY RankType
  <2>2. InOrder(S)[Rank(S, x)] = x
      BY <1>3, <2>1, RankInjective
  <2> QED
      BY <2>1, <2>2
<1> QED
    BY <1>1, <1>2, <1>3, <1>4

-------------------------------------------------------------------------------
(* Replies to several clients *)

LEMMA NumberedSubset ==
  ASSUME NEW S, Numbered(S), NEW T, T \subseteq S
  PROVE  Numbered(T)
<1>1. IsFiniteSet(T)
    BY FS_Subset DEF Numbered
<1> QED
    BY <1>1 DEF Numbered

Mine(S, c) == {q \in S : q.client = c}

(* What the clients of S get when the tuple t arrives, and at a TsTerm.      *)
TupleReplies(S, c, t) ==
    [k \in 1..Cardinality(Mine(S, c)) |-> Found(t, InOrder(Mine(S, c))[k].cmd)]

TermReplies(S, c) == [k \in 1..Cardinality(Mine(S, c)) |-> TermReply]

LEMMA AnswerAllFound ==
  ASSUME NEW S, NEW t, AnswerAll(S, LAMBDA q : Found(t, q.cmd))
  PROVE  outbox' = [c \in Clients |-> outbox[c] \o TupleReplies(S, c, t)]
BY DEF AnswerAll, TupleReplies, Mine, InOrder

LEMMA AnswerAllTerm ==
  ASSUME NEW S, AnswerAll(S, LAMBDA q : TermReply)
  PROVE  outbox' = [c \in Clients |-> outbox[c] \o TermReplies(S, c)]
BY DEF AnswerAll, TermReplies, Mine, InOrder

LEMMA FoundType ==
  ASSUME NEW t \in Tuple, NEW cmd
  PROVE  Found(t, cmd) \in Reply
BY DEF Found, Tuple, Reply

LEMMA TupleRepliesType ==
  ASSUME NEW S, Numbered(S), NEW c, NEW t \in Tuple
  PROVE  /\ TupleReplies(S, c, t) \in Seq(Reply)
         /\ Len(TupleReplies(S, c, t)) = Cardinality(Mine(S, c))
         /\ Cardinality(Mine(S, c)) \in Nat
<1>1. Cardinality(Mine(S, c)) \in Nat
    BY NumberedSubset, InOrderNumbers DEF Mine
<1>2. TupleReplies(S, c, t) \in [1..Cardinality(Mine(S, c)) -> Reply]
    BY FoundType DEF TupleReplies
<1> QED
    BY <1>1, <1>2, SeqDef

LEMMA TermRepliesType ==
  ASSUME NEW S, Numbered(S), NEW c
  PROVE  /\ TermReplies(S, c) \in Seq(Reply)
         /\ Len(TermReplies(S, c)) = Cardinality(Mine(S, c))
         /\ Cardinality(Mine(S, c)) \in Nat
<1>1. Cardinality(Mine(S, c)) \in Nat
    BY NumberedSubset, InOrderNumbers DEF Mine
<1>2. TermReply \in Reply
    BY DEF TermReply, Reply
<1>3. TermReplies(S, c) \in [1..Cardinality(Mine(S, c)) -> Reply]
    BY <1>2 DEF TermReplies
<1> QED
    BY <1>1, <1>3, SeqDef

-------------------------------------------------------------------------------
(* The invariant *)

(* Types, and the places of tuples and requests.  A bound on the places of   *)
(* the requests is what makes the end of their queue a number.               *)
TsdInv ==
    /\ TypeOK
    /\ Numbered(named_queue)
    /\ Numbered(named_queue_requests)
    /\ \A t \in named_queue : t.at <= accepted
    /\ \E b \in Nat : \A q \in named_queue_requests : q.at <= b

LEMMA TsdInit == Init => TsdInv
<1> SUFFICES ASSUME Init PROVE TsdInv
    OBVIOUS
<1>1. TypeOK
    BY TsdAssumption DEF Init, TypeOK, NoCall, Command, Others
<1>2. Numbered({})
    BY FS_EmptySet DEF Numbered
<1> QED
    BY <1>1, <1>2 DEF Init, TsdInv

(* The invariant in three parts, so that a step proves only what it touches. *)
SpaceInv ==
    /\ daemon \in {"listening", "crashed", "spinning"}
    /\ is_activated \in BOOLEAN
    /\ named_queue \subseteq Tuple
    /\ named_queue_requests \subseteq Request
    /\ bcast_queue \in Nat
    /\ bcast_queue_requests \in Nat
    /\ accepted \in Nat
    /\ Numbered(named_queue)
    /\ Numbered(named_queue_requests)
    /\ \A t \in named_queue : t.at <= accepted
    /\ \E b \in Nat : \A q \in named_queue_requests : q.at <= b

InboxInv  == inbox \in [Clients -> Seq(Command)]
OutboxInv == outbox \in [Clients -> Seq(Reply)]

ClientInv ==
    /\ pc \in [Clients -> {"new", "open", "calling", "gone"}]
    /\ call \in [Clients -> Command]
    /\ calls \in [Clients -> Nat]
    /\ holds \in [Clients -> SUBSET Nat]

LEMMA TsdInvParts == TsdInv <=> SpaceInv /\ InboxInv /\ OutboxInv /\ ClientInv
BY DEF TsdInv, TypeOK, SpaceInv, InboxInv, OutboxInv, ClientInv

LEMMA TsdInvParts2 == TsdInv' <=> SpaceInv' /\ InboxInv' /\ OutboxInv' /\ ClientInv'
BY DEF TsdInv, TypeOK, SpaceInv, InboxInv, OutboxInv, ClientInv, Numbered

(* What a client sends and what a handler takes are commands.                *)
LEMMA SendType ==
  ASSUME InboxInv, NEW c \in Clients, NEW msg \in Command, Send(c, msg)
  PROVE  InboxInv'
<1>1. Append(inbox[c], msg) \in Seq(Command)
    BY AppendProperties DEF InboxInv
<1> QED
    BY <1>1 DEF Send, InboxInv

LEMMA HandleType ==
  ASSUME InboxInv, ClientInv, NEW c \in Clients, NEW cmds, Handle(c, cmds)
  PROVE  /\ Msg(c) \in Command
         /\ Msg(c).cmd \in cmds
         /\ InboxInv'
         /\ ClientInv'
<1>1. inbox[c] \in Seq(Command) /\ inbox[c] # <<>>
    BY DEF Handle, InboxInv
<1>2. Head(inbox[c]) \in Command /\ Tail(inbox[c]) \in Seq(Command)
    BY <1>1, HeadTailProperties
<1>3. InboxInv'
    BY <1>2 DEF Handle, InboxInv
<1>4. ClientInv'
    BY DEF Handle, ClientInv, clientVars
<1> QED
    BY <1>2, <1>3, <1>4 DEF Handle, Msg

LEMMA AnswerType ==
  ASSUME OutboxInv, NEW c \in Clients, NEW r \in Reply, Answer(c, r)
  PROVE  OutboxInv'
<1>1. Append(outbox[c], r) \in Seq(Reply)
    BY AppendProperties DEF OutboxInv
<1> QED
    BY <1>1 DEF Answer, OutboxInv

LEMMA EnfType == Enf \in Reply
BY DEF Enf, Reply

LEMMA NoCallType == NoCall \in Command
BY DEF NoCall, Command, Others

LEMMA AnswerFoundType ==
  ASSUME OutboxInv, NEW S, Numbered(S), NEW t \in Tuple, AnswerAll(S, LAMBDA q : Found(t, q.cmd))
  PROVE  OutboxInv'
<1>1. ASSUME NEW c \in Clients PROVE outbox[c] \o TupleReplies(S, c, t) \in Seq(Reply)
    BY TupleRepliesType, ConcatProperties DEF OutboxInv
<1>2. outbox' = [c \in Clients |-> outbox[c] \o TupleReplies(S, c, t)]
    BY AnswerAllFound
<1> QED
    BY <1>1, <1>2 DEF OutboxInv

LEMMA AnswerTermType ==
  ASSUME OutboxInv, NEW S, Numbered(S), AnswerAll(S, LAMBDA q : TermReply)
  PROVE  OutboxInv'
<1>1. ASSUME NEW c \in Clients PROVE outbox[c] \o TermReplies(S, c) \in Seq(Reply)
    BY TermRepliesType, ConcatProperties DEF OutboxInv
<1>2. outbox' = [c \in Clients |-> outbox[c] \o TermReplies(S, c)]
    BY AnswerAllTerm
<1> QED
    BY <1>1, <1>2 DEF OutboxInv

-------------------------------------------------------------------------------
(* The steps *)

LEMMA SpaceKept ==
  ASSUME SpaceInv, UNCHANGED <<daemon, spaceVars>>
  PROVE  SpaceInv'
BY DEF SpaceInv, Numbered, spaceVars

LEMMA ClientKeepsInv ==
  ASSUME TsdInv, NEW c \in Clients, Client(c)
  PROVE  TsdInv'
<1> USE DEF InboxInv, OutboxInv, ClientInv
<1>0. SpaceInv /\ InboxInv /\ OutboxInv /\ ClientInv
    BY TsdInvParts
<1>w. ASSUME NEW m \in Workload[c] PROVE m \in Command
    BY TsdAssumption
<1>1. CASE TsOpen(c)
  <2>1. [cmd |-> "TsConnect", arg |-> None] \in Command
      BY DEF Command, Others
  <2>2. InboxInv'
      BY <1>0, <1>1, <2>1, SendType DEF TsOpen
  <2>3. SpaceInv' /\ OutboxInv'
      BY <1>0, <1>1, SpaceKept DEF TsOpen
  <2>4. ClientInv'
      BY <1>0, <1>1, <2>1 DEF TsOpen, Begin
  <2> QED
      BY <2>2, <2>3, <2>4, TsdInvParts2
<1>2. ASSUME NEW m \in Workload[c], TsIn(c, m) PROVE TsdInv'
  <2>1. InboxInv'
      BY <1>0, <1>2, <1>w, SendType DEF TsIn
  <2>2. SpaceInv' /\ OutboxInv'
      BY <1>0, <1>2, SpaceKept DEF TsIn
  <2>3. ClientInv'
      BY <1>0, <1>2 DEF TsIn
  <2> QED
      BY <2>1, <2>2, <2>3, TsdInvParts2
<1>3. ASSUME NEW m \in Workload[c], TsOut(c, m) PROVE TsdInv'
  <2>1. InboxInv'
      BY <1>0, <1>3, <1>w, SendType DEF TsOut
  <2>2. SpaceInv' /\ OutboxInv'
      BY <1>0, <1>3, SpaceKept DEF TsOut
  <2>3. ClientInv'
      BY <1>0, <1>3, <1>w DEF TsOut, Begin
  <2> QED
      BY <2>1, <2>2, <2>3, TsdInvParts2
<1>4. CASE TsClose(c)
  <2>1. InboxInv'
      BY <1>0, <1>4, <1>w, SendType DEF TsClose
  <2>2. SpaceInv' /\ OutboxInv'
      BY <1>0, <1>4, SpaceKept DEF TsClose
  <2>3. ClientInv'
      BY <1>0, <1>4 DEF TsClose
  <2> QED
      BY <2>1, <2>2, <2>3, TsdInvParts2
<1>5. CASE Receive(c)
  <2>1. Head(outbox[c]) \in Reply /\ Tail(outbox[c]) \in Seq(Reply)
      BY <1>0, <1>5, HeadTailProperties DEF Receive
  <2>2. Head(outbox[c]).at \in Nat
      BY <2>1 DEF Reply
  <2>3. OutboxInv'
      BY <1>0, <1>5, <2>1 DEF Receive
  <2>4. ClientInv'
      BY <1>0, <1>5, <2>2, NoCallType DEF Receive
  <2>5. SpaceInv' /\ InboxInv'
      BY <1>0, <1>5, SpaceKept DEF Receive
  <2> QED
      BY <2>3, <2>4, <2>5, TsdInvParts2
<1> QED
    BY <1>1, <1>2, <1>3, <1>4, <1>5 DEF Client

(* The queue of requests only gets shorter: its part of the invariant holds. *)
LEMMA FewerRequests ==
  ASSUME SpaceInv, named_queue_requests' \subseteq named_queue_requests
  PROVE  /\ named_queue_requests' \subseteq Request
         /\ Numbered(named_queue_requests)'
         /\ (\E b \in Nat : \A q \in named_queue_requests : q.at <= b)'
<1>1. Numbered(named_queue_requests')
    BY NumberedSubset DEF SpaceInv
<1>2. PICK b \in Nat : \A q \in named_queue_requests : q.at <= b
    BY DEF SpaceInv
<1>3. \A q \in named_queue_requests' : q.at <= b
    BY <1>2
<1> QED
    BY <1>1, <1>3 DEF SpaceInv, Numbered

(* match_blocking_requests with a tuple that is newer than all others.       *)
LEMMA MatchKeepsInv ==
  ASSUME SpaceInv, OutboxInv, NEW t \in Tuple, t.at = accepted + 1, accepted' = accepted + 1,
         MatchBlockingRequests(t), daemon' = daemon,
         UNCHANGED <<is_activated, bcast_queue, bcast_queue_requests>>
  PROVE  SpaceInv' /\ OutboxInv'
<1> DEFINE M == Matching(t)
<1>1. Served(M) \subseteq named_queue_requests
    BY DEF Served, Matching
<1>2. Numbered(Served(M))
    BY <1>1, NumberedSubset DEF SpaceInv
<1>3. OutboxInv'
    BY <1>2, AnswerFoundType DEF MatchBlockingRequests
<1>4. named_queue_requests' \subseteq named_queue_requests
    BY DEF MatchBlockingRequests
<1>5. named_queue' \subseteq named_queue \union {t}
    BY DEF MatchBlockingRequests, AppendIfNeeded
<1>6. Numbered(named_queue \union {t})
  <2>1. IsFiniteSet(named_queue \union {t})
      BY FS_AddElement DEF SpaceInv, Numbered
  <2>2. \A x \in named_queue : x.at \in Nat /\ x.at <= accepted
      BY DEF SpaceInv, Numbered
  <2> QED
      BY <2>1, <2>2 DEF SpaceInv, Numbered
<1>7. Numbered(named_queue')
    BY <1>5, <1>6, NumberedSubset
<1>8. named_queue' \subseteq Tuple /\ \A x \in named_queue' : x.at <= accepted'
  <2>1. \A x \in named_queue : x.at \in Nat /\ x.at <= accepted
      BY DEF SpaceInv, Numbered
  <2> QED
      BY <1>5, <2>1 DEF SpaceInv
<1>9. SpaceInv'
    BY <1>4, <1>7, <1>8, FewerRequests DEF SpaceInv, Numbered
<1> QED
    BY <1>3, <1>9

(* A request that finds nothing goes to the end of the queue.                *)
LEMMA QueueRequestKeepsInv ==
  ASSUME SpaceInv, NEW c \in Clients, Msg(c) \in Command,
         Msg(c).cmd \in Reads \union Fetches, QueueRequest(c)
  PROVE  /\ named_queue_requests' \subseteq Request
         /\ Numbered(named_queue_requests)'
         /\ (\E b \in Nat : \A q \in named_queue_requests : q.at <= b)'
<1> DEFINE R == named_queue_requests
           q == [at |-> NextPlace(R), client |-> c, cmd |-> Msg(c).cmd, arg |-> Msg(c).arg]
<1>1. PICK b \in Nat : \A x \in R : x.at <= b
    BY DEF SpaceInv
<1>2. NextPlace(R) \in Nat /\ \A x \in R : x.at < NextPlace(R)
    BY <1>1, NextPlaceIsBehind DEF SpaceInv, Numbered
<1>3. CASE Msg(c).cmd \in Waits
  <2>1. R' = R \union {q}
      BY <1>3 DEF QueueRequest
  <2>2. Msg(c).arg \in Patterns \union {None}
      BY DEF Command, Reads, Fetches, Queries, Stores, Others, Writes
  <2>3. q \in Request
      BY <1>2, <1>3, <2>2 DEF Request
  <2>4. Numbered(R')
    <3>1. IsFiniteSet(R')
        BY <2>1, FS_AddElement DEF SpaceInv, Numbered
    <3> QED
        BY <1>2, <2>1, <3>1 DEF SpaceInv, Numbered
  <2>5. \A x \in R' : x.at <= NextPlace(R)
      BY <1>2, <2>1 DEF SpaceInv, Numbered
  <2> QED
      BY <1>2, <2>1, <2>3, <2>4, <2>5 DEF SpaceInv, Numbered
<1>4. CASE Msg(c).cmd \notin Waits
  <2>1. R' = R
      BY <1>4 DEF QueueRequest
  <2> QED
      BY <2>1, FewerRequests
<1> QED
    BY <1>3, <1>4

LEMMA DaemonKeepsInv ==
  ASSUME TsdInv, NEW c \in Clients, Daemon(c)
  PROVE  TsdInv'
<1> SUFFICES SpaceInv' /\ InboxInv' /\ OutboxInv' /\ ClientInv'
    BY TsdInvParts2
<1>0. SpaceInv /\ InboxInv /\ OutboxInv /\ ClientInv
    BY TsdInvParts
<1>1. CASE HandleInactive(c)
  <2>1. InboxInv' /\ ClientInv'
      BY <1>0, <1>1, HandleType DEF HandleInactive
  <2>2. OutboxInv'
      BY <1>0, <1>1, AnswerType, EnfType DEF HandleInactive
  <2>3. SpaceInv'
      BY <1>0, <1>1, SpaceKept DEF HandleInactive
  <2> QED
      BY <2>1, <2>2, <2>3
<1>2. CASE HandleConnect(c)
  <2>1. InboxInv' /\ ClientInv'
      BY <1>0, <1>2, HandleType DEF HandleConnect
  <2>2. [re |-> "TsModeMaster", at |-> 0, name |-> None, mine |-> FALSE] \in Reply
      BY DEF Reply
  <2>3. OutboxInv'
      BY <1>0, <1>2, <2>2, AnswerType DEF HandleConnect
  <2>4. SpaceInv'
      BY <1>0, <1>2 DEF HandleConnect, SpaceInv, Numbered
  <2> QED
      BY <2>1, <2>3, <2>4
<1>3. CASE HandlePut(c)
  <2> DEFINE t == [at |-> accepted + 1, name |-> Msg(c).arg]
  <2>1. /\ Msg(c) \in Command /\ Msg(c).cmd = "TsPut"
        /\ InboxInv' /\ ClientInv'
      BY <1>0, <1>3, HandleType DEF HandlePut
  <2>2. t \in Tuple
    <3>1. Msg(c).arg \in Names \union {None}
        BY <2>1 DEF Command, Stores, Writes, Queries, Reads, Fetches, BCastReads, Others
    <3> QED
        BY <1>0, <3>1 DEF Tuple, SpaceInv
  <2>3. SpaceInv' /\ OutboxInv'
      BY <1>0, <1>3, <2>2, MatchKeepsInv DEF HandlePut
  <2> QED
      BY <2>1, <2>3
<1>4. CASE HandleAdd(c)
  <2>1. InboxInv' /\ ClientInv'
      BY <1>0, <1>4, HandleType DEF HandleAdd
  <2>2. CASE named_queue_requests = {}
    <3> DEFINE t == [at |-> accepted + 1, name |-> None]
    <3>1. t \in Tuple
        BY <1>0 DEF Tuple, SpaceInv
    <3>2. SpaceInv' /\ OutboxInv'
        BY <1>0, <1>4, <2>2, <3>1, MatchKeepsInv DEF HandleAdd
    <3> QED
        BY <2>1, <3>2
  <2>3. CASE named_queue_requests # {}
    <3>1. /\ daemon' = "crashed"
          /\ UNCHANGED <<accepted, named_queue, named_queue_requests, outbox,
                         is_activated, bcast_queue, bcast_queue_requests>>
        BY <1>4, <2>3 DEF HandleAdd
    <3>2. SpaceInv' /\ OutboxInv'
        BY <1>0, <3>1 DEF SpaceInv, Numbered, OutboxInv
    <3> QED
        BY <2>1, <3>2
  <2> QED
      BY <2>2, <2>3
<1>5. CASE HandleQuery(c)
  <2>1. /\ Msg(c) \in Command /\ Msg(c).cmd \in Reads \union Fetches
        /\ InboxInv' /\ ClientInv'
      BY <1>0, <1>5, HandleType DEF HandleQuery
  <2>2. CASE NotFound(c)
    <3>1. OutboxInv'
        BY <1>0, <2>2, AnswerType, EnfType DEF NotFound
    <3>2. SpaceInv'
        BY <1>0, <1>5, <2>1, <2>2, QueueRequestKeepsInv DEF HandleQuery, NotFound, SpaceInv, Numbered
    <3> QED
        BY <2>1, <3>1, <3>2
  <2>3. CASE Candidates(Msg(c)) # {} /\ FoundOne(c, First(Candidates(Msg(c))))
    <3> DEFINE t == First(Candidates(Msg(c)))
    <3>1. Candidates(Msg(c)) \subseteq named_queue
        BY DEF Candidates
    <3>2. t \in named_queue
        BY <1>0, <2>3, <3>1, FirstIsFirst DEF SpaceInv, Numbered
    <3>3. Found(t, Msg(c).cmd) \in Reply
        BY <1>0, <3>2, FoundType DEF SpaceInv
    <3>4. OutboxInv'
        BY <1>0, <2>3, <3>3, AnswerType DEF FoundOne
    <3>5. named_queue' \subseteq named_queue
        BY <2>3 DEF FoundOne
    <3>6. Numbered(named_queue')
        BY <1>0, <3>5, NumberedSubset DEF SpaceInv
    <3>7. SpaceInv'
        BY <1>0, <1>5, <2>3, <3>5, <3>6 DEF HandleQuery, FoundOne, SpaceInv, Numbered
    <3> QED
        BY <2>1, <3>4, <3>7
  <2> QED
      BY <1>5, <2>2, <2>3 DEF HandleQuery
<1>6. CASE HandleBCastWrite(c)
  <2>1. InboxInv' /\ ClientInv'
      BY <1>0, <1>6, HandleType DEF HandleBCastWrite
  <2>2. SpaceInv' /\ OutboxInv'
      BY <1>0, <1>6 DEF HandleBCastWrite, SpaceInv, Numbered, OutboxInv
  <2> QED
      BY <2>1, <2>2
<1>7. CASE HandleBCastRead(c)
  <2>1. InboxInv' /\ ClientInv'
      BY <1>0, <1>7, HandleType DEF HandleBCastRead
  <2>2. OutboxInv'
      BY <1>0, <1>7, AnswerType, EnfType DEF HandleBCastRead, OutboxInv
  <2>3. bcast_queue_requests' \in Nat /\ daemon' \in {"listening", "crashed", "spinning"}
      BY <1>0, <1>7 DEF HandleBCastRead, SpaceInv
  <2>4. SpaceInv'
      BY <1>0, <1>7, <2>3 DEF HandleBCastRead, SpaceInv, Numbered
  <2> QED
      BY <2>1, <2>2, <2>4
<1>8. CASE HandleTerm(c)
  <2>1. InboxInv' /\ ClientInv'
      BY <1>0, <1>8, HandleType DEF HandleTerm
  <2>2. OutboxInv'
      BY <1>0, <1>8, AnswerTermType DEF HandleTerm, ReleaseAll, SpaceInv
  <2>3. Numbered({})
      BY FS_EmptySet DEF Numbered
  <2>4. /\ named_queue' = {} /\ named_queue_requests' = {} /\ is_activated' = FALSE
        /\ bcast_queue_requests' = 0 /\ UNCHANGED <<bcast_queue, accepted>>
        /\ daemon' \in {"listening", "crashed", "spinning"}
      BY <1>8 DEF HandleTerm
  <2>5. SpaceInv'
      BY <1>0, <2>3, <2>4 DEF SpaceInv, Numbered
  <2> QED
      BY <2>1, <2>2, <2>5
<1> QED
    BY <1>1, <1>2, <1>3, <1>4, <1>5, <1>6, <1>7, <1>8 DEF Daemon

LEMMA TsdStep == TsdInv /\ [Next]_vars => TsdInv'
<1> SUFFICES ASSUME TsdInv, [Next]_vars PROVE TsdInv'
    OBVIOUS
<1>1. CASE UNCHANGED vars
    BY <1>1 DEF vars, spaceVars, clientVars, TsdInv, TypeOK, Numbered
<1>2. CASE Next
    BY <1>2, ClientKeepsInv, DaemonKeepsInv DEF Next
<1> QED
    BY <1>1, <1>2

LEMMA TsdInvariant == Spec => []TsdInv
BY TsdInit, TsdStep, PTL DEF Spec

(* The daemon, its queues, the messages under way and the clients keep their *)
(* types, whatever programs issue and in whatever order it arrives.          *)
THEOREM TypeCorrect == Spec => []TypeOK
<1>1. TsdInv => TypeOK
    BY DEF TsdInv
<1> QED
    BY <1>1, TsdInvariant, PTL

-------------------------------------------------------------------------------
(* Nobody waits for a tuple that is there *)

LEMMA MatchMissesNobody ==
  ASSUME NoMissedMatch, NEW t, MatchBlockingRequests(t)
  PROVE  NoMissedMatch'
<1> DEFINE M == Matching(t)
<1>1. CASE \E q \in M : q.cmd \in Takes
  <2>1. named_queue' = named_queue /\ named_queue_requests' \subseteq named_queue_requests
      BY <1>1 DEF MatchBlockingRequests, AppendIfNeeded
  <2> QED
      BY <2>1 DEF NoMissedMatch, RequestMatches
<1>2. CASE ~ \E q \in M : q.cmd \in Takes
  <2>1. Served(M) = M
      BY <1>2 DEF Served
  <2>2. named_queue_requests' \subseteq named_queue_requests \ M
      BY <2>1 DEF MatchBlockingRequests
  <2>3. named_queue' = named_queue \union {t}
      BY <1>2 DEF MatchBlockingRequests, AppendIfNeeded
  <2>4. \A q \in named_queue_requests' : ~RequestMatches(q, t)
      BY <2>2 DEF Matching
  <2> QED
      BY <2>2, <2>3, <2>4 DEF NoMissedMatch, RequestMatches
<1> QED
    BY <1>1, <1>2

LEMMA NotFoundMissesNobody ==
  ASSUME NoMissedMatch, NEW c, Candidates(Msg(c)) = {}, NotFound(c)
  PROVE  NoMissedMatch'
<1> DEFINE q == [at |-> NextPlace(named_queue_requests), client |-> c,
                 cmd |-> Msg(c).cmd, arg |-> Msg(c).arg]
<1>1. named_queue' = named_queue /\ named_queue_requests' \subseteq named_queue_requests \union {q}
    BY DEF NotFound, QueueRequest
<1>2. \A t \in named_queue : ~RequestMatches(q, t)
    BY DEF Candidates, RequestMatches
<1> QED
    BY <1>1, <1>2 DEF NoMissedMatch, RequestMatches

LEMMA NoMissedStep == NoMissedMatch /\ [Next]_vars => NoMissedMatch'
<1> SUFFICES ASSUME NoMissedMatch, [Next]_vars PROVE NoMissedMatch'
    OBVIOUS
<1>1. ASSUME named_queue' \subseteq named_queue, named_queue_requests' \subseteq named_queue_requests
      PROVE  NoMissedMatch'
    BY <1>1 DEF NoMissedMatch, RequestMatches
<1>2. ASSUME NEW c \in Clients, Client(c) PROVE NoMissedMatch'
    BY <1>1, <1>2 DEF Client, TsOpen, TsClose, Receive, TsIn, TsOut, spaceVars
<1>3. ASSUME NEW c \in Clients, Daemon(c) PROVE NoMissedMatch'
  <2>1. CASE HandlePut(c)
      BY <2>1, MatchMissesNobody DEF HandlePut
  <2>2. CASE HandleAdd(c)
    <3>1. CASE named_queue_requests = {}
        BY <2>2, <3>1, MatchMissesNobody DEF HandleAdd
    <3>2. CASE named_queue_requests # {}
        BY <1>1, <2>2, <3>2 DEF HandleAdd
    <3> QED
        BY <3>1, <3>2
  <2>3. CASE HandleQuery(c)
    <3>1. CASE Candidates(Msg(c)) = {} /\ NotFound(c)
        BY <3>1, NotFoundMissesNobody
    <3>2. CASE FoundOne(c, First(Candidates(Msg(c))))
        BY <1>1, <3>2 DEF FoundOne
    <3> QED
        BY <2>3, <3>1, <3>2 DEF HandleQuery
  <2>4. CASE HandleInactive(c) \/ HandleConnect(c) \/ HandleBCastWrite(c) \/ HandleBCastRead(c) \/ HandleTerm(c)
      BY <1>1, <2>4 DEF HandleInactive, HandleConnect, HandleBCastWrite, HandleBCastRead, HandleTerm, spaceVars
  <2> QED
      BY <1>3, <2>1, <2>2, <2>3, <2>4 DEF Daemon
<1>4. CASE UNCHANGED vars
    BY <1>1, <1>4 DEF vars, spaceVars
<1> QED
    BY <1>2, <1>3, <1>4 DEF Next

(* No request stays on the list while a tuple that it matches is stored: a   *)
(* put goes past every waiting request, and a query past every tuple.        *)
THEOREM NobodyIsMissed == Spec => []NoMissedMatch
<1>1. Init => NoMissedMatch
    BY DEF Init, NoMissedMatch
<1> QED
    BY <1>1, NoMissedStep, PTL DEF Spec

-------------------------------------------------------------------------------
(* The end of a session *)

(* A space that is down has no tuples and no requests.                       *)
DownIsEmpty == ~is_activated => named_queue = {} /\ named_queue_requests = {}

(* The steps that are not a TsTerm: while the space is down after them they  *)
(* have left it as it was.                                                   *)
LEMMA StaysDown ==
  ASSUME DownIsEmpty, NEW c \in Clients, Client(c) \/ Daemon(c), ~HandleTerm(c), ~is_activated'
  PROVE  ~is_activated /\ named_queue' = {} /\ named_queue_requests' = {}
<1>1. CASE Client(c)
    BY <1>1 DEF Client, TsOpen, TsClose, Receive, TsIn, TsOut, spaceVars, DownIsEmpty
<1>2. CASE HandleInactive(c)
    BY <1>2 DEF HandleInactive, spaceVars, DownIsEmpty
<1>3. CASE HandlePut(c) \/ HandleAdd(c) \/ HandleQuery(c) \/ HandleBCastWrite(c) \/ HandleBCastRead(c)
    BY <1>3 DEF HandlePut, HandleAdd, HandleQuery, HandleBCastWrite, HandleBCastRead
<1>4. CASE HandleConnect(c)
    BY <1>4 DEF HandleConnect
<1> QED
    BY <1>1, <1>2, <1>3, <1>4 DEF Daemon

(* ts_term_clear_requests answers everyone on the list, last of all.         *)
LEMMA TermAnswersAll ==
  ASSUME TsdInv, NEW c \in Clients, HandleTerm(c), NEW q \in named_queue_requests
  PROVE  outbox'[q.client] # <<>> /\ outbox'[q.client][Len(outbox'[q.client])] = TermReply
<1> DEFINE d  == q.client
           S  == named_queue_requests
           s  == outbox[d]
           tr == TermReplies(S, d)
           n  == Cardinality(Mine(S, d))
<1>1. d \in Clients /\ s \in Seq(Reply) /\ Numbered(S)
    BY DEF TsdInv, TypeOK, Request
<1>2. tr \in Seq(Reply) /\ Len(tr) = n /\ n \in Nat
    BY <1>1, TermRepliesType
<1>3. n # 0
  <2>1. q \in Mine(S, d)
      BY DEF Mine
  <2>2. IsFiniteSet(Mine(S, d))
      BY <1>1, NumberedSubset DEF Mine, Numbered
  <2> QED
      BY <2>1, <2>2, FS_EmptySet
<1>4. outbox' = [e \in Clients |-> outbox[e] \o TermReplies(S, e)]
    BY AnswerAllTerm DEF HandleTerm, ReleaseAll
<1>5. outbox'[d] = s \o tr
    BY <1>1, <1>4
<1>6. tr[n] = TermReply
    BY <1>2, <1>3 DEF TermReplies
<1>7. Len(s \o tr) = Len(s) + n /\ Len(s) \in Nat
  <2> HIDE DEF d, S, s, tr, n
  <2> QED
      BY <1>1, <1>2, ConcatProperties, LenProperties
<1>8. (s \o tr)[Len(s) + n] = tr[n]
  <2> HIDE DEF d, S, s, tr, n
  <2>1. Len(s) + n \in 1..Len(s) + Len(tr) /\ ~(Len(s) + n <= Len(s)) /\ (Len(s) + n) - Len(s) = n
      BY <1>2, <1>3, <1>7
  <2> QED
      BY <1>1, <1>2, <2>1, ConcatProperties
<1>9. s \o tr # <<>>
    BY <1>2, <1>3, <1>7
<1> QED
    BY <1>5, <1>6, <1>7, <1>8, <1>9

LEMMA DownStep == TsdInv /\ DownIsEmpty /\ [Next]_vars => DownIsEmpty'
<1> SUFFICES ASSUME TsdInv, DownIsEmpty, [Next]_vars PROVE DownIsEmpty'
    OBVIOUS
<1>1. CASE UNCHANGED vars
    BY <1>1 DEF vars, spaceVars, DownIsEmpty
<1>2. ASSUME NEW c \in Clients, HandleTerm(c) PROVE DownIsEmpty'
    BY <1>2 DEF HandleTerm, DownIsEmpty
<1>3. ASSUME NEW c \in Clients, Client(c) \/ Daemon(c), ~HandleTerm(c) PROVE DownIsEmpty'
    BY <1>3, StaysDown DEF DownIsEmpty
<1> QED
    BY <1>1, <1>2, <1>3 DEF Next

(* Whoever is on the list when a space is taken down is told so, last of     *)
(* all, and what the session left behind is gone, in every step that leaves  *)
(* the space down.                                                           *)
THEOREM SessionEnds == Spec => TermEndsSession
<1> DEFINE A == ~is_activated' =>
                  /\ named_queue' = {} /\ named_queue_requests' = {}
                  /\ is_activated =>
                        \A q \in named_queue_requests :
                            /\ outbox'[q.client] # <<>>
                            /\ outbox'[q.client][Len(outbox'[q.client])] = TermReply
<1>1. TsdInv /\ DownIsEmpty /\ [Next]_vars => [A]_vars
  <2> SUFFICES ASSUME TsdInv, DownIsEmpty, Next PROVE A
      OBVIOUS
  <2>1. ASSUME NEW c \in Clients, HandleTerm(c) PROVE A
    <3>1. named_queue' = {} /\ named_queue_requests' = {}
        BY <2>1 DEF HandleTerm
    <3> QED
        BY <2>1, <3>1, TermAnswersAll
  <2>2. ASSUME NEW c \in Clients, Client(c) \/ Daemon(c), ~HandleTerm(c) PROVE A
      BY <2>2, StaysDown
  <2> QED
      BY <2>1, <2>2 DEF Next
<1>2. Init => DownIsEmpty
    BY DEF Init, DownIsEmpty
<1> QED
    BY <1>1, <1>2, DownStep, TsdInvariant, PTL DEF Spec, TermEndsSession

-------------------------------------------------------------------------------
(* The daemon implements the tuple space *)

(* The tuples that leave the daemon with the replies of s.                   *)
Leaving(s) == {s[k].at : k \in {k \in DOMAIN s : s[k].mine}}

LEMMA TakenIs == \A c \in Clients : Taken(c) = holds[c] \union Leaving(outbox[c])
BY DEF Taken, Leaving

LEMMA LeavingConcat ==
  ASSUME NEW s \in Seq(Reply), NEW u \in Seq(Reply)
  PROVE  Leaving(s \o u) = Leaving(s) \union Leaving(u)
<1>1. /\ DOMAIN s = 1..Len(s) /\ Len(s) \in Nat
      /\ DOMAIN u = 1..Len(u) /\ Len(u) \in Nat
      /\ DOMAIN (s \o u) = 1..(Len(s) + Len(u))
    BY ConcatProperties, LenProperties
<1>2. \A k \in 1..Len(s) : (s \o u)[k] = s[k]
    BY <1>1, ConcatProperties
<1>3. \A k \in 1..Len(u) : (s \o u)[Len(s) + k] = u[k]
  <2> SUFFICES ASSUME NEW k \in 1..Len(u) PROVE (s \o u)[Len(s) + k] = u[k]
      OBVIOUS
  <2>1. Len(s) + k \in 1..Len(s) + Len(u) /\ ~(Len(s) + k <= Len(s)) /\ (Len(s) + k) - Len(s) = k
      BY <1>1
  <2> QED
      BY <2>1, ConcatProperties
<1>4. Leaving(s) \subseteq Leaving(s \o u)
    BY <1>1, <1>2 DEF Leaving
<1>5. Leaving(u) \subseteq Leaving(s \o u)
  <2> SUFFICES ASSUME NEW k \in DOMAIN u, u[k].mine PROVE u[k].at \in Leaving(s \o u)
      BY DEF Leaving
  <2>1. Len(s) + k \in DOMAIN (s \o u) /\ (s \o u)[Len(s) + k] = u[k]
      BY <1>1, <1>3
  <2> QED
      BY <2>1, Zenon DEF Leaving
<1>6. Leaving(s \o u) \subseteq Leaving(s) \union Leaving(u)
  <2> SUFFICES ASSUME NEW k \in DOMAIN (s \o u), (s \o u)[k].mine
               PROVE  (s \o u)[k].at \in Leaving(s) \union Leaving(u)
      BY DEF Leaving
  <2>1. CASE k <= Len(s)
    <3>1. k \in DOMAIN s /\ (s \o u)[k] = s[k]
        BY <1>1, <1>2, <2>1
    <3> QED
        BY <3>1, Zenon DEF Leaving
  <2>2. CASE ~(k <= Len(s))
    <3>1. k - Len(s) \in DOMAIN u /\ (s \o u)[k] = u[k - Len(s)]
        BY <1>1, <2>2, ConcatProperties
    <3> QED
        BY <3>1, Zenon DEF Leaving
  <2> QED
      BY <2>1, <2>2
<1> QED
    BY <1>4, <1>5, <1>6

LEMMA LeavingAppend ==
  ASSUME NEW s \in Seq(Reply), NEW r \in Reply
  PROVE  Leaving(Append(s, r)) = Leaving(s) \union (IF r.mine THEN {r.at} ELSE {})
<1>1. <<r>> \in Seq(Reply) /\ Append(s, r) = s \o <<r>>
    OBVIOUS
<1>2. DOMAIN <<r>> = {1} /\ <<r>>[1] = r
    OBVIOUS
<1>3. Leaving(<<r>>) = IF r.mine THEN {r.at} ELSE {}
    BY <1>2 DEF Leaving
<1> QED
    BY <1>1, <1>3, LeavingConcat

LEMMA LeavingTail ==
  ASSUME NEW s \in Seq(Reply), s # <<>>
  PROVE  Leaving(s) = Leaving(Tail(s)) \union (IF Head(s).mine THEN {Head(s).at} ELSE {})
<1> DEFINE t == Tail(s)
<1>1. /\ DOMAIN s = 1..Len(s) /\ Len(s) \in Nat /\ Len(s) # 0
      /\ DOMAIN t = 1..(Len(s) - 1)
      /\ Head(s) = s[1]
    BY HeadTailProperties, EmptySeq, LenProperties
<1>2. \A k \in DOMAIN t : t[k] = s[k + 1]
    BY <1>1, HeadTailProperties
<1>3. Leaving(t) \subseteq Leaving(s)
  <2> SUFFICES ASSUME NEW k \in DOMAIN t, t[k].mine PROVE t[k].at \in Leaving(s)
      BY DEF Leaving
  <2>1. k + 1 \in DOMAIN s /\ s[k + 1] = t[k]
      BY <1>1, <1>2
  <2> QED
      BY <2>1, Zenon DEF Leaving
<1>4. Leaving(s) \subseteq Leaving(t) \union (IF Head(s).mine THEN {Head(s).at} ELSE {})
  <2> SUFFICES ASSUME NEW k \in DOMAIN s, s[k].mine
               PROVE  s[k].at \in Leaving(t) \union (IF Head(s).mine THEN {Head(s).at} ELSE {})
      BY DEF Leaving
  <2>1. CASE k = 1
      BY <1>1, <2>1
  <2>2. CASE k # 1
    <3>1. k - 1 \in DOMAIN t /\ t[k - 1] = s[k]
      <4>1. k - 1 \in DOMAIN t /\ (k - 1) + 1 = k
          BY <1>1, <2>2
      <4> QED
          BY <1>2, <4>1
    <3>2. s[k].at \in Leaving(t)
        BY <3>1, Zenon DEF Leaving
    <3> QED
        BY <3>2
  <2> QED
      BY <2>1, <2>2
<1>5. Head(s).mine => Head(s).at \in Leaving(s)
  <2>1. 1 \in DOMAIN s
      BY <1>1
  <2> QED
      BY <1>1, <2>1, Zenon DEF Leaving
<1> QED
    BY <1>3, <1>4, <1>5

(* A message of the daemon to one client takes a tuple out only if it says   *)
(* that the tuple is the client's.                                           *)
LEMMA AnswerTakes ==
  ASSUME TsdInv, NEW c \in Clients, NEW r \in Reply, Answer(c, r), UNCHANGED holds
  PROVE  \A d \in Clients :
            Taken(d)' = Taken(d) \union (IF d = c /\ r.mine THEN {r.at} ELSE {})
<1> SUFFICES ASSUME NEW d \in Clients
             PROVE  Taken(d)' = Taken(d) \union (IF d = c /\ r.mine THEN {r.at} ELSE {})
    OBVIOUS
<1>1. outbox[d] \in Seq(Reply)
    BY DEF TsdInv, TypeOK
<1>2. outbox'[d] = IF d = c THEN Append(outbox[d], r) ELSE outbox[d]
    BY DEF Answer, TsdInv, TypeOK
<1>3. Taken(d)' = holds[d] \union Leaving(outbox'[d])
    BY DEF Taken, Leaving
<1>4. Leaving(outbox'[d]) = Leaving(outbox[d]) \union (IF d = c /\ r.mine THEN {r.at} ELSE {})
    BY <1>1, <1>2, LeavingAppend
<1> QED
    BY <1>3, <1>4, TakenIs

(* The requests for a tuple that are served take it for the clients of those *)
(* that detach it.                                                           *)
LEMMA ServeTakes ==
  ASSUME TsdInv, NEW S \in SUBSET named_queue_requests, NEW t \in Tuple,
         AnswerAll(S, LAMBDA q : Found(t, q.cmd)), UNCHANGED holds
  PROVE  \A d \in Clients :
            Taken(d)' = Taken(d) \union
                (IF \E q \in S : q.client = d /\ q.cmd \in Takes THEN {t.at} ELSE {})
<1> SUFFICES ASSUME NEW d \in Clients
             PROVE  Taken(d)' = Taken(d) \union
                (IF \E q \in S : q.client = d /\ q.cmd \in Takes THEN {t.at} ELSE {})
    OBVIOUS
<1> DEFINE M  == Mine(S, d)
           tr == TupleReplies(S, d, t)
           n  == Cardinality(M)
<1>1. outbox[d] \in Seq(Reply) /\ Numbered(S) /\ Numbered(M)
    BY NumberedSubset DEF TsdInv, TypeOK, Mine
<1>2. tr \in Seq(Reply)
    BY <1>1, TupleRepliesType
<1>3. outbox' = [c \in Clients |-> outbox[c] \o TupleReplies(S, c, t)]
    BY AnswerAllFound
<1>4. Leaving(outbox'[d]) = Leaving(outbox[d]) \union Leaving(tr)
    BY <1>1, <1>2, <1>3, LeavingConcat
<1>5. /\ DOMAIN tr = 1..n
      /\ \A k \in 1..n : tr[k].at = t.at /\ tr[k].mine = (InOrder(M)[k].cmd \in Takes)
    BY DEF TupleReplies, Found
<1>6. /\ \A k \in 1..n : InOrder(M)[k] \in M
      /\ \A q \in M : \E k \in 1..n : InOrder(M)[k] = q
    BY <1>1, InOrderNumbers
<1>7. CASE \E q \in S : q.client = d /\ q.cmd \in Takes
  <2>1. PICK q \in M : q.cmd \in Takes
      BY <1>7 DEF Mine
  <2>2. PICK k \in 1..n : InOrder(M)[k] = q
      BY <1>6
  <2>3. k \in DOMAIN tr /\ tr[k].mine /\ tr[k].at = t.at
      BY <1>5, <2>1, <2>2
  <2>4. t.at \in Leaving(tr)
      BY <2>3, Zenon DEF Leaving
  <2>5. Leaving(tr) \subseteq {t.at}
      BY <1>5, Zenon DEF Leaving
  <2>6. Leaving(tr) = {t.at}
      BY <2>4, <2>5
  <2>7. Taken(d)' = holds[d] \union Leaving(outbox'[d])
      BY DEF Taken, Leaving
  <2> QED
      BY <1>4, <1>7, <2>6, <2>7, TakenIs
<1>8. CASE ~ \E q \in S : q.client = d /\ q.cmd \in Takes
  <2>1. \A k \in 1..n : ~tr[k].mine
      BY <1>5, <1>6, <1>8 DEF Mine
  <2>2. Leaving(tr) = {}
      BY <1>5, <2>1, Zenon DEF Leaving
  <2>3. Taken(d)' = holds[d] \union Leaving(outbox'[d])
      BY DEF Taken, Leaving
  <2> QED
      BY <1>4, <1>8, <2>2, <2>3, TakenIs
<1> QED
    BY <1>7, <1>8

(* At most one of the requests that a tuple serves detaches it.              *)
LEMMA OneTaker ==
  ASSUME TsdInv, NEW M \in SUBSET named_queue_requests,
         NEW p \in Served(M), NEW q \in Served(M), p.cmd \in Takes, q.cmd \in Takes
  PROVE  p = q
<1> DEFINE takers == {x \in M : x.cmd \in Takes}
<1>1. p \in takers /\ q \in takers /\ takers # {}
    BY DEF Served
<1>2. p.at <= First(takers).at /\ q.at <= First(takers).at
    BY <1>1 DEF Served
<1>3. Numbered(takers)
    BY NumberedSubset DEF TsdInv
<1>4. First(takers) \in takers /\ First(takers).at <= p.at /\ First(takers).at <= q.at
    BY <1>1, <1>3, FirstIsFirst DEF Numbered
<1>5. p.at \in Nat /\ q.at \in Nat /\ First(takers).at \in Nat
    BY <1>1, <1>3, <1>4 DEF Numbered
<1>6. p.at = q.at
    BY <1>2, <1>4, <1>5
<1> QED
    BY <1>1, <1>3, <1>6 DEF Numbered

(* If some matching request detaches the tuple, one that is served does.     *)
LEMMA ATakerIsServed ==
  ASSUME TsdInv, NEW M \in SUBSET named_queue_requests, \E q \in M : q.cmd \in Takes
  PROVE  \E q \in Served(M) : q.cmd \in Takes
<1> DEFINE takers == {x \in M : x.cmd \in Takes}
<1>1. Numbered(takers) /\ takers # {}
    BY NumberedSubset DEF TsdInv
<1>2. First(takers) \in takers /\ First(takers).at <= First(takers).at
    BY <1>1, FirstIsFirst DEF Numbered
<1> QED
    BY <1>1, <1>2 DEF Served

Places == {t.at : t \in named_queue}

Takings == [c \in Clients |-> Taken(c)]

LEMMA TakingsGrow ==
  ASSUME NEW c \in Clients, NEW a,
         \A d \in Clients : Taken(d)' = Taken(d) \union (IF d = c THEN {a} ELSE {})
  PROVE  Takings' = [Takings EXCEPT ![c] = @ \union {a}]
<1>1. ASSUME NEW d \in Clients
      PROVE  Taken(d)' = IF d = c THEN Taken(d) \union {a} ELSE Taken(d)
    OBVIOUS
<1>2. Takings' = [d \in Clients |-> IF d = c THEN Taken(d) \union {a} ELSE Taken(d)]
    BY <1>1 DEF Takings
<1> QED
    BY <1>2 DEF Takings

(* A put is a Put of the tuple space, or hands the tuple to one client.      *)
LEMMA MatchIsPutOrHand ==
  ASSUME TsdInv, NEW t \in Tuple, t.at = accepted + 1, MatchBlockingRequests(t),
         accepted' = accepted + 1, UNCHANGED holds
  PROVE  Space!Put \/ \E c \in Clients : Space!Hand(c)
<1> DEFINE M == Matching(t)
<1>1. M \in SUBSET named_queue_requests /\ Served(M) \in SUBSET named_queue_requests
    BY DEF Matching, Served
<1>2. \A d \in Clients :
          Taken(d)' = Taken(d) \union
              (IF \E q \in Served(M) : q.client = d /\ q.cmd \in Takes THEN {t.at} ELSE {})
    BY <1>1, ServeTakes DEF MatchBlockingRequests
<1>3. CASE ~ \E q \in M : q.cmd \in Takes
  <2>1. named_queue' = named_queue \union {t}
      BY <1>3 DEF MatchBlockingRequests, AppendIfNeeded
  <2>2. Places' = Places \union {accepted + 1}
      BY <2>1 DEF Places
  <2>3. \A d \in Clients : Taken(d)' = Taken(d)
      BY <1>2, <1>3 DEF Served
  <2>4. Takings' = Takings
      BY <2>3 DEF Takings
  <2> QED
      BY <2>2, <2>4 DEF Space!Put, Places, Takings
<1>4. CASE \E q \in M : q.cmd \in Takes
  <2>1. PICK q \in Served(M) : q.cmd \in Takes
      BY <1>1, <1>4, ATakerIsServed
  <2>2. q.client \in Clients
      BY <1>1, <2>1 DEF TsdInv, TypeOK, Request
  <2>3. named_queue' = named_queue
      BY <1>4 DEF MatchBlockingRequests, AppendIfNeeded
  <2>4. Places' = Places
      BY <2>3 DEF Places
  <2>5. \A d \in Clients :
            (\E p \in Served(M) : p.client = d /\ p.cmd \in Takes) <=> d = q.client
      BY <1>1, <2>1, <2>2, OneTaker
  <2>6. \A d \in Clients :
            Taken(d)' = Taken(d) \union (IF d = q.client THEN {accepted + 1} ELSE {})
    <3> HIDE DEF M
    <3>1. ASSUME NEW d \in Clients, d = q.client
          PROVE  Taken(d)' = Taken(d) \union {accepted + 1}
      <4>1. \E p \in Served(M) : p.client = d /\ p.cmd \in Takes
          BY <2>5, <3>1
      <4>2. Taken(d)' = Taken(d) \union {t.at}
          BY <1>2, <4>1
      <4> QED
          BY <4>2
    <3>2. ASSUME NEW d \in Clients, d # q.client
          PROVE  Taken(d)' = Taken(d)
      <4>1. ~ \E p \in Served(M) : p.client = d /\ p.cmd \in Takes
          BY <2>5, <3>2
      <4>2. Taken(d)' = Taken(d) \union {}
          BY <1>2, <4>1
      <4> QED
          BY <4>2
    <3> QED
        BY <3>1, <3>2
  <2>7. Takings' = [Takings EXCEPT ![q.client] = @ \union {accepted + 1}]
      BY <2>2, <2>6, TakingsGrow
  <2>8. Space!Hand(q.client)
      BY <2>4, <2>7 DEF Space!Hand, Places, Takings
  <2> QED
      BY <2>2, <2>8
<1> QED
    BY <1>3, <1>4

(* A query that finds a tuple is a Take, or changes nothing of the space.    *)
LEMMA FoundIsTake ==
  ASSUME TsdInv, NEW c \in Clients, NEW t \in named_queue, FoundOne(c, t),
         UNCHANGED <<accepted, holds>>
  PROVE  \/ \E a \in Places : Space!Take(c, a)
         \/ UNCHANGED <<Places, Takings>>
<1> DEFINE r == Found(t, Msg(c).cmd)
<1>1. r \in Reply
    BY FoundType DEF TsdInv, TypeOK
<1>2. r.at = t.at /\ r.mine = (Msg(c).cmd \in Takes)
    BY DEF Found
<1>3. \A d \in Clients :
          Taken(d)' = Taken(d) \union (IF d = c /\ r.mine THEN {r.at} ELSE {})
    BY <1>1, AnswerTakes DEF FoundOne
<1>4. CASE Msg(c).cmd \in Takes
  <2>1. named_queue' = named_queue \ {t}
      BY <1>4 DEF FoundOne
  <2>2. \A u \in named_queue : u.at = t.at => u = t
      BY DEF TsdInv, Numbered
  <2>3. Places' = Places \ {t.at} /\ t.at \in Places
      BY <2>1, <2>2, SMTT(30) DEF Places
  <2>4. Takings' = [Takings EXCEPT ![c] = @ \union {t.at}]
    <3>1. \A d \in Clients :
              Taken(d)' = Taken(d) \union (IF d = c THEN {t.at} ELSE {})
        BY <1>2, <1>3, <1>4
    <3> QED
        BY <3>1, TakingsGrow
  <2>5. Space!Take(c, t.at)
      BY <2>3, <2>4 DEF Space!Take, Places, Takings
  <2> QED
      BY <2>3, <2>5
<1>5. CASE Msg(c).cmd \notin Takes
  <2>1. named_queue' = named_queue
      BY <1>5 DEF FoundOne
  <2>2. Places' = Places
      BY <2>1 DEF Places
  <2>3. Takings' = Takings
      BY <1>2, <1>3, <1>5 DEF Takings
  <2> QED
      BY <2>2, <2>3
<1> QED
    BY <1>4, <1>5

(* A message of a kind that takes nothing out changes nothing of the space.  *)
LEMMA AnswerIsNothing ==
  ASSUME TsdInv, NEW c \in Clients, NEW r \in Reply, ~r.mine, Answer(c, r),
         UNCHANGED <<named_queue, holds>>
  PROVE  UNCHANGED <<Places, Takings>>
<1>1. \A d \in Clients : Taken(d)' = Taken(d)
    BY AnswerTakes
<1> QED
    BY <1>1 DEF Places, Takings

LEMMA SilenceIsNothing ==
  ASSUME UNCHANGED <<named_queue, outbox, holds>>
  PROVE  UNCHANGED <<Places, Takings>>
BY DEF Places, Takings, Taken

(* A reply that the program has read is still its client's.                  *)
LEMMA ReceiveIsNothing ==
  ASSUME TsdInv, NEW c \in Clients, Receive(c)
  PROVE  UNCHANGED <<Places, Takings>>
<1> DEFINE r == Head(outbox[c])
<1>1. \A d \in Clients : Taken(d)' = Taken(d)
  <2> SUFFICES ASSUME NEW d \in Clients PROVE Taken(d)' = Taken(d)
      OBVIOUS
  <2>1. Taken(d)' = holds'[d] \union Leaving(outbox'[d])
      BY DEF Taken, Leaving
  <2>2. CASE d = c
    <3>1. outbox[c] \in Seq(Reply) /\ outbox[c] # <<>>
        BY DEF Receive, TsdInv, TypeOK
    <3>2. Leaving(outbox[c]) = Leaving(Tail(outbox[c])) \union (IF r.mine THEN {r.at} ELSE {})
        BY <3>1, LeavingTail
    <3>3. outbox'[c] = Tail(outbox[c])
        BY DEF Receive, TsdInv, TypeOK
    <3>4. holds'[c] = holds[c] \union (IF r.mine THEN {r.at} ELSE {})
        BY DEF Receive, TsdInv, TypeOK
    <3> QED
        BY <2>1, <2>2, <3>2, <3>3, <3>4, TakenIs
  <2>3. CASE d # c
    <3>1. outbox'[d] = outbox[d] /\ holds'[d] = holds[d]
        BY <2>3 DEF Receive, TsdInv, TypeOK
    <3> QED
        BY <2>1, <3>1, TakenIs
  <2> QED
      BY <2>2, <2>3
<1>2. named_queue' = named_queue
    BY DEF Receive, spaceVars
<1> QED
    BY <1>1, <1>2 DEF Places, Takings

(* Taking a space down is its Close.                                         *)
LEMMA TermIsClose ==
  ASSUME TsdInv, NEW c \in Clients, HandleTerm(c)
  PROVE  Space!Close
<1>1. outbox' = [d \in Clients |-> outbox[d] \o TermReplies(named_queue_requests, d)]
    BY AnswerAllTerm DEF HandleTerm, ReleaseAll
<1>2. \A d \in Clients : Taken(d)' = Taken(d)
  <2> SUFFICES ASSUME NEW d \in Clients PROVE Taken(d)' = Taken(d)
      OBVIOUS
  <2> DEFINE tr == TermReplies(named_queue_requests, d)
  <2>1. outbox[d] \in Seq(Reply) /\ tr \in Seq(Reply)
      BY TermRepliesType DEF TsdInv, TypeOK
  <2>2. \A k \in DOMAIN tr : ~tr[k].mine
      BY DEF TermReplies, TermReply
  <2>3. Leaving(tr) = {}
      BY <2>2, Zenon DEF Leaving
  <2>4. Leaving(outbox'[d]) = Leaving(outbox[d])
    <3>1. outbox'[d] = outbox[d] \o tr
        BY <1>1
    <3>2. Leaving(outbox[d] \o tr) = Leaving(outbox[d]) \union Leaving(tr)
        BY <2>1, LeavingConcat
    <3> QED
        BY <2>3, <3>1, <3>2
  <2>5. Taken(d)' = holds'[d] \union Leaving(outbox'[d])
      BY DEF Taken, Leaving
  <2>6. holds' = holds
      BY DEF HandleTerm, Handle, clientVars
  <2> QED
      BY <2>4, <2>5, <2>6, TakenIs
<1>3. Places' = {} /\ accepted' = accepted
    BY DEF HandleTerm, Places
<1>4. Takings' = Takings
    BY <1>2 DEF Takings
<1> QED
    BY <1>3, <1>4 DEF Space!Close, Places, Takings

(* A step that puts, hands over or takes a tuple, or does none of these.     *)
Moves ==
    \/ Space!Put
    \/ \E c \in Clients : Space!Hand(c) \/ \E a \in Places : Space!Take(c, a)
    \/ UNCHANGED <<accepted, Places, Takings>>

LEMMA StepMoves == TsdInv /\ [Next]_vars => Moves \/ \E c \in Clients : HandleTerm(c)
<1> SUFFICES ASSUME TsdInv, [Next]_vars, \A c \in Clients : ~HandleTerm(c) PROVE Moves
    OBVIOUS
<1> USE DEF Moves
<1> DEFINE Same == UNCHANGED <<accepted, Places, Takings>>
<1>1. CASE UNCHANGED vars
    BY <1>1, SilenceIsNothing DEF vars, spaceVars, clientVars
<1>2. ASSUME NEW c \in Clients, Client(c) PROVE Same
  <2>1. CASE Receive(c)
      BY <2>1, ReceiveIsNothing DEF Receive, spaceVars
  <2>2. CASE ~Receive(c)
    <3>1. UNCHANGED <<accepted, named_queue, outbox, holds>>
        BY <1>2, <2>2 DEF Client, TsOpen, TsClose, TsIn, TsOut, spaceVars
    <3> QED
        BY <3>1, SilenceIsNothing
  <2> QED
      BY <2>1, <2>2
<1>3. ASSUME NEW c \in Clients, HandleInactive(c) \/ HandleConnect(c) PROVE Same
  <2> DEFINE hello == [re |-> "TsModeMaster", at |-> 0, name |-> None, mine |-> FALSE]
  <2>1. Enf \in Reply /\ hello \in Reply /\ ~Enf.mine /\ ~hello.mine
      BY EnfType DEF Enf, Reply
  <2>2. Answer(c, Enf) \/ Answer(c, hello)
      BY <1>3 DEF HandleInactive, HandleConnect
  <2>3. UNCHANGED <<accepted, named_queue, holds>>
      BY <1>3 DEF HandleInactive, HandleConnect, Handle, spaceVars, clientVars
  <2> QED
      BY <2>1, <2>2, <2>3, AnswerIsNothing
<1>4. ASSUME NEW c \in Clients, HandlePut(c)
      PROVE  Space!Put \/ \E d \in Clients : Space!Hand(d)
  <2> DEFINE t == [at |-> accepted + 1, name |-> Msg(c).arg]
  <2>1. Msg(c) \in Command /\ Msg(c).cmd = "TsPut"
      BY <1>4, TsdInvParts, HandleType DEF HandlePut
  <2>2. Msg(c).arg \in Names \union {None}
      BY <2>1 DEF Command, Stores, Writes, Queries, Reads, Fetches, BCastReads, Others
  <2>3. t \in Tuple
      BY <2>2 DEF Tuple, TsdInv, TypeOK
  <2>4. UNCHANGED holds
      BY <1>4 DEF HandlePut, Handle, clientVars
  <2> QED
      BY <1>4, <2>3, <2>4, MatchIsPutOrHand DEF HandlePut
<1>5. ASSUME NEW c \in Clients, HandleAdd(c)
      PROVE  Space!Put \/ (\E d \in Clients : Space!Hand(d)) \/ Same
  <2>1. UNCHANGED holds
      BY <1>5 DEF HandleAdd, Handle, clientVars
  <2>2. CASE named_queue_requests = {}
    <3> DEFINE t == [at |-> accepted + 1, name |-> None]
    <3>1. t \in Tuple
        BY DEF Tuple, TsdInv, TypeOK
    <3> QED
        BY <1>5, <2>1, <2>2, <3>1, MatchIsPutOrHand DEF HandleAdd
  <2>3. CASE named_queue_requests # {}
      BY <1>5, <2>1, <2>3, SilenceIsNothing DEF HandleAdd
  <2> QED
      BY <2>2, <2>3
<1>6. ASSUME NEW c \in Clients, HandleQuery(c)
      PROVE  Same \/ \E a \in Places : Space!Take(c, a)
  <2>1. UNCHANGED <<accepted, holds>>
      BY <1>6 DEF HandleQuery, Handle, clientVars
  <2>2. CASE NotFound(c)
    <3>1. Answer(c, Enf) /\ named_queue' = named_queue /\ Enf \in Reply /\ ~Enf.mine
        BY <2>2, EnfType DEF NotFound, Enf
    <3> QED
        BY <2>1, <3>1, AnswerIsNothing
  <2>3. CASE Candidates(Msg(c)) # {} /\ FoundOne(c, First(Candidates(Msg(c))))
    <3>1. Candidates(Msg(c)) \subseteq named_queue
        BY DEF Candidates
    <3>2. First(Candidates(Msg(c))) \in named_queue
        BY <2>3, <3>1, FirstIsFirst DEF TsdInv, Numbered
    <3> QED
        BY <2>1, <2>3, <3>2, FoundIsTake
  <2> QED
      BY <1>6, <2>2, <2>3 DEF HandleQuery
<1>7. ASSUME NEW c \in Clients, HandleBCastWrite(c) PROVE Same
    BY <1>7, SilenceIsNothing DEF HandleBCastWrite, Handle, clientVars
<1>8. ASSUME NEW c \in Clients, HandleBCastRead(c) PROVE Same
  <2>1. UNCHANGED <<accepted, named_queue, holds>>
      BY <1>8 DEF HandleBCastRead, Handle, clientVars
  <2>2. Answer(c, Enf) \/ UNCHANGED outbox
      BY <1>8 DEF HandleBCastRead
  <2>3. Enf \in Reply /\ ~Enf.mine
      BY EnfType DEF Enf
  <2> QED
      BY <2>1, <2>2, <2>3, AnswerIsNothing, SilenceIsNothing
<1> QED
    BY <1>1, <1>2, <1>3, <1>4, <1>5, <1>6, <1>7, <1>8 DEF Next, Daemon

LEMMA SpaceStep == TsdInv /\ [Next]_vars => [Space!Next]_(Space!tsVars)
BY StepMoves, TermIsClose DEF Moves, Space!Next, Space!tsVars, Places, Takings

(* Whatever blocking requests, takes, connects and terms interleave, each    *)
(* tuple goes to one client at most, and only out of the space or straight   *)
(* from its put: the daemon implements the tuple space.                      *)
THEOREM DaemonIsTupleSpace == Spec => IsTupleSpace
<1>1. Init => Space!Init
  <2> SUFFICES ASSUME Init PROVE Space!Init
      OBVIOUS
  <2>1. \A c \in Clients : Taken(c) = {}
      BY DEF Init, Taken
  <2> QED
      BY <2>1 DEF Init, Space!Init
<1> QED
    BY <1>1, SpaceStep, TsdInvariant, PTL DEF Spec, IsTupleSpace, Space!Spec

(* The abstract space never gives a tuple twice: what has been taken is with *)
(* one client, and no longer in the space.                                   *)
OnceInv ==
    /\ accepted \in Nat
    /\ Places \subseteq 1..accepted
    /\ \A c \in Clients : Takings[c] \subseteq 1..accepted
    /\ \A c, d \in Clients : c # d => Takings[c] \intersect Takings[d] = {}
    /\ \A c \in Clients : Takings[c] \intersect Places = {}

LEMMA OnceStep == OnceInv /\ [Space!Next]_(Space!tsVars) => OnceInv'
<1> SUFFICES ASSUME OnceInv, [Space!Next]_(Space!tsVars) PROVE OnceInv'
    OBVIOUS
<1>0. DOMAIN Takings = Clients /\ DOMAIN Takings' = Clients
    BY DEF Takings
<1>a. accepted + 1 \notin 1..accepted /\ 1..accepted \subseteq 1..(accepted + 1)
      /\ accepted + 1 \in 1..(accepted + 1) /\ accepted + 1 \in Nat
    BY DEF OnceInv
<1>1. CASE Space!Put
  <2>1. accepted' = accepted + 1 /\ Places' = Places \union {accepted + 1} /\ Takings' = Takings
      BY <1>1 DEF Space!Put, Places, Takings
  <2> QED
      BY <1>a, <2>1 DEF OnceInv
<1>2. CASE Space!Close
  <2>1. accepted' = accepted /\ Places' = {} /\ Takings' = Takings
      BY <1>2 DEF Space!Close, Places, Takings
  <2> QED
      BY <2>1 DEF OnceInv
<1>3. ASSUME NEW c \in Clients, Space!Hand(c) PROVE OnceInv'
  <2>1. /\ accepted' = accepted + 1 /\ Places' = Places
        /\ Takings' = [Takings EXCEPT ![c] = @ \union {accepted + 1}]
      BY <1>3 DEF Space!Hand, Places, Takings
  <2>2. \A d \in Clients :
            Takings'[d] = Takings[d] \union (IF d = c THEN {accepted + 1} ELSE {})
      BY <1>0, <2>1
  <2> QED
      BY <1>a, <2>1, <2>2 DEF OnceInv
<1>4. ASSUME NEW c \in Clients, NEW a \in Places, Space!Take(c, a) PROVE OnceInv'
  <2>1. /\ accepted' = accepted /\ Places' = Places \ {a}
        /\ Takings' = [Takings EXCEPT ![c] = @ \union {a}]
      BY <1>4 DEF Space!Take, Places, Takings
  <2>2. \A d \in Clients :
            Takings'[d] = Takings[d] \union (IF d = c THEN {a} ELSE {})
      BY <1>0, <2>1
  <2> QED
      BY <2>1, <2>2 DEF OnceInv
<1>5. CASE UNCHANGED Space!tsVars
  <2>1. accepted' = accepted /\ Places' = Places /\ Takings' = Takings
      BY <1>5 DEF Space!tsVars, Places, Takings
  <2> QED
      BY <2>1 DEF OnceInv
<1> QED
    BY <1>1, <1>2, <1>3, <1>4, <1>5 DEF Space!Next, Places

(* No tuple is with two clients or both with a client and in the space, be   *)
(* it in a reply under way or in the hands of a program.                     *)
THEOREM TuplesTakenOnce == Spec => []Space!TakenOnce
<1>1. Init => OnceInv
  <2> SUFFICES ASSUME Init PROVE OnceInv
      OBVIOUS
  <2>1. \A c \in Clients : Taken(c) = {}
      BY DEF Init, Taken
  <2> QED
      BY <2>1 DEF Init, OnceInv, Places, Takings
<1>2. OnceInv => Space!TakenOnce
    BY DEF OnceInv, Space!TakenOnce, Places, Takings
<1> QED
    BY <1>1, <1>2, OnceStep, SpaceStep, TsdInvariant, PTL DEF Spec

-------------------------------------------------------------------------------
(* While nobody closes the space *)

(* No program issues a TsTerm, so that none is ever on its way.              *)
NobodyCloses == \A c \in Clients : \A msg \in Workload[c] : msg.cmd # "TsTerm"

NoTermSent == \A c \in Clients : \A k \in DOMAIN inbox[c] : inbox[c][k].cmd # "TsTerm"

LEMMA NoTermSentAppend ==
  ASSUME TsdInv, NoTermSent, NEW c \in Clients, NEW msg \in Command, msg.cmd # "TsTerm", Send(c, msg)
  PROVE  NoTermSent'
<1> SUFFICES ASSUME NEW d \in Clients, NEW k \in DOMAIN inbox'[d]
             PROVE  inbox'[d][k].cmd # "TsTerm"
    BY DEF NoTermSent
<1>1. inbox[d] \in Seq(Command) /\ inbox[c] \in Seq(Command)
    BY DEF TsdInv, TypeOK
<1>2. inbox'[d] = IF d = c THEN Append(inbox[c], msg) ELSE inbox[d]
    BY DEF Send, TsdInv, TypeOK
<1>3. CASE d = c
  <2>1. inbox'[d][k] = msg \/ (k \in DOMAIN inbox[c] /\ inbox'[d][k] = inbox[c][k])
      BY <1>1, <1>2, <1>3, AppendProperties, LenProperties
  <2> QED
      BY <2>1 DEF NoTermSent
<1>4. CASE d # c
    BY <1>2, <1>4 DEF NoTermSent
<1> QED
    BY <1>3, <1>4

LEMMA NoTermSentTail ==
  ASSUME TsdInv, NoTermSent, NEW c \in Clients, NEW cmds, Handle(c, cmds)
  PROVE  NoTermSent' /\ Msg(c).cmd # "TsTerm"
<1>1. inbox[c] \in Seq(Command) /\ inbox[c] # <<>>
    BY DEF Handle, TsdInv, TypeOK
<1>2. /\ DOMAIN inbox[c] = 1..Len(inbox[c]) /\ Len(inbox[c]) \in Nat /\ Len(inbox[c]) # 0
      /\ DOMAIN Tail(inbox[c]) = 1..(Len(inbox[c]) - 1)
      /\ \A k \in 1..(Len(inbox[c]) - 1) : Tail(inbox[c])[k] = inbox[c][k + 1]
      /\ Head(inbox[c]) = inbox[c][1]
    BY <1>1, HeadTailProperties, EmptySeq, LenProperties
<1>3. Msg(c).cmd # "TsTerm"
  <2>1. 1 \in DOMAIN inbox[c]
      BY <1>2
  <2> QED
      BY <1>2, <2>1 DEF NoTermSent, Msg
<1>4. \A k \in DOMAIN Tail(inbox[c]) : Tail(inbox[c])[k].cmd # "TsTerm"
  <2> SUFFICES ASSUME NEW k \in DOMAIN Tail(inbox[c]) PROVE Tail(inbox[c])[k].cmd # "TsTerm"
      OBVIOUS
  <2>1. k + 1 \in DOMAIN inbox[c] /\ Tail(inbox[c])[k] = inbox[c][k + 1]
      BY <1>2
  <2> QED
      BY <2>1 DEF NoTermSent
<1>5. \A d \in Clients : inbox'[d] = IF d = c THEN Tail(inbox[c]) ELSE inbox[d]
    BY DEF Handle, TsdInv, TypeOK
<1> QED
    BY <1>3, <1>4, <1>5 DEF NoTermSent

LEMMA NoTermSentStep ==
  ASSUME NobodyCloses
  PROVE  TsdInv /\ NoTermSent /\ [Next]_vars => NoTermSent' /\ \A c \in Clients : ~HandleTerm(c)
<1> SUFFICES ASSUME TsdInv, NoTermSent, [Next]_vars
             PROVE  NoTermSent' /\ \A c \in Clients : ~HandleTerm(c)
    OBVIOUS
<1>1. \A c \in Clients : ~HandleTerm(c)
  <2> SUFFICES ASSUME NEW c \in Clients, HandleTerm(c) PROVE FALSE
      OBVIOUS
  <2>1. Handle(c, {"TsTerm"}) /\ Msg(c).cmd = "TsTerm"
      BY DEF HandleTerm, Handle
  <2> QED
      BY <2>1, NoTermSentTail
<1>2. ASSUME UNCHANGED inbox PROVE NoTermSent'
    BY <1>2 DEF NoTermSent
<1>3. ASSUME NEW c \in Clients, Client(c) PROVE NoTermSent'
  <2>1. CASE TsOpen(c)
    <3>1. [cmd |-> "TsConnect", arg |-> None] \in Command
        BY DEF Command, Others
    <3> QED
        BY <2>1, <3>1, NoTermSentAppend DEF TsOpen
  <2>2. CASE TsClose(c)
      BY <2>2 DEF TsClose, NobodyCloses
  <2>3. CASE Receive(c)
      BY <1>2, <2>3 DEF Receive
  <2>4. ASSUME NEW msg \in Workload[c], TsIn(c, msg) \/ TsOut(c, msg) PROVE NoTermSent'
    <3>1. msg \in Command /\ msg.cmd # "TsTerm"
        BY TsdAssumption DEF NobodyCloses
    <3> QED
        BY <2>4, <3>1, NoTermSentAppend DEF TsIn, TsOut
  <2> QED
      BY <1>3, <2>1, <2>2, <2>3, <2>4 DEF Client
<1>4. ASSUME NEW c \in Clients, Daemon(c) PROVE NoTermSent'
  <2>1. \E cmds : Handle(c, cmds)
      BY <1>4 DEF Daemon, HandleInactive, HandleConnect, HandlePut, HandleAdd, HandleQuery,
                 HandleBCastWrite, HandleBCastRead, HandleTerm
  <2> QED
      BY <2>1, NoTermSentTail
<1>5. CASE UNCHANGED vars
    BY <1>1, <1>2, <1>5 DEF vars
<1> QED
    BY <1>1, <1>3, <1>4, <1>5 DEF Next

(* Every tuple accepted is in the space or with a client.                    *)
Covered == \A n \in 1..accepted : n \in Places \/ \E c \in Clients : n \in Takings[c]

LEMMA CoveredStep == OnceInv /\ Covered /\ Moves => Covered'
<1> SUFFICES ASSUME OnceInv, Covered, Moves PROVE Covered'
    OBVIOUS
<1>0. DOMAIN Takings = Clients /\ DOMAIN Takings' = Clients
    BY DEF Takings
<1>a. \A n \in 1..(accepted + 1) : n \in 1..accepted \/ n = accepted + 1
    BY DEF OnceInv
<1>1. CASE Space!Put
  <2>1. accepted' = accepted + 1 /\ Places' = Places \union {accepted + 1} /\ Takings' = Takings
      BY <1>1 DEF Space!Put, Places, Takings
  <2> QED
      BY <1>a, <2>1 DEF Covered
<1>2. ASSUME NEW c \in Clients, Space!Hand(c) PROVE Covered'
  <2>1. /\ accepted' = accepted + 1 /\ Places' = Places
        /\ Takings' = [Takings EXCEPT ![c] = @ \union {accepted + 1}]
      BY <1>2 DEF Space!Hand, Places, Takings
  <2>2. \A d \in Clients :
            Takings'[d] = Takings[d] \union (IF d = c THEN {accepted + 1} ELSE {})
      BY <1>0, <2>1
  <2> QED
      BY <1>a, <2>1, <2>2 DEF Covered
<1>3. ASSUME NEW c \in Clients, NEW a \in Places, Space!Take(c, a) PROVE Covered'
  <2>1. /\ accepted' = accepted /\ Places' = Places \ {a}
        /\ Takings' = [Takings EXCEPT ![c] = @ \union {a}]
      BY <1>3 DEF Space!Take, Places, Takings
  <2>2. \A d \in Clients :
            Takings'[d] = Takings[d] \union (IF d = c THEN {a} ELSE {})
      BY <1>0, <2>1
  <2> QED
      BY <2>1, <2>2 DEF Covered
<1>4. CASE UNCHANGED <<accepted, Places, Takings>>
    BY <1>4 DEF Covered
<1> QED
    BY <1>1, <1>2, <1>3, <1>4 DEF Moves

(* If no program closes the space nothing is lost: a tuple that the daemon   *)
(* has accepted is in its queue, or has gone to exactly one client.          *)
THEOREM NothingIsLost == ASSUME NobodyCloses PROVE Spec => []Conserved
<1>1. Init => OnceInv /\ Covered /\ NoTermSent
  <2> SUFFICES ASSUME Init PROVE OnceInv /\ Covered /\ NoTermSent
      OBVIOUS
  <2>1. \A c \in Clients : Taken(c) = {}
      BY DEF Init, Taken
  <2>2. accepted = 0 /\ Places = {} /\ \A c \in Clients : inbox[c] = <<>> /\ Takings[c] = {}
      BY <2>1 DEF Init, Places, Takings
  <2> QED
      BY <2>2 DEF OnceInv, Covered, NoTermSent
<1>2. TsdInv /\ OnceInv /\ Covered /\ NoTermSent /\ [Next]_vars => (OnceInv /\ Covered /\ NoTermSent)'
  <2> SUFFICES ASSUME TsdInv, OnceInv, Covered, NoTermSent, [Next]_vars
               PROVE  OnceInv' /\ Covered' /\ NoTermSent'
      OBVIOUS
  <2>1. NoTermSent' /\ \A c \in Clients : ~HandleTerm(c)
      BY NoTermSentStep
  <2>2. Moves
      BY <2>1, StepMoves
  <2>3. Covered'
      BY <2>2, CoveredStep
  <2>4. OnceInv'
      BY SpaceStep, OnceStep
  <2> QED
      BY <2>1, <2>3, <2>4
<1>3. OnceInv /\ Covered => Conserved
  <2> SUFFICES ASSUME OnceInv, Covered, NEW n \in 1..accepted
               PROVE  \/ /\ \E t \in named_queue : t.at = n
                         /\ \A c \in Clients : n \notin Taken(c)
                      \/ /\ \A t \in named_queue : t.at # n
                         /\ \E c \in Clients : \A d \in Clients : n \in Taken(d) <=> d = c
      BY DEF Conserved
  <2>1. \A c \in Clients : Takings[c] = Taken(c)
      BY DEF Takings
  <2> QED
      BY <2>1 DEF OnceInv, Covered, Places
<1> QED
    BY <1>1, <1>2, <1>3, TsdInvariant, PTL DEF Spec

-------------------------------------------------------------------------------
(* Where the call of a client can be, while nobody closes the space *)

OnlyStores(s) == \A k \in 1..Len(s) : s[k].cmd \in Stores

EndsWith(s, msg) ==
    /\ s # <<>>
    /\ s[Len(s)] = msg
    /\ \A k \in 1..(Len(s) - 1) : s[k].cmd \in Stores

(* What the last reply to a call may be.                                     *)
Fits(r, msg) ==
    /\ r.re = "TsAck" /\ msg.cmd \in Reads => <<msg.arg, r.name>> \in Matches
    /\ r.mine => msg.cmd \in Takes
    /\ r.re # "TsEnf"

(* The daemon has looked at the query of c: c is on the list, for that call  *)
(* and once; or not, and has been, or is about to be, told the outcome (or   *)
(* was dropped, or is not told since the daemon died).                       *)
Listed(c) ==
    /\ call[c].cmd \in Waits
    /\ outbox[c] = <<>> \/ outbox[c] = <<Enf>>
    /\ \E q \in named_queue_requests :
          /\ Mine(named_queue_requests, c) = {q}
          /\ q.cmd = call[c].cmd /\ q.arg = call[c].arg

Told(c) ==
    /\ Mine(named_queue_requests, c) = {}
    /\ \/ outbox[c] = <<>>
       \/ outbox[c] = <<Enf>>
       \/ \E r \in Reply :
             /\ Fits(r, call[c])
             /\ \/ outbox[c] = <<r>>
                \/ outbox[c] = <<Enf, r>> /\ call[c].cmd \in Waits

Idle(c) == outbox[c] = <<>> /\ Mine(named_queue_requests, c) = {}

New(c)  == pc[c] = "new" /\ inbox[c] = <<>> /\ Idle(c)

Between(c) == pc[c] = "open" /\ is_activated /\ OnlyStores(inbox[c]) /\ Idle(c)

Connecting(c) ==
    /\ pc[c] = "calling" /\ call[c] = [cmd |-> "TsConnect", arg |-> None]
    /\ inbox[c] = <<call[c]>> /\ Idle(c)

Connected(c) ==
    /\ pc[c] = "calling" /\ call[c] = [cmd |-> "TsConnect", arg |-> None]
    /\ is_activated
    /\ inbox[c] = <<>> /\ Mine(named_queue_requests, c) = {}
    /\ \E r \in Reply : outbox[c] = <<r>> /\ Fits(r, call[c])

Asking(c) ==
    /\ pc[c] = "calling" /\ call[c].cmd \in Queries /\ is_activated
    /\ EndsWith(inbox[c], call[c]) /\ Idle(c)

Asked(c) ==
    /\ pc[c] = "calling" /\ call[c].cmd \in Queries /\ is_activated
    /\ inbox[c] = <<>>
    /\ Listed(c) \/ Told(c)

Phase(c) == New(c) \/ Between(c) \/ Connecting(c) \/ Connected(c) \/ Asking(c) \/ Asked(c)

LEMMA PhasesAreLive ==
  ASSUME TsdInv, \A c \in Clients : Phase(c)
  PROVE  RequestsAreLive /\ RepliesInStep
<1> USE DEF Phase, New, Between, Connecting, Connected, Asking, Asked, Idle
<1>1. ASSUME NEW q \in named_queue_requests
      PROVE  /\ pc[q.client] = "calling"
             /\ call[q.client] = [cmd |-> q.cmd, arg |-> q.arg]
             /\ inbox[q.client] = <<>>
             /\ \A k \in DOMAIN outbox[q.client] : outbox[q.client][k].re = "TsEnf"
             /\ \A p \in named_queue_requests : p.client = q.client => p = q
  <2> DEFINE c == q.client
  <2>1. c \in Clients /\ q \in Mine(named_queue_requests, c)
      BY DEF TsdInv, TypeOK, Request, Mine
  <2>2. pc[c] = "calling" /\ inbox[c] = <<>> /\ Listed(c)
      BY <2>1 DEF Told
  <2>3. /\ Mine(named_queue_requests, c) = {q}
        /\ q.cmd = call[c].cmd /\ q.arg = call[c].arg
      BY <2>1, <2>2 DEF Listed
  <2>4. call[c] = [cmd |-> q.cmd, arg |-> q.arg]
    <3>1. call[c] \in Command
        BY <2>1 DEF TsdInv, TypeOK
    <3> QED
        BY <2>3, <3>1 DEF Command
  <2>5. \A k \in DOMAIN outbox[c] : outbox[c][k].re = "TsEnf"
      BY <2>2 DEF Listed, Enf
  <2>6. \A p \in named_queue_requests : p.client = c => p = q
      BY <2>3 DEF Mine
  <2> QED
      BY <2>2, <2>4, <2>5, <2>6
<1>2. ASSUME NEW c \in Clients
      PROVE  /\ pc[c] = "open" => outbox[c] = <<>>
             /\ pc[c] = "calling" => \A k \in DOMAIN outbox[c] :
                   /\ outbox[c][k].re = "TsAck" /\ call[c].cmd \in Reads
                         => <<call[c].arg, outbox[c][k].name>> \in Matches
                   /\ outbox[c][k].mine => call[c].cmd \in Takes
  <2>1. pc[c] = "open" => outbox[c] = <<>>
      OBVIOUS
  <2>2. ASSUME pc[c] = "calling", NEW k \in DOMAIN outbox[c]
        PROVE  outbox[c][k] = Enf \/ Fits(outbox[c][k], call[c])
      BY <2>2 DEF Listed, Told
  <2> QED
      BY <2>1, <2>2 DEF Enf, Fits
<1> QED
    BY <1>1, <1>2 DEF RequestsAreLive, RepliesInStep

LEMMA StoresAppend ==
  ASSUME NEW s \in Seq(Command), NEW msg \in Command, OnlyStores(s)
  PROVE  /\ msg.cmd \in Stores => OnlyStores(Append(s, msg))
         /\ EndsWith(Append(s, msg), msg)
<1>1. /\ Len(Append(s, msg)) = Len(s) + 1 /\ Len(s) \in Nat
      /\ \A k \in 1..Len(s) : Append(s, msg)[k] = s[k]
      /\ Append(s, msg)[Len(s) + 1] = msg
    BY AppendProperties, LenProperties
<1>2. \A k \in 1..(Len(s) + 1) : k \in 1..Len(s) \/ k = Len(s) + 1
    BY <1>1
<1>3. Append(s, msg) # <<>>
    BY <1>1
<1> QED
    BY <1>1, <1>2, <1>3 DEF OnlyStores, EndsWith

LEMMA StoresTail ==
  ASSUME NEW s \in Seq(Command), s # <<>>
  PROVE  /\ OnlyStores(s) => Head(s).cmd \in Stores /\ OnlyStores(Tail(s))
         /\ \A msg : EndsWith(s, msg) =>
               \/ Head(s) = msg /\ Tail(s) = <<>>
               \/ Head(s).cmd \in Stores /\ EndsWith(Tail(s), msg)
<1> DEFINE t == Tail(s)
<1>1. /\ Len(s) \in Nat /\ Len(s) # 0 /\ Len(t) = Len(s) - 1
      /\ \A k \in 1..Len(t) : t[k] = s[k + 1]
      /\ Head(s) = s[1] /\ t \in Seq(Command)
    BY HeadTailProperties, EmptySeq, LenProperties
<1> HIDE DEF t
<1>2. ASSUME OnlyStores(s) PROVE Head(s).cmd \in Stores /\ OnlyStores(t)
  <2>1. 1 \in 1..Len(s) /\ \A k \in 1..Len(t) : k + 1 \in 1..Len(s)
      BY <1>1
  <2> QED
      BY <1>1, <1>2, <2>1 DEF OnlyStores
<1>3. ASSUME NEW msg, EndsWith(s, msg)
      PROVE  \/ Head(s) = msg /\ t = <<>>
             \/ Head(s).cmd \in Stores /\ EndsWith(t, msg)
  <2>1. CASE Len(s) = 1
    <3>1. t = <<>>
      <4>1. Len(t) = 0
          BY <1>1, <2>1
      <4> QED
          BY <1>1, <4>1, EmptySeq
    <3>2. Head(s) = msg
        BY <1>1, <1>3, <2>1 DEF EndsWith
    <3> QED
        BY <3>1, <3>2
  <2>2. CASE Len(s) # 1
    <3>1. /\ 1 \in 1..(Len(s) - 1) /\ Len(t) \in 1..Len(t)
          /\ (Len(s) - 1) + 1 = Len(s)
          /\ \A k \in 1..(Len(t) - 1) : k \in 1..Len(t) /\ k + 1 \in 1..(Len(s) - 1)
        BY <1>1, <2>2
    <3>2. t # <<>>
        BY <1>1, <2>2, EmptySeq
    <3>3. t[Len(t)] = msg
        BY <1>1, <1>3, <3>1 DEF EndsWith
    <3>4. \A k \in 1..(Len(t) - 1) : t[k].cmd \in Stores
      <4> SUFFICES ASSUME NEW k \in 1..(Len(t) - 1) PROVE t[k].cmd \in Stores
          OBVIOUS
      <4>1. t[k] = s[k + 1] /\ k + 1 \in 1..(Len(s) - 1)
          BY <1>1, <3>1
      <4> QED
          BY <1>3, <4>1 DEF EndsWith
    <3>5. Head(s).cmd \in Stores
        BY <1>1, <1>3, <3>1 DEF EndsWith
    <3> QED
        BY <3>2, <3>3, <3>4, <3>5 DEF EndsWith
  <2> QED
      BY <2>1, <2>2
<1> QED
    BY <1>2, <1>3 DEF t

(* What a step does to other clients leaves a client where it is.            *)
LEMMA PhaseKept ==
  ASSUME NEW c \in Clients, Phase(c),
         pc'[c] = pc[c], call'[c] = call[c], inbox'[c] = inbox[c], outbox'[c] = outbox[c],
         Mine(named_queue_requests', c) = Mine(named_queue_requests, c),
         is_activated => is_activated'
  PROVE  Phase(c)'
<1> USE DEF Idle
<1>1. CASE New(c)
    BY <1>1 DEF New, Phase
<1>2. CASE Between(c)
    BY <1>2 DEF Between, Phase
<1>3. CASE Connecting(c)
    BY <1>3 DEF Connecting, Phase
<1>4. CASE Connected(c)
    BY <1>4 DEF Connected, Phase
<1>5. CASE Asking(c)
    BY <1>5 DEF Asking, Phase
<1>6. CASE Asked(c)
  <2>1. Listed(c) => Listed(c)'
    <3> SUFFICES ASSUME Listed(c) PROVE Listed(c)'
        OBVIOUS
    <3>1. PICK q \in named_queue_requests :
              /\ Mine(named_queue_requests, c) = {q}
              /\ q.cmd = call[c].cmd /\ q.arg = call[c].arg
        BY DEF Listed
    <3>2. q \in Mine(named_queue_requests', c)
        BY <3>1
    <3>3. q \in named_queue_requests'
        BY <3>2 DEF Mine
    <3> QED
        BY <3>1, <3>3 DEF Listed
  <2>2. Told(c) => Told(c)'
      BY DEF Told
  <2> QED
      BY <1>6, <2>1, <2>2 DEF Asked, Phase
<1> QED
    BY <1>1, <1>2, <1>3, <1>4, <1>5, <1>6 DEF Phase

(* The next message of a client says where the client is.                    *)
LEMMA MsgPhase ==
  ASSUME TsdInv, NEW c \in Clients, Phase(c), NEW cmds, Handle(c, cmds)
  PROVE  \/ Connecting(c) /\ Msg(c) = call[c] /\ inbox'[c] = <<>>
         \/ Between(c) /\ Msg(c).cmd \in Stores /\ OnlyStores(inbox'[c])
         \/ Asking(c) /\ Msg(c).cmd \in Stores /\ EndsWith(inbox'[c], call[c])
         \/ Asking(c) /\ Msg(c) = call[c] /\ inbox'[c] = <<>>
<1>1. inbox[c] \in Seq(Command) /\ inbox[c] # <<>> /\ inbox'[c] = Tail(inbox[c])
    BY DEF Handle, TsdInv, TypeOK
<1>2. CASE Connecting(c)
    BY <1>1, <1>2 DEF Connecting, Msg
<1>3. CASE Between(c)
    BY <1>1, <1>3, StoresTail DEF Between, Msg
<1>4. CASE Asking(c)
    BY <1>1, <1>4, StoresTail DEF Asking, Msg
<1>5. New(c) \/ Connected(c) \/ Asked(c) => FALSE
    BY <1>1 DEF New, Connected, Asked
<1> QED
    BY <1>2, <1>3, <1>4, <1>5 DEF Phase

(* A command that stores is not answered, and changes nothing for its client.*)
LEMMA StoreKeepsPhase ==
  ASSUME TsdInv, NEW c \in Clients, Phase(c), NEW cmds \in SUBSET Stores, Handle(c, cmds),
         is_activated', Idle(c) => Idle(c)'
  PROVE  Phase(c)'
<1>1. Msg(c).cmd \in Stores /\ pc' = pc /\ call' = call
    BY DEF Handle, clientVars
<1>2. \A msg : msg.cmd = "TsConnect" \/ msg.cmd \in Queries => msg.cmd \notin Stores
    BY DEF Queries, Stores, Writes, Reads, Fetches, BCastReads
<1>3. CASE Between(c) /\ OnlyStores(inbox'[c])
    BY <1>1, <1>3 DEF Between, Phase
<1>4. CASE Asking(c) /\ EndsWith(inbox'[c], call[c])
    BY <1>1, <1>4 DEF Asking, Phase
<1>5. ~(Connecting(c) /\ Msg(c) = call[c]) /\ ~(Asking(c) /\ Msg(c) = call[c])
    BY <1>1, <1>2 DEF Connecting, Asking
<1> QED
    BY <1>3, <1>4, <1>5, MsgPhase

LEMMA ActivatedIsKept ==
  ASSUME NEW c \in Clients, Client(c) \/ Daemon(c), ~HandleTerm(c), is_activated
  PROVE  is_activated'
<1>1. CASE Client(c)
    BY <1>1 DEF Client, TsOpen, TsClose, Receive, TsIn, TsOut, spaceVars
<1>2. CASE HandleInactive(c)
    BY <1>2 DEF HandleInactive
<1>3. CASE HandlePut(c) \/ HandleAdd(c) \/ HandleQuery(c) \/ HandleBCastWrite(c) \/ HandleBCastRead(c)
    BY <1>3 DEF HandlePut, HandleAdd, HandleQuery, HandleBCastWrite, HandleBCastRead
<1>4. CASE HandleConnect(c)
    BY <1>4 DEF HandleConnect
<1> QED
    BY <1>1, <1>2, <1>3, <1>4 DEF Daemon

LEMMA ShortSeqs ==
  ASSUME NEW e \in Reply, NEW r \in Reply
  PROVE  <<>> \o <<r>> = <<r>> /\ <<e>> \o <<r>> = <<e, r>>
<1>1. <<e>> \in Seq(Reply) /\ <<r>> \in Seq(Reply)
    OBVIOUS
<1>2. <<>> \o <<r>> = <<r>>
    BY <1>1, ConcatEmptySeq
<1>3. <<e>> \o <<r>> = Append(<<e>>, r)
    BY <1>1
<1>4. Append(<<e>>, r) = <<e, r>>
  <2> DEFINE s == Append(<<e>>, r)
             t == <<e, r>>
  <2>1. s \in Seq(Reply) /\ Len(s) = 2 /\ s[1] = e /\ s[2] = r
      BY <1>1, AppendProperties
  <2>2. t \in Seq(Reply) /\ Len(t) = 2 /\ t[1] = e /\ t[2] = r
      OBVIOUS
  <2>3. \A i \in 1..2 : s[i] = t[i]
      BY <2>1, <2>2
  <2> HIDE DEF s, t
  <2>4. s = t
      BY <2>1, <2>2, <2>3, SeqEqual
  <2> QED
      BY <2>4 DEF s, t
<1> QED
    BY <1>2, <1>3, <1>4

(* The one request of a client gets one reply.                               *)
LEMMA OneReply ==
  ASSUME NEW S, Numbered(S), NEW c, NEW q, Mine(S, c) = {q}, NEW t
  PROVE  TupleReplies(S, c, t) = <<Found(t, q.cmd)>>
<1> DEFINE M == Mine(S, c)
<1>1. Cardinality({q}) = 1
    BY FS_Singleton
<1>2. M = {q} /\ Cardinality(M) = 1
    BY <1>1
<1>3. InOrder(M)[1] = q
  <2>1. Numbered(M)
      BY NumberedSubset DEF Mine
  <2>2. InOrder(M)[1] \in M
      BY <1>2, <2>1, InOrderNumbers
  <2> QED
      BY <1>2, <2>2
<1>4. TupleReplies(S, c, t) = [k \in 1..1 |-> Found(t, InOrder(M)[k].cmd)]
    BY <1>2 DEF TupleReplies
<1> QED
    BY <1>3, <1>4

(* A tuple that arrives is either not for d, or answers the request of d (or *)
(* drops it).                                                                *)
LEMMA MatchPhase ==
  ASSUME TsdInv, NEW d \in Clients, Phase(d), NEW t \in Tuple, MatchBlockingRequests(t),
         call' = call
  PROVE  \/ outbox'[d] = outbox[d] /\ Mine(named_queue_requests', d) = Mine(named_queue_requests, d)
         \/ Asked(d) /\ Told(d)'
<1> DEFINE R == named_queue_requests
           M == Matching(t)
           S == Served(M)
<1>1. S \in SUBSET M /\ M \in SUBSET R /\ Numbered(R) /\ Numbered(S) /\ outbox[d] \in Seq(Reply)
    BY NumberedSubset DEF Matching, Served, TsdInv, TypeOK
<1>2. outbox' = [c \in Clients |-> outbox[c] \o TupleReplies(S, c, t)]
    BY AnswerAllFound DEF MatchBlockingRequests
<1>3. outbox'[d] = outbox[d] \o TupleReplies(S, d, t)
    BY <1>2
<1>4. R' \in SUBSET R /\ R' \intersect S = {}
    BY DEF MatchBlockingRequests
<1>5. ASSUME Mine(S, d) = {} PROVE outbox'[d] = outbox[d]
  <2>1. TupleReplies(S, d, t) \in Seq(Reply) /\ Len(TupleReplies(S, d, t)) = 0
      BY <1>1, <1>5, TupleRepliesType, FS_EmptySet
  <2>2. TupleReplies(S, d, t) = <<>>
      BY <2>1, EmptySeq
  <2> QED
      BY <1>1, <1>3, <2>2, ConcatEmptySeq
<1>6. CASE Mine(R, d) = {}
  <2>1. Mine(S, d) = {} /\ Mine(R', d) = {}
      BY <1>1, <1>4, <1>6 DEF Mine
  <2> QED
      BY <1>5, <1>6, <2>1
<1>7. CASE Mine(R, d) # {}
  <2>1. Asked(d) /\ Listed(d)
      BY <1>7 DEF Phase, New, Between, Connecting, Connected, Asking, Asked, Idle, Told
  <2>2. PICK q \in R : Mine(R, d) = {q} /\ q.cmd = call[d].cmd /\ q.arg = call[d].arg
      BY <2>1 DEF Listed
  <2>3. CASE q \in S
    <3> DEFINE r == Found(t, q.cmd)
    <3>1. Mine(S, d) = {q} /\ Mine(R', d) = {}
        BY <1>1, <1>4, <2>2, <2>3 DEF Mine
    <3>2. TupleReplies(S, d, t) = <<r>>
        BY <1>1, <3>1, OneReply
    <3>3. outbox'[d] = <<r>> \/ outbox'[d] = <<Enf, r>>
      <4>1. <<>> \o <<r>> = <<r>> /\ <<Enf>> \o <<r>> = <<Enf, r>>
          BY FoundType, EnfType, ShortSeqs
      <4>2. outbox'[d] = outbox[d] \o <<r>>
          BY <1>3, <3>2
      <4>3. outbox[d] = <<>> \/ outbox[d] = <<Enf>>
          BY <2>1 DEF Listed
      <4> QED
          BY <4>1, <4>2, <4>3
    <3>4. RequestMatches(q, t)
        BY <1>1, <2>3 DEF Matching
    <3>5. Fits(r, call[d])
        BY <2>2, <3>4 DEF Fits, Found, RequestMatches, Reads, Fetches
    <3>6. r \in Reply
        BY FoundType
    <3>7. Told(d)'
        BY <2>1, <3>1, <3>3, <3>5, <3>6 DEF Told, Listed
    <3> QED
        BY <2>1, <3>7
  <2>4. CASE q \notin S
    <3>1. Mine(S, d) = {}
        BY <1>1, <2>2, <2>4 DEF Mine
    <3>2. CASE q \in R'
      <4>1. Mine(R', d) = Mine(R, d)
          BY <1>4, <2>2, <3>2 DEF Mine
      <4> QED
          BY <1>5, <3>1, <4>1
    <3>3. CASE q \notin R'
      <4>1. Mine(R', d) = {}
          BY <1>4, <2>2, <3>3 DEF Mine
      <4>2. Told(d)'
          BY <1>5, <2>1, <3>1, <4>1 DEF Listed, Told
      <4> QED
          BY <2>1, <4>2
    <3> QED
        BY <3>2, <3>3
  <2> QED
      BY <2>3, <2>4
<1> QED
    BY <1>6, <1>7

(* A query is looked at: its client is on the list or has been told.         *)
LEMMA QueryPhase ==
  ASSUME TsdInv, NEW c \in Clients, Asking(c), Msg(c) = call[c], NEW cmds, Handle(c, cmds),
         inbox'[c] = <<>>, is_activated',
         \/ NotFound(c)
         \/ Candidates(Msg(c)) # {} /\ FoundOne(c, First(Candidates(Msg(c))))
  PROVE  /\ Asked(c)'
         /\ \A d \in Clients : d # c =>
               /\ outbox'[d] = outbox[d]
               /\ Mine(named_queue_requests', d) = Mine(named_queue_requests, d)
<1> DEFINE R == named_queue_requests
<1>1. pc[c] = "calling" /\ call[c].cmd \in Queries /\ outbox[c] = <<>> /\ Mine(R, c) = {}
    BY DEF Asking, Idle
<1>2. pc' = pc /\ call' = call
    BY DEF Handle, clientVars
<1>3. \A m \in Reply : <<>> \o <<m>> = <<m>> /\ Append(<<>>, m) = <<m>>
    OBVIOUS
<1>4. \A r : Answer(c, r) => /\ outbox'[c] = Append(outbox[c], r)
                             /\ \A d \in Clients : d # c => outbox'[d] = outbox[d]
    BY DEF Answer, TsdInv, TypeOK
<1>5. CASE NotFound(c)
  <2> DEFINE q == [at |-> NextPlace(R), client |-> c, cmd |-> call[c].cmd, arg |-> call[c].arg]
  <2>1. outbox'[c] = <<Enf>> /\ \A d \in Clients : d # c => outbox'[d] = outbox[d]
      BY <1>1, <1>3, <1>4, <1>5, EnfType DEF NotFound
  <2>2. CASE call[c].cmd \in Waits
    <3>1. R' = R \union {q}
        BY <1>5, <2>2 DEF NotFound, QueueRequest
    <3>2. Mine(R', c) = {q} /\ q \in R' /\ q.cmd = call[c].cmd /\ q.arg = call[c].arg
        BY <1>1, <3>1 DEF Mine
    <3>3. \A d \in Clients : d # c => Mine(R', d) = Mine(R, d)
        BY <3>1 DEF Mine
    <3>4. Listed(c)'
        BY <1>2, <2>1, <2>2, <3>2 DEF Listed
    <3> QED
        BY <1>1, <1>2, <2>1, <3>3, <3>4 DEF Asked
  <2>3. CASE call[c].cmd \notin Waits
    <3>1. R' = R
        BY <1>5, <2>3 DEF NotFound, QueueRequest
    <3>2. Told(c)'
        BY <1>1, <1>2, <2>1, <3>1 DEF Told
    <3> QED
        BY <1>1, <1>2, <2>1, <3>1, <3>2 DEF Asked
  <2> QED
      BY <2>2, <2>3
<1>6. CASE Candidates(Msg(c)) # {} /\ FoundOne(c, First(Candidates(Msg(c))))
  <2> DEFINE t == First(Candidates(Msg(c)))
             r == Found(t, call[c].cmd)
  <2>1. Candidates(Msg(c)) \subseteq named_queue
      BY DEF Candidates
  <2>2. t \in Candidates(Msg(c)) /\ t \in Tuple
      BY <1>6, <2>1, FirstIsFirst DEF TsdInv, TypeOK, Numbered
  <2>3. r \in Reply
      BY <2>2, FoundType
  <2>4. Fits(r, call[c])
      BY <2>2 DEF Fits, Found, Candidates, Reads, Fetches
  <2>5. R' = R /\ Answer(c, r)
      BY <1>6 DEF FoundOne
  <2>6. outbox'[c] = <<r>> /\ \A d \in Clients : d # c => outbox'[d] = outbox[d]
      BY <1>1, <1>3, <1>4, <2>3, <2>5
  <2>7. Told(c)'
      BY <1>1, <1>2, <2>3, <2>4, <2>5, <2>6 DEF Told
  <2> QED
      BY <1>1, <1>2, <2>5, <2>6, <2>7 DEF Asked
<1> QED
    BY <1>5, <1>6

LEMMA ClientKeepsPhases ==
  ASSUME TsdInv, \A d \in Clients : Phase(d), NobodyCloses, NEW c \in Clients, Client(c)
  PROVE  \A d \in Clients : Phase(d)'
<1> DEFINE R == named_queue_requests
<1>0. /\ DOMAIN inbox = Clients /\ DOMAIN outbox = Clients
      /\ DOMAIN pc = Clients /\ DOMAIN call = Clients
      /\ inbox[c] \in Seq(Command) /\ outbox[c] \in Seq(Reply)
    BY DEF TsdInv, TypeOK
<1>1. is_activated' = is_activated /\ R' = R
    BY DEF Client, TsOpen, TsClose, Receive, TsIn, TsOut, spaceVars
<1>2. ASSUME NEW d \in Clients, d # c PROVE Phase(d)'
  <2>1. pc'[d] = pc[d] /\ call'[d] = call[d] /\ inbox'[d] = inbox[d] /\ outbox'[d] = outbox[d]
      BY <1>0, <1>2 DEF Client, TsOpen, TsClose, Receive, TsIn, TsOut, Send, Begin
  <2> QED
      BY <1>1, <2>1, PhaseKept
<1>3. Phase(c)'
  <2>1. CASE TsOpen(c)
    <3> DEFINE m == [cmd |-> "TsConnect", arg |-> None]
    <3>1. New(c)
        BY <2>1 DEF TsOpen, Phase, New, Between, Connecting, Connected, Asking, Asked
    <3>2. pc'[c] = "calling" /\ call'[c] = m /\ inbox'[c] = <<m>> /\ outbox' = outbox
        BY <1>0, <2>1, <3>1 DEF TsOpen, Send, Begin, New
    <3> QED
        BY <1>1, <3>1, <3>2 DEF New, Connecting, Phase, Idle
  <2>2. CASE TsClose(c)
      BY <2>2 DEF TsClose, NobodyCloses
  <2>3. ASSUME NEW m \in Workload[c], TsIn(c, m) PROVE Phase(c)'
    <3>1. m \in Command
        BY TsdAssumption
    <3>2. Between(c)
        BY <2>3 DEF TsIn, Phase, New, Between, Connecting, Connected, Asking, Asked
    <3>3. inbox'[c] = Append(inbox[c], m) /\ pc' = pc /\ outbox' = outbox /\ m.cmd \in Stores
        BY <1>0, <2>3 DEF TsIn, Send
    <3>4. OnlyStores(inbox'[c])
        BY <1>0, <3>1, <3>2, <3>3, StoresAppend DEF Between
    <3> QED
        BY <1>1, <3>2, <3>3, <3>4 DEF Between, Phase, Idle
  <2>4. ASSUME NEW m \in Workload[c], TsOut(c, m) PROVE Phase(c)'
    <3>1. m \in Command
        BY TsdAssumption
    <3>2. Between(c)
        BY <2>4 DEF TsOut, Phase, New, Between, Connecting, Connected, Asking, Asked
    <3>3. /\ inbox'[c] = Append(inbox[c], m) /\ pc'[c] = "calling" /\ call'[c] = m
          /\ outbox' = outbox /\ m.cmd \in Queries
        BY <1>0, <2>4 DEF TsOut, Send, Begin
    <3>4. EndsWith(inbox'[c], m)
        BY <1>0, <3>1, <3>2, <3>3, StoresAppend DEF Between
    <3> QED
        BY <1>1, <3>2, <3>3, <3>4 DEF Between, Asking, Phase, Idle
  <2>5. CASE Receive(c)
    <3> DEFINE r == Head(outbox[c])
    <3>1. /\ pc[c] = "calling" /\ outbox[c] # <<>> /\ outbox'[c] = Tail(outbox[c]) /\ inbox' = inbox
          /\ pc'[c] = IF WaitsOn(c, r) THEN "calling" ELSE "open"
          /\ call'[c] = IF WaitsOn(c, r) THEN call[c] ELSE NoCall
        BY <1>0, <2>5 DEF Receive
    <3>2. \A m \in Reply : Head(<<m>>) = m /\ Tail(<<m>>) = <<>>
        OBVIOUS
    <3>3. \A m, n \in Reply : Head(<<m, n>>) = m /\ Tail(<<m, n>>) = <<n>>
        OBVIOUS
    <3>4. Enf \in Reply /\ Enf.re = "TsEnf" /\ OnlyStores(<<>>)
        BY EnfType DEF Enf, OnlyStores
    <3>5. CASE Connected(c)
      <4>1. ~WaitsOn(c, r) /\ outbox'[c] = <<>>
          BY <3>1, <3>2, <3>5 DEF Connected, WaitsOn, Fits
      <4> QED
          BY <1>1, <3>1, <3>4, <3>5, <4>1 DEF Connected, Between, Phase, Idle
    <3>6. CASE Asked(c) /\ Listed(c)
      <4>1. outbox[c] = <<Enf>> /\ r = Enf /\ outbox'[c] = <<>> /\ WaitsOn(c, r)
          BY <3>1, <3>2, <3>4, <3>6 DEF Listed, WaitsOn
      <4>2. Listed(c)'
          BY <1>1, <3>1, <3>6, <4>1 DEF Listed
      <4> QED
          BY <1>1, <3>1, <3>6, <4>1, <4>2 DEF Asked, Phase
    <3>7. CASE Asked(c) /\ Told(c)
      <4>1. CASE WaitsOn(c, r)
        <5>1. /\ pc'[c] = "calling" /\ call'[c] = call[c] /\ r.re = "TsEnf"
            BY <3>1, <4>1 DEF WaitsOn
        <5>2. \/ outbox'[c] = <<>>
              \/ \E e \in Reply : Fits(e, call[c]) /\ outbox'[c] = <<e>>
            BY <3>1, <3>2, <3>3, <3>4, <3>7, <5>1 DEF Told, Fits
        <5>3. Told(c)'
            BY <1>1, <3>7, <5>1, <5>2 DEF Told
        <5> QED
            BY <1>1, <3>1, <3>7, <5>1, <5>3 DEF Asked, Phase
      <4>2. CASE ~WaitsOn(c, r)
        <5>1. outbox'[c] = <<>>
          <6>1. ASSUME NEW e \in Reply, outbox[c] = <<Enf, e>>, call[c].cmd \in Waits PROVE FALSE
              BY <3>3, <3>4, <4>2, <6>1 DEF WaitsOn
          <6>2. outbox[c] = <<Enf>> \/ \E e \in Reply : outbox[c] = <<e>>
              BY <3>1, <3>7, <6>1 DEF Told
          <6> QED
              BY <3>1, <3>2, <3>4, <6>2
        <5> QED
            BY <1>1, <3>1, <3>4, <3>7, <4>2, <5>1 DEF Asked, Told, Between, Phase, Idle
      <4> QED
          BY <4>1, <4>2
    <3> QED
        BY <3>1, <3>5, <3>6, <3>7 DEF Phase, New, Between, Connecting, Asking, Asked, Idle
  <2> QED
      BY <2>1, <2>2, <2>3, <2>4, <2>5 DEF Client
<1> QED
    BY <1>2, <1>3

LEMMA DaemonKeepsPhases ==
  ASSUME TsdInv, \A d \in Clients : Phase(d), NEW c \in Clients, Daemon(c), ~HandleTerm(c)
  PROVE  \A d \in Clients : Phase(d)'
<1> DEFINE R == named_queue_requests
<1>0. /\ DOMAIN inbox = Clients /\ DOMAIN outbox = Clients
      /\ inbox[c] \in Seq(Command) /\ outbox[c] \in Seq(Reply)
    BY DEF TsdInv, TypeOK
<1>1. is_activated => is_activated'
    BY ActivatedIsKept
<1>2. PICK cmds : Handle(c, cmds)
    BY DEF Daemon, HandleInactive, HandleConnect, HandlePut, HandleAdd, HandleQuery,
           HandleBCastWrite, HandleBCastRead
<1>3. /\ pc' = pc /\ call' = call
      /\ \A d \in Clients : d # c => inbox'[d] = inbox[d]
    BY <1>0, <1>2 DEF Handle, clientVars
<1>4. ASSUME NEW d \in Clients, d # c, outbox'[d] = outbox[d], Mine(R', d) = Mine(R, d)
      PROVE  Phase(d)'
    BY <1>1, <1>3, <1>4, PhaseKept
<1>5. \A r : Answer(c, r) => /\ outbox'[c] = Append(outbox[c], r)
                             /\ \A d \in Clients : d # c => outbox'[d] = outbox[d]
    BY <1>0 DEF Answer
<1>6. \A m \in Reply : Append(<<>>, m) = <<m>>
    OBVIOUS
<1>7. CASE HandleInactive(c)
  <2>1. ~is_activated /\ Msg(c).cmd # "TsConnect"
      BY <1>7 DEF HandleInactive, Handle, Stores, Queries, Writes, Reads, Fetches, BCastReads
  <2> QED
      BY <1>2, <2>1, MsgPhase DEF Between, Asking, Connecting
<1>8. CASE HandleConnect(c)
  <2> DEFINE r == [re |-> "TsModeMaster", at |-> 0, name |-> None, mine |-> FALSE]
  <2>1. Msg(c).cmd = "TsConnect" /\ Answer(c, r) /\ is_activated' /\ R' = R
      BY <1>8 DEF HandleConnect, Handle
  <2>2. Connecting(c) /\ inbox'[c] = <<>>
      BY <1>2, <2>1, MsgPhase DEF Asking, Stores, Queries, Writes, Reads, Fetches, BCastReads
  <2>3. r \in Reply /\ Fits(r, call[c])
      BY DEF Reply, Fits
  <2>4. outbox'[c] = <<r>>
      BY <1>5, <1>6, <2>1, <2>2, <2>3 DEF Connecting, Idle
  <2>5. Phase(c)'
      BY <1>3, <2>1, <2>2, <2>3, <2>4 DEF Connecting, Connected, Phase, Idle
  <2> QED
      BY <1>4, <1>5, <2>1, <2>5
<1>9. ASSUME Handle(c, {"TsPut"}) \/ Handle(c, {"TsAdd"}), is_activated',
             NEW t \in Tuple, MatchBlockingRequests(t)
      PROVE  \A d \in Clients : Phase(d)'
  <2>1. ASSUME NEW d \in Clients
        PROVE  \/ outbox'[d] = outbox[d] /\ Mine(R', d) = Mine(R, d)
               \/ Asked(d) /\ Told(d)'
      BY <1>3, <1>9, MatchPhase
  <2>2. ASSUME NEW d \in Clients, d # c PROVE Phase(d)'
    <3>1. CASE Asked(d) /\ Told(d)'
        BY <1>3, <1>9, <2>2, <3>1 DEF Asked, Phase
    <3> QED
        BY <1>4, <2>1, <2>2, <3>1
  <2>3. Phase(c)'
    <3>1. {"TsPut"} \in SUBSET Stores /\ {"TsAdd"} \in SUBSET Stores
        BY DEF Stores, Writes
    <3>2. ~Asked(c)
        BY <1>2 DEF Handle, Asked
    <3>3. Idle(c) => Idle(c)'
        BY <2>1, <3>2 DEF Idle
    <3> QED
        BY <1>9, <3>1, <3>3, StoreKeepsPhase
  <2> QED
      BY <2>2, <2>3
<1>10. CASE HandlePut(c)
  <2> DEFINE t == [at |-> accepted + 1, name |-> Msg(c).arg]
  <2>1. Msg(c) \in Command /\ Msg(c).cmd = "TsPut"
      BY <1>10, TsdInvParts, HandleType DEF HandlePut
  <2>2. Msg(c).arg \in Names \union {None}
      BY <2>1 DEF Command, Stores, Writes, Queries, Reads, Fetches, BCastReads, Others
  <2>3. t \in Tuple
      BY <2>2 DEF Tuple, TsdInv, TypeOK
  <2> QED
      BY <1>9, <1>10, <2>3 DEF HandlePut
<1>11. CASE HandleAdd(c)
  <2>1. CASE R = {}
    <3> DEFINE t == [at |-> accepted + 1, name |-> None]
    <3>1. t \in Tuple
        BY DEF Tuple, TsdInv, TypeOK
    <3> QED
        BY <1>9, <1>11, <2>1, <3>1 DEF HandleAdd
  <2>2. CASE R # {}
    <3>1. R' = R /\ outbox' = outbox /\ is_activated' /\ Handle(c, {"TsAdd"})
        BY <1>11, <2>2 DEF HandleAdd
    <3>2. {"TsAdd"} \in SUBSET Stores
        BY DEF Stores, Writes
    <3>3. Phase(c)'
        BY <3>1, <3>2, StoreKeepsPhase DEF Idle
    <3> QED
        BY <1>4, <3>1, <3>3
  <2> QED
      BY <2>1, <2>2
<1>12. CASE HandleQuery(c)
  <2>1. Handle(c, Reads \union Fetches) /\ is_activated'
      BY <1>12 DEF HandleQuery
  <2>2. Msg(c).cmd \notin Stores /\ Msg(c).cmd # "TsConnect"
      BY <2>1 DEF Handle, Stores, Writes, Reads, Fetches
  <2>3. Asking(c) /\ Msg(c) = call[c] /\ inbox'[c] = <<>>
      BY <2>1, <2>2, MsgPhase DEF Connecting
  <2>4. /\ Asked(c)'
        /\ \A d \in Clients : d # c => outbox'[d] = outbox[d] /\ Mine(R', d) = Mine(R, d)
      BY <1>12, <2>1, <2>3, QueryPhase DEF HandleQuery
  <2>5. Phase(c)'
      BY <2>4 DEF Phase
  <2> QED
      BY <1>4, <2>4, <2>5
<1>13. CASE HandleBCastWrite(c)
  <2>1. R' = R /\ outbox' = outbox /\ is_activated' /\ Handle(c, {"TsBCast_Write"})
      BY <1>13 DEF HandleBCastWrite
  <2>2. {"TsBCast_Write"} \in SUBSET Stores
      BY DEF Stores
  <2>3. Phase(c)'
      BY <2>1, <2>2, StoreKeepsPhase DEF Idle
  <2> QED
      BY <1>4, <2>1, <2>3
<1>14. CASE HandleBCastRead(c)
  <2>1. Handle(c, BCastReads) /\ is_activated' /\ R' = R /\ (Answer(c, Enf) \/ outbox' = outbox)
      BY <1>14 DEF HandleBCastRead
  <2>2. Msg(c).cmd \notin Stores /\ Msg(c).cmd # "TsConnect"
      BY <2>1 DEF Handle, Stores, Writes, BCastReads
  <2>3. Asking(c) /\ Msg(c) = call[c] /\ inbox'[c] = <<>>
      BY <2>1, <2>2, MsgPhase DEF Connecting
  <2>4. outbox'[c] = <<>> \/ outbox'[c] = <<Enf>>
      BY <1>5, <1>6, <2>1, <2>3, EnfType DEF Asking, Idle
  <2>5. Told(c)'
      BY <2>1, <2>3, <2>4 DEF Told, Asking, Idle
  <2>6. Phase(c)'
      BY <1>3, <2>1, <2>3, <2>5 DEF Asking, Asked, Phase
  <2>7. \A d \in Clients : d # c => outbox'[d] = outbox[d]
      BY <1>5, <2>1
  <2> QED
      BY <1>4, <2>1, <2>6, <2>7
<1> QED
    BY <1>7, <1>8, <1>10, <1>11, <1>12, <1>13, <1>14 DEF Daemon

Phases == \A c \in Clients : Phase(c)

LEMMA PhaseInvariant == ASSUME NobodyCloses PROVE Spec => []Phases
<1>1. Init => Phases /\ NoTermSent
    BY DEF Init, Phases, Phase, New, Idle, Mine, NoTermSent
<1>2. TsdInv /\ Phases /\ NoTermSent /\ [Next]_vars => (Phases /\ NoTermSent)'
  <2> SUFFICES ASSUME TsdInv, Phases, NoTermSent, [Next]_vars PROVE Phases' /\ NoTermSent'
      OBVIOUS
  <2>1. NoTermSent' /\ \A c \in Clients : ~HandleTerm(c)
      BY NoTermSentStep
  <2>2. CASE UNCHANGED vars
    <3>1. ASSUME NEW c \in Clients PROVE Phase(c)'
        BY <2>2, PhaseKept DEF Phases, vars, spaceVars, clientVars, Mine
    <3> QED
        BY <2>1, <3>1 DEF Phases
  <2>3. CASE Next
      BY <2>1, <2>3, ClientKeepsPhases, DaemonKeepsPhases DEF Phases, Next
  <2> QED
      BY <2>2, <2>3
<1> QED
    BY <1>1, <1>2, TsdInvariant, PTL DEF Spec

LEMMA PhasesAgree == TsdInv /\ Phases => RequestsAreLive /\ RepliesInStep
BY PhasesAreLive DEF Phases

(* While nobody closes the space, a request on the list is of a client that  *)
(* waits in just that call, and of no other: what the daemon sends for it is *)
(* taken by the call that asked.                                             *)
THEOREM RequestsFindCallers == ASSUME NobodyCloses PROVE Spec => []RequestsAreLive
BY PhaseInvariant, PhasesAgree, TsdInvariant, PTL

(* While nobody closes the space, no reply is left for the next call, and a  *)
(* tuple arrives in the call that asked for it.                              *)
THEOREM RepliesFindCalls == ASSUME NobodyCloses PROVE Spec => []RepliesInStep
BY PhaseInvariant, PhasesAgree, TsdInvariant, PTL
===============================================================================
