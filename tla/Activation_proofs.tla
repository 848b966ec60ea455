--------------------------- MODULE Activation_proofs ---------------------------
(***************************************************************************)
(* Proofs about the activation of a space over a ring of daemons, for a    *)
(* ring of any size, any of whose daemons may have the space, and any      *)
(* number of clients and sessions.                                         *)
(***************************************************************************)
EXTENDS Activation, SequenceTheorems, TLAPS

(* The types of what is on the ring, and of what the clients know.           *)
Channels == channel \in [Nodes -> Seq(Token)]

RingTypes ==
    /\ holders \in Configs
    /\ is_activated \in [Nodes -> BOOLEAN]
    /\ Channels

ClientTypes ==
    /\ direct_endpoint \in [Nodes -> Nodes \union {NoEndpoint}]
    /\ pc \in [Clients -> {"new", "asking", "waiting", "connecting", "open", "closing", "gone"}]
    /\ remote \in [Clients -> Nodes \union {NoEndpoint}]
    /\ sessions \in Nat

(* Whoever has been told an endpoint has been told that of a master.         *)
TokensFromMasters ==
    \A p \in Nodes : \A k \in 1..Len(channel[p]) : channel[p][k].endpoint \in Masters

EndpointsAreMasters ==
    /\ \A n \in Nodes \ Masters : is_activated[n] => direct_endpoint[n] \in Masters
    /\ \A c \in Clients : pc[c] \in {"connecting", "open", "closing"} => remote[c] \in Masters

(* The token that a daemon sent last, if it has not arrived yet.             *)
Latest(p) == channel[p][Len(channel[p])].id

(* A daemon with the space sends a token whenever it goes up or down.        *)
LatestAgrees ==
    \A p \in holders : channel[p] # <<>> => (is_activated[p] <=> Latest(p) = "connect")

(* A daemon without it has never sent any other token than connect.          *)
RelaysConnectOnly ==
    \A p \in Nodes \ holders :
        /\ ~is_activated[p]
        /\ \A k \in 1..Len(channel[p]) : channel[p][k].id = "connect"

(* Between two daemons with the space, the second does what the first did,   *)
(* once all that the first sent has arrived.                                 *)
NeighbourFollows ==
    \A p \in holders :
        channel[p] = <<>> /\ Succ[p] \in holders \ Masters
            => is_activated[Succ[p]] = is_activated[p]

(* R are the daemons without the space that have relayed a connect token.    *)
(* The state does not say which they are: it is enough that some set has     *)
(* these properties.  What is behind them goes up and never down again, for  *)
(* no term token gets through.                                               *)
Reached(R, n) == IF n \in holders THEN is_activated[n] ELSE n \in R

PassedOn(R) ==
    /\ \A p \in holders :
        channel[p] = <<>> /\ is_activated[p] /\ Succ[p] \notin holders => Succ[p] \in R
    /\ \A p \in R \ holders :
        channel[p] = <<>> /\ Succ[p] \notin Masters => Reached(R, Succ[p])

ConnectGetsThrough == \E R \in SUBSET Nodes : PassedOn(R)

RingInv ==
    /\ RingTypes
    /\ TokensFromMasters
    /\ LatestAgrees
    /\ RelaysConnectOnly
    /\ NeighbourFollows
    /\ ConnectGetsThrough

ActivationInv == RingInv /\ ClientTypes /\ EndpointsAreMasters

-------------------------------------------------------------------------------
(* Channels *)

(* The tail of a channel, and its last token.                                *)
LEMMA TailFacts ==
    ASSUME NEW S, NEW s \in Seq(S), s # <<>>
    PROVE  /\ Len(s) \in Nat \ {0}
           /\ Head(s) = s[1] /\ Head(s) \in S
           /\ Tail(s) \in Seq(S)
           /\ Len(Tail(s)) = Len(s) - 1
           /\ \A k \in 1..Len(Tail(s)) : Tail(s)[k] = s[k + 1] /\ k + 1 \in 1..Len(s)
           /\ Tail(s) # <<>> => Tail(s)[Len(Tail(s))] = s[Len(s)]
           /\ Tail(s) = <<>> => s[Len(s)] = Head(s)
<1>1. /\ Len(s) \in Nat \ {0}
      /\ Head(s) = s[1] /\ Head(s) \in S
      /\ Tail(s) \in Seq(S)
      /\ Len(Tail(s)) = Len(s) - 1
    BY HeadTailProperties, EmptySeq, LenProperties
<1>2. ASSUME NEW k \in 1..Len(Tail(s)) PROVE Tail(s)[k] = s[k + 1] /\ k + 1 \in 1..Len(s)
    BY <1>1, HeadTailProperties
<1>3. Tail(s) # <<>> => Len(Tail(s)) \in 1..Len(Tail(s))
    BY <1>1, EmptySeq, LenProperties
<1>4. Tail(s) = <<>> => Len(s) = 1
    BY <1>1, EmptySeq
<1> QED
    BY <1>1, <1>2, <1>3, <1>4

LEMMA AppendFacts ==
    ASSUME NEW S, NEW s \in Seq(S), NEW e \in S
    PROVE  /\ Append(s, e) \in Seq(S)
           /\ Append(s, e) # <<>>
           /\ Len(Append(s, e)) = Len(s) + 1
           /\ Append(s, e)[Len(s) + 1] = e
           /\ \A k \in 1..Len(s) : Append(s, e)[k] = s[k]
           /\ \A k \in 1..Len(Append(s, e)) : k \in 1..Len(s) \/ k = Len(s) + 1
BY AppendProperties, LenProperties

(* A token is sent.                                                          *)
LEMMA SentFacts ==
    ASSUME Channels, NEW n \in Nodes, NEW tk \in Token, SendToken(n, tk, channel)
    PROVE  /\ Channels'
           /\ \A q \in Nodes : q # n => channel'[q] = channel[q]
           /\ channel'[n] # <<>>
           /\ channel'[n][Len(channel'[n])] = tk
           /\ \A q \in Nodes : \A k \in 1..Len(channel'[q]) :
                 \/ q = n /\ channel'[q][k] = tk
                 \/ k \in 1..Len(channel[q]) /\ channel'[q][k] = channel[q][k]
<1>1. channel[n] \in Seq(Token) /\ channel' = [channel EXCEPT ![n] = Append(channel[n], tk)]
    BY DEF Channels, SendToken
<1>2. channel'[n] = Append(channel[n], tk) /\ \A q \in Nodes : q # n => channel'[q] = channel[q]
    BY <1>1 DEF Channels
<1>3. Channels'
    BY <1>1, AppendFacts DEF Channels
<1> QED
    BY <1>1, <1>2, <1>3, AppendFacts

(* The token at the head of p's channel is taken off it.                     *)
LEMMA DroppedFacts ==
    ASSUME Channels, NEW p \in Nodes, channel[p] # <<>>, channel' = Without(p)
    PROVE  /\ Channels'
           /\ Head(channel[p]) \in Token
           /\ Head(channel[p]) = channel[p][1] /\ 1 \in 1..Len(channel[p])
           /\ \A q \in Nodes : q # p => channel'[q] = channel[q]
           /\ \A q \in Nodes : channel'[q] # <<>> =>
                 /\ channel[q] # <<>>
                 /\ channel'[q][Len(channel'[q])] = channel[q][Len(channel[q])]
           /\ channel'[p] = <<>> => channel[p][Len(channel[p])] = Head(channel[p])
           /\ \A q \in Nodes : \A k \in 1..Len(channel'[q]) :
                 \E j \in 1..Len(channel[q]) : channel'[q][k] = channel[q][j]
<1>1. channel[p] \in Seq(Token) /\ channel' = [channel EXCEPT ![p] = Tail(channel[p])]
    BY DEF Channels, Without
<1>2. channel'[p] = Tail(channel[p]) /\ \A q \in Nodes : q # p => channel'[q] = channel[q]
    BY <1>1 DEF Channels
<1>3. Channels'
    BY <1>1, TailFacts DEF Channels
<1>4. ASSUME NEW q \in Nodes, channel'[q] # <<>>
      PROVE  channel[q] # <<>> /\ channel'[q][Len(channel'[q])] = channel[q][Len(channel[q])]
    BY <1>1, <1>2, <1>4, TailFacts
<1>5. ASSUME NEW q \in Nodes, NEW k \in 1..Len(channel'[q])
      PROVE  \E j \in 1..Len(channel[q]) : channel'[q][k] = channel[q][j]
    BY <1>1, <1>2, TailFacts
<1>6. /\ Head(channel[p]) \in Token
      /\ Head(channel[p]) = channel[p][1] /\ 1 \in 1..Len(channel[p])
      /\ channel'[p] = <<>> => channel[p][Len(channel[p])] = Head(channel[p])
    BY <1>1, <1>2, TailFacts
<1> QED
    BY <1>2, <1>3, <1>4, <1>5, <1>6

(* The token at the head of p's channel goes on to the channel behind it.    *)
LEMMA ForwardedFacts ==
    ASSUME Channels, NEW p \in Nodes, NEW n \in Nodes, channel[p] # <<>>,
           SendToken(n, Head(channel[p]), Without(p))
    PROVE  /\ Channels'
           /\ Head(channel[p]) \in Token
           /\ Head(channel[p]) = channel[p][1] /\ 1 \in 1..Len(channel[p])
           /\ \A q \in Nodes : q # p /\ q # n => channel'[q] = channel[q]
           /\ channel'[n] # <<>>
           /\ channel'[n][Len(channel'[n])] = Head(channel[p])
           /\ p # n /\ channel'[p] # <<>> =>
                 channel'[p][Len(channel'[p])] = channel[p][Len(channel[p])]
           /\ p # n /\ channel'[p] = <<>> => channel[p][Len(channel[p])] = Head(channel[p])
           /\ \A q \in Nodes : \A k \in 1..Len(channel'[q]) :
                 \/ q = n /\ channel'[q][k] = Head(channel[p])
                 \/ \E j \in 1..Len(channel[q]) : channel'[q][k] = channel[q][j]
<1> DEFINE mid == Without(p)
<1>1. channel[p] \in Seq(Token) /\ mid = [channel EXCEPT ![p] = Tail(channel[p])]
    BY DEF Channels, Without
<1>2. mid[p] = Tail(channel[p]) /\ \A q \in Nodes : q # p => mid[q] = channel[q]
    BY <1>1 DEF Channels
<1>3. mid \in [Nodes -> Seq(Token)]
    BY <1>1, TailFacts DEF Channels
<1>4. channel' = [mid EXCEPT ![n] = Append(mid[n], Head(channel[p]))]
    BY DEF SendToken
<1> HIDE DEF mid
<1>5. /\ Head(channel[p]) \in Token
      /\ Head(channel[p]) = channel[p][1] /\ 1 \in 1..Len(channel[p])
    BY <1>1, TailFacts
<1>6. mid[n] \in Seq(Token)
    BY <1>3
<1>7. /\ channel'[n] = Append(mid[n], Head(channel[p]))
      /\ \A q \in Nodes : q # n => channel'[q] = mid[q]
    BY <1>3, <1>4
<1>8. Channels'
  <2>1. Append(mid[n], Head(channel[p])) \in Seq(Token)
      BY <1>5, <1>6, AppendFacts
  <2> QED
      BY <1>3, <1>4, <2>1 DEF Channels
<1>9. /\ channel'[n] # <<>>
      /\ channel'[n][Len(channel'[n])] = Head(channel[p])
    BY <1>5, <1>6, <1>7, AppendFacts
<1>10. ASSUME NEW q \in Nodes, NEW k \in 1..Len(mid[q])
       PROVE  \E j \in 1..Len(channel[q]) : mid[q][k] = channel[q][j]
    BY <1>1, <1>2, TailFacts
<1>11. ASSUME NEW q \in Nodes, NEW k \in 1..Len(channel'[q])
       PROVE  \/ q = n /\ channel'[q][k] = Head(channel[p])
              \/ \E j \in 1..Len(channel[q]) : channel'[q][k] = channel[q][j]
  <2>1. CASE q # n
      BY <1>7, <1>10, <2>1
  <2>2. CASE q = n
    <3>1. \/ k \in 1..Len(mid[n]) /\ channel'[n][k] = mid[n][k]
          \/ channel'[n][k] = Head(channel[p])
        BY <1>5, <1>6, <1>7, <2>2, AppendFacts
    <3> QED
        BY <1>10, <2>2, <3>1
  <2> QED
      BY <2>1, <2>2
<1>12. /\ p # n /\ channel'[p] # <<>> =>
              channel'[p][Len(channel'[p])] = channel[p][Len(channel[p])]
       /\ p # n /\ channel'[p] = <<>> => channel[p][Len(channel[p])] = Head(channel[p])
  <2>1. p # n => channel'[p] = Tail(channel[p])
      BY <1>2, <1>7
  <2> QED
      BY <1>1, <2>1, TailFacts
<1> QED
    BY <1>2, <1>5, <1>7, <1>8, <1>9, <1>11, <1>12

-------------------------------------------------------------------------------
(* The steps on the ring *)

LEMMA HolderFacts ==
    ASSUME holders \in Configs
    PROVE  /\ holders \subseteq Nodes /\ Masters \subseteq holders /\ Masters \subseteq Nodes
           /\ \A n \in Nodes : Succ[n] \in Nodes
           /\ \A p, q \in Nodes : Succ[p] = Succ[q] => p = q
BY ActivationAssumption, RingAssumption

(* A client's command takes a master up or down, which then sends a token,   *)
(* or finds it as it should be.                                              *)
LEMMA MasterStep ==
    ASSUME RingInv, holders' = holders,
           NEW n \in Masters, NEW v \in BOOLEAN, NEW id \in {"connect", "term"},
           v <=> id = "connect",
           is_activated' = [is_activated EXCEPT ![n] = v],
           \/ is_activated[n] = v /\ channel' = channel
           \/ SendToken(n, [id |-> id, endpoint |-> n], channel)
    PROVE  RingInv'
<1> DEFINE tk == [id |-> id, endpoint |-> n]
<1>1. /\ RingTypes /\ holders \subseteq Nodes /\ Masters \subseteq holders /\ n \in Nodes
      /\ n \in holders
      /\ \A q \in Nodes : Succ[q] \in Nodes
    BY HolderFacts DEF RingInv, RingTypes
<1>2. tk \in Token /\ tk.id = id /\ tk.endpoint = n
    BY <1>1 DEF Token
<1>3. /\ is_activated'[n] = v
      /\ \A q \in Nodes : q # n => is_activated'[q] = is_activated[q]
    BY <1>1 DEF RingTypes
<1>4. CASE is_activated[n] = v /\ channel' = channel
  <2>1. is_activated' = is_activated
      BY <1>1, <1>4 DEF RingTypes
  <2>2. RingTypes' /\ TokensFromMasters'
      BY <1>4, <2>1 DEF RingInv, RingTypes, Channels, TokensFromMasters
  <2>3. LatestAgrees' /\ RelaysConnectOnly' /\ NeighbourFollows'
      BY <1>4, <2>1 DEF RingInv, LatestAgrees, Latest, RelaysConnectOnly, NeighbourFollows
  <2>4. ConnectGetsThrough'
    <3>1. PICK R \in SUBSET Nodes : PassedOn(R)
        BY DEF RingInv, ConnectGetsThrough
    <3>2. PassedOn(R)'
        BY <1>4, <2>1, <3>1 DEF PassedOn, Reached
    <3> QED
        BY <3>1, <3>2 DEF ConnectGetsThrough
  <2> QED
      BY <2>2, <2>3, <2>4 DEF RingInv
<1>5. CASE SendToken(n, tk, channel)
  <2> HIDE DEF tk
  <2>1. /\ Channels'
        /\ \A q \in Nodes : q # n => channel'[q] = channel[q]
        /\ channel'[n] # <<>>
        /\ channel'[n][Len(channel'[n])] = tk
        /\ \A q \in Nodes : \A k \in 1..Len(channel'[q]) :
              \/ q = n /\ channel'[q][k] = tk
              \/ k \in 1..Len(channel[q]) /\ channel'[q][k] = channel[q][k]
      BY <1>1, <1>2, <1>5, SentFacts DEF RingTypes
  <2>2. RingTypes'
      BY <1>1, <2>1 DEF RingTypes
  <2>3. TokensFromMasters'
      BY <1>2, <2>1 DEF RingInv, TokensFromMasters
  <2>4. LatestAgrees'
      BY <1>1, <1>2, <1>3, <2>1 DEF RingInv, LatestAgrees, Latest
  <2>5. RelaysConnectOnly'
      BY <1>1, <1>3, <2>1 DEF RingInv, RelaysConnectOnly
  <2>6. NeighbourFollows'
      BY <1>1, <1>3, <2>1 DEF RingInv, NeighbourFollows
  <2>7. ConnectGetsThrough'
    <3>1. PICK R \in SUBSET Nodes : PassedOn(R)
        BY DEF RingInv, ConnectGetsThrough
    <3>2. PassedOn(R)'
        BY <1>1, <1>3, <2>1, <3>1 DEF PassedOn, Reached
    <3> QED
        BY <3>1, <3>2 DEF ConnectGetsThrough
  <2> QED
      BY <2>2, <2>3, <2>4, <2>5, <2>6, <2>7 DEF RingInv
<1> QED
    BY <1>4, <1>5

(* A token is taken off the channel of p and not passed on.  That is right   *)
(* when the daemon behind p is as the token wants it, or goes down.          *)
LEMMA DropStep ==
    ASSUME RingInv, holders' = holders, NEW p \in Nodes, channel[p] # <<>>,
           channel' = Without(p), is_activated' = is_activated,
           \/ Succ[p] \in holders /\ (is_activated[Succ[p]] <=> Head(channel[p]).id = "connect")
           \/ Succ[p] \notin holders /\ Head(channel[p]).id # "connect"
    PROVE  RingInv'
<1>1. /\ RingTypes /\ holders \subseteq Nodes /\ Masters \subseteq holders
      /\ \A q \in Nodes : Succ[q] \in Nodes
      /\ \A q \in Nodes : Succ[p] = Succ[q] => p = q
    BY HolderFacts DEF RingInv, RingTypes
<1>2. /\ Channels'
      /\ Head(channel[p]) \in Token
      /\ Head(channel[p]) = channel[p][1] /\ 1 \in 1..Len(channel[p])
      /\ \A q \in Nodes : q # p => channel'[q] = channel[q]
      /\ \A q \in Nodes : channel'[q] # <<>> =>
            /\ channel[q] # <<>>
            /\ channel'[q][Len(channel'[q])] = channel[q][Len(channel[q])]
      /\ channel'[p] = <<>> => channel[p][Len(channel[p])] = Head(channel[p])
      /\ \A q \in Nodes : \A k \in 1..Len(channel'[q]) :
            \E j \in 1..Len(channel[q]) : channel'[q][k] = channel[q][j]
    BY <1>1, DroppedFacts DEF RingTypes
<1>3. RingTypes'
    BY <1>1, <1>2 DEF RingTypes
<1>4. TokensFromMasters'
    BY <1>2 DEF RingInv, TokensFromMasters
<1>5. LatestAgrees'
    BY <1>1, <1>2 DEF RingInv, LatestAgrees, Latest
<1>6. RelaysConnectOnly'
    BY <1>1, <1>2 DEF RingInv, RelaysConnectOnly
<1>7. channel'[p] = <<>> /\ p \in holders => (is_activated[p] <=> Head(channel[p]).id = "connect")
    BY <1>2 DEF RingInv, LatestAgrees, Latest
<1>8. NeighbourFollows'
    BY <1>1, <1>2, <1>7 DEF RingInv, RingTypes, NeighbourFollows
<1>9. p \notin holders => Head(channel[p]).id = "connect"
    BY <1>2 DEF RingInv, RelaysConnectOnly
<1>10. ConnectGetsThrough'
  <2>1. PICK R \in SUBSET Nodes : PassedOn(R)
      BY DEF RingInv, ConnectGetsThrough
  <2>2. PassedOn(R)'
      BY <1>1, <1>2, <1>7, <1>9, <2>1 DEF PassedOn, Reached
  <2> QED
      BY <2>1, <2>2 DEF ConnectGetsThrough
<1> QED
    BY <1>3, <1>4, <1>5, <1>6, <1>8, <1>10 DEF RingInv

(* A token is passed on by the daemon behind p: by one that has the space    *)
(* and does what the token says, or a connect token by one that has not.     *)
LEMMA ForwardStep ==
    ASSUME RingInv, holders' = holders, NEW p \in Nodes, channel[p] # <<>>,
           SendToken(Succ[p], Head(channel[p]), Without(p)),
           NEW v \in BOOLEAN, v <=> Head(channel[p]).id = "connect",
           \/ Succ[p] \in holders /\ is_activated' = [is_activated EXCEPT ![Succ[p]] = v]
           \/ Succ[p] \notin holders /\ v /\ is_activated' = is_activated
    PROVE  RingInv'
<1> DEFINE n == Succ[p]
<1>1. /\ RingTypes /\ holders \subseteq Nodes /\ Masters \subseteq holders
      /\ n \in Nodes
      /\ \A q \in Nodes : Succ[q] \in Nodes
      /\ \A q \in Nodes : Succ[q] = n => p = q
    BY HolderFacts DEF RingInv, RingTypes
<1>2. \/ n \in holders /\ is_activated' = [is_activated EXCEPT ![n] = v]
      \/ n \notin holders /\ v /\ is_activated' = is_activated
    OBVIOUS
<1>3. /\ Channels'
      /\ Head(channel[p]) \in Token
      /\ Head(channel[p]) = channel[p][1] /\ 1 \in 1..Len(channel[p])
      /\ \A q \in Nodes : q # p /\ q # n => channel'[q] = channel[q]
      /\ channel'[n] # <<>>
      /\ channel'[n][Len(channel'[n])] = Head(channel[p])
      /\ p # n /\ channel'[p] # <<>> =>
            channel'[p][Len(channel'[p])] = channel[p][Len(channel[p])]
      /\ p # n /\ channel'[p] = <<>> => channel[p][Len(channel[p])] = Head(channel[p])
      /\ \A q \in Nodes : \A k \in 1..Len(channel'[q]) :
            \/ q = n /\ channel'[q][k] = Head(channel[p])
            \/ \E j \in 1..Len(channel[q]) : channel'[q][k] = channel[q][j]
    BY <1>1, ForwardedFacts DEF RingTypes
<1>4. n = Succ[p]
    OBVIOUS
<1> HIDE DEF n
<1>5. /\ n \in holders => is_activated'[n] = v
      /\ \A q \in Nodes : q # n => is_activated'[q] = is_activated[q]
      /\ n \notin holders => v /\ is_activated'[n] = is_activated[n]
      /\ is_activated' \in [Nodes -> BOOLEAN]
    BY <1>1, <1>2 DEF RingTypes
<1>6. RingTypes'
    BY <1>1, <1>3, <1>5 DEF RingTypes
<1>7. TokensFromMasters'
  <2>1. /\ Head(channel[p]).endpoint \in Masters
        /\ \A q \in Nodes : \A j \in 1..Len(channel[q]) : channel[q][j].endpoint \in Masters
      BY <1>3 DEF RingInv, TokensFromMasters
  <2> SUFFICES ASSUME NEW q \in Nodes, NEW k \in 1..Len(channel'[q])
               PROVE  channel'[q][k].endpoint \in Masters
      BY DEF TokensFromMasters
  <2>2. \/ channel'[q][k] = Head(channel[p])
        \/ \E j \in 1..Len(channel[q]) : channel'[q][k] = channel[q][j]
      BY <1>3
  <2> QED
      BY <2>1, <2>2
<1>8. LatestAgrees'
  <2> SUFFICES ASSUME NEW q \in holders, channel'[q] # <<>>
               PROVE  is_activated'[q] <=> channel'[q][Len(channel'[q])].id = "connect"
      BY DEF LatestAgrees, Latest
  <2>1. CASE q = n
      BY <1>3, <1>5, <2>1
  <2>2. CASE q # n
    <3>1. /\ channel[q] # <<>> /\ q \in Nodes
          /\ channel'[q][Len(channel'[q])] = channel[q][Len(channel[q])]
        BY <1>1, <1>3, <2>2
    <3>2. is_activated'[q] = is_activated[q]
        BY <1>5, <2>2, <3>1
    <3>3. is_activated[q] <=> channel[q][Len(channel[q])].id = "connect"
        BY <3>1 DEF RingInv, LatestAgrees, Latest
    <3> QED
        BY <3>1, <3>2, <3>3
  <2> QED
      BY <2>1, <2>2
<1>9. RelaysConnectOnly'
  <2> SUFFICES ASSUME NEW q \in Nodes \ holders
               PROVE  /\ ~is_activated'[q]
                      /\ \A k \in 1..Len(channel'[q]) : channel'[q][k].id = "connect"
      BY DEF RelaysConnectOnly
  <2>1. /\ ~is_activated[q]
        /\ \A j \in 1..Len(channel[q]) : channel[q][j].id = "connect"
      BY DEF RingInv, RelaysConnectOnly
  <2>2. ~is_activated'[q]
      BY <1>5, <2>1
  <2>3. ASSUME NEW k \in 1..Len(channel'[q]) PROVE channel'[q][k].id = "connect"
    <3>1. \/ q = n /\ channel'[q][k] = Head(channel[p])
          \/ \E j \in 1..Len(channel[q]) : channel'[q][k] = channel[q][j]
        BY <1>3
    <3> QED
        BY <1>5, <2>1, <3>1
  <2> QED
      BY <2>2, <2>3
<1>10. channel'[p] = <<>> /\ p \in holders => p # n /\ (is_activated[p] <=> v)
  <2> SUFFICES ASSUME channel'[p] = <<>>, p \in holders
               PROVE  p # n /\ (is_activated[p] <=> v)
      OBVIOUS
  <2>1. p # n /\ channel[p][Len(channel[p])] = Head(channel[p])
      BY <1>3
  <2>2. is_activated[p] <=> channel[p][Len(channel[p])].id = "connect"
      BY DEF RingInv, LatestAgrees, Latest
  <2> QED
      BY <2>1, <2>2
<1>11. NeighbourFollows'
    BY <1>1, <1>3, <1>4, <1>5, <1>10 DEF RingInv, RingTypes, NeighbourFollows
<1>12. p \notin holders => v
    BY <1>3 DEF RingInv, RelaysConnectOnly
<1>13. ConnectGetsThrough'
  <2>1. PICK R \in SUBSET Nodes : PassedOn(R)
      BY DEF RingInv, ConnectGetsThrough
  <2> DEFINE R1 == R \union {n}
  <2>2. R1 \in SUBSET Nodes /\ R \subseteq R1 /\ n \in R1
      BY <1>1
  <2>3. ASSUME NEW q \in holders, channel'[q] = <<>>, is_activated'[q], Succ[q] \notin holders
        PROVE  Succ[q] \in R1
    <3>1. q # n
        BY <1>3, <2>3
    <3>2. CASE q = p
        BY <1>4, <2>2, <2>3, <3>2
    <3>3. CASE q # p
      <4>1. channel[q] = <<>> /\ is_activated[q]
          BY <1>1, <1>3, <1>5, <2>3, <3>1, <3>3
      <4> QED
          BY <2>1, <2>2, <2>3, <4>1 DEF PassedOn
    <3> QED
        BY <3>2, <3>3
  <2>4. ASSUME NEW q \in R1 \ holders, channel'[q] = <<>>, Succ[q] \notin Masters
        PROVE  IF Succ[q] \in holders THEN is_activated'[Succ[q]] ELSE Succ[q] \in R1
    <3>1. q # n /\ q \in R /\ q \in Nodes
        BY <1>3, <2>4, <2>2
    <3>2. CASE q = p
        BY <1>4, <1>5, <1>12, <2>2, <2>4, <3>2
    <3>3. CASE q # p
      <4>1. channel[q] = <<>> /\ Succ[q] # n /\ Succ[q] \in Nodes
          BY <1>1, <1>3, <2>4, <3>1, <3>3
      <4>2. Reached(R, Succ[q])
          BY <2>1, <2>4, <3>1, <4>1 DEF PassedOn
      <4> QED
          BY <1>5, <2>2, <4>1, <4>2 DEF Reached
    <3> QED
        BY <3>2, <3>3
  <2> HIDE DEF R1
  <2>5. PassedOn(R1)'
    <3>1. \A q \in holders' :
             channel'[q] = <<>> /\ is_activated'[q] /\ Succ[q] \notin holders' => Succ[q] \in R1
        BY <2>3
    <3>2. ASSUME NEW q \in R1 \ holders', channel'[q] = <<>>, Succ[q] \notin Masters
          PROVE  IF Succ[q] \in holders' THEN is_activated'[Succ[q]] ELSE Succ[q] \in R1
      <4>1. q \in R1 \ holders
          BY <3>2
      <4>2. IF Succ[q] \in holders THEN is_activated'[Succ[q]] ELSE Succ[q] \in R1
          BY <2>4, <3>2, <4>1
      <4> QED
          BY <4>2
    <3> QED
        BY <3>1, <3>2 DEF PassedOn, Reached
  <2> QED
      BY <2>2, <2>5 DEF ConnectGetsThrough
<1> QED
    BY <1>6, <1>7, <1>8, <1>9, <1>11, <1>13 DEF RingInv

-------------------------------------------------------------------------------
(* All steps *)

LEMMA ActivationInit == Init => ActivationInv
<1> SUFFICES ASSUME Init PROVE ActivationInv
    OBVIOUS
<1>1. holders \subseteq Nodes /\ Masters \subseteq holders /\ holders \in Configs
    BY HolderFacts DEF Init
<1>2. /\ \A p \in Nodes : channel[p] = <<>> /\ Len(channel[p]) = 0 /\ ~is_activated[p]
      /\ \A c \in Clients : pc[c] = "new"
    BY EmptySeq DEF Init
<1>3. RingTypes
  <2>1. <<>> \in Seq(Token)
      BY EmptySeq
  <2> QED
      BY <1>1, <2>1 DEF Init, RingTypes, Channels
<1>4. ClientTypes
    BY DEF Init, ClientTypes
<1>5. TokensFromMasters /\ LatestAgrees /\ RelaysConnectOnly /\ EndpointsAreMasters
    BY <1>1, <1>2 DEF TokensFromMasters, LatestAgrees, RelaysConnectOnly, EndpointsAreMasters
<1>6. NeighbourFollows
    BY <1>1 DEF Init, NeighbourFollows
<1>7. PassedOn({})
    BY <1>1, <1>2 DEF PassedOn
<1> QED
    BY <1>3, <1>4, <1>5, <1>6, <1>7 DEF ActivationInv, RingInv, ConnectGetsThrough

(* The steps that leave the ring alone.                                      *)
LEMMA RingUnchanged ==
    ASSUME RingInv, UNCHANGED <<holders, is_activated, channel>>
    PROVE  RingInv'
<1>1. RingTypes' /\ TokensFromMasters'
    BY DEF RingInv, RingTypes, Channels, TokensFromMasters
<1>2. LatestAgrees' /\ RelaysConnectOnly' /\ NeighbourFollows'
    BY DEF RingInv, LatestAgrees, Latest, RelaysConnectOnly, NeighbourFollows
<1>3. ConnectGetsThrough'
  <2>1. PICK R \in SUBSET Nodes : PassedOn(R)
      BY DEF RingInv, ConnectGetsThrough
  <2>2. PassedOn(R)'
      BY <2>1 DEF PassedOn, Reached
  <2> QED
      BY <2>1, <2>2 DEF ConnectGetsThrough
<1> QED
    BY <1>1, <1>2, <1>3 DEF RingInv

LEMMA ConnectAtMasterStep ==
    ASSUME RingInv, NEW n \in Masters, ConnectAtMaster(n), holders' = holders
    PROVE  /\ RingInv'
           /\ is_activated' = [is_activated EXCEPT ![n] = TRUE]
<1>1. n \in Nodes /\ is_activated \in [Nodes -> BOOLEAN]
    BY HolderFacts DEF RingInv, RingTypes
<1>2. /\ is_activated' = [is_activated EXCEPT ![n] = TRUE]
      /\ \/ is_activated[n] = TRUE /\ channel' = channel
         \/ SendToken(n, [id |-> "connect", endpoint |-> n], channel)
    BY <1>1 DEF ConnectAtMaster
<1> QED
    BY <1>2, MasterStep

(* A client's command keeps the ring, types and endpoints.                   *)
LEMMA ClientStep ==
    ASSUME ActivationInv, NEW c \in Clients, TsOpen(c) \/ TsClose(c) \/ Daemon(c)
    PROVE  ActivationInv'
<1>0. /\ RingInv /\ ClientTypes /\ EndpointsAreMasters
      /\ Home[c] \in Nodes /\ Masters \subseteq Nodes
      /\ is_activated \in [Nodes -> BOOLEAN]
    BY HolderFacts, ActivationAssumption DEF ActivationInv, RingInv, RingTypes
<1>1. CASE TsOpen(c)
  <2>1. RingInv'
      BY <1>0, <1>1, RingUnchanged DEF TsOpen
  <2> QED
      BY <1>0, <1>1, <2>1 DEF TsOpen, ActivationInv, ClientTypes, EndpointsAreMasters
<1>2. CASE TsClose(c)
  <2>1. RingInv'
      BY <1>0, <1>2, RingUnchanged DEF TsClose
  <2> QED
      BY <1>0, <1>2, <2>1 DEF TsClose, ActivationInv, ClientTypes, EndpointsAreMasters
<1>3. CASE HandleConnectMaster(c)
  <2>1. RingInv' /\ is_activated' = [is_activated EXCEPT ![Home[c]] = TRUE]
      BY <1>0, <1>3, ConnectAtMasterStep DEF HandleConnectMaster
  <2>2. sessions' \in Nat
      BY <1>0, <1>3 DEF HandleConnectMaster, ConnectAtMaster, ClientTypes
  <2>3. ClientTypes'
      BY <1>0, <1>3, <2>2 DEF HandleConnectMaster, ClientTypes
  <2>4. EndpointsAreMasters'
      BY <1>0, <1>3, <2>1 DEF HandleConnectMaster, ClientTypes, EndpointsAreMasters
  <2> QED
      BY <2>1, <2>3, <2>4 DEF ActivationInv
<1>4. CASE HandleConnectWorker(c)
  <2>1. RingInv'
      BY <1>0, <1>4, RingUnchanged DEF HandleConnectWorker
  <2>2. ClientTypes'
      BY <1>0, <1>4 DEF HandleConnectWorker, ClientTypes
  <2>3. EndpointsAreMasters'
      BY <1>0, <1>4 DEF HandleConnectWorker, ClientTypes, EndpointsAreMasters
  <2> QED
      BY <2>1, <2>2, <2>3 DEF ActivationInv
<1>5. CASE HandleConnectRemote(c)
  <2>1. remote[c] \in Masters
      BY <1>0, <1>5 DEF HandleConnectRemote, EndpointsAreMasters
  <2>2. RingInv' /\ is_activated' = [is_activated EXCEPT ![remote[c]] = TRUE]
      BY <1>0, <1>5, <2>1, ConnectAtMasterStep DEF HandleConnectRemote
  <2>3. sessions' \in Nat
      BY <1>0, <1>5 DEF HandleConnectRemote, ConnectAtMaster, ClientTypes
  <2>4. ClientTypes'
      BY <1>0, <1>5, <2>3 DEF HandleConnectRemote, ClientTypes
  <2>5. EndpointsAreMasters'
      BY <1>0, <1>5, <2>1, <2>2 DEF HandleConnectRemote, ClientTypes, EndpointsAreMasters
  <2> QED
      BY <2>2, <2>4, <2>5 DEF ActivationInv
<1>6. CASE HandleTerm(c)
  <2>1. remote[c] \in Masters
      BY <1>0, <1>6 DEF HandleTerm, EndpointsAreMasters
  <2>2. /\ is_activated' = [is_activated EXCEPT ![remote[c]] = FALSE]
        /\ \/ is_activated[remote[c]] = FALSE /\ channel' = channel
           \/ SendToken(remote[c], [id |-> "term", endpoint |-> remote[c]], channel)
        /\ holders' = holders
      BY <1>0, <1>6, <2>1 DEF HandleTerm
  <2>3. RingInv'
      BY <1>0, <2>1, <2>2, MasterStep
  <2>4. ClientTypes'
      BY <1>0, <1>6 DEF HandleTerm, ClientTypes
  <2>5. EndpointsAreMasters'
      BY <1>0, <1>6, <2>1, <2>2 DEF HandleTerm, ClientTypes, EndpointsAreMasters
  <2> QED
      BY <2>3, <2>4, <2>5 DEF ActivationInv
<1> QED
    BY <1>1, <1>2, <1>3, <1>4, <1>5, <1>6 DEF Daemon

(* A token that arrives keeps them.                                          *)
LEMMA TokenStep ==
    ASSUME ActivationInv, NEW p \in Nodes, Ring(p)
    PROVE  ActivationInv'
<1> DEFINE n == Succ[p]
<1>0. /\ RingInv /\ ClientTypes /\ EndpointsAreMasters
      /\ n \in Nodes /\ Masters \subseteq Nodes /\ holders \subseteq Nodes
      /\ is_activated \in [Nodes -> BOOLEAN]
      /\ Channels
    BY HolderFacts DEF ActivationInv, RingInv, RingTypes
<1>00. ASSUME channel[p] # <<>>
       PROVE  Head(channel[p]).id \in {"connect", "term"} /\ Head(channel[p]).endpoint \in Masters
  <2>1. channel[p] \in Seq(Token)
      BY <1>0 DEF Channels
  <2>2. /\ Head(channel[p]) = channel[p][1] /\ 1 \in 1..Len(channel[p])
        /\ Head(channel[p]) \in Token
      BY <1>00, <2>1, TailFacts
  <2> QED
      BY <2>2 DEF ActivationInv, RingInv, TokensFromMasters, Token
<1>1. CASE RelayConnect(p)
  <2>1. RingInv'
      BY <1>0, <1>1, ForwardStep DEF RelayConnect, Arrives
  <2> QED
      BY <1>0, <1>1, <2>1 DEF RelayConnect, ActivationInv, ClientTypes, EndpointsAreMasters
<1>2. CASE DropTerm(p)
  <2>1. RingInv'
      BY <1>0, <1>2, DropStep DEF DropTerm, Arrives
  <2> QED
      BY <1>0, <1>2, <2>1 DEF DropTerm, ActivationInv, ClientTypes, EndpointsAreMasters
<1>3. CASE /\ Arrives(p, "connect") /\ Succ[p] \in holders /\ is_activated[Succ[p]]
           /\ channel' = Without(p)
           /\ UNCHANGED <<holders, sessions, is_activated, direct_endpoint, pc, remote>>
  <2>1. RingInv'
      BY <1>0, <1>3, DropStep DEF Arrives
  <2> QED
      BY <1>0, <1>3, <2>1 DEF ActivationInv, ClientTypes, EndpointsAreMasters
<1>4. CASE /\ Arrives(p, "connect") /\ Succ[p] \in holders
           /\ is_activated' = [is_activated EXCEPT ![Succ[p]] = TRUE]
           /\ direct_endpoint' = [direct_endpoint EXCEPT ![Succ[p]] = Head(channel[p]).endpoint]
           /\ AnswerWaiting(Succ[p], Head(channel[p]).endpoint)
           /\ SendToken(Succ[p], Head(channel[p]), Without(p))
           /\ UNCHANGED <<holders, sessions>>
  <2>1. RingInv'
      BY <1>0, <1>4, ForwardStep DEF Arrives
  <2>2. Head(channel[p]).endpoint \in Masters
      BY <1>4, <1>00 DEF Arrives
  <2>3. ClientTypes'
      BY <1>0, <1>4, <2>2 DEF ClientTypes, AnswerWaiting
  <2>4. EndpointsAreMasters'
      BY <1>0, <1>4, <2>2 DEF ClientTypes, EndpointsAreMasters, AnswerWaiting
  <2> QED
      BY <2>1, <2>3, <2>4 DEF ActivationInv
<1>5. CASE TermToken(p)
  <2>1. /\ is_activated' = [is_activated EXCEPT ![n] = FALSE]
        /\ n \in holders /\ channel[p] # <<>> /\ Head(channel[p]).id = "term"
        /\ UNCHANGED <<holders, direct_endpoint, pc, remote, sessions>>
      BY <1>5 DEF TermToken, Arrives
  <2>2. RingInv'
    <3>1. CASE is_activated[n] /\ SendToken(n, Head(channel[p]), Without(p))
        BY <1>0, <2>1, <3>1, ForwardStep
    <3>2. CASE ~is_activated[n] /\ channel' = Without(p)
      <4>1. is_activated' = is_activated
          BY <1>0, <2>1, <3>2
      <4> QED
          BY <1>0, <2>1, <3>2, <4>1, DropStep
    <3> QED
        BY <1>5, <3>1, <3>2 DEF TermToken
  <2>3. ClientTypes'
      BY <1>0, <2>1 DEF ClientTypes
  <2>4. EndpointsAreMasters'
      BY <1>0, <2>1 DEF ClientTypes, EndpointsAreMasters
  <2> QED
      BY <2>2, <2>3, <2>4 DEF ActivationInv
<1> QED
    BY <1>1, <1>2, <1>3, <1>4, <1>5 DEF Ring, ConnectToken

LEMMA ActivationStep == ActivationInv /\ [Next]_vars => ActivationInv'
<1> SUFFICES ASSUME ActivationInv, [Next]_vars PROVE ActivationInv'
    OBVIOUS
<1>1. CASE UNCHANGED vars
  <2>1. RingInv'
      BY <1>1, RingUnchanged DEF vars, ActivationInv
  <2> QED
      BY <1>1, <2>1 DEF vars, ActivationInv, ClientTypes, EndpointsAreMasters
<1> QED
    BY <1>1, ClientStep, TokenStep DEF Next

LEMMA ActivationInvariant == Spec => []ActivationInv
<1>1. Init => ActivationInv
    BY ActivationInit
<1>2. ActivationInv /\ [Next]_vars => ActivationInv'
    BY ActivationStep
<1> QED
    BY <1>1, <1>2, PTL DEF Spec

(* Whatever the number of masters: a client that connects a second time, and *)
(* one that closes, talks to a daemon that has the space in master mode, and *)
(* the endpoint that a daemon in worker mode gives out while the space is up *)
(* is that of such a daemon.                                                 *)
THEOREM ClientsAreSentToMasters == Spec => []EndpointsAreMasters
<1>1. ActivationInv => EndpointsAreMasters
    BY DEF ActivationInv
<1> QED
    BY <1>1, ActivationInvariant, PTL

-------------------------------------------------------------------------------
(* From one daemon to the next the agreement goes once around the ring.      *)
LEMMA AroundTheRing ==
    ASSUME NEW m \in Nodes, NEW S \in SUBSET Nodes, m \in S,
           \A n \in S : Succ[n] # m => Succ[n] \in S
    PROVE  S = Nodes
<1>1. S # {} /\ \A n \in S : Succ[n] \in S
    OBVIOUS
<1> QED
    BY <1>1, RingAssumption

(* A space with one master: when no token is on the ring, the daemons that   *)
(* have the space agree whether it is up, if all daemons have it or the      *)
(* master has it up.                                                         *)
THEOREM DaemonsAgreeAtRest ==
    ASSUME NEW m, Masters = {m}
    PROVE  Spec => []SameIfReached
<1>1. ActivationInv => SameIfReached
  <2> SUFFICES ASSUME ActivationInv, Quiet, holders = Nodes \/ is_activated[m],
                      NEW n \in holders, NEW k \in holders
               PROVE  is_activated[n] = is_activated[k]
      BY DEF SameIfReached
  <2>1. /\ holders \subseteq Nodes /\ m \in holders /\ m \in Nodes
        /\ is_activated \in [Nodes -> BOOLEAN]
        /\ \A q \in Nodes : Succ[q] \in Nodes /\ channel[q] = <<>>
      BY HolderFacts DEF ActivationInv, RingInv, RingTypes, Quiet
  <2>2. \A q \in holders : Succ[q] \in holders /\ Succ[q] # m
            => is_activated[Succ[q]] = is_activated[q]
      BY <2>1 DEF ActivationInv, RingInv, NeighbourFollows
  <2>3. CASE holders = Nodes
    <3> DEFINE S == {q \in Nodes : is_activated[q] = is_activated[m]}
    <3>1. S = Nodes
      <4>1. \A q \in S : Succ[q] # m => Succ[q] \in S
          BY <2>1, <2>2, <2>3
      <4> QED
          BY <2>1, <4>1, AroundTheRing
    <3> QED
        BY <2>3, <3>1
  <2>4. CASE is_activated[m]
    <3>1. PICK R \in SUBSET Nodes : PassedOn(R)
        BY DEF ActivationInv, RingInv, ConnectGetsThrough
    <3> DEFINE S == {q \in Nodes : Reached(R, q)}
    <3>2. S = Nodes
      <4>1. ASSUME NEW q \in S, Succ[q] # m PROVE Succ[q] \in S
        <5>1. CASE q \in holders /\ Succ[q] \in holders
            BY <2>1, <2>2, <4>1, <5>1 DEF Reached
        <5>2. CASE q \in holders /\ Succ[q] \notin holders
            BY <2>1, <3>1, <4>1, <5>2 DEF Reached, PassedOn
        <5>3. CASE q \notin holders
            BY <2>1, <3>1, <4>1, <5>3 DEF Reached, PassedOn
        <5> QED
            BY <5>1, <5>2, <5>3
      <4>2. m \in S
          BY <2>1, <2>4 DEF Reached
      <4> QED
          BY <2>1, <4>1, <4>2, AroundTheRing
    <3>3. is_activated[n] /\ is_activated[k]
        BY <2>1, <3>2 DEF Reached
    <3>4. is_activated[n] \in BOOLEAN /\ is_activated[k] \in BOOLEAN
        BY <2>1
    <3> QED
        BY <3>3, <3>4
  <2> QED
      BY <2>3, <2>4
<1> QED
    BY <1>1, ActivationInvariant, PTL
===============================================================================
