----------------------------- MODULE Activation -----------------------------
(***************************************************************************)
(* How a space goes up and down on a ring of tuple space daemons (tsd.c):  *)
(* TsConnect and TsTerm of the clients, and the tokens 0 ("connect") and 1 *)
(* ("term") that the daemons pass on to their successors.                  *)
(*                                                                         *)
(* A daemon hands a token to its p2pmd actor through the actor's pipe; the *)
(* actor copies it into its one send slot and sends it to the successor in *)
(* the same turn of its loop, and the successor's actor passes it up to    *)
(* its daemon.  Each of these legs keeps the order, so there is one FIFO   *)
(* channel per member.  Nobody decrements the ttl of a token: it is -1     *)
(* here, which means "without end".  The ring itself does not change.      *)
(*                                                                         *)
(* The space is discovered (tsd_mode is not direct).  A client asks its    *)
(* home daemon for the space.  The daemon of a worker either knows the     *)
(* endpoint of the master or lets the client wait for it; the client then  *)
(* connects a second time, to the master.                                  *)
(***************************************************************************)
EXTENDS Naturals, Sequences

CONSTANTS
    Nodes,        (* the daemons of the ring                                  *)
    Succ,         (* the successor of each                                    *)
    Configs,      (* the sets of daemons that may be configured with it       *)
    Masters,      (* those that have it in master mode; the others: worker    *)
    Clients,      (* the sessions                                             *)
    Home,         (* the daemon that each client opens the space at           *)
    NoEndpoint,   (* direct_endpoint before anything was written to it        *)
    MaxSessions   (* bound: how often a master may activate the space         *)

ASSUME ActivationAssumption ==
    /\ Succ \in [Nodes -> Nodes]
    /\ Configs \subseteq SUBSET Nodes
    /\ Home \in [Clients -> Nodes]
    /\ \A S \in Configs : Masters \subseteq S /\ \A c \in Clients : Home[c] \in S
    /\ NoEndpoint \notin Nodes
    /\ MaxSessions \in Nat

(* The daemons form one ring: two have not the same successor, and from each *)
(* of them the successors lead to all the others.                            *)
ASSUME RingAssumption ==
    /\ \A p, q \in Nodes : Succ[p] = Succ[q] => p = q
    /\ \A S \in SUBSET Nodes : S # {} /\ (\A n \in S : Succ[n] \in S) => S = Nodes

VARIABLES
    holders,          (* the daemons that have the space in their space_table *)
    is_activated,     (* per daemon                                           *)
    direct_endpoint,  (* per daemon: the master's endpoint                    *)
    channel,          (* per daemon: the tokens on their way to its successor *)
    pc,               (* per client: how far its session has come             *)
    remote,           (* per client: the endpoint it was told                 *)
    sessions          (* number of activations by masters so far              *)

vars == <<holders, is_activated, direct_endpoint, channel, pc, remote, sessions>>

Token == [id : {"connect", "term"}, endpoint : Nodes]

Init ==
    /\ holders \in Configs
    /\ is_activated = [n \in Nodes |-> FALSE]
    /\ direct_endpoint = [n \in Nodes |-> NoEndpoint]
    /\ channel = [n \in Nodes |-> <<>>]
    /\ pc = [c \in Clients |-> "new"]
    /\ remote = [c \in Clients |-> NoEndpoint]
    /\ sessions = 0

-------------------------------------------------------------------------------
(* Clients *)

(* ts_open sends TsConnect to the home daemon.                               *)
TsOpen(c) ==
    /\ pc[c] = "new"
    /\ pc' = [pc EXCEPT ![c] = "asking"]
    /\ UNCHANGED <<holders, is_activated, direct_endpoint, channel, remote, sessions>>

(* ts_close sends TsTerm.                                                    *)
TsClose(c) ==
    /\ pc[c] = "open"
    /\ pc' = [pc EXCEPT ![c] = "closing"]
    /\ UNCHANGED <<holders, is_activated, direct_endpoint, channel, remote, sessions>>

-------------------------------------------------------------------------------
(* Daemons: the commands of clients *)

(* send_generic_token, in an action that may also have taken a token of its  *)
(* predecessor off the channel.                                              *)
SendToken(n, tk, ch) == channel' = [ch EXCEPT ![n] = Append(@, tk)]

Without(n) == [channel EXCEPT ![n] = Tail(@)]

(* ts_connect_handler in master mode, with ts_connect_send_activate_signal:  *)
(* only the connect that finds the space down sends a token.                 *)
ConnectAtMaster(n) ==
    /\ IF is_activated[n]
       THEN UNCHANGED <<channel, sessions>>
       ELSE /\ sessions < MaxSessions
            /\ sessions' = sessions + 1
            /\ SendToken(n, [id |-> "connect", endpoint |-> n], channel)
    /\ is_activated' = [is_activated EXCEPT ![n] = TRUE]

(* A client of the master's own daemon that opens as TS_MODE_MASTER.         *)
HandleConnectMaster(c) ==
    /\ pc[c] = "asking"
    /\ Home[c] \in Masters
    /\ ConnectAtMaster(Home[c])
    /\ direct_endpoint' = [direct_endpoint EXCEPT ![Home[c]] = Home[c]]
    /\ remote' = [remote EXCEPT ![c] = Home[c]]
    /\ pc' = [pc EXCEPT ![c] = "open"]
    /\ UNCHANGED holders

(* ts_connect_handler in worker mode: the endpoint if the space is up, else  *)
(* TS_MODE_BLOCK and an element of connect_requests.                         *)
HandleConnectWorker(c) ==
    /\ pc[c] = "asking"
    /\ Home[c] \notin Masters
    /\ \/ /\ is_activated[Home[c]]
          /\ remote' = [remote EXCEPT ![c] = direct_endpoint[Home[c]]]
          /\ pc' = [pc EXCEPT ![c] = "connecting"]
       \/ /\ ~is_activated[Home[c]]
          /\ pc' = [pc EXCEPT ![c] = "waiting"]
          /\ UNCHANGED remote
    /\ UNCHANGED <<holders, is_activated, direct_endpoint, channel, sessions>>

(* The second connect, at the endpoint.  What it writes to the master's      *)
(* direct_endpoint, which nobody reads, is left out.                         *)
HandleConnectRemote(c) ==
    /\ pc[c] = "connecting"
    /\ ConnectAtMaster(remote[c])
    /\ pc' = [pc EXCEPT ![c] = "open"]
    /\ UNCHANGED <<holders, direct_endpoint, remote>>

(* TsTerm: ts_term_send_decomission_signal; on a space that is down handler  *)
(* turns it away.                                                            *)
HandleTerm(c) ==
    /\ pc[c] = "closing"
    /\ pc' = [pc EXCEPT ![c] = "gone"]
    /\ IF is_activated[remote[c]]
       THEN SendToken(remote[c], [id |-> "term", endpoint |-> remote[c]], channel)
       ELSE UNCHANGED channel
    /\ is_activated' = [is_activated EXCEPT ![remote[c]] = FALSE]
    /\ UNCHANGED <<holders, direct_endpoint, remote, sessions>>

-------------------------------------------------------------------------------
(* Daemons: the token at the head of p's channel reaches Succ[p] *)

Arrives(p, id) == channel[p] # <<>> /\ Head(channel[p]).id = id

(* A daemon without the space relays a connect token, and drops a term token *)
RelayConnect(p) ==
    /\ Arrives(p, "connect")
    /\ Succ[p] \notin holders
    /\ SendToken(Succ[p], Head(channel[p]), Without(p))
    /\ UNCHANGED <<holders, is_activated, direct_endpoint, pc, remote, sessions>>

DropTerm(p) ==
    /\ Arrives(p, "term")
    /\ Succ[p] \notin holders
    /\ channel' = Without(p)
    /\ UNCHANGED <<holders, is_activated, direct_endpoint, pc, remote, sessions>>

(* connect_token_next: clients that wait are told the endpoint.  A variant   *)
(* leaves those on the list that asked after the first.                      *)
WaitingAt(n) == {c \in Clients : Home[c] = n /\ pc[c] = "waiting"}

AnswerOne(n, endpoint) ==
    IF WaitingAt(n) = {} THEN UNCHANGED <<pc, remote>>
    ELSE \E c \in WaitingAt(n) :
            /\ pc' = [pc EXCEPT ![c] = "connecting"]
            /\ remote' = [remote EXCEPT ![c] = endpoint]

AnswerWaiting(n, endpoint) ==
    /\ pc' = [c \in Clients |-> IF c \in WaitingAt(n) THEN "connecting" ELSE pc[c]]
    /\ remote' = [c \in Clients |-> IF c \in WaitingAt(n) THEN endpoint ELSE remote[c]]

(* connect_token_next: a duplicate is not passed on.  Variants: without this *)
(* test, or without the relay of a new token.                                *)
ConnectTokenAlways(p) ==
    /\ Arrives(p, "connect")
    /\ Succ[p] \in holders
    /\ is_activated' = [is_activated EXCEPT ![Succ[p]] = TRUE]
    /\ direct_endpoint' = [direct_endpoint EXCEPT ![Succ[p]] = Head(channel[p]).endpoint]
    /\ AnswerWaiting(Succ[p], Head(channel[p]).endpoint)
    /\ SendToken(Succ[p], Head(channel[p]), Without(p))
    /\ UNCHANGED <<holders, sessions>>

ConnectToken(p) ==
    /\ Arrives(p, "connect")
    /\ Succ[p] \in holders
    /\ \/ /\ is_activated[Succ[p]]
          /\ channel' = Without(p)
          /\ UNCHANGED <<is_activated, direct_endpoint, pc, remote>>
       \/ /\ ~is_activated[Succ[p]]
          /\ is_activated' = [is_activated EXCEPT ![Succ[p]] = TRUE]
          /\ direct_endpoint' = [direct_endpoint EXCEPT ![Succ[p]] = Head(channel[p]).endpoint]
          /\ AnswerWaiting(Succ[p], Head(channel[p]).endpoint)
          /\ SendToken(Succ[p], Head(channel[p]), Without(p))
    /\ UNCHANGED <<holders, sessions>>

(* term_token_next: a daemon that is up passes the token on and goes down.   *)
(* A variant goes down first and then looks.                                 *)
TermTokenDownFirst(p) ==
    /\ Arrives(p, "term")
    /\ Succ[p] \in holders
    /\ channel' = Without(p)
    /\ is_activated' = [is_activated EXCEPT ![Succ[p]] = FALSE]
    /\ UNCHANGED <<holders, direct_endpoint, pc, remote, sessions>>

TermToken(p) ==
    /\ Arrives(p, "term")
    /\ Succ[p] \in holders
    /\ IF is_activated[Succ[p]]
       THEN SendToken(Succ[p], Head(channel[p]), Without(p))
       ELSE channel' = Without(p)
    /\ is_activated' = [is_activated EXCEPT ![Succ[p]] = FALSE]
    /\ UNCHANGED <<holders, direct_endpoint, pc, remote, sessions>>

Daemon(c) ==
    \/ HandleConnectMaster(c)
    \/ HandleConnectWorker(c)
    \/ HandleConnectRemote(c)
    \/ HandleTerm(c)

Ring(p) ==
    \/ RelayConnect(p)
    \/ DropTerm(p)
    \/ ConnectToken(p)
    \/ TermToken(p)

Next ==
    \/ \E c \in Clients : TsOpen(c) \/ TsClose(c) \/ Daemon(c)
    \/ \E p \in Nodes : Ring(p)

Spec == Init /\ [][Next]_vars

(* tsd_listen looks at its clients' sockets and at the p2pmd pipe in every   *)
(* turn, so no message waits forever; programs need not open or close.       *)
FairSpec ==
    /\ Spec
    /\ \A c \in Clients : WF_vars(Daemon(c))
    /\ \A p \in Nodes : WF_vars(Ring(p))

-------------------------------------------------------------------------------
(* Properties *)

Quiet == \A p \in Nodes : channel[p] = <<>>

(* "Sends a TsTerm signal around the ring to deactivate all tuple space      *)
(* daemon's tuple space handles of that space" (and the activate signal, in  *)
(* the same way, activates them): with no token on the ring the daemons that *)
(* have the space agree on whether it is up.  That holds if all daemons have *)
(* the space, or the master has it up: a term token stops at a daemon        *)
(* without the space, and at one where it is down.                           *)
SameIfReached ==
    Quiet /\ (holders = Nodes \/ \E k \in Masters : is_activated[k])
        => \A n, k \in holders : is_activated[n] = is_activated[k]

(* A client that waits at a worker while the space is up at the master is    *)
(* told the endpoint, even when the master closes the space meanwhile: the   *)
(* term token stays behind the connect token.                                *)
WaitersAnswered ==
    \A c \in Clients, n \in Masters :
        pc[c] = "waiting" /\ is_activated[n] ~> pc[c] # "waiting"

(* As long as nobody closes the space the ring comes to rest, however many   *)
(* connects there are.                                                       *)
ConnectsComeToRest ==
    [](\A c \in Clients : pc[c] \notin {"closing", "gone"}) => <>[]Quiet
===============================================================================
