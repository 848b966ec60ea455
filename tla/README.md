# A verification project for SynergyWrapper

SynergyWrapper is a tuple space (Linda) for clusters, written in C over ZeroMQ.
Programs put named tuples into spaces and take or read them by name or pattern.
This directory holds TLA+ models of it, the TLC configurations that check
them on small instances, and TLAPS proofs about them. Paths below are relative
to the repository; the code proper is in `src/`.

1. The system
2. The modules
3. The runs
4. The proofs
5. What the code does that its authors may not expect
6. Not modelled
7. Plan

## 1. The system

| Component | Source | State | Operations |
|---|---|---|---|
| shared memory pipe | `src/shared_memory/shared_memory.h` | a segment of fixed size, semaphores `r_sem` and `w_sem` | create, open, `send_item`, `recv_item` |
| tuple space daemon, `tsd` | `src/tsd/tsd.c`, `src/tuple_utils.h` | per space: tuples, waiting requests, `is_activated`, `direct_endpoint`, `connect_requests` | `handler` for commands of clients, `token_handler` for tokens of the ring |
| client library, libts | `src/ts/ts.c` | sockets to the home daemon and to the space's master, the two pipes | `ts_open`, `ts_in`, `ts_out`, `ts_bcast_*`, `ts_close` |
| ring daemon, `p2pmd` | `src/p2pmd/` | successor list, predecessor, status, expectations, one slot for a token to send and one for a token received | join, stabilisation, forwarding of tokens |
| name matching | `src/tuple_utils.h` | none | `tplcmp`, `_match`, `tplregex` |
| configuration parser | `src/parser` | bit vector of the fields seen, the heap | `sng_parse_config`, `sng_destroy_config` |
| launcher | `src/synergy4`, `tsd_create` in `src/tsd/tsd.c` | hash table of the spaces | `main` up to `tsd_listen` |
| hash table | `contrib/libchash` | sparse groups, counts, last item found, iterator | allocate, find, insert, delete, clear, iterate, goal size |
| example programs | `src/synergy_examples` | an MPI group each | matrix multiplication, hello programs |

**How they interact.** The launcher reads the configuration, makes the sockets and
the pipes of every space and enters the spaces in the hash table. A program is linked
with libts. It talks to the daemon of its host over IPC, and if that daemon is not
the master of the space, to the master's daemon over TCP. On the master's host the
data of a tuple do not go over the socket but through two shared memory pipes per
space, `-push` (to the daemon) and `-pull` (to the clients). A daemon is one thread
that polls its two ROUTER sockets and the pipe of its p2pmd actor, another thread of
the same process. The actors of all hosts form a ring and pass tokens to their
successors; the daemons use two of them, "connect" and "term", to tell each other
that a space is up and where, and that it is down.

**What is hard here.** The semaphore hand-over between any number of local
processes that may die in it; blocking requests, which the daemon remembers and
answers later, at other clients' puts or at the close of the space; spaces that
go down and up again under clients that do not know it; tokens that nothing stops
but the state of the daemons; a membership protocol whose waits mostly have no timer,
in an event loop that jumps into its own middle; a parser that frees by the bits of
fields that come in any order; an open-addressing table whose pointers move.
`PROJECT.json` lists the hazards with their lines.

**What makes it correct.**

* Pipe: chunks are neither overwritten nor read twice, items arrive whole, nobody waits for a token that is lost.
* Daemon: a tuple is taken once, none is lost, nobody waits for a tuple that is there, replies reach the call they belong to, a close answers all who wait.
* Activation: daemons agree on whether a space is up, waiting clients learn the endpoint, tokens come to rest.
* Membership: successor and predecessor pointers form one ring after joins and after a crash, no live member is passed over, a token arrives once, exchanges end.
* Hash table: it is a map, and a search ends.
* Start-up: a daemon that listens has everything it uses; a right file is not refused; memory is used while it is allocated.
* Matrix programs: every row is computed once, and the master ends.

## 2. The modules

| Module | What it is |
|---|---|
| `OnePlaceBuffer` | abstract: a buffer for one chunk |
| `ShmPipe` | the shared memory pipe, in steps of semaphore operations and copies; refines `OnePlaceBuffer` |
| `TupleSpace` | abstract: tuples are accepted, stored, taken once |
| `Tsd`, `MCTsd` | the daemon's `handler()` for a space in master mode with its clients; refines `TupleSpace` |
| `TupleMatch` | `tplcmp`, `_match`, `tplregex`, and the meaning of wildcards |
| `NamedTuples` | `Tsd` with names compared by `TupleMatch` |
| `Matrix`, `MCMatrix` | the matrix programs, composed with `NamedTuples` |
| `Activation`, `MCActivation` | connect and term on a ring of daemons, and `ts_open` through a worker's daemon |
| `RingJoin`, `MCRingJoin` | `p2pm_join` and the handlers of the members it talks to |
| `RingStabilize`, `MCRingStabilize` | the actor's loop: stabilisation, promotion, replication, tokens, crashes |
| `HashMap` | abstract: a map with an iteration |
| `HashTable`, `MCHashTable` | libchash; refines `HashMap` |
| `Startup`, `MCStartup` | `main`, `sng_parse_config`, `tsd_create` |
| `ShmPipe_proofs`, `Tsd_proofs`, `NamedTuples_proofs`, `Activation_proofs`, `RingJoin_proofs`, `RingStabilize_proofs`, `HashTable_proofs`, `Startup_proofs` | the theorems |

An MC module gives the constants of its module values; the names it compares are real
strings, as sequences of symbols.

### ShmPipe
A process is the thread that runs the inline functions of the header. The
semaphores, the segment and the locals that matter (`i`, the chunks got so far)
are variables; `pc` says which semaphore operation or copy is next. `WaitW`,
`CopyIn`, `PostR` are `write_shared_memory`, called by the loop of
`send_item`; `WaitR`, `CopyOut`, `ZeroSegment`, `PostW` are
`read_shared_memory`, called by `recv_item`, whose choice between another turn and
the return is `RecvTurn`. `ReadFails` covers both error returns of
`read_shared_memory`, which leave without posting. `Crash` is the end of a
process anywhere; the semaphores live on, and `Open` finds them as they are.
Bytes are abstracted to (item, chunk number).

### Tsd
One action is one run of `handler()` for one message: the daemon is a single
thread and `handler` runs to its end. Each client has a FIFO of requests
(`inbox`) and one of replies (`outbox`), as ZeroMQ gives a DEALER its own
ordered connection. `zlistx` queues are sets of records with their place (`at`).
`MatchBlockingRequests` is `match_blocking_requests` as a whole: whom it serves
(`Served`), the one more request it throws away (`Dropped`), and whether the
tuple is stored. `HandleInactive` is the gate for spaces that are down.
Behaviour that is undefined in C is a choice of outcomes: `daemon` becomes
"crashed", or "spinning" where a loop does not end. A client's `pc` is "calling"
while it is in a call that waits for a reply. `holds` and `accepted` are history,
kept for the properties. Name matching is the constant relation `Matches`; in
`NamedTuples` it is `tplcmp` of `TupleMatch` on the names of the instance. The
space is in master mode; `Direct` chooses whether it starts activated.

### TupleMatch, NamedTuples and Matrix
`_match` is a recursive function over two suffixes, the character that ends a C
string included. `WildcardMatches` is the reference definition, a way to cut the name into pieces, and
`Asks` what a query means. `MCMatrix` assumes (TLC evaluates it) that `_match` agrees
with it for all expressions of up to four symbols and all names without wildcards, and that
`tplcmp` is symmetric; both are proved for strings of any length. `regexec` is the constant `Regexec`.

`NamedTuples` gives `Tsd` the relation `Matches` that the comparators of its queues make (`TplMatches`). It
assumes that names are no queries, as the programs' are not: a tuple that is put as "!A" finds no query, and one with
a `*` in its name is compared with the query's as if both were patterns.

`Matrix` joins the calls of `matrix_master.c` and `matrix_worker.c` with the client
actions of `Tsd`. A program is one MPI group; its rank 0 makes the calls, and a round in
which the ranks compute the slices of a part (`Round`, `Slice`) is one step, since nobody
outside the group takes part in it. An assertion of the programs that fails leads to "failed".

### Activation
Daemons in a fixed ring. `ConnectToken` and `RelayConnect` are
`connect_token_next` with and without the space, `TermToken` and `DropTerm` the
same for `term_token_next`. The path of a token from one daemon to the next
(actor pipe, send slot, socket, receive slot, actor pipe) is a FIFO channel:
within one turn of its loop the actor sends what it has in its slot before it
reads its pipe again; `TokensArriveOnce` of `RingStabilize_proofs` says that the slots lose nothing. `holders`
are the daemons that are configured with the space. A client opens at its home
daemon and, if that is a worker's, connects again to the endpoint it is told. Tokens are
sent with ttl -1, "without end", and nobody decrements a ttl.

### RingJoin
One action of a joiner is the code between two receives of `p2pm_join`; one
action of a member is one handler of its server socket, which the loop runs to its
end. A joiner has a FIFO channel to each node it sends to; there is no order
between its predecessor's and its successor's, which matters, as an abort
or a commit may overtake the other half of it. `sent` and `answer` are these
channels, `node` is `current_status` with the `node_list`. The two exits of
`p2pm_join` keep the names of their labels (`PredecessorConnected`, which tells nobody,
and `SuccessorConnected`, which sends both aborts). `p2pm_try_live` compares an
uninitialised variable and sends no ping: `PingFinds` says what it may return.
`contested` is history: it becomes true when a request of one joiner meets the address
that another has left in `temp_successor` or `temp_predecessor`, and the properties of
the pointers are stated up to then. `SuccessorsFormARing` says "the successors lead from each
member to all" by sets that successors do not lead out of (`Closed`), which TLC and the
prover can both use. The stop at a contest is no formality: without it TLC finds that a
joiner that was turned away becomes the successor at another's commit, that a second
commit sets a predecessor to zeros, and that an abort which is late clears the
address of the next joiner, though the first join was over for its predecessor.

### RingStabilize
One action is one turn of the loop of `p2pmd_actor`: `zmq_poll`, one message of
the pipe, the server's handler, the timer, the successor's socket, the token to
send, the predecessor's socket, the token received, and the test after which
the loop jumps back without polling (`pc` "again"). Each stage (`AtPipe`,
`AtServer`, `AtSuccessor`, `AtPredecessor`, `Ended`) maps the turns possible so far to
those after it. `succ_xpv`, `pred_xpv` and `trig` are the expectations
and the trigger of the code, under the names of its enumerations.

Time is abstracted to two facts. A receive wait (5 s) runs out only when nobody
has anything else to do (`Quiet`), because answers take milliseconds; being late on
a socket where nothing is expected is free. The intervals (10 min) are of one length, so
each node's ends once between two states of rest (`Calm`); `Overlap` says in which states a node's
interval may end. Frames of an ACK are read in one go, as they are sent in one go; the
leftovers of a refused STABILIZE_REQ are abstracted, and the refusal goes nowhere, being sent without the
client's id. `p2pm_form_one_ring` closes sockets that are still polled: the actor
ends, "left". A read of `predecessor_buf` without a frame gives any of the values
it may hold (`Received`). Pings that a hung node does not read are kept up to `MaxPings`.

### HashTable
Each call of the interface is an action. A group of the sparse array is a bitmap
and the sequence of its items, so a pointer to an item is a group and an
offset, and moves when the group grows, as in the C. `Probe`, `Find`, `Insert`,
`Delete` and `Rehash` are the internal functions. `Rehash` copies item by item, in the order of the iterator: a recursive
function says what the new table is once the items `ps` are copied. The hash of a key is the constant `HashOf`: the
bit mixing matters to properties by its collisions only. Keys are kept in
the table, as `src/p2pm_examples/test.c` does. A table that has been rehashed to no
buckets is broken (`Crash`). `did` is history: whether a goal was set, an item deleted or
skipped; the abstract `HashMap` says with it (`risks`) what its promise excludes.

### Startup
A step reads one field, whatever field stands next, with a legal or an illegal
value; the order, repetitions and gaps of a file are the nondeterminism of `Next`.
`bv` is the bit vector by which `_handle_parse_failure` decides what to free,
`heap` the state of every allocation, `misused` the pointers used or freed
when they were not live. `seen` and `odd` are history: what in the file, or outside
the program, was unusual. The texts of the daemon's own section are taken as valid,
and its three fields are one step (they are looked for by name, in one order).

## 3. The runs

| Run | Instance | States | What it shows |
|---|---|---|---|
| `pipe_pair` | 1 writer, 1 reader, 3 items of up to 3 chunks | 957 | items whole and in order; sends return |
| `pipe_shared` | 2 writers, 2 readers, 2 items each of one chunk, 1 fault | 30,872 | one token; segment and semaphores agree; no item twice; refinement of `OnePlaceBuffer` |
| `tsd_serve` | 3 clients, 2 names, 2 patterns, 2 calls each | 69,330 | no missed match, tuples conserved, requests live, replies in step, queries meet the tuples they describe, non-blocking calls return |
| `tsd_life` | 3 clients, 2 calls each and close | 407,773 | refinement of `TupleSpace` over connects, terms and crashes; a term answers everyone on the list and leaves nothing behind |
| `ring` | 4 daemons, one of them perhaps without the space, 4 clients, up to 3 sessions | 82,604 | agreement, waiting clients answered, rest without closes |
| `join` | rings of 1 to 3 nodes, 3 joiners at the same, at neighbouring, or at one another's place | 22,010 | one ring of successors throughout; neighbours agree when nothing is under way; only nodes that have joined become predecessors; `HANDLING_JOIN` ends |
| `heal` | ring of 3, 1 crash anywhere, 1 token | 160,717 | the ring heals, the dead leave the lists, no live member is passed over, the token is in one place |
| `rest` | ring of 3, intervals that overlap, no crash | 169,961 | nothing changes the ring; every exchange ends; no answer is taken for another |
| `hang` | ring of 2, intervals at any time | | violation of `DueIsHandled` |
| `table` | 3 keys that collide, groups of 2, tables from 4 buckets, goals -1 and 4 | 34,696 | a map; counts right; a search ends |
| `startup` | up to 2 spaces of 2 names, lists of 1 or 2 | 63,866 | what a listening daemon has, which files are refused, which memory is misused when |
| `matrix` | 12 rows in parts of 3, a master and 2 workers, groups of 2, 2 and 3 ranks | 97,270 | every row once; the master finishes |

The two runs of the pipe are complements. One chunk per item in `pipe_shared` is not
for speed: with several processes at one end the chunks of larger items mix, as nothing in
`send_item` holds the token from chunk to chunk, so `ItemsOnce` is claimed for
items of one chunk only. The invariants `OneToken` and `SegmentAgrees` and the
refinement do not depend on the size of items, and are proved for all.

**Why the bounds suffice.** Three chunks give a first, a middle and a last turn
of both loops. Two processes at each end are enough for any race on a semaphore, and one
fault for each place where a token can vanish. In `Tsd` three clients allow a put to
meet a list with a reader, a taker and one more behind; two calls per client
let a call find what another has left; connects, closes and reconnects of three
sessions bring a space up and down more than once. Four daemons give a ring with two
between a worker's client and its master on either side, and a place for one that
lacks the space; three sessions an old, a current and a new token. Three joiners let two
meet at one member while a third builds on the result, and with `RMax` 3 the successor
lists reach their limit; `Starts` names the rings and contacts. A ring of three with lists
of two is the least in which a member has a successor, a predecessor that is another
node, and a second entry to promote; with one crash it becomes a ring of two. Two
crashes of neighbours would empty a list of two, which the protocol does not claim to
survive. In `rest` turning the ring is a symmetry. The table's keys collide in the same bucket
and run into the bucket of a third; deletes, a goal and three items take it through growing,
shrinking and deleted buckets, and MIN_HASH_SIZE is two groups so that
items also move between groups. Two spaces are enough for the bits of one to be there at the next, and
for two of one name. Four parts for three groups leave one that somebody takes twice.
Every bound (`MaxChunks`, `MaxItems`, `MaxFaults`, `MaxCalls`, `MaxSessions`,
`MaxCrashes`, `MaxTokens`, `MaxPings`, `MaxSpaces`) is a guard of an action, named where
the constant is declared.

**Fairness.** `ShmPipe`: weak fairness of each process that can go on, and a
reader that keeps calling `recv_item`, as the daemon does for every write
command; writers need not start. `Tsd`: weak fairness of the daemon for each
client (`tsd_listen` comes back to both sockets, and ROUTER sockets serve their
peers in turn) and of clients that have a reply to read; nobody needs to call, and a
daemon that has crashed or spins takes no step. `Activation`: weak fairness of
each daemon for each client and for its ring socket. `RingJoin`: weak fairness
of each joiner, whose receives all have a timeout, and of each member for each
joiner. `RingStabilize`: weak fairness of the turns (an actor with something to do goes
on, in an order that is not promised), of the end of intervals and of the calm between them.
`Matrix`: the same as `Tsd`, and each program goes on when it can. `HashTable` and
`Startup` have no liveness property. Deadlock is not checked in most runs, because programs
end, blocked clients may stay blocked, parsing comes to its end and hung actors stop; where they
must not, a property says so. It is checked in `rest` and `table`.

**Finding.** `hang` is a disagreement between the code and its comment.
`p2pmd.c:135` says that the end of an interval "is expected behaviour, shall be handled in
loop body". The loop body handles it only in status MEMBER. If the interval ends while the node
serves its predecessor's STABILIZE_REQ, the jump to `_process_timeo` repeats the loop with
the old poll results, so the SYN that would make it MEMBER is never polled for.
`Overlap` is "member" in `rest` and "rest" in `heal` for this reason: a node that hangs in this way
answers nobody, so with "any" the ring neither comes to rest nor heals.

**Exceptions inside the properties.** `SuccessorsFormARing` and its
neighbours in `RingJoin` are stated up to a contest (above). `HandlingJoinEnds`
excepts a member whose joiner has gone by `predecessor_connected` or by the
one-ring exit: it does stay in `HANDLING_JOIN`. `NoLiveNodeSkipped` and `RingHeals` except
members whose exchange a crash has cut short (`CutShort`): they wait for an ACK
or a SYN without a timer, hang when their interval ends and are taken for dead. `SameIfReached` asks that
all daemons have the space or the master has it up, since a term token stops at a
daemon without it. `Conserved`, `RequestsAreLive` and `RepliesInStep` are checked, and proved, for
spaces that nobody closes. `CountsAgree` and `HashMap` except tables in which
`HashFindOrInsert` met a deleted bucket, and those given a goal before a delete.

## 4. The proofs

Every theorem holds for every value of the constants that the module's own
assumption allows; those of `RingStabilize_proofs` about a ring that nobody has left name two assumptions more. A module's invariant is stated in named parts, and there is one
lemma per action or part of an action.

**`ShmPipe_proofs`**, from `PipeAssumption` (writers and readers are disjoint,
bounds are numbers, `Zero` is not a chunk): `TypeCorrect` (`TypeOK`), `TokenIsSafe`
(`OneToken`), `SegmentIsConsistent` (`SegmentAgrees`) and `PipeIsOnePlaceBuffer`
(`IsOnePlaceBuffer`, the refinement).

The inductive invariant is `PipeInv == TypeOK /\ OneToken /\ SegmentAgrees /\
Untouched /\ CopyingAgrees`. `OneToken` is not inductive by itself: opening the
pipe sets the semaphores, so one must know that nothing has happened before
(`Untouched`); and the truth of "readable means a chunk is there" has to be
carried through the steps between a copy and the post (`CopyingAgrees`).

What arrives is proved where the code keeps its word, and the conditions are part of the statements:

* `SharedItemsArriveOnce` (`ItemsOnce`): if items are of one chunk, for any writers, readers and
  faults. `OnceInv` follows an item from the writer (`WrittenIsSent`) through the segment
  (`SegmentIsNew`: what is readable nobody has got yet) to a reader that holds it (`GotIsNew`) and
  what is received.
* `PairItemsArriveInOrder` (`ItemsInOrder`): with one writer, one reader and no fault, for items of
  any length. `OrderInv` says how far the reader is, `Between` two items or `Partway` through one,
  for each place the writer can be at.

**`Tsd_proofs`**, from `TsdAssumption` (programs issue commands of the library,
`Matches` is a relation between patterns and names), for any number of clients, names and
patterns, any programs, and a space that starts up or down:

* `TypeCorrect` (`TypeOK`), by `TsdInv`: the types; the places in both queues are numbers and
  differ (`Numbered`); no tuple has a place beyond `accepted`; the requests' places are bounded. The last two are what
  makes "the end of the queue" a number. That the first element of a queue exists is
  shown from the well-foundedness of `<` (`LeastExists`); that the requests in order are a
  sequence without repetition, onto the queue, from an injection of the queue into its places.
* `NobodyIsMissed` (`NoMissedMatch`), inductive with `TsdInv`: a put serves all it
  matches up to the first taker and is stored only if there is none; a query is queued only if
  nothing matches.
* `SessionEnds` (`TermEndsSession`), with `DownIsEmpty`: a space that is down has neither
  tuples nor requests.
* `DaemonIsTupleSpace` (`IsTupleSpace`): every action is a put, a put that is handed over, a take, a
  close or a stutter of `TupleSpace`.
* `TuplesTakenOnce`: `TupleSpace`'s own `TakenOnce` holds of the daemon. It is proved of the abstract
  specification (`OnceInv`) and carried over by the refinement.
* Under the assumption `NobodyCloses` (no program's workload has a `TsTerm`), which is part of each
  statement: `NothingIsLost` (`Conserved`), `RequestsFindCallers`
  (`RequestsAreLive`), `RepliesFindCalls` (`RepliesInStep`). The first adds `Covered` to `OnceInv`. The other
  two rest on `Phase(c)`, which says where a call can be: not begun (`New`), between calls
  (`Open`), in `ts_open` before and after the answer (`Connecting`, `Connected`), in a query the
  daemon has not looked at (`Asking`), or in one it has (`Asked`), where the
  client is on the list just once (`Listed`), or off it and told at most once (`Told`).

The assumption is needed: a term while a query is on its way makes the reply to the
next call one too early, and what is stored is discarded.

**`NamedTuples_proofs`**, from `TsdAssumption` and `NamesAssumption` (names and queries are strings of at least one
character, and names are no queries), for names and queries of any length and any `Regexec`:

* `QueriesGetWhatTheyAsk` (`QueriesMeetTuples`): under `NobodyCloses`, nobody waits for a tuple that is there and nobody
  is answered with another, where "asks for" is what a wildcard means and not what the code computes. It joins
  `NoMissedMatch` and `RepliesInStep`, in which a match is a pair of `Matches`, with the comparison of names.
* `MatchDecidesWildcards`: `_match` returns 0 just if the name can be cut into pieces for the
  expression. The induction over the expression goes without an induction theorem: among the rows of `_match`'s table
  that differ from what the suffixes mean (`CutFrom`) one would be for the shortest suffix of the expression, and
  `StepIsCut` shows that a row is right if the one for the next suffix is. That the table exists is shown
  by giving it outright (`TableExists`). For names with wildcards the statement is false, as a `*` of the name is skipped
  with one of the expression.
* `ComparisonIsWhatIsAsked` and `ComparisonIsSymmetric`: the same for `tplcmp`. The second is why a put finds
  the requests that a query would have found the tuple for.

**`Activation_proofs`**, from `ActivationAssumption` and `RingAssumption` (`Succ` is one ring through all
daemons: no two have one successor, and only the whole set is closed under it), for a ring of any size:

* `ClientsAreSentToMasters`: the endpoint a client is told, and the one a worker's daemon keeps while the
  space is up, is that of a daemon with the space in master mode, for any number of masters. No run
  checks it by itself.
* `DaemonsAgreeAtRest` (`SameIfReached`): for a space with one master, which is part of the statement. A
  daemon with the space does what its last token says (`LatestAgrees`), and once that has
  arrived the next one does the same (`NeighbourFollows`); so agreement goes from the master around the ring.
  Over a daemon without the space it goes by `ConnectGetsThrough`: there is a set of daemons that have
  relayed a connect token, and behind them the space is up. The state does not record that set,
  so the invariant says that one exists, and each step gives the next. No term token gets through such a daemon
  (`RelaysConnectOnly`), which is why the property asks that all have the space or the master has it up.

**`RingJoin_proofs`**, from `RingJoinAssumption`, for any ring, any
number of joiners, any contacts (joiners among them), any `r_max` and with or
without early timeouts: `TypeCorrect` (`TypeOK`) and `ListsAgree` (`ListStartsWithSuccessor`).

The inductive invariant is `JoinInv == NodesOK /\ ChannelsOK`.
`ListStartsWithSuccessor` alone is not inductive: `p2pm_join` writes the
joiner's successor and its list in two steps, and the node serves only after
both. `JoinInv` says that a node whose `p2pm_join` still runs serves nobody, and
that its list is complete from the moment it waits for `JOIN_ACK2`. The lemma
`CopyFits` shows that copying a list behind a first entry stays within `r_max`.

The second part of the module is about pointers, and uses that a node is on a ring once: `SuccessorsStayARing`
(`SuccessorsFormARing`), `NeighboursComeToAgree` (`NeighboursAgree`) and `PredecessorsHaveJoined`
(`PredecessorHasJoined`).

With `JoinInv` the invariant is `RingInv`: as long as no join has met another, either there is a ring
(`RingOf`) or a node is alone and stays so (`Alone`). TLC has checked it on the instance of `join`. The three
properties say nothing of a join under way; `RingOf` has to, in two parts.

* Of each join (`Joining`): which requests may still be on their way in each phase (`MailOK`); the contact keeps
  its place for the joiner from GET_ACK to the commit (`Kept`), the successor its own from JOIN_ACK1 to
  PRED_JOIN_CMT (`Promised`), and JOIN_ACK2 means that the contact has taken the joiner (`Acknowledged`);
  until then nobody has it for a successor (`Fresh`). That an abort never crosses the commit of its own join is
  the order within one channel (`Orderly`).
* Of the pointers: no two nodes of the ring have one successor (`Distinct`), a member is its
  successor's predecessor or its PRED_JOIN_CMT is on the way (`Linked`), and only
  sets with all members are closed under successors (`Cycle`). `Distinct` is what makes a commit put
  the joiner between two nodes and not beside the ring.

Sets stand here for walks because a proof about the n-th node of a walk is an induction over a recursive
definition. That the starting ring is such a cycle follows from the least place of it that a closed set could
miss (`AllFrom`); `CycleStays` carries the cycle through the steps that leave pointers alone.

**`RingStabilize_proofs`**, from `RingStabilize`'s `RingAssumption` (no member is twice on the ring, `None` is
neither a member nor a token), for a ring of any size, any `RMax` above 1, any crashes and tokens:
`TokensAreAccountedFor` and from it `TokensArriveOnce` (`TokensOnce`).

The invariant is `Accounted`. `TokensOnce` is not inductive: it allows an actor that polls
with a full slot, which the next token overwrites, one token twice in a pipe, and one that is somewhere before it
was given out. `Accounted` names the place of a token, `In(t, k, a)`: the
pipe, the slot to send, a link, the slot received, the daemon. A token is in one place (`InOnePlace`), once
there (`OnceThere`), was given out (`Known`) and, while all live, is somewhere (`NoneLost`). `SlotsFree` is why no slot
is overwritten: an actor takes a token from its pipe or its server only when it polls or goes round again, and
then both slots are free; only one left reading its successor's socket keeps what it has, and that one takes
nothing until it has finished the turn. TLC has checked `Accounted` on a ring of two with two tokens and a crash.

A turn is a chain of stages, and so is the proof. `Step(x, y, k)` says of a handler that it keeps the types, touches no
token and sends `k` messages at most, none of them a token; every handler has a lemma with its `k`, and
`StepTrans` adds them up. `TurnDone` sums up a turn: which token was taken, which was read, what was
sent and what went up the pipe; a turn sends four messages at most, which `PostAll` relies on.
`TurnAccounted` then says where each token is after the turn, and is the one place where all of this meets. The only
fact about relaying that types need is in `NodeOK`: who relays a list has been sent one with steps
to go, so that its ttl is never 0. `AfterOK` is the arithmetic of places on the ring.

**A ring that nobody has left**, in the same module: for a ring of any size, any `RMax` above 1 and any tokens, until the first member
crashes or leaves (`Live = Nodes`, part of each statement): `ExchangesGoWell`, and from it `TheRingStands`
(`RingStands`), `AcksComeInStep` (`AcksInStep`) and `RestLeavesNothing` (`RestIsClean`). The theorems assume two
things of the constants. `Overlap # "any"`: the interval of a member does not end while it
serves its predecessor. With "any" a member hangs (the run `hang`), it is taken for dead, and TLC finds `RestIsClean`
and `RingStands` violated; `AcksInStep` it finds to hold even then on a ring of three, which is not proved. Intervals of
different members end in any order, in the middle of each other's exchanges. `MaxPings > 0`: with a bound of 0 the
model would drop every ping, and who waits for its answer would wait for ever.

The invariant is `Good`, an inductive form of all three properties together; TLC has checked it on a ring of three with a
crash. None is inductive alone: the neighbours stay because an ACK carries the list of the successor, the ACK comes in
step because the successor has answered the request of this exchange and no other, and that it
answers at all rests on its neighbours and status. `Good` has four parts for each member `k`.

* `Placed`: neighbours and list are those of the ring, and only its predecessor can be its next predecessor.
* `Exchange`: the exchange with the successor is at one of six stages, each with what `k` expects (`succ_xpv`), what its socket
  holds, the one message of the exchange on the way to the successor besides tokens, and whether the successor has
  written `k` down (`temp_predecessor`). A stage that has begun has reset the interval, so `k` starts no second exchange.
* `Busy`: a status `HANDLING_STABILIZE` belongs to an exchange that is under way, down or up the ring; and a member that
  goes round without polling is about to read a SYN, so it comes out.
* `Awaited` and `Carried`: who waits for its predecessor has something on the way to it or from it; a
  list sent back is that of the sender.

A turn takes part in two exchanges, as predecessor and as successor, and one step of the model makes it
all. The proof follows the stages of the loop: `Served` says what the pipe and the server's handler leave,
`Underway` what stands while the successor's socket is handled, `Settled` how the turn ends. `EffectGood` then puts the turn of `n`
against its two neighbours, the same member in a ring of two, and against everyone else, whose exchanges it leaves alone.
Places are integers modulo the length of the ring (`AfterPlace`, `SamePlace`), which gives that the leader's
follower is oneself and that copying a follower's list behind it gives one's own.

**`HashTable_proofs`**, from `HashTableAssumption` (hashes are numbers, groups and new tables are powers of 2, a new table
is at least a group and has at least 4 buckets, 512 in the code; no datum is `DELETED`; `NULL` is no key, item, pointer or table),
for any keys, data, hashes and goals and any number of items: `TypeCorrect` (`TypeOK`),
`CountsAreRight` (`CountsAgree`), `SearchesEnd` (`FindEnds`), `ImplementsMap` (`IsMap`: the table implements `HashMap`)
and `ProbesCover`, which is about the probes alone.

None of the three invariants is inductive. A search ends because a bucket is empty; one is empty because a table grows once
half of it is taken; when it grows is decided by the counters; and that a table grown so has room for
the items depends on the counters again, and on `NextPow2`. The invariant is `IInv`, which TLC has checked with the
constants of the run `table`; for a table it says:

* `Room`: there are a power of 2 of buckets, more than twice as many as are taken, or none.
* `Counted`: `cItems` is not below the items that are live, nor both counters together below the buckets taken. These are
  inequalities, for once `HashFindOrInsert` has counted an item that it did not write they differ for good; `Exact`
  says equality until then (`"skipped"`).
* What was last found, where the iteration is and what was returned are items of the table, and the first two live ones.

`ProbesCover` is what makes room enough: `l` and `h + i (i + 1) / 2` meet modulo a power of 2 for an `i` below it. If two probes
`i < j` were one bucket, the table would divide half of `(j - i)(i + j + 1)`, one of whose factors is odd
(`OddFactor`); so the probes are as many as the buckets, and cover them. `EmptyProbe` then bounds every search, also
the inner loop of `Rehash`, whose table fills up: `CopiesHave` shows, for the least set of items that could be an exception, that
the new table has one bucket for each item copied, and so an empty one for the next (`HasCopied`). `GrownIs` is the
sparse insertion: how the pointers of a group shift when an item comes between them.

`ImplementsMap` needs more, `MInv`, which TLC has checked together with `IInv`. For a table (`Mapped`):

* `Chained`: a live item is `Reached` by the probes of its key over buckets that are all taken, and no two live
  items have the same key. This is what a deletion must not break, and does not, as a deleted bucket stays taken
  until the next `Rehash`; it gives that `Find` meets the item there is (`FoundItem`) and stops rightly at an empty bucket.
* A table with a deleted bucket (`~Clean`) has had a key deleted: only then may `HashFindOrInsert` leave a key out,
  as the map allows with the risk `"deleted"`.
* Without a goal a table is `Lean`: it has less than twice the buckets of a new one, or at most 5 for each item. So the delete
  of the last item never shrinks it, and only a table given a goal can be rehashed to no buckets (`DeleteIs`, where a new table's
  4 buckets are needed: with 2, a table of 4 buckets and one item would shrink to none).

The search is about buckets and the array about pointers that move; `Held(t, l)` is the item in bucket `l` wherever its
pointer is (`PointerOnto`, `PointerOnce`), and `Filled` says of an insertion and of a store that they change what
one bucket holds. `FilledChained` is then the one proof that `Chained` survives, for insertion over a deleted bucket or beside it, for
deletion and for each copy of a rehash. `NextLeaves` is the iteration: the next pointer is the least one beyond, and by `KeysOnce` its
item is not returned again. Each action then has a lemma `...Steps`, from which every step of the table is a step of the map.

**`Startup_proofs`**, from `StartupAssumption` (a list is not empty, a space has a name),
for any lengths of lists, any names and any number of spaces: `Listens`
(`ListeningIsComplete`), `Refuses` (`RefusesOnlyFaults`) and `Misuses` (`UndefinedOnlyIf`).

All three follow from `StartInvariant`. Its invariant `StartInv` has a part per stretch of the
start: `P2pmdInv`, in the section p2pmd a bit is set just when its field was seen, but for that of the
successor list, which `r` sets too, and what is allocated is what was seen; `RestInv`, after it the
bits of a space stay below those that would free the list or the predecessor; `SpacesInv`, the spaces
read are complete, the last as far as its bits say; `TableInv`, those made are in the table; `OddInv`,
a file that got this far has no fault. `FailureFacts` says once what a refusal frees by its section and bits, and
`P2pmdRefusal` and `SpaceRefused` that nothing but the list is freed when it is not live.

**Only model-checked.** Of `RingStabilize` what follows a crash
(`NoLiveNodeSkipped`, `RingHeals`); `Matrix`; the pipe's items when several processes share an end and items are long, for which
nothing is claimed; `SameIfReached` with several masters; and every liveness property, since
liveness under fairness is out of the prover's reach. So is what a fold of the community
modules computes for every input, as their definition is recursive in an operator.

## 5. What the code does that its authors may not expect

The models reproduce the following. None of it contradicts a text of the
repository (the one that does is the finding above), so no run reports it;
a reader of the code should know it.

*Daemon and library.* `match_blocking_requests` throws away the request behind the
taker (`tsd.c:457-462`): that client waits until the space closes, and then is not told either.
A put that arrives before the space is up is answered with `TsEnf`, a reply nobody reads
until the next call. A blocking call that arrives after the close waits for ever. One
`ts_bcast_write` makes the next `TsTerm` loop for ever (`tsd.c:1308`).

*Activation.* A term token stops at a daemon without the space, so those behind it
believe the space is up. A connect token and a term token on the ring at the same time may follow each other for
ever: both have ttl -1, and each leaves the daemons as the other needs them.

*Join.* The join at a node that is alone never succeeds: the number of bytes sent is taken for
an error (`p2pmd_onering.c:35`).

*Stabilisation.* A crash between STABILIZE_REQ and ACK, or between ACK and SYN, leaves the
neighbour waiting without a timer; when its interval ends it hangs and is passed over as dead. A
successor list whose entries are the same node makes a member try that node for ever, as
`_p2pm_ni_condense_successor_list` compares an index where it means an entry. The last survivor
spins in the loop that skips PONGs (`p2pmd_server.c:931`). A refusal is dropped, so that the
one refused waits for ever. A replication is lost when the predecessor's socket is late first, and any trigger when
a frame arrives in the same turn. Two neighbours that crash are not healed with lists of two.

*Hash table.* `AllocateHashTable` does not set `posLastFind` (`libchash.c:1224`), so
`HashFindLast` before a `HashFind` reads what malloc left. `HashFindOrInsert` whose first free bucket is a deleted
one counts an item and stores none; `PrintHashTable` then fails its assertion (`libchash.c:1585`). A
goal that is not kept, and then a delete, can rehash the table to no buckets.

*Start-up.* With `r` before `successor_list`, `_bvset` is called where `_bvget` is meant
(`sng_parser.c:154`): the list counts as given, its length is compared with memory that is
not set, and a refusal frees a pointer that is not set. A file without "spaces" reads
`num_spaces` uninitialised. A predecessor of exactly the largest length is not ended. A refusal in the
spaces' section reads that section's bits as if they were those of `p2pmd`.

*Matrix programs.* The result matrix is allocated and added to without being zeroed
(`matrix_master.c:102`, `:159`; `matrix_worker.c:132`, `:144`), the results of the workers are
not copied into it (line 183 is a comment), and `verify()` is not called. A size that is no
multiple of the part reads past the matrix (lines 116-121), and a group of one rank
sends to a rank that is not there (line 133): `MatrixAssumption` excludes both. A worker whose request is
dropped, or that comes late, waits for ever; the master does not need it (`MasterFinishes`).

## 6. Not modelled

* The P2P mode of the daemon (tokens 2 to 4, `TsExpect`, `TsTransmit`, `TsRequest`, `TsTake`): it is unfinished and
  cannot be reached. The functions that make its tokens (`tsd.c:89-134`) have no callers, the handler of
  id 3 asserts that the id is 2, and `search_token_next` is empty.
* Composition of joins with stabilisation: in `RingJoin` members do not crash or stabilise, and in
  `RingStabilize` nobody joins. A one-ring node is asked by one joiner only, since its handler would read the
  frames of another's message as an address.
* `ONE_RING_TAIL_FOUND` and `HEAD_FOUND`: nobody sends them. `FIND_HEAD` and `FIND_TAIL` have no
  handler; the model drops them, as the server does.
* The shared memory leg of a local reply and a local put in `Tsd` (they are two messages there): the plan's `LocalSpace`.
* In the stabilisation: the jump of the loop when a receive wait, not an interval, ends between the poll and the
  test of the clocks (`p2pmd.c:135`, `b < 0`, `c < 0`); `r_max` larger than the list of a configuration file has room for.
* Serialisation of tokens and node information, the format of tuples, signals that
  interrupt `sem_wait`; failing mallocs outside the pipe.
* `HashSave`, `HashLoad`, `HashLoadKeys` and keys of other storage modes: nothing under `src/` calls them.
* Vendored code (zlog), the plain MPI programs, old dumps and scripts: no part of the system.

## 7. Plan

1. `LocalSpace`: `Tsd` over two `ShmPipe`s for local clients, for the order of replies against items and for
   a put that is turned away and leaves its item in the pipe.
2. `RingJoin` and `RingStabilize` together: an orphan of a join that was given up, met by the
   stabilisation.
3. Proofs: of `RingStabilize` the ring after a crash (`NoLiveNodeSkipped`), for which the stages of
   an exchange (`Exchange` in `RingStabilize_proofs`) need those with a dead or a promoted successor;
   `RowsOnce` of `Matrix`.
