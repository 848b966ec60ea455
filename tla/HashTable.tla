------------------------------ MODULE HashTable ------------------------------
(***************************************************************************)
(* The hash table of libchash in which the daemon keeps its tuple spaces:  *)
(* open addressing with quadratic probing over a sparse array.  The array  *)
(* is cut into groups; a group keeps a bitmap of its occupied buckets and  *)
(* an array of just their items, so that a pointer to an item is a group   *)
(* and an offset in it, and moves whenever the group grows.                *)
(*                                                                         *)
(* Keys are kept in the table, as p2pm_examples/test.c has them.  Each     *)
(* call of the API is an action; a caller keeps to what libchash.h asks:   *)
(* no change while it iterates, no datum that is DELETED.                  *)
(***************************************************************************)
EXTENDS Integers, Sequences, FiniteSets, SequencesExt, FiniteSetsExt

CONSTANTS
    Keys, Datas,
    HashOf,          \* the hash of each key
    GroupSize,       \* buckets of a group (64 in the code)
    MIN_HASH_SIZE,   \* buckets of a new table (512)
    Goals,           \* what a caller gives as its goal
    MaxItems,        \* bound: cItems, when HashFindOrInsert is called
    DELETED, NULL, Unset

(* The powers of 2 are the numbers without an odd divisor.                   *)
PowerOf2(n) == n \in Nat \ {0} /\ \A d \in 1 .. n : n % d = 0 => d = 1 \/ d % 2 = 0

(* HTItem, SparseBin and HashTable of libchash.h.                            *)
Item == [key : Keys, data : Datas \cup {DELETED}]

SparseBin == [bmOccupied : SUBSET (0 .. GroupSize - 1), items : Seq(Item)]

HashTables ==
    [table : Seq(SparseBin), cItems : Nat, cDeletedItems : Int, cDeltaGoalSize : Int,
     posLastFind : (Nat \X Nat) \cup {NULL, Unset}, iter : (Nat \X Nat) \cup {NULL},
     did : SUBSET {"deleted", "goal", "skipped"}]

ASSUME HashTableAssumption ==
    /\ Keys # {} /\ IsFiniteSet(Keys)
    /\ NULL \notin Keys /\ NULL \notin Item /\ NULL \notin HashTables
    /\ NULL \notin Nat \X Nat /\ Unset \notin Nat \X Nat
    /\ DELETED \notin Datas
    /\ HashOf \in [Keys -> Nat]
    /\ PowerOf2(GroupSize)
    /\ PowerOf2(MIN_HASH_SIZE) /\ MIN_HASH_SIZE >= GroupSize /\ MIN_HASH_SIZE >= 4
    /\ Goals \subseteq Int /\ MaxItems \in Nat

VARIABLES
    ht,      \* the table, or NULL
    ret      \* the pointer the last call returned, or NULL

vars == <<ht, ret>>

--------------------------------------------------------------------------------
(* The sparse array.                                                         *)

SparseGroups(cBuckets) == (cBuckets + GroupSize - 1) \div GroupSize

SparseAllocate(cBuckets) ==
    [g \in 1 .. SparseGroups(cBuckets) |-> [bmOccupied |-> {}, items |-> <<>>]]

Buckets(table) == Len(table) * GroupSize

EntriesUpto(bm, i) == Cardinality({j \in bm : j < i})

GroupOf(location) == location \div GroupSize + 1
PositionOf(location) == location % GroupSize
Pointer(table, location) ==
    <<GroupOf(location),
      EntriesUpto(table[GroupOf(location)].bmOccupied, PositionOf(location)) + 1>>

SparseIsEmpty(table, location) == PositionOf(location) \notin table[GroupOf(location)].bmOccupied

SparseFind(table, location) ==
    IF SparseIsEmpty(table, location) THEN NULL ELSE Pointer(table, location)

Pointers(table) == UNION {{<<g, o>> : o \in DOMAIN table[g].items} : g \in DOMAIN table}
Deref(table, p) == table[p[1]].items[p[2]]
Store(table, p, item) == [table EXCEPT ![p[1]].items[p[2]] = item]
IsDeleted(table, p) == Deref(table, p).data = DELETED

SparseInsert(table, item, location, fOverwrite) ==
    LET p == Pointer(table, location)
        grown == [table EXCEPT ![p[1]] =
                     [bmOccupied |-> @.bmOccupied \cup {PositionOf(location)},
                      items |-> InsertAt(@.items, p[2], item)]]
    IN  IF SparseIsEmpty(table, location)
        THEN [table |-> grown, at |-> p, fOverwrite |-> FALSE]
        ELSE [table |-> IF fOverwrite THEN Store(table, p, item) ELSE table,
              at |-> p, fOverwrite |-> TRUE]

(* The pointers of a table in the order of an iteration.                     *)
Precedes(p, q) == p[1] < q[1] \/ (p[1] = q[1] /\ p[2] < q[2])

First(ps) ==
    IF ps = {} THEN NULL ELSE CHOOSE p \in ps : \A q \in ps : p = q \/ Precedes(p, q)

(* The bucket after p among the buckets ps, in the order of the table.  A    *)
(* variant starts a group at its second item.                                *)
SparseNextBucketLate(ps, p) == First({q \in ps : Precedes(p, q) /\ (q[1] = p[1] \/ q[2] > 1)})
SparseNextBucket(ps, p) == First({q \in ps : Precedes(p, q)})

--------------------------------------------------------------------------------
(* Hashing, probing, resizing.                                               *)

Hash(key, cBuckets) == HashOf[key] % cBuckets

(* The i-th bucket probed: JUMP grows by one at each.  A variant jumps by    *)
(* the hash of the key, as in double hashing.                                *)
ProbeByHash(key, i, cBuckets) == (Hash(key, cBuckets) * (i + 1)) % cBuckets
Probe(key, i, cBuckets) == (Hash(key, cBuckets) + (i * (i + 1)) \div 2) % cBuckets

(* The next power of 2 above x; 0 for 0.                                     *)
NextPow2(x) == IF x = 0 THEN 0 ELSE CHOOSE p \in x + 1 .. 2 * x : PowerOf2(p)

LivePointers(table) == {p \in Pointers(table) : ~IsDeleted(table, p)}

FirstEmpty(table, key) ==
    LET at(i) == Probe(key, i, Buckets(table))
    IN  at(Min({i \in 0 .. Buckets(table) - 1 : SparseIsEmpty(table, at(i))}))

LastOf(ps) == CHOOSE p \in ps : \A q \in ps : p = q \/ Precedes(q, p)

Copy(to, item) == SparseInsert(to.table, item, FirstEmpty(to.table, item.key), FALSE)

Allocated(cBuckets) == [table |-> SparseAllocate(cBuckets), at |-> NULL, fOverwrite |-> FALSE]

(* A variant copies the items in their order, bckWatch among them, and keeps *)
(* the pointer bckWatch had when it was copied.                              *)
RehashInOrder(h, cNewBuckets, bckWatch) ==
    LET all == LivePointers(h.table) \cup ({bckWatch} \ {NULL})
        copied[ps \in SUBSET all] ==
            IF ps = {} THEN Allocated(cNewBuckets)
            ELSE LET p == LastOf(ps)
                     to == copied[ps \ {p}]
                     new == Copy(to, Deref(h.table, p))
                 IN  IF p = bckWatch THEN new ELSE [new EXCEPT !.at = to.at]
    IN  [ht |-> [h EXCEPT !.table = copied[all].table, !.cDeletedItems = 0],
         item |-> copied[all].at]

(* Every live item goes to the new table, in their order, and bckWatch last. *)
Rehash(h, cNewBuckets, bckWatch) ==
    LET all == LivePointers(h.table) \cup ({bckWatch} \ {NULL})
        copied[ps \in SUBSET all] ==
            IF ps = {} THEN Allocated(cNewBuckets)
            ELSE LET p == IF bckWatch \in ps THEN bckWatch ELSE LastOf(ps)
                 IN  Copy(copied[ps \ {p}], Deref(h.table, p))
    IN  [ht |-> [h EXCEPT !.table = copied[all].table, !.cDeletedItems = 0],
         item |-> copied[all].at]

(* Where the search for a key stops: at its item, or at an empty bucket.     *)
Stops(table, key) ==
    {i \in 0 .. Buckets(table) - 1 :
        LET p == SparseFind(table, Probe(key, i, Buckets(table)))
        IN  \/ p = NULL
            \/ ~IsDeleted(table, p) /\ Deref(table, p).key = key}

(* piEmpty is the first bucket passed that is empty or deleted.              *)
Find(table, key) ==
    LET at(i) == Probe(key, i, Buckets(table))
        stop == Min(Stops(table, key))
        open == {i \in 0 .. stop : LET p == SparseFind(table, at(i))
                                   IN  p = NULL \/ IsDeleted(table, p)}
    IN  [item |-> SparseFind(table, at(stop)),
         empty |-> IF open = {} THEN NULL ELSE at(Min(open))]

TooFull(h) ==
    2 * (h.cItems + h.cDeletedItems) >= Buckets(h.table) \/ h.cDeltaGoalSize < 0

(* A variant keeps posLastFind.                                              *)
LastFindKept(h) == h
LastFindReset(h) == [h EXCEPT !.posLastFind = NULL]

Insert(h, key, data, fOverwrite) ==
    LET found == Find(h.table, key)
        put == SparseInsert(h.table, [key |-> key, data |-> data], found.empty, fOverwrite)
        more == [LastFindReset(h) EXCEPT
                    !.table = put.table,
                    !.cDeletedItems = IF put.fOverwrite THEN @ - 1 ELSE @,
                    !.cItems = @ + 1,
                    !.cDeltaGoalSize = IF @ > 0 THEN @ - 1 ELSE @]
        goal == IF more.cDeltaGoalSize > 0 THEN more.cDeltaGoalSize ELSE 0
    IN  IF found.item # NULL
        THEN [ht |-> IF fOverwrite
                     THEN [LastFindReset(h) EXCEPT
                              !.table = Store(@, found.item, [key |-> key, data |-> data])]
                     ELSE LastFindReset(h),
              item |-> found.item]
        ELSE IF TooFull(more) THEN Rehash(more, NextPow2(2 * (goal + more.cItems)), put.at)
        ELSE [ht |-> more, item |-> put.at]

(* A variant counts a deleted bucket as gone.                                *)
DeleteUncounted(h, p) ==
    [h EXCEPT !.table = Store(@, p, [Deref(@, p) EXCEPT !.data = DELETED]),
              !.cItems = @ - 1, !.posLastFind = NULL]

Delete(h, p) ==
    LET less == [h EXCEPT !.table = Store(@, p, [Deref(@, p) EXCEPT !.data = DELETED]),
                          !.cItems = @ - 1,
                          !.cDeletedItems = @ + 1,
                          !.cDeltaGoalSize = IF @ < 0 THEN @ + 1 ELSE @,
                          !.posLastFind = NULL]
        shrink == /\ 5 * less.cItems < Buckets(h.table)
                  /\ less.cDeltaGoalSize >= 0
                  /\ Buckets(h.table) \div 2 >= MIN_HASH_SIZE
    IN  IF shrink THEN Rehash(less, NextPow2(2 * (less.cItems + less.cDeltaGoalSize)), NULL).ht
        ELSE less

--------------------------------------------------------------------------------
(* The API.  did is what callers have done to the table, for the properties. *)

Open == ht # NULL /\ Buckets(ht.table) > 0
LastFindSet == Open /\ ht.posLastFind # Unset

Settle(h) == [h EXCEPT !.iter = NULL]
Did(h, what) == [h EXCEPT !.did = @ \cup {what}, !.iter = NULL]

NewTable ==
    [table |-> SparseAllocate(MIN_HASH_SIZE), cItems |-> 0, cDeletedItems |-> 0,
     cDeltaGoalSize |-> 0, posLastFind |-> Unset, iter |-> NULL, did |-> {}]

Init == ht = NULL /\ ret = NULL

(* posLastFind is not set.                                                   *)
AllocateHashTable == ht = NULL /\ ht' = NewTable /\ ret' = NULL

ClearHashTable == Open /\ ht' = [NewTable EXCEPT !.posLastFind = NULL] /\ ret' = NULL

FreeHashTable == Open /\ ht' = NULL /\ ret' = NULL

(* The end of a process that uses a table without buckets.                   *)
Crash == ht # NULL /\ ~Open /\ ht' = NULL /\ ret' = NULL

HashFind(key) ==
    /\ Open
    /\ ht' = [ht EXCEPT !.posLastFind = Find(ht.table, key).item]
    /\ ret' = ht'.posLastFind

HashFindLast == LastFindSet /\ ret' = ht.posLastFind /\ UNCHANGED ht

HashInsert(key, data) ==
    /\ Open
    /\ LET after == Insert(ht, key, data, TRUE)
       IN  ht' = Settle(after.ht) /\ ret' = after.item

(* If the first open bucket of a new key is a deleted one, SparseInsert does *)
(* not write to it, for fOverwrite is 0.                                     *)
HashFindOrInsert(key, data) ==
    /\ Open /\ ht.cItems < MaxItems
    /\ LET after == Insert(ht, key, data, FALSE)
       IN  /\ ht' = IF after.item \in LivePointers(after.ht.table)
                    THEN Settle(after.ht) ELSE Did(after.ht, "skipped")
           /\ ret' = after.item

HashDelete(key) ==
    /\ Open
    /\ LET p == Find(ht.table, key).item
       IN  ht' = IF p = NULL THEN Settle([ht EXCEPT !.posLastFind = NULL])
                 ELSE Did(Delete(ht, p), "deleted")
    /\ ret' = NULL

HashDeleteLast ==
    /\ LastFindSet /\ ht.posLastFind # NULL
    /\ ht' = Did(Delete(ht, ht.posLastFind), "deleted")
    /\ ret' = NULL

HashSetDeltaGoalSize(delta) ==
    /\ Open
    /\ ht' = [ht EXCEPT !.cDeltaGoalSize = delta, !.did = @ \cup {"goal"}]
    /\ UNCHANGED ret

(* The iterator goes on over deleted buckets, which are not returned; after  *)
(* the last bucket there is no iteration.                                    *)
HashFirstBucket ==
    /\ Open
    /\ ret' = SparseNextBucket(LivePointers(ht.table), <<0, 0>>)
    /\ ht' = [ht EXCEPT !.iter = ret']

HashNextBucket ==
    /\ Open /\ ht.iter # NULL
    /\ ret' = SparseNextBucket(LivePointers(ht.table), ht.iter)
    /\ ht' = [ht EXCEPT !.iter = ret']

(* It walks the table and asserts that cItems is right.                      *)
PrintHashTable ==
    /\ Open
    /\ IF Cardinality(LivePointers(ht.table)) = ht.cItems
       THEN ht' = Settle(ht) /\ UNCHANGED ret
       ELSE ht' = NULL /\ ret' = NULL

Next ==
    \/ AllocateHashTable \/ ClearHashTable \/ FreeHashTable \/ Crash
    \/ HashFindLast \/ HashDeleteLast \/ HashFirstBucket \/ HashNextBucket \/ PrintHashTable
    \/ \E key \in Keys : HashFind(key) \/ HashDelete(key)
    \/ \E key \in Keys, data \in Datas : HashInsert(key, data) \/ HashFindOrInsert(key, data)
    \/ \E delta \in Goals : HashSetDeltaGoalSize(delta)

Spec == Init /\ [][Next]_vars

--------------------------------------------------------------------------------
(* Properties.                                                               *)

(* A group has as many items as its bitmap has bits, and pointers that are   *)
(* kept are pointers to items that are live.                                 *)
TypeOK ==
    ht # NULL =>
        /\ ht \in HashTables
        /\ \A g \in DOMAIN ht.table :
              Len(ht.table[g].items) = Cardinality(ht.table[g].bmOccupied)
        /\ ht.posLastFind \in LivePointers(ht.table) \cup {NULL, Unset}
        /\ ht.iter \in LivePointers(ht.table) \cup {NULL}
        /\ ret \in Pointers(ht.table) \cup {NULL}

(* cItems and cDeletedItems say how many buckets are taken and how many of   *)
(* them hold items, as PrintHashTable asserts; only a table in which         *)
(* HashFindOrInsert has skipped an item counts more than it holds.           *)
CountsAgree ==
    ht # NULL =>
        LET live == Cardinality(LivePointers(ht.table))
        IN  IF "skipped" \in ht.did
            THEN ht.cItems >= live
            ELSE /\ ht.cItems = live
                 /\ ht.cItems + ht.cDeletedItems = Cardinality(Pointers(ht.table))

(* Find's while (1) ends for every key, whatever has been inserted and       *)
(* deleted: there is an empty bucket where the key is looked for.            *)
FindEnds == Open => \A key \in Keys : Stops(ht.table, key) # {}

(* The table behaves as a map, across collisions, deleted buckets, growing   *)
(* and shrinking; the pointer a call returns is to the item it is about,     *)
(* even if the table was rehashed; an iteration returns each item once.      *)
Contents(table) == {Deref(table, p) : p \in LivePointers(table)}
ItemAt(p) ==
    IF Open /\ p \in LivePointers(ht.table) THEN Deref(ht.table, p) ELSE NULL

StateIs == IF ht = NULL THEN "none" ELSE IF Open THEN "open" ELSE "broken"
MapIs   == IF Open THEN Contents(ht.table) ELSE {}
LastIs  == IF Open THEN ItemAt(ht.posLastFind) ELSE NULL
LeftIs  == IF Open /\ ht.iter # NULL
           THEN {Deref(ht.table, p) : p \in {q \in LivePointers(ht.table) : Precedes(ht.iter, q)}}
           ELSE {}
RisksIs == IF Open THEN ht.did \ {"skipped"} ELSE {}

Map == INSTANCE HashMap WITH
    None <- NULL, state <- StateIs, map <- MapIs, last <- LastIs, ret <- ItemAt(ret),
    left <- LeftIs, risks <- RisksIs

IsMap == Map!Spec
=============================================================================
