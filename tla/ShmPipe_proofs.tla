---------------------------- MODULE ShmPipe_proofs ----------------------------
(***************************************************************************)
(* Proofs about the shared memory pipe, for any number of processes at     *)
(* either end, any item size and any number of crashes.                    *)
(***************************************************************************)
EXTENDS ShmPipe, SequenceTheorems, TLAPS

(* Nobody is at both ends of a pipe.                                         *)
LEMMA ProcsFacts ==
    /\ Writers \subseteq Procs
    /\ Readers \subseteq Procs
    /\ \A w \in Writers : w \notin Readers
    /\ \A p \in Procs : p \in Writers \/ p \in Readers
    /\ Zero \notin Chunk
BY PipeAssumption DEF Procs

(* Appending to a function of sequences at one point.                        *)
LEMMA AppendAt ==
    ASSUME NEW D, NEW S, NEW f \in [D -> Seq(S)], NEW d \in D, NEW e \in S
    PROVE  [f EXCEPT ![d] = Append(@, e)] \in [D -> Seq(S)]
<1>1. Append(f[d], e) \in Seq(S)
    BY AppendProperties
<1> QED
    BY <1>1

(* Nobody has opened the pipe: every variable has its type.                  *)
LEMMA TypeInit == Init => TypeOK
<1> SUFFICES ASSUME Init PROVE TypeOK
    OBVIOUS
<1>1. sending \in [Writers -> Item]
    BY DEF Init, Item
<1>2. pc \in [Procs -> WriterPc \union ReaderPc]
    BY DEF Init, WriterPc, ReaderPc
<1>3. /\ \A w \in Writers : pc[w] \in WriterPc
      /\ \A r \in Readers : pc[r] \in ReaderPc
    BY ProcsFacts DEF Init, WriterPc, ReaderPc
<1>4. got \in [Readers -> Seq(Chunk)]
  <2>1. <<>> \in Seq(Chunk)
      BY EmptySeq
  <2> QED
      BY <2>1 DEF Init
<1>5. received \in [Readers -> Seq(Seq(Chunk))]
  <2>1. <<>> \in Seq(Seq(Chunk))
      BY EmptySeq
  <2> QED
      BY <2>1 DEF Init
<1>6. /\ i \in [Writers -> Nat]
      /\ sent \in [Writers -> Nat]
    BY DEF Init
<1> QED
    BY <1>1, <1>2, <1>3, <1>4, <1>5, <1>6 DEF Init, TypeOK

(* The part of TypeOK about control points; one writer or one reader moves.  *)
PcOK ==
    /\ pc \in [Procs -> WriterPc \union ReaderPc]
    /\ \A w \in Writers : pc[w] \in WriterPc
    /\ \A r \in Readers : pc[r] \in ReaderPc

(* A writer that moves to a control point of writers keeps all pcs in place. *)
LEMMA WriterMoves ==
    ASSUME PcOK, NEW w \in Writers, NEW v \in WriterPc, pc' = [pc EXCEPT ![w] = v]
    PROVE  PcOK'
BY ProcsFacts DEF PcOK

(* A reader that moves to a control point of readers keeps all pcs in place. *)
LEMMA ReaderMoves ==
    ASSUME PcOK, NEW r \in Readers, NEW v \in ReaderPc, pc' = [pc EXCEPT ![r] = v]
    PROVE  PcOK'
BY ProcsFacts DEF PcOK

(* No step of send_item, recv_item, open or a crash leaves the types.        *)
LEMMA TypeStep == TypeOK /\ [Next]_vars => TypeOK'
<1> SUFFICES ASSUME TypeOK, [Next]_vars PROVE TypeOK'
    OBVIOUS
<1> USE DEF TypeOK
<1>0. PcOK
    BY DEF PcOK
<1>1. ASSUME NEW p \in Procs, Open(p) PROVE TypeOK'
  <2>1. PcOK'
      BY <1>0, <1>1, ProcsFacts, WriterMoves, ReaderMoves DEF Open, WriterPc, ReaderPc
  <2> QED
      BY <1>1, <2>1 DEF Open, PcOK
<1>2. ASSUME NEW p \in Procs, Crash(p) PROVE TypeOK'
  <2>1. PcOK'
      BY <1>0, <1>2, ProcsFacts, WriterMoves, ReaderMoves DEF Crash, WriterPc, ReaderPc
  <2> QED
      BY <1>2, <2>1 DEF Crash, PcOK
<1>3. ASSUME NEW w \in Writers, NEW n \in 1..MaxChunks, SendItem(w, n) PROVE TypeOK'
  <2>1. PcOK'
      BY <1>0, <1>3, WriterMoves DEF SendItem, WriterPc
  <2>2. [from |-> w, no |-> sent[w] + 1, chunks |-> n] \in Item
      BY PipeAssumption DEF Item
  <2>3. sending' \in [Writers -> Item]
      BY <1>3, <2>2 DEF SendItem
  <2> QED
      BY <1>3, <2>1, <2>3 DEF SendItem, PcOK
<1>4. ASSUME NEW w \in Writers, WaitW(w) PROVE TypeOK'
  <2>1. PcOK'
      BY <1>0, <1>4, WriterMoves DEF WaitW, WriterPc
  <2> QED
      BY <1>4, <2>1 DEF WaitW, PcOK
<1>5. ASSUME NEW w \in Writers, CopyIn(w) PROVE TypeOK'
  <2>1. PcOK'
      BY <1>0, <1>5, WriterMoves DEF CopyIn, WriterPc
  <2>2. segment' \in Chunk
      BY <1>5 DEF CopyIn, Chunk
  <2> QED
      BY <1>5, <2>1, <2>2 DEF CopyIn, PcOK
<1>6. ASSUME NEW w \in Writers, PostR(w) PROVE TypeOK'
  <2>1. PcOK'
      BY <1>0, <1>6, WriterMoves DEF PostR, WriterPc
  <2> QED
      BY <1>6, <2>1 DEF PostR, PcOK
<1>7. ASSUME NEW r \in Readers, RecvItem(r) PROVE TypeOK'
  <2>1. PcOK'
      BY <1>0, <1>7, ReaderMoves DEF RecvItem, ReaderPc
  <2>2. <<>> \in Seq(Chunk)
      BY EmptySeq
  <2> QED
      BY <1>7, <2>1, <2>2 DEF RecvItem, PcOK
<1>8. ASSUME NEW r \in Readers, WaitR(r) PROVE TypeOK'
  <2>1. PcOK'
      BY <1>0, <1>8, ReaderMoves DEF WaitR, ReaderPc
  <2> QED
      BY <1>8, <2>1 DEF WaitR, PcOK
<1>9. ASSUME NEW r \in Readers, CopyOut(r) PROVE TypeOK'
  <2>1. PcOK'
      BY <1>0, <1>9, ReaderMoves DEF CopyOut, ReaderPc
  <2>2. got' \in [Readers -> Seq(Chunk)]
    <3>1. segment \in Chunk
        BY <1>9 DEF CopyOut
    <3> QED
        BY <1>9, <3>1, AppendAt DEF CopyOut
  <2> QED
      BY <1>9, <2>1, <2>2 DEF CopyOut, PcOK
<1>10. ASSUME NEW r \in Readers, ReadFails(r) PROVE TypeOK'
  <2>1. PcOK'
      BY <1>0, <1>10, ReaderMoves DEF ReadFails, ReaderPc
  <2> QED
      BY <1>10, <2>1 DEF ReadFails, PcOK
<1>11. ASSUME NEW r \in Readers, ZeroSegment(r) PROVE TypeOK'
  <2>1. PcOK'
      BY <1>0, <1>11, ReaderMoves DEF ZeroSegment, ReaderPc
  <2> QED
      BY <1>11, <2>1 DEF ZeroSegment, PcOK
<1>12. ASSUME NEW r \in Readers, PostW(r) PROVE TypeOK'
  <2>1. PcOK'
      BY <1>0, <1>12, ReaderMoves DEF PostW, RecvTurn, ReaderPc
  <2>2. received' \in [Readers -> Seq(Seq(Chunk))]
    <3>1. CASE UNCHANGED received
        BY <3>1
    <3>2. CASE received' = [received EXCEPT ![r] = Append(@, got[r])]
      <4>1. got[r] \in Seq(Chunk)
          OBVIOUS
      <4> QED
          BY <3>2, <4>1, AppendAt
    <3> QED
        BY <1>12, <3>1, <3>2 DEF PostW, RecvTurn
  <2> QED
      BY <1>12, <2>1, <2>2 DEF PostW, PcOK
<1>13. CASE UNCHANGED vars
    BY <1>13 DEF vars
<1> QED
    BY <1>1, <1>2, <1>3, <1>4, <1>5, <1>6, <1>7, <1>8, <1>9, <1>10, <1>11, <1>12, <1>13
       DEF Next, WriterNext, ReaderNext

(* Type correctness of every reachable state of the pipe.                    *)
THEOREM TypeCorrect == Spec => []TypeOK
<1>1. Init => TypeOK
    BY TypeInit
<1>2. TypeOK /\ [Next]_vars => TypeOK'
    BY TypeStep
<1> QED
    BY <1>1, <1>2, PTL DEF Spec

-------------------------------------------------------------------------------
(* The token.  Everything but the types, in one formula.                     *)
TokenInv == OneToken /\ SegmentAgrees /\ Untouched /\ CopyingAgrees

(* Before the pipe is created there is no token and nothing in the segment.  *)
LEMMA TokenInit == Init => TokenInv
<1> SUFFICES ASSUME Init PROVE TokenInv
    OBVIOUS
<1>1. \A p \in Procs : pc[p] = "closed"
    BY DEF Init
<1>2. Inside = {}
    BY <1>1, ProcsFacts DEF Inside, InsideWrite, InsideRead
<1>3. OneToken
    BY <1>2 DEF Init, OneToken
<1> QED
    BY <1>1, <1>3, ProcsFacts DEF Init, TokenInv, SegmentAgrees, Untouched, CopyingAgrees

(* Every step of the code keeps the token, the segment and the pcs together. *)
LEMMA TokenStep == TypeOK /\ TokenInv /\ [Next]_vars => TokenInv'
<1> SUFFICES ASSUME TypeOK, TokenInv, [Next]_vars PROVE TokenInv'
    OBVIOUS
<1> USE ProcsFacts DEF TypeOK, TokenInv, OneToken, SegmentAgrees, Untouched, CopyingAgrees,
        Inside, InsideWrite, InsideRead
<1>1. ASSUME NEW p \in Procs, Open(p) PROVE TokenInv'
    BY <1>1 DEF Open
<1>2. ASSUME NEW p \in Procs, Crash(p) PROVE TokenInv'
    BY <1>2 DEF Crash
<1>3. ASSUME NEW w \in Writers, NEW n \in 1..MaxChunks, SendItem(w, n) PROVE TokenInv'
    BY <1>3 DEF SendItem
<1>4. ASSUME NEW w \in Writers, WaitW(w) PROVE TokenInv'
    BY <1>4 DEF WaitW
<1>5. ASSUME NEW w \in Writers, CopyIn(w) PROVE TokenInv'
    BY <1>5 DEF CopyIn, Chunk
<1>6. ASSUME NEW w \in Writers, PostR(w) PROVE TokenInv'
    BY <1>6 DEF PostR
<1>7. ASSUME NEW r \in Readers, RecvItem(r) PROVE TokenInv'
    BY <1>7 DEF RecvItem
<1>8. ASSUME NEW r \in Readers, WaitR(r) PROVE TokenInv'
    BY <1>8 DEF WaitR
<1>9. ASSUME NEW r \in Readers, CopyOut(r) PROVE TokenInv'
    BY <1>9 DEF CopyOut
<1>10. ASSUME NEW r \in Readers, ReadFails(r) PROVE TokenInv'
    BY <1>10 DEF ReadFails
<1>11. ASSUME NEW r \in Readers, ZeroSegment(r) PROVE TokenInv'
    BY <1>11 DEF ZeroSegment
<1>12. ASSUME NEW r \in Readers, PostW(r) PROVE TokenInv'
  <2>1. PICK v \in {"wait_r", "idle"} : pc' = [pc EXCEPT ![r] = v]
      BY <1>12 DEF PostW, RecvTurn
  <2>2. /\ pc[r] = "post_w"
        /\ w_sem' = w_sem + 1
        /\ UNCHANGED <<exists, r_sem, segment, faults>>
      BY <1>12 DEF PostW
  <2> QED
      BY <2>1, <2>2
<1>13. CASE UNCHANGED vars
    BY <1>13 DEF vars
<1> QED
    BY <1>1, <1>2, <1>3, <1>4, <1>5, <1>6, <1>7, <1>8, <1>9, <1>10, <1>11, <1>12, <1>13
       DEF Next, WriterNext, ReaderNext

(* The conjunction of the types and the token holds in every state.          *)
LEMMA PipeInvariant == Spec => []PipeInv
<1>1. Init => TypeOK /\ TokenInv
    BY TypeInit, TokenInit
<1>2. TypeOK /\ TokenInv /\ [Next]_vars => (TypeOK /\ TokenInv)'
    BY TypeStep, TokenStep
<1>3. TypeOK /\ TokenInv => PipeInv
    BY DEF TokenInv, PipeInv
<1> QED
    BY <1>1, <1>2, <1>3, PTL DEF Spec

(* (R,W) is never (1,1), at most one process is between a sem_wait and the   *)
(* sem_post that follows, and without a fault the token is never lost.       *)
THEOREM TokenIsSafe == Spec => []OneToken
<1>1. PipeInv => OneToken
    BY DEF PipeInv
<1> QED
    BY <1>1, PipeInvariant, PTL

(* A readable segment holds a chunk, a writable one has been zeroed, and     *)
(* read_shared_memory never finds a zero length.                             *)
THEOREM SegmentIsConsistent == Spec => []SegmentAgrees
<1>1. PipeInv => SegmentAgrees
    BY DEF PipeInv
<1> QED
    BY <1>1, PipeInvariant, PTL

-------------------------------------------------------------------------------
(* Refinement of the one-place buffer.                                       *)

(* A step of the code is a put, a take, or nothing at all for the buffer.    *)
LEMMA BufferStep == PipeInv /\ PipeInv' /\ [Next]_vars => [Buffer!Next]_committed
<1> SUFFICES ASSUME PipeInv, PipeInv', [Next]_vars
             PROVE  \/ committed = Zero /\ committed' \in Chunk
                    \/ committed # Zero /\ committed' = Zero
                    \/ committed' = committed
    BY DEF Buffer!Next, Buffer!Put, Buffer!Take
<1> DEFINE Filled  == committed = Zero /\ committed' \in Chunk
           Emptied == committed # Zero /\ committed' = Zero
           Same    == committed' = committed
<1> USE ProcsFacts DEF PipeInv, TypeOK, OneToken, SegmentAgrees, Untouched, CopyingAgrees,
        Inside, InsideWrite, InsideRead, committed
<1>1. ASSUME NEW p \in Procs, Open(p) PROVE Same
    BY <1>1 DEF Open
<1>2. ASSUME NEW p \in Procs, Crash(p) PROVE Same \/ Emptied
    BY <1>2 DEF Crash
<1>3. ASSUME NEW w \in Writers, NEW n \in 1..MaxChunks, SendItem(w, n) PROVE Same
    BY <1>3 DEF SendItem
<1>4. ASSUME NEW w \in Writers, WaitW(w) PROVE Same
    BY <1>4 DEF WaitW
<1>5. ASSUME NEW w \in Writers, CopyIn(w) PROVE Same
    BY <1>5 DEF CopyIn
<1>6. ASSUME NEW w \in Writers, PostR(w) PROVE Filled
    BY <1>6 DEF PostR
<1>7. ASSUME NEW r \in Readers, RecvItem(r) PROVE Same
    BY <1>7 DEF RecvItem
<1>8. ASSUME NEW r \in Readers, WaitR(r) PROVE Same
    BY <1>8 DEF WaitR
<1>9. ASSUME NEW r \in Readers, CopyOut(r) PROVE Emptied
    BY <1>9 DEF CopyOut
<1>10. ASSUME NEW r \in Readers, ReadFails(r) PROVE Emptied
    BY <1>10 DEF ReadFails
<1>11. ASSUME NEW r \in Readers, ZeroSegment(r) PROVE Same
    BY <1>11 DEF ZeroSegment
<1>12. ASSUME NEW r \in Readers, PostW(r) PROVE Same
  <2>1. PICK v \in {"wait_r", "idle"} : pc' = [pc EXCEPT ![r] = v]
      BY <1>12 DEF PostW, RecvTurn
  <2>2. /\ pc[r] = "post_w"
        /\ UNCHANGED <<exists, r_sem, segment, faults>>
      BY <1>12 DEF PostW
  <2> QED
      BY <2>1, <2>2
<1>13. CASE UNCHANGED vars
    BY <1>13 DEF vars
<1> QED
    BY <1>1, <1>2, <1>3, <1>4, <1>5, <1>6, <1>7, <1>8, <1>9, <1>10, <1>11, <1>12, <1>13
       DEF Next, WriterNext, ReaderNext

(* The pipe implements the one-place buffer: a chunk goes in only when the   *)
(* last one has been taken, and each is taken at most once.                  *)
THEOREM PipeIsOnePlaceBuffer == Spec => IsOnePlaceBuffer
<1>1. Init => Buffer!Init
    BY DEF Init, Buffer!Init, committed
<1>2. PipeInv /\ PipeInv' /\ [Next]_vars => [Buffer!Next]_committed
    BY BufferStep
<1> QED
    BY <1>1, <1>2, PipeInvariant, PTL DEF Spec, IsOnePlaceBuffer, Buffer!Spec

-------------------------------------------------------------------------------
(* Items of one chunk, any number of processes at either end.                *)

(* A chunk that is an item of its own, one of those its writer has begun.    *)
Lone(c) ==
    /\ c.id = 0
    /\ c.item.chunks = 1
    /\ c.item.no <= sent[c.item.from]

NotReceived(it) ==
    \A q \in Readers : \A l \in 1..Len(received[q]) : received[q][l][1].item # it

(* A chunk that a reader will still get or is getting.                       *)
Readable == r_sem > 0 \/ \E r \in Readers : pc[r] = "copy_out"

SendingIsLone ==
    \A w \in Writers : pc[w] \in {"wait_w", "copy_in", "post_r"} =>
        /\ i[w] = 0
        /\ sending[w].from = w
        /\ sending[w].no = sent[w]
        /\ sending[w].chunks = 1
        /\ NotReceived(sending[w])

WrittenIsSent ==
    \A w \in Writers : pc[w] = "post_r" => segment = [item |-> sending[w], id |-> 0]

(* What is on its way to a reader has not arrived, and no writer that has    *)
(* yet to copy is sending the same item.                                     *)
SegmentIsNew ==
    Readable =>
        /\ Lone(segment)
        /\ NotReceived(segment.item)
        /\ \A w \in Writers : pc[w] \in {"wait_w", "copy_in"} => sending[w] # segment.item

GotIsNew ==
    \A r \in Readers :
        /\ pc[r] \in {"wait_r", "copy_out"} => got[r] = <<>>
        /\ pc[r] \in {"zero", "post_w"} =>
              /\ Len(got[r]) = 1
              /\ Lone(got[r][1])
              /\ NotReceived(got[r][1].item)
              /\ \A w \in Writers :
                    pc[w] \in {"wait_w", "copy_in"} => sending[w] # got[r][1].item

ReceivedIsLone ==
    \A r \in Readers : \A k \in 1..Len(received[r]) :
        Len(received[r][k]) = 1 /\ Lone(received[r][k][1])

ReceivedOnce ==
    \A r, q \in Readers : \A k \in 1..Len(received[r]), l \in 1..Len(received[q]) :
        received[r][k][1].item = received[q][l][1].item => r = q /\ k = l

OnceInv ==
    /\ SendingIsLone
    /\ WrittenIsSent
    /\ SegmentIsNew
    /\ GotIsNew
    /\ ReceivedIsLone
    /\ ReceivedOnce

-------------------------------------------------------------------------------
(* One process at either end, items of any number of chunks, no faults.      *)

Busy(w) == pc[w] \in {"wait_w", "copy_in", "post_r"}

(* The chunks are the first ones of an item, all of them so far.             *)
Prefix(chunks, it) ==
    \A k \in 1..Len(chunks) : chunks[k] = [item |-> it, id |-> k - 1]

(* The reader r has received n items and nothing of the next one.            *)
Between(r, n) ==
    /\ pc[r] \in {"closed", "idle", "wait_r", "copy_out"}
    /\ pc[r] \in {"wait_r", "copy_out"} => got[r] = <<>>
    /\ Len(received[r]) = n

(* The reader r has taken the first j chunks of an item and waits for more.  *)
Partway(r, it, j) ==
    /\ pc[r] \in {"wait_r", "copy_out"}
    /\ Len(got[r]) = j
    /\ Prefix(got[r], it)
    /\ Len(received[r]) = it.no - 1

Taken(r, it, j) ==
    IF j = 0 THEN Between(r, it.no - 1) ELSE Partway(r, it, j)

(* The writer w has posted the first j chunks of an item and no more.        *)
Posted(w, it, j) ==
    IF j < it.chunks
    THEN Busy(w) /\ sending[w] = it /\ i[w] = j
    ELSE \/ pc[w] \in {"closed", "idle"} /\ sent[w] = it.no
         \/ pc[w] = "wait_w" /\ i[w] = 0 /\ sent[w] = it.no + 1

SendingInStep(w) ==
    Busy(w) => sending[w].no = sent[w] /\ i[w] < sending[w].chunks

(* While the pipe is the writer's, the reader has taken all that was posted. *)
CaughtUp(w, r) ==
    ~exists \/ w_sem > 0 \/ pc[w] \in {"copy_in", "post_r"} =>
        IF Busy(w) THEN Taken(r, sending[w], i[w]) ELSE Between(r, sent[w])

CopiedInStep(w) ==
    pc[w] = "post_r" => segment = [item |-> sending[w], id |-> i[w]]

(* While it is the reader's, the segment holds the chunk that is next.       *)
NextIsReadable(w, r) ==
    r_sem > 0 \/ pc[r] = "copy_out" =>
        /\ segment.id < segment.item.chunks
        /\ Taken(r, segment.item, segment.id)
        /\ Posted(w, segment.item, segment.id + 1)

GotInStep(w, r) ==
    pc[r] \in {"zero", "post_w"} =>
        /\ got[r] # <<>>
        /\ Len(got[r]) <= got[r][1].item.chunks
        /\ Prefix(got[r], got[r][1].item)
        /\ Len(received[r]) = got[r][1].item.no - 1
        /\ Posted(w, got[r][1].item, Len(got[r]))

ReceivedInOrder(r) ==
    \A k \in 1..Len(received[r]) :
        /\ Complete(received[r][k])
        /\ Whole(received[r][k])
        /\ received[r][k][1].item.no = k

OrderInv(w, r) ==
    /\ SendingInStep(w)
    /\ CaughtUp(w, r)
    /\ CopiedInStep(w)
    /\ NextIsReadable(w, r)
    /\ GotInStep(w, r)
    /\ ReceivedInOrder(r)

(* A chunk of a received item is a chunk, of an item of one of the writers.  *)
LEMMA ReceivedChunk ==
    ASSUME TypeOK, NEW r \in Readers, NEW k \in 1..Len(received[r]),
           NEW m \in 1..Len(received[r][k])
    PROVE  /\ received[r][k] \in Seq(Chunk)
           /\ received[r][k][m] \in Chunk
           /\ received[r][k][m].item \in Item
           /\ received[r][k][m].item.from \in Writers
           /\ received[r][k][m].item.no \in Nat
<1>1. received[r][k] \in Seq(Chunk)
    BY DEF TypeOK
<1>2. received[r][k][m] \in Chunk
    BY <1>1
<1> QED
    BY <1>1, <1>2 DEF Chunk, Item

LEMMA OnceInit == Init => OnceInv
<1> SUFFICES ASSUME Init PROVE OnceInv
    OBVIOUS
<1>1. /\ \A w \in Writers : pc[w] = "closed"
      /\ \A r \in Readers : pc[r] = "closed" /\ Len(received[r]) = 0
      /\ r_sem = 0
    BY ProcsFacts DEF Init
<1> QED
    BY <1>1 DEF OnceInv, SendingIsLone, WrittenIsSent, SegmentIsNew, GotIsNew,
                ReceivedIsLone, ReceivedOnce, Readable

(* A writer that begins an item gives it a number nothing has had so far.    *)
LEMMA OnceSendItem ==
    ASSUME MaxChunks = 1, PipeInv, OnceInv,
           NEW w \in Writers, NEW n \in 1..MaxChunks, SendItem(w, n)
    PROVE  OnceInv'
<1> DEFINE it == [from |-> w, no |-> sent[w] + 1, chunks |-> n]
<1>1. /\ n = 1 /\ it.from = w /\ it.no = sent[w] + 1 /\ it.chunks = 1
      /\ sent' = [sent EXCEPT ![w] = @ + 1]
      /\ sending' = [sending EXCEPT ![w] = it]
      /\ i' = [i EXCEPT ![w] = 0]
      /\ pc' = [pc EXCEPT ![w] = "wait_w"]
      /\ UNCHANGED <<r_sem, segment, got, received>>
    BY DEF SendItem
<1>2. /\ sent \in [Writers -> Nat]
      /\ sending \in [Writers -> Item]
      /\ i \in [Writers -> Nat]
      /\ DOMAIN pc = Procs
      /\ TypeOK
    BY DEF PipeInv, TypeOK
<1> HIDE DEF it
<1>3. ASSUME NEW c \in Chunk, Lone(c) PROVE c.item # it /\ c.item.no <= sent'[c.item.from]
    BY <1>1, <1>2, <1>3 DEF Chunk, Item, Lone
<1>4. ReceivedIsLone' /\ NotReceived(it)
  <2>1. ASSUME NEW q \in Readers, NEW k \in 1..Len(received[q])
        PROVE  /\ Len(received[q][k]) = 1
               /\ received[q][k][1].item # it
               /\ Lone(received[q][k][1])
               /\ received[q][k][1].item.no <= sent'[received[q][k][1].item.from]
    <3>1. Len(received[q][k]) = 1 /\ Lone(received[q][k][1])
        BY DEF OnceInv, ReceivedIsLone
    <3>2. received[q][k][1] \in Chunk
      <4>1. 1 \in 1..Len(received[q][k])
          BY <3>1
      <4> QED
          BY <1>2, <4>1, ReceivedChunk
    <3> QED
        BY <1>3, <3>1, <3>2, SMTT(30)
  <2> QED
      BY <1>1, <2>1 DEF ReceivedIsLone, NotReceived, Lone
<1>5. SendingIsLone'
    BY <1>1, <1>2, <1>4, ProcsFacts DEF OnceInv, SendingIsLone, NotReceived
<1>6. WrittenIsSent'
    BY <1>1, <1>2, ProcsFacts DEF OnceInv, WrittenIsSent
<1>7. SegmentIsNew'
  <2>1. ASSUME Readable'
        PROVE  Readable /\ segment \in Chunk
      BY <1>1, <2>1, ProcsFacts DEF Readable, PipeInv, TypeOK, SegmentAgrees
  <2>2. ASSUME Readable, segment \in Chunk
        PROVE  /\ segment.item # it
               /\ segment.item.no <= sent'[segment.item.from]
      BY <1>3, <2>2 DEF OnceInv, SegmentIsNew
  <2> QED
      BY <1>1, <1>2, <2>1, <2>2, ProcsFacts DEF OnceInv, SegmentIsNew, NotReceived, Lone
<1>8. GotIsNew'
  <2>1. ASSUME NEW r \in Readers, pc[r] \in {"zero", "post_w"}
        PROVE  /\ got[r][1].item # it
               /\ got[r][1].item.no <= sent'[got[r][1].item.from]
    <3>1. Len(got[r]) = 1 /\ Lone(got[r][1])
        BY <2>1 DEF OnceInv, GotIsNew
    <3>2. got[r] \in Seq(Chunk)
        BY DEF PipeInv, TypeOK
    <3>3. got[r][1] \in Chunk
        BY <3>1, <3>2
    <3> QED
        BY <1>3, <3>1, <3>3
  <2> QED
      BY <1>1, <1>2, <2>1, ProcsFacts DEF OnceInv, GotIsNew, NotReceived, Lone
<1>9. ReceivedOnce'
    BY <1>1 DEF OnceInv, ReceivedOnce
<1> QED
    BY <1>4, <1>5, <1>6, <1>7, <1>8, <1>9 DEF OnceInv

(* A reader returns its item, which nobody has received and nobody will.     *)
LEMMA OncePostW ==
    ASSUME MaxChunks = 1, PipeInv, OnceInv, NEW r \in Readers, PostW(r)
    PROVE  OnceInv'
<1>1. /\ pc[r] = "post_w"
      /\ UNCHANGED <<r_sem, segment, sending, i, got, sent>>
    BY DEF PostW
<1>2. /\ Len(got[r]) = 1 /\ Lone(got[r][1]) /\ NotReceived(got[r][1].item)
      /\ \A w \in Writers : pc[w] \in {"wait_w", "copy_in"} => sending[w] # got[r][1].item
    BY <1>1 DEF OnceInv, GotIsNew
<1>3. /\ received \in [Readers -> Seq(Seq(Chunk))]
      /\ got[r] \in Seq(Chunk)
      /\ DOMAIN pc = Procs
    BY DEF PipeInv, TypeOK
<1>4. /\ pc' = [pc EXCEPT ![r] = "idle"]
      /\ received' = [received EXCEPT ![r] = Append(@, got[r])]
    BY <1>2 DEF PostW, RecvTurn, TotalChunks, Lone
<1>5. ASSUME NEW q \in Readers, NEW k \in 1..Len(received'[q])
      PROVE  \/ k \in 1..Len(received[q]) /\ received'[q][k] = received[q][k]
             \/ q = r /\ k = Len(received[r]) + 1 /\ received'[q][k] = got[r]
    BY <1>3, <1>4, AppendProperties
<1>6. ReceivedIsLone'
  <2> SUFFICES ASSUME NEW q \in Readers, NEW k \in 1..Len(received'[q])
               PROVE  Len(received'[q][k]) = 1 /\ Lone(received'[q][k][1])
      BY <1>1 DEF ReceivedIsLone, Lone
  <2>1. CASE k \in 1..Len(received[q]) /\ received'[q][k] = received[q][k]
      BY <2>1 DEF OnceInv, ReceivedIsLone
  <2> QED
      BY <1>2, <1>5, <2>1
<1>7. ReceivedOnce'
  <2> SUFFICES ASSUME NEW q \in Readers, NEW k \in 1..Len(received'[q]),
                      NEW p \in Readers, NEW l \in 1..Len(received'[p]),
                      received'[q][k][1].item = received'[p][l][1].item
               PROVE  q = p /\ k = l
      BY DEF ReceivedOnce
  <2>1. ASSUME NEW d \in Readers, NEW m \in 1..Len(received[d])
        PROVE  received[d][m][1].item # got[r][1].item
      BY <1>2 DEF NotReceived
  <2>2. CASE /\ k \in 1..Len(received[q]) /\ received'[q][k] = received[q][k]
             /\ l \in 1..Len(received[p]) /\ received'[p][l] = received[p][l]
      BY <2>2 DEF OnceInv, ReceivedOnce
  <2>3. ASSUME q = r, k = Len(received[r]) + 1, received'[q][k] = got[r],
               l \in 1..Len(received[p]), received'[p][l] = received[p][l]
        PROVE  FALSE
      BY <2>1, <2>3
  <2>4. ASSUME p = r, l = Len(received[r]) + 1, received'[p][l] = got[r],
               k \in 1..Len(received[q]), received'[q][k] = received[q][k]
        PROVE  FALSE
      BY <2>1, <2>4
  <2> QED
      BY <1>5, <2>2, <2>3, <2>4
<1>8. ASSUME NEW p \in Procs, p # r PROVE pc'[p] = pc[p]
    BY <1>3, <1>4, <1>8
<1>9. ASSUME NEW w \in Writers PROVE pc'[w] = pc[w] /\ w # r
    BY <1>8, ProcsFacts
<1>10. pc'[r] = "idle"
    BY <1>3, <1>4, ProcsFacts
<1>11. ASSUME NEW x, NotReceived(x), x # got[r][1].item 
       PROVE  \A q \in Readers : \A k \in 1..Len(received'[q]) : received'[q][k][1].item # x
  <2> SUFFICES ASSUME NEW q \in Readers, NEW k \in 1..Len(received'[q])
               PROVE  received'[q][k][1].item # x
      OBVIOUS
  <2>1. CASE k \in 1..Len(received[q]) /\ received'[q][k] = received[q][k]
      BY <1>11, <2>1 DEF NotReceived
  <2> QED
      BY <1>5, <1>11, <2>1
<1>12. /\ \A p \in Inside : p = r
       /\ r_sem = 0
    BY <1>1, ProcsFacts DEF PipeInv, OneToken, Inside, InsideRead, TypeOK
<1>13. ASSUME NEW w \in Writers, pc[w] \in {"copy_in", "post_r"} PROVE FALSE
    BY <1>12, <1>13, <1>9 DEF Inside, InsideWrite
<1>14. ASSUME NEW q \in Readers, q # r PROVE pc[q] \notin {"copy_out", "zero", "post_w"}
    BY <1>12, <1>14 DEF Inside, InsideRead
<1>15. SendingIsLone'
  <2> SUFFICES ASSUME NEW w \in Writers, pc[w] \in {"wait_w", "copy_in", "post_r"}
               PROVE  /\ i[w] = 0
                      /\ sending[w].from = w
                      /\ sending[w].no = sent[w]
                      /\ sending[w].chunks = 1
                      /\ \A q \in Readers : \A k \in 1..Len(received'[q]) :
                            received'[q][k][1].item # sending[w]
      BY <1>1, <1>9 DEF SendingIsLone, NotReceived
  <2>1. NotReceived(sending[w]) /\ sending[w] # got[r][1].item
      BY <1>2, <1>13 DEF OnceInv, SendingIsLone
  <2> QED
      BY <1>11, <2>1 DEF OnceInv, SendingIsLone
<1>16. WrittenIsSent'
    BY <1>1, <1>9 DEF OnceInv, WrittenIsSent
<1>17. ~Readable'
    BY <1>1, <1>8, <1>10, <1>12, <1>14, ProcsFacts DEF Readable
<1>18. SegmentIsNew'
    BY <1>17 DEF SegmentIsNew
<1>19. GotIsNew'
    BY <1>1, <1>8, <1>10, <1>14, ProcsFacts DEF OnceInv, GotIsNew
<1> QED
    BY <1>6, <1>7, <1>15, <1>16, <1>18, <1>19 DEF OnceInv

(* A reader takes the readable chunk, which is a new item as it stands.      *)
LEMMA OnceCopyOut ==
    ASSUME PipeInv, OnceInv, NEW r \in Readers, CopyOut(r)
    PROVE  OnceInv'
<1>1. /\ pc[r] = "copy_out"
      /\ pc' = [pc EXCEPT ![r] = "zero"]
      /\ got' = [got EXCEPT ![r] = Append(@, segment)]
      /\ segment # Zero
      /\ UNCHANGED <<r_sem, segment, sending, i, sent, received>>
    BY DEF CopyOut
<1>2. /\ Lone(segment) /\ NotReceived(segment.item)
      /\ \A w \in Writers : pc[w] \in {"wait_w", "copy_in"} => sending[w] # segment.item
      /\ got[r] = <<>>
    BY <1>1 DEF OnceInv, SegmentIsNew, GotIsNew, Readable
<1>3. /\ got \in [Readers -> Seq(Chunk)] /\ segment \in Chunk
      /\ pc \in [Procs -> WriterPc \union ReaderPc]
    BY <1>1 DEF PipeInv, TypeOK
<1>4. got'[r] = <<segment>> /\ \A q \in Readers : q # r => got'[q] = got[q]
    BY <1>1, <1>2, <1>3
<1>5. /\ pc'[r] = "zero"
      /\ \A p \in Procs : p # r => pc'[p] = pc[p]
      /\ \A w \in Writers : pc'[w] = pc[w]
    BY <1>1, <1>3, ProcsFacts
<1>6. /\ \A p \in Inside : p = r
      /\ r_sem = 0
    BY <1>1, ProcsFacts DEF PipeInv, OneToken, Inside, InsideRead, TypeOK
<1>7. ASSUME NEW q \in Readers, q # r PROVE pc[q] \notin {"copy_out", "zero", "post_w"}
    BY <1>6, <1>7 DEF Inside, InsideRead
<1>8. SendingIsLone' /\ WrittenIsSent' /\ ReceivedIsLone' /\ ReceivedOnce'
    BY <1>1, <1>5
       DEF OnceInv, SendingIsLone, WrittenIsSent, ReceivedIsLone, ReceivedOnce, Lone, NotReceived
<1>9. SegmentIsNew'
    BY <1>1, <1>5, <1>6, <1>7, ProcsFacts DEF SegmentIsNew, Readable
<1>10. GotIsNew'
    BY <1>1, <1>2, <1>4, <1>5, <1>7, ProcsFacts DEF OnceInv, GotIsNew, Lone, NotReceived
<1> QED
    BY <1>8, <1>9, <1>10 DEF OnceInv

LEMMA OnceStep ==
    ASSUME MaxChunks = 1, PipeInv, OnceInv, [Next]_vars
    PROVE  OnceInv'
<1>13. CASE UNCHANGED vars
    BY <1>13 DEF vars, OnceInv, SendingIsLone, WrittenIsSent, SegmentIsNew, GotIsNew,
                 ReceivedIsLone, ReceivedOnce, Lone, NotReceived, Readable
<1> USE ProcsFacts DEF PipeInv, TypeOK, OneToken, SegmentAgrees, Untouched, CopyingAgrees,
        Inside, InsideWrite, InsideRead, Readable, Lone, NotReceived
<1> USE DEF OnceInv, SendingIsLone, WrittenIsSent, SegmentIsNew, GotIsNew,
                ReceivedIsLone, ReceivedOnce
<1>1. ASSUME NEW p \in Procs, Open(p) PROVE OnceInv'
    BY <1>1 DEF Open
<1>2. ASSUME NEW p \in Procs, Crash(p) PROVE OnceInv'
    BY <1>2 DEF Crash
<1>3. ASSUME NEW w \in Writers, NEW n \in 1..MaxChunks, SendItem(w, n) PROVE OnceInv'
    BY <1>3, OnceSendItem
<1>4. ASSUME NEW w \in Writers, WaitW(w) PROVE OnceInv'
    BY <1>4, SMTT(30) DEF WaitW
<1>5. ASSUME NEW w \in Writers, CopyIn(w) PROVE OnceInv'
    BY <1>5, SMTT(30) DEF CopyIn, Chunk
<1>6. ASSUME NEW w \in Writers, PostR(w) PROVE OnceInv'
    BY <1>6, SMTT(30) DEF PostR
<1>7. ASSUME NEW r \in Readers, RecvItem(r) PROVE OnceInv'
    BY <1>7 DEF RecvItem
<1>8. ASSUME NEW r \in Readers, WaitR(r) PROVE OnceInv'
    BY <1>8, SMTT(30) DEF WaitR
<1>9. ASSUME NEW r \in Readers, CopyOut(r) PROVE OnceInv'
    BY <1>9, OnceCopyOut
<1>10. ASSUME NEW r \in Readers, ReadFails(r) PROVE OnceInv'
    BY <1>10 DEF ReadFails
<1>11. ASSUME NEW r \in Readers, ZeroSegment(r) PROVE OnceInv'
    BY <1>11, SMTT(30) DEF ZeroSegment
<1>12. ASSUME NEW r \in Readers, PostW(r) PROVE OnceInv'
    BY <1>12, OncePostW
<1> HIDE DEF OnceInv, PipeInv
<1> QED
    BY <1>1, <1>2, <1>3, <1>4, <1>5, <1>6, <1>7, <1>8, <1>9, <1>10, <1>11, <1>12, <1>13
       DEF Next, WriterNext, ReaderNext

(* Any number of processes may share a pipe whose items are of one chunk:    *)
(* what recv_item returns is a whole item, and no item is returned twice, to *)
(* one reader or to two, wherever processes crash or fail to allocate.       *)
THEOREM SharedItemsArriveOnce ==
    ASSUME MaxChunks = 1
    PROVE  Spec => []ItemsOnce
<1>1. Init => OnceInv
    BY OnceInit
<1>2. PipeInv /\ OnceInv /\ [Next]_vars => OnceInv'
    BY OnceStep
<1>3. PipeInv /\ OnceInv => ItemsOnce
  <2> SUFFICES ASSUME PipeInv, OnceInv,
                      NEW r \in Readers, NEW k \in 1..Len(received[r])
               PROVE  Complete(received[r][k]) /\ Whole(received[r][k])
      BY DEF ItemsOnce, OnceInv, ReceivedOnce
  <2>1. Len(received[r][k]) = 1 /\ Lone(received[r][k][1])
      BY DEF OnceInv, ReceivedIsLone
  <2>2. received[r][k] \in Seq(Chunk) /\ received[r][k][1] \in Chunk
      BY <2>1, ReceivedChunk DEF PipeInv
  <2> QED
      BY <2>1, <2>2 DEF Lone, Complete, Whole, Chunk
<1> QED
    BY <1>1, <1>2, <1>3, PipeInvariant, PTL DEF Spec

-------------------------------------------------------------------------------
(* The facts about one writer and one reader that every step needs.          *)
Pair(w, r) == Writers = {w} /\ Readers = {r} /\ MaxFaults = 0 /\ w # r

LEMMA OrderInit ==
    ASSUME NEW w, NEW r, Pair(w, r), Init
    PROVE  OrderInv(w, r)
<1>1. /\ pc[w] = "closed" /\ pc[r] = "closed" /\ received[r] = <<>> /\ sent[w] = 0
      /\ r_sem = 0
    BY DEF Pair, Init, Procs
<1> QED
    BY <1>1 DEF OrderInv, SendingInStep, CaughtUp, CopiedInStep, NextIsReadable, GotInStep,
                ReceivedInOrder, Busy, Between

LEMMA OrderStep ==
    ASSUME NEW w, NEW r, Pair(w, r), PipeInv, OrderInv(w, r), [Next]_vars
    PROVE  OrderInv(w, r)'
<1>0. /\ w \in Writers /\ r \in Readers /\ w \in Procs /\ r \in Procs
      /\ Procs = {w, r}
    BY DEF Pair, Procs
<1> USE <1>0 DEF Pair, PipeInv, TypeOK, OneToken, SegmentAgrees, Untouched, CopyingAgrees,
        Inside, InsideWrite, InsideRead
<1> USE DEF OrderInv, SendingInStep, CaughtUp, CopiedInStep, NextIsReadable, GotInStep,
            ReceivedInOrder, Busy, Between, Taken, Partway, Posted, Prefix
<1>1. ASSUME NEW p \in Procs, Open(p) PROVE OrderInv(w, r)'
    BY <1>1 DEF Open
<1>2. ASSUME NEW p \in Procs, Crash(p) PROVE OrderInv(w, r)'
    BY <1>2 DEF Crash
<1>3. ASSUME NEW n \in 1..MaxChunks, SendItem(w, n) PROVE OrderInv(w, r)'
  <2>1. /\ pc[w] = "idle"
        /\ sent' = [sent EXCEPT ![w] = @ + 1]
        /\ sending' = [sending EXCEPT ![w] = [from |-> w, no |-> sent[w] + 1, chunks |-> n]]
        /\ i' = [i EXCEPT ![w] = 0]
        /\ pc' = [pc EXCEPT ![w] = "wait_w"]
        /\ UNCHANGED <<exists, r_sem, w_sem, segment, got, received>>
      BY <1>3 DEF SendItem
  <2>2. sending'[w].no = sent[w] + 1 /\ sending'[w].chunks = n /\ n > 0
      BY <2>1
  <2>3. sent'[w] = sent[w] + 1 /\ i'[w] = 0 /\ pc'[w] = "wait_w" /\ pc'[r] = pc[r]
      BY <2>1
  <2>4. SendingInStep(w)'
      BY <2>2, <2>3
  <2>5. CaughtUp(w, r)'
      BY <2>1, <2>2, <2>3
  <2>6. CopiedInStep(w)'
      BY <2>3
  <2>7. NextIsReadable(w, r)'
    <3>1. ASSUME r_sem > 0 \/ pc[r] = "copy_out"
          PROVE  /\ segment.id < segment.item.chunks
                 /\ Taken(r, segment.item, segment.id)
                 /\ segment.id + 1 >= segment.item.chunks
                 /\ sent[w] = segment.item.no
                 /\ segment.id \in Nat /\ segment.item.chunks \in Nat
      <4>1. segment \in Chunk
          BY <3>1
      <4> HIDE DEF PipeInv
      <4>2. segment.id \in Nat /\ segment.item.chunks \in Nat
        <5> HIDE DEF OrderInv
        <5> QED
            BY <4>1 DEF Chunk, Item
      <4> QED
          BY <2>1, <3>1, <4>2
    <3> QED
        BY <2>1, <2>3, <3>1
  <2>8. GotInStep(w, r)'
    <3>1. ASSUME pc[r] \in {"zero", "post_w"}
          PROVE  /\ sent[w] = got[r][1].item.no
                 /\ Len(got[r]) >= got[r][1].item.chunks
                 /\ Len(got[r]) \in Nat /\ got[r][1].item.chunks \in Nat
      <4>1. got[r] \in Seq(Chunk) /\ got[r][1] \in Chunk
          BY <3>1
      <4> HIDE DEF PipeInv
      <4>2. Len(got[r]) \in Nat /\ got[r][1].item.chunks \in Nat
        <5> HIDE DEF OrderInv
        <5> QED
            BY <4>1 DEF Chunk, Item
      <4> QED
          BY <2>1, <3>1, <4>2
    <3> QED
        BY <2>1, <2>3, <3>1
  <2>9. ReceivedInOrder(r)'
      BY <2>1
  <2> QED
      BY <2>4, <2>5, <2>6, <2>7, <2>8, <2>9
<1>4. ASSUME WaitW(w) PROVE OrderInv(w, r)'
    BY <1>4 DEF WaitW
<1>5. ASSUME CopyIn(w) PROVE OrderInv(w, r)'
    BY <1>5 DEF CopyIn, Chunk
<1>6. ASSUME PostR(w) PROVE OrderInv(w, r)'
  <2>1. /\ pc[w] = "post_r"
        /\ r_sem' = r_sem + 1
        /\ i' = [i EXCEPT ![w] = @ + 1]
        /\ pc' = [pc EXCEPT ![w] = IF i[w] + 1 < sending[w].chunks THEN "wait_w" ELSE "idle"]
        /\ UNCHANGED <<exists, w_sem, segment, sending, got, sent, received>>
      BY <1>6 DEF PostR
  <2>2. /\ exists /\ w_sem = 0 /\ r_sem = 0
        /\ pc[r] \notin {"copy_out", "zero", "post_w"}
        /\ pc'[r] = pc[r]
        /\ i'[w] = i[w] + 1
      BY <2>1
  <2>3. /\ segment.item = sending[w] /\ segment.id = i[w]
        /\ i[w] < sending[w].chunks /\ i[w] \in Nat /\ sending[w].chunks \in Nat
        /\ Taken(r, sending[w], i[w])
        /\ sending[w].no = sent[w]
      BY <2>1 DEF Item
  <2>4. Posted(w, segment.item, segment.id + 1)'
    <3>1. CASE i[w] + 1 < sending[w].chunks
      <4>1. pc'[w] = "wait_w"
          BY <2>1, <3>1
      <4> QED
          BY <2>1, <2>2, <2>3, <3>1, <4>1
    <3>2. CASE ~(i[w] + 1 < sending[w].chunks)
      <4>1. pc'[w] = "idle"
          BY <2>1, <3>2
      <4> QED
          BY <2>1, <2>2, <2>3, <3>2, <4>1
    <3> QED
        BY <3>1, <3>2
  <2>5. NextIsReadable(w, r)'
      BY <2>1, <2>2, <2>3, <2>4
  <2>6. SendingInStep(w)'
      BY <2>1, <2>2, <2>3
  <2> QED
      BY <2>1, <2>2, <2>5, <2>6
<1>7. ASSUME RecvItem(r) PROVE OrderInv(w, r)'
    BY <1>7 DEF RecvItem
<1>8. ASSUME WaitR(r) PROVE OrderInv(w, r)'
    BY <1>8 DEF WaitR
<1>9. ASSUME CopyOut(r) PROVE OrderInv(w, r)'
  <2>1. /\ pc[r] = "copy_out"
        /\ segment # Zero
        /\ got' = [got EXCEPT ![r] = Append(@, segment)]
        /\ pc' = [pc EXCEPT ![r] = "zero"]
        /\ UNCHANGED <<exists, r_sem, w_sem, segment, sending, i, sent, received>>
      BY <1>9 DEF CopyOut
  <2>2. /\ exists /\ w_sem = 0 /\ r_sem = 0
        /\ pc[w] \notin {"copy_in", "post_r"}
        /\ pc'[w] = pc[w] /\ pc'[r] = "zero"
      BY <2>1
  <2>3. /\ segment \in Chunk /\ got \in [Readers -> Seq(Chunk)]
        /\ segment.id \in Nat /\ segment.item.chunks \in Nat
        /\ segment.id < segment.item.chunks
        /\ Posted(w, segment.item, segment.id + 1)
        /\ segment = [item |-> segment.item, id |-> segment.id]
      BY <2>1 DEF Chunk, Item
  <2>4. /\ Len(got[r]) = segment.id
        /\ Prefix(got[r], segment.item)
        /\ Len(received[r]) = segment.item.no - 1
      BY <2>1
  <2>5. /\ Len(got'[r]) = segment.id + 1
        /\ \A k \in 1..segment.id : got'[r][k] = got[r][k]
        /\ got'[r][segment.id + 1] = segment
        /\ got'[r] # <<>>
    <3> HIDE DEF PipeInv, OrderInv
    <3> QED
        BY <2>1, <2>3, <2>4, AppendProperties
  <2>6. /\ Prefix(got'[r], segment.item)
        /\ got'[r][1].item = segment.item
    <3> HIDE DEF PipeInv, OrderInv
    <3>1. ASSUME NEW k \in 1..(segment.id + 1)
          PROVE  got'[r][k] = [item |-> segment.item, id |-> k - 1]
      <4>1. CASE k \in 1..segment.id
          BY <2>3, <2>4, <2>5, <4>1
      <4>2. CASE k = segment.id + 1
          BY <2>3, <2>5, <4>2
      <4> QED
          BY <2>3, <4>1, <4>2
    <3>2. Len(got'[r]) = segment.id + 1 /\ 1 \in 1..(segment.id + 1)
        BY <2>3, <2>5
    <3>3. got'[r][1].item = segment.item
      <4>1. got'[r][1] = [item |-> segment.item, id |-> 1 - 1]
          BY <3>1, <3>2
      <4> QED
          BY <4>1
    <3>4. Prefix(got'[r], segment.item)
      <4> SUFFICES ASSUME NEW k \in 1..Len(got'[r])
                   PROVE  got'[r][k] = [item |-> segment.item, id |-> k - 1]
          BY DEF Prefix
      <4>1. k \in 1..(segment.id + 1)
          BY <3>2
      <4> QED
          BY <3>1, <4>1
    <3> QED
        BY <3>3, <3>4
  <2>7. Posted(w, segment.item, segment.id + 1)'
      BY <2>1, <2>2, <2>3
  <2>8. GotInStep(w, r)'
    <3>1. /\ Len(got'[r]) <= segment.item.chunks
          /\ Len(received'[r]) = segment.item.no - 1
        BY <2>1, <2>3, <2>4, <2>5
    <3> HIDE DEF Posted, Prefix
    <3> QED
        BY <2>1, <2>5, <2>6, <2>7, <3>1
  <2> QED
      BY <2>1, <2>2, <2>8
<1>10. ASSUME ReadFails(r) PROVE OrderInv(w, r)'
    BY <1>10 DEF ReadFails
<1>11. ASSUME ZeroSegment(r) PROVE OrderInv(w, r)'
    BY <1>11 DEF ZeroSegment
<1>12. ASSUME PostW(r) PROVE OrderInv(w, r)'
  <2>1. /\ pc[r] = "post_w"
        /\ w_sem' = w_sem + 1
        /\ UNCHANGED <<exists, r_sem, segment, sending, i, got, sent>>
      BY <1>12 DEF PostW
  <2>2. /\ exists /\ w_sem = 0 /\ r_sem = 0
        /\ pc[w] \notin {"copy_in", "post_r"}
      BY <2>1
  <2> DEFINE it == got[r][1].item
  <2>3. /\ got[r] \in Seq(Chunk) /\ got[r] # <<>> /\ Len(got[r]) \in Nat
        /\ it.chunks \in Nat /\ it.no \in Nat
        /\ received \in [Readers -> Seq(Seq(Chunk))]
        /\ Len(got[r]) <= it.chunks
        /\ Prefix(got[r], it)
        /\ Len(received[r]) = it.no - 1
        /\ Posted(w, it, Len(got[r]))
    <3>1. got[r] \in Seq(Chunk) /\ got[r] # <<>>
        BY <2>1
    <3>2. got[r][1] \in Chunk
        BY <3>1
    <3>3. received \in [Readers -> Seq(Seq(Chunk))]
        OBVIOUS
    <3> HIDE DEF PipeInv
    <3>4. it.chunks \in Nat /\ it.no \in Nat
      <4> HIDE DEF OrderInv
      <4> QED
          BY <3>2 DEF Chunk, Item
    <3> QED
        BY <2>1, <3>1, <3>3, <3>4
  <2> HIDE DEF it
  <2>4. CASE /\ Len(got[r]) < it.chunks
             /\ pc' = [pc EXCEPT ![r] = "wait_r"]
             /\ UNCHANGED received
    <3>1. pc'[r] = "wait_r" /\ pc'[w] = pc[w]
        BY <2>4
    <3>2. Busy(w) /\ sending[w] = it /\ i[w] = Len(got[r])
        BY <2>3, <2>4
    <3>3. CaughtUp(w, r)'
        BY <2>1, <2>3, <2>4, <3>1, <3>2
    <3> QED
        BY <2>1, <2>2, <2>4, <3>1, <3>3 DEF Complete, Whole
  <2>5. CASE /\ Len(got[r]) >= it.chunks
             /\ pc' = [pc EXCEPT ![r] = "idle"]
             /\ received' = [received EXCEPT ![r] = Append(@, got[r])]
    <3>1. pc'[r] = "idle" /\ pc'[w] = pc[w]
        BY <2>5
    <3>2. /\ Len(received'[r]) = it.no
          /\ \A k \in 1..(it.no - 1) : received'[r][k] = received[r][k]
          /\ received'[r][it.no] = got[r]
      <4> HIDE DEF PipeInv, OrderInv
      <4>1. received[r] \in Seq(Seq(Chunk)) /\ received'[r] = Append(received[r], got[r])
          BY <2>3, <2>5
      <4> QED
          BY <2>3, <4>1, AppendProperties
    <3>3. Complete(got[r]) /\ Whole(got[r])
        BY <2>3, <2>5 DEF Complete, Whole, it
    <3>4. ReceivedInOrder(r)'
      <4> SUFFICES ASSUME NEW k \in 1..it.no
                   PROVE  /\ Complete(received'[r][k])
                          /\ Whole(received'[r][k])
                          /\ received'[r][k][1].item.no = k
          BY <3>2
      <4>1. CASE k \in 1..(it.no - 1)
        <5>1. k \in 1..Len(received[r]) /\ received'[r][k] = received[r][k]
            BY <2>3, <3>2, <4>1
        <5> QED
            BY <5>1
      <4>2. CASE k = it.no
          BY <3>2, <3>3, <4>2 DEF it
      <4> QED
          BY <2>3, <4>1, <4>2
    <3>5. \/ pc[w] \in {"closed", "idle"} /\ sent[w] = it.no
          \/ pc[w] = "wait_w" /\ i[w] = 0 /\ sent[w] = it.no + 1
        BY <2>3, <2>5
    <3>6. CaughtUp(w, r)'
      <4>1. CASE pc[w] \in {"closed", "idle"} /\ sent[w] = it.no
        <5>1. ~Busy(w)' /\ Between(r, sent[w])'
            BY <2>1, <3>1, <3>2, <4>1
        <5> QED
            BY <5>1
      <4>2. CASE pc[w] = "wait_w" /\ i[w] = 0 /\ sent[w] = it.no + 1
        <5> HIDE DEF PipeInv
        <5>1. sending'[w].no - 1 = it.no /\ i'[w] = 0
            BY <2>1, <2>2, <2>3, <4>2
        <5> HIDE DEF OrderInv
        <5>2. Between(r, sending[w].no - 1)'
            BY <3>1, <3>2, <5>1
        <5>3. Busy(w)'
            BY <3>1, <4>2
        <5> QED
            BY <5>1, <5>2, <5>3
      <4> QED
          BY <3>5, <4>1, <4>2
    <3> QED
        BY <2>1, <2>2, <3>1, <3>4, <3>6
  <2> QED
      BY <1>12, <2>4, <2>5 DEF PostW, RecvTurn, TotalChunks, it
<1>13. CASE UNCHANGED vars
    BY <1>13 DEF vars
<1> HIDE DEF OrderInv, PipeInv
<1> QED
    BY <1>1, <1>2, <1>3, <1>4, <1>5, <1>6, <1>7, <1>8, <1>9, <1>10, <1>11, <1>12, <1>13
       DEF Next, WriterNext, ReaderNext

(* With one process at either end, and nothing failing, recv_item returns    *)
(* the writer's items whole and in the order of the send_item calls,         *)
(* whatever their sizes and however the two interleave.                      *)
THEOREM PairItemsArriveInOrder ==
    ASSUME NEW w, NEW r, Writers = {w}, Readers = {r}, MaxFaults = 0
    PROVE  Spec => []ItemsInOrder
<1>1. Pair(w, r)
    BY PipeAssumption DEF Pair
<1>2. Init => OrderInv(w, r)
    BY <1>1, OrderInit
<1>3. PipeInv /\ OrderInv(w, r) /\ [Next]_vars => OrderInv(w, r)'
    BY <1>1, OrderStep
<1>4. OrderInv(w, r) => ItemsInOrder
    BY <1>1 DEF Pair, OrderInv, ReceivedInOrder, ItemsInOrder
<1> QED
    BY <1>2, <1>3, <1>4, PipeInvariant, PTL DEF Spec
===============================================================================
