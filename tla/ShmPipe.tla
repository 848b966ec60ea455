------------------------------- MODULE ShmPipe -------------------------------
(***************************************************************************)
(* The shared memory pipe of shared_memory.h: one segment of a fixed size  *)
(* and two named POSIX semaphores, w_sem ("writable", created with 1) and  *)
(* r_sem ("readable", created with 0).  send_item cuts an item into chunks *)
(* and writes them one after the other; recv_item reads the first chunk,   *)
(* learns from it how many there are, and reads the rest.                  *)
(*                                                                         *)
(* Each space has two such pipes on a host: "-push" (the local clients     *)
(* write, the daemon reads) and "-pull" (the daemon writes, the local      *)
(* clients read).  Writers and Readers are the processes on either end.    *)
(* A process is the thread of one process that calls the header's inline   *)
(* functions; the processes interleave at the semaphore operations and at  *)
(* the copies between them.                                                *)
(*                                                                         *)
(* The bytes of a chunk are abstracted to the item it belongs to and its   *)
(* index there.  A process may crash anywhere, and the malloc of the read  *)
(* side may fail; MaxFaults bounds both together, MaxItems bounds the      *)
(* items each writer sends.                                                *)
(***************************************************************************)
EXTENDS Integers, Sequences

CONSTANTS
    Writers,    (* the processes that call send_item              *)
    Readers,    (* the processes that call recv_item              *)
    MaxChunks,  (* the largest item, in chunks of maxlen bytes    *)
    MaxItems,   (* bound: items each writer sends                 *)
    MaxFaults,  (* bound: crashes and failed mallocs              *)
    Zero        (* the segment after memset(data, 0, MAX_BYTES)   *)

Procs == Writers \union Readers

Item == [from : Writers, no : Nat, chunks : Nat \ {0}]

Chunk == [item : Item, id : Nat]

ASSUME PipeAssumption ==
    /\ Writers \intersect Readers = {}
    /\ MaxChunks \in Nat \ {0}
    /\ MaxItems \in Nat
    /\ MaxFaults \in Nat
    /\ Zero \notin Chunk

VARIABLES
    exists,    (* the named semaphores and the segment have been created    *)
    r_sem,     (* value of the consumer's semaphore                         *)
    w_sem,     (* value of the producer's semaphore                         *)
    segment,   (* content of the segment: a chunk or Zero                   *)
    pc,        (* where each process is in the calls below                  *)
    sending,   (* the writer's item, an argument of send_item               *)
    i,         (* the writer's loop counter in send_item                    *)
    got,       (* the chunks recv_item has copied out so far                *)
    sent,      (* number of items each writer has begun to send             *)
    received,  (* what each reader's successful recv_item calls returned    *)
    faults     (* crashes and failed mallocs so far                         *)

vars == <<exists, r_sem, w_sem, segment, pc, sending, i, got, sent,
          received, faults>>

-------------------------------------------------------------------------------
(* Control points.  A process is inside when it has come back from sem_wait *)
(* and has not yet called sem_post: the (0,0) state of the header comment.  *)

WriterPc == {"closed", "idle", "wait_w", "copy_in", "post_r"}
ReaderPc == {"closed", "idle", "wait_r", "copy_out", "zero", "post_w"}

InsideWrite == {p \in Writers : pc[p] \in {"copy_in", "post_r"}}
InsideRead  == {p \in Readers : pc[p] \in {"copy_out", "zero", "post_w"}}
Inside      == InsideWrite \union InsideRead

(* The field total of the header: how many reads recv_item will do.          *)
TotalChunksShort(c) == c.item.chunks - 1

TotalChunks(c) == c.item.chunks

Init ==
    /\ exists = FALSE
    /\ r_sem = 0
    /\ w_sem = 0
    /\ segment = Zero
    /\ pc = [p \in Procs |-> "closed"]
    /\ sending = [w \in Writers |-> [from |-> w, no |-> 0, chunks |-> 1]]
    /\ i = [w \in Writers |-> 0]
    /\ got = [r \in Readers |-> <<>>]
    /\ sent = [w \in Writers |-> 0]
    /\ received = [r \in Readers |-> <<>>]
    /\ faults = 0

(* A variant that gives them these values on every call.                     *)
OpenResets(p) ==
    /\ pc[p] = "closed"
    /\ pc' = [pc EXCEPT ![p] = "idle"]
    /\ exists' = TRUE
    /\ w_sem' = 1
    /\ r_sem' = 0
    /\ UNCHANGED <<segment, sending, i, got, sent, received, faults>>

(* create_shared_memory and open_shared_memory: sem_open(O_CREAT) gives the  *)
(* semaphores their initial values only when they do not exist yet.          *)
Open(p) ==
    /\ pc[p] = "closed"
    /\ pc' = [pc EXCEPT ![p] = "idle"]
    /\ exists' = TRUE
    /\ w_sem' = IF exists THEN w_sem ELSE 1
    /\ r_sem' = IF exists THEN r_sem ELSE 0
    /\ UNCHANGED <<segment, sending, i, got, sent, received, faults>>

(* A variant without the chunks = 1 that send_item starts from.              *)
SendItemRoundsDown(w, n) ==
    /\ pc[w] = "idle"
    /\ sent[w] < MaxItems
    /\ sent' = [sent EXCEPT ![w] = @ + 1]
    /\ sending' = [sending EXCEPT ![w] = [from |-> w, no |-> sent[w] + 1, chunks |-> n - 1]]
    /\ i' = [i EXCEPT ![w] = 0]
    /\ pc' = [pc EXCEPT ![w] = "wait_w"]
    /\ UNCHANGED <<exists, r_sem, w_sem, segment, got, received, faults>>

(* send_item: the item becomes n chunks, the loop starts at 0.               *)
SendItem(w, n) ==
    /\ pc[w] = "idle"
    /\ sent[w] < MaxItems
    /\ sent' = [sent EXCEPT ![w] = @ + 1]
    /\ sending' = [sending EXCEPT ![w] = [from |-> w, no |-> sent[w] + 1, chunks |-> n]]
    /\ i' = [i EXCEPT ![w] = 0]
    /\ pc' = [pc EXCEPT ![w] = "wait_w"]
    /\ UNCHANGED <<exists, r_sem, w_sem, segment, got, received, faults>>

(* Variants: sem_trywait with its result ignored.                            *)
WaitWTry(w) ==
    /\ pc[w] = "wait_w"
    /\ w_sem' = IF w_sem > 0 THEN w_sem - 1 ELSE w_sem
    /\ pc' = [pc EXCEPT ![w] = "copy_in"]
    /\ UNCHANGED <<exists, r_sem, segment, sending, i, got, sent, received, faults>>

(* write_shared_memory: sem_wait(w_sem).                                     *)
WaitW(w) ==
    /\ pc[w] = "wait_w"
    /\ w_sem > 0
    /\ w_sem' = w_sem - 1
    /\ pc' = [pc EXCEPT ![w] = "copy_in"]
    /\ UNCHANGED <<exists, r_sem, segment, sending, i, got, sent, received, faults>>

(* write_shared_memory: the four memcpy into the segment.                    *)
CopyIn(w) ==
    /\ pc[w] = "copy_in"
    /\ segment' = [item |-> sending[w], id |-> i[w]]
    /\ pc' = [pc EXCEPT ![w] = "post_r"]
    /\ UNCHANGED <<exists, r_sem, w_sem, sending, i, got, sent, received, faults>>

(* write_shared_memory: sem_post(r_sem), and the next turn of send_item's    *)
(* loop, or its return.                                                      *)
PostR(w) ==
    /\ pc[w] = "post_r"
    /\ r_sem' = r_sem + 1
    /\ i' = [i EXCEPT ![w] = @ + 1]
    /\ pc' = [pc EXCEPT ![w] = IF i[w] + 1 < sending[w].chunks THEN "wait_w" ELSE "idle"]
    /\ UNCHANGED <<exists, w_sem, segment, sending, got, sent, received, faults>>

(* recv_item is called.                                                      *)
RecvItem(r) ==
    /\ pc[r] = "idle"
    /\ got' = [got EXCEPT ![r] = <<>>]
    /\ pc' = [pc EXCEPT ![r] = "wait_r"]
    /\ UNCHANGED <<exists, r_sem, w_sem, segment, sending, i, sent, received, faults>>

(* read_shared_memory: sem_wait(r_sem).                                      *)
WaitR(r) ==
    /\ pc[r] = "wait_r"
    /\ r_sem > 0
    /\ r_sem' = r_sem - 1
    /\ pc' = [pc EXCEPT ![r] = "copy_out"]
    /\ UNCHANGED <<exists, w_sem, segment, sending, i, got, sent, received, faults>>

(* read_shared_memory: header and data are copied out.  recv_item puts the   *)
(* chunk at the position of the turn it is in, whatever the id it read.      *)
CopyOut(r) ==
    /\ pc[r] = "copy_out"
    /\ segment # Zero
    /\ got' = [got EXCEPT ![r] = Append(@, segment)]
    /\ pc' = [pc EXCEPT ![r] = "zero"]
    /\ UNCHANGED <<exists, r_sem, w_sem, segment, sending, i, sent, received, faults>>

(* read_shared_memory: memset of the whole segment.                          *)
ZeroNothing(r) ==
    /\ pc[r] = "zero"
    /\ pc' = [pc EXCEPT ![r] = "post_w"]
    /\ UNCHANGED <<exists, r_sem, w_sem, segment, sending, i, got, sent, received, faults>>

ZeroSegment(r) ==
    /\ pc[r] = "zero"
    /\ segment' = Zero
    /\ pc' = [pc EXCEPT ![r] = "post_w"]
    /\ UNCHANGED <<exists, r_sem, w_sem, sending, i, got, sent, received, faults>>

(* read_shared_memory returns 1 before it has posted w_sem, because len is 0 *)
(* or malloc failed.  recv_item passes the error on for the first chunk; for *)
(* a later one it copies from the NULL it got, and the process dies.         *)
ReadFails(r) ==
    /\ pc[r] = "copy_out"
    /\ segment # Zero => faults < MaxFaults
    /\ faults' = IF segment # Zero THEN faults + 1 ELSE faults
    /\ pc' = [pc EXCEPT ![r] = IF got[r] = <<>> THEN "idle" ELSE "closed"]
    /\ UNCHANGED <<exists, r_sem, w_sem, segment, sending, i, got, sent, received>>

(* recv_item: the next turn of its loop or its return; the number of turns   *)
(* is the total of the first chunk.                                          *)
RecvTurn(r) ==
    \/ /\ Len(got[r]) < TotalChunks(got[r][1])
       /\ pc' = [pc EXCEPT ![r] = "wait_r"]
       /\ UNCHANGED received
    \/ /\ Len(got[r]) >= TotalChunks(got[r][1])
       /\ pc' = [pc EXCEPT ![r] = "idle"]
       /\ received' = [received EXCEPT ![r] = Append(@, got[r])]

(* A variant that posts the semaphore the read has waited for.               *)
PostWSwapped(r) ==
    /\ pc[r] = "post_w"
    /\ r_sem' = r_sem + 1
    /\ RecvTurn(r)
    /\ UNCHANGED <<exists, w_sem, segment, sending, i, got, sent, faults>>

(* read_shared_memory: sem_post(w_sem), then back in recv_item.              *)
PostW(r) ==
    /\ pc[r] = "post_w"
    /\ w_sem' = w_sem + 1
    /\ RecvTurn(r)
    /\ UNCHANGED <<exists, r_sem, segment, sending, i, got, sent, faults>>

(* A process dies; the named semaphores and the segment outlive it.          *)
Crash(p) ==
    /\ pc[p] # "closed"
    /\ faults < MaxFaults
    /\ faults' = faults + 1
    /\ pc' = [pc EXCEPT ![p] = "closed"]
    /\ UNCHANGED <<exists, r_sem, w_sem, segment, sending, i, got, sent, received>>

WriterNext(w) == WaitW(w) \/ CopyIn(w) \/ PostR(w)

ReaderNext(r) == WaitR(r) \/ CopyOut(r) \/ ReadFails(r) \/ ZeroSegment(r) \/ PostW(r)

Next ==
    \/ \E p \in Procs : Open(p) \/ Crash(p)
    \/ \E w \in Writers : WriterNext(w) \/ \E n \in 1..MaxChunks : SendItem(w, n)
    \/ \E r \in Readers : ReaderNext(r) \/ RecvItem(r)

Spec == Init /\ [][Next]_vars

(* A thread that can run does run (weak fairness; sem_wait has no stronger   *)
(* guarantee), and the reader keeps calling recv_item, as the daemon does    *)
(* for every write command.  Nobody is obliged to start sending.             *)
FairSpec ==
    /\ Spec
    /\ \A w \in Writers : WF_vars(WriterNext(w))
    /\ \A r \in Readers : WF_vars(Open(r)) /\ WF_vars(RecvItem(r)) /\ WF_vars(ReaderNext(r))

-------------------------------------------------------------------------------
(* Properties *)

(* Type invariant.                                                           *)
TypeOK ==
    /\ exists \in BOOLEAN
    /\ r_sem \in Nat
    /\ w_sem \in Nat
    /\ segment \in Chunk \union {Zero}
    /\ pc \in [Procs -> WriterPc \union ReaderPc]
    /\ \A w \in Writers : pc[w] \in WriterPc
    /\ \A r \in Readers : pc[r] \in ReaderPc
    /\ sending \in [Writers -> Item]
    /\ i \in [Writers -> Nat]
    /\ got \in [Readers -> Seq(Chunk)]
    /\ sent \in [Writers -> Nat]
    /\ received \in [Readers -> Seq(Seq(Chunk))]
    /\ faults \in Nat

(* "(1,1) won't happen (presumably...)", and more: the two semaphores and    *)
(* the processes between a wait and a post share a single token.  At most    *)
(* one process is inside, (R,W) is (0,0) then, and as long as nothing has    *)
(* crashed the token is never lost: with nobody inside exactly one of the    *)
(* semaphores is up, so that either a writer or a reader can go on.          *)
OneToken ==
    /\ r_sem + w_sem <= 1
    /\ \A p, q \in Inside : p = q
    /\ Inside # {} => r_sem + w_sem = 0
    /\ exists /\ faults = 0 /\ Inside = {} => r_sem + w_sem = 1

(* The semaphores tell the truth about the segment: readable means that a    *)
(* complete chunk is there, writable that the last one has been taken out    *)
(* and the segment zeroed.  read_shared_memory never meets a zero length.    *)
SegmentAgrees ==
    /\ r_sem > 0 => segment # Zero
    /\ w_sem > 0 => segment = Zero
    /\ \A r \in Readers : pc[r] = "copy_out" => segment # Zero

(* What holds between the steps: the conjunction the proofs are by induction *)
(* on.  Before the first process opens the pipe nothing has touched it; a    *)
(* writer that has copied has left a chunk, a reader that has zeroed none.   *)
Untouched ==
    ~exists => /\ r_sem = 0 /\ w_sem = 0 /\ segment = Zero
               /\ \A p \in Procs : pc[p] = "closed"

CopyingAgrees ==
    /\ \A w \in Writers : pc[w] = "post_r" => segment # Zero
    /\ \A r \in Readers : pc[r] = "zero" => segment # Zero
    /\ \A r \in Readers : pc[r] = "post_w" => segment = Zero

PipeInv == TypeOK /\ OneToken /\ SegmentAgrees /\ Untouched /\ CopyingAgrees

(* The chunk that a reader can get or is getting.                            *)
committed == IF r_sem > 0 \/ \E r \in Readers : pc[r] = "copy_out"
             THEN segment ELSE Zero

Buffer == INSTANCE OnePlaceBuffer WITH slot <- committed

(* The pipe is a buffer for one chunk, which is in it from the post that     *)
(* completes it until a reader has copied it out: no chunk is overwritten or *)
(* handed out twice, whatever the number of processes at either end and      *)
(* wherever they crash.                                                      *)
IsOnePlaceBuffer == Buffer!Spec

(* The item recv_item returned is one item, whole and in order.              *)
Whole(chunks) ==
    \A k \in 1..Len(chunks) :
        chunks[k] = [item |-> chunks[1].item, id |-> k - 1]

Complete(chunks) == chunks # <<>> /\ Len(chunks) = chunks[1].item.chunks

(* With one process at either end every item arrives whole, once, and in the *)
(* order in which the writer sent them.                                      *)
ItemsInOrder ==
    \A r \in Readers : \A k \in 1..Len(received[r]) :
        /\ Complete(received[r][k])
        /\ Whole(received[r][k])
        /\ received[r][k][1].item.no = k

(* Several processes may share a pipe as long as an item fits one chunk:     *)
(* every item that arrives is whole, and no item arrives twice.              *)
ItemsOnce ==
    \A r, q \in Readers :
        \A k \in 1..Len(received[r]), l \in 1..Len(received[q]) :
            /\ Complete(received[r][k]) /\ Whole(received[r][k])
            /\ received[r][k][1].item = received[q][l][1].item => r = q /\ k = l

(* A send_item that has begun returns, if the other end keeps calling        *)
(* recv_item: W-R-W-R-...                                                    *)
SendReturns == \A w \in Writers : pc[w] = "wait_w" ~> pc[w] = "idle"
===============================================================================
