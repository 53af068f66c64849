-------------------------------- MODULE BatchIO --------------------------------
(***************************************************************************)
(* Batched page I/O (the DISK_IO build): several frontends, one per        *)
(* vector, queue page reads and writes in a ring of bufferCapacity page    *)
(* slots and share the backend's two chunk queues.  Any frontend's flush,  *)
(* or a full queue, performs the queued chunks of all of them and marks    *)
(* their slots done behind their backs.                                    *)
(*                                                                         *)
(* Frontends own disjoint parts of the server (LargeBlockAllocator), so    *)
(* the server is one array of pages per frontend.  A ciphertext is its     *)
(* plaintext and the page it authenticates; Decrypt of another page's      *)
(* ciphertext aborts.  One write counter per page is assumed.              *)
(***************************************************************************)
EXTENDS Integers, Sequences, FiniteSets, FiniteSetsExt, TLC

CONSTANTS
  Frontends,
  Pages,            \* pages of each frontend's slot
  Values,
  defaultVal,       \* what a page reads as before it is first written
  None,             \* no page, no buffer
  Dests,            \* page buffers of each frontend's client
  sizeOfT,          \* bytes of an encrypted page
  bufferCapacity,   \* 16 in the code
  maxChunkNum,      \* 16 in the code
  tmpSize,          \* sizeof(Chunks::tmp)
  MaxJobs           \* bound on the jobs of all frontends together

ASSUME BatchAssumption ==
  /\ bufferCapacity \in Nat \ {0} /\ maxChunkNum \in Nat \ {0} /\ tmpSize \in Nat
  /\ sizeOfT \in 1 .. tmpSize
  /\ defaultVal \in Values /\ MaxJobs \in Nat

VARIABLES
  sys,      \* [fe, data, readChunks, writeChunks, dest, aborted]
  content,  \* history: each page's value in program order
  ticket    \* history: per buffer, the read last asked to fill it: job and value

vars == <<sys, content, ticket>>

Ring == 0 .. bufferCapacity - 1

\* Where nothing has been encrypted yet.
NoCipher == [val |-> defaultVal, page |-> None]
Cipher == [val : Values, page : Pages]

\* What an empty slot still holds is overwritten before it is used again.
EmptySlot == [state |-> "EMPTY", enc |-> NoCipher, outAddr |-> None, nounce |-> None]

--------------------------------------------------------------------------------
(* MemServerBackend *)

\* Bytes of Chunks::tmp that queue q uses.
tmpOffset(q) == sizeOfT * Len(q)

Full(q) == tmpOffset(q) + sizeOfT > tmpSize \/ Len(q) + 1 > maxChunkNum

\* The chunks of queue q that point at slot k of f, and those for its page i.
ChunksOf(q, f, k) == {n \in DOMAIN q : q[n].f = f /\ q[n].slot = k}
ChunksFor(q, f, i) == {n \in DOMAIN q : q[n].f = f /\ q[n].page = i}

\* Every queued page is copied to its slot's enc, and the slot becomes DONE.
BackendFlushRead(s) ==
  LET q == s.readChunks
      Served(f, k) ==
        IF ChunksOf(q, f, k) = {} THEN s.fe[f].slots[k]
        ELSE [s.fe[f].slots[k] EXCEPT !.state = "DONE",
                                      !.enc = s.data[f][q[Max(ChunksOf(q, f, k))].page]]
  IN [s EXCEPT !.fe = [f \in Frontends |->
                         [s.fe[f] EXCEPT !.slots = [k \in Ring |-> Served(f, k)]]],
               !.readChunks = <<>>]

\* The slots whose chunks have been written are DONE.
Written(s, f) ==
  [k \in Ring |-> IF ChunksOf(s.writeChunks, f, k) = {} THEN s.fe[f].slots[k]
                  ELSE [s.fe[f].slots[k] EXCEPT !.state = "DONE"]]

\* Mutant of BackendFlushWrite: the latest write of a page is performed first.
BackendFlushWriteReversed(s) ==
  LET q == s.writeChunks
      Stored(f, i) == IF ChunksFor(q, f, i) = {} THEN s.data[f][i]
                      ELSE q[Min(ChunksFor(q, f, i))].enc
  IN [s EXCEPT !.fe = [f \in Frontends |-> [s.fe[f] EXCEPT !.slots = Written(s, f)]],
               !.data = [f \in Frontends |-> [i \in Pages |-> Stored(f, i)]],
               !.writeChunks = <<>>]

\* The batch is written in the order of the queue: a page's last chunk stays.
BackendFlushWrite(s) ==
  LET q == s.writeChunks
      Stored(f, i) == IF ChunksFor(q, f, i) = {} THEN s.data[f][i]
                      ELSE q[Max(ChunksFor(q, f, i))].enc
  IN [s EXCEPT !.fe = [f \in Frontends |-> [s.fe[f] EXCEPT !.slots = Written(s, f)]],
               !.data = [f \in Frontends |-> [i \in Pages |-> Stored(f, i)]],
               !.writeChunks = <<>>]

BackendReadLazy(s, f, i) ==
  LET t == IF Full(s.readChunks) THEN BackendFlushRead(s) ELSE s
  IN [t EXCEPT !.readChunks = Append(@, [f |-> f, slot |-> t.fe[f].bufferIdx, page |-> i])]

\* The ciphertext is copied to tmp at once.
BackendWriteLazy(s, f, i) ==
  LET t == IF Full(s.writeChunks) THEN BackendFlushWrite(s) ELSE s
      k == t.fe[f].bufferIdx
  IN [t EXCEPT !.writeChunks =
        Append(@, [f |-> f, slot |-> k, page |-> i, enc |-> t.fe[f].slots[k].enc])]

--------------------------------------------------------------------------------
(* NonCachedBatchServerFrontend *)

\* Decrypt accepts what a slot holds.
Authentic(e) == e.enc.page = e.nounce

\* The slots D of the ring are decrypted in order, each into its outAddr, and are
\* free again.
DecryptSlots(s, f, D) ==
  LET e == s.fe[f].slots
      Filled(d) == {k \in D : e[k].outAddr = d /\ Authentic(e[k])}
  IN [s EXCEPT !.fe[f].slots = [k \in Ring |-> IF k \in D THEN EmptySlot ELSE e[k]],
               !.dest[f] = [d \in Dests |-> IF Filled(d) = {} THEN s.dest[f][d]
                                            ELSE e[Max(Filled(d))].enc.val],
               !.aborted = @ \/ \E k \in D : ~Authentic(e[k])]

SlotsIn(s, f, state) == {k \in Ring : s.fe[f].slots[k].state = state}

\* One backend flush serves every pending slot of the loop.  A slot it leaves
\* pending fails the loop's Assert.
flushRead(s, f) ==
  LET t == IF SlotsIn(s, f, "PENDING") = {} THEN s ELSE BackendFlushRead(s)
      d == DecryptSlots(t, f, SlotsIn(t, f, "DONE"))
  IN [d EXCEPT !.fe[f] = [@ EXCEPT !.doneCounter = d.fe[f].jobCounter],
               !.aborted = @ \/ SlotsIn(d, f, "PENDING") # {}]

flushWrite(s, f) ==
  LET t == IF SlotsIn(s, f, "PENDING") = {} THEN s ELSE BackendFlushWrite(s)
      e == t.fe[f].slots
  IN [t EXCEPT !.fe[f] = [@ EXCEPT !.doneCounter = t.fe[f].jobCounter,
                                   !.slots = [k \in Ring |-> IF e[k].state = "DONE" THEN EmptySlot
                                                             ELSE e[k]]],
               !.aborted = @ \/ SlotsIn(t, f, "PENDING") # {}]

\* The job is queued in the current slot; the ring and the counter advance.
Enqueued(s, f) ==
  LET e == s.fe[f]
  IN [s EXCEPT !.fe[f] = [e EXCEPT !.bufferIdx = (e.bufferIdx + 1) % bufferCapacity,
                                   !.jobCounter = e.jobCounter + 1]]

\* The current slot, freed for another read: a page in it is delivered, and where it
\* still waits everything is flushed.
FreedForRead(s, f) ==
  LET k == s.fe[f].bufferIdx
  IN CASE s.fe[f].slots[k].state = "DONE" -> DecryptSlots(s, f, {k})
       [] s.fe[f].slots[k].state = "PENDING" -> flushRead(s, f)
       [] OTHER -> s

FreedForWrite(s, f) ==
  LET e == s.fe[f]
      k == e.bufferIdx
  IN CASE e.slots[k].state = "DONE" ->
            [s EXCEPT !.fe[f] = [e EXCEPT !.slots = [e.slots EXCEPT ![k] = EmptySlot],
                                          !.doneCounter = e.doneCounter + 1]]
       [] e.slots[k].state = "PENDING" -> flushWrite(s, f)
       [] OTHER -> s

\* Frontend e with its current slot pending, for a read of page i into d or for a
\* write of v to page i.
PendingRead(e, i, d) ==
  [e EXCEPT !.isRead = TRUE,
            !.slots = [e.slots EXCEPT ![e.bufferIdx] =
              [@ EXCEPT !.state = "PENDING", !.outAddr = d, !.nounce = i]]]

PendingWrite(e, i, v) ==
  [e EXCEPT !.isRead = FALSE,
            !.modified = e.modified \cup {i},
            !.slots = [e.slots EXCEPT ![e.bufferIdx] =
              [@ EXCEPT !.state = "PENDING", !.enc = [val |-> v, page |-> i]]]]

\* The path of ReadLazy for a page that has been modified.
QueueRead(s, f, i, d) ==
  LET a == IF ~s.fe[f].isRead THEN flushWrite(s, f) ELSE s
      b == FreedForRead(a, f)
      c == [b EXCEPT !.fe[f] = PendingRead(b.fe[f], i, d)]
  IN Enqueued(BackendReadLazy(c, f, i), f)

QueueWrite(s, f, i, v) ==
  LET a == IF s.fe[f].isRead THEN flushRead(s, f) ELSE s
      b == FreedForWrite(a, f)
      c == [b EXCEPT !.fe[f] = PendingWrite(b.fe[f], i, v)]
  IN Enqueued(BackendWriteLazy(c, f, i), f)

\* Mutant of isJobDone: the job after the last one done counts as done.
isJobDoneEarly(f, job) == sys.fe[f].doneCounter + 1 >= job

isJobDone(f, job) == sys.fe[f].doneCounter >= job

--------------------------------------------------------------------------------
(* Operations.  What the vectors' readers, writers and copy routines respect: a *)
(* buffer is not given to a second read before the first is done; a frontend    *)
(* does not flush reads over pending writes, or writes over pending reads; a    *)
(* page with a queued write is not accessed synchronously.                      *)

Idle(f) == SlotsIn(sys, f, "EMPTY") = Ring
WriteQueued(f, i) == ChunksFor(sys.writeChunks, f, i) # {}
ReadQueued(f, i) == ChunksFor(sys.readChunks, f, i) # {}

MoreJobs == MapThenSumSet(LAMBDA f : sys.fe[f].jobCounter, Frontends) < MaxJobs

Init ==
  /\ sys = [fe |-> [f \in Frontends |->
                      [isRead |-> FALSE, bufferIdx |-> 0, doneCounter |-> 0, jobCounter |-> 0,
                       modified |-> {},
                       slots |-> [k \in Ring |-> EmptySlot]]],
            data |-> [f \in Frontends |-> [i \in Pages |-> NoCipher]],
            readChunks |-> <<>>, writeChunks |-> <<>>,
            dest |-> [f \in Frontends |-> [d \in Dests |-> defaultVal]],
            aborted |-> FALSE]
  /\ content = [f \in Frontends |-> [i \in Pages |-> defaultVal]]
  /\ ticket = [f \in Frontends |-> [d \in Dests |-> [job |-> 0, val |-> defaultVal]]]

\* A page never written is answered at once, with the last done job's counter.
ReadLazy(f, i, d) ==
  /\ MoreJobs
  /\ isJobDone(f, ticket[f][d].job)
  /\ IF i \notin sys.fe[f].modified
     THEN /\ sys' = [sys EXCEPT !.dest[f][d] = defaultVal]
          /\ ticket' = [ticket EXCEPT ![f][d] = [job |-> sys.fe[f].doneCounter, val |-> defaultVal]]
     ELSE /\ sys' = QueueRead(sys, f, i, d)
          /\ ticket' = [ticket EXCEPT ![f][d] =
                          [job |-> sys'.fe[f].jobCounter, val |-> content[f][i]]]
  /\ UNCHANGED content

WriteLazy(f, i, v) ==
  /\ MoreJobs
  /\ sys' = QueueWrite(sys, f, i, v)
  /\ content' = [content EXCEPT ![f][i] = v]
  /\ UNCHANGED ticket

FlushReads(f) ==
  /\ sys.fe[f].isRead \/ Idle(f)
  /\ sys' = flushRead(sys, f)
  /\ UNCHANGED <<content, ticket>>

FlushWrites(f) ==
  /\ ~sys.fe[f].isRead \/ Idle(f)
  /\ sys' = flushWrite(sys, f)
  /\ UNCHANGED <<content, ticket>>

\* The base class's synchronous Read and Write do not look at the queues.
Read(f, i, d) ==
  /\ ~WriteQueued(f, i) /\ isJobDone(f, ticket[f][d].job)
  /\ LET c == sys.data[f][i]
     IN sys' = IF i \notin sys.fe[f].modified THEN [sys EXCEPT !.dest[f][d] = defaultVal]
               ELSE IF c.page = i THEN [sys EXCEPT !.dest[f][d] = c.val]
               ELSE [sys EXCEPT !.aborted = TRUE]
  /\ ticket' = [ticket EXCEPT ![f][d] = [job |-> sys.fe[f].doneCounter, val |-> content[f][i]]]
  /\ UNCHANGED content

Write(f, i, v) ==
  /\ ~WriteQueued(f, i) /\ ~ReadQueued(f, i)
  /\ sys' = [sys EXCEPT !.fe[f].modified = @ \cup {i},
                        !.data[f][i] = [val |-> v, page |-> i]]
  /\ content' = [content EXCEPT ![f][i] = v]
  /\ UNCHANGED ticket

Next ==
  \E f \in Frontends :
    \/ \E i \in Pages, d \in Dests : ReadLazy(f, i, d) \/ Read(f, i, d)
    \/ \E i \in Pages, v \in Values : WriteLazy(f, i, v) \/ Write(f, i, v)
    \/ FlushReads(f)
    \/ FlushWrites(f)

Spec == Init /\ [][Next]_vars

--------------------------------------------------------------------------------
(* Properties *)

\* Counters, slots and queues have their types and stay within their capacities.
TypeOK ==
  /\ \A f \in Frontends :
       /\ sys.fe[f].bufferIdx \in Ring
       /\ sys.fe[f].modified \subseteq Pages
       /\ \A k \in Ring : sys.fe[f].slots[k].enc \in Cipher \cup {NoCipher}
  /\ tmpOffset(sys.readChunks) <= tmpSize /\ Len(sys.readChunks) <= maxChunkNum
  /\ tmpOffset(sys.writeChunks) <= tmpSize /\ Len(sys.writeChunks) <= maxChunkNum

\* The Asserts of the flush loops hold and every page authenticates, although other
\* frontends complete and recycle jobs in any order.
NeverAborts == ~sys.aborted

\* The backend never keeps a pointer to a slot that has moved on: the queues hold
\* exactly one chunk for each pending slot, in the queue of its frontend's mode.
PendingIsQueued ==
  \A f \in Frontends, k \in Ring :
    LET R == ChunksOf(sys.readChunks, f, k)
        W == ChunksOf(sys.writeChunks, f, k)
    IN IF sys.fe[f].slots[k].state # "PENDING" THEN R \cup W = {}
       ELSE Cardinality(IF sys.fe[f].isRead THEN R ELSE W) = 1
            /\ (IF sys.fe[f].isRead THEN W ELSE R) = {}

\* A read that isJobDone reports as done has filled its buffer with the value its
\* page had, in program order, when the read was issued.
DoneReadsDelivered ==
  \A f \in Frontends, d \in Dests :
    isJobDone(f, ticket[f][d].job) => sys.dest[f][d] = ticket[f][d].val

\* Through any interleaving of the frontends' jobs nothing aborts, the backend's queues
\* point at the pending slots only, and reads that are done have been delivered.
JobsComplete == TypeOK /\ NeverAborts /\ PendingIsQueued /\ DoneReadsDelivered

\* No lazy write is lost or overtaken: the server's pages with the queued writes
\* applied are the pages in program order.
WritesReachServer ==
  LET s == BackendFlushWrite(sys)
  IN \A f \in Frontends : \A i \in sys.fe[f].modified :
       s.data[f][i] = [val |-> content[f][i], page |-> i]

Symmetry == Permutations(Frontends) \cup Permutations(Pages) \cup Permutations(Dests)
================================================================================
