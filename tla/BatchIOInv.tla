------------------------------- MODULE BatchIOInv ------------------------------
(***************************************************************************)
(* The invariant of batched page I/O, for any number of frontends and any  *)
(* capacity of rings and queues, and that the flushes of the backend and   *)
(* of the frontends keep it.                                               *)
(***************************************************************************)
EXTENDS BatchIO, FiniteSetTheorems, WellFoundedInduction, TLAPS

--------------------------------------------------------------------------------
(* The inductive invariant, of a system s, the program-order contents C and the *)
(* reads T last asked of each buffer.  X holds the slot that a lazy call has    *)
(* marked pending and has not yet handed to the backend, if there is one.       *)

AnyCipher == Cipher \cup {NoCipher}

Slot == [state : {"EMPTY", "PENDING", "DONE"}, enc : AnyCipher,
         outAddr : Dests \cup {None}, nounce : Pages \cup {None}]

Frontend == [isRead : BOOLEAN, bufferIdx : Ring, doneCounter : Nat, jobCounter : Nat,
             modified : SUBSET Pages, slots : [Ring -> Slot]]

ReadChunk == [f : Frontends, slot : Ring, page : Pages]
WriteChunk == [f : Frontends, slot : Ring, page : Pages, enc : Cipher]

System == [fe : [Frontends -> Frontend], data : [Frontends -> [Pages -> AnyCipher]],
           readChunks : Seq(ReadChunk), writeChunks : Seq(WriteChunk),
           dest : [Frontends -> [Dests -> Values]], aborted : BOOLEAN]

Contents == [Frontends -> [Pages -> Values]]
Tickets == [Frontends -> [Dests -> [job : Nat, val : Values]]]

\* Each slot has one chunk at most.
OneEach(q) ==
  \A m, n \in DOMAIN q : q[m].f = q[n].f /\ q[m].slot = q[n].slot => m = n

\* A read chunk points at a slot that waits for the chunk's page.
ReadsPoint(s, X) ==
  \A n \in DOMAIN s.readChunks :
    LET c == s.readChunks[n]
    IN /\ s.fe[c.f].isRead /\ <<c.f, c.slot>> \notin X
       /\ s.fe[c.f].slots[c.slot].state = "PENDING"
       /\ s.fe[c.f].slots[c.slot].nounce = c.page

\* A write chunk points at a pending slot, and authenticates its own page.
WritesPoint(s, X) ==
  \A n \in DOMAIN s.writeChunks :
    LET c == s.writeChunks[n]
    IN /\ ~s.fe[c.f].isRead /\ <<c.f, c.slot>> \notin X
       /\ s.fe[c.f].slots[c.slot].state = "PENDING"
       /\ c.enc.page = c.page

\* A pending slot is in the queue of its frontend's mode.
PendingWaits(s, X) ==
  \A f \in Frontends, k \in Ring :
    s.fe[f].slots[k].state = "PENDING" /\ <<f, k>> \notin X =>
      IF s.fe[f].isRead THEN ChunksOf(s.readChunks, f, k) # {}
      ELSE ChunksOf(s.writeChunks, f, k) # {}

\* Slot k of f serves a read that is not done: what the slot holds, or the page it
\* waits for, is what the read must yield.
Coming(s, T, f, k) ==
  LET e == s.fe[f].slots[k]
  IN /\ e.outAddr \in Dests /\ e.nounce \in Pages
     /\ T[f][e.outAddr].job > s.fe[f].doneCounter
     /\ (IF e.state = "DONE" THEN e.enc ELSE s.data[f][e.nounce])
          = [val |-> T[f][e.outAddr].val, page |-> e.nounce]

\* The slots of f in use serve different buffers.
Separate(s, f) ==
  \A k, l \in Ring :
    /\ s.fe[f].slots[k].state # "EMPTY" /\ s.fe[f].slots[l].state # "EMPTY"
    /\ s.fe[f].slots[k].outAddr = s.fe[f].slots[l].outAddr
    => k = l

\* So it is with every slot in use of a frontend that reads.
ReadsComing(s, T) ==
  \A f \in Frontends : s.fe[f].isRead =>
    /\ s.fe[f].doneCounter <= s.fe[f].jobCounter
    /\ \A k \in Ring : s.fe[f].slots[k].state # "EMPTY" => Coming(s, T, f, k)
    /\ Separate(s, f)

\* A buffer holds what it was last asked to, or a slot in use will fill it.
Delivered(s, T) ==
  \A f \in Frontends, d \in Dests :
    \/ s.dest[f][d] = T[f][d].val
    \/ s.fe[f].isRead /\ \E k \in Ring : /\ s.fe[f].slots[k].state # "EMPTY"
                                         /\ s.fe[f].slots[k].outAddr = d

\* What page i of f will be once the queued writes are performed.
Upcoming(s, f, i) ==
  IF ChunksFor(s.writeChunks, f, i) = {} THEN s.data[f][i]
  ELSE s.writeChunks[Max(ChunksFor(s.writeChunks, f, i))].enc

\* The pages are those of program order, but for the page of the slot X.
Kept(s, C, X) ==
  \A f \in Frontends : \A i \in s.fe[f].modified :
    \/ Upcoming(s, f, i) = [val |-> C[f][i], page |-> i]
    \/ \E k \in Ring : <<f, k>> \in X /\ ~s.fe[f].isRead /\ s.fe[f].slots[k].enc.page = i

\* A page that was never written reads as the default.
Untouched(s, C) ==
  \A f \in Frontends : \A i \in Pages \ s.fe[f].modified : C[f][i] = defaultVal

\* A queue is within its capacity.
Fits(q) == tmpOffset(q) <= tmpSize /\ Len(q) <= maxChunkNum

Good(s, C, T, X) ==
  /\ s \in System /\ C \in Contents /\ T \in Tickets
  /\ \A f \in Frontends, k \in Ring : <<f, k>> \in X => s.fe[f].slots[k].state = "PENDING"
  /\ Fits(s.readChunks) /\ Fits(s.writeChunks) /\ ~s.aborted
  /\ OneEach(s.readChunks) /\ OneEach(s.writeChunks)
  /\ ReadsPoint(s, X) /\ WritesPoint(s, X) /\ PendingWaits(s, X)
  /\ ReadsComing(s, T) /\ Delivered(s, T) /\ Kept(s, C, X) /\ Untouched(s, C)

Inv == Good(sys, content, ticket, {})

--------------------------------------------------------------------------------
(* Sets of positions in a queue *)

\* What was never written stays so while no page is.
LEMMA UntouchedStays ==
  ASSUME NEW s, NEW t, NEW C, Untouched(s, C),
         \A g \in Frontends : t.fe[g].modified = s.fe[g].modified
  PROVE  Untouched(t, C)
  BY Zenon DEF Untouched

\* A set of positions that is not empty has a last one.
LEMMA LastOf ==
  ASSUME NEW n \in Nat, NEW S \in SUBSET (0 .. n), S # {}
  PROVE  Max(S) \in S /\ \A x \in S : x <= Max(S)
<1> DEFINE After(x) == (x + 1) .. n
           R == {After(x) : x \in S}
<1>1. R # {} /\ R \subseteq SUBSET (0 .. n)
  <2>1. \A x \in S : After(x) \in SUBSET (0 .. n)
    OBVIOUS
  <2>2. PICK x \in S : TRUE
    BY ZenonT(30)
  <2> HIDE DEF After
  <2> QED BY <2>1, <2>2
<1>2. IsFiniteSet(0 .. n)
  BY FS_Interval
<1>3. PICK r \in R : \A y \in R : <<y, r>> \notin StrictSubsetOrdering(0 .. n)
  <2>1. IsWellFoundedOn(StrictSubsetOrdering(0 .. n), SUBSET (0 .. n))
    BY <1>2, FS_StrictSubsetOrderingWellFounded, FS_FiniteSubsetsOfFinite, Zenon
  <2> HIDE DEF R
  <2> QED BY <1>1, <2>1, WFMin, Zenon
<1>4. PICK m \in S : r = After(m)
  BY <1>3
<1>6. \A x \in S : m >= x
  <2> SUFFICES ASSUME NEW x \in S, x > m PROVE FALSE
    OBVIOUS
  <2>1. After(x) \in R
    BY Zenon
  <2>2. After(x) \subseteq r /\ x \in r /\ x \notin After(x)
    BY <1>4
  <2>3. <<After(x), r>> \in StrictSubsetOrdering(0 .. n)
    BY <2>1, <2>2, <1>1, Zenon DEF StrictSubsetOrdering
  <2> QED BY <1>3, <2>1, <2>3, Zenon
<1>7. \E z \in S : \A y \in S : z >= y
  BY <1>6, Zenon
<1>8. Max(S) \in S /\ \A y \in S : Max(S) >= y
  BY <1>7, Zenon DEF Max
<1> QED BY <1>8

\* Where a slot has one chunk, that chunk is the last of the slot's.
LEMMA LastOfOne ==
  ASSUME NEW q, NEW n \in DOMAIN q, OneEach(q)
  PROVE  ChunksOf(q, q[n].f, q[n].slot) = {n} /\ Max(ChunksOf(q, q[n].f, q[n].slot)) = n
<1>1. ChunksOf(q, q[n].f, q[n].slot) = {n}
  BY DEF ChunksOf, OneEach
<1>2. Max({n}) = n
  BY DEF Max
<1> QED BY <1>1, <1>2

\* Positions in a queue of any kind of chunk.
LEMMA ChunksType ==
  ASSUME NEW A, NEW q \in Seq(A), NEW f, NEW k
  PROVE  /\ ChunksOf(q, f, k) \in SUBSET (0 .. Len(q))
         /\ ChunksFor(q, f, k) \in SUBSET (0 .. Len(q))
         /\ Len(q) \in Nat
  BY DEF ChunksOf, ChunksFor

\* The chunks of a system.
LEMMA ChunkTypes ==
  ASSUME NEW s \in System
  PROVE  /\ s.readChunks \in Seq(ReadChunk) /\ s.writeChunks \in Seq(WriteChunk)
         /\ \A n \in DOMAIN s.readChunks : s.readChunks[n] \in ReadChunk
         /\ \A n \in DOMAIN s.writeChunks : s.writeChunks[n] \in WriteChunk
<1>1. s.readChunks \in Seq(ReadChunk) /\ s.writeChunks \in Seq(WriteChunk)
  BY ZenonT(60) DEF System
<1> QED BY <1>1

--------------------------------------------------------------------------------
(* The backend's flushes *)

\* From s to t the frontends keep their modes, counters and bookkeeping, and the slots
\* what they are for.
SameJobs(s, t) ==
  \A f \in Frontends :
    /\ t.fe[f].isRead = s.fe[f].isRead /\ t.fe[f].bufferIdx = s.fe[f].bufferIdx
    /\ t.fe[f].doneCounter = s.fe[f].doneCounter /\ t.fe[f].jobCounter = s.fe[f].jobCounter
    /\ t.fe[f].modified = s.fe[f].modified
    /\ \A k \in Ring : /\ t.fe[f].slots[k].outAddr = s.fe[f].slots[k].outAddr
                       /\ t.fe[f].slots[k].nounce = s.fe[f].slots[k].nounce

\* What the backend's FlushRead does to a system.
LEMMA FlushReadShape ==
  ASSUME NEW s \in System, NEW t, t = BackendFlushRead(s)
  PROVE  /\ t \in System /\ SameJobs(s, t)
         /\ t.data = s.data /\ t.writeChunks = s.writeChunks /\ t.readChunks = <<>>
         /\ t.dest = s.dest /\ t.aborted = s.aborted
         /\ \A f \in Frontends, k \in Ring :
              LET n == Max(ChunksOf(s.readChunks, f, k))
              IN IF ChunksOf(s.readChunks, f, k) = {}
                 THEN t.fe[f].slots[k] = s.fe[f].slots[k]
                 ELSE /\ n \in ChunksOf(s.readChunks, f, k)
                      /\ t.fe[f].slots[k].state = "DONE"
                      /\ t.fe[f].slots[k].enc = s.data[f][s.readChunks[n].page]
<1> DEFINE q == s.readChunks
           Served(f, k) ==
             IF ChunksOf(q, f, k) = {} THEN s.fe[f].slots[k]
             ELSE [s.fe[f].slots[k] EXCEPT !.state = "DONE",
                                           !.enc = s.data[f][q[Max(ChunksOf(q, f, k))].page]]
           fe == [f \in Frontends |-> [s.fe[f] EXCEPT !.slots = [k \in Ring |-> Served(f, k)]]]
<1>1. q \in Seq(ReadChunk) /\ s.fe \in [Frontends -> Frontend]
      /\ s.data \in [Frontends -> [Pages -> AnyCipher]]
  BY Zenon DEF System
<1>2. t = [s EXCEPT !.fe = fe, !.readChunks = <<>>]
  BY DEF BackendFlushRead
<1>3. ASSUME NEW f \in Frontends, NEW k \in Ring
      PROVE  /\ Served(f, k) \in Slot
             /\ Served(f, k).outAddr = s.fe[f].slots[k].outAddr
             /\ Served(f, k).nounce = s.fe[f].slots[k].nounce
             /\ ChunksOf(q, f, k) # {} =>
                  /\ Max(ChunksOf(q, f, k)) \in ChunksOf(q, f, k)
                  /\ Served(f, k).state = "DONE"
                  /\ Served(f, k).enc = s.data[f][q[Max(ChunksOf(q, f, k))].page]
  <2>1. s.fe[f].slots[k] \in Slot
    BY <1>1 DEF Frontend
  <2>2. CASE ChunksOf(q, f, k) = {}
    BY <2>1, <2>2
  <2>3. CASE ChunksOf(q, f, k) # {}
    <3> DEFINE n == Max(ChunksOf(q, f, k))
    <3>1. n \in ChunksOf(q, f, k)
      BY <1>1, <2>3, ChunksType, LastOf, Zenon
    <3>2. n \in DOMAIN q
      BY <3>1 DEF ChunksOf
    <3>3. q[n] \in ReadChunk
      BY <1>1, <3>2
    <3>4. s.data[f][q[n].page] \in AnyCipher
      BY <1>1, <3>3 DEF ReadChunk
    <3> HIDE DEF n
    <3>5. Served(f, k) = [s.fe[f].slots[k] EXCEPT !.state = "DONE", !.enc = s.data[f][q[n].page]]
      BY <2>3 DEF n
    <3> QED BY <2>1, <2>3, <3>1, <3>4, <3>5, Zenon DEF Slot, n
  <2> QED BY <2>2, <2>3, Zenon
<1> HIDE DEF Served
<1>4. fe \in [Frontends -> Frontend]
  <2> SUFFICES ASSUME NEW f \in Frontends
               PROVE  [s.fe[f] EXCEPT !.slots = [k \in Ring |-> Served(f, k)]] \in Frontend
    BY Zenon
  <2>1. [k \in Ring |-> Served(f, k)] \in [Ring -> Slot]
    BY <1>3
  <2>2. s.fe[f] \in Frontend
    BY <1>1
  <2> QED BY <2>1, <2>2 DEF Frontend
<1>5. \A f \in Frontends :
        /\ fe[f].isRead = s.fe[f].isRead /\ fe[f].bufferIdx = s.fe[f].bufferIdx
        /\ fe[f].doneCounter = s.fe[f].doneCounter /\ fe[f].jobCounter = s.fe[f].jobCounter
        /\ fe[f].modified = s.fe[f].modified
        /\ \A k \in Ring : fe[f].slots[k] = Served(f, k)
  <2> TAKE f \in Frontends
  <2>1. s.fe[f] \in Frontend
    BY <1>1
  <2>2. fe[f] = [s.fe[f] EXCEPT !.slots = [k \in Ring |-> Served(f, k)]]
    OBVIOUS
  <2> QED BY <2>1, <2>2 DEF Frontend
<1> HIDE DEF fe
<1>6. /\ t.fe = fe /\ t.data = s.data /\ t.writeChunks = s.writeChunks /\ t.readChunks = <<>>
      /\ t.dest = s.dest /\ t.aborted = s.aborted
  BY <1>2 DEF System
<1>7. t \in System
  <2>1. <<>> \in Seq(ReadChunk)
    BY SMTT(30)
  <2> QED BY <1>2, <1>4, <2>1, Zenon DEF System
<1>8. SameJobs(s, t)
  BY <1>3, <1>5, <1>6 DEF SameJobs
<1>9. ASSUME NEW f \in Frontends, NEW k \in Ring
      PROVE  t.fe[f].slots[k] = Served(f, k)
  BY <1>5, <1>6
<1>10. ASSUME NEW f \in Frontends, NEW k \in Ring, ChunksOf(q, f, k) = {}
       PROVE  Served(f, k) = s.fe[f].slots[k]
  BY <1>10 DEF Served
<1> QED BY <1>3, <1>6, <1>7, <1>8, <1>9, <1>10

\* An empty queue is within its capacity.
LEMMA EmptyFits == Fits(<<>>) /\ OneEach(<<>>)
<1>1. sizeOfT \in Nat /\ tmpSize \in Nat /\ maxChunkNum \in Nat
  BY BatchAssumption
<1>2. Len(<<>>) = 0 /\ sizeOfT * 0 = 0 /\ DOMAIN <<>> = {}
  BY <1>1
<1> QED BY <1>1, <1>2 DEF Fits, OneEach, tmpOffset

\* FlushRead gives every queued slot what its read must yield.
LEMMA FlushReadGood ==
  ASSUME NEW s, NEW C, NEW T, NEW X, Good(s, C, T, X), NEW t, t = BackendFlushRead(s)
  PROVE  /\ Good(t, C, T, X) /\ SameJobs(s, t)
         /\ t.readChunks = <<>> /\ t.writeChunks = s.writeChunks
         /\ t.data = s.data /\ t.dest = s.dest
         /\ \A f \in Frontends, k \in Ring :
              /\ s.fe[f].isRead /\ <<f, k>> \notin X => t.fe[f].slots[k].state # "PENDING"
              /\ <<f, k>> \in X \/ ~s.fe[f].isRead => t.fe[f].slots[k] = s.fe[f].slots[k]
<1>1. s \in System
  BY Zenon DEF Good
<1>2. /\ t \in System /\ SameJobs(s, t)
      /\ t.data = s.data /\ t.writeChunks = s.writeChunks /\ t.readChunks = <<>>
      /\ t.dest = s.dest /\ t.aborted = s.aborted
  BY <1>1, FlushReadShape, Zenon
<1>3. ASSUME NEW f \in Frontends, NEW k \in Ring, ChunksOf(s.readChunks, f, k) = {}
      PROVE  t.fe[f].slots[k] = s.fe[f].slots[k]
  BY <1>1, <1>3, FlushReadShape
<1>4. ASSUME NEW f \in Frontends, NEW k \in Ring, ChunksOf(s.readChunks, f, k) # {}
      PROVE  /\ s.fe[f].isRead /\ <<f, k>> \notin X /\ s.fe[f].slots[k].state = "PENDING"
             /\ t.fe[f].slots[k].state = "DONE"
             /\ t.fe[f].slots[k].enc = s.data[f][s.fe[f].slots[k].nounce]
  <2> DEFINE n == Max(ChunksOf(s.readChunks, f, k))
  <2>1. /\ n \in ChunksOf(s.readChunks, f, k)
        /\ t.fe[f].slots[k].state = "DONE"
        /\ t.fe[f].slots[k].enc = s.data[f][s.readChunks[n].page]
    BY <1>1, <1>4, FlushReadShape, ZenonT(30)
  <2> HIDE DEF n
  <2>2. n \in DOMAIN s.readChunks /\ s.readChunks[n].f = f /\ s.readChunks[n].slot = k
    BY <2>1, Zenon DEF ChunksOf
  <2> QED BY <2>1, <2>2, Zenon DEF Good, ReadsPoint
<1>5. \A f \in Frontends, k \in Ring :
        /\ t.fe[f].slots[k].state = "EMPTY" <=> s.fe[f].slots[k].state = "EMPTY"
        /\ <<f, k>> \in X \/ ~s.fe[f].isRead => t.fe[f].slots[k] = s.fe[f].slots[k]
  BY <1>3, <1>4, ZenonT(60)
<1>6. \A f \in Frontends, k \in Ring : <<f, k>> \in X => t.fe[f].slots[k].state = "PENDING"
  BY <1>5 DEF Good
<1>7. WritesPoint(t, X)
  <2> SUFFICES ASSUME NEW n \in DOMAIN s.writeChunks, NEW c \in WriteChunk,
                      c = s.writeChunks[n]
               PROVE  /\ ~t.fe[c.f].isRead /\ <<c.f, c.slot>> \notin X
                      /\ t.fe[c.f].slots[c.slot].state = "PENDING"
                      /\ c.enc.page = c.page
    BY <1>1, <1>2, ChunkTypes, Zenon DEF WritesPoint
  <2>1. c.f \in Frontends /\ c.slot \in Ring
    BY Zenon DEF WriteChunk
  <2>2. /\ ~s.fe[c.f].isRead /\ <<c.f, c.slot>> \notin X
        /\ s.fe[c.f].slots[c.slot].state = "PENDING"
        /\ c.enc.page = c.page
    BY Zenon DEF Good, WritesPoint
  <2> QED BY <1>2, <1>5, <2>1, <2>2, ZenonT(60) DEF SameJobs
<1>8. PendingWaits(t, X)
  <2> SUFFICES ASSUME NEW f \in Frontends, NEW k \in Ring,
                      t.fe[f].slots[k].state = "PENDING", <<f, k>> \notin X
               PROVE  ~t.fe[f].isRead /\ ChunksOf(t.writeChunks, f, k) # {}
    BY Zenon DEF PendingWaits
  <2>1. ChunksOf(s.readChunks, f, k) = {} /\ t.fe[f].slots[k] = s.fe[f].slots[k]
    BY <1>3, <1>4, Zenon
  <2>2. s.fe[f].slots[k].state = "PENDING"
    BY <2>1, Zenon
  <2>3. ~s.fe[f].isRead /\ ChunksOf(s.writeChunks, f, k) # {}
    BY <2>1, <2>2, Zenon DEF Good, PendingWaits
  <2> QED BY <1>2, <2>3, Zenon DEF SameJobs
<1>9. ReadsComing(t, T)
  <2> SUFFICES ASSUME NEW f \in Frontends, t.fe[f].isRead
               PROVE  /\ t.fe[f].doneCounter <= t.fe[f].jobCounter
                      /\ \A k \in Ring : t.fe[f].slots[k].state # "EMPTY" => Coming(t, T, f, k)
                      /\ Separate(t, f)
    BY Zenon DEF ReadsComing
  <2>1. s.fe[f].isRead
    BY <1>2, Zenon DEF SameJobs
  <2>2. /\ s.fe[f].doneCounter <= s.fe[f].jobCounter
        /\ \A k \in Ring : s.fe[f].slots[k].state # "EMPTY" => Coming(s, T, f, k)
        /\ Separate(s, f)
    BY <2>1, Zenon DEF Good, ReadsComing
  <2>3. ASSUME NEW k \in Ring, t.fe[f].slots[k].state # "EMPTY"
        PROVE  Coming(t, T, f, k)
    <3>1. Coming(s, T, f, k)
      BY <1>5, <2>2, <2>3, Zenon
    <3>2. CASE ChunksOf(s.readChunks, f, k) = {}
      <4>1. t.fe[f].slots[k] = s.fe[f].slots[k]
        BY <1>3, <3>2
      <4> QED BY <1>2, <3>1, <4>1, ZenonT(60) DEF Coming, SameJobs
    <3>3. CASE ChunksOf(s.readChunks, f, k) # {}
      BY <1>2, <1>4, <3>1, <3>3, ZenonT(60) DEF Coming, SameJobs
    <3> QED BY <3>2, <3>3
  <2>4. Separate(t, f)
    <3>1. \A k \in Ring : /\ t.fe[f].slots[k].state = "EMPTY" <=> s.fe[f].slots[k].state = "EMPTY"
                          /\ t.fe[f].slots[k].outAddr = s.fe[f].slots[k].outAddr
      BY <1>2, <1>5, Zenon DEF SameJobs
    <3>2. Separate(s, f)
      BY <2>2, Zenon
    <3> QED BY ONLY <3>1, <3>2 DEF Separate
  <2> QED BY <1>2, <2>2, <2>3, <2>4, Zenon DEF SameJobs
<1>10. Delivered(t, T)
  <2> SUFFICES ASSUME NEW f \in Frontends, NEW d \in Dests, s.dest[f][d] # T[f][d].val
               PROVE  t.fe[f].isRead /\ \E k \in Ring : /\ t.fe[f].slots[k].state # "EMPTY"
                                                        /\ t.fe[f].slots[k].outAddr = d
    BY <1>2, SMTT(30) DEF Delivered
  <2>1. s.fe[f].isRead /\ \E k \in Ring : /\ s.fe[f].slots[k].state # "EMPTY"
                                          /\ s.fe[f].slots[k].outAddr = d
    BY Zenon DEF Good, Delivered
  <2> QED BY <1>2, <1>5, <2>1, ZenonT(60) DEF SameJobs
<1>11. Kept(t, C, X)
  <2>1. \A f \in Frontends, i \in Pages : Upcoming(t, f, i) = Upcoming(s, f, i)
    BY <1>2, Zenon DEF Upcoming
  <2> SUFFICES ASSUME NEW f \in Frontends, NEW i \in s.fe[f].modified
               PROVE  \/ Upcoming(s, f, i) = [val |-> C[f][i], page |-> i]
                      \/ \E k \in Ring : /\ <<f, k>> \in X /\ ~t.fe[f].isRead
                                         /\ t.fe[f].slots[k].enc.page = i
    <3>1. \A f \in Frontends : /\ t.fe[f].modified = s.fe[f].modified
                               /\ t.fe[f].modified \subseteq Pages
      BY <1>1, <1>2, Zenon DEF System, Frontend, SameJobs
    <3> QED BY <2>1, <3>1, SMTT(30) DEF Kept
  <2>2. \/ Upcoming(s, f, i) = [val |-> C[f][i], page |-> i]
        \/ \E k \in Ring : /\ <<f, k>> \in X /\ ~s.fe[f].isRead
                           /\ s.fe[f].slots[k].enc.page = i
    BY ZenonT(60) DEF Good, Kept
  <2> QED BY <1>2, <1>5, <2>2, ZenonT(30) DEF SameJobs
<1>12. ReadsPoint(t, X)
  BY <1>2, SMTT(30) DEF ReadsPoint
<1>u. Untouched(t, C)
  BY <1>2, UntouchedStays DEF Good, SameJobs
<1>13. Good(t, C, T, X)
  BY <1>2, <1>6, <1>7, <1>8, <1>9, <1>10, <1>11, <1>12, <1>u, EmptyFits, ZenonT(60) DEF Good
<1>14. ASSUME NEW f \in Frontends, NEW k \in Ring, s.fe[f].isRead, <<f, k>> \notin X
       PROVE  t.fe[f].slots[k].state # "PENDING"
  BY <1>2, <1>8, <1>14, SMTT(60) DEF PendingWaits, SameJobs, ChunksOf
<1> QED BY <1>2, <1>5, <1>13, <1>14, ZenonT(60)

\* What the backend's FlushWrite does to a system.
LEMMA FlushWriteShape ==
  ASSUME NEW s \in System, NEW t, t = BackendFlushWrite(s)
  PROVE  /\ t \in System /\ SameJobs(s, t)
         /\ t.readChunks = s.readChunks /\ t.writeChunks = <<>>
         /\ t.dest = s.dest /\ t.aborted = s.aborted
         /\ \A f \in Frontends, i \in Pages : t.data[f][i] = Upcoming(s, f, i)
         /\ \A f \in Frontends, k \in Ring :
              IF ChunksOf(s.writeChunks, f, k) = {}
              THEN t.fe[f].slots[k] = s.fe[f].slots[k]
              ELSE /\ t.fe[f].slots[k].state = "DONE"
                   /\ t.fe[f].slots[k].enc = s.fe[f].slots[k].enc
<1> DEFINE q == s.writeChunks
           fe == [f \in Frontends |-> [s.fe[f] EXCEPT !.slots = Written(s, f)]]
           data == [f \in Frontends |-> [i \in Pages |-> Upcoming(s, f, i)]]
<1>1. q \in Seq(WriteChunk) /\ s.fe \in [Frontends -> Frontend]
      /\ s.data \in [Frontends -> [Pages -> AnyCipher]]
  BY DEF System
<1>2. t = [s EXCEPT !.fe = fe, !.data = data, !.writeChunks = <<>>]
  BY DEF BackendFlushWrite, Upcoming
<1>3. ASSUME NEW f \in Frontends, NEW i \in Pages
      PROVE  Upcoming(s, f, i) \in AnyCipher
  <2>1. CASE ChunksFor(q, f, i) = {}
    BY <1>1, <2>1, Zenon DEF Upcoming
  <2>2. CASE ChunksFor(q, f, i) # {}
    <3> DEFINE n == Max(ChunksFor(q, f, i))
    <3>1. n \in ChunksFor(q, f, i)
      BY <1>1, <2>2, ChunksType, LastOf, Zenon
    <3>2. n \in DOMAIN q
      BY <3>1, Zenon DEF ChunksFor
    <3> HIDE DEF n
    <3>3. q[n] \in WriteChunk
      BY <1>1, <3>2
    <3>4. q[n].enc \in Cipher
      BY <3>3, ZenonT(60) DEF WriteChunk
    <3> QED BY <2>2, <3>4, Zenon DEF Upcoming, AnyCipher, n
  <2> QED BY <2>1, <2>2, Zenon
<1>4. ASSUME NEW f \in Frontends, NEW k \in Ring
      PROVE  /\ Written(s, f)[k] \in Slot
             /\ Written(s, f)[k].outAddr = s.fe[f].slots[k].outAddr
             /\ Written(s, f)[k].nounce = s.fe[f].slots[k].nounce
             /\ IF ChunksOf(q, f, k) = {} THEN Written(s, f)[k] = s.fe[f].slots[k]
                ELSE /\ Written(s, f)[k].state = "DONE"
                     /\ Written(s, f)[k].enc = s.fe[f].slots[k].enc
  <2>1. s.fe[f].slots[k] \in Slot
    BY <1>1, Zenon DEF Frontend
  <2>2. CASE ChunksOf(q, f, k) = {}
    BY <2>1, <2>2, Zenon DEF Written
  <2>3. CASE ChunksOf(q, f, k) # {}
    <3>1. Written(s, f)[k] = [s.fe[f].slots[k] EXCEPT !.state = "DONE"]
      BY <2>3, Zenon DEF Written
    <3> QED BY <2>1, <2>3, <3>1 DEF Slot
  <2> QED BY <2>2, <2>3
<1>5. \A f \in Frontends : Written(s, f) \in [Ring -> Slot]
  <2> TAKE f \in Frontends
  <2>1. Written(s, f) = [k \in Ring |-> Written(s, f)[k]]
    BY Zenon DEF Written
  <2> QED BY <1>4, <2>1
<1>6. ASSUME NEW f \in Frontends
      PROVE  /\ fe[f] \in Frontend
             /\ fe[f].isRead = s.fe[f].isRead /\ fe[f].bufferIdx = s.fe[f].bufferIdx
             /\ fe[f].doneCounter = s.fe[f].doneCounter /\ fe[f].jobCounter = s.fe[f].jobCounter
             /\ fe[f].modified = s.fe[f].modified
             /\ fe[f].slots = Written(s, f)
  <2>1. s.fe[f] \in Frontend
    BY <1>1
  <2>2. fe[f] = [s.fe[f] EXCEPT !.slots = Written(s, f)]
    BY Zenon
  <2> QED BY <1>5, <2>1, <2>2 DEF Frontend
<1>7. fe \in [Frontends -> Frontend]
  BY <1>6, Zenon
<1>8. /\ data \in [Frontends -> [Pages -> AnyCipher]]
      /\ \A f \in Frontends, i \in Pages : data[f][i] = Upcoming(s, f, i)
  BY <1>3, Zenon
<1> HIDE DEF fe, data
<1>9. /\ t.fe = fe /\ t.data = data /\ t.readChunks = s.readChunks /\ t.writeChunks = <<>>
      /\ t.dest = s.dest /\ t.aborted = s.aborted
  BY <1>2, Zenon DEF System
<1>10. t \in System
  <2>1. <<>> \in Seq(WriteChunk)
    OBVIOUS
  <2> QED BY <1>2, <1>7, <1>8, <2>1, ZenonT(60) DEF System
<1>11. SameJobs(s, t)
  BY <1>4, <1>6, <1>9 DEF SameJobs
<1>12. ASSUME NEW f \in Frontends, NEW k \in Ring
       PROVE  t.fe[f].slots[k] = Written(s, f)[k]
  BY <1>6, <1>9, ZenonT(30)
<1> QED BY <1>4, <1>8, <1>9, <1>10, <1>11, <1>12

\* FlushWrite completes the queued writes and leaves a reading frontend alone.
LEMMA FlushWriteGood ==
  ASSUME NEW s, NEW C, NEW T, NEW X, Good(s, C, T, X), NEW t, t = BackendFlushWrite(s)
  PROVE  /\ Good(t, C, T, X) /\ SameJobs(s, t)
         /\ t.readChunks = s.readChunks /\ t.writeChunks = <<>> /\ t.dest = s.dest
         /\ \A f \in Frontends, k \in Ring :
              /\ ~s.fe[f].isRead /\ <<f, k>> \notin X => t.fe[f].slots[k].state # "PENDING"
              /\ <<f, k>> \in X \/ s.fe[f].isRead => t.fe[f].slots[k] = s.fe[f].slots[k]
<1>1. s \in System
  BY DEF Good
<1>2. /\ t \in System /\ SameJobs(s, t)
      /\ t.readChunks = s.readChunks /\ t.writeChunks = <<>>
      /\ t.dest = s.dest /\ t.aborted = s.aborted
      /\ \A f \in Frontends, i \in Pages : t.data[f][i] = Upcoming(s, f, i)
  BY <1>1, FlushWriteShape, SMTT(60)
<1>3. ASSUME NEW f \in Frontends, NEW k \in Ring, ChunksOf(s.writeChunks, f, k) = {}
      PROVE  t.fe[f].slots[k] = s.fe[f].slots[k]
  BY <1>1, <1>3, FlushWriteShape
<1>4. ASSUME NEW f \in Frontends, NEW k \in Ring, ChunksOf(s.writeChunks, f, k) # {}
      PROVE  /\ ~s.fe[f].isRead /\ <<f, k>> \notin X
             /\ t.fe[f].slots[k].state = "DONE"
  <2>1. t.fe[f].slots[k].state = "DONE"
    BY <1>1, <1>4, FlushWriteShape, Zenon
  <2>2. PICK n \in DOMAIN s.writeChunks : s.writeChunks[n].f = f /\ s.writeChunks[n].slot = k
    BY <1>4, Zenon DEF ChunksOf
  <2> QED BY <2>1, <2>2, Zenon DEF Good, WritesPoint
<1>5. \A f \in Frontends, k \in Ring :
        <<f, k>> \in X \/ s.fe[f].isRead => t.fe[f].slots[k] = s.fe[f].slots[k]
  BY <1>3, <1>4, Zenon
<1>6. ASSUME NEW f \in Frontends, NEW i \in Pages, s.fe[f].isRead
      PROVE  t.data[f][i] = s.data[f][i]
  <2>1. ChunksFor(s.writeChunks, f, i) = {}
    BY <1>6, Zenon DEF ChunksFor, Good, WritesPoint
  <2> QED BY <1>2, <2>1 DEF Upcoming
<1>7. ReadsPoint(t, X)
  <2> SUFFICES ASSUME NEW n \in DOMAIN s.readChunks, NEW c \in ReadChunk, c = s.readChunks[n]
               PROVE  /\ t.fe[c.f].isRead /\ <<c.f, c.slot>> \notin X
                      /\ t.fe[c.f].slots[c.slot].state = "PENDING"
                      /\ t.fe[c.f].slots[c.slot].nounce = c.page
    BY <1>1, <1>2, ChunkTypes, Zenon DEF ReadsPoint
  <2>1. c.f \in Frontends /\ c.slot \in Ring
    BY Zenon DEF ReadChunk
  <2>2. /\ s.fe[c.f].isRead /\ <<c.f, c.slot>> \notin X
        /\ s.fe[c.f].slots[c.slot].state = "PENDING"
        /\ s.fe[c.f].slots[c.slot].nounce = c.page
    BY Zenon DEF Good, ReadsPoint
  <2> QED BY <1>2, <1>5, <2>1, <2>2, ZenonT(60) DEF SameJobs
<1>8. PendingWaits(t, X)
  <2> SUFFICES ASSUME NEW f \in Frontends, NEW k \in Ring,
                      t.fe[f].slots[k].state = "PENDING", <<f, k>> \notin X
               PROVE  t.fe[f].isRead /\ ChunksOf(t.readChunks, f, k) # {}
    BY Zenon DEF PendingWaits
  <2>1. ChunksOf(s.writeChunks, f, k) = {} /\ t.fe[f].slots[k] = s.fe[f].slots[k]
    BY <1>3, <1>4, Zenon
  <2>2. s.fe[f].slots[k].state = "PENDING"
    BY <2>1, Zenon
  <2>3. s.fe[f].isRead /\ ChunksOf(s.readChunks, f, k) # {}
    BY <2>1, <2>2, Zenon DEF Good, PendingWaits
  <2> QED BY <1>2, <2>3, Zenon DEF SameJobs
<1>9. ReadsComing(t, T)
  <2> SUFFICES ASSUME NEW f \in Frontends, t.fe[f].isRead
               PROVE  /\ t.fe[f].doneCounter <= t.fe[f].jobCounter
                      /\ \A k \in Ring : t.fe[f].slots[k].state # "EMPTY" => Coming(t, T, f, k)
                      /\ Separate(t, f)
    BY DEF ReadsComing
  <2>1. s.fe[f].isRead
    BY <1>2, Zenon DEF SameJobs
  <2>2. /\ s.fe[f].doneCounter <= s.fe[f].jobCounter
        /\ \A k \in Ring : s.fe[f].slots[k].state # "EMPTY" => Coming(s, T, f, k)
        /\ Separate(s, f)
    BY <2>1, SMTT(30) DEF Good, ReadsComing
  <2>3. \A k \in Ring : t.fe[f].slots[k] = s.fe[f].slots[k]
    BY <1>5, <2>1, Zenon
  <2>4. ASSUME NEW k \in Ring, t.fe[f].slots[k].state # "EMPTY"
        PROVE  Coming(t, T, f, k)
    <3>1. Coming(s, T, f, k)
      BY <2>2, <2>3, <2>4, Zenon
    <3>2. t.fe[f].doneCounter = s.fe[f].doneCounter
      BY <1>2, Zenon DEF SameJobs
    <3>3. \A i \in Pages : t.data[f][i] = s.data[f][i]
      BY <1>6, <2>1, ZenonT(60)
    <3> QED BY ONLY <2>3, <3>1, <3>2, <3>3, k \in Ring, Zenon DEF Coming
  <2>5. Separate(t, f)
    BY ONLY <2>2, <2>3, SMTT(30) DEF Separate
  <2> QED BY <1>2, <2>2, <2>4, <2>5, Zenon DEF SameJobs
<1>10. Delivered(t, T)
  <2> SUFFICES ASSUME NEW f \in Frontends, NEW d \in Dests, s.dest[f][d] # T[f][d].val
               PROVE  t.fe[f].isRead /\ \E k \in Ring : /\ t.fe[f].slots[k].state # "EMPTY"
                                                        /\ t.fe[f].slots[k].outAddr = d
    BY <1>2, SMTT(30) DEF Delivered
  <2>1. s.fe[f].isRead /\ \E k \in Ring : /\ s.fe[f].slots[k].state # "EMPTY"
                                          /\ s.fe[f].slots[k].outAddr = d
    BY DEF Good, Delivered
  <2>2. t.fe[f].isRead /\ \A k \in Ring : t.fe[f].slots[k] = s.fe[f].slots[k]
    BY <1>2, <1>5, <2>1, Zenon DEF SameJobs
  <2> QED BY <2>1, <2>2, Zenon
<1>11. Kept(t, C, X)
  <2>1. \A f \in Frontends, i \in Pages : Upcoming(t, f, i) = Upcoming(s, f, i)
    <3> TAKE f \in Frontends, i \in Pages
    <3>1. ChunksFor(t.writeChunks, f, i) = {}
      BY <1>2, SMTT(30) DEF ChunksFor
    <3> QED BY <1>2, <3>1 DEF Upcoming
  <2> SUFFICES ASSUME NEW f \in Frontends, NEW i \in s.fe[f].modified
               PROVE  \/ Upcoming(s, f, i) = [val |-> C[f][i], page |-> i]
                      \/ \E k \in Ring : /\ <<f, k>> \in X /\ ~t.fe[f].isRead
                                         /\ t.fe[f].slots[k].enc.page = i
    <3>1. \A f \in Frontends : /\ t.fe[f].modified = s.fe[f].modified
                               /\ t.fe[f].modified \subseteq Pages
      BY <1>1, <1>2, ZenonT(30) DEF System, Frontend, SameJobs
    <3> QED BY <2>1, <3>1 DEF Kept
  <2>2. \/ Upcoming(s, f, i) = [val |-> C[f][i], page |-> i]
        \/ \E k \in Ring : /\ <<f, k>> \in X /\ ~s.fe[f].isRead
                           /\ s.fe[f].slots[k].enc.page = i
    BY Zenon DEF Good, Kept
  <2> QED BY <1>2, <1>5, <2>2, ZenonT(30) DEF SameJobs
<1>12. WritesPoint(t, X)
  BY <1>2 DEF WritesPoint
<1>13. \A f \in Frontends, k \in Ring : <<f, k>> \in X => t.fe[f].slots[k].state = "PENDING"
  BY <1>5, ZenonT(60) DEF Good
<1>u. Untouched(t, C)
  BY <1>2, UntouchedStays, SMTT(30) DEF Good, SameJobs
<1>14. Good(t, C, T, X)
  BY <1>2, <1>7, <1>8, <1>9, <1>10, <1>11, <1>12, <1>13, <1>u, EmptyFits, ZenonT(60) DEF Good
<1>15. ASSUME NEW f \in Frontends, NEW k \in Ring, ~s.fe[f].isRead, <<f, k>> \notin X
       PROVE  t.fe[f].slots[k].state # "PENDING"
  BY <1>2, <1>8, <1>15 DEF PendingWaits, SameJobs, ChunksOf
<1> QED BY <1>2, <1>5, <1>14, <1>15, Zenon
--------------------------------------------------------------------------------
(* The frontend's flushes *)

\* From s to t only frontend f's slots, counters and buffers change.
OnlyOf(s, t, f) ==
  /\ t.data = s.data /\ t.readChunks = s.readChunks /\ t.writeChunks = s.writeChunks
  /\ t.fe[f].isRead = s.fe[f].isRead /\ t.fe[f].modified = s.fe[f].modified
  /\ t.fe[f].bufferIdx = s.fe[f].bufferIdx /\ t.fe[f].jobCounter = s.fe[f].jobCounter
  /\ \A g \in Frontends \ {f} : t.fe[g] = s.fe[g] /\ t.dest[g] = s.dest[g]

\* The slots of D that are decrypted into buffer d.
Filled(s, f, D, d) ==
  {k \in D : s.fe[f].slots[k].outAddr = d /\ Authentic(s.fe[f].slots[k])}

\* What decrypting the slots D of f does to a system.
LEMMA DecryptShape ==
  ASSUME NEW s \in System, NEW f \in Frontends, NEW D \in SUBSET Ring,
         NEW t, t = DecryptSlots(s, f, D)
  PROVE  /\ t \in System /\ OnlyOf(s, t, f)
         /\ t.fe[f].doneCounter = s.fe[f].doneCounter
         /\ \A k \in Ring : t.fe[f].slots[k] = IF k \in D THEN EmptySlot ELSE s.fe[f].slots[k]
         /\ \A d \in Dests :
              IF Filled(s, f, D, d) = {} THEN t.dest[f][d] = s.dest[f][d]
              ELSE \E k \in Filled(s, f, D, d) : t.dest[f][d] = s.fe[f].slots[k].enc.val
         /\ t.aborted => s.aborted \/ \E k \in D : ~Authentic(s.fe[f].slots[k])
<1> DEFINE e == s.fe[f].slots
           slots == [k \in Ring |-> IF k \in D THEN EmptySlot ELSE e[k]]
           buffers == [d \in Dests |-> IF Filled(s, f, D, d) = {} THEN s.dest[f][d]
                                       ELSE e[Max(Filled(s, f, D, d))].enc.val]
           bad == \E k \in D : ~Authentic(e[k])
<1>1. /\ s.fe \in [Frontends -> Frontend] /\ s.fe[f] \in Frontend /\ e \in [Ring -> Slot]
      /\ s.dest \in [Frontends -> [Dests -> Values]] /\ s.aborted \in BOOLEAN
  BY DEF System, Frontend
<1>2. t = [s EXCEPT !.fe[f].slots = slots, !.dest[f] = buffers, !.aborted = @ \/ bad]
  BY Zenon DEF DecryptSlots, Filled
<1>3. slots \in [Ring -> Slot]
  <2>1. EmptySlot \in Slot
    BY BatchAssumption, Zenon DEF EmptySlot, Slot, AnyCipher
  <2> QED BY <1>1, <2>1, Zenon
<1>4. ASSUME NEW d \in Dests, Filled(s, f, D, d) # {}
      PROVE  Max(Filled(s, f, D, d)) \in Filled(s, f, D, d)
  <2>0. bufferCapacity \in Nat /\ Ring \subseteq 0 .. bufferCapacity
    BY BatchAssumption DEF Ring
  <2>1. Filled(s, f, D, d) \subseteq Ring
    BY Zenon DEF Filled
  <2> QED BY <1>4, <2>0, <2>1, LastOf, Zenon
<1>5. \A k \in Ring : e[k].enc.val \in Values
  <2> TAKE k \in Ring
  <2> DEFINE c == e[k]
  <2>1. c \in Slot
    BY <1>1, Zenon
  <2> HIDE DEF c
  <2>2. c.enc \in AnyCipher
    BY <2>1, Zenon DEF Slot
  <2>3. c.enc.val \in Values
    BY <2>2, BatchAssumption, SMTT(30) DEF AnyCipher, Cipher, NoCipher
  <2> QED BY <2>3, Zenon DEF c
<1>6. buffers \in [Dests -> Values]
  <2> SUFFICES ASSUME NEW d \in Dests
               PROVE  (IF Filled(s, f, D, d) = {} THEN s.dest[f][d]
                       ELSE e[Max(Filled(s, f, D, d))].enc.val) \in Values
    BY Zenon
  <2>1. CASE Filled(s, f, D, d) = {}
    BY <1>1, <2>1, ZenonT(60)
  <2>2. CASE Filled(s, f, D, d) # {}
    <3>1. Max(Filled(s, f, D, d)) \in Ring
      BY <1>4, <2>2, ZenonT(30) DEF Filled
    <3> QED BY <1>5, <2>2, <3>1
  <2> QED BY <2>1, <2>2, Zenon
<1>7. \A d \in Dests : IF Filled(s, f, D, d) = {} THEN buffers[d] = s.dest[f][d]
                       ELSE \E k \in Filled(s, f, D, d) : buffers[d] = e[k].enc.val
  BY <1>4, Zenon
<1>8. bad \in BOOLEAN
  BY Zenon
<1>9. \A k \in Ring : slots[k] = IF k \in D THEN EmptySlot ELSE e[k]
  BY Zenon
<1> HIDE DEF slots, buffers, bad
<1>10. [s.fe[f] EXCEPT !.slots = slots] \in Frontend
  BY <1>1, <1>3, Zenon DEF Frontend
<1>11. /\ t.fe = [s.fe EXCEPT ![f] = [s.fe[f] EXCEPT !.slots = slots]]
       /\ t.dest = [s.dest EXCEPT ![f] = buffers] /\ t.aborted = (s.aborted \/ bad)
       /\ t.data = s.data /\ t.readChunks = s.readChunks /\ t.writeChunks = s.writeChunks
  BY <1>1, <1>2, Zenon DEF System
<1>12. t.fe[f] = [s.fe[f] EXCEPT !.slots = slots]
  BY <1>1, <1>11, Zenon
<1>13. /\ t.fe[f].slots = slots /\ t.fe[f].isRead = s.fe[f].isRead
       /\ t.fe[f].modified = s.fe[f].modified /\ t.fe[f].bufferIdx = s.fe[f].bufferIdx
       /\ t.fe[f].jobCounter = s.fe[f].jobCounter
       /\ t.fe[f].doneCounter = s.fe[f].doneCounter
  BY <1>1, <1>12, Zenon DEF Frontend
<1>14. t.dest[f] = buffers
  BY <1>1, <1>11, Zenon
<1>15. OnlyOf(s, t, f)
  BY <1>1, <1>11, <1>13, Zenon DEF OnlyOf
<1>16. t \in System
  <2>1. t.fe \in [Frontends -> Frontend] /\ t.dest \in [Frontends -> [Dests -> Values]]
        /\ t.aborted \in BOOLEAN
    BY <1>1, <1>6, <1>8, <1>10, <1>11
  <2>2. t = [fe |-> t.fe, data |-> s.data, readChunks |-> s.readChunks,
             writeChunks |-> s.writeChunks, dest |-> t.dest, aborted |-> t.aborted]
    BY <1>2, Zenon DEF System
  <2> QED BY <2>1, <2>2 DEF System
<1> QED BY <1>7, <1>9, <1>11, <1>13, <1>14, <1>15, <1>16, ZenonT(30) DEF bad

\* Decrypting slots of a reading frontend that are done delivers what they hold.
LEMMA DecryptGood ==
  ASSUME NEW s, NEW C, NEW T, Good(s, C, T, {}), NEW f \in Frontends,
         NEW D \in SUBSET SlotsIn(s, f, "DONE"), s.fe[f].isRead \/ D = {},
         NEW t, t = DecryptSlots(s, f, D)
  PROVE  /\ Good(t, C, T, {}) /\ OnlyOf(s, t, f)
         /\ t.fe[f].doneCounter = s.fe[f].doneCounter
         /\ \A k \in Ring : t.fe[f].slots[k] = IF k \in D THEN EmptySlot ELSE s.fe[f].slots[k]
<1>1. s \in System /\ D \in SUBSET Ring
  BY ZenonT(60) DEF Good, SlotsIn
<1>2. /\ t \in System /\ OnlyOf(s, t, f)
      /\ t.fe[f].doneCounter = s.fe[f].doneCounter
      /\ \A k \in Ring : t.fe[f].slots[k] = IF k \in D THEN EmptySlot ELSE s.fe[f].slots[k]
  BY <1>1, DecryptShape
<1>3. ASSUME NEW k \in D
      PROVE  /\ s.fe[f].isRead /\ k \in Ring /\ s.fe[f].slots[k].state = "DONE"
             /\ s.fe[f].slots[k].outAddr \in Dests /\ Authentic(s.fe[f].slots[k])
             /\ s.fe[f].slots[k].enc.val = T[f][s.fe[f].slots[k].outAddr].val
  <2>1. s.fe[f].isRead /\ k \in Ring /\ s.fe[f].slots[k].state = "DONE"
    BY ZenonT(30) DEF SlotsIn
  <2>2. Coming(s, T, f, k)
    BY <2>1 DEF Good, ReadsComing
  <2> DEFINE e == s.fe[f].slots[k]
  <2>3. /\ e.outAddr \in Dests /\ e.state = "DONE"
        /\ e.enc = [val |-> T[f][e.outAddr].val, page |-> e.nounce]
    BY <2>1, <2>2, ZenonT(30) DEF Coming
  <2> HIDE DEF e
  <2>4. e.enc.page = e.nounce /\ e.enc.val = T[f][e.outAddr].val
    BY <2>3
  <2> QED BY <2>1, <2>3, <2>4, Zenon DEF e, Authentic
<1>4. ~t.aborted
  <2>1. t.aborted => s.aborted \/ \E k \in D : ~Authentic(s.fe[f].slots[k])
    BY <1>1, DecryptShape, SMTT(30)
  <2> QED BY <1>3, <2>1, ZenonT(60) DEF Good
<1>5. \A k \in Ring : \/ t.fe[f].slots[k] = s.fe[f].slots[k]
                      \/ s.fe[f].slots[k].state = "DONE" /\ t.fe[f].slots[k].state = "EMPTY"
  <2> SUFFICES ASSUME NEW k \in Ring
               PROVE  \/ t.fe[f].slots[k] = s.fe[f].slots[k]
                      \/ s.fe[f].slots[k].state = "DONE" /\ t.fe[f].slots[k].state = "EMPTY"
    BY Zenon
  <2>1. t.fe[f].slots[k] = IF k \in D THEN EmptySlot ELSE s.fe[f].slots[k]
    BY <1>2, Zenon
  <2>2. EmptySlot.state = "EMPTY"
    BY Zenon DEF EmptySlot
  <2>3. CASE k \in D
    BY ONLY <1>3, <2>1, <2>2, <2>3, Zenon
  <2>4. CASE k \notin D
    BY ONLY <2>1, <2>4
  <2> QED BY <2>3, <2>4, Zenon
<1>6. ReadsPoint(t, {})
  <2> SUFFICES ASSUME NEW n \in DOMAIN s.readChunks, NEW c \in ReadChunk, c = s.readChunks[n]
               PROVE  /\ t.fe[c.f].isRead
                      /\ t.fe[c.f].slots[c.slot].state = "PENDING"
                      /\ t.fe[c.f].slots[c.slot].nounce = c.page
    BY <1>1, <1>2, ChunkTypes, ZenonT(60) DEF ReadsPoint, OnlyOf
  <2>1. c.f \in Frontends /\ c.slot \in Ring
    BY Zenon DEF ReadChunk
  <2>2. /\ s.fe[c.f].isRead
        /\ s.fe[c.f].slots[c.slot].state = "PENDING"
        /\ s.fe[c.f].slots[c.slot].nounce = c.page
    BY Zenon DEF Good, ReadsPoint
  <2>3. CASE c.f = f
    <3>1. t.fe[f].slots[c.slot] = s.fe[f].slots[c.slot]
      BY <1>5, <2>1, <2>2, <2>3, Zenon
    <3> QED BY <1>2, <2>2, <2>3, <3>1, ZenonT(60) DEF OnlyOf
  <2>4. CASE c.f # f
    <3>1. t.fe[c.f] = s.fe[c.f]
      BY <1>2, <2>1, <2>4, Zenon DEF OnlyOf
    <3> QED BY <2>2, <3>1, ZenonT(30)
  <2> QED BY <2>3, <2>4, Zenon
<1>7. WritesPoint(t, {})
  <2> SUFFICES ASSUME NEW n \in DOMAIN s.writeChunks, NEW c \in WriteChunk, c = s.writeChunks[n]
               PROVE  /\ ~t.fe[c.f].isRead
                      /\ t.fe[c.f].slots[c.slot].state = "PENDING"
                      /\ c.enc.page = c.page
    BY <1>1, <1>2, ChunkTypes, ZenonT(60) DEF WritesPoint, OnlyOf
  <2>1. c.f \in Frontends /\ c.slot \in Ring
    BY Zenon DEF WriteChunk
  <2>2. /\ ~s.fe[c.f].isRead
        /\ s.fe[c.f].slots[c.slot].state = "PENDING"
        /\ c.enc.page = c.page
    BY Zenon DEF Good, WritesPoint
  <2>3. CASE c.f = f
    <3>1. t.fe[f].slots[c.slot] = s.fe[f].slots[c.slot]
      BY <1>5, <2>1, <2>2, <2>3, Zenon
    <3> QED BY <1>2, <2>2, <2>3, <3>1, Zenon DEF OnlyOf
  <2>4. CASE c.f # f
    <3>1. t.fe[c.f] = s.fe[c.f]
      BY <1>2, <2>1, <2>4, ZenonT(60) DEF OnlyOf
    <3> QED BY <2>2, <3>1, ZenonT(30)
  <2> QED BY <2>3, <2>4, Zenon
<1>8. \A g \in Frontends, k \in Ring : /\ t.fe[g].isRead = s.fe[g].isRead
                                       /\ t.fe[g].slots[k].state = "PENDING" =>
                                            s.fe[g].slots[k].state = "PENDING"
  BY <1>2, <1>5 DEF OnlyOf
<1>9. PendingWaits(t, {})
  BY <1>2, <1>8, ZenonT(60) DEF Good, PendingWaits, OnlyOf
<1>10. ReadsComing(t, T)
  <2> SUFFICES ASSUME NEW g \in Frontends, t.fe[g].isRead
               PROVE  /\ t.fe[g].doneCounter <= t.fe[g].jobCounter
                      /\ \A k \in Ring : t.fe[g].slots[k].state # "EMPTY" => Coming(t, T, g, k)
                      /\ Separate(t, g)
    BY Zenon DEF ReadsComing
  <2>1. /\ t.fe[g].doneCounter = s.fe[g].doneCounter /\ t.fe[g].jobCounter = s.fe[g].jobCounter
        /\ s.fe[g].isRead /\ t.data[g] = s.data[g]
    BY <1>2, ZenonT(60) DEF OnlyOf
  <2>2. \A k \in Ring : t.fe[g].slots[k].state # "EMPTY" => t.fe[g].slots[k] = s.fe[g].slots[k]
    BY <1>2, <1>5, SMTT(30) DEF OnlyOf
  <2>3. /\ s.fe[g].doneCounter <= s.fe[g].jobCounter
        /\ \A k \in Ring : s.fe[g].slots[k].state # "EMPTY" => Coming(s, T, g, k)
        /\ Separate(s, g)
    BY <2>1 DEF Good, ReadsComing
  <2>4. ASSUME NEW k \in Ring, t.fe[g].slots[k].state # "EMPTY"
        PROVE  Coming(t, T, g, k)
    <3>1. t.fe[g].slots[k] = s.fe[g].slots[k] /\ Coming(s, T, g, k)
      BY <2>2, <2>3, <2>4, ZenonT(60)
    <3> QED BY ONLY <2>1, <3>1, ZenonT(30) DEF Coming
  <2>5. Separate(t, g)
    BY ONLY <2>2, <2>3, SMTT(30) DEF Separate
  <2> QED BY <2>1, <2>3, <2>4, <2>5, Zenon
<1>11. Delivered(t, T)
  <2> SUFFICES ASSUME NEW g \in Frontends, NEW d \in Dests, t.dest[g][d] # T[g][d].val
               PROVE  t.fe[g].isRead /\ \E k \in Ring : /\ t.fe[g].slots[k].state # "EMPTY"
                                                        /\ t.fe[g].slots[k].outAddr = d
    BY ZenonT(60) DEF Delivered
  <2>1. CASE g # f
    <3>1. t.fe[g] = s.fe[g] /\ t.dest[g] = s.dest[g]
      BY <1>2, <2>1 DEF OnlyOf
    <3> QED BY <3>1, SMTT(30) DEF Good, Delivered
  <2>2. CASE g = f
    <3>1. Filled(s, f, D, d) = {}
      <4> SUFFICES ASSUME Filled(s, f, D, d) # {} PROVE FALSE
        BY ZenonT(30)
      <4>1. PICK k \in Filled(s, f, D, d) : t.dest[f][d] = s.fe[f].slots[k].enc.val
        BY <1>1, DecryptShape, SMTT(30)
      <4>2. k \in D /\ s.fe[f].slots[k].outAddr = d
        BY ZenonT(60) DEF Filled
      <4> QED BY <1>3, <2>2, <4>1, <4>2, Zenon
    <3>2. s.dest[f][d] # T[f][d].val
      BY <1>1, <2>2, <3>1, DecryptShape, SMTT(30)
    <3>3. PICK k \in Ring : /\ s.fe[f].isRead /\ s.fe[f].slots[k].state # "EMPTY"
                            /\ s.fe[f].slots[k].outAddr = d
      BY <3>2, ZenonT(60) DEF Good, Delivered
    <3>4. k \notin D
      BY <1>3, <3>1, <3>3, Zenon DEF Filled
    <3> QED BY <1>2, <2>2, <3>3, <3>4, ZenonT(60) DEF OnlyOf
  <2> QED BY <2>1, <2>2, SMTT(30)
<1>12. Kept(t, C, {})
  <2>1. \A g \in Frontends : t.fe[g].modified = s.fe[g].modified
    BY <1>2, Zenon DEF OnlyOf
  <2>2. \A g \in Frontends : \A i \in s.fe[g].modified : Upcoming(t, g, i) = Upcoming(s, g, i)
    BY <1>2, ZenonT(60) DEF OnlyOf, Upcoming
  <2>3. \A g \in Frontends : \A i \in s.fe[g].modified :
          Upcoming(s, g, i) = [val |-> C[g][i], page |-> i]
    BY DEF Good, Kept
  <2> QED BY <2>1, <2>2, <2>3, SMTT(30) DEF Kept
<1>13. Fits(t.readChunks) /\ Fits(t.writeChunks) /\ OneEach(t.readChunks) /\ OneEach(t.writeChunks)
  BY <1>2, ZenonT(30) DEF Good, OnlyOf
<1>14. C \in Contents /\ T \in Tickets
  BY ZenonT(30) DEF Good
<1>u. Untouched(t, C)
  <2>1. \A g \in Frontends : t.fe[g].modified = s.fe[g].modified
    BY <1>2 DEF OnlyOf
  <2> QED BY <2>1, UntouchedStays, SMTT(30) DEF Good
<1>15. Good(t, C, T, {})
  BY <1>2, <1>4, <1>6, <1>7, <1>9, <1>10, <1>11, <1>12, <1>13, <1>14, <1>u, ZenonT(60) DEF Good
<1> QED BY <1>2, <1>15, Zenon

\* Freeing slots that are not pending, and moving f's counter of done jobs, is harmless
\* once f has no read under way.
LEMMA SettleGood ==
  ASSUME NEW s, NEW C, NEW T, Good(s, C, T, {}), NEW f \in Frontends,
         NEW t \in System, OnlyOf(s, t, f), t.dest = s.dest, ~t.aborted,
         \A k \in Ring : \/ t.fe[f].slots[k] = s.fe[f].slots[k]
                         \/ /\ s.fe[f].slots[k].state # "PENDING"
                            /\ t.fe[f].slots[k].state = "EMPTY",
         s.fe[f].isRead => /\ \A k \in Ring : s.fe[f].slots[k].state = "EMPTY"
                           /\ t.fe[f].doneCounter <= t.fe[f].jobCounter
  PROVE  Good(t, C, T, {})
<1>1. s \in System /\ C \in Contents /\ T \in Tickets
  BY Zenon DEF Good
<1>2. ReadsPoint(t, {})
  <2> SUFFICES ASSUME NEW n \in DOMAIN s.readChunks, NEW c \in ReadChunk, c = s.readChunks[n]
               PROVE  /\ t.fe[c.f].isRead
                      /\ t.fe[c.f].slots[c.slot].state = "PENDING"
                      /\ t.fe[c.f].slots[c.slot].nounce = c.page
    BY <1>1, ChunkTypes, ZenonT(60) DEF ReadsPoint, OnlyOf
  <2>1. c.f \in Frontends /\ c.slot \in Ring
    BY Zenon DEF ReadChunk
  <2>2. /\ s.fe[c.f].isRead
        /\ s.fe[c.f].slots[c.slot].state = "PENDING"
        /\ s.fe[c.f].slots[c.slot].nounce = c.page
    BY Zenon DEF Good, ReadsPoint
  <2>3. c.f # f
    BY <2>1, <2>2, Zenon
  <2>4. t.fe[c.f] = s.fe[c.f]
    BY <2>1, <2>3 DEF OnlyOf
  <2> QED BY <2>2, <2>4, Zenon
<1>3. WritesPoint(t, {})
  <2> SUFFICES ASSUME NEW n \in DOMAIN s.writeChunks, NEW c \in WriteChunk, c = s.writeChunks[n]
               PROVE  /\ ~t.fe[c.f].isRead
                      /\ t.fe[c.f].slots[c.slot].state = "PENDING"
                      /\ c.enc.page = c.page
    BY <1>1, ChunkTypes, ZenonT(60) DEF WritesPoint, OnlyOf
  <2>1. c.f \in Frontends /\ c.slot \in Ring
    BY SMTT(30) DEF WriteChunk
  <2>2. /\ ~s.fe[c.f].isRead
        /\ s.fe[c.f].slots[c.slot].state = "PENDING"
        /\ c.enc.page = c.page
    BY Zenon DEF Good, WritesPoint
  <2>3. CASE c.f = f
    <3>1. t.fe[f].slots[c.slot] = s.fe[f].slots[c.slot]
      BY <2>1, <2>2, <2>3, Zenon
    <3> QED BY <2>2, <2>3, <3>1, Zenon DEF OnlyOf
  <2>4. CASE c.f # f
    <3>1. t.fe[c.f] = s.fe[c.f]
      BY <2>1, <2>4, ZenonT(60) DEF OnlyOf
    <3> QED BY <2>2, <3>1, ZenonT(30)
  <2> QED BY <2>3, <2>4, Zenon
<1>4. \A g \in Frontends, k \in Ring : /\ t.fe[g].isRead = s.fe[g].isRead
                                       /\ t.fe[g].slots[k].state = "PENDING" =>
                                            s.fe[g].slots[k].state = "PENDING"
  BY SMTT(30) DEF OnlyOf
<1>5. PendingWaits(t, {})
  BY <1>4, SMTT(30) DEF Good, PendingWaits, OnlyOf
<1>6. ASSUME NEW g \in Frontends, t.fe[g].isRead
      PROVE  /\ t.fe[g].doneCounter <= t.fe[g].jobCounter
             /\ \A k \in Ring : t.fe[g].slots[k].state # "EMPTY" => Coming(t, T, g, k)
             /\ Separate(t, g)
  <2>0. s.fe[g].isRead
    BY <1>6, Zenon DEF OnlyOf
  <2>1. CASE g = f
    <3>1. \A k \in Ring : t.fe[f].slots[k].state = "EMPTY"
      BY <2>0, <2>1, Zenon
    <3> QED BY <2>0, <2>1, <3>1, Zenon DEF Separate
  <2>2. CASE g # f
    <3>1. t.fe[g] = s.fe[g] /\ t.data = s.data
      BY <2>2 DEF OnlyOf
    <3>2. /\ s.fe[g].doneCounter <= s.fe[g].jobCounter
          /\ \A k \in Ring : s.fe[g].slots[k].state # "EMPTY" => Coming(s, T, g, k)
          /\ Separate(s, g)
      BY <2>0, Zenon DEF Good, ReadsComing
    <3>3. \A k \in Ring : Coming(s, T, g, k) => Coming(t, T, g, k)
      BY ONLY <3>1, ZenonT(30) DEF Coming
    <3>4. Separate(t, g)
      BY ONLY <3>1, <3>2, ZenonT(60) DEF Separate
    <3> QED BY <3>1, <3>2, <3>3, <3>4, ZenonT(60)
  <2> QED BY <2>1, <2>2, Zenon
<1>7. ReadsComing(t, T)
  BY <1>6, Zenon DEF ReadsComing
<1>8. Delivered(t, T)
  <2> SUFFICES ASSUME NEW g \in Frontends, NEW d \in Dests, s.dest[g][d] # T[g][d].val
               PROVE  t.fe[g].isRead /\ \E k \in Ring : /\ t.fe[g].slots[k].state # "EMPTY"
                                                        /\ t.fe[g].slots[k].outAddr = d
    BY DEF Delivered
  <2>1. s.fe[g].isRead /\ \E k \in Ring : /\ s.fe[g].slots[k].state # "EMPTY"
                                          /\ s.fe[g].slots[k].outAddr = d
    BY ZenonT(30) DEF Good, Delivered
  <2>2. g # f
    BY <2>1, Zenon
  <2>3. t.fe[g] = s.fe[g]
    BY <2>2, Zenon DEF OnlyOf
  <2> QED BY <2>1, <2>3, Zenon
<1>9. Kept(t, C, {})
  <2>1. \A g \in Frontends : t.fe[g].modified = s.fe[g].modified
    BY ZenonT(60) DEF OnlyOf
  <2>2. \A g \in Frontends : \A i \in s.fe[g].modified : Upcoming(t, g, i) = Upcoming(s, g, i)
    BY DEF OnlyOf, Upcoming
  <2>3. \A g \in Frontends : \A i \in s.fe[g].modified :
          Upcoming(s, g, i) = [val |-> C[g][i], page |-> i]
    BY Zenon DEF Good, Kept
  <2> QED BY <2>1, <2>2, <2>3, ZenonT(30) DEF Kept
<1>10. Fits(t.readChunks) /\ Fits(t.writeChunks) /\ OneEach(t.readChunks) /\ OneEach(t.writeChunks)
  BY ZenonT(60) DEF Good, OnlyOf
<1>u. Untouched(t, C)
  <2>1. \A g \in Frontends : t.fe[g].modified = s.fe[g].modified
    BY DEF OnlyOf
  <2> QED BY <2>1, UntouchedStays, SMTT(30) DEF Good
<1> QED BY <1>1, <1>2, <1>3, <1>5, <1>7, <1>8, <1>9, <1>10, <1>u, ZenonT(60) DEF Good

\* From s to t frontend f becomes e, and everything but aborted stays.
Replaced(s, t, f, e) ==
  /\ t.fe[f] = e /\ \A g \in Frontends \ {f} : t.fe[g] = s.fe[g]
  /\ t.dest = s.dest /\ t.data = s.data
  /\ t.readChunks = s.readChunks /\ t.writeChunks = s.writeChunks

\* A system in which one frontend and the abort flag are replaced.
LEMMA ReplaceShape ==
  ASSUME NEW s \in System, NEW f \in Frontends, NEW e \in Frontend, NEW b \in BOOLEAN,
         NEW t, t = [s EXCEPT !.fe[f] = e, !.aborted = b]
  PROVE  t \in System /\ Replaced(s, t, f, e) /\ t.aborted = b
<1>1. s.fe \in [Frontends -> Frontend]
  BY Zenon DEF System
<1>2. /\ t.fe = [s.fe EXCEPT ![f] = e] /\ t.dest = s.dest /\ t.aborted = b
      /\ t.data = s.data /\ t.readChunks = s.readChunks /\ t.writeChunks = s.writeChunks
      /\ t \in System
  BY <1>1, Zenon DEF System
<1>3. t.fe[f] = e /\ \A g \in Frontends \ {f} : t.fe[g] = s.fe[g]
  BY <1>1, <1>2
<1> QED BY <1>2, <1>3 DEF Replaced

\* A system in which one frontend is replaced.
LEMMA ReplaceOne ==
  ASSUME NEW s \in System, NEW f \in Frontends, NEW e \in Frontend,
         NEW t, t = [s EXCEPT !.fe[f] = e]
  PROVE  t \in System /\ Replaced(s, t, f, e) /\ t.aborted = s.aborted
<1>1. s.fe \in [Frontends -> Frontend]
  BY DEF System
<1>2. /\ t.fe = [s.fe EXCEPT ![f] = e] /\ t.dest = s.dest /\ t.aborted = s.aborted
      /\ t.data = s.data /\ t.readChunks = s.readChunks /\ t.writeChunks = s.writeChunks
      /\ t \in System
  BY <1>1, Zenon DEF System
<1>3. t.fe[f] = e /\ \A g \in Frontends \ {f} : t.fe[g] = s.fe[g]
  BY <1>1, <1>2
<1> QED BY <1>2, <1>3 DEF Replaced

\* After a frontend's flush f is in the same mode, has no job under way and counts all
\* its jobs done.
Settled(s, t, f) ==
  /\ t.fe[f].isRead = s.fe[f].isRead /\ t.fe[f].modified = s.fe[f].modified
  /\ t.fe[f].bufferIdx = s.fe[f].bufferIdx /\ t.fe[f].jobCounter = s.fe[f].jobCounter
  /\ t.fe[f].doneCounter = t.fe[f].jobCounter
  /\ \A k \in Ring : t.fe[f].slots[k].state = "EMPTY"

\* Once the queue of its mode is empty a frontend has no slot pending.
LEMMA NothingPends ==
  ASSUME NEW s, NEW C, NEW T, Good(s, C, T, {}), NEW f \in Frontends,
         IF s.fe[f].isRead THEN s.readChunks = <<>> ELSE s.writeChunks = <<>>
  PROVE  \A k \in Ring : s.fe[f].slots[k].state # "PENDING"
<1>1. PendingWaits(s, {})
  BY Zenon DEF Good
<1>2. \A k \in Ring : ChunksOf(<<>>, f, k) = {}
  BY DEF ChunksOf
<1> QED BY ONLY <1>1, <1>2, f \in Frontends,
                IF s.fe[f].isRead THEN s.readChunks = <<>> ELSE s.writeChunks = <<>>, Zenon
        DEF PendingWaits

\* flushRead delivers every read of the frontend.
LEMMA flushReadGood ==
  ASSUME NEW s, NEW C, NEW T, Good(s, C, T, {}), NEW f \in Frontends,
         s.fe[f].isRead \/ \A k \in Ring : s.fe[f].slots[k].state = "EMPTY",
         NEW t, t = flushRead(s, f)
  PROVE  Good(t, C, T, {}) /\ Settled(s, t, f)
<1> DEFINE u == IF SlotsIn(s, f, "PENDING") = {} THEN s ELSE BackendFlushRead(s)
           D == SlotsIn(u, f, "DONE")
           d == DecryptSlots(u, f, D)
           e == [d.fe[f] EXCEPT !.doneCounter = d.fe[f].jobCounter]
           b == d.aborted \/ SlotsIn(d, f, "PENDING") # {}
<1>1. t = [d EXCEPT !.fe[f] = e, !.aborted = b]
  BY DEF flushRead
<1>2. /\ Good(u, C, T, {}) /\ \A k \in Ring : u.fe[f].slots[k].state # "PENDING"
      /\ u.fe[f].isRead = s.fe[f].isRead /\ u.fe[f].modified = s.fe[f].modified
      /\ u.fe[f].bufferIdx = s.fe[f].bufferIdx /\ u.fe[f].jobCounter = s.fe[f].jobCounter
      /\ u.fe[f].isRead \/ D = {}
  <2>1. CASE SlotsIn(s, f, "PENDING") = {}
    BY <2>1, Zenon DEF SlotsIn
  <2>2. CASE SlotsIn(s, f, "PENDING") # {}
    <3>1. u = BackendFlushRead(s) /\ s.fe[f].isRead
      BY <2>2 DEF SlotsIn
    <3> HIDE DEF u
    <3>2. Good(u, C, T, {}) /\ SameJobs(s, u)
      BY <3>1, FlushReadGood, Zenon
    <3>3. u.readChunks = <<>>
      BY <3>1, FlushReadGood, ZenonT(60)
    <3>4. \A k \in Ring : u.fe[f].slots[k].state # "PENDING"
      BY <3>1, <3>2, <3>3, NothingPends, Zenon DEF SameJobs
    <3> QED BY <3>4, <3>1, <3>2, <3>3, ZenonT(60) DEF SameJobs
  <2> QED BY <2>1, <2>2, ZenonT(30)
<1> HIDE DEF u
<1>3. D \in SUBSET SlotsIn(u, f, "DONE")
  BY Zenon
<1>4. /\ Good(d, C, T, {}) /\ OnlyOf(u, d, f)
      /\ \A k \in Ring : d.fe[f].slots[k] = IF k \in D THEN EmptySlot ELSE u.fe[f].slots[k]
  BY <1>2, <1>3, DecryptGood, SMTT(30)
<1>5. u \in System
  BY <1>2, Zenon DEF Good
<1>6. \A k \in Ring : d.fe[f].slots[k].state = "EMPTY"
  <2> SUFFICES ASSUME NEW k \in Ring PROVE d.fe[f].slots[k].state = "EMPTY"
    BY Zenon
  <2>1. CASE k \in D
    BY <1>4, <2>1, SMTT(30) DEF EmptySlot
  <2>2. CASE k \notin D
    <3>1. u.fe[f].slots[k] \in Slot /\ u.fe[f].slots[k].state \in {"EMPTY", "PENDING", "DONE"}
      BY <1>5, SMTT(30) DEF System, Frontend, Slot
    <3>2. u.fe[f].slots[k].state # "DONE" /\ u.fe[f].slots[k].state # "PENDING"
      BY <1>2, <2>2, ZenonT(60) DEF SlotsIn
    <3>3. d.fe[f].slots[k] = u.fe[f].slots[k]
      BY <1>4, <2>2
    <3> QED BY <3>1, <3>2, <3>3, ZenonT(60)
  <2> QED BY <2>1, <2>2, ZenonT(30)
<1> HIDE DEF d
<1>7. d \in System /\ ~d.aborted /\ d.fe[f] \in Frontend
  BY <1>4, ZenonT(30) DEF Good, System
<1>8. b = FALSE
  BY <1>6, <1>7, ZenonT(60) DEF SlotsIn
<1>9. /\ e \in Frontend /\ e.isRead = d.fe[f].isRead /\ e.modified = d.fe[f].modified
      /\ e.bufferIdx = d.fe[f].bufferIdx /\ e.jobCounter = d.fe[f].jobCounter
      /\ e.doneCounter = d.fe[f].jobCounter /\ e.slots = d.fe[f].slots
  BY <1>7 DEF Frontend
<1> HIDE DEF e, b
<1>10. t \in System /\ Replaced(d, t, f, e) /\ t.aborted = b
  <2>1. b \in BOOLEAN /\ d \in System /\ e \in Frontend
    BY <1>7, <1>8, <1>9, Zenon
  <2> QED BY ONLY <1>1, <2>1, ReplaceShape, f \in Frontends, ZenonT(60)
<1>11. OnlyOf(d, t, f) /\ t.dest = d.dest /\ ~t.aborted
  BY <1>8, <1>9, <1>10, Zenon DEF OnlyOf, Replaced
<1>12. /\ \A k \in Ring : t.fe[f].slots[k] = d.fe[f].slots[k]
       /\ t.fe[f].doneCounter = t.fe[f].jobCounter
  BY <1>9, <1>10, ZenonT(60) DEF Replaced
<1>13. t.fe[f].jobCounter \in Nat
  BY <1>10, SMTT(30) DEF System, Frontend
<1>14. Good(t, C, T, {})
  BY <1>4, <1>6, <1>10, <1>11, <1>12, <1>13, SettleGood, SMTT(30)
<1>15. Settled(s, t, f)
  BY <1>2, <1>4, <1>6, <1>11, <1>12, ZenonT(60) DEF Settled, OnlyOf
<1> QED BY <1>14, <1>15, Zenon

\* flushWrite completes every write of the frontend.
LEMMA flushWriteGood ==
  ASSUME NEW s, NEW C, NEW T, Good(s, C, T, {}), NEW f \in Frontends,
         ~s.fe[f].isRead \/ \A k \in Ring : s.fe[f].slots[k].state = "EMPTY",
         NEW t, t = flushWrite(s, f)
  PROVE  Good(t, C, T, {}) /\ Settled(s, t, f)
<1> DEFINE u == IF SlotsIn(s, f, "PENDING") = {} THEN s ELSE BackendFlushWrite(s)
           slots == [k \in Ring |-> IF u.fe[f].slots[k].state = "DONE" THEN EmptySlot
                                    ELSE u.fe[f].slots[k]]
           e == [u.fe[f] EXCEPT !.doneCounter = u.fe[f].jobCounter, !.slots = slots]
           b == u.aborted \/ SlotsIn(u, f, "PENDING") # {}
<1>1. t = [u EXCEPT !.fe[f] = e, !.aborted = b]
  BY DEF flushWrite
<1>2. /\ Good(u, C, T, {}) /\ \A k \in Ring : u.fe[f].slots[k].state # "PENDING"
      /\ u.fe[f].isRead = s.fe[f].isRead /\ u.fe[f].modified = s.fe[f].modified
      /\ u.fe[f].bufferIdx = s.fe[f].bufferIdx /\ u.fe[f].jobCounter = s.fe[f].jobCounter
      /\ u.fe[f].isRead => \A k \in Ring : u.fe[f].slots[k].state = "EMPTY"
  <2>1. CASE SlotsIn(s, f, "PENDING") = {}
    BY <2>1, Zenon DEF SlotsIn
  <2>2. CASE SlotsIn(s, f, "PENDING") # {}
    <3>1. u = BackendFlushWrite(s) /\ ~s.fe[f].isRead
      BY <2>2 DEF SlotsIn
    <3> HIDE DEF u
    <3>2. Good(u, C, T, {}) /\ SameJobs(s, u)
      BY <3>1, FlushWriteGood, Zenon
    <3>3. u.writeChunks = <<>>
      BY <3>1, FlushWriteGood, ZenonT(60)
    <3>4. \A k \in Ring : u.fe[f].slots[k].state # "PENDING"
      BY <3>1, <3>2, <3>3, NothingPends, SMTT(60) DEF SameJobs
    <3> QED BY <3>4, <3>1, <3>2, <3>3, ZenonT(60) DEF SameJobs
  <2> QED BY <2>1, <2>2, Zenon
<1> HIDE DEF u
<1>3. u \in System /\ ~u.aborted /\ u.fe[f] \in Frontend
  BY <1>2, ZenonT(30) DEF Good, System
<1>4. \A k \in Ring : u.fe[f].slots[k] \in Slot
  BY <1>3, Zenon DEF Frontend
<1>5. EmptySlot \in Slot /\ EmptySlot.state = "EMPTY"
  BY BatchAssumption, ZenonT(60) DEF EmptySlot, Slot, AnyCipher
<1>6. slots \in [Ring -> Slot]
  BY <1>4, <1>5
<1>7. \A k \in Ring : slots[k].state = "EMPTY"
  <2> SUFFICES ASSUME NEW k \in Ring PROVE slots[k].state = "EMPTY"
    BY Zenon
  <2>1. u.fe[f].slots[k].state \in {"EMPTY", "PENDING", "DONE"}
    BY <1>4, ZenonT(60) DEF Slot
  <2> QED BY <1>2, <1>5, <2>1, ZenonT(60)
<1> HIDE DEF slots
<1>8. b = FALSE
  BY <1>2, <1>3 DEF SlotsIn
<1>9. /\ e \in Frontend /\ e.isRead = u.fe[f].isRead /\ e.modified = u.fe[f].modified
      /\ e.bufferIdx = u.fe[f].bufferIdx /\ e.jobCounter = u.fe[f].jobCounter
      /\ e.doneCounter = u.fe[f].jobCounter /\ e.slots = slots
  BY <1>3, <1>6, ZenonT(60) DEF Frontend
<1> HIDE DEF e, b
<1>10. t \in System /\ Replaced(u, t, f, e) /\ t.aborted = b
  <2>1. b \in BOOLEAN /\ u \in System /\ e \in Frontend
    BY <1>3, <1>8, <1>9, ZenonT(30)
  <2> QED BY ONLY <1>1, <2>1, ReplaceShape, f \in Frontends, Zenon
<1>11. OnlyOf(u, t, f) /\ t.dest = u.dest /\ ~t.aborted
  BY <1>8, <1>9, <1>10, Zenon DEF OnlyOf, Replaced
<1>12. /\ \A k \in Ring : t.fe[f].slots[k].state = "EMPTY"
       /\ t.fe[f].doneCounter = t.fe[f].jobCounter
  BY <1>7, <1>9, <1>10, ZenonT(60) DEF Replaced
<1>13. t.fe[f].jobCounter \in Nat
  BY <1>10 DEF System, Frontend
<1>14. Good(t, C, T, {})
  <2>1. \A k \in Ring : u.fe[f].slots[k].state # "PENDING" /\ t.fe[f].slots[k].state = "EMPTY"
    BY <1>2, <1>12, ZenonT(60)
  <2>2. u.fe[f].isRead => /\ \A k \in Ring : u.fe[f].slots[k].state = "EMPTY"
                          /\ t.fe[f].doneCounter <= t.fe[f].jobCounter
    BY <1>2, <1>12, <1>13
  <2> QED BY <1>2, <1>10, <1>11, <2>1, <2>2, SettleGood, ZenonT(60)
<1>15. Settled(s, t, f)
  BY <1>2, <1>11, <1>12, Zenon DEF Settled, OnlyOf
<1> QED BY <1>14, <1>15, ZenonT(60)

================================================================================
