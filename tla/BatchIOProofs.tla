----------------------------- MODULE BatchIOProofs -----------------------------
(***************************************************************************)
(* The calls of batched page I/O keep the invariant of BatchIOInv, so a    *)
(* job that is done is complete and no lazy write is lost or overtaken.    *)
(***************************************************************************)
EXTENDS BatchIOInv

--------------------------------------------------------------------------------
(* Queueing a job *)

\* Counting a job and moving to the next slot of the ring.
LEMMA EnqueueGood ==
  ASSUME NEW s, NEW C, NEW T, Good(s, C, T, {}), NEW f \in Frontends,
         NEW t, t = Enqueued(s, f)
  PROVE  Good(t, C, T, {}) /\ t.fe[f].jobCounter = s.fe[f].jobCounter + 1
<1> DEFINE x == (s.fe[f].bufferIdx + 1) % bufferCapacity
           y == s.fe[f].jobCounter + 1
           e == [s.fe[f] EXCEPT !.bufferIdx = x, !.jobCounter = y]
<1>1. s \in System /\ ~s.aborted /\ s.fe[f] \in Frontend /\ s.aborted \in BOOLEAN
  BY Zenon DEF Good, System
<1>2. s.fe[f].bufferIdx \in Ring /\ s.fe[f].jobCounter \in Nat
  BY <1>1, Zenon DEF Frontend
<1>3. x \in Ring /\ y \in Nat
  <2>1. bufferCapacity \in Nat /\ bufferCapacity > 0
    BY BatchAssumption
  <2>2. s.fe[f].bufferIdx + 1 \in Nat
    BY <1>2, <2>1 DEF Ring
  <2>3. \A a \in Nat : a % bufferCapacity \in 0 .. bufferCapacity - 1
    BY <2>1
  <2> QED BY <1>2, <2>2, <2>3 DEF Ring
<1>0. t = [s EXCEPT !.fe[f] = e]
  BY DEF Enqueued
<1> HIDE DEF x, y
<1>4. /\ e \in Frontend /\ e.isRead = s.fe[f].isRead /\ e.modified = s.fe[f].modified
      /\ e.doneCounter = s.fe[f].doneCounter /\ e.slots = s.fe[f].slots
      /\ e.jobCounter = y
  BY <1>1, <1>3, Zenon DEF Frontend
<1> HIDE DEF e
<1>6. t \in System /\ Replaced(s, t, f, e) /\ t.aborted = s.aborted
  BY <1>0, <1>1, <1>4, ReplaceOne
<1>7. /\ t.dest = s.dest /\ t.data = s.data /\ ~t.aborted
      /\ t.readChunks = s.readChunks /\ t.writeChunks = s.writeChunks
  BY <1>1, <1>6, ZenonT(30) DEF Replaced
<1>8. \A g \in Frontends :
        /\ t.fe[g].isRead = s.fe[g].isRead /\ t.fe[g].modified = s.fe[g].modified
        /\ t.fe[g].doneCounter = s.fe[g].doneCounter /\ t.fe[g].slots = s.fe[g].slots
        /\ t.fe[g].jobCounter = s.fe[g].jobCounter \/ t.fe[g].jobCounter = s.fe[g].jobCounter + 1
  BY <1>4, <1>6 DEF Replaced, y
<1>9. /\ \A n \in DOMAIN s.readChunks : s.readChunks[n].f \in Frontends
      /\ \A n \in DOMAIN s.writeChunks : s.writeChunks[n].f \in Frontends
  BY <1>1, ChunkTypes DEF ReadChunk, WriteChunk
<1>10. ReadsPoint(t, {})
  <2> SUFFICES ASSUME NEW n \in DOMAIN s.readChunks, NEW c, c = s.readChunks[n]
               PROVE  /\ t.fe[c.f].isRead
                      /\ t.fe[c.f].slots[c.slot].state = "PENDING"
                      /\ t.fe[c.f].slots[c.slot].nounce = c.page
    BY <1>7, ZenonT(60) DEF ReadsPoint
  <2>1. /\ s.fe[c.f].isRead
        /\ s.fe[c.f].slots[c.slot].state = "PENDING"
        /\ s.fe[c.f].slots[c.slot].nounce = c.page
    BY Zenon DEF Good, ReadsPoint
  <2> QED BY <1>8, <1>9, <2>1, Zenon
<1>11. WritesPoint(t, {})
  <2> SUFFICES ASSUME NEW n \in DOMAIN s.writeChunks, NEW c, c = s.writeChunks[n]
               PROVE  /\ ~t.fe[c.f].isRead
                      /\ t.fe[c.f].slots[c.slot].state = "PENDING"
                      /\ c.enc.page = c.page
    BY <1>7, ZenonT(60) DEF WritesPoint
  <2>1. /\ ~s.fe[c.f].isRead
        /\ s.fe[c.f].slots[c.slot].state = "PENDING"
        /\ c.enc.page = c.page
    BY Zenon DEF Good, WritesPoint
  <2> QED BY <1>8, <1>9, <2>1, Zenon
<1>12. PendingWaits(t, {})
  BY <1>7, <1>8 DEF Good, PendingWaits
<1>13. ReadsComing(t, T)
  <2> SUFFICES ASSUME NEW g \in Frontends, t.fe[g].isRead
               PROVE  /\ t.fe[g].doneCounter <= t.fe[g].jobCounter
                      /\ \A k \in Ring : t.fe[g].slots[k].state # "EMPTY" => Coming(t, T, g, k)
                      /\ Separate(t, g)
    BY Zenon DEF ReadsComing
  <2>1. /\ s.fe[g].doneCounter <= s.fe[g].jobCounter
        /\ \A k \in Ring : s.fe[g].slots[k].state # "EMPTY" => Coming(s, T, g, k)
        /\ Separate(s, g)
    BY <1>8, Zenon DEF Good, ReadsComing
  <2>2. s.fe[g].doneCounter \in Nat /\ s.fe[g].jobCounter \in Nat
    BY <1>1, Zenon DEF System, Frontend
  <2>3. t.fe[g].doneCounter <= t.fe[g].jobCounter
    BY <1>8, <2>1, <2>2, SMTT(60)
  <2>4. /\ t.fe[g].slots = s.fe[g].slots /\ t.fe[g].doneCounter = s.fe[g].doneCounter
        /\ t.data[g] = s.data[g]
    BY <1>7, <1>8
  <2>5. \A k \in Ring : Coming(s, T, g, k) => Coming(t, T, g, k)
    BY ONLY <2>4, ZenonT(60) DEF Coming
  <2>6. Separate(t, g)
    BY ONLY <2>1, <2>4, SMTT(30) DEF Separate
  <2> QED BY <2>1, <2>3, <2>4, <2>5, <2>6, ZenonT(30)
<1>14. Delivered(t, T)
  BY <1>7, <1>8, SMTT(60) DEF Good, Delivered
<1>15. Kept(t, C, {})
  <2>1. \A g \in Frontends : \A i \in s.fe[g].modified : Upcoming(t, g, i) = Upcoming(s, g, i)
    BY <1>7, ZenonT(30) DEF Upcoming
  <2>2. \A g \in Frontends : \A i \in s.fe[g].modified :
          Upcoming(s, g, i) = [val |-> C[g][i], page |-> i]
    BY Zenon DEF Good, Kept
  <2> QED BY <1>8, <2>1, <2>2 DEF Kept
<1>u. Untouched(t, C)
  BY <1>8, UntouchedStays, SMTT(60) DEF Good
<1>16. Good(t, C, T, {})
  BY <1>6, <1>7, <1>10, <1>11, <1>12, <1>13, <1>14, <1>15, <1>u, SMTT(60) DEF Good
<1> QED BY <1>4, <1>6, <1>16, Zenon DEF Replaced, y

\* A queue that is not full has room for one more chunk.
LEMMA RoomForOne ==
  ASSUME NEW A, NEW q \in Seq(A), ~Full(q), NEW c
  PROVE  Fits(Append(q, c))
<1>1. Len(q) \in Nat /\ Len(Append(q, c)) = Len(q) + 1
  OBVIOUS
<1>2. sizeOfT \in Nat /\ tmpSize \in Nat /\ maxChunkNum \in Nat
  BY BatchAssumption
<1>3. sizeOfT * (Len(q) + 1) = sizeOfT * Len(q) + sizeOfT
  BY <1>1, <1>2
<1>4. sizeOfT * Len(q) \in Nat
  BY <1>1, <1>2
<1>5. sizeOfT * Len(q) + sizeOfT <= tmpSize /\ Len(q) + 1 <= maxChunkNum
  BY <1>1, <1>2, <1>4 DEF Full, tmpOffset
<1> QED BY <1>1, <1>3, <1>5 DEF Fits, tmpOffset

\* There is room in an empty queue: a page fits in tmp.
LEMMA EmptyNotFull == ~Full(<<>>)
<1>1. sizeOfT \in Nat /\ tmpSize \in Nat /\ maxChunkNum \in Nat /\ sizeOfT <= tmpSize
      /\ maxChunkNum >= 1
  BY BatchAssumption
<1>2. Len(<<>>) = 0 /\ sizeOfT * 0 = 0
  BY <1>1
<1> QED BY <1>1, <1>2 DEF Full, tmpOffset

\* The state in which ReadLazy hands f's next job over: the slot k is free, the reads
\* under way are for other buffers, and a frontend that was writing has nothing queued.
ReadyToRead(s, f, d) ==
  /\ s.fe[f].slots[s.fe[f].bufferIdx].state = "EMPTY"
  /\ s.fe[f].doneCounter <= s.fe[f].jobCounter
  /\ ~s.fe[f].isRead => \A k \in Ring : s.fe[f].slots[k].state = "EMPTY"
  /\ \A k \in Ring : s.fe[f].slots[k].state # "EMPTY" => s.fe[f].slots[k].outAddr # d

\* A frontend that has flushed everything is ready for any read.
LEMMA SettledIsReady ==
  ASSUME NEW s \in System, NEW t, NEW f \in Frontends, NEW d, Settled(s, t, f)
  PROVE  ReadyToRead(t, f, d)
<1>1. s.fe[f].bufferIdx \in Ring /\ s.fe[f].jobCounter \in Nat
  BY Zenon DEF System, Frontend
<1>2. t.fe[f].bufferIdx \in Ring /\ t.fe[f].doneCounter <= t.fe[f].jobCounter
  BY <1>1 DEF Settled
<1>3. \A k \in Ring : t.fe[f].slots[k].state = "EMPTY"
  BY Zenon DEF Settled
<1> QED BY <1>2, <1>3, Zenon DEF ReadyToRead

\* Freeing the slot keeps the invariant and makes f ready.
LEMMA FreeForRead ==
  ASSUME NEW s, NEW C, NEW T, Good(s, C, T, {}), NEW f \in Frontends, NEW d \in Dests,
         s.fe[f].doneCounter >= T[f][d].job,
         NEW a, a = IF ~s.fe[f].isRead THEN flushWrite(s, f) ELSE s,
         NEW b, b = FreedForRead(a, f)
  PROVE  /\ Good(b, C, T, {}) /\ ReadyToRead(b, f, d)
         /\ b.fe[f].modified = s.fe[f].modified /\ b.fe[f].jobCounter = s.fe[f].jobCounter
<1>0. /\ s \in System /\ T \in Tickets /\ s.fe[f] \in Frontend
      /\ s.fe[f].bufferIdx \in Ring /\ s.fe[f].doneCounter \in Nat /\ s.fe[f].jobCounter \in Nat
  BY Zenon DEF Good, System, Frontend
<1>1. CASE ~s.fe[f].isRead
  <2>1. Good(a, C, T, {}) /\ Settled(s, a, f)
    BY <1>1, flushWriteGood, Zenon
  <2>2. a.fe[f].slots[a.fe[f].bufferIdx].state = "EMPTY"
    BY <1>0, <2>1, Zenon DEF Settled
  <2>3. b = a
    BY <2>2, Zenon DEF FreedForRead
  <2>4. ReadyToRead(a, f, d)
    BY <1>0, <2>1, SettledIsReady, Zenon
  <2> QED BY <2>1, <2>3, <2>4, Zenon DEF Settled
<1>2. CASE s.fe[f].isRead
  <2> DEFINE k == s.fe[f].bufferIdx
  <2>0. a = s
    BY <1>2, Zenon
  <2>1. /\ s.fe[f].doneCounter <= s.fe[f].jobCounter
        /\ \A l \in Ring : s.fe[f].slots[l].state # "EMPTY" => Coming(s, T, f, l)
    BY <1>2, ZenonT(60) DEF Good, ReadsComing
  <2>2. ASSUME NEW l \in Ring, s.fe[f].slots[l].state # "EMPTY"
        PROVE  s.fe[f].slots[l].outAddr # d
    <3>1. s.fe[f].slots[l].outAddr \in Dests
          /\ T[f][s.fe[f].slots[l].outAddr].job > s.fe[f].doneCounter
      BY <2>1, <2>2, Zenon DEF Coming
    <3>2. T[f][d].job \in Nat
      BY <1>0, Zenon DEF Tickets
    <3> QED BY <1>0, <3>1, <3>2
  <2>3. CASE s.fe[f].slots[k].state = "DONE"
    <3>1. b = DecryptSlots(s, f, {k})
      BY <2>0, <2>3, Zenon DEF FreedForRead
    <3>2. {k} \in SUBSET SlotsIn(s, f, "DONE")
      BY <1>0, <2>3, ZenonT(60) DEF SlotsIn
    <3>3. /\ Good(b, C, T, {}) /\ OnlyOf(s, b, f)
          /\ b.fe[f].doneCounter = s.fe[f].doneCounter
          /\ \A l \in Ring : b.fe[f].slots[l] = IF l \in {k} THEN EmptySlot ELSE s.fe[f].slots[l]
      BY <1>2, <3>1, <3>2, DecryptGood, SMTT(60)
    <3>4. EmptySlot.state = "EMPTY"
      BY DEF EmptySlot
    <3>5. b.fe[f].slots[k].state = "EMPTY" /\ b.fe[f].bufferIdx = k
      BY <1>0, <3>3, <3>4, Zenon DEF OnlyOf
    <3>6. \A l \in Ring : b.fe[f].slots[l].state # "EMPTY" => b.fe[f].slots[l].outAddr # d
      BY <2>2, <3>3, <3>4, ZenonT(60)
    <3> QED BY <1>2, <2>1, <3>3, <3>5, <3>6, ZenonT(60) DEF ReadyToRead, OnlyOf
  <2>4. CASE s.fe[f].slots[k].state = "PENDING"
    <3>1. b = flushRead(s, f)
      BY <2>0, <2>4, Zenon DEF FreedForRead
    <3>2. Good(b, C, T, {}) /\ Settled(s, b, f)
      BY <1>2, <3>1, flushReadGood, ZenonT(60)
    <3>3. ReadyToRead(b, f, d)
      BY <1>0, <3>2, SettledIsReady
    <3> QED BY <3>2, <3>3, Zenon DEF Settled
  <2>5. CASE s.fe[f].slots[k].state \notin {"DONE", "PENDING"}
    <3>1. b = s
      BY <2>0, <2>5, ZenonT(30) DEF FreedForRead
    <3>2. s.fe[f].slots[k].state \in {"EMPTY", "PENDING", "DONE"}
      BY <1>0, Zenon DEF Frontend, Slot
    <3> QED BY <1>2, <2>1, <2>2, <2>5, <3>1, <3>2, ZenonT(60) DEF ReadyToRead
  <2> QED BY <2>3, <2>4, <2>5, Zenon
<1> QED BY <1>1, <1>2, Zenon

\* In U, the read last asked of f's buffer d is job j, for the value x.
Asked(T, U, f, d, j, x) == U = [T EXCEPT ![f][d] = [job |-> j, val |-> x]]

\* From s to t the current slot k of f is marked pending for a read, or for a write.
PendsRead(s, t, f, i, d, k) ==
  k = s.fe[f].bufferIdx /\ t = [s EXCEPT !.fe[f] = PendingRead(s.fe[f], i, d)]

PendsWrite(s, t, f, i, v, k) ==
  k = s.fe[f].bufferIdx /\ t = [s EXCEPT !.fe[f] = PendingWrite(s.fe[f], i, v)]

\* The current slot k of f is ready to be handed to the backend.
HandsRead(t, f, i, k) ==
  k \in Ring /\ t.fe[f].isRead /\ t.fe[f].bufferIdx = k /\ t.fe[f].slots[k].nounce = i

HandsWrite(t, f, i, v, k) ==
  /\ k \in Ring /\ ~t.fe[f].isRead /\ t.fe[f].bufferIdx = k /\ i \in t.fe[f].modified
  /\ t.fe[f].slots[k].enc = [val |-> v, page |-> i]

\* Marking the slot pending for a new read.
LEMMA PendReadGood ==
  ASSUME NEW s, NEW C, NEW T, Good(s, C, T, {}), NEW f \in Frontends, NEW d \in Dests,
         NEW i \in s.fe[f].modified, ReadyToRead(s, f, d),
         NEW U, Asked(T, U, f, d, s.fe[f].jobCounter + 1, C[f][i]),
         NEW t, NEW k, PendsRead(s, t, f, i, d, k)
  PROVE  /\ Good(t, C, U, {<<f, k>>}) /\ HandsRead(t, f, i, k)
         /\ t.fe[f].jobCounter = s.fe[f].jobCounter
<1>0. k = s.fe[f].bufferIdx
  BY Zenon DEF PendsRead
<1>1. /\ s \in System /\ C \in Contents /\ T \in Tickets /\ ~s.aborted
      /\ s.fe[f] \in Frontend /\ s.fe[f].slots \in [Ring -> Slot]
      /\ k \in Ring /\ i \in Pages /\ s.fe[f].jobCounter \in Nat /\ s.fe[f].doneCounter \in Nat
  BY <1>0, Zenon DEF Good, System, Frontend
<1> DEFINE o == s.fe[f].slots[k]
           n == [o EXCEPT !.state = "PENDING", !.outAddr = d, !.nounce = i]
           e == PendingRead(s.fe[f], i, d)
<1>2. n \in Slot /\ n.state = "PENDING" /\ n.outAddr = d /\ n.nounce = i
  <2>1. o \in Slot /\ i \in Pages
    BY <1>1, Zenon
  <2> HIDE DEF o
  <2> QED BY <2>1, Zenon DEF Slot
<1>3. e = [s.fe[f] EXCEPT !.isRead = TRUE, !.slots = [s.fe[f].slots EXCEPT ![k] = n]]
  BY <1>0, Zenon DEF PendingRead
<1> HIDE DEF n
<1>4. [s.fe[f].slots EXCEPT ![k] = n] \in [Ring -> Slot]
  BY <1>1, <1>2, Zenon
<1>5. /\ e \in Frontend /\ e.isRead = TRUE /\ e.modified = s.fe[f].modified
      /\ e.bufferIdx = k /\ e.jobCounter = s.fe[f].jobCounter
      /\ e.doneCounter = s.fe[f].doneCounter
      /\ e.slots = [s.fe[f].slots EXCEPT ![k] = n]
  BY <1>0, <1>1, <1>3, <1>4, ZenonT(60) DEF Frontend
<1> HIDE DEF e
<1>6. t \in System /\ Replaced(s, t, f, e) /\ t.aborted = s.aborted
  BY <1>1, <1>5, ReplaceOne DEF e, PendsRead
<1>7. /\ t.dest = s.dest /\ t.data = s.data /\ ~t.aborted
      /\ t.readChunks = s.readChunks /\ t.writeChunks = s.writeChunks
      /\ \A g \in Frontends \ {f} : t.fe[g] = s.fe[g]
  BY <1>1, <1>6, Zenon DEF Replaced
<1>8. /\ t.fe[f].isRead /\ t.fe[f].modified = s.fe[f].modified /\ t.fe[f].bufferIdx = k
      /\ t.fe[f].jobCounter = s.fe[f].jobCounter /\ t.fe[f].doneCounter = s.fe[f].doneCounter
      /\ t.fe[f].slots[k] = n
      /\ \A l \in Ring \ {k} : t.fe[f].slots[l] = s.fe[f].slots[l]
  BY <1>1, <1>5, <1>6, Zenon DEF Replaced
<1>9. s.fe[f].slots[k].state = "EMPTY"
  BY <1>0, Zenon DEF ReadyToRead
<1>10. \A m \in DOMAIN s.writeChunks : s.writeChunks[m].f # f
  <2> SUFFICES ASSUME NEW m \in DOMAIN s.writeChunks, s.writeChunks[m].f = f PROVE FALSE
    BY Zenon
  <2>1. s.writeChunks[m].slot \in Ring
    BY <1>1, ChunkTypes, Zenon DEF WriteChunk
  <2>2. ~s.fe[f].isRead /\ s.fe[f].slots[s.writeChunks[m].slot].state = "PENDING"
    BY Zenon DEF Good, WritesPoint
  <2> QED BY <2>1, <2>2, Zenon DEF ReadyToRead
<1>11. ReadsPoint(t, {<<f, k>>})
  <2> SUFFICES ASSUME NEW m \in DOMAIN s.readChunks, NEW c \in ReadChunk, c = s.readChunks[m]
               PROVE  /\ t.fe[c.f].isRead /\ <<c.f, c.slot>> \notin {<<f, k>>}
                      /\ t.fe[c.f].slots[c.slot].state = "PENDING"
                      /\ t.fe[c.f].slots[c.slot].nounce = c.page
    BY <1>1, <1>7, ChunkTypes, Zenon DEF ReadsPoint
  <2>1. c.f \in Frontends /\ c.slot \in Ring
    BY Zenon DEF ReadChunk
  <2>2. /\ s.fe[c.f].isRead
        /\ s.fe[c.f].slots[c.slot].state = "PENDING"
        /\ s.fe[c.f].slots[c.slot].nounce = c.page
    BY Zenon DEF Good, ReadsPoint
  <2>3. CASE c.f = f
    <3>1. c.slot # k
      BY <1>9, <2>2, <2>3, Zenon
    <3>2. t.fe[f].slots[c.slot] = s.fe[f].slots[c.slot]
      BY <1>8, <2>1, <3>1, Zenon
    <3>3. <<c.f, c.slot>> # <<f, k>>
      BY <3>1, Zenon
    <3> QED BY <1>8, <2>2, <2>3, <3>2, <3>3, ZenonT(60)
  <2>4. CASE c.f # f
    BY <1>7, <2>1, <2>2, <2>4, ZenonT(60)
  <2> QED BY <2>3, <2>4, Zenon
<1>12. WritesPoint(t, {<<f, k>>})
  <2> SUFFICES ASSUME NEW m \in DOMAIN s.writeChunks, NEW c \in WriteChunk, c = s.writeChunks[m]
               PROVE  /\ ~t.fe[c.f].isRead /\ <<c.f, c.slot>> \notin {<<f, k>>}
                      /\ t.fe[c.f].slots[c.slot].state = "PENDING"
                      /\ c.enc.page = c.page
    BY <1>1, <1>7, ChunkTypes, Zenon DEF WritesPoint
  <2>1. c.f \in Frontends /\ c.slot \in Ring /\ c.f # f
    BY <1>10, Zenon DEF WriteChunk
  <2>2. /\ ~s.fe[c.f].isRead
        /\ s.fe[c.f].slots[c.slot].state = "PENDING"
        /\ c.enc.page = c.page
    BY ZenonT(30) DEF Good, WritesPoint
  <2> QED BY <1>7, <2>1, <2>2, Zenon
<1>13. PendingWaits(t, {<<f, k>>})
  <2> SUFFICES ASSUME NEW g \in Frontends, NEW l \in Ring,
                      t.fe[g].slots[l].state = "PENDING", <<g, l>> \notin {<<f, k>>}
               PROVE  IF t.fe[g].isRead THEN ChunksOf(t.readChunks, g, l) # {}
                      ELSE ChunksOf(t.writeChunks, g, l) # {}
    BY Zenon DEF PendingWaits
  <2>1. CASE g # f
    <3>1. t.fe[g] = s.fe[g]
      BY <1>7, <2>1, Zenon
    <3> QED BY <1>7, <3>1, Zenon DEF Good, PendingWaits
  <2>2. CASE g = f
    <3>1. l # k /\ s.fe[f].slots[l].state = "PENDING"
      BY <1>8, <2>2, Zenon
    <3>2. s.fe[f].isRead
      BY <3>1, Zenon DEF ReadyToRead
    <3>3. ChunksOf(s.readChunks, f, l) # {}
      BY <3>1, <3>2, Zenon DEF Good, PendingWaits
    <3> QED BY <1>7, <1>8, <2>2, <3>3, ZenonT(60)
  <2> QED BY <2>1, <2>2, Zenon
<1>14. /\ U \in Tickets /\ U[f][d].job = s.fe[f].jobCounter + 1 /\ U[f][d].val = C[f][i]
       /\ \A g \in Frontends, x \in Dests : g # f \/ x # d => U[g][x] = T[g][x]
  <2>1. C[f][i] \in Values
    BY <1>1, Zenon DEF Contents
  <2> DEFINE r == [job |-> s.fe[f].jobCounter + 1, val |-> C[f][i]]
  <2>2. r \in [job : Nat, val : Values] /\ r.job = s.fe[f].jobCounter + 1 /\ r.val = C[f][i]
    BY <1>1, <2>1
  <2> HIDE DEF r
  <2>3. U = [T EXCEPT ![f][d] = r]
    BY Zenon DEF r, Asked
  <2> QED BY <1>1, <2>2, <2>3, Zenon DEF Tickets
<1>15. ReadsComing(t, U)
  <2> SUFFICES ASSUME NEW g \in Frontends, t.fe[g].isRead
               PROVE  /\ t.fe[g].doneCounter <= t.fe[g].jobCounter
                      /\ \A l \in Ring : t.fe[g].slots[l].state # "EMPTY" => Coming(t, U, g, l)
                      /\ Separate(t, g)
    BY Zenon DEF ReadsComing
  <2>1. CASE g # f
    <3>1. t.fe[g] = s.fe[g] /\ t.data = s.data /\ \A x \in Dests : U[g][x] = T[g][x]
      BY <1>7, <1>14, <2>1, Zenon
    <3>2. /\ s.fe[g].doneCounter <= s.fe[g].jobCounter
          /\ \A l \in Ring : s.fe[g].slots[l].state # "EMPTY" => Coming(s, T, g, l)
          /\ Separate(s, g)
      BY <3>1, Zenon DEF Good, ReadsComing
    <3>3. \A l \in Ring : Coming(s, T, g, l) => Coming(t, U, g, l)
      BY ONLY <3>1, ZenonT(60) DEF Coming
    <3>4. Separate(t, g)
      BY ONLY <3>1, <3>2 DEF Separate
    <3> QED BY <3>1, <3>2, <3>3, <3>4, ZenonT(60)
  <2>2. CASE g = f
    <3>1. t.fe[f].doneCounter <= t.fe[f].jobCounter
      BY <1>8, ZenonT(60) DEF ReadyToRead
    <3>2. \A l \in Ring : s.fe[f].slots[l].state # "EMPTY" =>
                            s.fe[f].slots[l].outAddr # d /\ s.fe[f].isRead
      BY DEF ReadyToRead
    <3>3. ASSUME NEW l \in Ring \ {k}, t.fe[f].slots[l].state # "EMPTY"
          PROVE  Coming(t, U, f, l)
      <4>1. t.fe[f].slots[l] = s.fe[f].slots[l] /\ s.fe[f].slots[l].outAddr # d /\ s.fe[f].isRead
        BY <1>8, <3>2, <3>3, Zenon
      <4>2. Coming(s, T, f, l)
        BY <3>3, <4>1, Zenon DEF Good, ReadsComing
      <4>3. \A x \in Dests \ {d} : U[f][x] = T[f][x]
        BY <1>14, Zenon
      <4>4. t.fe[f].doneCounter = s.fe[f].doneCounter /\ t.data = s.data
        BY <1>7, <1>8, Zenon
      <4> QED BY ONLY <4>1, <4>2, <4>3, <4>4, ZenonT(60) DEF Coming
    <3>4. Coming(t, U, f, k)
      <4>1. s.data[f][i] = [val |-> C[f][i], page |-> i]
        <5>1. Upcoming(s, f, i) = [val |-> C[f][i], page |-> i]
          BY Zenon DEF Good, Kept
        <5>2. ChunksFor(s.writeChunks, f, i) = {}
          BY <1>10, ZenonT(60) DEF ChunksFor
        <5> QED BY <5>1, <5>2, Zenon DEF Upcoming
      <4>2. U[f][d].job > t.fe[f].doneCounter
        BY <1>1, <1>8, <1>14, SMTT(30) DEF ReadyToRead
      <4>3. /\ t.fe[f].slots[k] = n /\ n.state = "PENDING" /\ n.outAddr = d /\ n.nounce = i
            /\ t.data = s.data /\ U[f][d].val = C[f][i] /\ i \in Pages
        BY <1>1, <1>2, <1>7, <1>8, <1>14, ZenonT(60)
      <4> QED BY ONLY <4>1, <4>2, <4>3, d \in Dests, Zenon DEF Coming
    <3>5. Separate(t, f)
      <4>1. \A l \in Ring \ {k} : t.fe[f].slots[l].state # "EMPTY" =>
              /\ t.fe[f].slots[l].outAddr # t.fe[f].slots[k].outAddr /\ s.fe[f].isRead
              /\ t.fe[f].slots[l] = s.fe[f].slots[l]
        BY <1>2, <1>8, <3>2, ZenonT(60)
      <4>2. s.fe[f].isRead => Separate(s, f)
        BY Zenon DEF Good, ReadsComing
      <4> QED BY ONLY <4>1, <4>2, SMTT(30) DEF Separate
    <3> QED BY <2>2, <3>1, <3>3, <3>4, <3>5, ZenonT(60)
  <2> QED BY <2>1, <2>2, Zenon
<1>16. Delivered(t, U)
  <2> SUFFICES ASSUME NEW g \in Frontends, NEW x \in Dests, t.dest[g][x] # U[g][x].val
               PROVE  t.fe[g].isRead /\ \E l \in Ring : /\ t.fe[g].slots[l].state # "EMPTY"
                                                        /\ t.fe[g].slots[l].outAddr = x
    BY Zenon DEF Delivered
  <2>1. CASE g = f /\ x = d
    BY <1>1, <1>2, <1>8, <2>1, ZenonT(60)
  <2>2. CASE ~(g = f /\ x = d)
    <3>1. s.dest[g][x] # T[g][x].val
      BY <1>7, <1>14, <2>2, Zenon
    <3>2. PICK l \in Ring : /\ s.fe[g].isRead /\ s.fe[g].slots[l].state # "EMPTY"
                            /\ s.fe[g].slots[l].outAddr = x
      BY <3>1, Zenon DEF Good, Delivered
    <3>3. CASE g = f
      <4>1. l # k
        BY <1>9, <3>2, <3>3, Zenon
      <4> QED BY <1>8, <3>2, <3>3, <4>1, ZenonT(60)
    <3>4. CASE g # f
      BY <1>7, <3>2, <3>4, ZenonT(60)
    <3> QED BY <3>3, <3>4, Zenon
  <2> QED BY <2>1, <2>2, ZenonT(30)
<1>17. Kept(t, C, {<<f, k>>})
  <2>1. \A g \in Frontends : t.fe[g].modified = s.fe[g].modified
    BY <1>7, <1>8, Zenon
  <2>2. \A g \in Frontends : \A j \in s.fe[g].modified : Upcoming(t, g, j) = Upcoming(s, g, j)
    BY <1>7, Zenon DEF Upcoming
  <2>3. \A g \in Frontends : \A j \in s.fe[g].modified :
          Upcoming(s, g, j) = [val |-> C[g][j], page |-> j]
    BY Zenon DEF Good, Kept
  <2> QED BY <2>1, <2>2, <2>3, SMTT(30) DEF Kept
<1>18. \A g \in Frontends, l \in Ring : <<g, l>> \in {<<f, k>>} =>
                                          t.fe[g].slots[l].state = "PENDING"
  BY <1>2, <1>8, Zenon
<1>19. Fits(t.readChunks) /\ Fits(t.writeChunks) /\ OneEach(t.readChunks) /\ OneEach(t.writeChunks)
  BY <1>7, Zenon DEF Good
<1>u. Untouched(t, C)
  <2>1. \A g \in Frontends : t.fe[g].modified = s.fe[g].modified
    BY <1>7, <1>8, SMTT(30)
  <2>2. Untouched(s, C)
    BY DEF Good
  <2> QED BY ONLY <2>1, <2>2, UntouchedStays, ZenonT(60)
<1>20. Good(t, C, U, {<<f, k>>})
  BY <1>1, <1>6, <1>7, <1>11, <1>12, <1>13, <1>14, <1>15, <1>16,
     <1>17, <1>18, <1>19, <1>u, ZenonT(60) DEF Good
<1> QED BY <1>1, <1>2, <1>8, <1>20, ZenonT(60) DEF HandsRead

\* What a queue is after a chunk is appended.
LEMMA AppendChunk ==
  ASSUME NEW A, NEW q \in Seq(A), NEW c \in A, NEW r, r = Append(q, c)
  PROVE  /\ r \in Seq(A) /\ DOMAIN r = DOMAIN q \cup {Len(q) + 1}
         /\ Len(q) + 1 \notin DOMAIN q /\ r[Len(q) + 1] = c
         /\ \A n \in DOMAIN q : r[n] = q[n] /\ n \in Nat /\ n < Len(q) + 1
  BY SMTT(30)

\* The backend's ReadLazy queues the pending slot, after a flush if the queue is full.
LEMMA ReadLazyGood ==
  ASSUME NEW s, NEW C, NEW T, NEW f \in Frontends, NEW k \in Ring, NEW i \in Pages,
         Good(s, C, T, {<<f, k>>}), HandsRead(s, f, i, k),
         NEW t, t = BackendReadLazy(s, f, i)
  PROVE  Good(t, C, T, {}) /\ t.fe[f].jobCounter = s.fe[f].jobCounter
<1> USE DEF HandsRead
<1> DEFINE X == {<<f, k>>}
           u == IF Full(s.readChunks) THEN BackendFlushRead(s) ELSE s
           q == u.readChunks
           c == [f |-> f, slot |-> k, page |-> i]
           r == Append(q, c)
<1>1. /\ Good(u, C, T, X) /\ ~Full(q) /\ u.fe[f].isRead
      /\ u.fe[f].bufferIdx = k /\ u.fe[f].jobCounter = s.fe[f].jobCounter
      /\ u.fe[f].slots[k].nounce = i
  <2>1. CASE Full(s.readChunks)
    <3>1. u = BackendFlushRead(s)
      BY <2>1, ZenonT(60)
    <3> HIDE DEF u
    <3>2. Good(u, C, T, X) /\ SameJobs(s, u) /\ u.readChunks = <<>>
      BY <3>1, FlushReadGood, SMTT(30)
    <3> QED BY <3>2, EmptyNotFull, Zenon DEF SameJobs
  <2>2. CASE ~Full(s.readChunks)
    BY <2>2
  <2> QED BY <2>1, <2>2, Zenon
<1>2. t = [u EXCEPT !.readChunks = r]
  BY <1>1, Zenon DEF BackendReadLazy
<1> HIDE DEF u, HandsRead
<1>3. /\ u \in System /\ C \in Contents /\ T \in Tickets /\ ~u.aborted
      /\ q \in Seq(ReadChunk) /\ c \in ReadChunk
      /\ u.fe[f].slots[k].state = "PENDING"
  BY <1>1, Zenon DEF Good, System, ReadChunk
<1>4. /\ r \in Seq(ReadChunk) /\ DOMAIN r = DOMAIN q \cup {Len(q) + 1}
      /\ Len(q) + 1 \notin DOMAIN q /\ r[Len(q) + 1] = c
      /\ \A n \in DOMAIN q : r[n] = q[n]
  BY <1>3, AppendChunk, SMTT(30)
<1>5. Fits(r)
  BY <1>1, <1>3, RoomForOne, Zenon
<1>6. c.f = f /\ c.slot = k /\ c.page = i
  BY Zenon
<1> HIDE DEF r, c
<1>7. /\ t.fe = u.fe /\ t.data = u.data /\ t.readChunks = r /\ t.writeChunks = u.writeChunks
      /\ t.dest = u.dest /\ t.aborted = u.aborted /\ t \in System
  BY <1>2, <1>3, <1>4, Zenon DEF System
<1>8. \A n \in DOMAIN q : /\ u.fe[q[n].f].isRead /\ <<q[n].f, q[n].slot>> \notin X
                          /\ u.fe[q[n].f].slots[q[n].slot].state = "PENDING"
                          /\ u.fe[q[n].f].slots[q[n].slot].nounce = q[n].page
  BY <1>1, Zenon DEF Good, ReadsPoint
<1>9. ReadsPoint(t, {})
  <2> SUFFICES ASSUME NEW n \in DOMAIN r
               PROVE  /\ u.fe[r[n].f].isRead
                      /\ u.fe[r[n].f].slots[r[n].slot].state = "PENDING"
                      /\ u.fe[r[n].f].slots[r[n].slot].nounce = r[n].page
    BY <1>7 DEF ReadsPoint
  <2>1. CASE n \in DOMAIN q
    BY <1>4, <1>8, <2>1, Zenon
  <2>2. CASE n = Len(q) + 1
    BY <1>1, <1>3, <1>4, <1>6, <2>2, ZenonT(60)
  <2> QED BY <1>4, <2>1, <2>2, ZenonT(60)
<1>10. OneEach(r)
  <2>1. \A n \in DOMAIN q : ~(q[n].f = f /\ q[n].slot = k)
    BY <1>8, ZenonT(60)
  <2>2. OneEach(q)
    BY <1>1 DEF Good
  <2> QED BY <1>4, <1>6, <2>1, <2>2, SMTT(60) DEF OneEach
<1>11. WritesPoint(t, {})
  <2>1. WritesPoint(u, X)
    BY <1>1, ZenonT(30) DEF Good
  <2>2. WritesPoint(u, {})
    BY ONLY <2>1, ZenonT(30) DEF WritesPoint
  <2> QED BY ONLY <1>7, <2>2, Zenon DEF WritesPoint
<1>12. PendingWaits(t, {})
  <2> SUFFICES ASSUME NEW g \in Frontends, NEW l \in Ring, u.fe[g].slots[l].state = "PENDING"
               PROVE  IF u.fe[g].isRead THEN ChunksOf(r, g, l) # {}
                      ELSE ChunksOf(u.writeChunks, g, l) # {}
    BY <1>7, Zenon DEF PendingWaits
  <2>1. CASE <<g, l>> \in X
    <3>1. g = f /\ l = k
      BY <2>1, Zenon
    <3>2. Len(q) + 1 \in ChunksOf(r, f, k)
      BY <1>4, <1>6, ZenonT(60) DEF ChunksOf
    <3> QED BY <1>1, <3>1, <3>2, Zenon
  <2>2. CASE <<g, l>> \notin X
    <3>1. IF u.fe[g].isRead THEN ChunksOf(q, g, l) # {}
          ELSE ChunksOf(u.writeChunks, g, l) # {}
      BY <1>1, <2>2, ZenonT(30) DEF Good, PendingWaits
    <3>2. ChunksOf(q, g, l) \subseteq ChunksOf(r, g, l)
      BY <1>4, Zenon DEF ChunksOf
    <3> QED BY <3>1, <3>2
  <2> QED BY <2>1, <2>2, Zenon
<1>13. ReadsComing(t, T)
  <2>1. \A g \in Frontends, l \in Ring : Coming(u, T, g, l) => Coming(t, T, g, l)
    BY ONLY <1>7, ZenonT(60) DEF Coming
  <2>2. \A g \in Frontends : Separate(u, g) => Separate(t, g)
    BY ONLY <1>7, SMTT(30) DEF Separate
  <2>3. ReadsComing(u, T)
    BY <1>1, ZenonT(30) DEF Good
  <2> QED BY ONLY <1>7, <2>1, <2>2, <2>3, SMTT(60) DEF ReadsComing
<1>14. Delivered(t, T)
  <2>1. Delivered(u, T)
    BY <1>1, ZenonT(60) DEF Good
  <2> QED BY ONLY <1>7, <2>1, SMTT(30) DEF Delivered
<1>15. Kept(t, C, {})
  <2>1. \A g \in Frontends : \A j \in u.fe[g].modified : Upcoming(t, g, j) = Upcoming(u, g, j)
    BY <1>7 DEF Upcoming
  <2>2. \A g \in Frontends : \A j \in u.fe[g].modified :
          Upcoming(u, g, j) = [val |-> C[g][j], page |-> j]
    BY <1>1, Zenon DEF Good, Kept
  <2> QED BY <1>7, <2>1, <2>2, SMTT(30) DEF Kept
<1>16. Fits(u.writeChunks) /\ OneEach(u.writeChunks)
  BY <1>1, Zenon DEF Good
<1>u. Untouched(t, C)
  BY <1>1, <1>7, UntouchedStays, ZenonT(60) DEF Good
<1>17. Good(t, C, T, {})
  BY <1>3, <1>5, <1>7, <1>9, <1>10, <1>11, <1>12, <1>13, <1>14, <1>15, <1>16, <1>u, Zenon DEF Good
<1> QED BY <1>1, <1>7, <1>17

\* The state in which WriteLazy hands f's next job over: the slot is free, and a
\* frontend that was reading has nothing queued.
ReadyToWrite(s, f) ==
  /\ s.fe[f].slots[s.fe[f].bufferIdx].state = "EMPTY"
  /\ s.fe[f].isRead => \A k \in Ring : s.fe[f].slots[k].state = "EMPTY"

\* Freeing the slot keeps the invariant and makes f ready.
LEMMA FreeForWrite ==
  ASSUME NEW s, NEW C, NEW T, Good(s, C, T, {}), NEW f \in Frontends,
         NEW a, a = IF s.fe[f].isRead THEN flushRead(s, f) ELSE s,
         NEW b, b = FreedForWrite(a, f)
  PROVE  Good(b, C, T, {}) /\ ReadyToWrite(b, f)
<1>0. /\ s \in System /\ s.fe[f] \in Frontend /\ ~s.aborted
      /\ s.fe[f].bufferIdx \in Ring /\ s.fe[f].doneCounter \in Nat
      /\ s.fe[f].slots \in [Ring -> Slot]
  BY Zenon DEF Good, System, Frontend
<1>1. CASE s.fe[f].isRead
  <2>1. Good(a, C, T, {}) /\ Settled(s, a, f)
    BY <1>1, flushReadGood
  <2>2. a.fe[f].bufferIdx \in Ring /\ \A k \in Ring : a.fe[f].slots[k].state = "EMPTY"
    BY <1>0, <2>1, Zenon DEF Settled
  <2>3. b = a
    BY <2>2, ZenonT(30) DEF FreedForWrite
  <2> QED BY <2>1, <2>2, <2>3, ZenonT(60) DEF ReadyToWrite
<1>2. CASE ~s.fe[f].isRead
  <2> DEFINE k == s.fe[f].bufferIdx
  <2>0. a = s
    BY <1>2, Zenon
  <2>1. CASE s.fe[f].slots[k].state = "DONE"
    <3> DEFINE slots == [s.fe[f].slots EXCEPT ![k] = EmptySlot]
               n == s.fe[f].doneCounter + 1
               e == [s.fe[f] EXCEPT !.slots = slots, !.doneCounter = n]
    <3>1. b = [s EXCEPT !.fe[f] = e]
      BY <2>0, <2>1, Zenon DEF FreedForWrite
    <3>2. EmptySlot \in Slot /\ EmptySlot.state = "EMPTY"
      BY BatchAssumption, Zenon DEF EmptySlot, Slot, AnyCipher
    <3>3. slots \in [Ring -> Slot] /\ n \in Nat
      BY <1>0, <3>2, SMTT(30)
    <3>4. slots[k] = EmptySlot /\ \A l \in Ring \ {k} : slots[l] = s.fe[f].slots[l]
      BY <1>0, Zenon
    <3> HIDE DEF slots, n
    <3>5. /\ e \in Frontend /\ e.slots = slots /\ e.isRead = s.fe[f].isRead
          /\ e.modified = s.fe[f].modified /\ e.bufferIdx = s.fe[f].bufferIdx
          /\ e.jobCounter = s.fe[f].jobCounter
      BY <1>0, <3>3, Zenon DEF Frontend
    <3> HIDE DEF e
    <3>6. b \in System /\ Replaced(s, b, f, e) /\ b.aborted = s.aborted
      BY <1>0, <3>1, <3>5, ReplaceOne
    <3>7. OnlyOf(s, b, f) /\ b.dest = s.dest /\ ~b.aborted /\ b.fe[f].slots = slots
      BY <1>0, <3>5, <3>6, ZenonT(30) DEF OnlyOf, Replaced
    <3>8. \A l \in Ring : \/ b.fe[f].slots[l] = s.fe[f].slots[l]
                          \/ /\ s.fe[f].slots[l].state # "PENDING"
                             /\ b.fe[f].slots[l].state = "EMPTY"
      BY <2>1, <3>2, <3>4, <3>7, ZenonT(60)
    <3>9. Good(b, C, T, {})
      BY <1>2, <3>6, <3>7, <3>8, SettleGood, SMTT(30)
    <3>10. ReadyToWrite(b, f)
      BY <1>0, <1>2, <3>2, <3>4, <3>7, SMTT(60) DEF ReadyToWrite, OnlyOf
    <3> QED BY <3>9, <3>10, Zenon
  <2>2. CASE s.fe[f].slots[k].state = "PENDING"
    <3>1. b = flushWrite(s, f)
      BY <2>0, <2>2, ZenonT(30) DEF FreedForWrite
    <3>2. Good(b, C, T, {}) /\ Settled(s, b, f)
      BY <1>2, <3>1, flushWriteGood, Zenon
    <3>3. b.fe[f].bufferIdx \in Ring /\ \A l \in Ring : b.fe[f].slots[l].state = "EMPTY"
      BY <1>0, <3>2, ZenonT(60) DEF Settled
    <3> QED BY <3>2, <3>3, Zenon DEF ReadyToWrite
  <2>3. CASE s.fe[f].slots[k].state \notin {"DONE", "PENDING"}
    <3>1. b = s
      BY <2>0, <2>3, ZenonT(30) DEF FreedForWrite
    <3>2. s.fe[f].slots[k].state \in {"EMPTY", "PENDING", "DONE"}
      BY <1>0, Zenon DEF Slot
    <3> QED BY <1>2, <2>3, <3>1, <3>2 DEF ReadyToWrite
  <2> QED BY <2>1, <2>2, <2>3, Zenon
<1> QED BY <1>1, <1>2

\* Marking the slot pending for a new write.
LEMMA PendWriteGood ==
  ASSUME NEW s, NEW C, NEW T, Good(s, C, T, {}), NEW f \in Frontends, ReadyToWrite(s, f),
         NEW i \in Pages, NEW v \in Values,
         NEW t, NEW k, PendsWrite(s, t, f, i, v, k)
  PROVE  Good(t, C, T, {<<f, k>>}) /\ HandsWrite(t, f, i, v, k)
<1>0. k = s.fe[f].bufferIdx
  BY DEF PendsWrite
<1>1. /\ s \in System /\ C \in Contents /\ T \in Tickets /\ ~s.aborted
      /\ s.fe[f] \in Frontend /\ s.fe[f].slots \in [Ring -> Slot]
      /\ k \in Ring /\ s.fe[f].modified \in SUBSET Pages
  BY <1>0, Zenon DEF Good, System, Frontend
<1> DEFINE o == s.fe[f].slots[k]
           w == [val |-> v, page |-> i]
           n == [o EXCEPT !.state = "PENDING", !.enc = w]
           M == s.fe[f].modified \cup {i}
           e == PendingWrite(s.fe[f], i, v)
<1>2. n \in Slot /\ n.state = "PENDING" /\ n.enc = w
  <2>1. o \in Slot
    BY <1>1, Zenon
  <2>2. w \in AnyCipher
    BY Zenon DEF AnyCipher, Cipher
  <2> HIDE DEF o, w
  <2> QED BY <2>1, <2>2, ZenonT(30) DEF Slot
<1>3. e = [s.fe[f] EXCEPT !.isRead = FALSE, !.modified = M,
                          !.slots = [s.fe[f].slots EXCEPT ![k] = n]]
  BY <1>0, Zenon DEF PendingWrite
<1>4. [s.fe[f].slots EXCEPT ![k] = n] \in [Ring -> Slot] /\ M \in SUBSET Pages /\ w.page = i
  <2>1. M \in SUBSET Pages /\ w.page = i
    BY <1>1, Zenon
  <2> HIDE DEF n
  <2> QED BY <1>1, <1>2, <2>1, Zenon
<1> HIDE DEF n, w, M
<1>5. /\ e \in Frontend /\ e.isRead = FALSE /\ e.modified = M /\ e.bufferIdx = k
      /\ e.slots = [s.fe[f].slots EXCEPT ![k] = n]
  BY <1>0, <1>1, <1>3, <1>4, ZenonT(60) DEF Frontend
<1> HIDE DEF e
<1>6. t \in System /\ Replaced(s, t, f, e) /\ t.aborted = s.aborted
  BY <1>1, <1>5, ReplaceOne, SMTT(30) DEF e, PendsWrite
<1>7. /\ t.dest = s.dest /\ t.data = s.data /\ ~t.aborted
      /\ t.readChunks = s.readChunks /\ t.writeChunks = s.writeChunks
      /\ \A g \in Frontends \ {f} : t.fe[g] = s.fe[g]
  BY <1>1, <1>6, Zenon DEF Replaced
<1>8. /\ ~t.fe[f].isRead /\ t.fe[f].modified = M /\ t.fe[f].bufferIdx = k
      /\ t.fe[f].slots[k] = n
      /\ \A l \in Ring \ {k} : t.fe[f].slots[l] = s.fe[f].slots[l]
  BY <1>1, <1>5, <1>6, ZenonT(30) DEF Replaced
<1>9. s.fe[f].slots[k].state = "EMPTY"
  BY <1>0, Zenon DEF ReadyToWrite
<1>10. ReadsPoint(t, {<<f, k>>})
  <2> SUFFICES ASSUME NEW m \in DOMAIN s.readChunks, NEW c \in ReadChunk, c = s.readChunks[m]
               PROVE  /\ t.fe[c.f].isRead /\ <<c.f, c.slot>> \notin {<<f, k>>}
                      /\ t.fe[c.f].slots[c.slot].state = "PENDING"
                      /\ t.fe[c.f].slots[c.slot].nounce = c.page
    BY <1>1, <1>7, ChunkTypes, ZenonT(30) DEF ReadsPoint
  <2>1. c.f \in Frontends /\ c.slot \in Ring
    BY Zenon DEF ReadChunk
  <2>2. /\ s.fe[c.f].isRead
        /\ s.fe[c.f].slots[c.slot].state = "PENDING"
        /\ s.fe[c.f].slots[c.slot].nounce = c.page
    BY Zenon DEF Good, ReadsPoint
  <2>3. c.f # f
    BY <2>1, <2>2, Zenon DEF ReadyToWrite
  <2> QED BY <1>7, <2>1, <2>2, <2>3, ZenonT(30)
<1>11. WritesPoint(t, {<<f, k>>})
  <2> SUFFICES ASSUME NEW m \in DOMAIN s.writeChunks, NEW c \in WriteChunk, c = s.writeChunks[m]
               PROVE  /\ ~t.fe[c.f].isRead /\ <<c.f, c.slot>> \notin {<<f, k>>}
                      /\ t.fe[c.f].slots[c.slot].state = "PENDING"
                      /\ c.enc.page = c.page
    BY <1>1, <1>7, ChunkTypes, ZenonT(30) DEF WritesPoint
  <2>1. c.f \in Frontends /\ c.slot \in Ring
    BY Zenon DEF WriteChunk
  <2>2. /\ ~s.fe[c.f].isRead
        /\ s.fe[c.f].slots[c.slot].state = "PENDING"
        /\ c.enc.page = c.page
    BY Zenon DEF Good, WritesPoint
  <2>3. CASE c.f = f
    <3>1. c.slot # k
      BY <1>9, <2>2, <2>3, Zenon
    <3>2. t.fe[f].slots[c.slot] = s.fe[f].slots[c.slot]
      BY <1>8, <2>1, <3>1, Zenon
    <3>3. <<c.f, c.slot>> # <<f, k>>
      BY <3>1, Zenon
    <3> QED BY <1>8, <2>2, <2>3, <3>2, <3>3, ZenonT(60)
  <2>4. CASE c.f # f
    BY <1>7, <2>1, <2>2, <2>4, ZenonT(30)
  <2> QED BY <2>3, <2>4, Zenon
<1>12. PendingWaits(t, {<<f, k>>})
  <2> SUFFICES ASSUME NEW g \in Frontends, NEW l \in Ring,
                      t.fe[g].slots[l].state = "PENDING", <<g, l>> \notin {<<f, k>>}
               PROVE  IF t.fe[g].isRead THEN ChunksOf(t.readChunks, g, l) # {}
                      ELSE ChunksOf(t.writeChunks, g, l) # {}
    BY DEF PendingWaits
  <2>1. CASE g # f
    <3>1. t.fe[g] = s.fe[g]
      BY <1>7, <2>1, Zenon
    <3> QED BY <1>7, <3>1, ZenonT(30) DEF Good, PendingWaits
  <2>2. CASE g = f
    <3>1. l # k /\ s.fe[f].slots[l].state = "PENDING"
      BY <1>8, <2>2, ZenonT(60)
    <3>2. ~s.fe[f].isRead
      BY <3>1 DEF ReadyToWrite
    <3>3. ChunksOf(s.writeChunks, f, l) # {}
      BY <3>1, <3>2, Zenon DEF Good, PendingWaits
    <3> QED BY <1>7, <1>8, <2>2, <3>3, Zenon
  <2> QED BY <2>1, <2>2, Zenon
<1>13. ReadsComing(t, T)
  <2> SUFFICES ASSUME NEW g \in Frontends, t.fe[g].isRead
               PROVE  /\ t.fe[g].doneCounter <= t.fe[g].jobCounter
                      /\ \A l \in Ring : t.fe[g].slots[l].state # "EMPTY" => Coming(t, T, g, l)
                      /\ Separate(t, g)
    BY Zenon DEF ReadsComing
  <2>1. t.fe[g] = s.fe[g] /\ t.data = s.data
    BY <1>7, <1>8
  <2>2. /\ s.fe[g].doneCounter <= s.fe[g].jobCounter
        /\ \A l \in Ring : s.fe[g].slots[l].state # "EMPTY" => Coming(s, T, g, l)
        /\ Separate(s, g)
    BY <2>1, Zenon DEF Good, ReadsComing
  <2>3. \A l \in Ring : Coming(s, T, g, l) => Coming(t, T, g, l)
    BY ONLY <2>1, ZenonT(30) DEF Coming
  <2>4. Separate(t, g)
    BY ONLY <2>1, <2>2, ZenonT(60) DEF Separate
  <2> QED BY <2>1, <2>2, <2>3, <2>4, ZenonT(30)
<1>14. Delivered(t, T)
  <2> SUFFICES ASSUME NEW g \in Frontends, NEW x \in Dests, s.dest[g][x] # T[g][x].val
               PROVE  t.fe[g].isRead /\ \E l \in Ring : /\ t.fe[g].slots[l].state # "EMPTY"
                                                        /\ t.fe[g].slots[l].outAddr = x
    BY <1>7 DEF Delivered
  <2>1. s.fe[g].isRead /\ \E l \in Ring : /\ s.fe[g].slots[l].state # "EMPTY"
                                          /\ s.fe[g].slots[l].outAddr = x
    BY ZenonT(30) DEF Good, Delivered
  <2>2. g # f
    BY <2>1, ZenonT(60) DEF ReadyToWrite
  <2> QED BY <1>7, <2>1, <2>2, ZenonT(60)
<1>15. Kept(t, C, {<<f, k>>})
  <2> SUFFICES ASSUME NEW g \in Frontends, NEW j \in t.fe[g].modified
               PROVE  \/ Upcoming(t, g, j) = [val |-> C[g][j], page |-> j]
                      \/ \E l \in Ring : /\ <<g, l>> \in {<<f, k>>} /\ ~t.fe[g].isRead
                                         /\ t.fe[g].slots[l].enc.page = j
    BY Zenon DEF Kept
  <2>1. CASE g = f /\ j = i
    BY <1>1, <1>2, <1>4, <1>8, <2>1, ZenonT(60)
  <2>2. CASE ~(g = f /\ j = i)
    <3>1. j \in s.fe[g].modified
      BY <1>7, <1>8, <2>2 DEF M
    <3>2. Upcoming(s, g, j) = [val |-> C[g][j], page |-> j]
      BY <3>1, ZenonT(30) DEF Good, Kept
    <3>3. Upcoming(t, g, j) = Upcoming(s, g, j)
      BY <1>7, Zenon DEF Upcoming
    <3> QED BY <3>2, <3>3, ZenonT(60)
  <2> QED BY <2>1, <2>2
<1>16. \A g \in Frontends, l \in Ring : <<g, l>> \in {<<f, k>>} =>
                                          t.fe[g].slots[l].state = "PENDING"
  BY <1>2, <1>8
<1>17. Fits(t.readChunks) /\ Fits(t.writeChunks) /\ OneEach(t.readChunks) /\ OneEach(t.writeChunks)
  BY <1>7, Zenon DEF Good
<1>u. Untouched(t, C)
  <2>1. \A g \in Frontends : s.fe[g].modified \subseteq t.fe[g].modified
    BY <1>7, <1>8 DEF M
  <2> QED BY <2>1, ZenonT(30) DEF Good, Untouched
<1>18. Good(t, C, T, {<<f, k>>})
  BY <1>1, <1>6, <1>7, <1>10, <1>11, <1>12, <1>13, <1>14, <1>15, <1>16, <1>17, <1>u, ZenonT(60) DEF Good
<1> QED BY <1>1, <1>2, <1>8, <1>18, ZenonT(60) DEF w, M, HandsWrite

\* Appending a write makes its page's contents what it writes, and no other's.
LEMMA AppendUpcoming ==
  ASSUME NEW u \in System, NEW f \in Frontends, NEW i \in Pages,
         NEW c \in WriteChunk, c.f = f, c.page = i,
         NEW t, t.data = u.data, t.writeChunks = Append(u.writeChunks, c)
  PROVE  /\ Upcoming(t, f, i) = c.enc
         /\ \A g \in Frontends, j \in Pages :
              g # f \/ j # i => Upcoming(t, g, j) = Upcoming(u, g, j)
<1> DEFINE q == u.writeChunks
           r == Append(q, c)
           N == Len(q) + 1
<1>1. q \in Seq(WriteChunk)
  BY Zenon DEF System
<1>2. /\ r \in Seq(WriteChunk) /\ DOMAIN r = DOMAIN q \cup {N}
      /\ N \notin DOMAIN q /\ r[N] = c
      /\ \A n \in DOMAIN q : r[n] = q[n] /\ n \in Nat /\ n < N
  BY <1>1, AppendChunk
<1>3. N \in Nat /\ Len(r) = N
  BY <1>1, SMTT(30)
<1> HIDE DEF r, N
<1>4. Upcoming(t, f, i) = c.enc
  <2> DEFINE S == ChunksFor(r, f, i)
  <2>1. N \in S /\ \A n \in S : n \in DOMAIN q \cup {N}
    BY <1>2, Zenon DEF ChunksFor
  <2>2. S \in SUBSET (0 .. N)
    BY <1>2, <1>3, ChunksType
  <2> HIDE DEF S
  <2>3. Max(S) \in S /\ \A x \in S : x <= Max(S)
    BY <1>3, <2>1, <2>2, LastOf, Zenon
  <2>4. Max(S) = N
    <3> DEFINE m == Max(S)
    <3>1. m \in DOMAIN q \cup {N} /\ N <= m
      BY <2>1, <2>3, Zenon
    <3>2. \A n \in DOMAIN q : n \in Nat /\ n < N
      BY <1>2, Zenon
    <3> HIDE DEF m
    <3>3. m = N
      BY ONLY <1>3, <3>1, <3>2
    <3> QED BY <3>3, Zenon DEF m
  <2> QED BY <1>2, <2>1, <2>4, Zenon DEF Upcoming, S, r
<1>5. ASSUME NEW g \in Frontends, NEW j \in Pages, g # f \/ j # i
      PROVE  Upcoming(t, g, j) = Upcoming(u, g, j)
  <2>1. ChunksFor(r, g, j) = ChunksFor(q, g, j)
    BY <1>2, <1>5, Zenon DEF ChunksFor
  <2>2. CASE ChunksFor(q, g, j) = {}
    BY <2>1, <2>2, Zenon DEF Upcoming, r
  <2>3. CASE ChunksFor(q, g, j) # {}
    <3>1. Max(ChunksFor(q, g, j)) \in ChunksFor(q, g, j)
      BY <1>1, <2>3, ChunksType, LastOf, Zenon
    <3>2. r[Max(ChunksFor(q, g, j))] = q[Max(ChunksFor(q, g, j))]
      BY <1>2, <3>1, Zenon DEF ChunksFor
    <3> QED BY <2>1, <2>3, <3>2, Zenon DEF Upcoming, r
  <2> QED BY <2>2, <2>3, Zenon
<1> QED BY <1>4, <1>5, Zenon

\* The backend's WriteLazy queues the pending slot, after a flush if the queue is full.
LEMMA WriteLazyGood ==
  ASSUME NEW s, NEW C, NEW T, NEW f \in Frontends, NEW k \in Ring, NEW i \in Pages,
         NEW v \in Values, Good(s, C, T, {<<f, k>>}), HandsWrite(s, f, i, v, k),
         NEW D, D = [C EXCEPT ![f][i] = v],
         NEW t, t = BackendWriteLazy(s, f, i)
  PROVE  Good(t, D, T, {})
<1> USE DEF HandsWrite
<1> DEFINE X == {<<f, k>>}
           w == [val |-> v, page |-> i]
           u == IF Full(s.writeChunks) THEN BackendFlushWrite(s) ELSE s
           q == u.writeChunks
           c == [f |-> f, slot |-> k, page |-> i, enc |-> w]
           r == Append(q, c)
<1>1. /\ Good(u, C, T, X) /\ ~Full(q) /\ ~u.fe[f].isRead
      /\ u.fe[f].bufferIdx = k /\ i \in u.fe[f].modified
      /\ u.fe[f].slots[k].enc = w
  <2>1. CASE Full(s.writeChunks)
    <3>1. u = BackendFlushWrite(s)
      BY <2>1, ZenonT(60)
    <3> HIDE DEF u, w
    <3>2. Good(u, C, T, X) /\ SameJobs(s, u) /\ u.writeChunks = <<>>
      BY <3>1, FlushWriteGood, SMTT(30)
    <3>3. u.fe[f].slots[k] = s.fe[f].slots[k]
      <4>1. WritesPoint(s, X) /\ s \in System
        BY Zenon DEF Good
      <4>2. ASSUME NEW n \in ChunksOf(s.writeChunks, f, k) PROVE FALSE
        <5>1. n \in DOMAIN s.writeChunks /\ s.writeChunks[n].f = f /\ s.writeChunks[n].slot = k
          BY Zenon DEF ChunksOf
        <5>2. <<s.writeChunks[n].f, s.writeChunks[n].slot>> \notin X
          BY ONLY <4>1, <5>1, Zenon DEF WritesPoint
        <5> QED BY <5>1, <5>2, Zenon
      <4>3. ChunksOf(s.writeChunks, f, k) = {}
        BY <4>2, Zenon
      <4> QED BY <3>1, <4>1, <4>3, FlushWriteShape, SMTT(30)
    <3>4. s.fe[f].slots[k].enc = w
      BY Zenon DEF w
    <3> QED BY <3>2, <3>3, <3>4, EmptyNotFull, ZenonT(60) DEF SameJobs
  <2>2. CASE ~Full(s.writeChunks)
    BY <2>2, Zenon
  <2> QED BY <2>1, <2>2, ZenonT(30)
<1>2. t = [u EXCEPT !.writeChunks = r]
  BY <1>1, ZenonT(60) DEF BackendWriteLazy
<1> HIDE DEF u, HandsWrite
<1>3. /\ u \in System /\ C \in Contents /\ T \in Tickets /\ ~u.aborted
      /\ q \in Seq(WriteChunk)
      /\ u.fe[f].slots[k].state = "PENDING"
  BY <1>1 DEF Good, System
<1>c. c \in WriteChunk /\ c.f = f /\ c.slot = k /\ c.page = i /\ c.enc = w /\ w.page = i
  BY ZenonT(30) DEF WriteChunk, Cipher
<1> HIDE DEF c, w
<1>4. /\ r \in Seq(WriteChunk) /\ DOMAIN r = DOMAIN q \cup {Len(q) + 1}
      /\ Len(q) + 1 \notin DOMAIN q /\ r[Len(q) + 1] = c
      /\ \A n \in DOMAIN q : r[n] = q[n]
  BY <1>3, <1>c, AppendChunk, SMTT(60)
<1>5. Fits(r)
  BY <1>1, <1>3, RoomForOne, SMTT(60)
<1>7. /\ t.fe = u.fe /\ t.data = u.data /\ t.readChunks = u.readChunks /\ t.writeChunks = r
      /\ t.dest = u.dest /\ t.aborted = u.aborted /\ t \in System
  <2> HIDE DEF r
  <2> QED BY <1>2, <1>3, <1>4, ZenonT(60) DEF System
<1>6. /\ Upcoming(t, f, i) = w
      /\ \A g \in Frontends, j \in Pages :
              g # f \/ j # i => Upcoming(t, g, j) = Upcoming(u, g, j)
  BY <1>3, <1>7, <1>c, AppendUpcoming, SMTT(60)
<1> HIDE DEF r
<1>8. \A n \in DOMAIN q : /\ ~u.fe[q[n].f].isRead /\ <<q[n].f, q[n].slot>> \notin X
                          /\ u.fe[q[n].f].slots[q[n].slot].state = "PENDING"
                          /\ q[n].enc.page = q[n].page
  BY <1>1, Zenon DEF Good, WritesPoint
<1>9. WritesPoint(t, {})
  <2> SUFFICES ASSUME NEW n \in DOMAIN r
               PROVE  /\ ~u.fe[r[n].f].isRead
                      /\ u.fe[r[n].f].slots[r[n].slot].state = "PENDING"
                      /\ r[n].enc.page = r[n].page
    BY <1>7, ZenonT(60) DEF WritesPoint
  <2>1. CASE n \in DOMAIN q
    BY <1>4, <1>8, <2>1, Zenon
  <2>2. CASE n = Len(q) + 1
    BY <1>1, <1>3, <1>4, <1>c, <2>2, ZenonT(30)
  <2> QED BY <1>4, <2>1, <2>2, ZenonT(60)
<1>10. OneEach(r)
  <2>1. \A n \in DOMAIN q : ~(q[n].f = f /\ q[n].slot = k)
    BY <1>8, ZenonT(30)
  <2>2. OneEach(q)
    BY <1>1, Zenon DEF Good
  <2> QED BY <1>4, <1>c, <2>1, <2>2, ZenonT(60) DEF OneEach
<1>11. ReadsPoint(t, {})
  <2>1. ReadsPoint(u, X)
    BY <1>1, Zenon DEF Good
  <2>2. ReadsPoint(u, {})
    BY ONLY <2>1, ZenonT(30) DEF ReadsPoint
  <2> QED BY ONLY <1>7, <2>2, ZenonT(60) DEF ReadsPoint
<1>12. PendingWaits(t, {})
  <2> SUFFICES ASSUME NEW g \in Frontends, NEW l \in Ring, u.fe[g].slots[l].state = "PENDING"
               PROVE  IF u.fe[g].isRead THEN ChunksOf(u.readChunks, g, l) # {}
                      ELSE ChunksOf(r, g, l) # {}
    BY <1>7, Zenon DEF PendingWaits
  <2>1. CASE <<g, l>> \in X
    <3>1. g = f /\ l = k
      BY <2>1, Zenon
    <3>2. Len(q) + 1 \in ChunksOf(r, f, k)
      BY <1>4, <1>c, Zenon DEF ChunksOf
    <3> QED BY <1>1, <3>1, <3>2, Zenon
  <2>2. CASE <<g, l>> \notin X
    <3>1. IF u.fe[g].isRead THEN ChunksOf(u.readChunks, g, l) # {}
          ELSE ChunksOf(q, g, l) # {}
      BY <1>1, <2>2, Zenon DEF Good, PendingWaits
    <3>2. ChunksOf(q, g, l) \subseteq ChunksOf(r, g, l)
      BY <1>4, Zenon DEF ChunksOf
    <3> QED BY <3>1, <3>2, Zenon
  <2> QED BY <2>1, <2>2, Zenon
<1>13. ReadsComing(t, T)
  <2>1. \A g \in Frontends, l \in Ring : Coming(u, T, g, l) => Coming(t, T, g, l)
    BY ONLY <1>7, ZenonT(60) DEF Coming
  <2>2. \A g \in Frontends : Separate(u, g) => Separate(t, g)
    BY ONLY <1>7, ZenonT(60) DEF Separate
  <2>3. ReadsComing(u, T)
    BY <1>1, Zenon DEF Good
  <2> QED BY ONLY <1>7, <2>1, <2>2, <2>3, ZenonT(60) DEF ReadsComing
<1>14. Delivered(t, T)
  <2>1. Delivered(u, T)
    BY <1>1, Zenon DEF Good
  <2> QED BY ONLY <1>7, <2>1, SMTT(30) DEF Delivered
<1>15. /\ D \in Contents /\ D[f][i] = v
       /\ \A g \in Frontends, j \in Pages : g # f \/ j # i => D[g][j] = C[g][j]
  BY <1>3, Zenon DEF Contents
<1>16. Kept(t, D, {})
  <2> SUFFICES ASSUME NEW g \in Frontends, NEW j \in u.fe[g].modified
               PROVE  Upcoming(t, g, j) = [val |-> D[g][j], page |-> j]
    BY <1>7, Zenon DEF Kept
  <2>0. j \in Pages
    BY <1>3, Zenon DEF System, Frontend
  <2>1. CASE g = f /\ j = i
    BY <1>6, <1>15, <2>1, Zenon DEF w
  <2>2. CASE ~(g = f /\ j = i)
    <3>1. \/ Upcoming(u, g, j) = [val |-> C[g][j], page |-> j]
          \/ \E l \in Ring : <<g, l>> \in X /\ ~u.fe[g].isRead /\ u.fe[g].slots[l].enc.page = j
      BY <1>1, SMTT(30) DEF Good, Kept
    <3>2. ~ \E l \in Ring : <<g, l>> \in X /\ u.fe[g].slots[l].enc.page = j
      BY <1>1, <1>c, <2>2, ZenonT(60)
    <3> QED BY <1>6, <1>15, <2>0, <2>2, <3>1, <3>2, ZenonT(60)
  <2> QED BY <2>1, <2>2, Zenon
<1>17. Untouched(t, D)
  <2>1. Untouched(u, C)
    BY <1>1, Zenon DEF Good
  <2> QED BY <1>1, <1>7, <1>15, <2>1, SMTT(60) DEF Untouched
<1>18. Fits(u.readChunks) /\ OneEach(u.readChunks)
  BY <1>1, ZenonT(60) DEF Good
<1>19. Good(t, D, T, {})
  BY <1>3, <1>5, <1>7, <1>9, <1>10, <1>11, <1>12, <1>13, <1>14, <1>15, <1>16, <1>17, <1>18, SMTT(60) DEF Good
<1> QED BY <1>19

\* The path of ReadLazy for a modified page: the buffer's ticket is the new job.
LEMMA QueueReadGood ==
  ASSUME NEW s, NEW C, NEW T, Good(s, C, T, {}), NEW f \in Frontends,
         NEW i \in s.fe[f].modified, NEW d \in Dests, s.fe[f].doneCounter >= T[f][d].job,
         NEW t, t = QueueRead(s, f, i, d),
         NEW U, U = [T EXCEPT ![f][d] = [job |-> t.fe[f].jobCounter, val |-> C[f][i]]]
  PROVE  Good(t, C, U, {})
<1> DEFINE a == IF ~s.fe[f].isRead THEN flushWrite(s, f) ELSE s
           b == FreedForRead(a, f)
           k == b.fe[f].bufferIdx
           c == [b EXCEPT !.fe[f] = PendingRead(b.fe[f], i, d)]
           e == BackendReadLazy(c, f, i)
           V == [T EXCEPT ![f][d] = [job |-> b.fe[f].jobCounter + 1, val |-> C[f][i]]]
<1>1. t = Enqueued(e, f)
  BY ZenonT(30) DEF QueueRead
<1>2. a = (IF ~s.fe[f].isRead THEN flushWrite(s, f) ELSE s) /\ b = FreedForRead(a, f)
  BY ZenonT(60)
<1> HIDE DEF a, b
<1>3. Good(b, C, T, {}) /\ ReadyToRead(b, f, d) /\ b.fe[f].modified = s.fe[f].modified
  BY <1>2, FreeForRead, SMTT(30)
<1>4. i \in b.fe[f].modified /\ i \in Pages
  BY <1>3, Zenon DEF Good, System, Frontend
<1>5. /\ Good(c, C, V, {<<f, k>>}) /\ HandsRead(c, f, i, k)
      /\ c.fe[f].jobCounter = b.fe[f].jobCounter
  <2>1. PendsRead(b, c, f, i, d, k) /\ Asked(T, V, f, d, b.fe[f].jobCounter + 1, C[f][i])
    BY Zenon DEF PendsRead, Asked
  <2> HIDE DEF c, k, V
  <2> QED BY ONLY <1>3, <1>4, <2>1, PendReadGood, f \in Frontends, d \in Dests, ZenonT(60)
<1> HIDE DEF c, k, V
<1>6. Good(e, C, V, {}) /\ e.fe[f].jobCounter = c.fe[f].jobCounter
  BY <1>4, <1>5, ReadLazyGood, ZenonT(60) DEF HandsRead
<1> HIDE DEF e
<1>7. Good(t, C, V, {}) /\ t.fe[f].jobCounter = e.fe[f].jobCounter + 1
  BY <1>1, <1>6, EnqueueGood, SMTT(30)
<1>8. U = V
  BY <1>5, <1>6, <1>7, ZenonT(60) DEF V
<1> QED BY <1>7, <1>8, Zenon

\* WriteLazy.
LEMMA QueueWriteGood ==
  ASSUME NEW s, NEW C, NEW T, Good(s, C, T, {}), NEW f \in Frontends,
         NEW i \in Pages, NEW v \in Values,
         NEW t, t = QueueWrite(s, f, i, v), NEW D, D = [C EXCEPT ![f][i] = v]
  PROVE  Good(t, D, T, {})
<1> DEFINE a == IF s.fe[f].isRead THEN flushRead(s, f) ELSE s
           b == FreedForWrite(a, f)
           k == b.fe[f].bufferIdx
           c == [b EXCEPT !.fe[f] = PendingWrite(b.fe[f], i, v)]
           e == BackendWriteLazy(c, f, i)
<1>1. t = Enqueued(e, f)
  BY Zenon DEF QueueWrite
<1>2. a = (IF s.fe[f].isRead THEN flushRead(s, f) ELSE s) /\ b = FreedForWrite(a, f)
  BY Zenon
<1> HIDE DEF a, b
<1>3. Good(b, C, T, {}) /\ ReadyToWrite(b, f)
  BY <1>2, FreeForWrite, Zenon
<1>4. Good(c, C, T, {<<f, k>>}) /\ HandsWrite(c, f, i, v, k)
  <2>1. PendsWrite(b, c, f, i, v, k)
    BY Zenon DEF PendsWrite
  <2> HIDE DEF c, k
  <2> QED BY ONLY <1>3, <2>1, PendWriteGood, f \in Frontends, i \in Pages, v \in Values, ZenonT(60)
<1> HIDE DEF c, k
<1>5. Good(e, D, T, {})
  BY <1>4, WriteLazyGood, ZenonT(30) DEF HandsWrite
<1> HIDE DEF e
<1> QED BY <1>1, <1>5, EnqueueGood, ZenonT(60)
--------------------------------------------------------------------------------
(* The synchronous calls *)

\* Filling a buffer at once, when no read of it is under way.
LEMMA AnswerGood ==
  ASSUME NEW s, NEW C, NEW T, Good(s, C, T, {}), NEW f \in Frontends, NEW d \in Dests,
         NEW x \in Values, s.fe[f].doneCounter >= T[f][d].job,
         NEW t, t = [s EXCEPT !.dest[f][d] = x],
         NEW U, U = [T EXCEPT ![f][d] = [job |-> s.fe[f].doneCounter, val |-> x]]
  PROVE  Good(t, C, U, {})
<1>1. /\ s \in System /\ T \in Tickets /\ C \in Contents /\ ~s.aborted
      /\ s.fe[f].doneCounter \in Nat /\ s.dest \in [Frontends -> [Dests -> Values]]
      /\ s.dest[f] \in [Dests -> Values]
  BY Zenon DEF Good, System, Frontend
<1> DEFINE h == [s.dest EXCEPT ![f][d] = x]
<1>2. /\ h \in [Frontends -> [Dests -> Values]] /\ h[f][d] = x
      /\ \A g \in Frontends, y \in Dests : g # f \/ y # d => h[g][y] = s.dest[g][y]
  BY <1>1, Zenon
<1>3. t = [s EXCEPT !.dest = h]
  BY Zenon
<1> HIDE DEF h
<1>4. /\ t \in System /\ t.dest = h /\ t.fe = s.fe /\ t.data = s.data /\ t.aborted = s.aborted
      /\ t.readChunks = s.readChunks /\ t.writeChunks = s.writeChunks
  BY <1>1, <1>2, <1>3, ZenonT(60) DEF System
<1>5. /\ U \in Tickets /\ U[f][d].val = x
      /\ \A g \in Frontends, y \in Dests : g # f \/ y # d => U[g][y] = T[g][y]
  <2> DEFINE r == [job |-> s.fe[f].doneCounter, val |-> x]
  <2>1. r \in [job : Nat, val : Values] /\ r.val = x
    BY <1>1, Zenon
  <2> HIDE DEF r
  <2>2. U = [T EXCEPT ![f][d] = r]
    BY ZenonT(60) DEF r
  <2> QED BY <1>1, <2>1, <2>2 DEF Tickets
<1>6. ASSUME NEW k \in Ring, s.fe[f].isRead, s.fe[f].slots[k].state # "EMPTY"
      PROVE  s.fe[f].slots[k].outAddr # d
  <2>1. Coming(s, T, f, k)
    BY <1>6, Zenon DEF Good, ReadsComing
  <2>2. T[f][s.fe[f].slots[k].outAddr].job > s.fe[f].doneCounter
    BY ONLY <2>1, Zenon DEF Coming
  <2>3. T[f][d].job \in Nat
    BY <1>1 DEF Tickets
  <2> QED BY <1>1, <2>2, <2>3, SMTT(60)
<1>7. ReadsComing(t, U)
  <2> SUFFICES ASSUME NEW g \in Frontends, t.fe[g].isRead
               PROVE  /\ t.fe[g].doneCounter <= t.fe[g].jobCounter
                      /\ \A k \in Ring : t.fe[g].slots[k].state # "EMPTY" => Coming(t, U, g, k)
                      /\ Separate(t, g)
    BY Zenon DEF ReadsComing
  <2>1. /\ s.fe[g].doneCounter <= s.fe[g].jobCounter
        /\ \A k \in Ring : s.fe[g].slots[k].state # "EMPTY" => Coming(s, T, g, k)
        /\ Separate(s, g)
    BY <1>4, Zenon DEF Good, ReadsComing
  <2>2. ASSUME NEW k \in Ring, s.fe[g].slots[k].state # "EMPTY"
        PROVE  Coming(t, U, g, k)
    <3>1. Coming(s, T, g, k)
      BY <2>1, <2>2, Zenon
    <3>2. s.fe[g].slots[k].outAddr \in Dests
      BY ONLY <3>1, Zenon DEF Coming
    <3>3. g # f \/ s.fe[g].slots[k].outAddr # d
      BY <1>4, <1>6, <2>2, ZenonT(60)
    <3>4. U[g][s.fe[g].slots[k].outAddr] = T[g][s.fe[g].slots[k].outAddr]
      BY <1>5, <3>2, <3>3, ZenonT(60)
    <3> QED BY ONLY <1>4, <3>1, <3>4, Zenon DEF Coming
  <2>3. Separate(t, g)
    BY ONLY <1>4, <2>1, SMTT(30) DEF Separate
  <2> QED BY <1>4, <2>1, <2>2, <2>3, ZenonT(60)
<1>8. Delivered(t, U)
  <2>1. Delivered(s, T)
    BY Zenon DEF Good
  <2>2. ASSUME NEW g \in Frontends, NEW y \in Dests, h[g][y] # U[g][y].val
        PROVE  s.fe[g].isRead /\ \E k \in Ring : /\ s.fe[g].slots[k].state # "EMPTY"
                                                 /\ s.fe[g].slots[k].outAddr = y
    <3>1. g # f \/ y # d
      BY <1>2, <1>5, <2>2, Zenon
    <3>2. s.dest[g][y] # T[g][y].val
      BY <1>2, <1>5, <2>2, <3>1, Zenon
    <3> QED BY ONLY <2>1, <3>2, g \in Frontends, y \in Dests, Zenon DEF Delivered
  <2> QED BY ONLY <1>4, <2>2 DEF Delivered
<1>9. /\ Fits(t.readChunks) /\ Fits(t.writeChunks)
      /\ OneEach(t.readChunks) /\ OneEach(t.writeChunks)
  BY <1>4, Zenon DEF Good
<1>10. ReadsPoint(t, {}) /\ WritesPoint(t, {}) /\ PendingWaits(t, {})
  <2>1. ReadsPoint(s, {}) /\ WritesPoint(s, {}) /\ PendingWaits(s, {})
    BY Zenon DEF Good
  <2>2. ReadsPoint(t, {})
    BY ONLY <1>4, <2>1, ZenonT(60) DEF ReadsPoint
  <2>3. WritesPoint(t, {})
    BY ONLY <1>4, <2>1, Zenon DEF WritesPoint
  <2>4. PendingWaits(t, {})
    BY ONLY <1>4, <2>1, Zenon DEF PendingWaits
  <2> QED BY <2>2, <2>3, <2>4, Zenon
<1>11. Kept(t, C, {}) /\ Untouched(t, C)
  <2>1. Kept(s, C, {}) /\ Untouched(s, C)
    BY ZenonT(60) DEF Good
  <2> QED BY ONLY <1>4, <2>1 DEF Kept, Untouched, Upcoming
<1> QED BY <1>1, <1>4, <1>5, <1>7, <1>8, <1>9, <1>10, <1>11, ZenonT(60) DEF Good

\* From s to t frontend f writes v to its page i.
Puts(s, t, f, i, v) ==
  t = [s EXCEPT !.fe[f].modified = @ \cup {i}, !.data[f][i] = [val |-> v, page |-> i]]

\* A synchronous Write of a page that no chunk is for.
LEMMA WriteGood ==
  ASSUME NEW s, NEW C, NEW T, Good(s, C, T, {}), NEW f \in Frontends, NEW i \in Pages,
         NEW v \in Values,
         ChunksFor(s.writeChunks, f, i) = {}, ChunksFor(s.readChunks, f, i) = {},
         NEW D, D = [C EXCEPT ![f][i] = v],
         NEW t, Puts(s, t, f, i, v)
  PROVE  Good(t, D, T, {})
<1> DEFINE w == [val |-> v, page |-> i]
           M == s.fe[f].modified \cup {i}
           e == [s.fe[f] EXCEPT !.modified = M]
           F == [s.fe EXCEPT ![f] = e]
           h == [s.data EXCEPT ![f][i] = w]
<1>1. /\ s \in System /\ T \in Tickets /\ C \in Contents /\ ~s.aborted
      /\ s.fe[f] \in Frontend /\ s.fe \in [Frontends -> Frontend]
      /\ s.data \in [Frontends -> [Pages -> AnyCipher]]
      /\ M \in SUBSET Pages /\ i \in M
  BY Zenon DEF Good, System, Frontend
<1>2. w \in AnyCipher
  BY Zenon DEF AnyCipher, Cipher
<1>3. t = [s EXCEPT !.fe = F, !.data = h]
  BY <1>1, Zenon DEF Puts
<1> HIDE DEF M, w
<1>4. /\ e \in Frontend /\ e.isRead = s.fe[f].isRead /\ e.modified = M
      /\ e.bufferIdx = s.fe[f].bufferIdx /\ e.jobCounter = s.fe[f].jobCounter
      /\ e.doneCounter = s.fe[f].doneCounter /\ e.slots = s.fe[f].slots
  BY <1>1, Zenon DEF Frontend
<1> HIDE DEF e
<1>5. F \in [Frontends -> Frontend] /\ F[f] = e /\ \A g \in Frontends \ {f} : F[g] = s.fe[g]
  BY <1>1, <1>4, Zenon
<1>6. /\ h \in [Frontends -> [Pages -> AnyCipher]] /\ h[f][i] = w
      /\ \A g \in Frontends, j \in Pages : g # f \/ j # i => h[g][j] = s.data[g][j]
  BY <1>1, <1>2, Zenon
<1> HIDE DEF F, h
<1>7. /\ t \in System /\ t.dest = s.dest /\ t.fe = F /\ t.data = h /\ t.aborted = s.aborted
      /\ t.readChunks = s.readChunks /\ t.writeChunks = s.writeChunks
  BY <1>1, <1>3, <1>5, <1>6, ZenonT(60) DEF System
<1>8. \A g \in Frontends :
        /\ t.fe[g].isRead = s.fe[g].isRead /\ t.fe[g].jobCounter = s.fe[g].jobCounter
        /\ t.fe[g].doneCounter = s.fe[g].doneCounter /\ t.fe[g].slots = s.fe[g].slots
        /\ t.fe[g].modified = IF g = f THEN M ELSE s.fe[g].modified
  <2> TAKE g \in Frontends
  <2>1. t.fe[g] = IF g = f THEN e ELSE s.fe[g]
    BY <1>5, <1>7, Zenon
  <2>2. CASE g = f
    BY ONLY <1>4, <2>1, <2>2, Zenon
  <2>3. CASE g # f
    BY ONLY <2>1, <2>3, Zenon
  <2> QED BY <2>2, <2>3, ZenonT(60)
<1>9. /\ D \in Contents /\ D[f][i] = v
      /\ \A g \in Frontends, j \in Pages : g # f \/ j # i => D[g][j] = C[g][j]
  BY <1>1, Zenon DEF Contents
<1>10. /\ \A n \in DOMAIN s.readChunks : s.readChunks[n].f \in Frontends
       /\ \A n \in DOMAIN s.writeChunks : s.writeChunks[n].f \in Frontends
  BY <1>1, ChunkTypes, Zenon DEF ReadChunk, WriteChunk
<1>11. ReadsPoint(t, {})
  <2>1. ReadsPoint(s, {})
    BY Zenon DEF Good
  <2> SUFFICES ASSUME NEW n \in DOMAIN s.readChunks, NEW c, c = s.readChunks[n]
               PROVE  /\ t.fe[c.f].isRead
                      /\ t.fe[c.f].slots[c.slot].state = "PENDING"
                      /\ t.fe[c.f].slots[c.slot].nounce = c.page
    BY <1>7, ZenonT(60) DEF ReadsPoint
  <2>2. c.f \in Frontends
    BY <1>10, Zenon
  <2>3. /\ s.fe[c.f].isRead
        /\ s.fe[c.f].slots[c.slot].state = "PENDING"
        /\ s.fe[c.f].slots[c.slot].nounce = c.page
    BY ONLY <2>1, n \in DOMAIN s.readChunks, c = s.readChunks[n], Zenon DEF ReadsPoint
  <2> QED BY ONLY <1>8, <2>2, <2>3, Zenon
<1>12. WritesPoint(t, {})
  <2>1. WritesPoint(s, {})
    BY Zenon DEF Good
  <2> SUFFICES ASSUME NEW n \in DOMAIN s.writeChunks, NEW c, c = s.writeChunks[n]
               PROVE  /\ ~t.fe[c.f].isRead
                      /\ t.fe[c.f].slots[c.slot].state = "PENDING"
                      /\ c.enc.page = c.page
    BY <1>7, Zenon DEF WritesPoint
  <2>2. c.f \in Frontends
    BY <1>10, Zenon
  <2>3. /\ ~s.fe[c.f].isRead
        /\ s.fe[c.f].slots[c.slot].state = "PENDING"
        /\ c.enc.page = c.page
    BY ONLY <2>1, n \in DOMAIN s.writeChunks, c = s.writeChunks[n], ZenonT(30) DEF WritesPoint
  <2> QED BY ONLY <1>8, <2>2, <2>3, Zenon
<1>13. PendingWaits(t, {})
  <2>1. PendingWaits(s, {})
    BY Zenon DEF Good
  <2> QED BY ONLY <1>7, <1>8, <2>1, ZenonT(60) DEF PendingWaits
<1>14. ReadsComing(t, T)
  <2> SUFFICES ASSUME NEW g \in Frontends, t.fe[g].isRead
               PROVE  /\ t.fe[g].doneCounter <= t.fe[g].jobCounter
                      /\ \A k \in Ring : t.fe[g].slots[k].state # "EMPTY" => Coming(t, T, g, k)
                      /\ Separate(t, g)
    BY Zenon DEF ReadsComing
  <2>0. s.fe[g].isRead
    BY <1>8, Zenon
  <2>1. /\ s.fe[g].doneCounter <= s.fe[g].jobCounter
        /\ \A k \in Ring : s.fe[g].slots[k].state # "EMPTY" => Coming(s, T, g, k)
        /\ Separate(s, g)
    BY <2>0, Zenon DEF Good, ReadsComing
  <2>2. ASSUME NEW k \in Ring, s.fe[g].slots[k].state # "EMPTY"
        PROVE  Coming(t, T, g, k)
    <3> DEFINE o == s.fe[g].slots[k]
    <3>1. Coming(s, T, g, k)
      BY <2>1, <2>2, Zenon
    <3>2. o.nounce \in Pages
      BY ONLY <3>1, ZenonT(30) DEF Coming
    <3>3. o.state \in {"EMPTY", "PENDING", "DONE"}
      BY <1>1, ZenonT(60) DEF Frontend, Slot
    <3>4. o.state = "DONE" \/ t.data[g][o.nounce] = s.data[g][o.nounce]
      <4> SUFFICES ASSUME o.state = "PENDING", g = f, o.nounce = i PROVE FALSE
        BY <1>6, <1>7, <2>2, <3>2, <3>3, ZenonT(60)
      <4>1. PendingWaits(s, {}) /\ ReadsPoint(s, {})
        BY Zenon DEF Good
      <4>2. PICK n \in ChunksOf(s.readChunks, g, k) : TRUE
        BY ONLY <2>0, <4>1, o.state = "PENDING", g \in Frontends, k \in Ring, ZenonT(60) DEF PendingWaits
      <4>3. n \in DOMAIN s.readChunks /\ s.readChunks[n].f = g /\ s.readChunks[n].slot = k
        BY Zenon DEF ChunksOf
      <4>4. o.nounce = s.readChunks[n].page
        BY ONLY <4>1, <4>3, ZenonT(30) DEF ReadsPoint
      <4> QED BY <4>3, <4>4, Zenon DEF ChunksFor
    <3>5. t.fe[g].slots[k] = s.fe[g].slots[k] /\ t.fe[g].doneCounter = s.fe[g].doneCounter
      BY <1>8, ZenonT(60)
    <3> QED BY ONLY <3>1, <3>4, <3>5, ZenonT(60) DEF Coming
  <2>3. Separate(t, g)
    BY ONLY <1>8, <2>1, g \in Frontends, SMTT(30) DEF Separate
  <2> QED BY <1>8, <2>1, <2>2, <2>3, ZenonT(60)
<1>15. Delivered(t, T)
  <2>1. Delivered(s, T)
    BY Zenon DEF Good
  <2> QED BY ONLY <1>7, <1>8, <2>1, SMTT(60) DEF Delivered
<1>16. Kept(t, D, {})
  <2>1. Kept(s, C, {})
    BY Zenon DEF Good
  <2> SUFFICES ASSUME NEW g \in Frontends, NEW j \in t.fe[g].modified
               PROVE  Upcoming(t, g, j) = [val |-> D[g][j], page |-> j]
    BY Zenon DEF Kept
  <2>2. CASE g = f /\ j = i
    <3>1. Upcoming(t, f, i) = w
      BY <1>6, <1>7, Zenon DEF Upcoming
    <3> QED BY <1>9, <2>2, <3>1, ZenonT(60) DEF w
  <2>3. CASE ~(g = f /\ j = i)
    <3>1. j \in s.fe[g].modified
      BY <1>8, <2>3, Zenon DEF M
    <3>2. j \in Pages
      BY <1>1, <3>1, Zenon DEF System, Frontend
    <3>3. Upcoming(s, g, j) = [val |-> C[g][j], page |-> j]
      BY ONLY <2>1, <3>1, g \in Frontends, ZenonT(60) DEF Kept
    <3>4. h[g][j] = s.data[g][j] /\ D[g][j] = C[g][j]
      BY <1>6, <1>9, <2>3, <3>2, ZenonT(60)
    <3>5. Upcoming(t, g, j) = Upcoming(s, g, j)
      BY ONLY <1>7, <3>4, ZenonT(60) DEF Upcoming
    <3> QED BY <3>3, <3>4, <3>5, ZenonT(60)
  <2> QED BY <2>2, <2>3, Zenon
<1>17. Untouched(t, D)
  <2>1. Untouched(s, C)
    BY Zenon DEF Good
  <2> QED BY <1>8, <1>9, <2>1, SMTT(60) DEF Untouched, M
<1>18. /\ Fits(t.readChunks) /\ Fits(t.writeChunks)
       /\ OneEach(t.readChunks) /\ OneEach(t.writeChunks)
  BY <1>7, Zenon DEF Good
<1> QED BY <1>1, <1>7, <1>9, <1>11, <1>12, <1>13, <1>14, <1>15, <1>16, <1>17, <1>18, SMTT(60) DEF Good

--------------------------------------------------------------------------------
(* The system *)

\* A server and frontends just constructed, with nothing queued, are good.
LEMMA InitGood == Init => Inv
<1> SUFFICES ASSUME Init PROVE Good(sys, content, ticket, {})
  BY Zenon DEF Inv
<1> DEFINE e == [isRead |-> FALSE, bufferIdx |-> 0, doneCounter |-> 0, jobCounter |-> 0,
                 modified |-> {}, slots |-> [k \in Ring |-> EmptySlot]]
<1>1. EmptySlot \in Slot /\ EmptySlot.state = "EMPTY"
  BY BatchAssumption, Zenon DEF EmptySlot, Slot, AnyCipher
<1>2. 0 \in Ring
  BY BatchAssumption, SMTT(30) DEF Ring
<1>3. /\ e \in Frontend /\ e.isRead = FALSE /\ e.modified = {}
      /\ \A k \in Ring : e.slots[k].state = "EMPTY"
  BY <1>1, <1>2, Zenon DEF Frontend
<1>4. /\ sys.fe = [f \in Frontends |-> e]
      /\ sys.data = [f \in Frontends |-> [i \in Pages |-> NoCipher]]
      /\ sys.readChunks = <<>> /\ sys.writeChunks = <<>>
      /\ sys.dest = [f \in Frontends |-> [d \in Dests |-> defaultVal]]
      /\ sys.aborted = FALSE
      /\ sys = [fe |-> sys.fe, data |-> sys.data, readChunks |-> sys.readChunks,
                writeChunks |-> sys.writeChunks, dest |-> sys.dest, aborted |-> sys.aborted]
  BY Zenon DEF Init
<1> HIDE DEF e
<1>5. sys \in System
  <2>1. sys.fe \in [Frontends -> Frontend]
    BY <1>3, <1>4, Zenon
  <2>2. sys.data \in [Frontends -> [Pages -> AnyCipher]]
    BY <1>4 DEF AnyCipher
  <2>3. sys.readChunks \in Seq(ReadChunk) /\ sys.writeChunks \in Seq(WriteChunk)
    BY <1>4
  <2>4. sys.dest \in [Frontends -> [Dests -> Values]] /\ sys.aborted \in BOOLEAN
    <3>1. defaultVal \in Values
      BY BatchAssumption, ZenonT(30)
    <3>2. sys.dest \in [Frontends -> [Dests -> Values]]
      BY ONLY <1>4, <3>1, Zenon
    <3> QED BY <1>4, <3>2, Zenon
  <2> QED BY <1>4, <2>1, <2>2, <2>3, <2>4, ZenonT(60) DEF System
<1>6. content \in Contents /\ \A f \in Frontends, i \in Pages : content[f][i] = defaultVal
  BY BatchAssumption, Zenon DEF Init, Contents
<1>7. ticket \in Tickets /\ \A f \in Frontends, d \in Dests : ticket[f][d].val = defaultVal
  BY BatchAssumption, Zenon DEF Init, Tickets
<1>8. \A f \in Frontends : /\ ~sys.fe[f].isRead /\ sys.fe[f].modified = {}
                           /\ \A k \in Ring : sys.fe[f].slots[k].state = "EMPTY"
  BY <1>3, <1>4, SMTT(60)
<1>9. ReadsPoint(sys, {}) /\ WritesPoint(sys, {})
  BY <1>4, SMTT(30) DEF ReadsPoint, WritesPoint
<1>10. PendingWaits(sys, {}) /\ ReadsComing(sys, ticket)
  BY <1>8, Zenon DEF PendingWaits, ReadsComing
<1>11. Delivered(sys, ticket)
  BY <1>4, <1>7 DEF Delivered
<1>12. Kept(sys, content, {}) /\ Untouched(sys, content)
  BY <1>6, <1>8, Zenon DEF Kept, Untouched
<1> QED BY <1>4, <1>5, <1>6, <1>7, <1>9, <1>10, <1>11, <1>12, EmptyFits, ZenonT(60) DEF Good

\* Every operation keeps the invariant.
LEMMA NextGood == Inv /\ [Next]_vars => Inv'
<1> SUFFICES ASSUME Good(sys, content, ticket, {}), [Next]_vars
             PROVE  Good(sys', content', ticket', {})
  BY Zenon DEF Inv
<1>0. /\ content \in Contents /\ ticket \in Tickets
      /\ \A f \in Frontends : sys.fe[f].modified \subseteq Pages
  BY Zenon DEF Good, System, Frontend
<1>1. ASSUME NEW f \in Frontends, NEW i \in Pages, NEW d \in Dests, ReadLazy(f, i, d)
      PROVE  Good(sys', content', ticket', {})
  <2>0. sys.fe[f].doneCounter >= ticket[f][d].job /\ content' = content
    BY <1>1, Zenon DEF ReadLazy, isJobDone
  <2>1. CASE i \notin sys.fe[f].modified
    <3>1. /\ sys' = [sys EXCEPT !.dest[f][d] = defaultVal]
          /\ ticket' = [ticket EXCEPT ![f][d] = [job |-> sys.fe[f].doneCounter, val |-> defaultVal]]
      BY <1>1, <2>1, Zenon DEF ReadLazy
    <3>2. Good(sys', content, ticket', {})
      BY <2>0, <3>1, AnswerGood, BatchAssumption, ZenonT(60)
    <3> QED BY <2>0, <3>2, Zenon
  <2>2. CASE i \in sys.fe[f].modified
    <3>1. /\ sys' = QueueRead(sys, f, i, d)
          /\ ticket' = [ticket EXCEPT ![f][d] =
                          [job |-> sys'.fe[f].jobCounter, val |-> content[f][i]]]
      BY <1>1, <2>2, Zenon DEF ReadLazy
    <3>2. Good(sys', content, ticket', {})
      BY <2>0, <2>2, <3>1, QueueReadGood, Zenon
    <3> QED BY <2>0, <3>2, Zenon
  <2> QED BY <2>1, <2>2, Zenon
<1>2. ASSUME NEW f \in Frontends, NEW i \in Pages, NEW d \in Dests, Read(f, i, d)
      PROVE  Good(sys', content', ticket', {})
  <2> DEFINE x == content[f][i]
  <2>0. /\ sys.fe[f].doneCounter >= ticket[f][d].job /\ content' = content
        /\ ChunksFor(sys.writeChunks, f, i) = {}
        /\ ticket' = [ticket EXCEPT ![f][d] = [job |-> sys.fe[f].doneCounter, val |-> x]]
    BY <1>2, Zenon DEF Read, isJobDone, WriteQueued
  <2>1. sys' = [sys EXCEPT !.dest[f][d] = x] /\ x \in Values
    <3>0. x \in Values
      BY <1>0, Zenon DEF Contents
    <3>1. CASE i \notin sys.fe[f].modified
      <4>1. x = defaultVal
        BY <3>1, Zenon DEF Good, Untouched
      <4> QED BY <1>2, <3>0, <3>1, <4>1, ZenonT(60) DEF Read
    <3>2. CASE i \in sys.fe[f].modified
      <4>1. Upcoming(sys, f, i) = [val |-> x, page |-> i]
        BY <3>2, Zenon DEF Good, Kept
      <4>2. sys.data[f][i] = [val |-> x, page |-> i]
        BY <2>0, <4>1, ZenonT(60) DEF Upcoming
      <4>3. sys.data[f][i].page = i /\ sys.data[f][i].val = x
        BY <4>2
      <4> HIDE DEF x
      <4> QED BY <1>2, <3>0, <3>2, <4>3, ZenonT(60) DEF Read
    <3> QED BY <3>1, <3>2, Zenon
  <2> HIDE DEF x
  <2>2. Good(sys', content, ticket', {})
    BY <2>0, <2>1, AnswerGood, Zenon
  <2> QED BY <2>0, <2>2, Zenon
<1>3. ASSUME NEW f \in Frontends, NEW i \in Pages, NEW v \in Values, WriteLazy(f, i, v)
      PROVE  Good(sys', content', ticket', {})
  <2>1. /\ sys' = QueueWrite(sys, f, i, v) /\ content' = [content EXCEPT ![f][i] = v]
        /\ ticket' = ticket
    BY <1>3, Zenon DEF WriteLazy
  <2>2. Good(sys', content', ticket, {})
    BY <2>1, QueueWriteGood, Zenon
  <2> QED BY <2>1, <2>2, Zenon
<1>4. ASSUME NEW f \in Frontends, NEW i \in Pages, NEW v \in Values, Write(f, i, v)
      PROVE  Good(sys', content', ticket', {})
  <2>1. /\ ChunksFor(sys.writeChunks, f, i) = {} /\ ChunksFor(sys.readChunks, f, i) = {}
        /\ Puts(sys, sys', f, i, v)
        /\ content' = [content EXCEPT ![f][i] = v] /\ ticket' = ticket
    BY <1>4 DEF Write, WriteQueued, ReadQueued, Puts
  <2>2. Good(sys', content', ticket, {})
    BY <2>1, WriteGood, Zenon
  <2> QED BY <2>1, <2>2, Zenon
<1>5. ASSUME NEW f \in Frontends, FlushReads(f)
      PROVE  Good(sys', content', ticket', {})
  <2>1. /\ sys.fe[f].isRead \/ \A k \in Ring : sys.fe[f].slots[k].state = "EMPTY"
        /\ sys' = flushRead(sys, f) /\ content' = content /\ ticket' = ticket
    BY <1>5, Zenon DEF FlushReads, Idle, SlotsIn
  <2>2. Good(sys', content, ticket, {})
    BY <2>1, flushReadGood, Zenon
  <2> QED BY <2>1, <2>2, Zenon
<1>6. ASSUME NEW f \in Frontends, FlushWrites(f)
      PROVE  Good(sys', content', ticket', {})
  <2>1. /\ ~sys.fe[f].isRead \/ \A k \in Ring : sys.fe[f].slots[k].state = "EMPTY"
        /\ sys' = flushWrite(sys, f) /\ content' = content /\ ticket' = ticket
    BY <1>6, Zenon DEF FlushWrites, Idle, SlotsIn
  <2>2. Good(sys', content, ticket, {})
    BY <2>1, flushWriteGood, Zenon
  <2> QED BY <2>1, <2>2, Zenon
<1>7. CASE UNCHANGED vars
  BY <1>7, ZenonT(60) DEF vars
<1> QED BY <1>1, <1>2, <1>3, <1>4, <1>5, <1>6, <1>7, ZenonT(60) DEF Next

\* A slot that is not pending has no chunk; a pending one has one chunk, in the queue of
\* its frontend's mode.
LEMMA GoodQueues ==
  ASSUME NEW s, NEW C, NEW T, Good(s, C, T, {}), NEW f \in Frontends, NEW k \in Ring,
         NEW R, R = ChunksOf(s.readChunks, f, k), NEW W, W = ChunksOf(s.writeChunks, f, k)
  PROVE  IF s.fe[f].slots[k].state # "PENDING" THEN R \cup W = {}
         ELSE Cardinality(IF s.fe[f].isRead THEN R ELSE W) = 1
              /\ (IF s.fe[f].isRead THEN W ELSE R) = {}
<1>1. /\ ReadsPoint(s, {}) /\ WritesPoint(s, {}) /\ PendingWaits(s, {})
      /\ OneEach(s.readChunks) /\ OneEach(s.writeChunks)
  BY ZenonT(30) DEF Good
<1>2. ASSUME NEW n \in R
      PROVE  s.fe[f].isRead /\ s.fe[f].slots[k].state = "PENDING" /\ R = {n}
  <2>1. n \in DOMAIN s.readChunks /\ s.readChunks[n].f = f /\ s.readChunks[n].slot = k
    BY DEF ChunksOf
  <2>2. s.fe[f].isRead /\ s.fe[f].slots[k].state = "PENDING"
    BY ONLY <1>1, <2>1, ZenonT(30) DEF ReadsPoint
  <2>3. R = {n}
    BY ONLY <1>1, <2>1, LastOfOne, R = ChunksOf(s.readChunks, f, k), ZenonT(60)
  <2> QED BY <2>2, <2>3, ZenonT(60)
<1>3. ASSUME NEW n \in W
      PROVE  ~s.fe[f].isRead /\ s.fe[f].slots[k].state = "PENDING" /\ W = {n}
  <2>1. n \in DOMAIN s.writeChunks /\ s.writeChunks[n].f = f /\ s.writeChunks[n].slot = k
    BY Zenon DEF ChunksOf
  <2>2. ~s.fe[f].isRead /\ s.fe[f].slots[k].state = "PENDING"
    BY ONLY <1>1, <2>1, ZenonT(60) DEF WritesPoint
  <2>3. W = {n}
    BY ONLY <1>1, <2>1, LastOfOne, W = ChunksOf(s.writeChunks, f, k), SMTT(60)
  <2> QED BY <2>2, <2>3, Zenon
<1>4. \A n : Cardinality({n}) = 1
  BY FS_Singleton, ZenonT(30)
<1>5. CASE s.fe[f].slots[k].state # "PENDING"
  BY <1>2, <1>3, <1>5, ZenonT(60)
<1>6. CASE s.fe[f].slots[k].state = "PENDING" /\ s.fe[f].isRead
  <2>1. PICK n \in R : TRUE
    BY ONLY <1>1, <1>6, f \in Frontends, k \in Ring,
            R = ChunksOf(s.readChunks, f, k), Zenon DEF PendingWaits
  <2>2. R = {n} /\ W = {}
    BY <1>2, <1>3, <1>6, Zenon
  <2> QED BY <1>4, <1>6, <2>2, SMTT(60)
<1>7. CASE s.fe[f].slots[k].state = "PENDING" /\ ~s.fe[f].isRead
  <2>1. PICK n \in W : TRUE
    BY ONLY <1>1, <1>7, f \in Frontends, k \in Ring,
            W = ChunksOf(s.writeChunks, f, k), ZenonT(60) DEF PendingWaits
  <2>2. W = {n} /\ R = {}
    BY <1>2, <1>3, <1>7, Zenon
  <2> QED BY <1>4, <1>7, <2>2, ZenonT(30)
<1> QED BY <1>5, <1>6, <1>7, SMTT(60)

\* A good system has the properties of JobsComplete.
LEMMA GoodCompletes == Inv => JobsComplete
<1> SUFFICES ASSUME Good(sys, content, ticket, {}) PROVE JobsComplete
  BY Zenon DEF Inv
<1>1. TypeOK
  <2>1. sys \in System /\ Fits(sys.readChunks) /\ Fits(sys.writeChunks)
    BY Zenon DEF Good
  <2>2. ASSUME NEW f \in Frontends
        PROVE  /\ sys.fe[f].bufferIdx \in Ring /\ sys.fe[f].modified \subseteq Pages
               /\ \A k \in Ring : sys.fe[f].slots[k].enc \in Cipher \cup {NoCipher}
    <3>1. sys.fe[f] \in Frontend
      BY <2>1, Zenon DEF System
    <3>2. /\ sys.fe[f].bufferIdx \in Ring /\ sys.fe[f].modified \subseteq Pages
          /\ \A k \in Ring : sys.fe[f].slots[k] \in Slot
      BY <3>1, Zenon DEF Frontend
    <3>3. \A o \in Slot : o.enc \in AnyCipher
      BY Zenon DEF Slot
    <3> QED BY <3>2, <3>3, Zenon DEF AnyCipher
  <2> QED BY <2>1, <2>2, Zenon DEF TypeOK, Fits
<1>2. NeverAborts
  BY Zenon DEF Good, NeverAborts
<1>3. PendingIsQueued
  BY GoodQueues, Zenon DEF PendingIsQueued
<1>4. DoneReadsDelivered
  <2> SUFFICES ASSUME NEW f \in Frontends, NEW d \in Dests,
                      sys.fe[f].doneCounter >= ticket[f][d].job, sys.dest[f][d] # ticket[f][d].val
               PROVE  FALSE
    BY DEF DoneReadsDelivered, isJobDone
  <2>1. PICK k \in Ring : /\ sys.fe[f].isRead /\ sys.fe[f].slots[k].state # "EMPTY"
                          /\ sys.fe[f].slots[k].outAddr = d
    BY ZenonT(30) DEF Good, Delivered
  <2>2. Coming(sys, ticket, f, k)
    BY <2>1, Zenon DEF Good, ReadsComing
  <2>3. ticket[f][d].job > sys.fe[f].doneCounter
    BY ONLY <2>1, <2>2, Zenon DEF Coming
  <2>4. ticket[f][d].job \in Nat /\ sys.fe[f].doneCounter \in Nat
    <3>1. ticket \in Tickets /\ sys.fe[f] \in Frontend
      BY ZenonT(30) DEF Good, System
    <3> QED BY <3>1 DEF Tickets, Frontend
  <2> QED BY <2>3, <2>4, SMTT(60)
<1> QED BY <1>1, <1>2, <1>3, <1>4, ZenonT(60) DEF JobsComplete

\* Nor does it lose a write.
LEMMA GoodKeeps == Inv => WritesReachServer
<1> SUFFICES ASSUME Good(sys, content, ticket, {}),
                    NEW f \in Frontends, NEW i \in sys.fe[f].modified
             PROVE  BackendFlushWrite(sys).data[f][i] = [val |-> content[f][i], page |-> i]
  BY DEF Inv, WritesReachServer
<1> DEFINE t == BackendFlushWrite(sys)
<1>1. sys \in System /\ i \in Pages
  BY ZenonT(30) DEF Good, System, Frontend
<1>2. t.data[f][i] = Upcoming(sys, f, i)
  <2>1. t = BackendFlushWrite(sys)
    OBVIOUS
  <2> HIDE DEF t
  <2> QED BY <1>1, <2>1, FlushWriteShape, Zenon
<1>3. Upcoming(sys, f, i) = [val |-> content[f][i], page |-> i]
  BY Zenon DEF Good, Kept
<1> QED BY <1>2, <1>3, ZenonT(60)

\* Any number of frontends can share the backend's queues: whatever the interleaving of
\* their lazy and synchronous calls and flushes (NonCachedBatchServerFrontend over
\* MemServerBackend), no Assert fails and every page authenticates, the queues hold one
\* chunk for each pending slot and none for another, and a read that isJobDone reports as
\* done has filled its buffer with what its page held when the read was issued.
THEOREM JobsAlwaysComplete == Spec => []JobsComplete
<1>1. Init => Inv
  BY InitGood, Zenon
<1>2. Inv /\ [Next]_vars => Inv'
  BY NextGood, Zenon
<1>3. Inv => JobsComplete
  BY GoodCompletes, ZenonT(60)
<1> QED BY <1>1, <1>2, <1>3, PTL DEF Spec

\* No lazy write is lost or overtaken on its way to the server, through full queues,
\* flushes by other frontends and reuse of the ring's slots: the pages that the next
\* FlushWrite of the backend leaves are those of program order.
THEOREM WritesAlwaysReachServer == Spec => []WritesReachServer
<1>1. Init => Inv
  BY InitGood, Zenon
<1>2. Inv /\ [Next]_vars => Inv'
  BY NextGood
<1>3. Inv => WritesReachServer
  BY GoodKeeps
<1> QED BY <1>1, <1>2, <1>3, PTL DEF Spec
================================================================================
