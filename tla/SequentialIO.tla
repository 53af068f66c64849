----------------------------- MODULE SequentialIO ------------------------------
(***************************************************************************)
(* A page vector in use.  Its clients overwrite it in rounds, front to     *)
(* back, by consecutive CopyOuts or Writers that all give the round as     *)
(* counter, and read it by CopyIn, derefAuth or a Reader, possibly of the  *)
(* previous round while a Writer follows behind in the same vector.        *)
(*                                                                         *)
(* The code never looks at the elements it moves, so every written element *)
(* is a token of its own: its position and round.                          *)
(***************************************************************************)
EXTENDS PageVector

CONSTANTS
  N,                \* elements of the vector
  MaxRound,
  cacheCapacity,    \* pages a PrefetchReader caches
  NoReader, NoWriter

ASSUME SizeAssumption == N \in Nat \ {0} /\ MaxRound \in Nat

VARIABLES
  vec,
  filled,    \* was the vector built with a default value?
  round,     \* the counter of the current round of writes
  pos,       \* elements written in this round and flushed
  reader,    \* the Reader or PrefetchReader in use
  writer,    \* the Writer in use
  lastCopy,  \* was the last operation on the vector a CopyOut?
  lost,      \* defaults that CopyOut, with counter 0, did not keep
  out        \* what was last read, and what should have been

vars == <<vec, filled, round, pos, reader, writer, lastCopy, lost, out>>

Token(i) == [i |-> i, round |-> round]
Default == [i |-> 0, round |-> -1]

\* Elements written in this round, flushed or not.
Written == IF writer = NoWriter THEN pos ELSE writer.it

\* What element i is, and the counter of its page, when no writer is in the way.
Expected(i) ==
  IF i < Written THEN Token(i)
  ELSE IF round > 0 THEN [i |-> i, round |-> round - 1]
  ELSE IF filled /\ i \notin lost THEN Default
  ELSE Garbage

CounterOf(i) ==
  IF Written > 0 /\ PageOf(i) <= PageOf(Written - 1) THEN round
  ELSE IF round > 0 THEN round - 1
  ELSE IF filled THEN 0
  ELSE Unwritten

Init ==
  /\ filled \in BOOLEAN
  /\ vec = IF filled THEN FilledVector(N, Default) ELSE NewVector(N)
  /\ round = 0 /\ pos = 0
  /\ reader = NoReader /\ writer = NoWriter /\ lastCopy = FALSE /\ lost = {}
  /\ out = [got |-> <<>>, want |-> <<>>]

--------------------------------------------------------------------------------
(* Writing *)

Idle == reader = NoReader /\ writer = NoWriter

\* A chunk that begins and ends inside one page relies on the page instance, which
\* the CopyOut before it must have left there, and on the page not being read.
InsidePage(b, e) == OffsetOf(b) # 0 /\ PageOf(b) = PageOf(e)

CopyOutChunk(e) ==
  /\ Idle /\ pos < e
  /\ InsidePage(pos, e) => round = 0 /\ lastCopy
  /\ vec' = CopyOut(vec, pos, e, [i \in pos .. e - 1 |-> Token(i)], round)
  /\ pos' = e /\ lastCopy' = TRUE
  /\ lost' = {i \in e .. N - 1 : round = 0 /\ PageOf(i) = PageOf(e - 1)}
  /\ UNCHANGED <<filled, round, reader, writer, out>>

\* "this issue should be addressed when calling the writer": a range ends with its
\* page, unless the pages it overwrites have this counter already.
EndsWell(e) == e = N \/ OffsetOf(e) = 0 \/ (round = 0 /\ filled)

OpenWriter(e) ==
  /\ writer = NoWriter /\ pos < e /\ EndsWell(e)
  /\ reader # NoReader => pos = 0 /\ reader.counter = round - 1
  /\ vec' = VectorAtOpen(vec, pos, round)
  /\ writer' = NewWriter(vec, pos, e, round)
  /\ lastCopy' = FALSE
  /\ UNCHANGED <<filled, round, pos, reader, lost, out>>

\* A writer stays behind a reader of the previous round.
WriteElement ==
  /\ writer # NoWriter /\ ~eof(writer)
  /\ reader # NoReader => writer.it < reader.it
  /\ vec' = VectorAfterWrite(vec, writer, Token(writer.it))
  /\ writer' = WriterAfter(writer, Token(writer.it))
  /\ UNCHANGED <<filled, round, pos, reader, lastCopy, lost, out>>

FlushWriter ==
  /\ writer # NoWriter /\ eof(writer)
  /\ vec' = VectorAfterFlush(vec, writer)
  /\ pos' = writer.it /\ writer' = NoWriter
  /\ UNCHANGED <<filled, round, reader, lastCopy, lost, out>>

NextRound ==
  /\ Idle /\ pos = N /\ round < MaxRound
  /\ round' = round + 1 /\ pos' = 0 /\ lastCopy' = FALSE
  /\ UNCHANGED <<vec, filled, reader, writer, lost, out>>

\* Another vector's flush, or a full queue, performs the queued writes.
BackendFlush ==
  /\ vec.wq # <<>>
  /\ vec' = flushWrite(vec)
  /\ UNCHANGED <<filled, round, pos, reader, writer, lastCopy, lost, out>>

--------------------------------------------------------------------------------
(* Reading *)

\* All elements of the range were written, and their pages have counter c.
Readable(b, e, c) ==
  c >= 0 /\ \A i \in b .. e - 1 : CounterOf(i) = c /\ Expected(i) # Garbage

CopyInRange(b, e, c) ==
  /\ Idle /\ Readable(b, e, c)
  /\ vec' = VectorAfterCopyIn(vec, b, e, c)
  /\ out' = [got |-> CopyIn(vec, b, e, c), want |-> [i \in b .. e - 1 |-> Expected(i)]]
  /\ lastCopy' = FALSE
  /\ UNCHANGED <<filled, round, pos, reader, writer, lost>>

Deref(i, c) ==
  /\ Idle /\ Readable(i, i + 1, c)
  /\ vec' = AfterRead(vec, PageOf(i), c)
  /\ out' = [got |-> derefAuth(vec, i, c), want |-> Expected(i)]
  /\ UNCHANGED <<filled, round, pos, reader, writer, lastCopy, lost>>

OpenReader(b, e, c, capacity) ==
  /\ Idle /\ Readable(b, e, c)
  /\ reader' = NewReader(b, e, c, capacity)
  /\ UNCHANGED <<vec, filled, round, pos, writer, lastCopy, lost, out>>

ReadElement ==
  /\ reader # NoReader /\ ~eof(reader)
  /\ vec' = VectorAtGet(vec, reader)
  /\ LET r == ReaderAtGet(vec, reader)
     IN /\ out' = [got |-> Current(r), want |-> Expected(r.it)]
        /\ reader' = Advanced(r)
  /\ UNCHANGED <<filled, round, pos, writer, lastCopy, lost>>

CloseReader ==
  /\ reader # NoReader /\ eof(reader)
  /\ reader' = NoReader
  /\ UNCHANGED <<vec, filled, round, pos, writer, lastCopy, lost, out>>

Next ==
  \/ \E e \in 1 .. N : CopyOutChunk(e) \/ OpenWriter(e)
  \/ WriteElement \/ FlushWriter \/ NextRound \/ BackendFlush
  \/ \E b, e \in 0 .. N, c \in 0 .. MaxRound :
       b < e /\ (CopyInRange(b, e, c) \/ \E k \in {1, cacheCapacity} : OpenReader(b, e, c, k))
  \/ \E i \in 0 .. N - 1, c \in 0 .. MaxRound : Deref(i, c)
  \/ ReadElement \/ CloseReader

Spec == Init /\ [][Next]_vars

--------------------------------------------------------------------------------
(* Properties *)

Tokens == [i : 0 .. N - 1, round : -1 .. MaxRound] \cup {Garbage}

\* Pages hold elements of the vector, counters stay within the rounds, the cache
\* positions within their pages.
TypeOK ==
  /\ \A p \in DOMAIN vec.store :
       /\ vec.store[p].counter \in -1 .. MaxRound
       /\ \A o \in Offsets : vec.store[p].items[o] \in Tokens
  /\ round \in 0 .. MaxRound /\ pos \in 0 .. N
  /\ writer # NoWriter => writer.curr \in Offsets /\ writer.it \in pos .. writer.end
  /\ reader # NoReader => reader.it \in 0 .. reader.end

\* No read gives a counter other than its page's, in whatever order copies, readers
\* and writers of this round and the previous one follow each other.
NeverAborts == ~vec.aborted

\* A reader returns the elements that were last written, in order: also one whose
\* vector a Writer is overwriting, and from pages that are partly overwritten.
ReadsReturnContents == out.got = out.want

\* Readers and copies in any order return the right elements and never abort.
ReadsSucceed == TypeOK /\ NeverAborts /\ ReadsReturnContents

\* Nothing written is lost: once the writer has flushed, every element is on the server
\* or in the queue, under the counter a reader will give, including those that share a
\* page with a later or an earlier chunk.
StoreHoldsContents ==
  writer = NoWriter =>
    LET v == flushWrite(vec)
    IN \A i \in 0 .. N - 1 :
         Expected(i) # Garbage =>
           v.store[PageOf(i)].counter = CounterOf(i)
             /\ v.store[PageOf(i)].items[OffsetOf(i)] = Expected(i)
================================================================================
