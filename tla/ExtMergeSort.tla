----------------------------- MODULE ExtMergeSort ------------------------------
(***************************************************************************)
(* External merge sort.  The iterator version merges given sorted ranges   *)
(* of a vector; the batch version first sorts batches of a vector in       *)
(* memory into batchSorted, and merges them back into the vector.  With    *)
(* more than maxWay ranges, groups of them are first merged into temp.     *)
(*                                                                         *)
(* One step reads one element off the heap and writes it.  The readers are *)
(* LazyPrefetchReaders (the DISK_IO build).                                *)
(***************************************************************************)
EXTENDS PageVector, FiniteSets

CONSTANTS
  Cases           \* the calls: see Init

VARIABLES
  call,           \* what was called, and with which input
  vecs,           \* the vectors: "io", the output; "in", with the ranges; "temp"
  todo,           \* the merges to do, in the order the recursion does them
  batchIdx,       \* batches sorted
  ready,          \* readers initialised
  heap,           \* the readers on the heap
  writer          \* outputWriter

vars == <<call, vecs, todo, batchIdx, ready, heap, writer>>

NoWriter == [it |-> 0, end |-> 0, counter |-> 0, curr |-> 0, cache |-> GarbagePage]

--------------------------------------------------------------------------------
(* The plan of passes *)

divRoundUp(a, b) == (a + b - 1) \div b

\* (size_t)(log(rangeCount) / log(maxWay) + 1)
passNeeded(rangeCount, maxWay) ==
  CHOOSE p \in 1 .. rangeCount : maxWay ^ p > rangeCount /\ maxWay ^ (p - 1) <= rangeCount

\* (size_t)pow(rangeCount, 1.0 / passNeeded)
Root(rangeCount, p) == CHOOSE w \in 1 .. rangeCount : w ^ p <= rangeCount /\ (w + 1) ^ p > rangeCount

subRangeCount(rangeCount, maxWay) ==
  divRoundUp(rangeCount, Root(rangeCount, passNeeded(rangeCount, maxWay)))

wayOf(rangeCount, k) == divRoundUp(rangeCount, k)

\* The merges of one call, in order: of each group of ranges into temp, with counter
\* 0, then of the groups.  A range is a pair of indices.  The groups are small enough
\* for their recursive calls to be single merges: two layers.
Merges(ranges, outAuth, maxWay) ==
  LET n == Len(ranges)
      k == subRangeCount(n, maxWay)
      way == wayOf(n, k)
      Group(i) == SubSeq(ranges, (i - 1) * k + 1, IF i * k < n THEN i * k ELSE n)
      Sub(i) == <<Group(i)[1][1], Group(i)[Len(Group(i))][2]>>
      MergeOf(from, rs, to, c) ==
        [from |-> from, ranges |-> rs, to |-> to, begin |-> rs[1][1], end |-> rs[Len(rs)][2], outAuth |-> c]
  IN IF n <= maxWay THEN <<MergeOf("in", ranges, "io", outAuth)>>
     ELSE Append([i \in 1 .. way |-> MergeOf("in", Group(i), "temp", 0)],
                 MergeOf("temp", [i \in 1 .. way |-> Sub(i)], "io", outAuth))

--------------------------------------------------------------------------------
(* Calls *)

\* A vector whose pages were all written with this counter.
StoredVector(a, c) ==
  LET v == NewVector(Len(a))
  IN [v EXCEPT !.store = [p \in DOMAIN v.store |->
        [counter |-> c,
         items |-> [o \in Offsets |-> LET i == p * item_per_page + o
                                      IN IF i < Len(a) THEN a[i + 1] ELSE Garbage]]]]

SortedArray(a) == SortSeq(a, <)

\* A call of the iterator version: the ranges follow one another.
CallRanges(c) ==
  /\ call = c
  /\ vecs = [x \in {"in", "io", "temp"} |->
               IF x = "in" THEN StoredVector(c.a, 0) ELSE NewVector(Len(c.a))]
  /\ todo = Merges(c.ranges, c.outAuth, c.maxWay)
  /\ batchIdx = 0

\* A call of the batch version; maxWay is computed from the batch size.
batchCount(c) == divRoundUp(Len(c.a), c.batchSize)

BatchEnd(c, k) == IF (k + 1) * c.batchSize < Len(c.a) THEN (k + 1) * c.batchSize ELSE Len(c.a)

CallBatches(c) ==
  /\ call = c
  /\ vecs = [x \in {"in", "io"} |-> IF x = "io" THEN StoredVector(c.a, c.inAuth) ELSE NewVector(Len(c.a))]
  /\ todo = IF batchCount(c) = 1 THEN <<>>
            ELSE Merges([k \in 1 .. batchCount(c) |-> <<(k - 1) * c.batchSize, BatchEnd(c, k - 1)>>],
                    c.outAuth, c.batchSize \div (2 * item_per_page))
  /\ batchIdx = 0

Init ==
  /\ \E c \in Cases : IF c.entry = "ranges" THEN CallRanges(c) ELSE CallBatches(c)
  /\ ready = 0 /\ heap = {} /\ writer = NoWriter

Aborted == \E x \in DOMAIN vecs : vecs[x].aborted

--------------------------------------------------------------------------------
(* Sorting the batches *)

Batching == call.entry = "batches" /\ batchIdx < batchCount(call) /\ ~Aborted

\* CopyIn from the vector, sort, CopyOut to batchSorted; a single batch goes back
\* to the vector.
SortBatch ==
  /\ Batching
  /\ LET b == batchIdx * call.batchSize
         e == BatchEnd(call, batchIdx)
         mem == CopyIn(vecs["io"], b, e, call.inAuth)
         sorted == SortedArray([k \in 1 .. e - b |-> mem[b + k - 1]])
         from == [i \in b .. e - 1 |-> sorted[i - b + 1]]
         read == VectorAfterCopyIn(vecs["io"], b, e, call.inAuth)
     IN vecs' = IF batchCount(call) = 1
                THEN [vecs EXCEPT !["io"] = CopyOut(read, b, e, from, call.outAuth)]
                ELSE [vecs EXCEPT !["io"] = read, !["in"] = CopyOut(@, b, e, from, 0)]
  /\ batchIdx' = batchIdx + 1
  /\ UNCHANGED <<call, todo, ready, heap, writer>>

--------------------------------------------------------------------------------
(* Merging *)

task == Head(todo)
Merging == todo # <<>> /\ ~Batching /\ ~Aborted
FromTemp == task.from = "temp"

\* The writer and the readers are constructed.  temp was declared in the block that
\* filled it: readers on it use a dead object, which may or may not still work.
Open ==
  /\ Merging /\ writer = NoWriter
  /\ \E alive \in IF FromTemp THEN BOOLEAN ELSE {TRUE} :
       LET v == vecs[task.from]
           src == [v EXCEPT !.readers = [k \in DOMAIN task.ranges |->
                                           NewLazyReader(task.ranges[k][1], task.ranges[k][2], 0, 2)],
                            !.store = IF alive THEN @ ELSE NewVector(v.size).store]
       IN vecs' = [vecs EXCEPT ![task.from] = src,
                               ![task.to] = VectorAtOpen(@, task.begin, task.outAuth)]
  /\ writer' = NewWriter(vecs[task.to], task.begin, task.end, task.outAuth)
  /\ UNCHANGED <<call, todo, batchIdx, ready, heap>>

Opened == Merging /\ writer # NoWriter

\* reader.init() and the first get; a single reader is not put on a heap.
InitReader ==
  /\ Opened /\ ready < Len(task.ranges)
  /\ ready' = ready + 1
  /\ vecs' = [vecs EXCEPT ![task.from] = getLazy(initLazy(@, ready'), ready')]
  /\ heap' = heap \cup {ready'}
  /\ UNCHANGED <<call, todo, batchIdx, writer>>

Top(k) == LazyCurrent(vecs[task.from], k)

\* The element at the top is written, and its reader put back at its next one.
\* Which of several equal elements is on top is up to the heap.
MergeStep ==
  /\ Opened /\ ready = Len(task.ranges) /\ heap # {}
  /\ \E k \in heap :
       /\ \A j \in heap : Top(j) # Garbage /\ Top(k) # Garbage => Top(k) <= Top(j)
       /\ LET read == LazyAdvanced(vecs[task.from], k)
              more == ~eof(read.readers[k])
          IN /\ vecs' = [vecs EXCEPT
                           ![task.from] = IF more THEN getLazy(read, k) ELSE read,
                           ![task.to] = VectorAfterWrite(@, writer, Top(k))]
             /\ heap' = IF more THEN heap ELSE heap \ {k}
       /\ writer' = WriterAfter(writer, Top(k))
  /\ UNCHANGED <<call, todo, batchIdx, ready>>

\* Mutant of Finish: the writer is not flushed.
FinishUnflushed ==
  /\ Opened /\ ready = Len(task.ranges) /\ heap = {}
  /\ todo' = Tail(todo) /\ ready' = 0 /\ writer' = NoWriter
  /\ UNCHANGED <<call, vecs, batchIdx, heap>>

Finish ==
  /\ Opened /\ ready = Len(task.ranges) /\ heap = {}
  /\ vecs' = [vecs EXCEPT ![task.to] = VectorAfterFlush(@, writer)]
  /\ todo' = Tail(todo) /\ ready' = 0 /\ writer' = NoWriter
  /\ UNCHANGED <<call, batchIdx, heap>>

Returned == todo = <<>> /\ ~Batching

\* The call has returned, or the program has aborted.
Stop == (Returned \/ Aborted) /\ UNCHANGED vars

Next == SortBatch \/ Open \/ InitReader \/ MergeStep \/ Finish \/ Stop

Spec == Init /\ [][Next]_vars

--------------------------------------------------------------------------------
(* Properties *)

\* The heap, the readers and the writer stay within the merge under way.
TypeOK ==
  /\ \A x \in DOMAIN vecs : vecs[x].done <= vecs[x].jobs /\ (vecs[x].rq = <<>> \/ vecs[x].wq = <<>>)
  /\ batchIdx \in Nat /\ heap \subseteq 1 .. ready
  /\ Merging => ready <= Len(task.ranges) /\ writer.it <= writer.end

\* The elements of a vector, as a reader with counter c finds them.
Contents(v, begin, end, c) ==
  [k \in 1 .. end - begin |-> ReadItems(v, PageOf(begin + k - 1), c)[OffsetOf(begin + k - 1)]]

Output == Contents(vecs["io"], 0, Len(call.a), call.outAuth)

Ways == IF call.entry = "ranges" THEN call.maxWay ELSE call.batchSize \div (2 * item_per_page)
RangeCount == IF call.entry = "ranges" THEN Len(call.ranges) ELSE batchCount(call)

\* With at most maxWay ranges the merge ends with the input sorted in the output, each
\* page under the counter the caller will read it with, and no page is read with
\* another counter than it was written with, in place or not.
SortedAtTheEnd ==
  RangeCount <= Ways =>
    /\ ~Aborted
    /\ Returned => Output = SortedArray(call.a)

\* Every pointer on the heap is to an element of its range that has arrived: the
\* comparisons never see a page of the ring whose read is still queued, or that was
\* given to the read of a later page.
HeapPointsAtData ==
  Merging /\ ~FromTemp => \A k \in heap :
    Top(k) = ReadItems(vecs["in"], PageOf(vecs["in"].readers[k].it), 0)[OffsetOf(vecs["in"].readers[k].it)]

\* The first layer leaves every range of the input in temp, in sorted groups, wherever
\* their boundaries lie on the pages, unless the program has aborted.
GroupsSorted ==
  Merging /\ FromTemp /\ writer = NoWriter =>
    /\ task.end = Len(call.a)
    /\ \A k \in DOMAIN task.ranges :
         LET b == task.ranges[k][1]
             e == task.ranges[k][2]
         IN Contents(vecs["temp"], b, e, 0) = SortedArray(SubSeq(call.a, b + 1, e))

\* Both layers of the merge sort what they merge: groups of ranges in temp, and all of
\* the input in the output when one layer is enough.
LayersSort == TypeOK /\ SortedAtTheEnd /\ GroupsSorted

\* "supports up to two layers": the call ends with the input sorted in the output.
TwoLayersSort == ~Aborted /\ (Returned => Output = SortedArray(call.a))
================================================================================
