------------------------------ MODULE PageVector -------------------------------
(***************************************************************************)
(* NonCachedVector: a vector on server pages that is only accessed         *)
(* sequentially, through Readers, Writers, CopyIn and CopyOut.  A page is   *)
(* encrypted under the counter its writer gives; a reader that gives       *)
(* another one aborts the program, so clients count the times they         *)
(* overwrite the vector.                                                   *)
(*                                                                         *)
(* A vector is a record: store, its pages on the server; wq, writes queued *)
(* by WriteLazy; rq, reads queued by the lazy readers; readers, the        *)
(* LazyPrefetchReaders on it; cachePage, the page instance CopyIn and      *)
(* CopyOut share; size, its N; aborted, set when a page does not           *)
(* authenticate.                                                           *)
(* Of the frontend it relies on what BatchIO establishes: queued jobs are  *)
(* performed in order, by a flush or earlier, and a buffer's contents are  *)
(* unspecified until its job is done.                                      *)
(***************************************************************************)
EXTENDS Integers, SequencesExt

CONSTANTS
  item_per_page,
  Garbage         \* memory that nothing meaningful was written to

ASSUME PageAssumption == item_per_page \in Nat \ {0}

Offsets == 0 .. item_per_page - 1
PageOf(i) == i \div item_per_page
OffsetOf(i) == i % item_per_page

\* The counter of a page that was never written; no reader gives it.
Unwritten == -1

GarbagePage == [o \in Offsets |-> Garbage]

\* divRoundUp(N, item_per_page) pages, none of them written.
NewVector(n) ==
  [size |-> n,
   store |-> [p \in 0 .. PageOf(n + item_per_page - 1) - 1 |->
                [counter |-> Unwritten, items |-> GarbagePage]],
   wq |-> <<>>, rq |-> <<>>, readers |-> <<>>, done |-> 0, jobs |-> 0,
   cachePage |-> GarbagePage, aborted |-> FALSE]

\* The constructor with a default value writes every page with counter 0.
FilledVector(n, defaultVal) ==
  LET v == NewVector(n)
  IN [v EXCEPT !.store = [p \in DOMAIN v.store |->
                            [counter |-> 0, items |-> [o \in Offsets |-> defaultVal]]]]

--------------------------------------------------------------------------------
(* The frontend *)

Authentic(v, p, c) == v.store[p].counter = c

\* What Read delivers.
ReadItems(v, p, c) == IF Authentic(v, p, c) THEN v.store[p].items ELSE GarbagePage

\* Decrypt aborts if a page was not written with the counter it is read with.
AfterRead(v, p, c) == [v EXCEPT !.aborted = @ \/ ~Authentic(v, p, c)]

Write(v, p, items, c) == [v EXCEPT !.store[p] = [counter |-> c, items |-> items]]

WriteLazy(v, p, items, c) == [v EXCEPT !.wq = Append(@, [p |-> p, items |-> items, c |-> c])]

flushWrite(v) ==
  [FoldLeft(LAMBDA u, w : Write(u, w.p, w.items, w.c), v, v.wq) EXCEPT !.wq = <<>>]

--------------------------------------------------------------------------------
(* Reader, and PrefetchReader with a cache of capacity pages.  curr counts items *)
(* from the beginning of the cache; it starts beyond its end.                    *)

Fresh == 1000000

NewReader(begin, end, counter, capacity) ==
  [it |-> begin, end |-> end, counter |-> counter, capacity |-> capacity,
   cache |-> <<>>, curr |-> Fresh]

eof(r) == r.end <= r.it

\* The pages get loads; a PrefetchReader has all reads flushed, which performs
\* queued writes first.
Loaded(r) ==
  LET end == PageOf(r.end - 1) + 1
  IN [k \in 1 .. (IF r.capacity < end - PageOf(r.it) THEN r.capacity ELSE end - PageOf(r.it)) |->
        PageOf(r.it) + k - 1]

MustLoad(r) == r.curr >= r.capacity * item_per_page

VectorAtGet(v, r) ==
  LET u == IF r.capacity > 1 THEN flushWrite(v) ELSE v
  IN IF MustLoad(r) THEN FoldLeft(LAMBDA x, p : AfterRead(x, p, r.counter), u, Loaded(r)) ELSE v

ReaderAtGet(v, r) ==
  LET u == IF r.capacity > 1 THEN flushWrite(v) ELSE v
      pages == Loaded(r)
  IN IF ~MustLoad(r) THEN r
     ELSE [r EXCEPT !.cache = [k \in DOMAIN pages |-> ReadItems(u, pages[k], r.counter)],
                    !.curr = IF @ = r.capacity * item_per_page THEN 0 ELSE OffsetOf(r.it)]

\* The element get returns.
Current(r) == r.cache[PageOf(r.curr) + 1][OffsetOf(r.curr)]

\* Mutant of Advanced: the cache position stays.
AdvancedItOnly(r) == [r EXCEPT !.it = @ + 1]

\* What read does to the reader after get.
Advanced(r) == [r EXCEPT !.it = @ + 1, !.curr = @ + 1]

--------------------------------------------------------------------------------
(* Writer *)

\* The page is read if the range begins inside it.
MustReadFirst(begin) == OffsetOf(begin) # 0 /\ begin # 0

VectorAtOpen(v, begin, c) ==
  IF MustReadFirst(begin) THEN AfterRead(v, PageOf(begin), c) ELSE v

NewWriter(v, begin, end, c) ==
  [it |-> begin, end |-> end, counter |-> c, curr |-> OffsetOf(begin),
   cache |-> IF MustReadFirst(begin) THEN ReadItems(v, PageOf(begin), c) ELSE GarbagePage]

WriterAfter(w, e) ==
  [w EXCEPT !.cache[w.curr] = e, !.it = @ + 1, !.curr = (@ + 1) % item_per_page]

\* A full page is queued.
VectorAfterWrite(v, w, e) ==
  LET x == WriterAfter(w, e)
  IN IF w.curr + 1 = item_per_page THEN WriteLazy(v, PageOf(x.it) - 1, x.cache, w.counter) ELSE v

\* Mutant of VectorAfterFlush: the rest of the last page is taken from the cache.
FlushKeepsNothing(v, w) ==
  LET p == PageOf(w.it)
      offset == OffsetOf(w.it)
      items == [o \in Offsets |-> IF o < offset THEN w.cache[o] ELSE Garbage]
  IN flushWrite(IF offset = 0 THEN v ELSE WriteLazy(v, p, items, w.counter))

\* The last page keeps its other items only if the counter is 0.
VectorAfterFlush(v, w) ==
  LET p == PageOf(w.it)
      offset == OffsetOf(w.it)
      reads == w.it # v.size /\ w.counter = 0
      original == IF reads THEN ReadItems(v, p, 0) ELSE GarbagePage
      items == [o \in Offsets |-> IF o < offset THEN w.cache[o] ELSE original[o]]
      u == IF reads THEN AfterRead(v, p, 0) ELSE v
  IN flushWrite(IF offset = 0 THEN v ELSE WriteLazy(u, p, items, w.counter))

--------------------------------------------------------------------------------
(* CopyOut and CopyIn.  from is a function on the copied range. *)

\* Items from .. to - 1 of page p are replaced in the page instance, which is
\* then written.
PatchPage(v, p, first, last, from, c) ==
  LET page == [o \in Offsets |-> LET i == p * item_per_page + o
                                 IN IF i \in first .. last - 1 THEN from[i] ELSE v.cachePage[o]]
  IN Write([v EXCEPT !.cachePage = page], p, page, c)

\* vec.server.Read(p, page, c)
LoadInstance(v, p, c) == [AfterRead(v, p, c) EXCEPT !.cachePage = ReadItems(v, p, c)]

\* The page's other items are kept, except if the counter is 0.
ReadOld(v, p, counter) == IF counter > 0 THEN LoadInstance(v, p, counter - 1) ELSE v

\* The partial page at the beginning was written before, with this counter; the
\* one at the end was not, so it has the counter before.
CopyOut(v, to, toEnd, from, counter) ==
  LET b == PageOf(to)
      e == PageOf(toEnd)
      whole == IF OffsetOf(to) # 0 THEN b + 1 ELSE b
      first == IF OffsetOf(to) = 0 THEN v
               ELSE PatchPage(LoadInstance(v, b, counter), b, to, toEnd, from, counter)
      middle == flushWrite(
                  FoldLeft(LAMBDA u, p :
                             WriteLazy(u, p, [o \in Offsets |-> from[p * item_per_page + o]], counter),
                           first, [k \in 1 .. e - whole |-> whole + k - 1]))
  IN IF to = toEnd THEN v
     ELSE IF b = e THEN PatchPage(IF to # 0 \/ toEnd # v.size THEN ReadOld(v, b, counter) ELSE v,
                                  b, to, toEnd, from, counter)
     ELSE IF OffsetOf(toEnd) = 0 THEN middle
     ELSE PatchPage(IF toEnd # v.size THEN ReadOld(middle, e, counter) ELSE middle,
                    e, to, toEnd, from, counter)

\* CopyIn of a non-empty range: the partial pages go through the page instance, the
\* whole ones straight to their destination.  All but a partial page at the
\* beginning are read lazily, which performs queued writes first.
CopySource(v, begin, p) == IF p = PageOf(begin) /\ OffsetOf(begin) # 0 THEN v ELSE flushWrite(v)

PagesOf(begin, end) == [k \in 1 .. PageOf(end - 1) + 1 - PageOf(begin) |-> PageOf(begin) + k - 1]

VectorAfterCopyIn(v, begin, end, c) ==
  LET last == PageOf(end - 1)
      u == FoldLeft(LAMBDA x, p : AfterRead(CopySource(x, begin, p), p, c), v, PagesOf(begin, end))
      Instance(p) == [u EXCEPT !.cachePage = ReadItems(CopySource(v, begin, p), p, c)]
  IN IF OffsetOf(end) # 0 THEN Instance(last)
     ELSE IF OffsetOf(begin) # 0 THEN Instance(PageOf(begin))
     ELSE u

CopyIn(v, begin, end, c) ==
  [i \in begin .. end - 1 |->
     ReadItems(CopySource(v, begin, PageOf(i)), PageOf(i), c)[OffsetOf(i)]]

\* derefAuth reads a page for one item.
derefAuth(v, i, c) == ReadItems(v, PageOf(i), c)[OffsetOf(i)]

--------------------------------------------------------------------------------
(* LazyPrefetchReader: a ring of pages whose reads are queued ahead.  curr and    *)
(* currPageEnd count items from the beginning of the ring.                       *)

NewLazyReader(begin, end, counter, capacity) ==
  [it |-> begin, end |-> end, counter |-> counter, capacity |-> capacity,
   cache |-> [k \in 0 .. capacity - 1 |-> GarbagePage],
   jobCounters |-> [k \in 0 .. capacity - 1 |-> 0],
   curr |-> OffsetOf(begin), currPageEnd |-> item_per_page]

endPageIdx(r) == PageOf(r.end - 1) + 1

\* The buffer may be overwritten from now on.
ReadLazy(v, id, slot, p) ==
  LET u == flushWrite(v)
  IN [u EXCEPT !.jobs = @ + 1,
               !.rq = Append(@, [id |-> id, slot |-> slot, p |-> p]),
               !.readers[id].cache[slot] = GarbagePage,
               !.readers[id].jobCounters[slot] = u.jobs + 1]

flushRead(v) ==
  LET Deliver(u, q) ==
        LET c == u.readers[q.id].counter
        IN [AfterRead(u, q.p, c) EXCEPT !.readers[q.id].cache[q.slot] = ReadItems(u, q.p, c)]
  IN [FoldLeft(Deliver, v, v.rq) EXCEPT !.rq = <<>>, !.done = v.jobs]

isJobDone(v, job) == v.done >= job

initLazy(v, id) ==
  LET r == v.readers[id]
      p == PageOf(r.it)
      k == IF r.capacity < endPageIdx(r) - p THEN r.capacity ELSE endPageIdx(r) - p
  IN flushRead(FoldLeft(LAMBDA u, j : ReadLazy(u, id, j - 1, p + j - 1), v, [j \in 1 .. k |-> j]))

\* Mutant of getLazy: the page the reader has just moved to is overwritten.
getLazyOverwrites(v, id) ==
  LET r == v.readers[id]
      prev == PageOf(r.currPageEnd) - 1
      curr == (prev + 1) % r.capacity
      u == IF isJobDone(v, r.jobCounters[curr]) THEN v ELSE flushRead(v)
      next == PageOf(r.it) + r.capacity - 1
      w == IF next < endPageIdx(r) THEN ReadLazy(u, id, curr, next) ELSE u
  IN IF r.curr # r.currPageEnd THEN v
     ELSE [w EXCEPT !.readers[id].curr = curr * item_per_page,
                    !.readers[id].currPageEnd = (curr + 1) * item_per_page]

\* At the end of a page: wait for the next one, reuse the buffer of the last one.
getLazy(v, id) ==
  LET r == v.readers[id]
      prev == PageOf(r.currPageEnd) - 1
      curr == (prev + 1) % r.capacity
      u == IF isJobDone(v, r.jobCounters[curr]) THEN v ELSE flushRead(v)
      next == PageOf(r.it) + r.capacity - 1
      w == IF next < endPageIdx(r) THEN ReadLazy(u, id, prev, next) ELSE u
  IN IF r.curr # r.currPageEnd THEN v
     ELSE [w EXCEPT !.readers[id].curr = curr * item_per_page,
                    !.readers[id].currPageEnd = (curr + 1) * item_per_page]

\* The element a lazy reader points to.
LazyCurrent(v, id) ==
  LET r == v.readers[id] IN r.cache[PageOf(r.curr)][OffsetOf(r.curr)]

LazyAdvanced(v, id) == [v EXCEPT !.readers[id] = Advanced(@)]
================================================================================
