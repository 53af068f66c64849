--------------------------------- MODULE Sorters -------------------------------
(***************************************************************************)
(* The entry points of the flex-way butterfly and distribution o-sorts:    *)
(* which of the algorithms a call runs, on which counters, and the reader  *)
(* that reads the pages of a vector in random order.                       *)
(*                                                                         *)
(* A vector is a record: its items; external, whether it is on a server;   *)
(* auth, the counter its pages were written with.  Items are records of    *)
(* data and id.  The parameters p of the networks come with the call:      *)
(* ParamSelect models how they are chosen.  A call returns the vector, and *)
(* in status why it aborted, if it did.                                    *)
(***************************************************************************)
EXTENDS Bitonic, Compaction, FlexWay

CONSTANTS
  Small,      \* 512: vectors that are sorted or shuffled in memory
  HeapItems   \* 4096: the heap is not more than for two times as many elements

Least(a, b) == IF a < b THEN a ELSE b
Most(a, b) == IF a < b THEN b ELSE a

Result(vec, status, items, auth) ==
  [status |-> status, vec |-> IF status = "ok" THEN [vec EXCEPT !.items = items, !.auth = auth] ELSE vec]

\* A reader of an external vector checks the counter of its pages.
Readable(vec, counter) == vec.external => vec.auth = counter

\* Mutant of Rewritten: the vector is written with the counter it was read with.
RewrittenAsRead(vec, inAuth) == IF vec.external THEN inAuth ELSE vec.auth

\* The counter after a Writer has written an external vector; memory has none.
Rewritten(vec, inAuth) == IF vec.external THEN inAuth + 1 ELSE vec.auth

LessData(items) == [a, b \in items |-> a.data < b.data]

\* BitonicSort(Mem): equal elements in any order, here that of the network.
SortedItems(items) ==
  LET n == Len(items)
      sorted == Sorted([i \in 0 .. n - 1 |-> items[i + 1]], n, LessData(Range(items)))
  IN [i \in 1 .. n |-> sorted[i - 1]]

\* All outcomes of OrShuffle(Mem).
ShuffledItems(items) ==
  LET n == Len(items)
  IN {[i \in 1 .. n |-> a[i - 1]] : a \in OrShuffle([i \in 0 .. n - 1 |-> items[i + 1]], 0, n)}

--------------------------------------------------------------------------------
(* Merging *)

\* pop_heap: a run whose head has the least key.
LeastRun(runs, key) ==
  CHOOSE r \in DOMAIN runs :
    runs[r] # <<>> /\ \A q \in DOMAIN runs : runs[q] # <<>> => key[Head(runs[r])] <= key[Head(runs[q])]

\* The heads of the runs are taken in order until all runs are empty.
MergeRuns(runs, key) ==
  LET Pop(s, i) == LET r == LeastRun(s.runs, key)
                   IN [runs |-> [s.runs EXCEPT ![r] = Tail(@)], out |-> Append(s.out, Head(s.runs[r]))]
      total == Len(FlattenSeq(runs))
  IN Steps(Pop, [runs |-> runs, out |-> <<>>], Loop(total)).out

--------------------------------------------------------------------------------
(* Butterfly *)

\* The heap in bytes of the wrapped elements of sizeofW bytes each.
cappedHeap(N, heapSize, sizeofW) == Least(heapSize, Most(N, HeapItems) * sizeofW * 2)

\* The elements that fit beside the space for a merge-split of eight buckets.
numElementFit(heapSize, Z, sizeofW) == (heapSize - 16 * Z) \div sizeofW - 8 * Z

\* One network over the elements, with their random tags.
ButterflyRun(vec, p, tags, heap, isSort) ==
  LET fit == numElementFit(heap, p.Z, p.sizeofW) \div p.Z
  IN ButterflySort([ways |-> p.ways, Z |-> p.Z, fit |-> fit, sort |-> isSort],
                   [i \in DOMAIN vec.items |-> [id |-> i, tag |-> tags[i]]])

\* The items of the elements es.
ItemsOf(vec, es) == [i \in DOMAIN es |-> vec.items[es[i].id]]

\* A run: the reals of some batches in order.
SortedRun(vec, buckets) ==
  LET reals == UNION {buckets[b] : b \in DOMAIN buckets}
  IN SetToSortSeq({vec.items[e.id] : e \in reals}, LAMBDA x, y : x.data < y.data)

\* The elements of a bucket of the last layer are output in the order of what is left
\* of their tags: any.
KWayButterflyOShuffle(vec, inAuth, heapSize, p, tags) ==
  LET N == Len(vec.items)
      InPlace == {Result(vec, "ok", items, vec.auth) : items \in ShuffledItems(vec.items)}
      ReadIn == {Result(vec, "ok", items, Rewritten(vec, inAuth)) : items \in ShuffledItems(vec.items)}
      Network(s) == Result(vec, IF s.overflow THEN "overflow" ELSE IF s.authFail THEN "auth" ELSE "ok",
                           ItemsOf(vec, FlattenSeq([i \in DOMAIN s.out |->
                                          FlattenSeq([b \in DOMAIN s.out[i] |-> SetToSeq(s.out[i][b])])])),
                           Rewritten(vec, inAuth))
  IN IF ~vec.external /\ N <= Small THEN InPlace
     ELSE IF ~Readable(vec, inAuth) THEN {Result(vec, "auth", <<>>, 0)}
     ELSE IF N <= Small THEN ReadIn
     ELSE {The({Network(r) : r \in {ButterflyRun(vec, p, tags, cappedHeap(N, heapSize, p.sizeofW), FALSE)}})}

\* With one batch the network's output is the result; otherwise it is the runs of an
\* external merge sort in a vector of their own.
KWayButterflySortVec(vec, inAuth, heapSize, p, tags) ==
  LET N == Len(vec.items)
      Network(s) ==
        LET runs == [i \in DOMAIN s.out |-> SortedRun(vec, s.out[i])]
        IN Result(vec, IF s.overflow THEN "overflow" ELSE IF s.authFail THEN "auth" ELSE "ok",
                  IF Len(p.ways) = 1 THEN FlattenSeq(runs) ELSE MergeRuns(runs, [x \in Range(vec.items) |-> x.data]),
                  Rewritten(vec, inAuth))
  IN IF ~vec.external /\ N <= Small THEN Result(vec, "ok", SortedItems(vec.items), vec.auth)
     ELSE IF ~Readable(vec, inAuth) THEN Result(vec, "auth", <<>>, 0)
     ELSE IF N <= Small THEN Result(vec, "ok", SortedItems(vec.items), Rewritten(vec, inAuth))
     ELSE The({Network(r) : r \in {ButterflyRun(vec, p, tags, cappedHeap(N, heapSize, p.sizeofW), TRUE)}})

--------------------------------------------------------------------------------
(* PagePermReader: pages of item_per_page elements in random order *)

\* Place n takes the element of a random place before it, from the last place on.
fisherYatesShuffle(a, N, draw) ==
  Steps(LAMBDA b, n : condSwap(TRUE, b, draw[n], n), a, [i \in 1 .. N - 1 |-> N - i])

\* The pages in memory: all but the last one are shuffled.
permInMemory(pages, draw) == fisherYatesShuffle([i \in 0 .. pages - 1 |-> i], pages - 1, draw)

\* The pages in batches of batchSize sorted by random tags and merged; equal tags in
\* any order, here that of the pages.
permExternal(pages, draw, batchSize) ==
  LET permSize == pages - 1
      batches == (permSize + batchSize - 1) \div batchSize
      Batch(b) == SetToSortSeq({[v |-> j, tag |-> draw[j]] :
                                  j \in b * batchSize .. Least((b + 1) * batchSize, permSize) - 1},
                               LAMBDA x, y : x.tag < y.tag \/ (x.tag = y.tag /\ x.v < y.v))
      runs == [b \in 1 .. batches |-> Batch(b - 1)]
      merged == MergeRuns(runs, [x \in Range(FlattenSeq(runs)) |-> x.tag])
  IN [i \in 0 .. permSize |-> IF i < permSize THEN merged[i + 1].v ELSE permSize]

PagePerm(pages, draw, heapSize) ==
  IF 8 * pages < heapSize THEN permInMemory(pages, draw)
  ELSE permExternal(pages, draw, heapSize \div 16)

\* When page pageIdx is read: pages are fetched cacheCapacity at a time, and this is the
\* place of the one fetched last.
translatedPageIdx(perm, pages, pageIdx, cacheCapacity) ==
  perm[Least((pageIdx \div cacheCapacity + 1) * cacheCapacity, pages) - 1]

\* The k-th read: the place of the element and what getLastIdx returns for it.
permutedRead(perm, pages, k, item_per_page, cacheCapacity) ==
  LET pageIdx == k \div item_per_page
      offset == k % item_per_page
  IN [at |-> perm[pageIdx] * item_per_page + offset,
      lastIdx |-> translatedPageIdx(perm, pages, pageIdx, cacheCapacity) * item_per_page + offset]

--------------------------------------------------------------------------------
(* Distribution *)

\* What the sorter reads: a shuffled vector in order, tagged by a counter that is not
\* initialised, another one in the order of its pages.
distriInput(vec, p, preshuffled, inputCount, draw, heapSize) ==
  LET N == Len(vec.items)
      pages == (N + p.item_per_page - 1) \div p.item_per_page
      Read(perm) ==
        [k \in 1 .. N |->
           IF preshuffled
           THEN [id |-> k, data |-> vec.items[k].data, tag |-> inputCount + k - 1]
           ELSE LET r == permutedRead(perm, pages, k - 1, p.item_per_page, p.cacheCapacity)
                IN [id |-> r.at + 1, data |-> vec.items[r.at + 1].data, tag |-> r.lastIdx]]
  IN The({Read(r) : r \in {IF preshuffled THEN <<>> ELSE PagePerm(pages, draw, heapSize)}})

\* The samples are read with counter 0, whatever inAuth is.
KWayDistriSortVec(vec, inAuth, heapSize, p, chosen, preshuffled, inputCount, draw) ==
  LET N == Len(vec.items)
      data == [i \in 1 .. N |-> vec.items[i].data]
      pivots == sampleForPivots(data, chosen, p.M, p.len, numPartition(p))
      Network(s) == Result(vec, IF s.overflow THEN "overflow" ELSE IF s.authFail THEN "auth" ELSE "ok",
                           FlattenSeq([i \in DOMAIN s.out |-> ItemsOf(vec, s.out[i])]), inAuth + 1)
  IN IF N <= heapSize \div p.sizeofT
     THEN IF Readable(vec, inAuth) THEN Result(vec, "ok", SortedItems(vec.items), Rewritten(vec, inAuth))
          ELSE Result(vec, "auth", <<>>, 0)
     ELSE IF ~Readable(vec, 0) \/ ~Readable(vec, inAuth) THEN Result(vec, "auth", <<>>, 0)
     ELSE The({Network(r) : r \in {DistributionSort(p, distriInput(vec, p, preshuffled, inputCount, draw, heapSize),
                                         pivots)}})
================================================================================
