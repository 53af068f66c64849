---------------------------- MODULE MCExtMergeSort -----------------------------
(***************************************************************************)
(* Calls of ExtMergeSort: all ways to cut a short array of sorted ranges,  *)
(* and all arrays of two keys for the batch version.                       *)
(***************************************************************************)
EXTENDS ExtMergeSort

CONSTANTS Keys, MaxN, MaxRanges, maxWays, BatchSizes, BatchedSizes

\* Ways to cut 0 .. n - 1 into consecutive non-empty ranges.
Cuts(n) ==
  {LET s == SetToSortSeq(c \cup {0, n}, <) IN [k \in 1 .. Len(s) - 1 |-> <<s[k], s[k + 1]>>] :
     c \in {d \in SUBSET (1 .. n - 1) : Cardinality(d) < MaxRanges}}

SortedOn(a, ranges) ==
  \A k \in DOMAIN ranges : \A i \in ranges[k][1] + 1 .. ranges[k][2] - 1 : a[i] <= a[i + 1]

\* Two ranges of three pages each, which meet inside a page: both readers have a read
\* in the queue while the heap goes back and forth between them.
ThreePages ==
  LET m == 2 * item_per_page + 1 IN <<<<0, m>>, <<m, 2 * m - 1>>>>

RangeCases ==
  {[entry |-> "ranges", a |-> x[1], ranges |-> x[2], outAuth |-> c, maxWay |-> w] :
     x \in UNION {{y \in [1 .. n -> Keys] \X Cuts(n) : SortedOn(y[1], y[2])} : n \in 1 .. MaxN}
         \cup {y \in [1 .. ThreePages[2][2] -> Keys] \X {ThreePages} : SortedOn(y[1], y[2])},
     c \in {0, 1}, w \in maxWays}

BatchCases ==
  {[entry |-> "batches", a |-> a, batchSize |-> b, inAuth |-> c, outAuth |-> c + incAuth] :
     a \in UNION {[1 .. n -> {1, 2}] : n \in BatchedSizes}, b \in BatchSizes,
     c \in {0, 1}, incAuth \in {0, 1}}

MCCases == RangeCases \cup BatchCases
================================================================================
