-------------------------------- MODULE FlexWay --------------------------------
(***************************************************************************)
(* What the flex-way butterfly and distribution sorts share: buckets of Z  *)
(* elements on a DynamicPageVector, one per page, that are copied into a   *)
(* batch in memory, merge-split there and copied out again.                *)
(*                                                                         *)
(* A bucket is the set of its real elements.  Merge-splitting is           *)
(* represented by what KWay establishes of it.  The state of a sorter is a *)
(* record: store, the buckets on the server; batch; read, the number of    *)
(* input elements read; out, what was output; early, whether anything was  *)
(* output before the whole input was read; authFail and overflow, the two  *)
(* ways to abort.                                                          *)
(*                                                                         *)
(* ButterflySorter: flex-way butterfly o-sort and o-shuffle.  p holds the  *)
(* parameters: ways, for each pass over the server the merge-splits done   *)
(* in memory; Z; fit, the buckets that fit in memory; sort, whether to     *)
(* sort or only to shuffle.  An input element is a record of its id and    *)
(* random tag; layers and buckets are counted from 1 and 0.                *)
(*                                                                         *)
(* KWayDistriSorter: flex-way distribution o-sort.  p holds the            *)
(* parameters: ways, Z, and partitionSize, the buckets of a partition.  An *)
(* element is a record of its data, and a tag that breaks ties.            *)
(***************************************************************************)
EXTENDS Utils

Times(a, b) == a * b
getVecProduct(ways) == Steps(Times, 1, ways)

\* for (i = 0; i < count; ++i) s = Step(s, i)
Repeat(count, Step(_, _), s) == Steps(Step, s, Loop(count))

StartSort(numTotalBucket, batchBuckets) ==
  [store |-> [b \in 0 .. numTotalBucket - 1 |-> [counter |-> -1, items |-> {}]],
   batch |-> [b \in 0 .. batchBuckets - 1 |-> {}],
   read |-> 0, out |-> <<>>, early |-> FALSE, authFail |-> FALSE, overflow |-> FALSE]

\* CopyIn aborts if the bucket was not last copied out with this counter.
CopyInBucket(s, ext, int, counter) ==
  [s EXCEPT !.batch[int] = s.store[ext].items,
            !.authFail = @ \/ s.store[ext].counter # counter]

CopyOutBucket(s, int, ext, counter) ==
  [s EXCEPT !.store[ext] = [counter |-> counter, items |-> s.batch[int]]]

\* The next numRealPerBucket elements of the input, the rest are dummies.
TagAndPad(s, b, input, numRealPerBucket) ==
  LET last == IF s.read + numRealPerBucket < Len(input) THEN s.read + numRealPerBucket ELSE Len(input)
  IN [s EXCEPT !.batch[b] = {input[i] : i \in s.read + 1 .. last}, !.read = last]

\* The real elements of the buckets its of the batch.
Held(s, its) == UNION {s.batch[its[i]] : i \in DOMAIN its}

\* Every element goes, updated, to the bucket of its mark; with more than two buckets a mark
\* also needs a dummy.
SplitBuckets(s, its, Z, mark, updated) ==
  LET way == Len(its)
      To(v) == {e \in Held(s, its) : mark[e] = v}
      room == IF way = 2 THEN Z ELSE Z - 1
  IN [s EXCEPT !.batch = [b \in DOMAIN s.batch |->
                            IF \E i \in 1 .. way : its[i] = b
                            THEN {updated[e] : e \in To((CHOOSE i \in 1 .. way : its[i] = b) - 1)}
                            ELSE s.batch[b]],
               !.overflow = @ \/ \E v \in 0 .. way - 1 : Cardinality(To(v)) > room]

\* Something is output.
Output(s, what, input) ==
  [s EXCEPT !.out = Append(@, what), !.early = @ \/ s.read < Len(input)]

--------------------------------------------------------------------------------
(* Butterfly *)

ButterflyTotal(p) == getVecProduct([l \in DOMAIN p.ways |-> getVecProduct(p.ways[l])])

numRealPerBucket(size, total) == 1 + (size - 1) \div total

\* An element goes to the bucket of its tag's lowest digit, which is dropped.
SplitByTag(s, its, Z) ==
  SplitBuckets(s, its, Z, [e \in Held(s, its) |-> e.tag % Len(its)],
               [e \in Held(s, its) |-> [e EXCEPT !.tag = @ \div Len(its)]])

\* Mutant of KWayIts: neighbouring buckets are split instead of corresponding ones.
KWayItsNeighbours(begin, way, wayBucket, j) == [i \in 1 .. way |-> begin + j * way + i - 1]

\* The buckets of the j-th merge-split.
KWayIts(begin, way, wayBucket, j) == [i \in 1 .. way |-> begin + (i - 1) * wayBucket + j]

\* The merge-splits within a batch, from the innermost layer; the first pass fills
\* the buckets first.
RECURSIVE KWayButterflySortBasic(_, _, _, _, _, _, _)
KWayButterflySortBasic(p, input, s, begin, numBucket, ioLayer, innerLayer) ==
  LET way == p.ways[ioLayer][innerLayer]
      wayBucket == numBucket \div way
      real == numRealPerBucket(Len(input), ButterflyTotal(p))
      filled ==
        IF innerLayer > 1
        THEN Repeat(way, LAMBDA u, i : KWayButterflySortBasic(p, input, u, begin + i * wayBucket,
                                                            wayBucket, ioLayer, innerLayer - 1), s)
        ELSE IF ioLayer = 1 THEN Repeat(way, LAMBDA u, i : TagAndPad(u, begin + i, input, real), s)
        ELSE s
  IN Repeat(wayBucket, LAMBDA u, j : SplitByTag(u, KWayIts(begin, way, wayBucket, j), p.Z), filled)

\* The distance on the server of the buckets of a batch.
fetchInterval(p, ioLayer) ==
  getVecProduct([l \in 1 .. ioLayer - 1 |-> getVecProduct(p.ways[l])])

\* One batch: fetched with the counter of the pass before, split, and either copied
\* out with this pass's or, in the last pass, output: a shuffle outputs every batch,
\* a sort as many as fit in memory together.
ButterflyBatch(p, input, s, begin, batchCount, ioLayer, batchIdx) ==
  LET numInternalWay == getVecProduct(p.ways[ioLayer])
      isLastLayer == ioLayer = Len(p.ways)
      batchPerEnclave == IF p.sort /\ isLastLayer THEN p.fit \div numInternalWay ELSE 1
      intBatchIdx == batchIdx % batchPerEnclave
      batchBegin == intBatchIdx * numInternalWay
      Ext(b) == begin + batchIdx + fetchInterval(p, ioLayer) * b
      fetched == IF ioLayer = 1 THEN s
                 ELSE Repeat(numInternalWay,
                           LAMBDA u, b : CopyInBucket(u, Ext(b), batchBegin + b, ioLayer - 1), s)
      split == KWayButterflySortBasic(p, input, fetched, batchBegin, numInternalWay, ioLayer,
                                      Len(p.ways[ioLayer]))
  IN IF ~isLastLayer
     THEN Repeat(numInternalWay, LAMBDA u, b : CopyOutBucket(u, b, Ext(b), ioLayer), split)
     ELSE IF intBatchIdx = batchPerEnclave - 1 \/ batchIdx = batchCount - 1
     THEN Output(split, [b \in 1 .. batchBegin + numInternalWay |-> split.batch[b - 1]], input)
     ELSE split

RECURSIVE KWayButterflySort(_, _, _, _, _, _)
KWayButterflySort(p, input, s, begin, size, ioLayer) ==
  LET numInternalWay == getVecProduct(p.ways[ioLayer])
      subSize == size \div numInternalWay
      before == IF ioLayer = 1 THEN s
                ELSE Repeat(numInternalWay,
                          LAMBDA u, i : KWayButterflySort(p, input, u, begin + i * subSize, subSize,
                                                          ioLayer - 1), s)
      batchCount == size \div numInternalWay
  IN Repeat(batchCount,
          LAMBDA u, i : ButterflyBatch(p, input, u, begin, batchCount, ioLayer, i), before)

ButterflySort(p, input) ==
  KWayButterflySort(p, input, StartSort(ButterflyTotal(p), p.fit), 0, ButterflyTotal(p), Len(p.ways))

--------------------------------------------------------------------------------
(* Distribution *)

\* Block's operator<
Before(a, b) == a.data < b.data \/ (a.data = b.data /\ a.tag < b.tag)

\* DUMMY<Block<T>>(): the largest key.
DummyBlock == [data |-> 1000, tag |-> 0]

--------------------------------------------------------------------------------
(* Sampling *)

\* The p-quantiles of the first n blocks of a sorted array: p - 1 of them.
getPQuantile(sorted, n, p) == [k \in 1 .. p - 1 |-> sorted[(n * k) \div p + 1]]

\* Every chosen element is counted, but only the first len blocks of a batch of M,
\* the chosen ones before dummies, are kept.
sampleForPivots(input, chosen, M, len, p) ==
  LET numBatch == (Len(input) + M - 1) \div M
      Kept(i) == LET size == IF M < Len(input) - i * M THEN M ELSE Len(input) - i * M
                     l == IF size < len THEN size ELSE len
                     marked == SetToSortSeq({j \in chosen : j \in i * M + 1 .. i * M + size}, <)
                 IN [j \in 1 .. l |->
                       IF j <= Len(marked)
                       THEN [data |-> input[marked[j]], tag |-> marked[j] - 1] ELSE DummyBlock]
      Gamma == FlattenSeq([i \in 1 .. numBatch |-> Kept(i - 1)])
  IN getPQuantile(SortSeq(Gamma, Before), Cardinality(chosen), p)

--------------------------------------------------------------------------------
(* Distribution *)

numPartition(p) == getVecProduct([l \in DOMAIN p.ways |-> getVecProduct(p.ways[l])])
DistriTotal(p) == numPartition(p) * p.partitionSize

\* An element goes to the bucket with as many pivots before it.
SplitByPivots(s, its, Z, pivots) ==
  LET before == [e \in Held(s, its) |-> {i \in DOMAIN pivots : Before(pivots[i], e)}]
  IN SplitBuckets(s, its, Z, [e \in Held(s, its) |-> Cardinality(before[e])],
                  [e \in Held(s, its) |-> e])

pivotIdx(strideCount, way, i, stride, pivotOffset, pivotStride) ==
  ((strideCount * way + i) * stride + pivotOffset) * pivotStride - 1

\* The merge-splits within a batch of size buckets, from the innermost layer.
RECURSIVE KWayDistriSortBasic(_, _, _, _, _, _, _, _, _, _, _)
KWayDistriSortBasic(p, input, allPivots, s, begin, size, ioLayer, innerLayer, pivotStride, pivotOffset, stride) ==
  LET way == p.ways[ioLayer][innerLayer]
      real == 1 + (Len(input) - 1) \div DistriTotal(p)
      filled ==
        IF innerLayer > 1
        THEN Repeat(way, LAMBDA u, i :
                    KWayDistriSortBasic(p, input, allPivots, u, begin + i * stride, size, ioLayer,
                                        innerLayer - 1, pivotStride, pivotOffset, stride * way), s)
        ELSE IF ioLayer = 1
        THEN Repeat(way, LAMBDA u, i : TagAndPad(u, begin + i * stride, input, real), s)
        ELSE s
      \* strideBegin < end
      strides == (size - begin + stride * way - 1) \div (stride * way)
      Its(c) == [i \in 1 .. way |-> begin + (c * way + i - 1) * stride]
      Pivots(c) == [i \in 1 .. way - 1 |->
                      allPivots[pivotIdx(c, way, i, stride, pivotOffset, pivotStride) + 1]]
  IN Repeat(strides, LAMBDA u, c : SplitByPivots(u, Its(c), p.Z, Pivots(c)), filled)

\* A batch of the last layer is a partition: its elements are compacted, sorted and
\* output.  Another one is split and copied out.
DistriBatch(p, input, allPivots, s, begin, stride, ioLayer, strideCount) ==
  LET isLastLayer == ioLayer = Len(p.ways) + 1
      numInternalWay == IF isLastLayer THEN p.partitionSize ELSE getVecProduct(p.ways[ioLayer])
      Ext(b) == begin + (strideCount * numInternalWay + b) * stride
      fetched == IF ioLayer = 1 THEN s
                 ELSE Repeat(numInternalWay, LAMBDA u, b : CopyInBucket(u, Ext(b), b, ioLayer - 1), s)
      reals == UNION {fetched.batch[b] : b \in 0 .. numInternalWay - 1}
      split == KWayDistriSortBasic(p, input, allPivots, fetched, 0, numInternalWay, ioLayer,
                                   Len(p.ways[ioLayer]), stride \div p.partitionSize,
                                   strideCount * numInternalWay, 1)
  IN IF isLastLayer THEN Output(fetched, SetToSortSeq(reals, Before), input)
     ELSE Repeat(numInternalWay, LAMBDA u, b : CopyOutBucket(u, b, Ext(b), ioLayer), split)

RECURSIVE KWayDistriSort(_, _, _, _, _, _, _)
KWayDistriSort(p, input, allPivots, s, begin, ioLayer, stride) ==
  LET numInternalWay == IF ioLayer > Len(p.ways) THEN p.partitionSize
                        ELSE getVecProduct(p.ways[ioLayer])
      before == IF ioLayer = 1 THEN s
                ELSE Repeat(numInternalWay, LAMBDA u, i :
                            KWayDistriSort(p, input, allPivots, u, begin + i * stride, ioLayer - 1,
                                           stride * numInternalWay), s)
      step == stride * numInternalWay
      strides == (DistriTotal(p) - begin + step - 1) \div step
  IN Repeat(strides, LAMBDA u, c : DistriBatch(p, input, allPivots, u, begin, stride, ioLayer, c), before)

DistributionSort(p, input, allPivots) ==
  LET most == Max({p.partitionSize} \cup {getVecProduct(p.ways[l]) : l \in DOMAIN p.ways})
  IN KWayDistriSort(p, input, allPivots, StartSort(DistriTotal(p), most), 0, Len(p.ways) + 1, 1)
================================================================================
