----------------------------- MODULE BaselineSorts -----------------------------
(***************************************************************************)
(* Bucket oblivious shuffle and sort (algorithm/ca_bucket_sort.hpp).  An   *)
(* element is a record of its tag, a word whose lowest bit is the dummy    *)
(* flag, and its value v.  A bucket has Z places.  A routing returns a     *)
(* record: the elements a, and overflow, whether a real element was        *)
(* dropped because its bucket was full (the code asserts that none is).    *)
(*                                                                         *)
(* Randomised Shell sort (algorithm/randomized_shell_sort.hpp).  mate[c]   *)
(* is the permutation fisherYatesShuffle makes of 0 .. offset - 1 in round *)
(* c of a comparison of regions; the array is a function on 0 .. n - 1.    *)
(***************************************************************************)
EXTENDS Bitonic

BitAnd(x, y) == MapThenSumSet(LAMBDA b : IF Bit(x, b) /\ Bit(y, b) THEN 2^b ELSE 0, 0 .. W - 1)

isDummy(e) == e.tag % 2 = 1

SortedBy(a, n, Key(_)) ==
  The({LET elements == {b[i] : i \in 0 .. n - 1}
           key == [x \in elements |-> Key(x)]
       IN Sorted(b, n, [x, y \in elements |-> key[x] < key[y]]) : b \in {a}})

\* The places of temp that Z earlier elements of the same bucket come before.
Excess(temp, n, Z, rangeMask) ==
  The({{i \in 0 .. n - 1 : Cardinality({j \in 0 .. i - 1 : range[j] = range[i]}) >= Z} :
       range \in {[i \in 0 .. n - 1 |-> BitAnd(temp[i].tag, rangeMask)]}})

\* Adds Z dummies for every bucket, keeps Z elements in each, the real ones first, and
\* marks the others with a tag of ones.
binPacking(a, size, Z, bitMask) ==
  LET numBucket == size \div Z
      baseMask == Word((bitMask \div 2^GetLogBaseTwo(numBucket)) * 2)
      rangeMask == Word(baseMask * (numBucket - 1))
      Masked(e) == BitAnd(e.tag, rangeMask + 1)
      padded == [i \in 0 .. 2 * size - 1 |->
                   IF i < size THEN a[i]
                   ELSE [tag |-> Word(((i - size) \div Z) * baseMask + 1), v |-> 0]]
      Packed(temp, excess) ==
        [a |-> Restrict(SortedBy([i \in 0 .. 2 * size - 1 |->
                                    IF i \in excess THEN [temp[i] EXCEPT !.tag = 2^W - 1] ELSE temp[i]],
                                 2 * size, Masked), 0 .. size - 1),
         overflow |-> \E i \in excess : ~isDummy(temp[i])]
  IN The({Packed(temp, Excess(temp, 2 * size, Z, rangeMask)) :
          temp \in {SortedBy(padded, 2 * size, Masked)}})

\* Mutant of Transposed: the second half runs on the batches of the first.
NotTransposed(a, size, Z, perBatch) == a

\* Bucket j of batch i becomes bucket i of batch j of the next layer.
Transposed(a, size, Z, perBatch) ==
  [x \in 0 .. size - 1 |->
     LET j == x \div (size \div perBatch)
         i == (x % (size \div perBatch)) \div Z
     IN a[(i * perBatch + j) * Z + (x % Z)]]

\* Route(a, size, mask) for every batch of perBatch buckets.
RouteBatches(Route(_, _, _), a, size, Z, perBatch, mask) ==
  LET batchSize == perBatch * Z
      Put(s, b, r) == [a |-> [i \in 0 .. size - 1 |-> IF i \div batchSize = b THEN r.a[i % batchSize]
                                                     ELSE s.a[i]],
                       overflow |-> s.overflow \/ r.overflow]
  IN Steps(LAMBDA s, b : The({Put(s, b, r) :
                              r \in {Route([i \in 0 .. batchSize - 1 |-> s.a[b * batchSize + i]], batchSize, mask)}}),
           [a |-> a, overflow |-> FALSE], Loop(size \div batchSize))

\* Both halves of the layers, with the transposition between them.
TwoHalves(Route(_, _, _), a, size, Z, bitMask) ==
  LET num_layer == GetLogBaseTwo(size \div Z)
      half_num_layer == num_layer \div 2
      Second(first) == RouteBatches(Route, Transposed(first.a, size, Z, 2^half_num_layer), size, Z,
                                    2^(num_layer - half_num_layer), bitMask \div 2^half_num_layer)
      Both(first, second) == [a |-> second.a, overflow |-> first.overflow \/ second.overflow]
  IN The({Both(first, Second(first)) :
          first \in {RouteBatches(Route, a, size, Z, 2^half_num_layer, bitMask)}})

RECURSIVE butterflyRouting(_, _, _, _, _)

butterflyRouting(a, size, Z, bitMask, gamma) ==
  IF size \div Z <= gamma THEN binPacking(a, size, Z, bitMask)
  ELSE TwoHalves(LAMBDA b, m, mask : butterflyRouting(b, m, Z, mask, gamma), a, size, Z, bitMask)

\* heap: the number of elements that fit into the heap.
RECURSIVE externalButterflyRouting(_, _, _, _, _)
externalButterflyRouting(a, size, Z, bitMask, heap) ==
  LET gamma == GetLogBaseTwo(size)
  IN IF size * 2 + gamma * Z <= heap THEN butterflyRouting(a, size, Z, bitMask, gamma)
     ELSE TwoHalves(LAMBDA b, m, mask : externalButterflyRouting(b, m, Z, mask, heap),
                    a, size, Z, bitMask)

PaddedSize(n, Z) == LET size == GetNextPowerOfTwo(2 * n) IN IF size > Z THEN size ELSE Z

\* tag[i] is what UniformRandom returns for place i.  The input is spread over the
\* buckets, numRealPerBucket at the front of each while there is any left.
tagAndPad(input, Z, tag) ==
  LET n == Len(input)
      size == PaddedSize(n, Z)
      numRealPerBucket == divRoundUp(n, size \div Z)
      Read(i) == numRealPerBucket * (i \div Z) + (i % Z) + 1
  IN [i \in 0 .. size - 1 |->
        IF i % Z < numRealPerBucket /\ Read(i) <= n
        THEN [tag |-> 2 * (tag[i] \div 2), v |-> input[Read(i)]]
        ELSE [tag |-> 2 * (tag[i] \div 2) + 1, v |-> 0]]

\* The real elements of the buckets, each bucket sorted by tag, as they are written.
Collected(r, size, Z) ==
  LET Bucket(b) == SortedBy([i \in 0 .. Z - 1 |-> r.a[b * Z + i]], Z, LAMBDA e : e.tag)
  IN FlattenSeq([b \in 1 .. size \div Z |->
                   SelectSeq([i \in 1 .. Z |-> Bucket(b - 1)[i - 1]], LAMBDA e : ~isDummy(e))])

Shuffled(r, size, Z) == [out |-> Collected(r, size, Z), overflow |-> r.overflow]

CABucketShuffle(input, Z, tag, heap) ==
  LET size == PaddedSize(Len(input), Z)
  IN Shuffled(externalButterflyRouting(tagAndPad(input, Z, tag), size, Z, 2^(W - 1), heap), size, Z)

CABucketShuffleInternal(input, Z, tag) ==
  LET size == PaddedSize(Len(input), Z)
  IN Shuffled(butterflyRouting(tagAndPad(input, Z, tag), size, Z, 2^(W - 1), GetLogBaseTwo(size)), size, Z)

SortedValues(out) == SortSeq([i \in DOMAIN out |-> out[i].v], <)

\* What the shuffle wrote is sorted by ExtMergeSort, or in memory by std::sort.
CABucketSort(input, Z, tag, heap) == SortedValues(CABucketShuffle(input, Z, tag, heap).out)

CABucketSortInternal(input, Z, tag) == SortedValues(CABucketShuffleInternal(input, Z, tag).out)

--------------------------------------------------------------------------------
(* Randomized shell sort *)

C == 4

\* swapCond: (i < j) != (*i < *j), also for equal elements.
compareExchange(a, i, j) == condSwap((i < j) # (a[i] < a[j]), a, i, j)

\* mate[c][offset] is the permutation of round c for regions of offset elements.
compareRegions(a, s, t, offset, mate) ==
  Steps(LAMBDA b, c :
          Steps(LAMBDA d, i : compareExchange(d, s + i, t + mate[c][offset][i]), b, Loop(offset)),
        a, Loop(C))

\* first, first + step, ... as long as below end
Every(first, end, step) ==
  [q \in 1 .. (IF end <= first THEN 0 ELSE (end - first + step - 1) \div step) |->
     first + (q - 1) * step]

\* The pairs of regions compared for an offset: each region with the next, back again,
\* with those three and two further, and in pairs from the first and from the second.
Regions(n, offset) ==
  LET Ahead(first, end, step, dist) ==
        [q \in DOMAIN Every(first, end, step) |->
           LET i == Every(first, end, step)[q] IN <<i, i + dist>>]
      back == [q \in 1 .. (n - offset) \div offset |->
                 <<n - (q + 1) * offset, n - q * offset>>]
  IN Ahead(0, n - offset, offset, offset) \o back
       \o Ahead(0, n - 3 * offset, offset, 3 * offset) \o Ahead(0, n - 2 * offset, offset, 2 * offset)
       \o Ahead(0, n, 2 * offset, offset) \o Ahead(offset, n - offset, 2 * offset, offset)

\* n/2, n/4, ..., 1
Offsets(n) == SetToSortSeq({n \div 2^e : e \in 1 .. n} \ {0}, >)

\* Mutant of randomizedShellSort: the last offset is left out.
StopsAtTwo(a, n, mate) ==
  Steps(LAMBDA b, offset :
          Steps(LAMBDA d, r : compareRegions(d, r[1], r[2], offset, mate), b, Regions(n, offset)),
        a, SelectSeq(Offsets(n), LAMBDA o : o > 1))

randomizedShellSort(a, n, mate) ==
  Steps(LAMBDA b, offset :
          Steps(LAMBDA d, r : compareRegions(d, r[1], r[2], offset, mate), b, Regions(n, offset)),
        a, Offsets(n))
================================================================================
