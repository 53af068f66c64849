------------------------------ MODULE LoadBalancer -----------------------------
(***************************************************************************)
(* ParOMap (apps/load_balancer.hpp): key-value pairs are spread over the   *)
(* shards by the hashes of their keys, in batches that are routed through  *)
(* a multi-way butterfly network.  An element is a record of id, isDummy   *)
(* and tag, the shard it belongs to; hash gives the hash of every id.      *)
(*                                                                         *)
(* A map m: its size, numShards, shardSize and shardHashRange.  A context  *)
(* c adds what InitContext has, status ("ok", "throw", or "abort"), and    *)
(* routed: the batches after their routing, which the code would insert    *)
(* into the maps of the shards.  The failure probabilities are sets of     *)
(* sizes, as in ParamSelect.                                               *)
(***************************************************************************)
EXTENDS KWay, ParamSelect

MaxBktSize == 16   \* 16384 in the code

Dummy == [id |-> -1, isDummy |-> TRUE, tag |-> 0]

getShardByHash(m, hash) == hash \div m.shardHashRange

maxQueryPerShard(batchSize, shardCount, sat) ==
  lowerBound(divRoundUp(batchSize, shardCount), batchSize, sat)

numRealPerBkt(bktSize, satDummy) == bktSize - lowerBound(1, bktSize - 1, satDummy)

\* The factors of the numbers of shards that can be initialised; <<>> is an exception.
factorizeShardCount(shardCount) ==
  CASE shardCount \in 2 .. 8 -> <<shardCount>>
    [] shardCount \in {9, 10, 12, 14, 15, 16, 18, 20, 21, 24, 25, 28, 30, 32, 35, 36, 40, 42,
                       48, 49, 56, 64} ->
         LET low == [s \in {9, 12, 15, 18, 21, 24} |-> 3] @@ [s \in {10, 14} |-> 2]
                      @@ [s \in {16, 20, 28, 32} |-> 4] @@ [s \in {25, 30, 35, 40} |-> 5]
                      @@ [s \in {36, 42, 48} |-> 6] @@ [s \in {49, 56} |-> 7]
                      @@ [s \in {64} |-> 8]
         IN <<low[shardCount], shardCount \div low[shardCount]>>
    [] shardCount = 27 -> <<3, 3, 3>>
    [] shardCount = 45 -> <<3, 3, 5>>
    [] shardCount = 50 -> <<2, 5, 5>>
    [] shardCount = 54 -> <<3, 3, 6>>
    [] shardCount = 60 -> <<3, 4, 5>>
    [] shardCount = 63 -> <<3, 3, 7>>
    [] OTHER -> <<>>

\* shardCount is 1 .. 64, else an exception is thrown.
SetSize(mapSize, shardCount, sat) ==
  [size |-> mapSize, numShards |-> shardCount,
   shardSize |-> maxQueryPerShard(mapSize, shardCount, sat),
   shardHashRange |-> (2^W - 2) \div shardCount + 1]

\* The largest number that can be factorised and is at most half of the threads.
GetSuitableShardCount(numThreads, emptyInit) ==
  LET half == Min({numThreads \div 2, 64})
      good == {s \in 1 .. half : factorizeShardCount(s) # <<>>}
  IN IF numThreads <= 4 THEN 2
     ELSE IF emptyInit THEN half
     ELSE IF good = {} THEN 2 ELSE Max(good)

--------------------------------------------------------------------------------
(* InitContext *)

\* cache: the number of elements the cache holds twice, with their tags.
InitContext(m, initSize, cache, sat, satDummy) ==
  LET bktSize == Min({MaxBktSize, GetNextPowerOfTwo(maxQueryPerShard(initSize, m.numShards, sat))})
      minBatchSize == bktSize * m.numShards
      bktPerShard == divRoundUp(divRoundUp(initSize, numRealPerBkt(bktSize, satDummy)), m.numShards)
      totalBktNeeded == bktPerShard * m.numShards
      maxBatchSize == Min({cache, totalBktNeeded * bktSize})
      parBatchCount == maxBatchSize \div minBatchSize
      fails == m.size = 0 \/ factorizeShardCount(m.numShards) = <<>> \/ cache < minBatchSize
  IN [map |-> [m EXCEPT !.shardSize = Max({@, bktPerShard * bktSize})],
      factors |-> factorizeShardCount(m.numShards), bktSize |-> bktSize,
      bktRealSize |-> divRoundUp(initSize, totalBktNeeded), parBatchCount |-> parBatchCount,
      bktPerBatch |-> parBatchCount * m.numShards,
      batch |-> [i \in 0 .. parBatchCount * minBatchSize - 1 |-> Dummy],
      currBktIdx |-> 0, currBktOffset |-> 0, load |-> 0,
      status |-> IF fails THEN "throw" ELSE "ok", routed |-> <<>>]

\* One merge-split of route: the buckets its, which are aborted over if one overflows.
MergeSplitBuckets(c, its, way) ==
  LET Z == c.bktSize
      Home(b) == CHOOSE j \in 0 .. way - 1 : its[j] = b
      Element(e) == [id |-> e.id, isDummy |-> e.isDummy, tag |-> e.tag]
      Back(r) ==
        IF r.abort THEN [c EXCEPT !.status = "abort"]
        ELSE [c EXCEPT !.batch = [i \in DOMAIN c.batch |->
                IF \E j \in 0 .. way - 1 : its[j] = i \div Z
                THEN Element(r.a[Home(i \div Z) * Z + (i % Z)]) ELSE c.batch[i]]]
  IN IF c.status # "ok" THEN c
     ELSE Back(MergeSplitKWay([i \in 0 .. way * Z - 1 |-> c.batch[its[i \div Z] * Z + (i % Z)]], way, Z))

\* The buckets of the merge-split parIdx of a level.
LevelIts(parIdx, way, stride) ==
  [j \in 0 .. way - 1 |-> (j + (parIdx \div stride) * way) * stride + (parIdx % stride)]

\* Mutant of Level: the stride of the groups does not grow.
LevelSameStride(c, level) ==
  LET way == c.factors[level]
      stride == c.parBatchCount
  IN Steps(LAMBDA d, parIdx : MergeSplitBuckets(d, LevelIts(parIdx, way, stride), way),
           c, Loop(c.bktPerBatch \div way))

Level(c, level) ==
  LET way == c.factors[level]
      stride == c.parBatchCount * Product(SubSeq(c.factors, 1, level - 1))
  IN Steps(LAMBDA d, parIdx : MergeSplitBuckets(d, LevelIts(parIdx, way, stride), way),
           c, Loop(c.bktPerBatch \div way))

\* All levels; afterwards every bucket of shard s is at s * parBatchCount and behind.
route(c) ==
  The({IF r.status = "ok" THEN [r EXCEPT !.routed = Append(@, r.batch)] ELSE r :
       r \in {Steps(Level, c, [i \in DOMAIN c.factors |-> i])}})

\* The element goes to the current place; a bucket with bktRealSize elements is filled
\* up with dummies, and the last bucket of a batch starts the routing.
Insert(c, id, hash) ==
  LET at == c.currBktIdx * c.bktSize + c.currBktOffset
      put == [c.batch EXCEPT ![at] = [id |-> id, isDummy |-> FALSE,
                                      tag |-> getShardByHash(c.map, hash)]]
      padded == [i \in DOMAIN put |-> IF i \in at + 1 .. (c.currBktIdx + 1) * c.bktSize - 1
                                      THEN Dummy ELSE put[i]]
      full == c.currBktOffset + 1 = c.bktRealSize
      next == [c EXCEPT !.load = @ + 1, !.batch = IF full THEN padded ELSE put,
                        !.currBktOffset = IF full THEN 0 ELSE @ + 1,
                        !.currBktIdx = IF full THEN @ + 1 ELSE @]
  IN IF c.status # "ok" THEN c
     ELSE IF c.load >= c.map.size THEN [c EXCEPT !.status = "throw"]
     ELSE IF full /\ next.currBktIdx = c.bktPerBatch
          THEN [route(next) EXCEPT !.currBktIdx = 0] ELSE next

\* The rest of the batch becomes dummies and is routed, if anything was inserted there.
Finalize(c) ==
  LET batchOffset == c.currBktIdx * c.bktSize + c.currBktOffset
  IN IF c.status # "ok" \/ batchOffset = 0 THEN c
     ELSE route([c EXCEPT !.batch = [i \in DOMAIN c.batch |->
                                       IF i >= batchOffset THEN Dummy ELSE c.batch[i]]])

\* hashes: those of the keys the reader reads.
InitFromReader(m, hashes, cache, sat, satDummy) ==
  Finalize(Steps(LAMBDA c, i : Insert(c, i, hashes[i]),
                 InitContext(m, Len(hashes), cache, sat, satDummy),
                 [i \in DOMAIN hashes |-> i]))

--------------------------------------------------------------------------------
(* InitFromReaderBitonic *)

\* One batch: the elements and bktSize dummies for every shard are sorted by shard
\* alone, and the first bktSize of each shard are kept.
BitonicBatch(m, hashes, first, count, bktSize) ==
  LET size == count + bktSize * m.numShards
      vec == [i \in 0 .. size - 1 |->
                IF i < count THEN [id |-> first + i, tag |-> getShardByHash(m, hashes[first + i])]
                ELSE [id |-> -i, tag |-> (i - count) \div bktSize]]
      sorted == Sorted(vec, size, [x, y \in Range(vec) |-> x.tag < y.tag])
      kept == {i \in 0 .. size - 1 :
                 Cardinality({j \in 0 .. i - 1 : sorted[j].tag = sorted[i].tag}) < bktSize}
  IN [kept |-> Cardinality(kept), 
      a |-> OrCompactSeparateMark(sorted, 0, size, MarkPrefix(size, kept), 0)]

InitFromReaderBitonic(m, hashes, bktSize, satDummy) ==
  LET batchSize == numRealPerBkt(bktSize, satDummy) * m.numShards
      numBatch == divRoundUp(Len(hashes), batchSize)
  IN [i \in 1 .. numBatch |->
        BitonicBatch(m, hashes, (i - 1) * batchSize + 1,
                     IF i = numBatch THEN Len(hashes) - (i - 1) * batchSize ELSE batchSize,
                     bktSize)]
================================================================================
