------------------------------ MODULE ParamSelect ------------------------------
(***************************************************************************)
(* The parameter solver (algorithm/param_select.hpp).  The failure         *)
(* probabilities are floating-point estimates: here sat is the set of      *)
(* bucket counts for which one is small enough.  Costs are natural numbers *)
(* below Infinity.  bucket sizes start at 2^logZ0 (2^8 in the code).       *)
(***************************************************************************)
EXTENDS Utils

Infinity == 1000000

\* Bisects between left and right, which is taken to satisfy the condition.
RECURSIVE lowerBound(_, _, _)


lowerBound(left, right, sat) ==
  LET mid == (left + right) \div 2
  IN IF mid \in sat THEN IF mid - left <= 1 THEN mid ELSE lowerBound(left, mid, sat)
     ELSE IF right - mid <= 1 THEN right ELSE lowerBound(mid, right, sat)

--------------------------------------------------------------------------------
(* ButterflyWaySolver.  A solver has its options, sorted, with their        *)
(* unitCosts, ioCost and maxWayInternal.                                    *)

Product(ways) == FoldLeft(LAMBDA x, y : x * y, 1, ways)

Cheapest(s, cost, ways) ==
  IF cost < s.cost THEN [s EXCEPT !.cost = cost, !.ways = ways] ELSE s

Capped(cost) == IF cost < Infinity THEN cost ELSE Infinity

\* What remains of remainWayInternal, and the options up to the current one, are for
\* the rest of the pass.
RECURSIVE solverHelper(_, _, _, _)

\* One round of the loop over the options.
TriesOption(p, s, optionIdx, targetProduct, remainWayInternal) ==
  LET option == p.options[optionIdx]
      child == solverHelper(p, optionIdx, divRoundUp(targetProduct, option),
                            remainWayInternal \div option)
      cost == Capped(child.cost * option + p.unitCosts[optionIdx] * option * Product(child.ways))
  IN IF s.returned \/ option > remainWayInternal THEN s
     ELSE [Cheapest(s, cost, Append(child.ways, option)) EXCEPT
             !.returned = option \in {targetProduct, p.maxWayInternal}]

\* A new pass, with all options and all of the memory.
NewLayer(p, s, targetProduct) ==
  LET child == solverHelper(p, Len(p.options), targetProduct, p.maxWayInternal)
  IN Cheapest(s, Capped(child.cost + Product(child.ways) * p.ioCost), child.ways)

\* Does not return if the largest option exceeds maxWayInternal.
solverHelper(p, optionCount, targetProduct, remainWayInternal) ==
  LET s == Steps(LAMBDA t, i : TriesOption(p, t, i + 1, targetProduct, remainWayInternal),
                 [cost |-> Infinity, ways |-> <<>>, returned |-> FALSE], Loop(optionCount))
  IN IF targetProduct <= 1 THEN [cost |-> 0, ways |-> <<>>, returned |-> TRUE]
     ELSE IF optionCount = 0 THEN [cost |-> Infinity, ways |-> <<>>, returned |-> TRUE]
     ELSE IF ~s.returned /\ p.options[optionCount] > remainWayInternal
          THEN NewLayer(p, s, targetProduct)
     ELSE s

\* The ways, split into passes from the front.
solve(p, targetProduct) ==
  LET Split(ways) ==
        Steps(LAMBDA s, w :
                IF s.accWays * w > p.maxWayInternal
                THEN [out |-> IF s.group # <<>> THEN Append(s.out, s.group) ELSE s.out,
                      group |-> <<w>>, accWays |-> w]
                ELSE [s EXCEPT !.group = Append(@, w), !.accWays = @ * w],
              [out |-> <<>>, group |-> <<>>, accWays |-> 1], ways)
      Passes(split) == Append(split.out, split.group)
  IN The({[cost |-> r.cost, ways |-> Passes(Split(r.ways))] :
          r \in {solverHelper(p, Len(p.options), targetProduct, p.maxWayInternal)}})

--------------------------------------------------------------------------------
(* The best parameters.  q: N, M, the element size b, and for each size of  *)
(* bucket 2^logZ the costs and the sets sat and satFinal of bucket counts.  *)

NoParams == [cost |-> Infinity]

\* What is left of the memory beside the buffers of a merge-split; the difference wraps.
M0(q, Z, pivots) == Word(q.M - ((q.b + 2) * Z * 8 + q.b - 1) \div q.b - pivots)

TooSmall(q, Z, m0) == Z > q.N \div 2 \/ 16 * Z > m0

Solver(q, logZ, m0) ==
  [options |-> <<2, 3, 4, 5, 6, 7, 8>>, unitCosts |-> q.unitCosts[logZ],
   ioCost |-> q.ioCost, maxWayInternal |-> m0 \div 2^logZ]

\* The parameters for one size of bucket.
ButterflyParams(q, logZ) ==
  LET Z == 2^logZ
      m0 == M0(q, Z, 0)
      minBucketCount == lowerBound(q.N \div Z + 1, (3 * q.N) \div Z, q.sat)
      Params(r, actualBucketCount) ==
        [cost |-> r.cost + q.bitonic * Z * actualBucketCount, ways |-> r.ways, Z |-> Z,
         totalBucket |-> actualBucketCount, maxWay |-> m0 \div Z]
  IN The({Params(r, Product(FlattenSeq(r.ways))) : r \in {solve(Solver(q, logZ, m0), minBucketCount)}})

\* The partitions of a final layer fit in memory with four bytes per element more.
DistributionParams(q, logZ) ==
  LET Z == 2^logZ
      m0 == M0(q, Z, (4 * q.N) \div q.M)
      maxFinalPartSize == (m0 * q.b) \div (q.b + 4)
      minBucketCount == lowerBound(q.N \div Z + 1, (5 * q.N) \div Z, q.sat)
      minTotalWay == divRoundUp(minBucketCount, maxFinalPartSize \div Z)
      FinalLayer(totalPartition) ==
        lowerBound(divRoundUp(minBucketCount, totalPartition), maxFinalPartSize \div Z,
                   {c \in 0 .. maxFinalPartSize : c * totalPartition \in q.satFinal})
      Params(r, totalPartition, bucketCountFinalLayer) ==
        [cost |-> r.cost * bucketCountFinalLayer + q.bitonic * bucketCountFinalLayer * Z * totalPartition,
         ways |-> r.ways, Z |-> Z, totalPartition |-> totalPartition,
         totalBucket |-> totalPartition * bucketCountFinalLayer, minTotalBucket |-> minBucketCount,
         maxWay |-> m0 \div Z, maxFinalPartSize |-> maxFinalPartSize]
      Finally(r, totalPartition) == Params(r, totalPartition, FinalLayer(totalPartition))
  IN The({Finally(r, Product(FlattenSeq(r.ways))) : r \in {solve(Solver(q, logZ, m0), minTotalWay)}})

\* The cheapest of the sizes of buckets, up to the first that is too large; the
\* program aborts if that is the smallest.
bestKWayButterflyParams(q) ==
  LET Fits(i) == \A j \in 0 .. i : ~TooSmall(q, 2^(q.logZ0 + j), M0(q, 2^(q.logZ0 + j), 0))
  IN Steps(LAMBDA s, i : IF ~Fits(i) THEN s
                         ELSE The({IF r.cost < s.cost THEN r ELSE s :
                                   r \in {ButterflyParams(q, q.logZ0 + i)}}),
           NoParams, Loop(7))

bestDistriParams(q) ==
  LET Pivots == (4 * q.N) \div q.M
      Fits(i) == \A j \in 0 .. i : ~TooSmall(q, 2^(q.logZ0 + j), M0(q, 2^(q.logZ0 + j), Pivots))
  IN Steps(LAMBDA s, i : IF ~Fits(i) THEN s
                         ELSE The({IF r.cost < s.cost THEN r ELSE s :
                                   r \in {DistributionParams(q, q.logZ0 + i)}}),
           NoParams, Loop(12))
================================================================================
