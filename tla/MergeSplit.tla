------------------------------- MODULE MergeSplit ------------------------------
(***************************************************************************)
(* The two-way building blocks of the flex-way sorts                       *)
(* (algorithm/sort_building_blocks.hpp): interleaving by a mark, the       *)
(* partitions made from it, merge-split with dummies, partitionDummy.      *)
(*                                                                         *)
(* An element is [id, isDummy, isMarked].  How the mark is stored (a bit   *)
(* of TaggedT::tag, Block::lessFlag) does not matter here: it is read,     *)
(* and condChangeMark flips it.  Two separate buckets of Z elements are    *)
(* the halves of one array of 2Z.                                          *)
(***************************************************************************)
EXTENDS Bitonic, Compaction

isMarked(e) == e.isMarked

\* One round: the left element is made to have the target bit.
InterleaveStep(s, left, right) ==
  LET swapFlag == isMarked(s.a[left]) # s.targetBit
  IN [a |-> condSwap(swapFlag, s.a, left, right),
      targetBit |-> isMarked(s.a[right]) # swapFlag]

\* The loop "for (; right != end; ++left, ++right)"
InterleaveLoop(a, targetBit, left, right, end) ==
  Steps(LAMBDA s, i : InterleaveStep(s, left + i, right + i),
           [a |-> a, targetBit |-> targetBit], Loop(end - right)).a

RECURSIVE InterleaveTwoWay(_, _, _)

\* Half of the elements are marked on entry; marked and unmarked alternate on exit.
InterleaveTwoWay(a, begin, end) ==
  LET size == end - begin
      mid == begin + ((size + 2) \div 4) * 2
      b == IF size % 4 = 0
           THEN InterleaveLoop(a, ~isMarked(a[begin]), begin + 1, mid + 1, end)
           ELSE InterleaveLoop(a, ~isMarked(a[begin]), begin + 2, mid, end)
  IN IF size = 2 THEN condSwap(~isMarked(a[begin]), a, begin, begin + 1)
     ELSE InterleaveTwoWay(InterleaveTwoWay(b, begin, mid), mid, end)

\* The overload for two buckets, of an even size Z.
InterleaveTwoBuckets(a, Z) ==
  LET b == InterleaveLoop(a, isMarked(a[Z]), 1, Z + 1, 2 * Z)
  IN InterleaveTwoWay(InterleaveTwoWay(b, 0, Z), Z, 2 * Z)

\* Swaps it1 and it2, every other element up to end.
SwapEveryOther(a, it1, it2, end) ==
  Steps(LAMBDA b, i : condSwap(TRUE, b, it1 + 2 * i, it2 + 2 * i),
           a, Loop((end - it2 + 1) \div 2))

InterleaveTwoWayPartition(a, n) ==
  LET Z == n \div 2
  IN SwapEveryOther(InterleaveTwoWay(a, 0, n), 1, Z + (Z % 2), n)

InterleaveTwoBucketsPartition(a, Z) ==
  SwapEveryOther(InterleaveTwoBuckets(a, Z), 1, Z + (Z % 2), 2 * Z)

--------------------------------------------------------------------------------
(* Merge-split *)

\* Mutant of BalanceStep: real elements change sides too.
BalanceStepAny(s, i, dir) ==
  LET changeMark == s.diff # 0 /\ isMarked(s.a[i]) = dir
  IN IF changeMark THEN [a |-> [s.a EXCEPT ![i].isMarked = ~@], diff |-> s.diff - 1] ELSE s

BalanceStep(s, i, dir) ==
  LET changeMark == s.a[i].isDummy /\ s.diff # 0 /\ isMarked(s.a[i]) = dir
  IN IF changeMark THEN [a |-> [s.a EXCEPT ![i].isMarked = ~@], diff |-> s.diff - 1] ELSE s

\* Dummies change their mark until half of the n elements are marked; diff is
\* what is still missing when there are not enough of them.
Balance(a, n) ==
  LET markCount == Cardinality({i \in 0 .. n - 1 : isMarked(a[i])})
      Z == n \div 2
      dir == markCount > Z
  IN Steps(LAMBDA s, i : BalanceStep(s, i, dir),
              [a |-> a, diff |-> IF dir THEN markCount - Z ELSE Z - markCount], Loop(n))

\* The comparison for BITONIC: marked elements first, unmarked dummies last.
MarkOrder(x, y) == (isMarked(x) /\ ~isMarked(y)) \/ (y.isDummy /\ ~isMarked(y))

Partition(a, n, method) ==
  LET all == {a[i] : i \in 0 .. n - 1}
      marked == {e \in all : isMarked(e)}
  IN CASE method = "INTERLEAVE_PARTITION" -> InterleaveTwoWayPartition(a, n)
       [] method = "OR_COMPACT" -> OrCompact(a, n, marked)
       [] method = "GOODRICH_COMPACT" -> GoodrichCompact(a, n, marked)
       [] method = "BITONIC" -> Sorted(a, n, [x, y \in all |-> MarkOrder(x, y)])

\* The partitioned array, or the abort for lack of dummies.
MergeSplitInPlace(a, n, method) ==
  LET b == Balance(a, n)
  IN IF b.diff # 0 THEN [abort |-> TRUE, a |-> b.a]
     ELSE [abort |-> FALSE, a |-> Partition(b.a, n, method)]

\* Buckets of Z elements; all methods but one go through a temporary copy.
MergeSplitTwoWay(a, Z, method) ==
  LET b == Balance(a, 2 * Z)
  IN IF method # "INTERLEAVE_PARTITION" THEN MergeSplitInPlace(a, 2 * Z, method)
     ELSE IF b.diff # 0 THEN [abort |-> TRUE, a |-> b.a]
     ELSE [abort |-> FALSE, a |-> InterleaveTwoBucketsPartition(b.a, Z)]

--------------------------------------------------------------------------------
(* partitionDummy *)

RECURSIVE SkipReals(_, _, _)

\* while (!left->isDummy()) ++left, unless right is met.
SkipReals(a, left, right) ==
  IF a[left].isDummy THEN [it |-> left, met |-> FALSE]
  ELSE IF right <= left + 1 THEN [it |-> left + 1, met |-> TRUE]
  ELSE SkipReals(a, left + 1, right)

RECURSIVE SkipDummies(_, _, _)

SkipDummies(a, left, right) ==
  IF ~a[right].isDummy THEN [it |-> right, met |-> FALSE]
  ELSE IF right - 1 <= left THEN [it |-> right - 1, met |-> TRUE]
  ELSE SkipDummies(a, left, right - 1)

RECURSIVE PartitionBetween(_, _, _)
PartitionBetween(a, left, right) ==
  LET l == SkipReals(a, left, right)
      r == SkipDummies(a, l.it, right)
  IN IF l.met \/ r.met THEN [a |-> a, end |-> l.it]
     ELSE PartitionBetween(condSwap(TRUE, a, l.it, r.it), l.it, r.it)

\* The rearranged array and the iterator that is returned, for n > 0.
partitionDummy(a, n) == PartitionBetween(a, 0, n - 1)
================================================================================
