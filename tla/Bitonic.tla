-------------------------------- MODULE Bitonic --------------------------------
(***************************************************************************)
(* Bitonic sorting (algorithm/bitonic.hpp).  The recursive functions touch *)
(* elements only through condSwap at positions fixed by the size, so they  *)
(* are modelled by the sequence of comparators they run, which ExtBitonic  *)
(* also runs on a cached vector.                                           *)
(***************************************************************************)
EXTENDS Utils

\* condSwap(dire != cmp(a[l], a[r]), a[l], a[r]); cmp is a function on pairs.
CompareExchange(a, c, cmp) == condSwap(c.dire # cmp[a[c.l], a[c.r]], a, c.l, c.r)

\* The first loop of a merge: the first count elements against those half further.
Cleaner(begin, half, count, dire) ==
  [i \in 1 .. count |-> [l |-> begin + i - 1, r |-> begin + half + i - 1, dire |-> dire]]

RECURSIVE BitonicMergePow2(_, _, _)
BitonicMergePow2(begin, end, dire) ==
  LET half == (end - begin) \div 2
      mid == begin + half
  IN IF end - begin <= 1 THEN <<>>
     ELSE Cleaner(begin, half, half, dire)
            \o BitonicMergePow2(begin, mid, dire) \o BitonicMergePow2(mid, end, dire)

RECURSIVE BitonicMerge(_, _, _)
BitonicMerge(begin, end, dire) ==
  LET half == GetNextPowerOfTwo(end - begin) \div 2
      mid == begin + half
  IN IF end - begin <= 1 THEN <<>>
     ELSE Cleaner(begin, half, end - mid, dire)
            \o BitonicMergePow2(begin, mid, dire) \o BitonicMerge(mid, end, dire)

RECURSIVE BitonicSort(_, _, _)

\* Mutant of BitonicSort: both halves are sorted in the same direction.
BitonicSortSameDirection(begin, end, dire) ==
  LET mid == begin + (end - begin) \div 2
  IN IF end - begin <= 1 THEN <<>>
     ELSE BitonicSort(begin, mid, dire) \o BitonicSort(mid, end, dire)
            \o BitonicMerge(begin, end, dire)

BitonicSort(begin, end, dire) ==
  LET mid == begin + (end - begin) \div 2
  IN IF end - begin <= 1 THEN <<>>
     ELSE BitonicSort(begin, mid, ~dire) \o BitonicSort(mid, end, dire)
            \o BitonicMerge(begin, end, dire)

\* BitonicSort of a whole array of n elements.
Sorted(a, n, cmp) ==
  Steps(LAMBDA b, c : CompareExchange(b, c, cmp), a, BitonicSort(0, n, TRUE))

\* The powers of two from x to y, upwards.
PowersOfTwo(x, y) == SetToSortSeq({k \in x .. y : \E b \in 0 .. y : k = 2^b}, <)

\* The body of SlowBitonicSort's inner loop; l = i ^ j exceeds i if bit j of i is 0.
SlowStep(a, i, j, k) ==
  LET llti == a[i + j] < a[i]
  IN IF (i \div j) % 2 = 1 THEN a
     ELSE condSwap(IF (i \div k) % 2 = 0 THEN llti ELSE ~llti, a, i, i + j)

SlowBitonicSort(a, n) ==
  Steps(LAMBDA b, k :
          Steps(LAMBDA c, j : Steps(LAMBDA d, i : SlowStep(d, i, j, k), c, Loop(n)),
                b, Reverse(PowersOfTwo(1, k \div 2))),
        a, PowersOfTwo(2, n))

\* Every element is given a random tag and the pairs are sorted by tag.
BitonicShuffle(a, tag, n) ==
  LET tagged == [i \in 0 .. n - 1 |-> [tag |-> tag[i], v |-> a[i]]]
      pairs == {tagged[i] : i \in 0 .. n - 1}
      sorted == Sorted(tagged, n, [x, y \in pairs |-> x.tag < y.tag])
  IN [i \in 0 .. n - 1 |-> sorted[i].v]
================================================================================
