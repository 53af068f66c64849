------------------------------- MODULE Compaction ------------------------------
(***************************************************************************)
(* Oblivious compaction and shuffling (algorithm/or_compact_shuffle.hpp).  *)
(* Marks are given as prefix sums: mark[k + 1] - mark[k] is 1 if element k *)
(* is marked.  An array and its marks are indexed from their own begin.    *)
(***************************************************************************)
EXTENDS Utils, FiniteSets

\* for (i = 0; i != n; ++i) condSwap(flag, a[left + i], a[right + i]), where the flag
\* is set for the i in flagged.
SwapLoop(a, left, right, n, flagged) ==
  Steps(LAMBDA b, i : condSwap(i \in flagged, b, left + i, right + i), a, Loop(n))

RECURSIVE OrOffCompactSeparateMark(_, _, _, _, _, _)

\* Mutant of OrOffCompactSeparateMark: the halves are exchanged from zLeft on.
OrOffCompactWrongOffset(a, begin, n, mark, markBegin, z) ==
  LET h == n \div 2
      m == mark[markBegin + h] - mark[markBegin]
      zLeft == z % h
      zRight == (z + m) % h
      s == (zLeft + m >= h) # (z >= h)
      left == OrOffCompactSeparateMark(a, begin, h, mark, markBegin, zLeft)
      both == OrOffCompactSeparateMark(left, begin + h, h, mark, markBegin + h, zRight)
      only2 == IF m = 0 /\ mark[markBegin + 2] # mark[markBegin + 1] THEN 1 ELSE 0
  IN IF n = 2 THEN condSwap(only2 # z, a, begin, begin + 1)
     ELSE SwapLoop(both, begin, begin + h, h, {i \in 0 .. h - 1 : s # (i >= zLeft)})

\* Rotates the compacted elements by z; n is a power of two, at least 2.
OrOffCompactSeparateMark(a, begin, n, mark, markBegin, z) ==
  LET h == n \div 2
      m == mark[markBegin + h] - mark[markBegin]
      zLeft == z % h
      zRight == (z + m) % h
      s == (zLeft + m >= h) # (z >= h)
      left == OrOffCompactSeparateMark(a, begin, h, mark, markBegin, zLeft)
      both == OrOffCompactSeparateMark(left, begin + h, h, mark, markBegin + h, zRight)
      only2 == IF m = 0 /\ mark[markBegin + 2] # mark[markBegin + 1] THEN 1 ELSE 0
  IN IF n = 2 THEN condSwap(only2 # z, a, begin, begin + 1)
     ELSE SwapLoop(both, begin, begin + h, h, {i \in 0 .. h - 1 : s # (i >= zRight)})

\* Splits n into its largest power of two n1 and the first n2 elements.
RECURSIVE OrCompactSeparateMark(_, _, _, _, _)
OrCompactSeparateMark(a, begin, n, mark, markBegin) ==
  LET n1 == 2^GetLogBaseTwo(n)
      n2 == n - n1
      m == mark[markBegin + n2] - mark[markBegin]
      left == OrCompactSeparateMark(a, begin, n2, mark, markBegin)
      both == OrOffCompactSeparateMark(left, begin + n2, n1, mark, markBegin + n2,
                                       (n1 - n2 + m) % n1)
  IN IF n <= 1 THEN a
     ELSE IF n2 = 0 THEN OrOffCompactSeparateMark(a, begin, n, mark, markBegin, 0)
     ELSE SwapLoop(both, begin, begin + n1, n2, m .. n2 - 1)

\* The prefix sums of the marks at the positions in marked.
MarkPrefix(n, marked) == [k \in 0 .. n |-> Cardinality(marked \cap 0 .. k - 1)]

\* marked is the set of the elements for which isMarked holds.
MarkedPositions(a, n, marked) == {i \in 0 .. n - 1 : a[i] \in marked}

OrCompact(a, n, marked) ==
  IF n <= 1 THEN a
  ELSE OrCompactSeparateMark(a, 0, n, MarkPrefix(n, MarkedPositions(a, n, marked)), 0)

\* Element j moves 2^i down if bit i of its distance, the lowest one left, is set.
GoodrichStep(s, i, j, marked) ==
  LET swapFlag == s.a[j] \in marked /\ s.dist[j] % 2^(i + 1) # 0
      k == j - 2^i
  IN [a |-> condSwap(swapFlag, s.a, j, k),
      dist |-> IF swapFlag THEN [s.dist EXCEPT ![k] = (s.dist[j] \div 2^(i + 1)) * 2^(i + 1)]
               ELSE s.dist]

\* dist[i] is the number of unmarked elements before element i.
GoodrichCompact(a, n, marked) ==
  LET prefix == MarkPrefix(n, MarkedPositions(a, n, marked))
      Level(s, i) == Steps(LAMBDA t, j : GoodrichStep(t, i, j, marked), s,
                              [q \in 1 .. n - 2^i |-> 2^i + q - 1])
  IN Steps(Level, [a |-> a, dist |-> [i \in 0 .. n - 1 |-> i - prefix[i]]],
              Loop(GetLogBaseTwo(GetNextPowerOfTwo(n)))).a

--------------------------------------------------------------------------------
(* OrShuffle *)

\* k elements are left to choose when N = n - i remain: UniformRandom(0, N - 1) < k.
Left(n, marked, i) == n \div 2 - Cardinality({j \in marked : j < i})

\* The sets of marks the random draws can lead to.
Draws(n) ==
  {marked \in SUBSET (0 .. n - 1) :
     \A i \in 0 .. n - 1 : IF i \in marked THEN Left(n, marked, i) > 0
                           ELSE Left(n, marked, i) < n - i}

RECURSIVE OrShuffle(_, _, _)

\* The results of OrShuffle over all its random choices.
OrShuffle(a, begin, n) ==
  LET h == n \div 2
      Split(marked) == OrCompactSeparateMark(a, begin, n, MarkPrefix(n, marked), 0)
  IN IF n <= 1 THEN {a}
     ELSE IF n = 2 THEN {condSwap(flag, a, begin, begin + 1) : flag \in BOOLEAN}
     ELSE UNION {UNION {OrShuffle(b, begin + h, n - h) : b \in OrShuffle(Split(marked), begin, h)} :
                   marked \in Draws(n)}
================================================================================
