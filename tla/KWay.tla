---------------------------------- MODULE KWay ---------------------------------
(***************************************************************************)
(* The multi-way building blocks: EdgeRec and its Euler paths, the         *)
(* Bose-Nelson networks of StaticSort, Interleave, Permute and             *)
(* MergeSplitKWay (edge_rec.hpp, static_sort.hpp,                          *)
(* sort_building_blocks.hpp).                                              *)
(*                                                                         *)
(* Elements and marks, parallel arrays swapped together in the code, are   *)
(* one array of records with a field mark.  An EdgeRec is the set of its   *)
(* bits <<v0, v1>>.                                                        *)
(***************************************************************************)
EXTENDS MergeSplit

Vertices == 0 .. 7
AllEdges == Vertices \X Vertices

\* edges ^= mask
Flip(edges, mask) == SymDiff(edges, mask)

getEdgesMask(v0, v1) == {<<v0, v1>>, <<v1, v0>>}

\* The bit with the least offset (v0 << 3) | v1.
LowestEdge(edges) ==
  CHOOSE e \in edges : \A f \in edges : e[1] < f[1] \/ (e[1] = f[1] /\ e[2] <= f[2])

\* One round of EulerPath from vertex v.  When no edge is left countr_zero gives 64
\* and the shift by 64 is undefined; x64 shifts by 64 % 64.
EulerStep(s) ==
  LET choices == {e \in s.edges : e[1] >= s.v}
      e == LowestEdge(choices)
  IN IF choices = {} THEN [edges |-> s.edges \ {<<0, 0>>, <<1, 0>>}, v |-> 0,
                           path |-> s.path \cup {<<0, 0>>}]
     ELSE [edges |-> s.edges \ {e, <<e[2], e[1]>>}, v |-> e[2], path |-> s.path \cup {e}]

\* A direction for every edge: edges that appeared an even number of times go down,
\* the others along closed walks.
EulerPath(edges, k, numEdge) ==
  Steps(LAMBDA s, r : EulerStep(s),
           [edges |-> {e \in edges : e[1] # e[2]}, v |-> 0,
            path |-> {e \in AllEdges : e[2] <= e[1] /\ e \notin edges}],
           Loop(Min({numEdge, (k * (k - 1)) \div 2}))).path

\* The path, reversed if it orients the edge v0 - v1 the wrong way.
Oriented(path, v0, v1) ==
  LET flipped == Flip(path, getEdgesMask(v0, v1))
  IN IF <<v0, v1>> \in path THEN AllEdges \ flipped ELSE flipped

\* retrieveAndFlipEdge decides whether left and right are swapped.
PathStep(s, left, right) ==
  LET l == s.a[left].mark
      r == s.a[right].mark
  IN [a |-> condSwap(<<l, r>> \in s.path, s.a, left, right),
      path |-> Flip(s.path, getEdgesMask(l, r))]

--------------------------------------------------------------------------------
(* StaticSort: the pairs of positions compared, in order *)

RECURSIVE PB(_, _, _, _)
PB(I, J, X, Y) ==
  LET L == X \div 2
      M == (IF X % 2 = 1 THEN Y ELSE Y + 1) \div 2
  IN CASE X = 1 /\ Y = 1 -> <<<<I - 1, J - 1>>>>
       [] X = 1 /\ Y = 2 -> <<<<I - 1, J>>, <<I - 1, J - 1>>>>
       [] X = 2 /\ Y = 1 -> <<<<I - 1, J - 1>>, <<I, J - 1>>>>
       [] OTHER -> PB(I, J, L, M) \o PB(I + L, J + M, X - L, Y - M) \o PB(I + L, J, X - L, M)

RECURSIVE PS(_, _)

PS(I, M) ==
  LET L == M \div 2
  IN IF M <= 1 THEN <<>> ELSE PS(I, L) \o PS(I + L, M - L) \o PB(I, I + L, L, M - L)

\* StaticSort<k> on the k elements from begin, by their marks.
InterleaveBaseCase(a, begin, k) ==
  Steps(LAMBDA b, p : condSwap(b[begin + p[1]].mark > b[begin + p[2]].mark,
                                  b, begin + p[1], begin + p[2]),
           a, PS(1, k))

--------------------------------------------------------------------------------
(* Interleave, for k > 2 (named for its ways: SequencesExt has an Interleave)   *)

\* The edges joining the marks of left + i and right + i, for i < n.
PairedEdges(a, left, right, n) ==
  Steps(LAMBDA edges, i : Flip(edges, getEdgesMask(a[left + i].mark, a[right + i].mark)),
           {}, Loop(n))

RECURSIVE InterleaveKWay(_, _, _, _)
InterleaveKWay(a, begin, end, k) ==
  LET h == (end - begin) \div 2
      mid == begin + h
      path == EulerPath(PairedEdges(a, begin, mid, h), k, h)
      b == Steps(LAMBDA s, i : PathStep(s, begin + 1 + i, mid + 1 + i),
                    [a |-> a, path |-> Oriented(path, a[begin].mark, a[mid].mark)],
                    Loop(h - 1)).a
  IN IF end - begin = k THEN InterleaveBaseCase(a, begin, k)
     ELSE The({InterleaveKWay(x, mid, end, k) :
               x \in {The({InterleaveKWay(y, begin, mid, k) : y \in {b}})}})

--------------------------------------------------------------------------------
(* Permute: marks are a permutation of 0 .. size - 1; isLarge is the set of     *)
(* levels whose flag 0x10 << level is set.                                      *)

Lowered(e, half, level) ==
  IF e.mark >= half THEN [e EXCEPT !.mark = @ - half, !.isLarge = @ \cup {level}] ELSE e

RECURSIVE Permute(_, _, _, _)
Permute(a, begin, end, level) ==
  LET size == end - begin
      half == (size + 1) \div 2
      mid == begin + half
      low == [i \in DOMAIN a |-> IF i \in begin .. end - 1 THEN Lowered(a[i], half, level) ELSE a[i]]
      lastLeft == low[mid - 1].mark
      lastRight == IF size % 2 = 1 THEN size - half ELSE low[end - 1].mark
      rec == Flip(PairedEdges(low, begin, mid, half - 1), getEdgesMask(lastLeft, lastRight))
      b == Steps(LAMBDA s, i : PathStep(s, begin + i, mid + i),
                    [a |-> low, path |-> Oriented(EulerPath(rec, half, half), lastLeft, lastRight)],
                    Loop(half - 1)).a
      c == Permute(Permute(b, begin, mid, level + 1), mid, end, level + 1)
  IN IF size = 1 THEN a
     ELSE IF size = 2 THEN condSwap(a[begin].mark # 0, a, begin, begin + 1)
     ELSE SwapLoop(c, begin, mid, size - half,
                   {i \in 0 .. size - half - 1 : level \notin c[mid + i].isLarge})

--------------------------------------------------------------------------------
(* MergeSplitKWay: the bucket of a real element is tag % k *)

DummyMark == 255

\* temp and marks: getMarkAndUpdate, then -1 for dummies.
Marked(a, k) ==
  [i \in DOMAIN a |-> [id |-> a[i].id, isDummy |-> a[i].isDummy, tag |-> a[i].tag \div k,
                       mark |-> IF a[i].isDummy THEN DummyMark ELSE a[i].tag % k]]

\* What is left of the Z elements of each mark, in the eight lanes of a register.
RemainCounts(a, Z) ==
  [v \in Vertices |-> Z - Cardinality({i \in DOMAIN a : a[i].mark = v})]

\* Dummies get mark 0 until 0 is full, then 1, and so on.
FillStep(s, i, remain) ==
  LET isDummy == s.a[i].mark = DummyMark
      left == IF isDummy THEN s.currRemain - 1 ELSE s.currRemain
      next == IF left = 0 THEN s.currMark + 1 ELSE s.currMark
  IN [a |-> IF isDummy THEN [s.a EXCEPT ![i].mark = s.currMark] ELSE s.a,
      currMark |-> next, currRemain |-> IF left = 0 THEN remain[next % 8] ELSE left]

Filled(a, remain) ==
  Steps(LAMBDA s, i : FillStep(s, i, remain),
           [a |-> a, currMark |-> 0, currRemain |-> remain[0]], Loop(Cardinality(DOMAIN a))).a

\* k = 2: the mark is bit 0 of the tag, which the shift then drops.
MergeSplitPair(a, Z) ==
  MergeSplitTwoWay([i \in DOMAIN a |->
                      [id |-> a[i].id, isDummy |-> a[i].isDummy, tag |-> a[i].tag \div 2,
                       isMarked |-> a[i].tag % 2 = 0]], Z, "INTERLEAVE_PARTITION")

\* Bucket j of the result is written back to positions j * Z .. (j + 1) * Z - 1.
MergeSplitKWay(a, k, Z) ==
  LET marked == Marked(a, k)
      remain == RemainCounts(marked, Z)
      temp == InterleaveKWay(Filled(marked, remain), 0, k * Z, k)
  IN IF k = 2 THEN MergeSplitPair(a, Z)
     ELSE IF \E v \in Vertices : remain[v] <= 0 THEN [abort |-> TRUE, a |-> marked]
     ELSE [abort |-> FALSE, a |-> [i \in DOMAIN a |-> temp[(i % Z) * k + (i \div Z)]]]
================================================================================
