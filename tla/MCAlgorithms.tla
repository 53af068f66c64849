------------------------------ MODULE MCAlgorithms -----------------------------
(***************************************************************************)
(* The in-memory algorithms on every small input: a behaviour is one call. *)
(* call is the function with the number k of buckets and their size Z, arg *)
(* its input, ret what it returns.  MCApplications adds further calls.     *)
(***************************************************************************)
EXTENDS KWay, FlexWay, Intrinsics

CONSTANTS
  Calls,         \* the functions called
  Keys,
  MaxSize,       \* bytes of the objects to swap
  Compared,      \* sizes of the objects to compare
  MaxSort,       \* arrays of up to this many keys to sort
  MaxCompact,    \* elements to compact
  MaxShuffle,    \* elements to shuffle
  FullSplit,     \* elements to merge-split with dummies marked or not
  MaxSplit,      \* elements to merge-split with unmarked dummies
  Balanced,      \* pairs <<k, Z>> to interleave
  MaxPermute,    \* elements to permute
  Splits,        \* pairs <<k, Z>> to merge-split k-way
  Butterflies,   \* butterfly networks, with the number of elements to sort
  Distributions  \* distribution networks, with the number of elements to sort

VARIABLES call, arg, ret, done

vars == <<call, arg, ret, done>>

\* Pairs <<k, Z>> for the constants.
MCBalanced == {<<3, 2>>, <<4, 2>>, <<3, 4>>}
MCSplits == {<<2, 2>>, <<2, 4>>, <<3, 2>>}
NoPairs == {}

\* Networks of one, two and three passes.
MCButterflies ==
  {[ways |-> <<<<2, 2>>>>, Z |-> 3, fit |-> 4, sort |-> TRUE, size |-> 5],
   [ways |-> <<<<2>>, <<2>>>>, Z |-> 3, fit |-> 4, sort |-> TRUE, size |-> 5],
   [ways |-> <<<<3, 2>>, <<2>>>>, Z |-> 3, fit |-> 6, sort |-> TRUE, size |-> 3],
   [ways |-> <<<<2>>, <<2, 2>>>>, Z |-> 2, fit |-> 4, sort |-> FALSE, size |-> 4],
   [ways |-> <<<<2>>, <<3>>, <<2>>>>, Z |-> 3, fit |-> 3, sort |-> FALSE, size |-> 3]}
MCDistributions ==
  {[ways |-> <<<<2, 2>>>>, partitionSize |-> 2, Z |-> 4, size |-> 4],
   [ways |-> <<<<2>>, <<2>>>>, partitionSize |-> 1, Z |-> 4, size |-> 4],
   [ways |-> <<<<3>>, <<2>>>>, partitionSize |-> 2, Z |-> 4, size |-> 4],
   [ways |-> <<<<2, 3>>>>, partitionSize |-> 1, Z |-> 4, size |-> 4],
   [ways |-> <<<<2>>, <<2, 2>>>>, partitionSize |-> 2, Z |-> 3, size |-> 4]}

Size == call.k * call.Z
Positions == 0 .. Size - 1
Unmoved == [i \in Positions |-> i]

Methods == {"INTERLEAVE_PARTITION", "OR_COMPACT", "GOODRICH_COMPACT", "BITONIC"}

--------------------------------------------------------------------------------
(* Inputs *)

Doing(fn, k, Z) == fn \in Calls /\ call = [fn |-> fn, k |-> k, Z |-> Z]

Call1(fn, size) == Doing(fn, 1, size)

Words == Call1("logarithms", 1) /\ arg \in 0 .. 2^W - 1

\* Two objects that differ in every byte, in arrays that go on after them.
Bytes(size, f) == [i \in 1 .. size + 2 |-> (i + i \div 4 + f) % 4]

Objects ==
  \E size \in 1 .. MaxSize, isa \in 0 .. 3, mov \in BOOLEAN :
    /\ Call1("swap", size)
    /\ arg = [isa |-> isa, mov |-> mov, p |-> [a |-> Bytes(size, 0), b |-> Bytes(size, 1)]]

\* Two objects that differ in at most two bytes.
NearlyEqual ==
  \E size \in Compared : \E i, j \in 1 .. size : \E a, b \in {0, 2} \X {0, 2} :
    /\ Call1("compare", size)
    /\ LET Obj(v) == [k \in 1 .. size |-> CASE k = i -> v[1] [] k = j -> v[2] [] OTHER -> 1]
       IN arg = [a |-> Obj(a), b |-> Obj(b)]

Tags ==
  /\ Call1("tags", 1)
  /\ \E tag \in 0 .. 2 * Flag - 1, k \in 2 .. 8, b \in 0 .. TagBits - 2, cond \in BOOLEAN :
       arg = [e |-> [v |-> 0, tag |-> tag], k |-> k, bitMask |-> 2^b, cond |-> cond]

BlockVectors ==
  /\ Call1("blocks", 1)
  /\ \E v \in [1 .. 4 -> {0, 1} \X {0, 1}], cond \in BOOLEAN :
       arg = [v |-> v, cond |-> cond]

\* For long arrays two keys are enough: a network that sorts those sorts all.
KeyArrays ==
  \E size \in 0 .. MaxSort :
    Call1("bitonic", size) /\ arg \in [0 .. size - 1 -> IF size < 7 THEN Keys ELSE {0, 1}]

MarkedSets ==
  \E size \in 0 .. MaxCompact : Call1("compact", size) /\ arg \in SUBSET (0 .. size - 1)

Kinds(size) == [isDummy : BOOLEAN, isMarked : BOOLEAN]
                 \ (IF size <= FullSplit THEN {} ELSE {[isDummy |-> TRUE, isMarked |-> TRUE]})

TwoBuckets ==
  \E Z \in 1 .. MaxSplit \div 2 :
    /\ Doing("two-way split", 2, Z)
    /\ \E kind \in [0 .. 2 * Z - 1 -> Kinds(2 * Z)] :
         arg = [i \in DOMAIN kind |-> [id |-> i, isDummy |-> kind[i].isDummy,
                                       isMarked |-> kind[i].isMarked]]

BalancedMarks(k, Z) ==
  {f \in [0 .. k * Z - 1 -> 0 .. k - 1] : \A v \in 0 .. k - 1 :
     Cardinality({i \in DOMAIN f : f[i] = v}) = Z}

\* In long arrays the first mark is 0.
Interleavings ==
  \E p \in Balanced :
    /\ Doing("interleave", p[1], p[2])
    /\ \E f \in {g \in BalancedMarks(p[1], p[2]) : p[1] * p[2] > 8 => g[0] = 0} : arg = [i \in DOMAIN f |-> [id |-> i, mark |-> f[i]]]

MarkedPermutations ==
  \E size \in 1 .. MaxPermute :
    /\ Call1("permute marks", size)
    /\ \E f \in BalancedMarks(size, 1) :
         arg = [i \in DOMAIN f |-> [id |-> i, mark |-> f[i], isLarge |-> {}]]

\* Element i carries the tag i * k + mark, so that its tag becomes i.
KBuckets ==
  \E p \in Splits :
    /\ Doing("k-way split", p[1], p[2])
    /\ \E f \in [0 .. p[1] * p[2] - 1 -> 0 .. p[1]] :
         arg = [i \in DOMAIN f |-> [id |-> i, isDummy |-> f[i] = p[1],
                                    tag |-> i * p[1] + (f[i] % p[1])]]

ShuffledInputs ==
  /\ Call1("butterfly", 1)
  /\ \E p \in Butterflies : \E f \in [1 .. p.size -> 0 .. ButterflyTotal(p) - 1] :
       arg = [p |-> p, input |-> [i \in 1 .. p.size |-> [id |-> i, tag |-> f[i]]]]

\* The tags of the input are as far off those of the samples as inputCount, which is
\* not initialised; two blocks are kept of the samples of three elements.
SampledInputs ==
  /\ Call1("distribution", 1)
  /\ \E p \in Distributions, inputCount \in {0, 2} :
       \E f \in [1 .. p.size -> 1 .. 3], chosen \in SUBSET (1 .. p.size) \ {{}} :
         /\ Cardinality(chosen) <= 3
         /\ arg = [p |-> p,
                   pivots |-> sampleForPivots(f, chosen, 3, 2, numPartition(p)),
                   input |-> [i \in 1 .. p.size |->
                                [id |-> i, data |-> f[i], tag |-> inputCount + i - 1]]]

AlgorithmInputs ==
  \/ Words \/ Objects \/ NearlyEqual \/ Tags \/ BlockVectors
  \/ KeyArrays \/ MarkedSets \/ TwoBuckets \/ Interleavings \/ MarkedPermutations
  \/ KBuckets \/ ShuffledInputs \/ SampledInputs

--------------------------------------------------------------------------------
(* Calls *)

Returns(fn, r) ==
  /\ call.fn = fn /\ ~done
  /\ ret' = r /\ done' = TRUE
  /\ UNCHANGED <<call, arg>>

Logarithms ==
  Returns("logarithms", [log |-> GetLogBaseTwo(arg), ceil |-> CeilLog2(arg),
                         next |-> GetNextPowerOfTwo(arg)])

Swaps ==
  Returns("swap", [swapped |-> obliSwap(arg.isa, arg.mov, arg.p, Size),
                   moved |-> obliMove(arg.isa, arg.mov, arg.p.a, arg.p.b, Size)])

Compares ==
  Returns("compare", [equal |-> obliCheckEqual(arg.a, arg.b, Size),
                      less |-> obliCheckLess(arg.a, arg.b, Size)])

MarksTags ==
  LET e == setData(arg.e, 1, arg.e.tag)
      d == IF isDummyT(arg.e) THEN setDummy(e) ELSE setTag(e, arg.e.tag)
  IN Returns("tags", [e |-> d, split |-> getMarkAndUpdate(d, arg.k),
                      changed |-> condChangeMark(d, arg.cond, arg.bitMask)])

\* The first block is the pivot.
MarksBlocks ==
  LET new == [data |-> 2, tag |-> 0, dummyFlag |-> TRUE, lessFlag |-> TRUE]
      v == [i \in 1 .. 4 |-> setAndGetMarked(setBlock(new, arg.v[i][1], arg.v[i][2]),
                                             setBlock(new, arg.v[1][1], arg.v[1][2]))]
  IN Returns("blocks", [v |-> v, sorted |-> IsSortedVector(v),
                        changed |-> [i \in 1 .. 4 |->
                                       setDummyFlagCond(condChangeLess(v[i], arg.cond), arg.cond, TRUE)]])

\* SlowBitonicSort asserts that the size is a power of two; the keys also serve as
\* the tags when the positions are shuffled.
SortsKeys ==
  Returns("bitonic", [sorted |-> Sorted(arg, Size, [x, y \in Keys |-> x < y]),
                   slow |-> IF GetNextPowerOfTwo(Size) = Size THEN SlowBitonicSort(arg, Size)
                            ELSE Sorted(arg, Size, [x, y \in Keys |-> x < y]),
                   shuffled |-> BitonicShuffle(Unmoved, arg, Size)])

Compacts ==
  Returns("compact", [orCompact |-> OrCompact(Unmoved, Size, arg),
                      goodrich |-> GoodrichCompact(Unmoved, Size, arg),
                      shuffles |-> IF Size <= MaxShuffle /\ arg = {} THEN OrShuffle(Unmoved, 0, Size)
                                   ELSE {}])

\* Two buckets are interleaved only if their size is even.
SplitsTwoWay ==
  Returns("two-way split",
          [inPlace |-> [m \in Methods |-> MergeSplitInPlace(arg, Size, m)],
           twoWay |-> [m \in Methods \ (IF Size % 4 = 0 THEN {} ELSE {"INTERLEAVE_PARTITION"}) |->
                         MergeSplitTwoWay(arg, Size \div 2, m)],
           dummies |-> partitionDummy(arg, Size)])

Interleaves == Returns("interleave", [abort |-> FALSE, a |-> InterleaveKWay(arg, 0, Size, call.k)])

PermutesMarks == Returns("permute marks", [abort |-> FALSE, a |-> Permute(arg, 0, Size, 0)])

SplitsKWay == Returns("k-way split", MergeSplitKWay(arg, call.k, call.Z))

Butterflied == Returns("butterfly", ButterflySort(arg.p, arg.input))

DistributesElements == Returns("distribution", DistributionSort(arg.p, arg.input, arg.pivots))

AlgorithmCalls ==
  \/ Logarithms \/ Swaps \/ Compares \/ MarksTags \/ MarksBlocks
  \/ SortsKeys \/ Compacts
  \/ SplitsTwoWay \/ Interleaves \/ PermutesMarks \/ SplitsKWay
  \/ Butterflied \/ DistributesElements

--------------------------------------------------------------------------------
(* Properties *)

Returned(fn) == call.fn = fn /\ done

\* GetLogBaseTwo is the position of the highest bit, CeilLog2 the least exponent that
\* covers its argument, for every word but 0, up to the largest; GetNextPowerOfTwo
\* rounds up to a power of two wherever its Assert holds, and only 0 gives 0.
LogarithmsExact ==
  Returned("logarithms") =>
    /\ arg > 0 => 2^ret.log <= arg /\ arg < 2^(ret.log + 1)
    /\ arg > 0 => arg <= 2^ret.ceil /\ (ret.ceil > 0 => 2^(ret.ceil - 1) < arg)
    /\ arg <= 2^(W - 1) =>
         IF arg = 0 THEN ret.next = 0
         ELSE ret.next >= arg /\ ret.next < 2 * arg /\ \E b \in 0 .. W : ret.next = 2^b

\* The order of obliCheckLess: the words of 8 bytes in turn, each from its last byte.
KeyOrder(size) ==
  [k \in 1 .. size |->
     LET w == 8 * ((k - 1) \div 8)
         len == IF size - w < 8 THEN size - w ELSE 8
     IN w + len - ((k - 1) % 8)]

\* Objects of every size, whatever instructions the build uses: obliSwap and obliMove
\* exchange or copy all bytes of an object and no others, exactly on condition;
\* obliCheckEqual and obliCheckLess are equality and one fixed total order, for sizes
\* that are no multiple of a word too; the tag's digits come off one by one without
\* touching the dummy flag; a block is marked exactly if it is not after the pivot.
ObjectsExact ==
  /\ Returned("swap") =>
       LET Cut(x, y) == SubSeq(x, 1, Size) \o SubSeq(y, Size + 1, Len(y))
           a == IF arg.mov THEN Cut(arg.p.b, arg.p.a) ELSE arg.p.a
           b == IF arg.mov THEN Cut(arg.p.a, arg.p.b) ELSE arg.p.b
       IN ret.swapped = [a |-> a, b |-> b] /\ ret.moved = a
  /\ Returned("compare") =>
       /\ ret.equal = (arg.a = arg.b)
       /\ ret.less = \E k \in 1 .. Size :
            /\ arg.a[KeyOrder(Size)[k]] < arg.b[KeyOrder(Size)[k]]
            /\ \A l \in 1 .. k - 1 : arg.a[KeyOrder(Size)[l]] = arg.b[KeyOrder(Size)[l]]
  /\ Returned("tags") =>
       /\ ret.e.tag = arg.e.tag
       /\ isDummyT(ret.split.e) = isDummyT(ret.e) /\ isDummyT(ret.changed) = isDummyT(ret.e)
       /\ (ret.split.e.tag % Flag) * arg.k + ret.split.mark = ret.e.tag % Flag
       /\ isMarkedT(ret.changed, arg.bitMask) = (isMarkedT(ret.e, arg.bitMask) # arg.cond)
  /\ Returned("blocks") =>
       /\ ret.sorted = \A i, j \in 1 .. 4 : i < j => ~blockLess(ret.v[j], ret.v[i])
       /\ \A i \in 1 .. 4 : ret.v[i].lessFlag = ~blockLess(ret.v[1], ret.v[i])
       /\ \A i \in 1 .. 4 : ret.changed[i].lessFlag = (ret.v[i].lessFlag # arg.cond)
       /\ \A i \in 1 .. 4 : ret.changed[i].dummyFlag = arg.cond

\* The helpers every algorithm is built from are exact for every word and every object.
WordsAndObjectsExact == LogarithmsExact /\ ObjectsExact

IsSortOf(b) ==
  /\ \A i, j \in Positions : i < j => b[i] <= b[j]
  /\ \A x \in Keys : Cardinality({i \in Positions : arg[i] = x})
                       = Cardinality({i \in Positions : b[i] = x})

\* BitonicSort sorts arrays of every size, not only powers of two, and the iterative
\* SlowBitonicSort those its Assert allows; BitonicShuffle loses and repeats no
\* element, also when random tags collide.
BitonicSorts ==
  Returned("bitonic") =>
    /\ IsSortOf(ret.sorted)
    /\ IsSortOf(ret.slow)
    /\ {ret.shuffled[i] : i \in Positions} = Positions
    /\ \A i, j \in Positions : i < j => arg[ret.shuffled[i]] <= arg[ret.shuffled[j]]

\* The marked elements come first, in their original order, and the others follow.
IsCompaction(b) ==
  LET m == Cardinality(arg)
  IN /\ {b[i] : i \in Positions} = Positions
     /\ {b[i] : i \in 0 .. m - 1} = arg
     /\ \A i, j \in 0 .. m - 1 : i < j => b[i] < b[j]

\* OrCompact compacts arrays of every size stably, through its rotated halves, and so
\* does GoodrichCompact: no two marked elements ever collide on their way down.
CompactsStably ==
  Returned("compact") => IsCompaction(ret.orCompact) /\ IsCompaction(ret.goodrich)

\* OrShuffle can produce every permutation of its input; as its draws are Size! in
\* number, each exactly once.
OrShuffleReachesAll ==
  Returned("compact") /\ ret.shuffles # {} =>
    ret.shuffles = {f \in [Positions -> Positions] :
                      \A i, j \in Positions : f[i] = f[j] => i = j}

\* Compaction is stable and the shuffle built on it can reach every permutation.
CompactsAndShuffles == CompactsStably /\ OrShuffleReachesAll

Real(marked) == {i \in Positions : ~arg[i].isDummy /\ arg[i].isMarked = marked}

\* b holds the elements of arg, the first half marked and the second half not, and
\* no real element on the wrong side.
IsSplit(b) ==
  /\ {b[i].id : i \in Positions} = Positions
  /\ \A i \in Positions : isMarked(b[i]) = (i < Size \div 2)
  /\ \A i \in Positions : b[i].isDummy = arg[b[i].id].isDummy
  /\ \A i \in Positions : b[i].isDummy \/ b[i].isMarked = arg[b[i].id].isMarked

SplitsOrAborts(r) ==
  IF \E marked \in BOOLEAN : Cardinality(Real(marked)) > Size \div 2 THEN r.abort
  ELSE ~r.abort /\ IsSplit(r.a)

\* MergeSplitInPlace, and MergeSplitTwoWay for two separate buckets, split with each
\* of their methods, and abort exactly when more real elements belong to one half
\* than fit there.
TwoWaySplits ==
  Returned("two-way split") =>
    /\ \A m \in DOMAIN ret.inPlace : SplitsOrAborts(ret.inPlace[m])
    /\ \A m \in DOMAIN ret.twoWay : SplitsOrAborts(ret.twoWay[m])

IsDummyPartition(r) ==
  /\ {r.a[i].id : i \in Positions} = Positions
  /\ \A i \in Positions : r.a[i].isDummy = (i >= r.end)

\* partitionDummy returns "the end iterator of elements that are not dummy" if there is
\* at least one dummy, as in the buckets of the butterfly network.
PartitionsSomeDummies ==
  Returned("two-way split") /\ (\E i \in Positions : arg[i].isDummy) =>
    IsDummyPartition(ret.dummies)

SameElements == {ret.a[i].id : i \in Positions} = Positions

\* Whatever closed walks the Euler tours take, Interleave leaves the marks as
\* 0 1 ... k-1 0 1 ... k-1 ..., and Permute sorts by them, for odd sizes too.
MarksArranged ==
  /\ Returned("interleave") =>
       SameElements /\ \A i \in Positions : arg[ret.a[i].id].mark = i % call.k
  /\ Returned("permute marks") => \A i \in Positions : arg[ret.a[i].id].mark = i

Reals(v) == {i \in Positions : ~arg[i].isDummy /\ arg[i].tag % call.k = v}

\* MergeSplitKWay brings every real element to the bucket of its tag's lowest digit
\* and drops that digit.  It aborts if the real elements of a bucket do not leave
\* room for a dummy, except that two buckets may be filled completely.
SplitsByDigit ==
  Returned("k-way split") =>
    LET room == IF call.k = 2 THEN call.Z ELSE call.Z - 1
    IN /\ ret.abort <=> \E v \in 0 .. call.k - 1 : Cardinality(Reals(v)) > room
       /\ ~ret.abort =>
            /\ SameElements
            /\ \A i \in Positions :
                 LET e == ret.a[i]
                 IN e.isDummy \/ (e.id \in Reals(i \div call.Z) /\ e.tag = e.id)
            /\ \A i \in Positions : ret.a[i].isDummy = arg[ret.a[i].id].isDummy

\* Every merge-split puts each real element into the bucket it belongs to, or aborts.
MergeSplits == TwoWaySplits /\ PartitionsSomeDummies /\ MarksArranged /\ SplitsByDigit

\* Both sorters run in place: the first element is output when all have been read,
\* and every bucket is copied in with the counter it was last copied out with.
InPlaceIsSafe ==
  Returned("butterfly") \/ Returned("distribution") =>
    ret.overflow \/ (~ret.early /\ ~ret.authFail /\ ret.read = Len(arg.input))

FinalBuckets == FlattenSeq(ret.out)

\* The butterfly network, over any number of passes, brings the elements with the
\* same tag to one bucket and no others there, unless a bucket overflows.
ButterflyDelivers ==
  Returned("butterfly") /\ ~ret.overflow =>
    /\ Len(FinalBuckets) = ButterflyTotal(arg.p)
    /\ \A t \in 0 .. ButterflyTotal(arg.p) - 1 :
         \E b \in DOMAIN FinalBuckets :
           {e.id : e \in FinalBuckets[b]} = {i \in DOMAIN arg.input : arg.input[i].tag = t}

\* Distribution sort outputs all elements in order, whatever pivots were sampled and
\* whatever value inputCount had, and each partition lies between its two pivots,
\* unless a bucket overflows.
DistributionSorts ==
  Returned("distribution") /\ ~ret.overflow =>
    LET b == FlattenSeq(ret.out)
    IN /\ Len(b) = Len(arg.input)
       /\ {b[i].id : i \in DOMAIN b} = DOMAIN arg.input
       /\ \A i, j \in DOMAIN b : i < j => b[i].data <= b[j].data
       /\ \A k \in DOMAIN ret.out : \A i \in DOMAIN ret.out[k] :
            Cardinality({q \in DOMAIN arg.pivots : Before(arg.pivots[q], ret.out[k][i])}) = k - 1

\* The networks of both sorters deliver all elements where they belong, reading and
\* writing every bucket in an order that is safe in place.
NetworksDeliver == InPlaceIsSafe /\ ButterflyDelivers /\ DistributionSorts
================================================================================
