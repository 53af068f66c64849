---------------------------- MODULE MCApplications -----------------------------
(***************************************************************************)
(* The shuffles, the parameter solver, the sorters' entry points and the   *)
(* applications on every small input, beside the algorithms they are built *)
(* from: a behaviour is one call.                                          *)
(***************************************************************************)
EXTENDS MCAlgorithms, Waksman, BaselineSorts, Apps, LoadBalancer, Sorters, Servers, Tracing

CONSTANTS
  Permuted,      \* pairs <<n, prps, tapes>> for the Waksman network
  Bucketed,      \* pairs <<n, draws>> for the bucket shuffle
  MaxShell,      \* largest array for the Shell sort
  MaxBound,      \* largest bound to bisect
  MaxTarget,     \* largest product of ways
  MaxTable,      \* rows in each table to join
  MaxKeys,       \* keys to count
  MaxTree,       \* entries of the ORAM tree
  Balancers,     \* calls of the load balancer
  Networks,      \* calls of the butterfly sort and shuffle
  Distributed,   \* calls of the distribution sort
  MaxChunks,     \* chunks in a batch for a server
  MaxTraced      \* operations of a traced program

\* Tags of a pseudorandom permutation: any distinct numbers.
Up == [i \in 0 .. 7 |-> i]
Down == [i \in 0 .. 7 |-> 7 - i]
Mixed == [i \in 0 .. 7 |-> (3 * i + 5) % 8]

Tapes(draws) == {[d \in 1 .. 3 |-> t] : t \in [1 .. 3 -> draws]}

MCPermuted ==
  {<<n, {Up, Down, Mixed}, Tapes(0 .. 1)>> : n \in 1 .. 4}
    \cup {<<5, {Up, Mixed}, Tapes(0 .. 1)>>, <<6, {Mixed}, {[d \in 1 .. 3 |-> [c \in 1 .. 3 |-> t]] : t \in {0, 3}}>>}

\* Buckets have two places: three equal tags overflow one.
MCBucketed ==
  {<<1, [1 .. 1 -> {0, 36, 128}]>>, <<2, [1 .. 2 -> {0, 36, 128, 252}]>>,
   <<3, [1 .. 3 -> {0, 66, 128, 250}]>>, <<4, {f \in [1 .. 4 -> {70, 128, 254}] : f[1] = 128}>>,
   <<5, {f \in [1 .. 5 -> {0, 96, 224}] :
           f[1] = 96 /\ \A t \in {0, 96, 224} : Cardinality({i \in 1 .. 5 : f[i] = t}) <= 2}>>}

MCBalancers ==
  {[shards |-> 2, size |-> 6, max |-> 6, cache |-> 8, hashes |-> {127, 128, 255}],
   [shards |-> 2, size |-> 6, max |-> 7, cache |-> 16, hashes |-> {0, 200}],
   [shards |-> 2, size |-> 4, max |-> 3, cache |-> 16, hashes |-> {0, 255}],
   [shards |-> 3, size |-> 4, max |-> 4, cache |-> 24, hashes |-> {84, 85, 255}],
   [shards |-> 3, size |-> 3, max |-> 3, cache |-> 24, hashes |-> {169, 170, 254}],
   [shards |-> 3, size |-> 3, max |-> 3, cache |-> 5, hashes |-> {84, 255}],
   [shards |-> 15, size |-> 2, max |-> 2, cache |-> 40, hashes |-> {0, 17, 254, 255}],
   [shards |-> 9, size |-> 3, max |-> 3, cache |-> 40, hashes |-> {29 * s : s \in 0 .. 8}],
   [shards |-> 11, size |-> 3, max |-> 3, cache |-> 40, hashes |-> {0}]}

\* Vectors that are kept in memory; networks of one batch, of two passes in one run and
\* of two passes in two runs.
MCNetworks ==
  {[size |-> n, ways |-> <<<<2, 2>>>>, Z |-> 3, sizeofW |-> 4, heap |-> 1000, tags |-> {0}] : n \in 0 .. 3}
    \cup {[size |-> 5, ways |-> <<<<2, 2>>>>, Z |-> 3, sizeofW |-> 4, heap |-> 1000, tags |-> 0 .. 3],
          [size |-> 4, ways |-> <<<<2>>, <<2>>>>, Z |-> 3, sizeofW |-> 4, heap |-> 1000, tags |-> 0 .. 3],
          [size |-> 5, ways |-> <<<<2>>, <<2>>>>, Z |-> 3, sizeofW |-> 4, heap |-> 168, tags |-> 0 .. 3]}

\* Pages of one or two elements, fetched one or two at a time, permuted in memory or not.
MCDistributed ==
  {[size |-> n, ways |-> <<<<2>>, <<2>>>>, partitionSize |-> 1, Z |-> 4, M |-> 3, len |-> 2,
    item_per_page |-> b, cacheCapacity |-> c, sizeofT |-> 16, heap |-> 32] :
      n \in {2, 4}, b \in 1 .. 2, c \in 1 .. 2}
    \cup {[size |-> 5, ways |-> <<<<2>>>>, partitionSize |-> 2, Z |-> 4, M |-> 3, len |-> 2,
           item_per_page |-> 2, cacheCapacity |-> 1, sizeofT |-> 8, heap |-> 30]}

PermutationsOf(n) == {f \in [0 .. n - 1 -> 0 .. n - 1] : \A i, j \in 0 .. n - 1 : f[i] = f[j] => i = j}

--------------------------------------------------------------------------------
(* Inputs *)

ToPermute ==
  Call1("permute", 1) /\
  \E p \in Permuted : \E P \in PermutationsOf(p[1]), prp \in p[2], tape \in p[3] :
    arg = [n |-> p[1], P |-> P, prp |-> prp, tape |-> tape]

\* Dummies draw tags too; heap: the recursion in external memory goes down to one
\* or to two buckets.
ToBucket ==
  Call1("bucket", 1) /\
  \E p \in Bucketed, heap \in {14, 24} : \E f \in p[2] :
    arg = [input |-> [i \in 1 .. p[1] |-> p[1] - i], heap |-> heap, Z |-> 2, drawn |-> f,
              tag |-> [i \in 0 .. 31 |-> IF i % 2 = 0 /\ i \div 2 < p[1] THEN f[i \div 2 + 1]
                                         ELSE (i * 37) % 256]]

\* The mates of a round are in the same order, or all of them are in reverse.
ToShellSort ==
  Call1("shell", 1) /\
  \E size \in {s \in {1, 2, 4, 8} : s <= MaxShell} :
    \E a \in IF size < 8 THEN [0 .. size - 1 -> 0 .. 2] ELSE [0 .. size - 1 -> 0 .. 1],
       rev \in IF size < 8 THEN SUBSET (0 .. 3) ELSE {{}, {0}, {1, 2}, 0 .. 3} :
      arg = [n |-> size, a |-> a,
                mate |-> [c \in 0 .. 3 |-> [o \in 1 .. 4 |-> [i \in 0 .. o - 1 |->
                            IF c \in rev THEN o - 1 - i ELSE i]]]]

\* The condition holds from some value on, as those of all callers do.
ToBisect ==
  Call1("bisect", 1) /\
  \E left, right \in 0 .. MaxBound : \E from \in left .. right + 1 :
    left <= right /\ arg = [left |-> left, right |-> right, sat |-> from .. right]

UnitCosts == {<<1, 2, 3, 4, 5, 6, 7>>, <<7, 6, 5, 4, 3, 2, 1>>, <<4, 5, 1, 6, 2, 7, 3>>}

ToSolve ==
  Call1("solve", 1) /\
  \E target \in 0 .. MaxTarget, costs \in UnitCosts, io \in {0, 9}, max \in {8, 13, 16} :
    arg = [target |-> target,
              p |-> [options |-> <<2, 3, 4, 5, 6, 7, 8>>, unitCosts |-> costs,
                     ioCost |-> io, maxWayInternal |-> max]]

ToChoose ==
  Call1("choose", 1) /\
  \E N \in {4, 9, 20, 33}, M \in {40, 60, 90, 130}, need \in {0, 7, 12, 30}, costs \in UnitCosts :
    arg = [N |-> N, M |-> M, b |-> 16, logZ0 |-> 1, ioCost |-> 5, bitonic |-> 1,
              unitCosts |-> [l \in 1 .. 12 |-> costs], sat |-> need .. 255, satFinal |-> need .. 255]

Tables(payloads) ==
  UNION {[1 .. k -> [id : 1 .. 3, payload : payloads]] : k \in 0 .. MaxTable}

ToJoin ==
  Call1("join", 1) /\
  \E t1 \in Tables({"a", "b"}), t2 \in Tables({"c", "d"}) :
    arg = [t1 |-> t1, t2 |-> t2]

ToCount ==
  Call1("histogram", 1) /\
  \E k \in 1 .. MaxKeys : \E keys \in [1 .. k -> 1 .. 3] : arg = keys

ToInit ==
  Call1("oram", 1) /\
  \E size \in 1 .. MaxTree, Z \in 1 .. 2 : \E pos \in [1 .. size -> 0 .. size - 1] :
    arg = [Z |-> Z, size |-> size, entries |-> [i \in 1 .. size |-> [pos |-> pos[i], uid |-> i]]]

\* A third of a batch is enough for a shard, or all of it has to be expected.
ToBalance ==
  Call1("balance", 1) /\
  \E p \in Balancers : \E hashes \in [1 .. p.size -> p.hashes], sat \in {2 .. 7, {p.size}} :
    arg = [p |-> p, hashes |-> hashes, sat |-> sat, satDummy |-> 1 .. 15]

Items(data) == [i \in DOMAIN data |-> [data |-> data[i], id |-> i]]

\* The counter given is the one the vector was written with, or the next one.
ToSort ==
  Call1("sort", 1) /\
  \E p \in Networks, external \in BOOLEAN, auth, inAuth \in 0 .. 1, up \in BOOLEAN :
    \E tags \in [1 .. p.size -> IF auth = 1 \/ inAuth = 1 THEN {0, 2} ELSE p.tags] :
      arg = [p |-> p, inAuth |-> inAuth, tags |-> tags,
             vec |-> [external |-> external, auth |-> auth,
                      items |-> Items([i \in 1 .. p.size |-> IF up THEN i \div 2 ELSE 9 - i])]]

\* draw: the places Fisher and Yates draw, or tags that may be equal.
ToDistribute ==
  Call1("distribute", 1) /\
  \E p \in Distributed, auth, inAuth \in 0 .. 1, inputCount \in {0, 2}, preshuffled \in BOOLEAN :
    \E chosen \in SUBSET (1 .. p.size) \ {{}}, key \in {<<2, 1, 2, 1, 1>>, <<3, 3, 3, 3, 3>>, <<5, 4, 3, 2, 1>>},
       draw \in {f \in [0 .. 4 -> 0 .. 2] : f[0] = 0 /\ f[3] = 1 /\ f[4] = 0 /\ f[1] <= 1} :
      /\ Cardinality(chosen) <= 2
      /\ auth = 1 \/ inAuth = 1 => Cardinality(chosen) = 1 /\ draw[1] = 0
      /\ preshuffled => draw[1] = 0 /\ draw[2] = 0
      /\ ~preshuffled => inputCount = 0
      /\ arg = [p |-> p, inAuth |-> inAuth, inputCount |-> inputCount, preshuffled |-> preshuffled,
                chosen |-> chosen, draw |-> draw,
                vec |-> [external |-> TRUE, auth |-> auth,
                         items |-> Items([i \in 1 .. p.size |-> key[i]])]]

\* Chunks of a disk of six bytes: adjacent, apart, overlapping or the same.
Chunks == {c \in [offset : 0 .. 5, size : 1 .. 2] : c.offset + c.size <= 6}

ToStore ==
  Call1("store", 1) /\
  \E k \in 0 .. MaxChunks : \E chunks \in [1 .. k -> Chunks], out \in Outcomes :
    /\ k > 1 => out = [open |-> TRUE, alloc |-> TRUE, map |-> TRUE]
    /\ arg = [chunks |-> chunks, out |-> out]

ToCopy ==
  Call1("copy", 1) /\
  \E kind \in {"std", "virtual", "function"}, begin, end \in 0 .. 3, virtualize \in PermutationsOf(3) :
    begin <= end /\ arg = [kind |-> kind, begin |-> begin, end |-> end, virtualize |-> virtualize]

TraceOps ==
  [op : {"block"}, e : EventIds] \cup [op : {"end", "leave", "reset"}] \cup [op : {"set"}, val : BOOLEAN]
    \cup {[op |-> "value", e |-> e, v |-> 3] : e \in EventIds}

\* A program that may turn the profiler on before it does anything else.
ToTrace ==
  Call1("trace", 1) /\
  \E on \in BOOLEAN, k \in 0 .. MaxTraced : \E ops \in [1 .. k -> TraceOps] :
    arg = [ops |-> IF on THEN <<[op |-> "set", val |-> TRUE]>> \o ops ELSE ops]

Init ==
  /\ AlgorithmInputs \/ ToTrace \/ ToSort \/ ToDistribute \/ ToStore \/ ToCopy \/ ToPermute \/ ToBucket \/ ToShellSort
     \/ ToBisect \/ ToSolve \/ ToChoose \/ ToJoin \/ ToCount \/ ToInit \/ ToBalance
  /\ ret = [a |-> <<>>] /\ done = FALSE

--------------------------------------------------------------------------------
(* Calls *)

Identity(n) == [i \in 0 .. n - 1 |-> i]

Permutes ==
  Returns("permute",
    LET Run(circuit) == IF arg.n = 1 THEN Identity(1) ELSE WaksShuffleOnline(Identity(arg.n), arg.n, circuit)
    IN The({[a |-> Run(bits.circuit), P |-> bits.P, mock |-> Run(MockControlBits(arg.n)),
             all |-> IF arg.n \in 2 .. 4 /\ arg.P = Identity(arg.n)
                     THEN WaksOnOffShuffle(Identity(arg.n), arg.n, arg.prp, arg.tape) ELSE {}] :
            bits \in {ControlBits(arg.P, arg.n, 0, arg.prp, arg.tape)}}))

Buckets ==
  Returns("bucket",
    LET inMemory == arg.heap > 20
        Both(external, internal) ==
          [external |-> external, internal |-> internal,
           overflow |-> IF inMemory THEN internal.overflow ELSE external.overflow,
           sort |-> IF inMemory THEN CABucketSortInternal(arg.input, arg.Z, arg.tag)
                    ELSE CABucketSort(arg.input, arg.Z, arg.tag, arg.heap)]
    IN Both(CABucketShuffle(arg.input, arg.Z, arg.tag, arg.heap),
            CABucketShuffleInternal(arg.input, arg.Z, arg.tag)))

ShellSorts == Returns("shell", [a |-> randomizedShellSort(arg.a, arg.n, arg.mate)])

Bisects == Returns("bisect", [at |-> lowerBound(arg.left, arg.right, arg.sat)])

Solves == Returns("solve", solve(arg.p, arg.target))

Chooses == Returns("choose", [butterfly |-> bestKWayButterflyParams(arg),
                              distri |-> bestDistriParams(arg)])

Joins == Returns("join", [rows |-> dbJoin(arg.t1, arg.t2)])

Counts == Returns("histogram", [entries |-> histogram(arg)])

Initialises == Returns("oram", [tree |-> ORAMInit(arg.entries, arg.Z)])

Balances ==
  Returns("balance",
    LET m == SetSize(arg.p.max, arg.p.shards, {arg.p.max})
    IN [c |-> InitFromReader(m, arg.hashes, arg.p.cache, arg.sat, arg.satDummy),
        bitonic |-> InitFromReaderBitonic(m, arg.hashes, 2, arg.satDummy),
        suitable |-> GetSuitableShardCount(2 * arg.p.shards + 1, FALSE)])

Sorts ==
  Returns("sort",
    [sorted |-> KWayButterflySortVec(arg.vec, arg.inAuth, arg.p.heap, arg.p, arg.tags),
     shuffled |-> KWayButterflyOShuffle(arg.vec, arg.inAuth, arg.p.heap, arg.p, arg.tags)])

Distributes ==
  Returns("distribute",
    [sorted |-> KWayDistriSortVec(arg.vec, arg.inAuth, arg.p.heap, arg.p, arg.chosen, arg.preshuffled,
                                  arg.inputCount, arg.draw),
     reads |-> LET pages == (arg.p.size + arg.p.item_per_page - 1) \div arg.p.item_per_page
                   Reads(perm) == [k \in 1 .. arg.p.size |->
                                     permutedRead(perm, pages, k - 1, arg.p.item_per_page, arg.p.cacheCapacity)]
               IN IF pages = 1 THEN <<>> ELSE The({Reads(r) : r \in {PagePerm(pages, arg.draw, arg.p.heap)}})])

Disk == [b \in 0 .. 5 |-> 10 + b]
Given(chunks) == [i \in 1 .. FoldSeq(LAMBDA c, n : c.size + n, 0, chunks) |-> 20 + i]

NoServer == [N |-> 0, openFds |-> {0}, nextFd |-> 3, fd |-> 0, mapped |-> 0]

Stores ==
  Returns("store",
    [read |-> [kind \in ServerKinds |-> ocall_Read_Batch(Disk, arg.chunks, kind)],
     written |-> [kind \in ServerKinds |-> ocall_Write_Batch(Disk, arg.chunks, Given(arg.chunks), kind)],
     server |-> InitMmapServer(NoServer, ServerPage, PagesFor(5), arg.out),
     deleted |-> DeleteMmapServer(InitMmapServer(NoServer, ServerPage, PagesFor(5), arg.out))])

Copies ==
  Returns("copy",
    LET c == CASE arg.kind = "std" -> StdCursor(arg.begin, arg.end)
               [] arg.kind = "virtual" -> VectorCursor(arg.begin, arg.end)
               [] arg.kind = "function" -> FunctionCursor(arg.end - arg.begin)
        written == CopyTo([i \in 0 .. 2 |-> 0], arg.virtualize, c, [i \in 1 .. arg.end - arg.begin |-> i])
    IN [written |-> written, size |-> sizeOf(c), read |-> CopyFrom(written, arg.virtualize, c)])

\* The states of the trackers, from the first one on.
Traces ==
  Returns("trace",
    [states |-> Steps(LAMBDA s, op : Append(s, Perform(Last(s), op)), <<NewTrackers>>,
                      arg.ops \o [i \in DOMAIN arg.ops |-> [op |-> "leave"]])])

Next ==
  \/ AlgorithmCalls
  \/ Sorts \/ Distributes \/ Stores \/ Copies \/ Traces \/ Permutes \/ Buckets \/ ShellSorts \/ Bisects \/ Solves \/ Chooses
  \/ Joins \/ Counts \/ Initialises \/ Balances

Spec == Init /\ [][Next]_vars

--------------------------------------------------------------------------------
(* Properties *)

\* Whatever the tags and the draws that order the cycles, the circuit ControlBits makes
\* of a permutation P sends element i to place P[i], ControlBits puts P into order on
\* its way, open switches move nothing, and WaksOnOffShuffle reaches all permutations.
WaksmanPermutes ==
  Returned("permute") =>
    /\ \A i \in 0 .. arg.n - 1 : ret.a[arg.P[i]] = i /\ ret.P[i] = i /\ ret.mock[i] = i
    /\ ret.all # {} => ret.all = PermutationsOf(arg.n)

\* out holds the input, each element with its own tag, in the order of the tags.
InTagOrder(out) ==
  /\ Len(out) = Len(arg.input)
  /\ \A r \in DOMAIN arg.input :
       \E i \in DOMAIN out : out[i].v = arg.input[r] /\ out[i].tag = 2 * (arg.drawn[r] \div 2)
  /\ \A i, j \in DOMAIN out : i < j => out[i].tag <= out[j].tag

\* Unless a bucket overflows, the bucket shuffle writes every element of the input once
\* and in the order of the tags, whether all layers run in memory or the recursion
\* splits them in external memory, and the sort built on it sorts.
BucketsDeliver ==
  Returned("bucket") =>
    /\ ret.external.overflow \/ InTagOrder(ret.external.out)
    /\ ret.internal.overflow \/ InTagOrder(ret.internal.out)
    /\ ret.overflow \/ ret.sort = SortSeq(arg.input, <)

CountOf(a, x) == Cardinality({i \in DOMAIN a : a[i] = x})

\* Randomised Shell sort of a power of two of elements keeps them, and sorts them for
\* every choice of identical and reversed matings, with equal keys swapped or not.
ShellSorted ==
  Returned("shell") =>
    /\ \A x \in Range(arg.a) : CountOf(ret.a, x) = CountOf(arg.a, x)
    /\ \A i, j \in DOMAIN ret.a : i < j => ret.a[i] <= ret.a[j]

\* The two baselines the sorters are compared with: the bucket o-sort delivers every
\* element, and the randomised Shell sort orders and keeps them.
BaselinesSort == BucketsDeliver /\ ShellSorted

PassesFit(ways, max) == \A i \in DOMAIN ways : Product(ways[i]) <= max

\* The condition holds at the left end already, which the bisection does not try unless
\* the ends are next to one another.
LeftSatisfies == arg.left \in arg.sat


Ids(t) == {t[i].id : i \in DOMAIN t}
Unique(t) == \A i, j \in DOMAIN t : t[i].id = t[j].id => i = j
IdsAscend(a) == \A i, j \in DOMAIN a : i < j => a[i].id <= a[j].id

\* If the ids of each table are unique, the join returns every row of both tables in the
\* order of ids, a row of table 1 with the payload of the row of table 2 that has its
\* id; a row of table 1 without such a row keeps a payload that was never set.
JoinMatches ==
  Returned("join") /\ Unique(arg.t1) /\ Unique(arg.t2) =>
    /\ Len(ret.rows) = Len(arg.t1) + Len(arg.t2) /\ IdsAscend(ret.rows)
    /\ \A i \in DOMAIN arg.t1 :
         LET match == {j \in DOMAIN arg.t2 : arg.t2[j].id = arg.t1[i].id}
         IN \E r \in Range(ret.rows) :
              /\ r.tableId = 1 /\ r.id = arg.t1[i].id /\ r.first = arg.t1[i].payload
              /\ r.second \in IF match = {} THEN {Undefined} ELSE {arg.t2[j].payload : j \in match}
    /\ \A j \in DOMAIN arg.t2 : \E r \in Range(ret.rows) :
         r.tableId = 2 /\ r.id = arg.t2[j].id /\ r.second = arg.t2[j].payload

\* The histogram starts with the keys of the input, each once and in order, with the
\* number of times it occurs; all other entries have the count 0.
HistogramCounts ==
  Returned("histogram") =>
    LET keys == Range(arg)
        m == Cardinality(keys)
    IN /\ Len(ret.entries) = Len(arg)
       /\ {ret.entries[i].key : i \in 1 .. m} = keys
       /\ \A i \in 1 .. m : ret.entries[i].count = CountOf(arg, ret.entries[i].key)
       /\ \A i, j \in 1 .. m : i < j => ret.entries[i].key < ret.entries[j].key
       /\ \A i \in m + 1 .. Len(arg) : ret.entries[i].count = 0

\* The events of the starts without an end, for lines of log with a phase each.
Unclosed(lines) ==
  FoldLeft(LAMBDA s, l : CASE l.ph = "B" -> Append(s, l.name)
                           [] l.ph = "E" -> IF s # <<>> /\ Last(s) = l.name THEN Front(s) ELSE Append(s, "unmatched")
                           [] OTHER -> s,
           <<>>, lines)

\* Before state k nothing was switched or reset inside a block.
Undisturbed(k) ==
  \A j \in 1 .. Least(k - 1, Len(arg.ops)) :
    arg.ops[j].op \in {"set", "reset"} => ret.states[j].stack = <<>>
Undivided(k) == \A j \in 1 .. Least(k - 1, Len(arg.ops)) : arg.ops[j] \notin [op : {"set"}, val : {FALSE}] \cup [op : {"reset"}]

\* However blocks are nested, ended early or left, every tracer is measured once and the
\* stack holds the unfinished ones; with nothing switched or reset inside a block, ends
\* in the profile match the innermost start; and the times of all events add up to the
\* time all tracers were open.
TracesNest ==
  Returned("trace") =>
    /\ Last(ret.states).undefined \/ (Last(ret.states).objs = <<>> /\ Last(ret.states).stack = <<>>)
    /\ \A k \in {i \in DOMAIN ret.states : ~ret.states[i].undefined} :
         LET t == ret.states[k]
             open == [i \in DOMAIN t.stack |-> t.objs[t.stack[i]].eventId]
             elapsed == MapThenSumSet(LAMBDA i : t.now - t.objs[t.stack[i]].metadata, DOMAIN t.stack)
         IN /\ t.stack = SelectSeq([i \in DOMAIN t.objs |-> i], LAMBDA i : t.objs[i].eventId # LAST_EVENT)
            /\ Undisturbed(k) => /\ Unclosed(Log_Chrome(t)) = IF t.profiling THEN open ELSE <<>>
                                 /\ \A i \in DOMAIN t.files : Unclosed(t.files[i].lines) = <<>>
            /\ Undivided(k) => MapThenSumSet(LAMBDA e : t.totals[e], EventIds) + elapsed
                                 = MapThenSumSet(LAMBDA j : Len(ret.states[j].stack), 1 .. k - 1)

\* The level, and the bucket in it, of place i of the tree.
RECURSIVE PlaceOf(_, _, _, _)
PlaceOf(i, size, Z, level) ==
  IF i <= size * Z THEN <<level, (i - 1) \div Z>>
  ELSE PlaceOf(i - size * Z, size \div 2, Z, level + 1)

\* How many entries the buckets of a level cannot take: what flows up from the level
\* below, as long as that is not more than half of its size.
RECURSIVE LeftOver(_, _)
LeftOver(level, b) ==
  LET below == IF level = 0 THEN CountOf([i \in 1 .. arg.size |-> arg.entries[i].pos], b)
               ELSE LeftOver(level - 1, 2 * b) + LeftOver(level - 1, 2 * b + 1)
  IN IF below > arg.Z THEN below - arg.Z ELSE 0

Overflows ==
  \E level \in 0 .. GetLogBaseTwo(arg.size) :
    LET size == arg.size \div 2^level
    IN MapThenSumSet(LAMBDA b : LeftOver(level, b), 0 .. size - 1) > size \div 2

\* ORAMInit fills the tree, bottom up: an entry is on the path of its position and there
\* once, and none is dropped unless at some level more entries are left over than the
\* next one takes; a size that is not a power of two is refused.
OramPlaces ==
  Returned("oram") =>
   IF \A b \in 0 .. W : arg.size # 2^b THEN ret.tree = Undefined
   ELSE
    LET real == {i \in DOMAIN ret.tree : ret.tree[i].uid # DummyUid}
    IN /\ Len(ret.tree) = (2 * arg.size - 1) * arg.Z
       /\ \A i \in real : LET p == PlaceOf(i, arg.size, arg.Z, 0)
                           IN ret.tree[i].pos \div 2^p[1] = p[2]
       /\ \A i, j \in real : ret.tree[i].uid = ret.tree[j].uid => i = j
       /\ Overflows \/ {ret.tree[i].uid : i \in real} = 1 .. arg.size

\* The two queries return exactly the rows and the counts of their inputs, and the ORAM
\* tree holds its entries where they will be looked for.
AppsMatch == JoinMatches /\ HistogramCounts /\ OramPlaces

\* getShardByHash gives the hash one of the shards.  If their number divides 2^W - 1, it
\* gives that hash, the largest, the index behind the last shard.
HasShard(m, hash) == getShardByHash(m, hash) < m.numShards

\* Every pair that was read is in one of the routed batches, once, and in a bucket of the
\* shard its hash belongs to if it HasShard, unless a bucket overflowed or an exception
\* was thrown; the bitonic variant leaves a bucket of the same size for every shard, and
\* nothing behind them if all pairs have a shard.
BalancerRoutes ==
  Returned("balance") =>
    LET c == ret.c
        ShardSize == c.parBatchCount * c.bktSize
        At(id) == {<<b, i>> \in (DOMAIN c.routed) \X DOMAIN c.batch :
                     ~c.routed[b][i].isDummy /\ c.routed[b][i].id = id}
        allHave == \A id \in DOMAIN arg.hashes : HasShard(c.map, arg.hashes[id])
    IN /\ c.status = "ok" =>
            \A id \in DOMAIN arg.hashes : \E p \in At(id) :
              /\ At(id) = {p}
              /\ HasShard(c.map, arg.hashes[id]) => p[2] \div ShardSize = getShardByHash(c.map, arg.hashes[id])
       /\ \A b \in DOMAIN ret.bitonic :
            /\ ret.bitonic[b].kept >= 2 * arg.p.shards
            /\ allHave => ret.bitonic[b].kept = 2 * arg.p.shards
            /\ \A i \in 0 .. 2 * arg.p.shards - 1 : ret.bitonic[b].a[i].tag = i \div 2
       /\ factorizeShardCount(ret.suitable) # <<>> /\ ret.suitable <= arg.p.shards
       /\ LET f == factorizeShardCount(arg.p.shards) IN f = <<>> \/ Product(f) = arg.p.shards

\* items are the items of the vector, in the order of their data if they are sorted.
SameItems(items, vec) == Range(items) = Range(vec.items) /\ Len(items) = Len(vec.items)
Ascend(items) == \A i, j \in DOMAIN items : i < j => items[i].data <= items[j].data

\* The vector fits in the heap and is sorted there: nothing is sampled.
SortedInMemory == arg.p.size * arg.p.sizeofT <= arg.p.heap

\* Whichever algorithm a size and a heap select, an entry point returns all elements,
\* sorted if it sorts, in pages with the counter after inAuth, so that the caller can
\* read them with it.  It aborts only if a bucket overflows or the vector was not
\* written with inAuth.  Of a distribution sort that samples, this is said only for an
\* inAuth of 0: CounterOfInput is about the others.  The permuted reader reads every
\* element once.
SortersSort ==
  /\ Returned("sort") =>
       LET Readable1 == arg.vec.external => arg.vec.auth = arg.inAuth
           Auth == IF arg.vec.external THEN arg.inAuth + 1 ELSE arg.vec.auth
           Fine(r) == /\ r.status = "auth" <=> ~Readable1
                      /\ r.status = "overflow" => arg.p.size > Small
                      /\ r.status = "ok" => SameItems(r.vec.items, arg.vec) /\ r.vec.auth = Auth
       IN /\ Fine(ret.sorted) /\ (ret.sorted.status = "ok" => Ascend(ret.sorted.vec.items))
          /\ ret.shuffled # {} /\ \A r \in ret.shuffled : Fine(r)
  /\ Returned("distribute") =>
       LET r == ret.sorted
       IN /\ SortedInMemory \/ arg.inAuth = 0 => (r.status = "auth" <=> arg.vec.auth # arg.inAuth)
          /\ r.status = "overflow" => ~SortedInMemory
          /\ r.status = "ok" => /\ SameItems(r.vec.items, arg.vec) /\ Ascend(r.vec.items)
                                /\ r.vec.auth = arg.inAuth + 1
          /\ ~SortedInMemory => {ret.reads[k].at : k \in 1 .. arg.p.size} = 0 .. arg.p.size - 1

\* KWayDistriSort takes "the authentication counter of the input array": a vector whose
\* pages were written with inAuth passes the authentication of the sort.
CounterOfInput ==
  Returned("distribute") /\ arg.vec.auth = arg.inAuth => ret.sorted.status # "auth"

\* The chunks first .. last follow one another on the disk.
Adjacent(chunks, first, last) ==
  \A i \in first .. last - 1 : chunks[i].offset + chunks[i].size = chunks[i + 1].offset

\* Chunks that follow one another are longer than a page together, though none is alone.
LongerThanPage(chunks) ==
  \E first, last \in DOMAIN chunks :
    /\ first <= last /\ Adjacent(chunks, first, last)
    /\ chunks[last].offset + chunks[last].size - chunks[first].offset > ServerPage

\* A server that merges the adjacent chunks of a batch reads and writes the same bytes
\* as one that takes them one by one, for overlapping chunks too, except that the file
\* server does not read a batch with LongerThanPage chunks: its assertion on the length
\* of a read is for one page.  A mapping that fails leaves no file open.  What is copied
\* to a vector in memory is read back from it, and nothing outside of the range is
\* written.
StoresAgree ==
  /\ Returned("store") =>
       /\ Len(ret.read["memory"]) = Len(Given(arg.chunks))
       /\ ret.read["mapped"] = ret.read["memory"]
       /\ ret.read["file"] = IF LongerThanPage(arg.chunks) THEN Aborted ELSE ret.read["memory"]
       /\ \A kind \in ServerKinds : ret.written[kind] = ret.written["memory"]
       /\ ret.server.openFds # {0} => ret.server.mapped >= 5
  /\ Returned("copy") =>
       LET n == arg.end - arg.begin
       IN /\ ret.size = n /\ ret.read = [i \in 1 .. n |-> i]
          /\ Cardinality({i \in 0 .. 2 : ret.written[i] # 0}) = n
================================================================================
