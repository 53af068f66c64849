# A verification project for oblsort

oblsort is a header-only C++ library that sorts and shuffles, obliviously, more
data than fits in an enclave. It runs in one thread. What makes it hard is
*sharing*: references into a page cache that a later access may recycle, queued
page reads and writes of several vectors that any of them may complete, pages that
are rewritten in rounds under authentication counters, sorters that overwrite the
vector they are reading, and oblivious algorithms whose index arithmetic has to be
right for every size. The repository also carries the sources of an enclave
request server, which several threads enter at once, and of the cryptographic code
and the test runner below it.

This directory models those parts in TLA+. TLC checks them on small instances.
TLAPS proves, for every value of the constants, the results that matter most about
the parts that are state machines.

## The system and its modules

Paths are below `src/osort/` unless they start with `src/`; `ext/` stands for
`src/osort/external_memory/`, `ssl/` for
`src/applications/sorting/Enclave/bearssl/src/`.

| Part | Source | Module | Status |
|---|---|---|---|
| cached vector, direct-mapped cache | `ext/extemvector.hpp`, `ext/server/cached.hpp`, `common/dmcache.hpp` | `CachedVector`, abstract `VectorStore`, loops `BulkCopies`, proofs `CachedVectorProofs`, `BulkCopiesProofs` | modelled, proved |
| LRU cache with TLB | `common/lrucache.hpp` | `LRUCached` | modelled up to the first use of an erased node |
| batched page I/O | `ext/server/batchFrontend.hpp`, `serverBackend.hpp`, `serverFrontend.hpp` | `BatchIO`, proofs `BatchIOInv`, `BatchIOProofs` | modelled, proved |
| block allocator, frontends, dynamic vector | `ext/server/serverAllocator.hpp`, `serverFrontend.hpp`, `serverFrontend_dynamic.hpp`, `common/encrypted.hpp`, `ext/dynamicvector.hpp` | `Allocator`, `Frontends` | modelled |
| untrusted page servers; vectors in memory | `ext/server/enclave*Server_untrusted.hpp`, `ext/stdvector.hpp`, `ext/virtualvector.hpp` | `Servers` | modelled |
| non-cached vector: copies, readers, writers | `ext/noncachedvector.hpp` | `PageVector` (operators), `SequentialIO` (in use) | authenticated build only |
| external merge sort | `ext/algorithm/sort_building_blocks.hpp` | `ExtMergeSort` | up to two layers |
| integer helpers, conditional moves and swaps | `common/utils.hpp`, `common/mov_intrinsics.hpp` | `Utils`, `Intrinsics` | vector instructions by effect |
| bitonic sort and shuffle | `ext/algorithm/bitonic.hpp` | `Bitonic` | modelled |
| bitonic sort on a cached vector | `src/applications/.../sort_test.cpp` | `ExtBitonic` = `CachedVector` + the comparators of `Bitonic`, proofs `ExtBitonicProofs` | modelled, proved |
| compaction, shuffle | `ext/algorithm/or_compact_shuffle.hpp` | `Compaction` | modelled |
| two-way and multi-way building blocks | `ext/algorithm/sort_building_blocks.hpp`, `edge_rec.hpp`, `static_sort.hpp` | `MergeSplit`, `KWay` | modelled |
| flex-way butterfly and distribution sort | `ext/algorithm/kway_butterfly_sort.hpp`, `kway_distri_sort.hpp` | `FlexWay` (networks), `Sorters` (entry points) | modelled |
| parameter selection | `ext/algorithm/param_select.hpp` | `ParamSelect` | probability bounds are inputs |
| bucket sort, Shell sort, Waksman network | `ext/algorithm/ca_bucket_sort.hpp`, `randomized_shell_sort.hpp`, `waks_on_off.hpp` | `BaselineSorts`, `Waksman` | modelled |
| join, histogram, ORAM initialisation, load balancer | `apps/*.hpp` | `Apps`, `LoadBalancer` | modelled over an abstract sort |
| tracing | `common/tracing/` | `Tracing` | without performance counters |
| random numbers, page encryption | `common/encutils.*` | `EncUtils` | modelled |
| enclave request server | `ssl/sgxsd-enclave.c` | `EnclaveServer`, proofs `EnclaveServerInv`, `EnclaveServerSteps`, `EnclaveServerProofs` | modelled, proved |
| hashes, HMAC, generators, AES, GCM | `ssl/bearssl/` | `Digests`, `Ciphers`, `Gcm`; the standards in `MCVendored` | on words of few bits |
| Curve25519 | `ssl/curve25519-donna-c64.c` | `Curve25519` | on limbs of three bits and over a small prime |
| test runner | `ssl/cmockery.c` | `Cmockery` | mocks, checks, results |

Not modelled, and why:

* `apps/kmeans.hpp`: floating-point means; it calls the sorters as the others do.
* The probability bounds of `param_select.hpp`: floating point. The model takes the
  numbers of buckets that satisfy them as an input.
* The headers under `bearssl/include/` and most of `inner.h`: they declare TLS,
  X.509, RSA and curves whose code is not in the repository.
* `LATE_INIT` and unauthenticated builds of the non-cached vector; a merge of three
  or more layers.
* Performance counters, the unused speedscope log, the generated SGX glue, command
  lines and the measuring loops of the enclave's tests.
* Widths of the intermediate products of Curve25519, the S-box of AES (a round is an
  uninterpreted mix of the state and its round key), and the instructions behind
  `obliSwap`.

### How the parts interact

    Bitonic  --comparators-->  ExtBitonic  --accesses-->  CachedVector  --refines-->  VectorStore
                               BulkCopies  --accesses-->  CachedVector
    KWay, MergeSplit, Compaction --what a merge-split does--> FlexWay --> Sorters --> Apps, LoadBalancer
    FlexWay (runs of sorted batches) --ranges--> ExtMergeSort --readers, writer--> PageVector
    SequentialIO --> PageVector --queues--> (BatchIO) --pages--> Frontends --space--> Allocator
    EnclaveServer --keys, seals--> EncUtils --> Gcm, Ciphers, Digests

`ExtBitonic`, `BulkCopies`, `ExtMergeSort` and `Frontends` are true compositions:
they extend the modules whose operations they perform. `FlexWay` replaces the
merge-split by what the properties of `KWay` establish of it, and `Sorters` and
`Apps` replace a sort by its result. `PageVector` keeps of the batching what one
vector sees: queued reads, queued writes, and the rule that a flush of one kind
performs the other first. `BatchIO` shows what happens to the queues when several
frontends share them.

## How state and actions correspond to the code

**CachedVector.** `store` holds the server's pages and `slots` is
`DMCache::data`. `AccessDM(m, p, dirty, skip_read, writeBack)` is the function
of that name. A C++ reference is a pair (slot, offset): `Deref` and `Poke` act on
whatever page the slot holds *when the reference is used*. `Put`, `Get`,
`GetNoWriteBack` and `PutWriteOnly` are the four ways to dereference an iterator;
`CondSwap` obtains two references before it uses either. `defined` and
`forfeited` are history variables: the items that have a specified value, and the
pages whose changes `derefNoWriteBack` has given up.

**BulkCopies.** One step of a loop of `extemvector.hpp` is one access; `task` is the
call under way, with the array it started from (`before`) as history. Between calls
the vector is used in any other way.

**ExtBitonic.** The sorting enclave's program: write, run the comparators, read. A
comparator is two steps, since the comparison and `condSwap` access the cache twice.
The comparators are the constant `Network`, so that the module is free of recursion
and can be proved about; `MCExtBitonic` gives it the comparators of `BitonicSort`.

**LRUCached.** `mem` is a record of the server, the map of cached pages, the LRU
list and the TLB with its counters; the actions are the five operations of
`CachedVector`. A TLB entry knows whether the node it points to still exists, as a
pointer in C++ does not; `fault` records the first use of an erased one, after which
nothing is said.

**BatchIO.** Each frontend has its ring of page slots, `bufferIdx`, `jobCounter`,
`doneCounter`; the backend has two chunk queues for all of them. Actions:
`ReadLazy`, `WriteLazy`, `FlushReads`, `FlushWrites`, and the synchronous `Read`
and `Write`. Guards that are not in the code state what its clients respect (a
buffer is not reused before its read is done; a page with a queued write is not
accessed synchronously). A flush is stated slot by slot and page by page: each gets
what the last chunk for it brings.

**Allocator / Frontends.** The free list and the slots that frontends own:
construct, move, destroy. `Frontends` adds what they do with the bytes: pages with
nonces and counters, default pages, and the copies of the dynamic vector with their
static `item_per_page`.

**PageVector / SequentialIO.** A vector is a record of pages with counters, the
queued writes and reads, and its prefetching readers. `CopyOut`, `CopyIn`,
`NewReader`/`ReaderAtGet`/`Advanced`, `NewWriter`/`WriterAfter`/`VectorAfterFlush`
and the `Lazy` operators are the methods. `SequentialIO` lets a client use them in
any order that the code's callers may produce: rounds of writes front to back, by
chunks or writers, reads of this round and the previous one, and a writer
following a reader. Elements are tokens (position, round), which is sound because
this code only moves elements. `InsidePage` and `EndsWell` state the two
obligations that the code leaves to its callers.

**ExtMergeSort.** One step reads the top of the heap and writes it. `todo` is the
list of merges in the order the recursion performs them; `vecs` holds the output,
the input and `temp`. `temp` is a local of the block that fills it, so readers on
it use a destroyed object: whether its pages are still there is a choice.

**EnclaveServer.** `th[t]` is where thread `t` is and its local variables; a lock is
the word the code has, with no owner in it. What a function reads under a lock and
what it then writes are two steps, so that any other thread comes between them.
Stopping a server erases its descriptor *and the lock in it* while the lock is held,
as the code does. `responses`, `taken` and `replies` are histories of what clients
were told.

**Servers.** One set of operators for the three page servers, which differ in whether
chunks are merged and in the file server's `Assert` on the length of a read. The
assertion aborts, as in a build without `NDEBUG`.

**Algorithms, applications, vendored code.** Operators named after the functions.
The recursive bitonic functions touch elements only at positions that depend on the
size, so they are modelled as the sequence of comparators they run. Random draws are
sets of possible results or inputs. `MCAlgorithms`, `MCApplications` and
`MCVendored` call them on every input within their bounds: a behaviour is one call,
and a property compares the result with a reference definition. `The({e : x \in {v}})`
stands for a local variable `x` with value `v` in `e`: TLC then evaluates `v` once.

## Runs

| Run | Question | Instance |
|---|---|---|
| `cached_vector` | is the vector behind the direct-mapped cache an array, its copy loops included? | four items on two pages, one slot; loops of up to three items |
| `lru_cached` | are TLB entries valid when they are followed? **violated** | three items, two cached pages, two TLB entries |
| `batch_io` | do queued jobs of two vectors survive each other's flushes? | two frontends, two pages, rings of two, queues of two, three jobs |
| `allocator` | is every byte free or owned once, and does every page read back? | five bytes, three frontends of six shapes, two writes |
| `ext_bitonic` | does the network sort through the cache? | seven elements of three keys, three slots |
| `functions` | do the algorithms, the sorters, the parameter search, the applications, servers and tracers do what they say, for every small input? | see below |
| `input_counter` | can the distribution sort sort a vector written with any counter? **violated** | four elements, counter 1 |
| `sequential_io` | do copies, readers and writers of successive rounds agree on counters and contents? | five elements, three pages, two rounds |
| `ext_merge_sort` | does merging sort, with pointers into prefetched pages? | up to six elements in up to five ranges; nine elements in two ranges of three pages; seven or nine elements in batches of eight |
| `ext_merge_two_layers` | do two layers of merging work? **violated** | four elements, `maxWay` 3 |
| `enclave_server` | are requests answered once, with their own secret, and does every call return? | two threads, one server, a table of one request, five ecalls |
| `vendored` | does the vendored code compute what its standards define? | see below |

What the properties say:

* `IsArray`: the vector refines `VectorStore`: every read returns the last
  value written, except for what `derefWriteOnly` and `derefNoWriteBack` give away.
  `CacheConsistent` is the invariant behind it for the direct-mapped cache: dirty
  pages are in place, clean ones agree with the server, given-up ones are still
  cached.
* `EntriesFollowedAreValid` (violated): what the LRU cache's TLB points to exists.
* `BulkExact`: a copy or fill loop moves its items and no others, also next to pages
  it writes without having read them.
* `JobsComplete`: the backend never holds a pointer to a slot that has moved on, and
  a job reported done has filled its buffer with the value in program order.
  `WritesReachServer`: no write is lost or overtaken.
* `SpaceAccountedFor`: no block is owned twice or leaked, the free list is sorted and
  coalesced, and an allocation fails only if no free block is large enough.
  `PagesReadBack`: a page reads as last written with the same counter, or is refused.
* `SwapsExact`: the comparison's result still describes the vector when the swap
  uses it, and no element is lost or doubled. `SortedAtTheEnd`: the result is sorted.
* `ReadsSucceed`, `StoreHoldsContents`: no page is read with the wrong counter, and
  nothing written is lost, whatever pages chunks share.
* `HeapPointsAtData`: no comparison of a merge of the input ranges sees a page whose
  read is queued or which was given to a later page. `LayersSort`: one layer sorts,
  the first of two leaves sorted groups.
* `AnsweredOnce`, `OwnSecret`, `PendingUntilReplaced`, `SecretsFresh`,
  `ExclusiveUntilStopped`: the request server, each stated beside its definition.
  `EveryCallReturns` is the project's liveness property.
* `CounterOfInput` (violated): a distribution sort accepts a vector whose pages have
  the counter `inAuth` it is called with. `SortersSort` states the rest of what the entry
  points promise, and of a distribution sort that samples only for counter 0.
* The remaining ones compare results with reference definitions, one per family of
  functions. Where the code falls short of a comment, the property says what the code
  does there and names the case (`HasShard`, `LeftSatisfies`, `LongerThanPage`,
  `SizeFits`); the cases are listed under *Findings*.

### Fairness

Only `enclave_server` assumes any: each thread that is inside an ecall keeps taking
steps (weak fairness of `Step(t)`), which is what the operating system's scheduler
gives a thread that spins on a lock. A lock need not be granted fairly: with two
threads and a bounded number of ecalls a waiting thread is only overtaken finitely
often. Entering an ecall is never forced. Everywhere else the code is sequential, no
component waits for another one, and a client may stop at any time; termination of
the loops inside an operation is not stated as a property.

### Bounds

* One slot and two pages of two items contain the cases of the copy loops: pages
  covered in full, in part at either end, and every eviction. The sharing of several
  slots is in `ext_bitonic` (three slots), and the theorems cover every geometry.
* `lru_cached` has the default TLB of two entries and a cache of two pages, the least
  with which a TLB hit can keep a page from being the most recently used one.
* In `batch_io` the ring and the queue can both be full and both wrap. A larger
  instance (queues of three, four jobs, 3.2 million states) passes as well.
* In `allocator` five bytes are enough for a freed slot to be split, merged on
  either side and given to another frontend that then reads its former bytes.
* In `sequential_io` the last page is half used, so ranges begin and end inside
  pages; three rounds (2.4 million states) pass as well.
* `ext_merge_sort`: six elements on pages of two are enough for a ring of two
  cached pages to be reused, for five ranges to form two groups, and for groups to
  end on and inside a page. In two ranges of three pages that meet inside a page, both
  readers have a read in the shared queue at once.
* `enclave_server`: a table of one request makes every new request take over the
  slot of the one before; five ecalls are an initialisation, a start, two requests
  and a call, or a stop in their middle. The theorems cover any number of threads,
  servers and slots, and any number of ecalls.
* `functions`, in memory: all 8-bit words; objects whose sizes lie on both sides of
  every chunk boundary; all arrays of up to 6 keys out of 3 and of up to 9 out of 2 (a
  network that sorts every array of two keys sorts all); all marks of up to 9 elements;
  all shuffles of up to 6; all arrangements of real, dummy and marked elements of two
  buckets of up to 2, and of 4 if dummies are unmarked; balanced marks for 3 and 4 ways,
  the first one fixed in longer arrays; all permutations of up to 6; every assignment of
  tags to 3 to 5 elements in five butterfly networks, and all arrays of 4 keys out of 3,
  with every sample of up to 3 elements, in five distribution networks, for two values
  of the uninitialised tag offset.
* `functions`, beyond: permutations of up to 6 with every draw for up to 5 (for 6, some);
  bucket sorts of up to 5 elements, in memory and recursive; Shell sorts of up to 8; all
  bisections of ranges up to 7, with every bound from which the condition holds; tables
  of two rows; six keys; ORAM trees of up to 4 leaves, sizes that are not powers of two
  and are refused included; balancers for 2 to 15 shards, with the largest hash; batches
  of three chunks that merge to more than a page; traced programs of four operations.
* `vendored`: bytes of two bits and words of eight, which keep every carry, sign and
  block boundary; messages around one and two blocks cut anywhere. Limbs are checked
  modulo 2^15 - 3, which has the form of 2^255 - 19 but is not a prime (carries and
  reductions do not need one), the ladder in the field of order 1021, which is. The
  counter-mode generator gets three requests of 8 to 64 bytes in every order, with a new
  key after three blocks of 16; four random numbers of 1, 4 or 8 bytes are drawn in
  every order.

`CHECK_DEADLOCK FALSE` is set where the system really stops: a call has returned,
the sorting program has read its result, an allocation has aborted, the ecalls of a
behaviour are used up.

## Proofs

### The cached vector: `CachedVectorProofs`

For every `N`, `item_per_page`, `cache_size` and set of values:

* `Consistency`: `Spec => []CacheConsistent`
* `Refinement`: `Spec => IsArray`

from two assumptions. `GeometryAssumption` says that the constants are what the
template parameters can be. `SwapsApart` says that two items whose references are
held together are on one page or on pages of different slots. The code never
checks the second; it is what `DMCacheSize` tries to achieve by giving up a slot.

The conjunction `Inv` of the types and the three parts of `CacheConsistent` is
inductive. Each is needed: a page written back must be the one that was modified
(`DirtyInPlace`); a clean page may be dropped only if the server has its items
(`CleanMatchesServer`); and the exception to that, pages given up by
`derefNoWriteBack`, must still be cached and clean, or a later write-back would
bring changes back (`ForfeitedIsCached`). The argument is made once for *an access
to any memory*: `AccessFacts` says what `AccessDM` leaves where; `AccessKeeps` that
it keeps coherence (the invariants, stated of a memory) and every item's view;
`PokeKeeps` the same of a write through a valid reference. One lemma per operation
(`GetStep`, `GetNoWriteBackStep`, `PutStep`, `PutWriteOnlyStep`, `CondSwapStep`)
combines them, the last one with two accesses in a row, which is where
`SwapsApart` is used. `StepRefines` collects them.

### The copy loops: `BulkCopiesProofs`

For every range, buffer and geometry, from `SwapsApart` and `BulkAssumption` (a call
does not copy more than its buffer holds):

* `LoopsAreExact`: `BulkSpec => []BulkExact`
* `LoopsUseTheVector`: `BulkSpec => Spec /\ IsArray /\ []CacheConsistent`. Whatever a
  loop does is an operation of the cached vector, so all that is proved of the vector
  holds while loops run.

`BulkExact` speaks of a call that has returned; `BulkInv` says what holds in its
middle. A loop that stores (`StoringOK`) has stored what it has reached, has left
alone what lies outside its range, and has the page it is in cached: only then does
the write-only access of a page's *next* item not throw away the items before it. A
loop that copies out (`ReadingOK`) has forfeited no page of the items ahead but the one
it is in. The arithmetic is in `WriteOnlyBegins` and `WriteOnlyCovers`: where the code's
comparison of page boundaries selects `derefWriteOnly`, the range covers the whole page.

### Sorting through the cache: `ExtBitonicProofs`

For every number of elements, size of page and cache, and every list of comparators
that satisfies `SwapsApart`:

* `ExactSwaps`: `Program => []SwapsExact`
* `FollowsNetwork`: when writing has ended the vector holds, behind its cache, what the
  comparators finished so far make of the written elements in memory.
* `SortsThroughCache`: if the comparators sort every array in memory
  (`NetworkSorts`), then `Program => []SortedAtTheEnd`.

`NetworkSorts` is a statement about arrays, without a cache in it. The prover has no
induction with which to show it of `BitonicSort` for every size; `functions` checks
it for every array of two keys of up to 9 elements, and so for all arrays that long.
The invariant `ProgInv` adds to the vector's own that nothing is forfeited, that the
vector is a permutation of the input, and that the flag computed by a comparison still
describes the two elements that the swap will exchange.

### Batched page I/O: `BatchIOInv`, `BatchIOProofs`

For any set of frontends, pages, values and buffers, and any capacity of the rings and
queues that a page fits in (`BatchAssumption`):

* `JobsAlwaysComplete`: `Spec => []JobsComplete`
* `WritesAlwaysReachServer`: `Spec => []WritesReachServer`

Neither property is inductive. The invariant `Good(s, C, T, X)` is stated of a system
record `s`, so that it can be shown of the states *inside* an operation, which flushes,
frees a slot, marks it pending and queues a chunk in turn. `X` is the slot that a lazy
call has marked pending and not yet queued; between operations it is empty. Its parts:

* `ReadsPoint`, `WritesPoint`, `OneEach`, `PendingWaits`: chunks and pending slots
  correspond one to one, and a chunk is in the queue of its frontend's mode. That is
  what makes one backend flush enough for the `Assert`s of the frontends' loops, and
  what keeps a flush by another frontend from touching a slot that has moved on.
* `ReadsComing`: a slot in use of a reading frontend holds, or waits for, the value its
  read must yield, and its job is not yet reported done. It depends on no other
  frontend's writes, and needs that a page with a queued read is not written
  synchronously.
* `Separate`, `Delivered`: no two slots fill one buffer, and a buffer that does not hold
  its value has a slot that will. From it and `ReadsComing` follows that a done read
  has been delivered, although slots are decrypted out of order when the ring wraps.
* `Kept`, `Untouched`: the last queued write of a page, or the server's copy, is the
  page of program order, except for the page of the slot in `X`.
* `Fits`: the queues are within their capacities, also right after a flush on overflow.

`BatchIOInv` shows that the pieces keep it: the backend's flushes (`FlushReadGood`,
`FlushWriteGood`), delivering slots (`DecryptGood`), freeing them (`SettleGood`) and the
frontends' flush loops. `BatchIOProofs` composes them into the lazy calls
(`PendReadGood` and `PendWriteGood` put a slot into `X`, `ReadLazyGood` and
`WriteLazyGood` take it out), treats the synchronous calls, and draws the conclusions.
The flushes are stated by what they leave in each slot and page (the last chunk
for it), not as a fold over the queue, so that no induction over the queue is needed.
`LastOf`, that a set of positions has a last one, is derived from the well-foundedness
of strict inclusion on finite sets.

### The request server: `EnclaveServerInv`, `EnclaveServerSteps`, `EnclaveServerProofs`

For any set of threads and of servers, any size of the table of pending requests and
any number of ecalls: `AnsweredAtMostOnce`, `SecretIsOwn`, `StaysPending`,
`SecretsAreFresh` and `ServerExclusive` state that `AnsweredOnce`, `OwnSecret`,
`PendingUntilReplaced`, `SecretsFresh` and `ExclusiveUntilStopped` always hold.

The assumptions are the table's (its size is positive, `TableAssumption`) and that a
server's handle is none of the names of the global locks (`HandleAssumption`).
The inductive invariant `IInv` is the conjunction of

* `TypeOK`, `FiniteGhosts`, and `Flow`: which places belong to which function;
* `RandLock`, `TableLock`, `ServerLock`: who is at a place under a lock holds it
  alone. For a server's lock this is only claimed until the server is stopped,
  because stopping erases the lock word itself;
* what the table says of the requests: `Entries`, `TakenGone`, `TakenOnce`, `Issued`;
* what a thread between two steps relies on: `Adding` (its new id is used nowhere
  else), `Looking`, `FoundInTable`, `Handling`, `Replied`;
* `Drawn`, `Known`: secrets come from keys that were drawn, each used once;
* the properties `OwnSecret` and `PendingUntilReplaced`.

`AnsweredOnce` is not inductive without `FoundInTable` and `TakenGone`: that a
request found under the lock is still the one removed after it has been read is
exactly what the lock is for. `EnclaveServerInv` shows what a step does to the locals of
the thread that takes it, `EnclaveServerSteps` what it does to the locks, the
histories and the calls in progress, `EnclaveServerProofs` treats the table and
the secrets and draws the conclusions.

### What stays with TLC

* `EveryCallReturns`: liveness under fairness is out of the prover's reach.
* What the algorithms compute (`functions`, `vendored`, and with them
  `NetworkSorts` of `BitonicSort`): these are recursive definitions and folds over
  data, and the prover has no usable induction over data. The modules use `RECURSIVE`
  operators, with which it loses its SMT backend altogether.
* `SequentialIO`, `ExtMergeSort`: the copies and flushes of `PageVector` are folds over
  sequences of pages, whose effect on every element would need the same induction.
* `Allocator`, `Frontends`: the loops that insert into the free list and coalesce it are
  folds that carry a slot along the list; what they leave for a list of any length is
  again an induction over the list.


## Findings

`ext_merge_two_layers` shows a disagreement between the code and its documentation.
`ExtMergeSort` "only supports up to two layers"; the readers of its second layer use
the local vector of a block that has ended (`sort_building_blocks.hpp:632`), and the
run shows a call of four elements that fails for that reason. With five elements a
group can end inside a page, and already the first layer then reads a page of that
vector that was never written; this shows when `MaxN` is raised to 5.

`lru_cached` shows that the TLB of the LRU cache follows dangling pointers. A counter
other than 0 is to say that an entry is valid (`lrucache.hpp:22`), but eviction erases
the node of a page (117) and leaves its entry alone, and a hit in the TLB does not move
the page in the LRU list. With the default two entries, three operations are enough.
The LRU cache is not the default.

`input_counter` shows that `KWayDistriSort` does not use "the authentication counter of
the input array" (`kway_distri_sort.hpp:21`) for its samples: their reader is built
without one (213), and a vector written with counter 1 fails authentication.

Other things met while modelling. Each is in the model, and the property that meets it
says what the code does; or it is excluded by a condition that names it:

* **One-slot cache.** The enclave gives `UNOPTBITONICSORT` a cache of one page
  (`sort_test.cpp:66`); both references of `condSwap` are then the same. This is what
  the assumption `SwapsApart` excludes.
* **`partitionDummy`** without any dummy returns an end that is one short of what its
  comment says (`sort_building_blocks.hpp:586`, 592). `MergeSplits` leaves that case out.
* **Merge-splits** call `std::abort()` when a bucket overflows
  (`sort_building_blocks.hpp:368`, 457, 535), while the load balancer catches an
  exception (`load_balancer.hpp:312`). `getShardByHash` returns `shardCount` for the
  largest hash if `shardCount` divides it (3, 5, 15, 17..., line 213): the pair is
  routed to shard 0, and the bitonic variant keeps it behind the shards. An initial size
  of 0 divides by zero (395); `inited` is never set (363), `load` never reset (285); the
  bitonic initialisation may drop elements (566).
* **Parameters.** `lowerBound` need not test its left end, and returns the value after
  it where its comment promises "the smallest value in the range [left, right)"
  (`param_select.hpp:119`); `M0` wraps for very small heaps (393); the search does not
  end if the largest option exceeds what fits in memory.
* **Distribution sort.** `inputCount` is not initialised (`kway_distri_sort.hpp:278`);
  with more than one cached page `getLastIdx` combines the page fetched last with the
  place read last (130), which is the place of another element. Nothing is claimed of it.
* **File server.** Its `Assert(length <= 4096)` (`enclaveFileServer_untrusted.hpp:22`)
  fails on chunks that were merged to more than a page; with `NDEBUG` it is compiled
  out. `StoresAgree` expects the abort of `LongerThanPage` batches.
* **Cached vector.** A slot that was never filled counts as page 0: what an unwritten item
  of that page reads as is left open.
* **Merge sort, copies.** What `EndsWell` and `InsidePage` exclude (two writers of one
  round that meet inside a page, a second copy into one page) loses elements or aborts
  (`noncachedvector.hpp:452`, 542).
* **Request server.** After a stop the erased lock lets a second thread in
  (`sgxsd-enclave.c:852`): exclusion is claimed until then.
* **Dynamic vector.** `item_per_page` in `CopyIn` is a static local
  (`dynamicvector.hpp:217`): vectors of one type with different page sizes copy with
  the first one's.
* **Bucket sort.** The writer of `CABucketShuffleInternal` is not flushed
  (`ca_bucket_sort.hpp:202`); the model describes what is written, not its last page.
* **Applications.** A join keeps one row per key and table; a histogram of no keys
  writes past its end; ORAM initialisation drops what does not fit without a word.
* **Allocator.** `Allocate(0)` aborts on a full server; `fisherYatesShuffle` of an
  empty range wraps (`utils.hpp:112`).
* **Mapped server.** A local `fd` shadows the global one that is closed later, and the
  mapping is undone with the number of pages instead of bytes
  (`enclaveMmapFileServer_untrusted.hpp:21`, 95, 98).
* **Tracing.** Switching or resetting the profiler inside a block leaves unmatched
  ends; the depth of the stack is only asserted.
* **Vendored code.** cmockery's `expect_set` never stores the size of its set (904 to
  922), which the comparison then reads uninitialised, although a set is checked against
  all its values (925, 936): `TestsReported` claims its verdict where that value fits
  (`SizeFits`). A run in counter mode counts only full blocks, so after a request to the
  generator that ends inside a block the next one starts with that block. A failed
  test's blocks stay allocated and end the run (1771), and a failed setup does not skip
  its test (1685); a comment of `aesctr_drbg.c` names another initial value (113) than
  the code sets (142).

## Plan

1. `PageVector` restated page by page, as `BatchIO` is, so that `SequentialIO` and
   `ExtMergeSort` (`HeapPointsAtData`) can be proved without induction over data.
2. An abstract lazy page store that `BatchIO` refines, and `PageVector` on top of it,
   so that `SequentialIO` inherits the interleaving with other vectors.
