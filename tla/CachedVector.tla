----------------------------- MODULE CachedVector ------------------------------
(***************************************************************************)
(* EM::ExtVector::Vector over CACHE::Cached<DMCache>: pages live in the    *)
(* untrusted server, a direct-mapped cache in the enclave holds one page   *)
(* per slot, and every dereference of an iterator goes through AccessDM.   *)
(*                                                                         *)
(* AccessDM returns a C++ reference into the slot, so a reference stays a  *)
(* (slot, offset) pair: Deref and Poke act on whatever page the slot holds *)
(* when they are used, not on the page the reference was asked for.        *)
(*                                                                         *)
(* The server frontend's Read and Write (always with counter 0 here) are   *)
(* synchronous and return what was written; encryption is left out.        *)
(***************************************************************************)
EXTENDS Integers, FiniteSets

CONSTANTS
  N,               \* Vector::N, the number of items
  item_per_page,   \* items held by one page
  cache_size,      \* the vector's cache_size template parameter
  Values,          \* what an item may hold
  Unspecified,     \* marks an item without a specified value
  ZeroVal,         \* an item of a value-initialised page
  defaultVal,      \* what the constructor fills the server's pages with
  SwapPairs        \* the pairs <<i, j>> the client may swap

ASSUME GeometryAssumption ==
  /\ N \in Nat
  /\ item_per_page \in Nat \ {0}
  /\ cache_size \in Nat \ {0}
  /\ ZeroVal \in Values
  /\ defaultVal \in Values
  /\ Unspecified \notin Values
  /\ SwapPairs \subseteq (0 .. N - 1) \X (0 .. N - 1)

VARIABLES
  store,      \* the server's pages
  slots,      \* DMCache::data
  out,        \* what the last operation returned, if it read an item
  defined,    \* history: the items whose value is specified
  forfeited   \* history: pages read with derefNoWriteBack while dirty

vars == <<store, slots, out, defined, forfeited>>

--------------------------------------------------------------------------------
(* Geometry *)

Items == 0 .. N - 1
Pages == 0 .. N \div item_per_page
Offsets == 0 .. item_per_page - 1

PageOf(i) == i \div item_per_page
OffsetOf(i) == i % item_per_page
ItemsOf(p) == {i \in Items : PageOf(i) = p}

\* n = GetNextPowerOfTwo(n), for n > 0.
IsPowerOfTwo(n) == \E k \in 0 .. n : 2^k = n

\* Mutant of DMCacheSize: every slot is used.
AllSlots == cache_size

\* Power-of-two cache sizes lose a slot, so that pages a power of two apart
\* do not share one.
DMCacheSize ==
  IF ~IsPowerOfTwo(cache_size) THEN cache_size
  ELSE IF cache_size - 1 > 1 THEN cache_size - 1 ELSE 1

SlotIds == 0 .. DMCacheSize - 1
GetMappedSlot(p) == p % DMCacheSize

\* The references to items i and j stay valid together.
Apart(i, j) ==
  PageOf(i) = PageOf(j) \/ GetMappedSlot(PageOf(i)) # GetMappedSlot(PageOf(j))

\* What condSwap silently requires of its callers.
SwapsApart == \A s \in SwapPairs : Apart(s[1], s[2])

Page == [Offsets -> Values]
CacheEntry == [val : Page, idx : Pages, dirty : BOOLEAN]
Memory == [store : [Pages -> Page], slots : [SlotIds -> CacheEntry]]

--------------------------------------------------------------------------------
(* Cached::AccessDM and the references it returns *)

\* Mutant of WriteBack: the victim is written to the page being fetched.
WriteBackToFetched(m, p) ==
  LET e == m.slots[GetMappedSlot(p)]
  IN IF e.idx # p /\ e.dirty THEN [m.store EXCEPT ![p] = e.val] ELSE m.store

\* The server after the slot's page is written back, if it has to be.
WriteBack(m, p) ==
  LET e == m.slots[GetMappedSlot(p)]
  IN IF e.idx # p /\ e.dirty THEN [m.store EXCEPT ![e.idx] = e.val] ELSE m.store

\* The slot once it is assigned to page p.
Fetch(m, p, skip_read) ==
  LET e == m.slots[GetMappedSlot(p)]
  IN IF e.idx = p THEN e
     ELSE IF skip_read THEN [e EXCEPT !.idx = p]
     ELSE [val |-> WriteBack(m, p)[p], idx |-> p, dirty |-> FALSE]

\* Mutant of AccessDM: a read marks the page clean.
AccessDMForgetsDirty(m, p, dirty, skip_read, writeBack) ==
  LET e == Fetch(m, p, skip_read)
  IN [store |-> WriteBack(m, p),
      slots |-> [m.slots EXCEPT ![GetMappedSlot(p)] =
                   [val |-> e.val, idx |-> e.idx, dirty |-> dirty /\ writeBack]]]

AccessDM(m, p, dirty, skip_read, writeBack) ==
  LET e == Fetch(m, p, skip_read)
  IN [store |-> WriteBack(m, p),
      slots |-> [m.slots EXCEPT ![GetMappedSlot(p)] =
                   [val |-> e.val, idx |-> e.idx,
                    dirty |-> (e.dirty \/ dirty) /\ writeBack]]]

Access(m, p) == AccessDM(m, p, TRUE, FALSE, TRUE)
AccessReadOnly(m, p) == AccessDM(m, p, FALSE, FALSE, TRUE)
AccessNoWriteBack(m, p) == AccessDM(m, p, FALSE, FALSE, FALSE)
AccessWriteOnly(m, p) == AccessDM(m, p, TRUE, TRUE, TRUE)

\* Reading and writing through the reference obtained for item i.
Deref(m, i) == m.slots[GetMappedSlot(PageOf(i))].val[OffsetOf(i)]
Poke(m, i, v) ==
  LET e == m.slots[GetMappedSlot(PageOf(i))]
  IN [store |-> m.store,
      slots |-> [m.slots EXCEPT ![GetMappedSlot(PageOf(i))] =
                   [val |-> [e.val EXCEPT ![OffsetOf(i)] = v],
                    idx |-> e.idx, dirty |-> e.dirty]]]

--------------------------------------------------------------------------------
(* Operations *)

Mem == [store |-> store, slots |-> slots]

Becomes(m) == store' = m.store /\ slots' = m.slots

Hit(m, p) == m.slots[GetMappedSlot(p)].idx = p

\* The page an access to p pushes out of its slot.  (A slot never used so far
\* has idx 0, but only slot 0 can hold page 0.)
Evicted(m, p) ==
  {q \in Pages : /\ q = m.slots[GetMappedSlot(p)].idx
                 /\ GetMappedSlot(q) = GetMappedSlot(p)} \ {p}

\* Items whose changes are forgotten when the pages in P leave the cache.
Forgotten(P) == {i \in Items : PageOf(i) \in P \cap forfeited}

Init ==
  /\ store = [p \in Pages |-> [o \in Offsets |-> defaultVal]]
  /\ slots = [s \in SlotIds |->
                [val |-> [o \in Offsets |-> ZeroVal], idx |-> 0, dirty |-> FALSE]]
  /\ out = [item |-> -1]
  /\ defined = {}
  /\ forfeited = {}

\* *it = v, At(i) = v, Writer::write(v)
Put(i, v) ==
  LET p == PageOf(i)
  IN /\ Becomes(Poke(Access(Mem, p), i, v))
     /\ defined' = (defined \ Forgotten(Evicted(Mem, p))) \cup {i}
     /\ forfeited' = forfeited \ (Evicted(Mem, p) \cup {p})
     /\ out' = [item |-> -1]

\* Get(i), dereference of a const iterator, Reader::get
Get(i) ==
  LET p == PageOf(i)
      m == AccessReadOnly(Mem, p)
  IN /\ Becomes(m)
     /\ out' = [item |-> i, val |-> Deref(m, i)]
     /\ defined' = defined \ Forgotten(Evicted(Mem, p))
     /\ forfeited' = forfeited \ Evicted(Mem, p)

\* derefNoWriteBack: the page's changes so far are given up.
GetNoWriteBack(i) ==
  LET p == PageOf(i)
      m == AccessNoWriteBack(Mem, p)
      e == slots[GetMappedSlot(p)]
  IN /\ Becomes(m)
     /\ out' = [item |-> i, val |-> Deref(m, i)]
     /\ defined' = defined \ Forgotten(Evicted(Mem, p))
     /\ forfeited' = (forfeited \ Evicted(Mem, p))
                       \cup (IF e.idx = p /\ e.dirty THEN {p} ELSE {})

\* derefWriteOnly() = v, AtForLateInit(i) = v: a miss does not read the page.
PutWriteOnly(i, v) ==
  LET p == PageOf(i)
  IN /\ Becomes(Poke(AccessWriteOnly(Mem, p), i, v))
     /\ defined' = (defined \ (Forgotten(Evicted(Mem, p))
                      \cup (IF Hit(Mem, p) THEN {} ELSE ItemsOf(p)))) \cup {i}
     /\ forfeited' = forfeited \ (Evicted(Mem, p) \cup {p})
     /\ out' = [item |-> -1]

\* condSwap(c, *a, *b): both references are obtained, a's first, then used.
SwapThrough(i, j, c) ==
  LET m == Access(Access(Mem, PageOf(i)), PageOf(j))
  IN IF c THEN Poke(Poke(m, i, Deref(m, j)), j, Deref(m, i)) ELSE m

CondSwap(i, j, c) ==
  LET gone == Evicted(Mem, PageOf(i)) \cup Evicted(Mem, PageOf(j))
      kept == defined \ Forgotten(gone)
  IN /\ Becomes(SwapThrough(i, j, c))
     /\ defined' = IF ~c THEN kept
                   ELSE {k \in Items : \/ k = i /\ j \in kept
                                       \/ k = j /\ i \in kept
                                       \/ k \notin {i, j} /\ k \in kept}
     /\ forfeited' = forfeited \ (gone \cup {PageOf(i), PageOf(j)})
     /\ out' = [item |-> -1]

Next ==
  \/ \E i \in Items :
       \/ \E v \in Values : Put(i, v) \/ PutWriteOnly(i, v)
       \/ Get(i)
       \/ GetNoWriteBack(i)
  \/ \E s \in SwapPairs, c \in BOOLEAN : CondSwap(s[1], s[2], c)

Spec == Init /\ [][Next]_vars

--------------------------------------------------------------------------------
(* Properties *)

\* Every page, slot and history variable has its type.
TypeOK ==
  /\ store \in [Pages -> Page]
  /\ slots \in [SlotIds -> CacheEntry]
  /\ out \in [item : {-1}] \cup [item : Items, val : Values]
  /\ defined \in SUBSET Items
  /\ forfeited \in SUBSET Pages

\* A page that is to be written back is in the slot it maps to: AccessDM never
\* marks dirty a slot whose idx belongs to another slot, so no write-back can
\* land on a page that was not the one modified.
DirtyInPlace ==
  \A s \in SlotIds : slots[s].dirty => GetMappedSlot(slots[s].idx) = s

\* No update is lost when a clean page is dropped: the specified items of a page
\* that is cached clean, and was not read with derefNoWriteBack while dirty, have
\* the same value in the slot and on the server.
CleanMatchesServer ==
  \A i \in defined :
    LET p == PageOf(i)
        e == slots[GetMappedSlot(p)]
    IN e.idx = p /\ ~e.dirty /\ p \notin forfeited
         => e.val[OffsetOf(i)] = store[p][OffsetOf(i)]

\* A page given up by derefNoWriteBack is still cached, and clean: what is lost
\* is lost only when another page takes its slot.
ForfeitedIsCached ==
  \A p \in forfeited : Hit(Mem, p) /\ ~slots[GetMappedSlot(p)].dirty

\* What AccessDM maintains of its slots, so that a page can be dropped or written back
\* at any access: dirty pages are in the slot they map to, clean ones agree with the
\* server, and what derefNoWriteBack gave up is still there.
CacheConsistent == DirtyInPlace /\ CleanMatchesServer /\ ForfeitedIsCached

\* The value of item i seen through the cache.
View(m, i) ==
  LET e == m.slots[GetMappedSlot(PageOf(i))]
  IN IF e.idx = PageOf(i) THEN e.val[OffsetOf(i)] ELSE m.store[PageOf(i)][OffsetOf(i)]

AsArray == [i \in Items |-> IF i \in defined THEN View(Mem, i) ELSE Unspecified]

Array == INSTANCE VectorStore WITH mem <- AsArray

\* Behind its cache the vector is an array: every read returns the last value
\* written to the item, through any sequence of hits, misses, write-backs, swaps
\* and write-only or no-write-back accesses.
IsArray == Array!Spec
================================================================================
