-------------------------- MODULE CachedVectorProofs ---------------------------
(***************************************************************************)
(* For every vector length, page size, cache size and set of values, the   *)
(* cached vector is an array (CachedVector!IsArray), provided the client   *)
(* swaps only pairs whose pages do not compete for a slot (SwapsApart).    *)
(***************************************************************************)
EXTENDS CachedVector, TLAPS

(***************************************************************************)
(* Geometry                                                                *)
(***************************************************************************)

\* The cache always has a slot, whatever the cache_size parameter.
LEMMA DMCacheSizePositive == DMCacheSize \in Nat \ {0}
  BY GeometryAssumption DEF DMCacheSize

\* Every page maps to a slot (DMCache::GetMappedSlot stays within data).
LEMMA MappedSlotInRange ==
  ASSUME NEW p \in Pages
  PROVE  GetMappedSlot(p) \in SlotIds
<1>1. p \in Nat
  BY GeometryAssumption DEF Pages
<1> QED
  BY <1>1, DMCacheSizePositive DEF GetMappedSlot, SlotIds

\* Every item has a page and an offset in it.
LEMMA ItemInPage ==
  ASSUME NEW i \in Items
  PROVE  PageOf(i) \in Pages /\ OffsetOf(i) \in Offsets
<1>1. i \in Nat /\ i <= N /\ N \in Nat /\ item_per_page \in Nat \ {0}
  BY GeometryAssumption DEF Items
<1>2. i \div item_per_page \in 0 .. N \div item_per_page
  BY <1>1
<1>3. i % item_per_page \in 0 .. item_per_page - 1
  BY <1>1
<1> QED
  BY <1>2, <1>3 DEF PageOf, OffsetOf, Pages, Offsets

\* Page and offset determine the item.
LEMMA SameItem ==
  ASSUME NEW i \in Items, NEW j \in Items,
         PageOf(i) = PageOf(j), OffsetOf(i) = OffsetOf(j)
  PROVE  i = j
<1>1. i \in Nat /\ j \in Nat /\ item_per_page \in Nat \ {0}
  BY GeometryAssumption DEF Items
<1>2. i = item_per_page * (i \div item_per_page) + (i % item_per_page)
  BY <1>1
<1>3. j = item_per_page * (j \div item_per_page) + (j % item_per_page)
  BY <1>1
<1> QED
  BY <1>2, <1>3 DEF PageOf, OffsetOf

(***************************************************************************)
(* One access to the cache, on any memory m                                *)
(***************************************************************************)

\* What AccessDM leaves in the accessed slot, the other slots and the server:
\* a is the memory after the access, e the entry that was in p's slot.
Accessed(m, a, p, e, dirty, skip, wb) ==
  /\ a \in Memory
  /\ a.slots[GetMappedSlot(p)].idx = p
  /\ \A t \in SlotIds \ {GetMappedSlot(p)} : a.slots[t] = m.slots[t]
  /\ e.idx = p => /\ a.store = m.store
                  /\ a.slots[GetMappedSlot(p)].val = e.val
                  /\ a.slots[GetMappedSlot(p)].dirty = ((e.dirty \/ dirty) /\ wb)
  /\ e.idx # p => /\ \A q \in Pages :
                       a.store[q] = IF e.dirty /\ q = e.idx THEN e.val ELSE m.store[q]
                  /\ ~skip => /\ a.slots[GetMappedSlot(p)].val = m.store[p]
                              /\ a.slots[GetMappedSlot(p)].dirty = (dirty /\ wb)
                  /\ skip => a.slots[GetMappedSlot(p)].dirty = ((e.dirty \/ dirty) /\ wb)

\* AccessDM does what Accessed says.
LEMMA AccessFacts ==
  ASSUME NEW m \in Memory, NEW p \in Pages,
         NEW dirty \in BOOLEAN, NEW skip \in BOOLEAN, NEW wb \in BOOLEAN
  PROVE  Accessed(m, AccessDM(m, p, dirty, skip, wb), p,
                  m.slots[GetMappedSlot(p)], dirty, skip, wb)
<1> DEFINE e == m.slots[GetMappedSlot(p)]
           a == AccessDM(m, p, dirty, skip, wb)
<1> DEFINE s == GetMappedSlot(p)
<1>1. s \in SlotIds
  BY MappedSlotInRange
<1>2. /\ e \in CacheEntry /\ m.slots \in [SlotIds -> CacheEntry]
      /\ m.store \in [Pages -> Page]
  BY <1>1 DEF Memory
<1>3. e.idx \in Pages /\ e.val \in Page /\ e.dirty \in BOOLEAN
  BY <1>2 DEF CacheEntry
<1> DEFINE w == WriteBack(m, p)
           f == Fetch(m, p, skip)
<1>4. /\ w \in [Pages -> Page]
      /\ \A q \in Pages :
           w[q] = IF e.idx # p /\ e.dirty /\ q = e.idx THEN e.val ELSE m.store[q]
  BY <1>2, <1>3 DEF WriteBack
<1>5. /\ f.idx = p /\ f.val \in Page /\ f.dirty \in BOOLEAN
      /\ e.idx = p => f.val = e.val /\ f.dirty = e.dirty
      /\ e.idx # p /\ ~skip => f.val = m.store[p] /\ f.dirty = FALSE
      /\ e.idx # p /\ skip => f.val = e.val /\ f.dirty = e.dirty
  BY <1>2, <1>3, <1>4 DEF Fetch, CacheEntry
<1> DEFINE g == [val |-> f.val, idx |-> f.idx, dirty |-> (f.dirty \/ dirty) /\ wb]
<1>6. a = [store |-> w, slots |-> [m.slots EXCEPT ![s] = g]]
  BY DEF AccessDM
<1>7. g \in CacheEntry /\ g.idx = p /\ g.val = f.val /\ g.dirty = ((f.dirty \/ dirty) /\ wb)
  BY <1>5 DEF CacheEntry
<1>8. /\ a.store = w
      /\ a.slots \in [SlotIds -> CacheEntry]
      /\ a.slots[s] = g
      /\ \A t \in SlotIds \ {s} : a.slots[t] = m.slots[t]
  BY <1>1, <1>2, <1>6, <1>7
<1>9. a \in Memory
  BY <1>4, <1>6, <1>8 DEF Memory
<1>10. e.idx = p => a.store = m.store
  BY <1>8 DEF WriteBack
<1> QED
  BY <1>4, <1>5, <1>7, <1>8, <1>9, <1>10 DEF Accessed

\* Writing through a reference changes one item of one slot.
Poked(m, b, i, v) ==
  /\ b \in Memory
  /\ b.store = m.store
  /\ \A t \in SlotIds \ {GetMappedSlot(PageOf(i))} : b.slots[t] = m.slots[t]
  /\ b.slots[GetMappedSlot(PageOf(i))].idx = m.slots[GetMappedSlot(PageOf(i))].idx
  /\ b.slots[GetMappedSlot(PageOf(i))].dirty = m.slots[GetMappedSlot(PageOf(i))].dirty
  /\ \A o \in Offsets :
       b.slots[GetMappedSlot(PageOf(i))].val[o] =
         IF o = OffsetOf(i) THEN v ELSE m.slots[GetMappedSlot(PageOf(i))].val[o]

\* Poke does what Poked says.
LEMMA PokeFacts ==
  ASSUME NEW m \in Memory, NEW i \in Items, NEW v \in Values
  PROVE  Poked(m, Poke(m, i, v), i, v)
<1> DEFINE s == GetMappedSlot(PageOf(i))
           b == Poke(m, i, v)
<1>1. s \in SlotIds /\ OffsetOf(i) \in Offsets
  BY ItemInPage, MappedSlotInRange
<1>2. /\ m.slots \in [SlotIds -> CacheEntry] /\ m.store \in [Pages -> Page]
      /\ m.slots[s] \in CacheEntry
  BY <1>1 DEF Memory
<1> DEFINE e == m.slots[s]
           g == [val |-> [e.val EXCEPT ![OffsetOf(i)] = v], idx |-> e.idx, dirty |-> e.dirty]
<1>3. e.val \in [Offsets -> Values] /\ e.idx \in Pages /\ e.dirty \in BOOLEAN
  BY <1>2 DEF CacheEntry, Page
<1>4. /\ g.val \in [Offsets -> Values] /\ g.idx = e.idx /\ g.dirty = e.dirty
      /\ \A o \in Offsets : g.val[o] = IF o = OffsetOf(i) THEN v ELSE e.val[o]
  BY <1>1, <1>3
<1>5. g \in CacheEntry
  BY <1>3, <1>4 DEF CacheEntry, Page
<1>6. b = [store |-> m.store, slots |-> [m.slots EXCEPT ![s] = g]]
  BY DEF Poke
<1>7. /\ b.store = m.store /\ b.slots \in [SlotIds -> CacheEntry] /\ b.slots[s] = g
      /\ \A t \in SlotIds \ {s} : b.slots[t] = m.slots[t]
  BY <1>1, <1>2, <1>5, <1>6
<1>8. b \in Memory
  BY <1>2, <1>6, <1>7 DEF Memory
<1> QED
  BY <1>4, <1>7, <1>8 DEF Poked

(***************************************************************************)
(* Coherence: what the three cache invariants say of any memory m, with    *)
(* the items D specified and the pages F forfeited.                        *)
(***************************************************************************)

InPlace(m) ==
  \A s \in SlotIds : m.slots[s].dirty => GetMappedSlot(m.slots[s].idx) = s

CleanMatches(m, D, F) ==
  \A i \in D :
    /\ m.slots[GetMappedSlot(PageOf(i))].idx = PageOf(i)
    /\ ~m.slots[GetMappedSlot(PageOf(i))].dirty
    /\ PageOf(i) \notin F
    => m.slots[GetMappedSlot(PageOf(i))].val[OffsetOf(i)] = m.store[PageOf(i)][OffsetOf(i)]

ForfeitedCached(m, F) ==
  \A p \in F : Hit(m, p) /\ ~m.slots[GetMappedSlot(p)].dirty

Coherent(m, D, F) == InPlace(m) /\ CleanMatches(m, D, F) /\ ForfeitedCached(m, F)

\* Memories a and m show the items of D alike.
SameView(a, m, D) == \A k \in D : View(a, k) = View(m, k)

\* The history of an access: out of the specified items D and the forfeited pages
\* F of memory m, D3 and F3 remain in memory a.  A forfeited page that is evicted
\* takes its items with it; the accessed page is forfeited only when clean, and
\* is clean but not forfeited only when its slot was.
Bookkeeping(m, a, p, skip, D, F, D3, F3) ==
  /\ D3 \in SUBSET D /\ F3 \in SUBSET Pages
  /\ \A k \in D3 : /\ ~(PageOf(k) \in Evicted(m, p) /\ PageOf(k) \in F)
                   /\ skip /\ ~Hit(m, p) => PageOf(k) # p
  /\ \A q \in Pages \ {p} : q \in F3 <=> q \in F /\ q \notin Evicted(m, p)
  /\ skip => a.slots[GetMappedSlot(p)].dirty
  /\ p \in F3 => ~a.slots[GetMappedSlot(p)].dirty
  /\ p \notin F3 /\ ~a.slots[GetMappedSlot(p)].dirty /\ Hit(m, p)
       => p \notin F /\ ~m.slots[GetMappedSlot(p)].dirty

\* An access keeps the memory coherent and shows every item, except those it
\* forgets, unchanged.  DirtyInPlace is what makes the write-back harmless to
\* the pages of other slots.
LEMMA AccessKeeps ==
  ASSUME NEW m \in Memory, NEW a, NEW p \in Pages,
         NEW dirty \in BOOLEAN, NEW skip \in BOOLEAN, NEW wb \in BOOLEAN,
         NEW D \in SUBSET Items, NEW F \in SUBSET Pages, NEW D3, NEW F3,
         Coherent(m, D, F),
         Accessed(m, a, p, m.slots[GetMappedSlot(p)], dirty, skip, wb),
         Bookkeeping(m, a, p, skip, D, F, D3, F3)
  PROVE  Coherent(a, D3, F3) /\ SameView(a, m, D3)
<1> DEFINE e == m.slots[GetMappedSlot(p)]
<1> DEFINE s == GetMappedSlot(p)
<1>1. s \in SlotIds
  BY MappedSlotInRange
<1>2. e \in CacheEntry /\ e.idx \in Pages /\ e.dirty \in BOOLEAN
  BY <1>1 DEF Memory, CacheEntry
<1>3. /\ a \in Memory
      /\ a.slots[s].idx = p
      /\ \A t \in SlotIds \ {s} : a.slots[t] = m.slots[t]
      /\ e.idx = p => /\ a.store = m.store
                      /\ a.slots[s].val = e.val
                      /\ a.slots[s].dirty = ((e.dirty \/ dirty) /\ wb)
      /\ e.idx # p => /\ \A q \in Pages :
                           a.store[q] = IF e.dirty /\ q = e.idx THEN e.val ELSE m.store[q]
                      /\ ~skip => /\ a.slots[s].val = m.store[p]
                                  /\ a.slots[s].dirty = (dirty /\ wb)
                      /\ skip => a.slots[s].dirty = ((e.dirty \/ dirty) /\ wb)
  BY DEF Accessed
<1>4. InPlace(m) /\ CleanMatches(m, D, F) /\ ForfeitedCached(m, F)
  BY DEF Coherent
<1>b. /\ D3 \in SUBSET D /\ F3 \in SUBSET Pages
      /\ \A k \in D3 : /\ ~(PageOf(k) \in Evicted(m, p) /\ PageOf(k) \in F)
                       /\ skip /\ ~Hit(m, p) => PageOf(k) # p
      /\ \A q \in Pages \ {p} : q \in F3 <=> q \in F /\ q \notin Evicted(m, p)
      /\ skip => a.slots[s].dirty
      /\ p \in F3 => ~a.slots[s].dirty
      /\ p \notin F3 /\ ~a.slots[s].dirty /\ Hit(m, p) => p \notin F /\ ~e.dirty
  BY DEF Bookkeeping
<1>5. \A q \in Pages : q \in Evicted(m, p) <=> q = e.idx /\ GetMappedSlot(q) = s /\ q # p
  BY DEF Evicted
<1>6. InPlace(a)
  <2> SUFFICES ASSUME NEW t \in SlotIds, a.slots[t].dirty
               PROVE  GetMappedSlot(a.slots[t].idx) = t
    BY DEF InPlace
  <2>1. CASE t = s
    BY <2>1, <1>3
  <2>2. CASE t # s
    BY <2>2, <1>3, <1>4 DEF InPlace
  <2> QED
    BY <2>1, <2>2
\* The server's copy of a page of another slot is not touched.
<1>7. \A q \in Pages : GetMappedSlot(q) # s => a.store[q] = m.store[q]
  BY <1>1, <1>2, <1>3, <1>4 DEF InPlace
<1>8. ForfeitedCached(a, F3)
  <2> SUFFICES ASSUME NEW q \in F3
               PROVE  /\ a.slots[GetMappedSlot(q)].idx = q
                      /\ ~a.slots[GetMappedSlot(q)].dirty
    BY DEF ForfeitedCached, Hit
  <2>1. CASE q = p
    BY <2>1, <1>3, <1>b
  <2>2. CASE q # p
    <3>1. q \in F /\ q \notin Evicted(m, p) /\ q \in Pages
      BY <2>2, <1>b
    <3>2. m.slots[GetMappedSlot(q)].idx = q /\ ~m.slots[GetMappedSlot(q)].dirty
      BY <3>1, <1>4 DEF ForfeitedCached, Hit
    <3>3. GetMappedSlot(q) # s
      BY <2>2, <3>1, <3>2, <1>5
    <3>4. GetMappedSlot(q) \in SlotIds
      BY <3>1, MappedSlotInRange
    <3> QED
      BY <3>2, <3>3, <3>4, <1>3
  <2> QED
    BY <2>1, <2>2
<1>9. \A k \in D3 : k \in Items /\ PageOf(k) \in Pages /\ GetMappedSlot(PageOf(k)) \in SlotIds
  BY <1>b, ItemInPage, MappedSlotInRange
<1>10. CleanMatches(a, D3, F3)
  <2> SUFFICES ASSUME NEW k \in D3,
                      a.slots[GetMappedSlot(PageOf(k))].idx = PageOf(k),
                      ~a.slots[GetMappedSlot(PageOf(k))].dirty,
                      PageOf(k) \notin F3
               PROVE  a.slots[GetMappedSlot(PageOf(k))].val[OffsetOf(k)]
                        = a.store[PageOf(k)][OffsetOf(k)]
    BY DEF CleanMatches
  <2>1. CASE GetMappedSlot(PageOf(k)) # s
    <3>1. /\ a.slots[GetMappedSlot(PageOf(k))] = m.slots[GetMappedSlot(PageOf(k))]
          /\ a.store[PageOf(k)] = m.store[PageOf(k)]
      BY <2>1, <1>3, <1>7, <1>9
    <3>2. PageOf(k) \notin F
      BY <2>1, <1>5, <1>9, <1>b
    <3> QED
      BY <3>1, <3>2, <1>4, <1>b DEF CleanMatches
  <2>2. CASE GetMappedSlot(PageOf(k)) = s
    <3>1. PageOf(k) = p
      BY <2>2, <1>3
    <3>2. CASE e.idx = p
      <4>1. p \notin F /\ ~e.dirty
        BY <3>1, <3>2, <1>b DEF Hit
      <4>2. e.val[OffsetOf(k)] = m.store[p][OffsetOf(k)]
        BY <3>1, <3>2, <4>1, <1>4, <1>b DEF CleanMatches
      <4> QED
        BY <3>1, <3>2, <4>2, <1>3
    <3>3. CASE e.idx # p
      <4>1. ~skip
        BY <3>1, <3>3, <1>b DEF Hit
      <4> QED
        BY <3>1, <3>3, <4>1, <1>3
    <3> QED
      BY <3>2, <3>3
  <2> QED
    BY <2>1, <2>2
<1>11. ASSUME NEW k \in D3
       PROVE  View(a, k) = View(m, k)
  <2>1. CASE GetMappedSlot(PageOf(k)) # s
    BY <2>1, <1>3, <1>7, <1>9 DEF View
  <2>2. CASE PageOf(k) = p /\ e.idx = p
    BY <2>2, <1>3 DEF View
  <2>3. CASE PageOf(k) = p /\ e.idx # p
    <3>1. ~skip
      BY <2>3, <1>b DEF Hit
    <3> QED
      BY <2>3, <3>1, <1>3 DEF View
  <2>4. CASE GetMappedSlot(PageOf(k)) = s /\ PageOf(k) # p /\ e.idx = PageOf(k)
    <3>1. View(a, k) = a.store[PageOf(k)][OffsetOf(k)] /\ View(m, k) = e.val[OffsetOf(k)]
      BY <2>4, <1>3 DEF View
    <3>2. CASE e.dirty
      BY <2>4, <3>1, <3>2, <1>3, <1>9
    <3>3. CASE ~e.dirty
      <4>1. PageOf(k) \notin F
        BY <2>4, <1>5, <1>9, <1>b
      <4>2. e.val[OffsetOf(k)] = m.store[PageOf(k)][OffsetOf(k)]
        BY <2>4, <3>3, <4>1, <1>4, <1>b DEF CleanMatches
      <4> QED
        BY <2>4, <3>1, <3>3, <4>2, <1>3, <1>9
    <3> QED
      BY <3>2, <3>3
  <2>5. CASE GetMappedSlot(PageOf(k)) = s /\ PageOf(k) # p /\ e.idx # PageOf(k)
    <3>1. a.store[PageOf(k)] = m.store[PageOf(k)]
      BY <2>5, <1>3, <1>9
    <3> QED
      BY <2>5, <3>1, <1>3 DEF View
  <2> QED
    BY <2>1, <2>2, <2>3, <2>4, <2>5
<1> QED
  BY <1>6, <1>8, <1>10, <1>11 DEF Coherent, SameView

\* The slots of b and m hold the same pages, dirty or not.
SameTags(b, m) ==
  \A t \in SlotIds : b.slots[t].idx = m.slots[t].idx /\ b.slots[t].dirty = m.slots[t].dirty

\* Writing item i through a reference into its own, dirty, page changes the
\* view of i alone.
LEMMA PokeKeeps ==
  ASSUME NEW m \in Memory, NEW i \in Items, NEW v \in Values,
         NEW D \in SUBSET Items, NEW F \in SUBSET Pages, Coherent(m, D, F),
         Hit(m, PageOf(i)), m.slots[GetMappedSlot(PageOf(i))].dirty
  PROVE  /\ Poke(m, i, v) \in Memory
         /\ Coherent(Poke(m, i, v), D \cup {i}, F)
         /\ View(Poke(m, i, v), i) = v
         /\ SameView(Poke(m, i, v), m, Items \ {i})
         /\ SameTags(Poke(m, i, v), m)
<1> DEFINE b == Poke(m, i, v)
<1> DEFINE s == GetMappedSlot(PageOf(i))
<1>1. s \in SlotIds /\ OffsetOf(i) \in Offsets /\ PageOf(i) \in Pages
  BY ItemInPage, MappedSlotInRange
<1>2. /\ b \in Memory
      /\ b.store = m.store
      /\ \A t \in SlotIds \ {s} : b.slots[t] = m.slots[t]
      /\ b.slots[s].idx = m.slots[s].idx
      /\ b.slots[s].dirty = m.slots[s].dirty
      /\ \A o \in Offsets :
           b.slots[s].val[o] = IF o = OffsetOf(i) THEN v ELSE m.slots[s].val[o]
  <2>1. Poked(m, b, i, v)
    BY PokeFacts
  <2> QED
    BY <2>1 DEF Poked
<1>3. m.slots[s].idx = PageOf(i) /\ m.slots[s].dirty
  BY DEF Hit
<1>4. \A t \in SlotIds : b.slots[t].idx = m.slots[t].idx /\ b.slots[t].dirty = m.slots[t].dirty
  BY <1>2
<1>5. \A k \in Items : /\ PageOf(k) \in Pages /\ OffsetOf(k) \in Offsets
                       /\ GetMappedSlot(PageOf(k)) \in SlotIds
  BY ItemInPage, MappedSlotInRange
<1>6. InPlace(b)
  BY <1>4 DEF Coherent, InPlace
<1>7. CleanMatches(b, D \cup {i}, F)
  <2> SUFFICES ASSUME NEW k \in D \cup {i},
                      b.slots[GetMappedSlot(PageOf(k))].idx = PageOf(k),
                      ~b.slots[GetMappedSlot(PageOf(k))].dirty,
                      PageOf(k) \notin F
               PROVE  b.slots[GetMappedSlot(PageOf(k))].val[OffsetOf(k)]
                        = b.store[PageOf(k)][OffsetOf(k)]
    BY DEF CleanMatches
  <2>1. GetMappedSlot(PageOf(k)) # s /\ k \in D
    BY <1>2, <1>3
  <2>2. b.slots[GetMappedSlot(PageOf(k))] = m.slots[GetMappedSlot(PageOf(k))]
    BY <2>1, <1>2, <1>5
  <2> QED
    BY <2>1, <2>2, <1>2 DEF Coherent, CleanMatches
<1>8. ForfeitedCached(b, F)
  <2> SUFFICES ASSUME NEW q \in F
               PROVE  b.slots[GetMappedSlot(q)].idx = q /\ ~b.slots[GetMappedSlot(q)].dirty
    BY DEF ForfeitedCached, Hit
  <2>1. GetMappedSlot(q) \in SlotIds
    BY MappedSlotInRange
  <2> QED
    BY <2>1, <1>4 DEF Coherent, ForfeitedCached, Hit
<1>9. View(b, i) = v
  BY <1>1, <1>2, <1>3 DEF View
<1>10. ASSUME NEW k \in Items \ {i}
       PROVE  View(b, k) = View(m, k)
  <2>1. CASE GetMappedSlot(PageOf(k)) # s
    BY <2>1, <1>2, <1>5 DEF View
  <2>2. CASE GetMappedSlot(PageOf(k)) = s /\ PageOf(k) # PageOf(i)
    BY <2>2, <1>2, <1>3 DEF View
  <2>3. CASE PageOf(k) = PageOf(i)
    <3>1. OffsetOf(k) # OffsetOf(i)
      BY <2>3, SameItem
    <3> QED
      BY <2>3, <3>1, <1>2, <1>3, <1>5 DEF View
  <2> QED
    BY <2>1, <2>2, <2>3
<1> QED
  BY <1>2, <1>4, <1>6, <1>7, <1>8, <1>9, <1>10 DEF Coherent, SameView, SameTags

(***************************************************************************)
(* The inductive invariant.  None of the three cache invariants is         *)
(* inductive alone: a write-back is harmless because dirty slots are in    *)
(* place, dropping a clean page because clean pages match the server, and  *)
(* the exception of forfeited pages needs them to be still cached.         *)
(***************************************************************************)

Inv == TypeOK /\ DirtyInPlace /\ CleanMatchesServer /\ ForfeitedIsCached

\* The abstract array for memory m with the items D specified.
Arr(m, D) == [k \in Items |-> IF k \in D THEN View(m, k) ELSE Unspecified]

\* Inv, read as coherence of the current memory.
LEMMA InvIsCoherence ==
  ASSUME Inv
  PROVE  /\ Mem \in Memory /\ Mem.store = store /\ Mem.slots = slots
         /\ Coherent(Mem, defined, forfeited)
         /\ AsArray = Arr(Mem, defined)
<1>1. Mem \in Memory /\ Mem.store = store /\ Mem.slots = slots
  BY DEF Inv, TypeOK, Mem, Memory
<1>2. InPlace(Mem)
  BY <1>1 DEF Inv, DirtyInPlace, InPlace
<1>3. CleanMatches(Mem, defined, forfeited)
  BY <1>1 DEF Inv, CleanMatchesServer, CleanMatches
<1>4. ForfeitedCached(Mem, forfeited)
  BY <1>1 DEF Inv, ForfeitedIsCached, ForfeitedCached
<1> QED
  BY <1>1, <1>2, <1>3, <1>4 DEF Coherent, AsArray, Arr

\* A step that ends in a coherent memory re-establishes Inv.
LEMMA CoherenceIsInv ==
  ASSUME NEW b \in Memory, Becomes(b), Coherent(b, defined', forfeited'),
         defined' \in SUBSET Items, forfeited' \in SUBSET Pages,
         out' \in [item : {-1}] \cup [item : Items, val : Values]
  PROVE  Inv' /\ AsArray' = Arr(b, defined')
<1>1. store' = b.store /\ slots' = b.slots
  BY DEF Becomes
<1>2. Mem' = b
  BY <1>1 DEF Mem, Memory
<1>3. TypeOK'
  BY <1>1 DEF TypeOK, Memory
<1>4. DirtyInPlace'
  BY <1>1 DEF Coherent, InPlace, DirtyInPlace
<1>5. CleanMatchesServer'
  BY <1>1 DEF Coherent, CleanMatches, CleanMatchesServer
<1>6. ForfeitedIsCached'
  BY <1>1, <1>2 DEF Coherent, ForfeitedCached, ForfeitedIsCached
<1>7. AsArray' = Arr(b, defined')
  BY <1>2 DEF AsArray, Arr
<1> QED
  BY <1>3, <1>4, <1>5, <1>6, <1>7 DEF Inv

\* Initially nothing is specified, and no slot is dirty.
LEMMA InitInv == Init => Inv
<1> SUFFICES ASSUME Init PROVE Inv
  OBVIOUS
<1>1. 0 \in Pages /\ ZeroVal \in Values /\ defaultVal \in Values
  BY GeometryAssumption DEF Pages
<1>2. [o \in Offsets |-> ZeroVal] \in Page /\ [o \in Offsets |-> defaultVal] \in Page
  BY <1>1 DEF Page
<1>3. [val |-> [o \in Offsets |-> ZeroVal], idx |-> 0, dirty |-> FALSE] \in CacheEntry
  BY <1>1, <1>2 DEF CacheEntry
<1>4. TypeOK
  BY <1>2, <1>3 DEF Init, TypeOK
<1>5. DirtyInPlace /\ CleanMatchesServer /\ ForfeitedIsCached
  BY DEF Init, DirtyInPlace, CleanMatchesServer, ForfeitedIsCached
<1> QED
  BY <1>4, <1>5 DEF Inv

\* What Deref reads after an access is the view of the item, a value.
LEMMA DerefIsView ==
  ASSUME NEW m \in Memory, NEW i \in Items
  PROVE  /\ Deref(m, i) \in Values
         /\ Hit(m, PageOf(i)) => Deref(m, i) = View(m, i)
<1>1. GetMappedSlot(PageOf(i)) \in SlotIds /\ OffsetOf(i) \in Offsets
  BY ItemInPage, MappedSlotInRange
<1>2. m.slots[GetMappedSlot(PageOf(i))] \in CacheEntry
  BY <1>1 DEF Memory
<1>3. m.slots[GetMappedSlot(PageOf(i))].val \in [Offsets -> Values]
  BY <1>2 DEF CacheEntry, Page
<1> QED
  BY <1>1, <1>3 DEF Deref, Hit, View

\* Every item has a value, wherever its page is.
LEMMA ViewIsValue ==
  ASSUME NEW m \in Memory, NEW i \in Items
  PROVE  View(m, i) \in Values
<1>1. /\ PageOf(i) \in Pages /\ OffsetOf(i) \in Offsets
      /\ GetMappedSlot(PageOf(i)) \in SlotIds
  BY ItemInPage, MappedSlotInRange
<1>2. m.slots[GetMappedSlot(PageOf(i))] \in CacheEntry /\ m.store[PageOf(i)] \in Page
  BY <1>1 DEF Memory
<1> QED
  BY <1>1, <1>2 DEF View, CacheEntry, Page

\* Two abstract arrays are equal when they agree item by item.
LEMMA ForgetArr ==
  ASSUME NEW m, NEW D, NEW L, NEW a, NEW D3 \in SUBSET Items,
         \A k \in Items : k \in D3 <=> k \in D /\ PageOf(k) \notin L,
         SameView(a, m, D3)
  PROVE  Arr(a, D3) = Array!Forget(Arr(m, D), L)
  BY DEF Arr, SameView, Array!Forget, Array!Items, Array!PageOf, Items, PageOf

\* Get reads the item's specified value, if it has one.
LEMMA GetStep ==
  ASSUME Inv, NEW i \in Items, Get(i)
  PROVE  Inv' /\ Array!Get(i)
<1> DEFINE p == PageOf(i)
           a == AccessReadOnly(Mem, p)
           e == Mem.slots[GetMappedSlot(p)]
           L == Evicted(Mem, p) \cap forfeited
<1>1. /\ Mem \in Memory /\ Coherent(Mem, defined, forfeited) /\ AsArray = Arr(Mem, defined)
      /\ defined \in SUBSET Items /\ forfeited \in SUBSET Pages
  BY InvIsCoherence DEF Inv, TypeOK
<1>2. p \in Pages
  BY ItemInPage
<1>3. /\ Becomes(a) /\ out' = [item |-> i, val |-> Deref(a, i)]
      /\ defined' = defined \ {k \in Items : PageOf(k) \in L}
      /\ forfeited' = forfeited \ Evicted(Mem, p)
  BY DEF Get, Forgotten
<1>4. a = AccessDM(Mem, p, FALSE, FALSE, TRUE)
  BY DEF AccessReadOnly
<1>5. Accessed(Mem, a, p, e, FALSE, FALSE, TRUE)
  BY <1>1, <1>2, <1>4, AccessFacts
<1>6. p \notin Evicted(Mem, p)
  BY DEF Evicted
<1>7. a \in Memory /\ Hit(a, p)
  BY <1>5 DEF Accessed, Hit
<1>8. p \in forfeited => e.idx = p /\ ~e.dirty
  BY <1>1 DEF Coherent, ForfeitedCached, Hit
<1>9. Coherent(a, defined', forfeited') /\ SameView(a, Mem, defined')
  <2>1. defined' \in SUBSET defined /\ forfeited' \in SUBSET Pages
    BY <1>1, <1>3
  <2>2. \A k \in defined' : ~(PageOf(k) \in Evicted(Mem, p) /\ PageOf(k) \in forfeited)
    BY <1>1, <1>3
  <2>3. \A q \in Pages \ {p} : q \in forfeited' <=> q \in forfeited /\ q \notin Evicted(Mem, p)
    BY <1>3
  <2>4. p \in forfeited' => ~a.slots[GetMappedSlot(p)].dirty
    BY <1>3, <1>5, <1>8 DEF Accessed
  <2>5. p \notin forfeited' /\ ~a.slots[GetMappedSlot(p)].dirty /\ Hit(Mem, p)
          => p \notin forfeited /\ ~e.dirty
    BY <1>3, <1>5, <1>6 DEF Accessed, Hit
  <2> QED
    <3>1. Bookkeeping(Mem, a, p, FALSE, defined, forfeited, defined', forfeited')
      BY <2>1, <2>2, <2>3, <2>4, <2>5 DEF Bookkeeping
    <3> QED
      BY <3>1, <1>1, <1>2, <1>5, AccessKeeps
<1>10. Deref(a, i) \in Values /\ Deref(a, i) = View(a, i)
  BY <1>7, DerefIsView
<1>11. Inv' /\ AsArray' = Arr(a, defined')
  BY <1>1, <1>3, <1>7, <1>9, <1>10, CoherenceIsInv
<1>12. L \in Array!Lossy(p)
  BY <1>6 DEF Array!Lossy
<1>13. AsArray' = Array!Forget(AsArray, L)
  BY <1>1, <1>3, <1>9, <1>11, ForgetArr
<1>14. Array!Returns(i)
  <2>1. i \in defined => i \in defined'
    BY <1>1, <1>3, <1>6
  <2>2. AsArray[i] # Unspecified => Deref(a, i) = AsArray[i]
    BY <2>1, <1>1, <1>9, <1>10 DEF Arr, SameView
  <2> QED
    BY <2>2, <1>3, <1>10 DEF Array!Returns
<1>15. forfeited' = forfeited \ L
  BY <1>3
<1> QED
  BY <1>11, <1>12, <1>13, <1>14, <1>15 DEF Array!Get, Array!PageOf, PageOf

\* derefNoWriteBack reads like Get, and forfeits the page if it was dirty.
LEMMA GetNoWriteBackStep ==
  ASSUME Inv, NEW i \in Items, GetNoWriteBack(i)
  PROVE  Inv' /\ Array!GetNoWriteBack(i)
<1> DEFINE p == PageOf(i)
           a == AccessNoWriteBack(Mem, p)
           e == Mem.slots[GetMappedSlot(p)]
           L == Evicted(Mem, p) \cap forfeited
<1>1. /\ Mem \in Memory /\ Coherent(Mem, defined, forfeited) /\ AsArray = Arr(Mem, defined)
      /\ defined \in SUBSET Items /\ forfeited \in SUBSET Pages /\ Mem.slots = slots
  BY InvIsCoherence DEF Inv, TypeOK
<1>2. p \in Pages
  BY ItemInPage
<1>3. /\ Becomes(a) /\ out' = [item |-> i, val |-> Deref(a, i)]
      /\ defined' = defined \ {k \in Items : PageOf(k) \in L}
      /\ forfeited' = (forfeited \ Evicted(Mem, p))
                        \cup (IF e.idx = p /\ e.dirty THEN {p} ELSE {})
  BY <1>1 DEF GetNoWriteBack, Forgotten
<1>4. a = AccessDM(Mem, p, FALSE, FALSE, FALSE)
  BY DEF AccessNoWriteBack
<1>5. Accessed(Mem, a, p, e, FALSE, FALSE, FALSE)
  BY <1>1, <1>2, <1>4, AccessFacts
<1>6. p \notin Evicted(Mem, p)
  BY DEF Evicted
<1>7. a \in Memory /\ Hit(a, p) /\ ~a.slots[GetMappedSlot(p)].dirty
  BY <1>5 DEF Accessed, Hit
<1>8. Coherent(a, defined', forfeited') /\ SameView(a, Mem, defined')
  <2>1. defined' \in SUBSET defined /\ forfeited' \in SUBSET Pages
    BY <1>1, <1>2, <1>3
  <2>2. \A k \in defined' : ~(PageOf(k) \in Evicted(Mem, p) /\ PageOf(k) \in forfeited)
    BY <1>1, <1>3
  <2>3. \A q \in Pages \ {p} : q \in forfeited' <=> q \in forfeited /\ q \notin Evicted(Mem, p)
    BY <1>3
  <2>4. p \notin forfeited' /\ Hit(Mem, p) => p \notin forfeited /\ ~e.dirty
    BY <1>3, <1>6 DEF Hit
  <2>5. Bookkeeping(Mem, a, p, FALSE, defined, forfeited, defined', forfeited')
    BY <1>7, <2>1, <2>2, <2>3, <2>4 DEF Bookkeeping
  <2> QED
    BY <2>5, <1>1, <1>2, <1>5, AccessKeeps
<1>9. Deref(a, i) \in Values /\ Deref(a, i) = View(a, i)
  BY <1>7, DerefIsView
<1>10. Inv' /\ AsArray' = Arr(a, defined')
  BY <1>1, <1>2, <1>3, <1>7, <1>8, <1>9, CoherenceIsInv
<1>11. L \in Array!Lossy(p)
  BY <1>6 DEF Array!Lossy
<1>12. AsArray' = Array!Forget(AsArray, L)
  BY <1>1, <1>3, <1>8, <1>10, ForgetArr
<1>13. Array!Returns(i)
  <2>1. i \in defined => i \in defined'
    BY <1>1, <1>3, <1>6
  <2>2. AsArray[i] # Unspecified => Deref(a, i) = AsArray[i]
    BY <2>1, <1>1, <1>8, <1>9 DEF Arr, SameView
  <2> QED
    BY <2>2, <1>3, <1>9 DEF Array!Returns
<1>14. forfeited' \in {forfeited \ L, (forfeited \ L) \cup {p}}
  BY <1>3
<1> QED
  BY <1>10, <1>11, <1>12, <1>13, <1>14 DEF Array!GetNoWriteBack, Array!PageOf, PageOf

\* The array after item i is set to v and only the other items of K keep theirs.
Wrote(K, i, v) ==
  \A k \in Items :
    AsArray'[k] = IF k = i THEN v ELSE IF k \in K THEN AsArray[k] ELSE Unspecified

\* The access of Put and PutWriteOnly: page p is cached dirty, the items K kept.
DirtyAccess(a, p, K, F3) ==
  /\ a \in Memory /\ Hit(a, p) /\ a.slots[GetMappedSlot(p)].dirty
  /\ Coherent(a, K, F3) /\ SameView(a, Mem, K)

\* Put and PutWriteOnly end by writing item i through their reference.
LEMMA PokeStep ==
  ASSUME Inv, NEW i \in Items, NEW v \in Values, NEW K \in SUBSET defined, NEW a,
         DirtyAccess(a, PageOf(i), K, forfeited'),
         Becomes(Poke(a, i, v)),
         defined' = K \cup {i}, forfeited' \in SUBSET Pages, out' = [item |-> -1]
  PROVE  Inv' /\ Wrote(K, i, v)
<1> DEFINE b == Poke(a, i, v)
<1>1. /\ AsArray = Arr(Mem, defined) /\ defined \in SUBSET Items
      /\ out' \in [item : {-1}] \cup [item : Items, val : Values]
  BY InvIsCoherence DEF Inv, TypeOK
<1>2. /\ a \in Memory /\ Hit(a, PageOf(i)) /\ a.slots[GetMappedSlot(PageOf(i))].dirty
      /\ Coherent(a, K, forfeited') /\ K \in SUBSET Items
  BY <1>1 DEF DirtyAccess
<1>3. /\ b \in Memory /\ Coherent(b, K \cup {i}, forfeited') /\ View(b, i) = v
      /\ SameView(b, a, Items \ {i})
  BY <1>2, PokeKeeps
<1>4. Inv' /\ AsArray' = Arr(b, K \cup {i})
  BY <1>1, <1>2, <1>3, CoherenceIsInv
<1>5. \A k \in K : View(a, k) = View(Mem, k) /\ k \in defined
  BY DEF SameView, DirtyAccess
<1>6. \A k \in Items \ {i} : View(b, k) = View(a, k)
  BY <1>3 DEF SameView
<1> QED
  BY <1>1, <1>3, <1>4, <1>5, <1>6 DEF Arr, Wrote

\* *it = v changes the item and nothing else.
LEMMA PutStep ==
  ASSUME Inv, NEW i \in Items, NEW v \in Values, Put(i, v)
  PROVE  Inv' /\ Array!Put(i, v)
<1> DEFINE p == PageOf(i)
           L == Evicted(Mem, p) \cap forfeited
           K == defined \ {k \in Items : PageOf(k) \in L}
           a == Access(Mem, p)
           e == Mem.slots[GetMappedSlot(p)]
<1>1. defined \in SUBSET Items /\ AsArray = Arr(Mem, defined)
  BY InvIsCoherence DEF Inv, TypeOK
<1>2. /\ Becomes(Poke(a, i, v))
      /\ defined' = K \cup {i}
      /\ forfeited' = forfeited \ (Evicted(Mem, p) \cup {p})
      /\ out' = [item |-> -1]
  BY DEF Put, Forgotten
<1>3. /\ K \in SUBSET defined
      /\ \A k \in K : ~(PageOf(k) \in Evicted(Mem, p) /\ PageOf(k) \in forfeited)
  BY <1>1
<1>4. Inv' /\ Wrote(K, i, v)
  <2>1. /\ Mem \in Memory /\ Coherent(Mem, defined, forfeited)
        /\ forfeited \in SUBSET Pages /\ p \in Pages
    BY InvIsCoherence, ItemInPage DEF Inv, TypeOK
  <2>2. Accessed(Mem, a, p, e, TRUE, FALSE, TRUE)
    BY <2>1, AccessFacts DEF Access
  <2>3. a \in Memory /\ Hit(a, p) /\ a.slots[GetMappedSlot(p)].dirty
    BY <2>2 DEF Accessed, Hit
  <2>4. forfeited' \in SUBSET Pages /\ p \notin forfeited'
    BY <1>2, <2>1
  <2>5. Bookkeeping(Mem, a, p, FALSE, defined, forfeited, K, forfeited')
    BY <1>2, <1>3, <2>3, <2>4 DEF Bookkeeping
  <2>6. Coherent(a, K, forfeited') /\ SameView(a, Mem, K)
    BY <1>1, <2>1, <2>2, <2>5, AccessKeeps
  <2>7. DirtyAccess(a, p, K, forfeited')
    BY <2>3, <2>6 DEF DirtyAccess
  <2> HIDE DEF a, K
  <2> QED
    BY <1>2, <1>3, <2>4, <2>7, PokeStep
<1>5. AsArray' = [Array!Forget(AsArray, L) EXCEPT ![i] = v]
  BY <1>1, <1>4
     DEF Wrote, AsArray, Arr, Array!Forget, Array!Items, Array!PageOf, Items, PageOf
<1>6. L \in Array!Lossy(p) /\ forfeited' = forfeited \ (L \cup {p})
  BY <1>2 DEF Array!Lossy, Evicted
<1> QED
  BY <1>2, <1>4, <1>5, <1>6 DEF Array!Put, Array!Nothing, Array!PageOf, PageOf

\* derefWriteOnly changes the item, and on a miss unspecifies the rest of its page.
LEMMA PutWriteOnlyStep ==
  ASSUME Inv, NEW i \in Items, NEW v \in Values, PutWriteOnly(i, v)
  PROVE  Inv' /\ Array!PutWriteOnly(i, v)
<1> DEFINE p == PageOf(i)
           L == Evicted(Mem, p) \cap forfeited
           U == IF Hit(Mem, p) THEN {} ELSE {p}
           K == defined \ {k \in Items : PageOf(k) \in L \cup U}
           a == AccessWriteOnly(Mem, p)
           e == Mem.slots[GetMappedSlot(p)]
<1>1. defined \in SUBSET Items /\ AsArray = Arr(Mem, defined)
  BY InvIsCoherence DEF Inv, TypeOK
<1>2. /\ Becomes(Poke(a, i, v))
      /\ defined' = K \cup {i}
      /\ forfeited' = forfeited \ (Evicted(Mem, p) \cup {p})
      /\ out' = [item |-> -1]
  BY DEF PutWriteOnly, Forgotten, ItemsOf
<1>3. /\ K \in SUBSET defined
      /\ \A k \in K : /\ ~(PageOf(k) \in Evicted(Mem, p) /\ PageOf(k) \in forfeited)
                      /\ ~Hit(Mem, p) => PageOf(k) # p
  BY <1>1
<1>4. Inv' /\ Wrote(K, i, v)
  <2>1. /\ Mem \in Memory /\ Coherent(Mem, defined, forfeited)
        /\ forfeited \in SUBSET Pages /\ p \in Pages
    BY InvIsCoherence, ItemInPage DEF Inv, TypeOK
  <2>2. Accessed(Mem, a, p, e, TRUE, TRUE, TRUE)
    BY <2>1, AccessFacts DEF AccessWriteOnly
  <2>3. a \in Memory /\ Hit(a, p) /\ a.slots[GetMappedSlot(p)].dirty
    BY <2>2 DEF Accessed, Hit
  <2>4. forfeited' \in SUBSET Pages /\ p \notin forfeited'
    BY <1>2, <2>1
  <2>5. Bookkeeping(Mem, a, p, TRUE, defined, forfeited, K, forfeited')
    BY <1>2, <1>3, <2>3, <2>4 DEF Bookkeeping
  <2>6. Coherent(a, K, forfeited') /\ SameView(a, Mem, K)
    BY <1>1, <2>1, <2>2, <2>5, AccessKeeps
  <2>7. DirtyAccess(a, p, K, forfeited')
    BY <2>3, <2>6 DEF DirtyAccess
  <2> HIDE DEF a, K
  <2> QED
    BY <1>2, <1>3, <2>4, <2>7, PokeStep
<1>5. AsArray' = [Array!Forget(AsArray, L \cup U) EXCEPT ![i] = v]
  BY <1>1, <1>4
     DEF Wrote, AsArray, Arr, Array!Forget, Array!Items, Array!PageOf, Items, PageOf
<1>6. L \in Array!Lossy(p) /\ U \in {{}, {p}} /\ forfeited' = forfeited \ (L \cup {p})
  BY <1>2 DEF Array!Lossy, Evicted
<1> QED
  BY <1>2, <1>4, <1>5, <1>6 DEF Array!PutWriteOnly, Array!Nothing, Array!PageOf, PageOf

\* condSwap on two items exchanges two items and nothing else, if obtaining the second
\* reference does not evict the page of the first.
LEMMA CondSwapStep ==
  ASSUME Inv, NEW i \in Items, NEW j \in Items, Apart(i, j), NEW c \in BOOLEAN,
         CondSwap(i, j, c)
  PROVE  Inv' /\ Array!CondSwap(i, j, c)
<1> DEFINE p == PageOf(i)
           q == PageOf(j)
           gone == Evicted(Mem, p) \cup Evicted(Mem, q)
           L == gone \cap forfeited
           kept == defined \ {k \in Items : PageOf(k) \in L}
           F1 == forfeited \ (Evicted(Mem, p) \cup {p})
           F2 == forfeited \ (gone \cup {p, q})
           a1 == Access(Mem, p)
           a2 == Access(a1, q)
<1>1. /\ Mem \in Memory /\ Coherent(Mem, defined, forfeited) /\ AsArray = Arr(Mem, defined)
      /\ defined \in SUBSET Items /\ forfeited \in SUBSET Pages
  BY InvIsCoherence DEF Inv, TypeOK
<1>2. /\ p \in Pages /\ q \in Pages
      /\ GetMappedSlot(p) \in SlotIds /\ GetMappedSlot(q) \in SlotIds
  BY ItemInPage, MappedSlotInRange
<1>3. p = q \/ GetMappedSlot(p) # GetMappedSlot(q)
  BY DEF Apart
<1>4. Accessed(Mem, a1, p, Mem.slots[GetMappedSlot(p)], TRUE, FALSE, TRUE)
  BY <1>1, <1>2, AccessFacts DEF Access
<1>5. a1 \in Memory /\ Hit(a1, p) /\ a1.slots[GetMappedSlot(p)].dirty
  BY <1>4 DEF Accessed, Hit
<1>6. Coherent(a1, kept, F1) /\ SameView(a1, Mem, kept)
  <2>1. Bookkeeping(Mem, a1, p, FALSE, defined, forfeited, kept, F1)
    BY <1>1, <1>5 DEF Bookkeeping
  <2> HIDE DEF a1, kept, F1
  <2> QED
    BY <2>1, <1>1, <1>2, <1>4, AccessKeeps
<1>7. Accessed(a1, a2, q, a1.slots[GetMappedSlot(q)], TRUE, FALSE, TRUE)
  BY <1>2, <1>5, AccessFacts DEF Access
<1>8. /\ a2 \in Memory
      /\ Hit(a2, q) /\ a2.slots[GetMappedSlot(q)].dirty
      /\ Hit(a2, p) /\ a2.slots[GetMappedSlot(p)].dirty
  BY <1>2, <1>3, <1>5, <1>7 DEF Accessed, Hit
<1>9. \A r \in Pages : r \in F2 <=> r # q /\ r \in F1 /\ r \notin Evicted(a1, q)
  <2>1. CASE p = q
    BY <2>1, <1>5 DEF Evicted, Hit
  <2>2. CASE GetMappedSlot(p) # GetMappedSlot(q)
    <3>1. a1.slots[GetMappedSlot(q)] = Mem.slots[GetMappedSlot(q)]
      BY <2>2, <1>2, <1>4 DEF Accessed
    <3>2. Evicted(a1, q) = Evicted(Mem, q)
      BY <3>1 DEF Evicted
    <3> QED
      BY <3>2
  <2> QED
    BY <2>1, <2>2, <1>3
<1>10. kept \in SUBSET Items /\ F1 \in SUBSET Pages /\ F2 \in SUBSET Pages
  BY <1>1
<1>11. Coherent(a2, kept, F2) /\ SameView(a2, a1, kept)
  <2>1. \A k \in kept : ~(PageOf(k) \in Evicted(a1, q) /\ PageOf(k) \in F1)
    <3> SUFFICES ASSUME NEW k \in kept, PageOf(k) \in Evicted(a1, q), PageOf(k) \in F1
                 PROVE  FALSE
      OBVIOUS
    <3>1. PageOf(k) \in Pages /\ PageOf(k) # q
      BY DEF Evicted
    <3>2. PageOf(k) \notin F2
      BY <3>1, <1>9
    <3>3. PageOf(k) \in L
      BY <3>1, <3>2
    <3> QED
      BY <3>3, <1>10
  <2>2. Bookkeeping(a1, a2, q, FALSE, kept, F1, kept, F2)
    BY <1>8, <1>9, <1>10, <2>1 DEF Bookkeeping
  <2> HIDE DEF a1, a2, kept, F1, F2
  <2> QED
    BY <2>2, <1>2, <1>5, <1>6, <1>7, <1>10, AccessKeeps
<1>12. L \in Array!Lossy(p)
  BY <1>3 DEF Evicted, Array!Lossy
<1>13. forfeited' = forfeited \ (L \cup {p, q}) /\ forfeited' = F2 /\ out' = Array!Nothing
       /\ out' \in [item : {-1}] \cup [item : Items, val : Values]
  BY DEF CondSwap, Array!Nothing
<1>14. \A k \in kept : View(a2, k) = View(Mem, k) /\ k \in defined /\ k \in Items
  BY <1>6, <1>10, <1>11 DEF SameView
<1>15. \A k \in Items : Array!Forget(AsArray, L)[k] = IF k \in kept THEN View(Mem, k) ELSE Unspecified
  BY <1>1 DEF Arr, Array!Forget, Array!Items, Array!PageOf, Items, PageOf
<1>16. CASE ~c
  <2>1. Becomes(a2) /\ defined' = kept
    BY <1>16 DEF CondSwap, SwapThrough, Forgotten
  <2>2. Inv' /\ AsArray' = Arr(a2, kept)
    BY <1>1, <1>8, <1>10, <1>11, <1>13, <2>1, CoherenceIsInv
  <2>3. AsArray' = Array!Forget(AsArray, L)
    BY <1>14, <1>15, <2>2 DEF Arr, Array!Forget, Array!Items, Items
  <2> QED
    BY <1>12, <1>13, <1>16, <2>2, <2>3 DEF Array!CondSwap, Array!PageOf, PageOf
<1>17. CASE c
  <2> DEFINE x == Deref(a2, i)
             y == Deref(a2, j)
             b1 == Poke(a2, i, y)
             b2 == Poke(b1, j, x)
  <2>1. /\ Becomes(b2)
        /\ defined' = {k \in Items : \/ k = i /\ j \in kept
                                     \/ k = j /\ i \in kept
                                     \/ k \notin {i, j} /\ k \in kept}
    BY <1>17 DEF CondSwap, SwapThrough, Forgotten
  <2>2. x \in Values /\ y \in Values /\ x = View(a2, i) /\ y = View(a2, j)
    BY <1>8, DerefIsView
  <2>3. /\ b1 \in Memory /\ Coherent(b1, kept \cup {i}, F2) /\ View(b1, i) = y
        /\ SameView(b1, a2, Items \ {i}) /\ SameTags(b1, a2)
    <3> HIDE DEF a2, kept, F2, x, y
    <3> QED
      BY <1>8, <1>10, <1>11, <2>2, PokeKeeps
  <2>4. Hit(b1, q) /\ b1.slots[GetMappedSlot(q)].dirty
    BY <1>2, <1>8, <2>3 DEF SameTags, Hit
  <2>5. /\ b2 \in Memory /\ Coherent(b2, kept \cup {i} \cup {j}, F2) /\ View(b2, j) = x
        /\ SameView(b2, b1, Items \ {j})
    <3>1. kept \cup {i} \in SUBSET Items
      BY <1>10
    <3> HIDE DEF b1, kept, F2, x, y
    <3> QED
      BY <3>1, <1>10, <2>2, <2>3, <2>4, PokeKeeps
  <2>6. Coherent(b2, defined', forfeited') /\ defined' \in SUBSET Items
    <3>1. defined' \in SUBSET (kept \cup {i} \cup {j}) /\ defined' \in SUBSET Items
      BY <2>1
    <3> HIDE DEF b2, kept, F2
    <3> QED
      BY <3>1, <2>5, <1>13 DEF Coherent, CleanMatches
  <2>7. Inv' /\ AsArray' = Arr(b2, defined')
    BY <1>1, <1>10, <1>13, <2>1, <2>5, <2>6, CoherenceIsInv
  <2>8. /\ \A k \in Items \ {i, j} : View(b2, k) = View(a2, k)
        /\ View(b2, j) = View(a2, i)
        /\ View(b2, i) = View(a2, j)
    <3> HIDE DEF a2, b1, b2, x, y
    <3> QED
      BY <2>2, <2>3, <2>5 DEF SameView
  <2> DEFINE m == Array!Forget(AsArray, L)
  <2>9. \A k \in Items : AsArray'[k] = IF k = i THEN m[j] ELSE IF k = j THEN m[i] ELSE m[k]
    <3> HIDE DEF a2, b2, kept
    <3> QED
      BY <1>14, <1>15, <2>1, <2>7, <2>8 DEF Arr
  <2>10. AsArray' = [m EXCEPT ![i] = m[j], ![j] = m[i]]
    <3>1. m = [k \in Items |-> m[k]]
      BY DEF Array!Forget, Array!Items, Items
    <3>2. AsArray' = [k \in Items |-> AsArray'[k]]
      BY <2>7 DEF Arr
    <3> HIDE DEF m
    <3> QED
      BY <3>1, <3>2, <2>9
  <2> QED
    BY <1>12, <1>13, <1>17, <2>7, <2>10 DEF Array!CondSwap, Array!PageOf, PageOf
<1> QED
  BY <1>16, <1>17

\* Every step of the cached vector keeps Inv and is a step of the array.
LEMMA StepRefines ==
  ASSUME SwapsApart, Inv, [Next]_vars
  PROVE  Inv' /\ [Array!Next]_(Array!vars)
<1>1. CASE UNCHANGED vars
  BY <1>1 DEF vars, Inv, TypeOK, DirtyInPlace, CleanMatchesServer, ForfeitedIsCached, Mem,
              Hit, View, AsArray, Array!vars
<1>2. ASSUME NEW i \in Items, NEW v \in Values, Put(i, v)
      PROVE  Inv' /\ Array!Next
  BY <1>2, PutStep DEF Array!Next, Array!Items, Items
<1>3. ASSUME NEW i \in Items, NEW v \in Values, PutWriteOnly(i, v)
      PROVE  Inv' /\ Array!Next
  BY <1>3, PutWriteOnlyStep DEF Array!Next, Array!Items, Items
<1>4. ASSUME NEW i \in Items, Get(i)
      PROVE  Inv' /\ Array!Next
  BY <1>4, GetStep DEF Array!Next, Array!Items, Items
<1>5. ASSUME NEW i \in Items, GetNoWriteBack(i)
      PROVE  Inv' /\ Array!Next
  BY <1>5, GetNoWriteBackStep DEF Array!Next, Array!Items, Items
<1>6. ASSUME NEW s \in SwapPairs, NEW c \in BOOLEAN, CondSwap(s[1], s[2], c)
      PROVE  Inv' /\ Array!Next
  <2>1. s[1] \in Items /\ s[2] \in Items /\ Apart(s[1], s[2])
    BY GeometryAssumption DEF SwapsApart, Items
  <2>2. Inv' /\ Array!CondSwap(s[1], s[2], c)
    BY <1>6, <2>1, CondSwapStep
  <2> QED
    BY <2>1, <2>2 DEF Array!Next, Array!Items, Items
<1> QED
  BY <1>1, <1>2, <1>3, <1>4, <1>5, <1>6 DEF Next

\* The inductive invariant holds in every reachable state.
LEMMA Invariance ==
  ASSUME SwapsApart
  PROVE  Spec => []Inv
<1>1. Inv /\ [Next]_vars => Inv'
  BY StepRefines
<1> QED
  BY InitInv, <1>1, PTL DEF Spec

\* Pages, slots and history variables keep their types through every access.
THEOREM TypesKept ==
  ASSUME SwapsApart
  PROVE  Spec => []TypeOK
<1>1. Inv => TypeOK
  BY DEF Inv
<1> QED
  BY Invariance, <1>1, PTL

\* AccessDM keeps its cache consistent for every number of pages, slots and items in a
\* page: no write-back lands on another page and no clean page that is dropped holds
\* anything the server does not.
THEOREM Consistency ==
  ASSUME SwapsApart
  PROVE  Spec => []CacheConsistent
<1>1. Inv => CacheConsistent
  BY DEF Inv, CacheConsistent
<1> QED
  BY Invariance, <1>1, PTL

\* The vector behind its direct-mapped cache implements the array: AccessDM loses
\* and mixes up nothing, whatever the geometry, when swaps are apart.
THEOREM Refinement ==
  ASSUME SwapsApart
  PROVE  Spec => IsArray
<1>1. Init => Array!Init
  BY DEF Init, Array!Init, Array!Nothing, Array!Items, AsArray, Items
<1>2. Inv /\ [Next]_vars => Inv' /\ [Array!Next]_(Array!vars)
  BY StepRefines
<1> QED
  BY InitInv, <1>1, <1>2, PTL DEF Spec, IsArray, Array!Spec
================================================================================
