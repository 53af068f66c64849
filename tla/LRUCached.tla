------------------------------- MODULE LRUCached -------------------------------
(***************************************************************************)
(* CACHE::Cached over the LRU cache (USE_LRU_FLAG = true), with the TLB    *)
(* that short-cuts repeated accesses.  One page holds one item here: how   *)
(* items share a page is the business of CachedVector.                     *)
(*                                                                         *)
(* A TLB entry holds a pointer to the map node of its page.  Evicting the  *)
(* page erases the node and leaves the pointer dangling.  Following it is  *)
(* undefined behaviour, and so is writing through a reference to the page  *)
(* that was obtained before: fault says which of them has happened.        *)
(***************************************************************************)
EXTENDS Integers, FiniteSets, SequencesExt

CONSTANTS
  N,            \* the items are 0 .. N - 1, one to a page
  CACHE_SIZE,
  TLB_SIZE,     \* 2 unless the template is given another
  CounterMax,   \* UINT64_MAX in the code: where the TLB counters are reset
  Values,
  ZeroVal

VARIABLES
  mem,        \* [store, data, LRU, TLB, TLB_global_counter, fault]
  out         \* what the last operation returned, if it read an item

vars == <<mem, out>>

Items == 0 .. N - 1

--------------------------------------------------------------------------------
(* The TLB *)

\* std::sort by decreasing counter.
sortTLBByCounter(tlb) == SortSeq(tlb, LAMBDA x, y : x.counter > y.counter)

\* Counters become TLB_SIZE, TLB_SIZE - 1, ..., those of invalid entries too.
resetTLBCounters(m) ==
  LET sorted == sortTLBByCounter(m.TLB)
  IN [m EXCEPT !.TLB_global_counter = TLB_SIZE + 1,
               !.TLB = [k \in DOMAIN sorted |->
                          [sorted[k] EXCEPT !.counter = TLB_SIZE + 1 - k]]]

\* The first thing AccessTLB does, hit or miss.
Tick(m) ==
  IF m.TLB_global_counter + 1 = CounterMax THEN resetTLBCounters(m)
  ELSE [m EXCEPT !.TLB_global_counter = @ + 1]

TLBHits(m, i) == {k \in DOMAIN m.TLB : m.TLB[k].idx = i /\ m.TLB[k].counter # 0}

\* A TLB hit reaches the page's entry without touching the LRU list.
AccessTLB(m, i, dirty, writeBack) ==
  LET k == Min(TLBHits(m, i))
      t == [m EXCEPT !.TLB[k].counter = m.TLB_global_counter]
  IN IF ~m.TLB[k].live THEN [t EXCEPT !.fault = "entry"]
     ELSE [t EXCEPT !.data[i].dirty = (@ \/ dirty) /\ writeBack]

\* The first entry with the least counter is replaced.
UpdateTLB(m, i) ==
  LET c == {m.TLB[k].counter : k \in DOMAIN m.TLB}
      k == Min({j \in DOMAIN m.TLB : m.TLB[j].counter = Min(c)})
      e == [idx |-> i, counter |-> m.TLB_global_counter, live |-> TRUE]
  IN [m EXCEPT !.TLB = sortTLBByCounter([m.TLB EXCEPT ![k] = e])]

--------------------------------------------------------------------------------
(* The LRU cache *)

CheckContains(m, i) == i \in DOMAIN m.data
IsFull(m) == Cardinality(DOMAIN m.data) = CACHE_SIZE
GetNextToEvict(m) == Last(m.LRU)

\* Erases the node; TLB entries that point to it keep pointing to it.
EvictLRU(m, p) ==
  [m EXCEPT !.LRU = Front(@),
            !.data = [q \in DOMAIN @ \ {p} |-> @[q]],
            !.TLB = [k \in DOMAIN @ |-> IF @[k].idx = p THEN [@[k] EXCEPT !.live = FALSE]
                                        ELSE @[k]]]

Insert(m, i, v) ==
  [m EXCEPT !.LRU = <<i>> \o @,
            !.data = [q \in DOMAIN @ \cup {i} |->
                        IF q = i THEN [val |-> v, dirty |-> FALSE] ELSE @[q]]]

CacheAccess(m, i, dirty, writeBack) ==
  UpdateTLB([m EXCEPT !.LRU = <<i>> \o SelectSeq(@, LAMBDA q : q # i),
                      !.data[i].dirty = (@ \/ dirty) /\ writeBack], i)

\* The page that has to leave before page i can be inserted.
MakeRoom(m) ==
  LET p == GetNextToEvict(m)
  IN IF ~IsFull(m) THEN m
     ELSE EvictLRU(IF m.data[p].dirty THEN [m EXCEPT !.store[p] = m.data[p].val] ELSE m, p)

\* junk is what the uninitialised local ret holds when the read is skipped.
AccessLRU(m, i, dirty, skip_read, writeBack, junk) ==
  LET t == Tick(m)
      room == MakeRoom(t)
  IN IF TLBHits(t, i) # {} THEN AccessTLB(t, i, dirty, writeBack)
     ELSE IF CheckContains(t, i) THEN CacheAccess(t, i, dirty, writeBack)
     ELSE CacheAccess(Insert(room, i, IF skip_read THEN junk ELSE room.store[i]),
                      i, dirty, writeBack)

\* Using the reference to page i: it points into the page's node.
Deref(m, i) == IF i \in DOMAIN m.data THEN m.data[i].val ELSE ZeroVal
Poke(m, i, v) ==
  IF i \in DOMAIN m.data THEN [m EXCEPT !.data[i].val = v]
  ELSE [m EXCEPT !.fault = IF @ = "none" THEN "reference" ELSE @]

--------------------------------------------------------------------------------
(* Operations *)

Init ==
  /\ mem = [store |-> [i \in Items |-> ZeroVal], data |-> <<>>, LRU |-> <<>>,
            TLB |-> [k \in 1 .. TLB_SIZE |-> [idx |-> 0, counter |-> 0, live |-> FALSE]],
            TLB_global_counter |-> 0, fault |-> "none"]
  /\ out = [item |-> -1]

\* *it = v
Put(i, v) ==
  /\ mem' = Poke(AccessLRU(mem, i, TRUE, FALSE, TRUE, ZeroVal), i, v)
  /\ out' = [item |-> -1]

\* AccessReadOnly
Get(i) ==
  /\ mem' = AccessLRU(mem, i, FALSE, FALSE, TRUE, ZeroVal)
  /\ out' = [item |-> i, val |-> Deref(mem', i)]

\* AccessNoWriteBack
GetNoWriteBack(i) ==
  /\ mem' = AccessLRU(mem, i, FALSE, FALSE, FALSE, ZeroVal)
  /\ out' = [item |-> i, val |-> Deref(mem', i)]

\* AccessWriteOnly: the reference is obtained and may then be written.
PutWriteOnly(i, v) ==
  /\ \E junk \in Values :
       mem' = Poke(AccessLRU(mem, i, TRUE, TRUE, TRUE, junk), i, v)
  /\ out' = [item |-> -1]

\* condSwap(c, *a, *b) holds both references at once.
CondSwap(i, j, c) ==
  LET m1 == AccessLRU(mem, i, TRUE, FALSE, TRUE, ZeroVal)
      m2 == AccessLRU(m1, j, TRUE, FALSE, TRUE, ZeroVal)
  IN /\ mem' = IF c THEN Poke(Poke(m2, i, Deref(m2, j)), j, Deref(m2, i)) ELSE m2
     /\ out' = [item |-> -1]

\* After a fault anything may happen: nothing more is said.
Next ==
  /\ mem.fault = "none"
  /\ \/ \E i \in Items :
          \/ \E v \in Values : Put(i, v) \/ PutWriteOnly(i, v)
          \/ Get(i)
          \/ GetNoWriteBack(i)
     \/ \E i, j \in Items, c \in BOOLEAN : i < j /\ CondSwap(i, j, c)

Spec == Init /\ [][Next]_vars

--------------------------------------------------------------------------------
(* Properties *)

\* Of a TLB entry's counter "0 stands for invalid": an entry that is taken for valid,
\* because its counter is not 0, points to a node that has not been erased whenever
\* AccessTLB follows it.
EntriesFollowedAreValid == mem.fault # "entry"
================================================================================
