------------------------------- MODULE Allocator -------------------------------
(***************************************************************************)
(* EM::LargeBlockAllocator, the best-fit allocator of the server's bytes,  *)
(* and the server frontends that own what it hands out: a frontend         *)
(* allocates its slot when constructed, passes it on when moved from, and  *)
(* frees it when destroyed.                                                *)
(***************************************************************************)
EXTENDS Integers, FiniteSets, SequencesExt

CONSTANTS
  size,        \* LargeBlockAllocator::size
  Objects      \* frontend objects

ASSUME AllocatorAssumption ==
  size \in Nat \ {0}

VARIABLES
  freeList,    \* sequence of AllocatorSlots
  slot,        \* [Objects -> the slot of a live object, or Dead]
  aborted      \* -1, or the request for which Allocate aborted

vars == <<freeList, slot, aborted>>

AllocatorSlot == [base : 0 .. size, size : 0 .. size]

Dead == [base |-> -2, size |-> 0]

\* slot.base = -1: the object owns nothing.
Owns(o) == slot[o].base >= 0
Disowned(s) == [s EXCEPT !.base = -1]

--------------------------------------------------------------------------------
(* LargeBlockAllocator *)

BigEnough(n) == {i \in DOMAIN freeList : freeList[i].size >= n}

\* The first of the smallest slots that are big enough.
bestIdx(n) ==
  LET bestSize == Min({freeList[i].size : i \in BigEnough(n)})
  IN Min({i \in BigEnough(n) : freeList[i].size = bestSize})

\* The slot loses its first n bytes, and is erased when none are left.
TakeFrom(i, n) ==
  IF freeList[i].size = n THEN RemoveAt(freeList, i)
  ELSE [freeList EXCEPT ![i] = [base |-> @.base + n, size |-> @.size - n]]

Indices(list) == [i \in DOMAIN list |-> i]

\* The in-place insert loop carries tmp up the list by swaps.
Inserted(list, s) ==
  LET Swap(a, i) == IF a.list[i].base > a.tmp.base
                    THEN [list |-> [a.list EXCEPT ![i] = a.tmp], tmp |-> a.list[i]]
                    ELSE a
      end == FoldLeft(Swap, [list |-> list, tmp |-> s], Indices(list))
  IN Append(end.list, end.tmp)

\* Slot j absorbs its right neighbours, the others move down to close the gap.
Coalesced(list) ==
  LET Merge(a, i) == IF a.list[a.j].base + a.list[a.j].size = a.list[i].base
                     THEN [a EXCEPT !.list[a.j].size = @ + a.list[i].size]
                     ELSE [list |-> [a.list EXCEPT ![a.j + 1] = a.list[i]], j |-> a.j + 1]
      end == FoldLeft(Merge, [list |-> list, j |-> 1], Tail(Indices(list)))
  IN SubSeq(end.list, 1, end.j)

Free(s) == freeList' = IF s.size = 0 THEN freeList ELSE Coalesced(Inserted(freeList, s))

--------------------------------------------------------------------------------
(* Frontends *)

AllocatorInit ==
  /\ freeList = <<[base |-> 0, size |-> size]>>
  /\ slot = [o \in Objects |-> Dead]
  /\ aborted = -1

\* A frontend for no pages allocates nothing.
ConstructEmpty(o) ==
  /\ slot[o] = Dead
  /\ slot' = [slot EXCEPT ![o] = [base |-> -1, size |-> 0]]
  /\ UNCHANGED <<freeList, aborted>>

Construct(o, n) ==
  /\ slot[o] = Dead
  /\ IF BigEnough(n) = {} THEN aborted' = n /\ UNCHANGED <<freeList, slot>>
     ELSE /\ slot' = [slot EXCEPT ![o] = [base |-> freeList[bestIdx(n)].base, size |-> n]]
          /\ freeList' = TakeFrom(bestIdx(n), n)
          /\ UNCHANGED aborted

\* Mutant of Move: other may still free the slot.
MoveShares(o, other) ==
  /\ slot[o] = Dead /\ slot[other] # Dead
  /\ slot' = [slot EXCEPT ![o] = slot[other]]
  /\ UNCHANGED <<freeList, aborted>>

\* The copy constructor takes over other's slot; Vector's move constructor then
\* calls preventFree on other once more.
Move(o, other) ==
  /\ slot[o] = Dead /\ slot[other] # Dead
  /\ slot' = [slot EXCEPT ![o] = slot[other], ![other] = Disowned(slot[other])]
  /\ UNCHANGED <<freeList, aborted>>

Destroy(o) ==
  /\ slot[o] # Dead
  /\ IF Owns(o) THEN Free(slot[o]) ELSE UNCHANGED freeList
  /\ slot' = [slot EXCEPT ![o] = Dead]
  /\ UNCHANGED aborted

--------------------------------------------------------------------------------
(* Properties *)

Bytes(s) == s.base .. s.base + s.size - 1
Owners == {o \in Objects : Owns(o)}

\* "$Invariant: IsSorted(freeList)", and more: free slots are not empty, and two
\* neighbours are always separated by an allocated byte.
FreeListSorted ==
  /\ \A i \in DOMAIN freeList : freeList[i].size > 0
  /\ \A i \in 1 .. Len(freeList) - 1 :
       freeList[i].base + freeList[i].size < freeList[i + 1].base

\* Through any order of construction, moves and destruction, every byte of the
\* server is free or owned by one object, and never both, shared or lost.
EveryByteOnce ==
  \A b \in 0 .. size - 1 :
    Cardinality({i \in DOMAIN freeList : b \in Bytes(freeList[i])})
      + Cardinality({o \in Owners : b \in Bytes(slot[o])}) = 1

\* Allocate gives up only if no contiguous run of unowned bytes is long enough: the
\* free list is never more fragmented than the memory.  A request of no bytes, by a
\* dynamic frontend without pages, needs one unowned byte.
AbortsOnlyWhenFull ==
  aborted # -1 =>
    LET need == Max({aborted, 1})
    IN \A b \in 0 .. size - need :
         \E o \in Owners : Bytes(slot[o]) \cap (b .. b + need - 1) # {}

\* The free list is sorted and merged, no byte is lost or given away twice, and
\* Allocate aborts only when it has to.
SpaceAccountedFor == FreeListSorted /\ EveryByteOnce /\ AbortsOnlyWhenFull
================================================================================
