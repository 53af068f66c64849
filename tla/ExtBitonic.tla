------------------------------ MODULE ExtBitonic -------------------------------
(***************************************************************************)
(* BitonicSort run on an external-memory vector, as the sorting enclave    *)
(* does (sort_test.cpp): a Writer fills the vector, the sorting network    *)
(* compares and swaps through dereferenced iterators, a reader collects    *)
(* the result.  Every step is an operation of CachedVector, so a reference *)
(* into a cache slot means what the slot holds when it is used.            *)
(*                                                                         *)
(* The comparators BitonicSort makes are a constant here.                  *)
(***************************************************************************)
EXTENDS CachedVector, Sequences

CONSTANT Network   \* the comparators [l, r, dire], in their order

\* There is something to sort and elements are compared; a comparator joins two different
\* items, and exactly its pairs are swapped.
ASSUME NetworkAssumption ==
  /\ N # 0
  /\ Values \subseteq Int
  /\ Network \in Seq([l : Items, r : Items, dire : BOOLEAN])
  /\ \A n \in DOMAIN Network : Network[n].l # Network[n].r
  /\ SwapPairs = {<<Network[n].l, Network[n].r>> : n \in DOMAIN Network}

VARIABLES
  pc,        \* "write", "compare", "swap", "read" or "done"
  pos,       \* elements written or read, or comparators finished
  swapFlag,  \* the first argument of condSwap, evaluated
  input,     \* what the Writer wrote
  result     \* what was read after sorting

progVars == <<store, slots, out, defined, forfeited, pc, pos, swapFlag, input, result>>

\* Where the program is after n rounds of loop l, and before loop m.
Round(l, n, m) ==
  IF pos + 1 < n THEN pc' = l /\ pos' = pos + 1 ELSE pc' = m /\ pos' = 0

ProgInit ==
  /\ Init
  /\ pc = "write" /\ pos = 0 /\ swapFlag = FALSE /\ input = <<>> /\ result = <<>>

WriteElement(v) ==
  /\ pc = "write"
  /\ Put(pos, v)
  /\ input' = Append(input, v)
  /\ Round("write", N, IF Network = <<>> THEN "read" ELSE "compare")
  /\ UNCHANGED <<swapFlag, result>>

\* The first argument of condSwap, dire != cmp(left, right): both elements are read, then compared.
Compare ==
  LET c == Network[pos + 1]
      m == SwapThrough(c.l, c.r, FALSE)
  IN /\ pc = "compare"
     /\ CondSwap(c.l, c.r, FALSE)
     /\ swapFlag' = (c.dire # (Deref(m, c.l) < Deref(m, c.r)))
     /\ pc' = "swap"
     /\ UNCHANGED <<pos, input, result>>

\* condSwap(swapFlag, *leftIt, *rightIt)
Swap ==
  LET c == Network[pos + 1]
  IN /\ pc = "swap"
     /\ CondSwap(c.l, c.r, swapFlag)
     /\ Round("compare", Len(Network), "read")
     /\ UNCHANGED <<swapFlag, input, result>>

ReadElement ==
  /\ pc = "read"
  /\ Get(pos)
  /\ result' = Append(result, out'.val)
  /\ Round("read", N, "done")
  /\ UNCHANGED <<swapFlag, input>>

ProgNext == (\E v \in Values : WriteElement(v)) \/ Compare \/ Swap \/ ReadElement

Program == ProgInit /\ [][ProgNext]_progVars

--------------------------------------------------------------------------------
(* Properties *)

Occurrences(v, s) == {k \in DOMAIN s : s[k] = v}

\* While the network runs, wherever its pages are, the vector holds what was
\* written: no eviction between a comparison and its swap loses or doubles an element.
KeepsElements ==
  pc \in {"compare", "swap", "read"} =>
    \A v \in Values :
      Cardinality({i \in Items : View(Mem, i) = v}) = Cardinality(Occurrences(v, input))

\* The flag still describes the vector when it is used.
FlagIsCurrent ==
  pc = "swap" =>
    LET c == Network[pos + 1]
    IN swapFlag = (c.dire # (View(Mem, c.l) < View(Mem, c.r)))

\* condSwap through the cache exchanges the two elements that were compared, if it has
\* to, and nothing else: no element is lost or doubled on the way.
SwapsExact == KeepsElements /\ FlagIsCurrent

\* The vector is sorted: what is read back is in increasing order and holds every
\* key as often as it was written.
SortedAtTheEnd ==
  pc = "done" =>
    /\ \A k \in 1 .. N - 1 : result[k] <= result[k + 1]
    /\ \A v \in Values : Cardinality(Occurrences(v, result)) = Cardinality(Occurrences(v, input))
================================================================================
