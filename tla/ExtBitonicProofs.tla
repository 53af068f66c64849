--------------------------- MODULE ExtBitonicProofs ----------------------------
(***************************************************************************)
(* The sorting program on a cached vector does what its comparators do on  *)
(* an array in memory, for every geometry of the cache in which the two    *)
(* references of a comparator stay valid together.                         *)
(***************************************************************************)
EXTENDS ExtBitonic, CachedVectorProofs, FiniteSetTheorems

\* What a comparator makes of an array in memory.
Exchange(a, c) ==
  IF c.dire # (a[c.l] < a[c.r]) THEN [a EXCEPT ![c.l] = a[c.r], ![c.r] = a[c.l]] ELSE a

\* The first n comparators on arrays in memory: h[k] is the array after k of them.
Runs(n) ==
  {h \in [0 .. n -> [Items -> Values]] : \A k \in 1 .. n : h[k] = Exchange(h[k - 1], Network[k])}

\* The vector holds what the first n comparators make of the input.
Ran(n) ==
  \E h \in Runs(n) : /\ \A i \in Items : h[0][i] = input[i + 1]
                     /\ h[n] = AsArray

\* The vector holds the elements of the input, each one once.
Permuted == \E f \in Bijection(Items, 1 .. N) : \A i \in Items : AsArray[i] = input[f[i]]

\* Comparators that are finished.
Finished == IF pc \in {"compare", "swap"} THEN pos ELSE Len(Network)

ProgInv ==
  /\ Inv /\ forfeited = {}
  /\ input \in Seq(Values) /\ swapFlag \in BOOLEAN /\ result \in Seq(Values)
  /\ pc \in {"write", "compare", "swap", "read", "done"}
  /\ pos \in Nat
  /\ pc = "write" => /\ pos < N /\ Len(input) = pos /\ result = <<>>
                     /\ defined = 0 .. pos - 1
                     /\ \A i \in 0 .. pos - 1 : AsArray[i] = input[i + 1]
  /\ pc # "write" => Len(input) = N /\ defined = Items /\ Permuted /\ Ran(Finished)
  /\ pc \in {"compare", "swap"} => pos < Len(Network) /\ result = <<>>
  /\ pc = "read" => pos < N /\ Len(result) = pos
  /\ pc = "done" => Len(result) = N
  /\ \A k \in 1 .. Len(result) : result[k] = AsArray[k - 1]
  /\ FlagIsCurrent

--------------------------------------------------------------------------------
(* The operations of the vector when no page is forfeited *)

LEMMA ForgetNothing == Array!Forget(AsArray, {}) = AsArray
  BY DEF Array!Forget, Array!Items, AsArray, Items

\* Writer::write stores its element and touches no other.
LEMMA PutExact ==
  ASSUME Inv, forfeited = {}, NEW i \in Items, NEW v \in Values, Put(i, v)
  PROVE  /\ Inv' /\ forfeited' = {} /\ defined' = defined \cup {i}
         /\ AsArray' = [AsArray EXCEPT ![i] = v]
<1>1. Inv' /\ Array!Put(i, v)
  BY PutStep
<1>2. forfeited' = {} /\ defined' = defined \cup {i}
  BY DEF Put, Forgotten
<1>3. AsArray' = [Array!Forget(AsArray, {}) EXCEPT ![i] = v]
  BY <1>1 DEF Array!Put, Array!Lossy
<1> QED
  BY <1>1, <1>2, <1>3, ForgetNothing

\* A read through the cache changes no element.
LEMMA GetExact ==
  ASSUME Inv, forfeited = {}, NEW i \in Items, i \in defined, Get(i)
  PROVE  /\ Inv' /\ forfeited' = {} /\ defined' = defined
         /\ AsArray' = AsArray
         /\ out'.val = AsArray[i] /\ AsArray[i] \in Values
<1>1. Inv' /\ Array!Get(i)
  BY GetStep
<1>2. forfeited' = {} /\ defined' = defined
  BY DEF Get, Forgotten
<1>3. AsArray' = Array!Forget(AsArray, {}) /\ Array!Returns(i)
  BY <1>1 DEF Array!Get, Array!Lossy
<1>4. out'.val \in Values /\ out'.item = i
  BY <1>3 DEF Array!Returns
<1>5. AsArray[i] = View(Mem, i)
  BY DEF AsArray
<1>6. View(Mem, i) \in Values
  BY InvIsCoherence, ViewIsValue
<1>7. Unspecified \notin Values
  BY GeometryAssumption
<1> QED
  BY <1>1, <1>2, <1>3, <1>5, <1>6, <1>7, ForgetNothing DEF Array!Returns

\* condSwap exchanges the two elements if it is told to, and touches no other.
LEMMA CondSwapExact ==
  ASSUME Inv, forfeited = {}, defined = Items, NEW i \in Items, NEW j \in Items,
         Apart(i, j), NEW c \in BOOLEAN, CondSwap(i, j, c)
  PROVE  /\ Inv' /\ forfeited' = {} /\ defined' = Items
         /\ AsArray' = IF c THEN [AsArray EXCEPT ![i] = AsArray[j], ![j] = AsArray[i]] ELSE AsArray
<1>1. Inv' /\ Array!CondSwap(i, j, c)
  BY CondSwapStep
<1>2. forfeited' = {}
  BY DEF CondSwap
<1>3. defined' = Items
  <2>1. Forgotten(Evicted(Mem, PageOf(i)) \cup Evicted(Mem, PageOf(j))) = {}
    BY DEF Forgotten
  <2> QED
    BY <2>1 DEF CondSwap
<1>4. PICK L \in SUBSET (forfeited \ {Array!PageOf(i)}) :
        AsArray' = IF c THEN [Array!Forget(AsArray, L) EXCEPT ![i] = Array!Forget(AsArray, L)[j],
                                                              ![j] = Array!Forget(AsArray, L)[i]]
                   ELSE Array!Forget(AsArray, L)
  BY <1>1 DEF Array!CondSwap, Array!Lossy
<1>5. L = {}
  BY <1>4
<1> QED
  BY <1>1, <1>2, <1>3, <1>4, <1>5, ForgetNothing

\* The comparison sees the two elements: the second access does not take the slot the
\* first reference points into.
LEMMA CompareSees ==
  ASSUME Inv, NEW i \in Items, NEW j \in Items, Apart(i, j), CondSwap(i, j, FALSE), Inv'
  PROVE  LET m == SwapThrough(i, j, FALSE)
         IN Deref(m, i) = View(Mem', i) /\ Deref(m, j) = View(Mem', j)
<1> DEFINE p == PageOf(i)
           q == PageOf(j)
           a1 == Access(Mem, p)
           a2 == Access(a1, q)
<1>1. Mem \in Memory
  BY InvIsCoherence
<1>2. /\ p \in Pages /\ q \in Pages
      /\ GetMappedSlot(p) \in SlotIds /\ GetMappedSlot(q) \in SlotIds
  BY ItemInPage, MappedSlotInRange
<1>3. p = q \/ GetMappedSlot(p) # GetMappedSlot(q)
  BY DEF Apart
<1>4. Accessed(Mem, a1, p, Mem.slots[GetMappedSlot(p)], TRUE, FALSE, TRUE)
  BY <1>1, <1>2, AccessFacts DEF Access
<1>5. a1 \in Memory /\ Hit(a1, p)
  BY <1>4 DEF Accessed, Hit
<1>6. Accessed(a1, a2, q, a1.slots[GetMappedSlot(q)], TRUE, FALSE, TRUE)
  BY <1>2, <1>5, AccessFacts DEF Access
<1>7. a2 \in Memory /\ Hit(a2, q) /\ Hit(a2, p)
  BY <1>2, <1>3, <1>5, <1>6 DEF Accessed, Hit
<1>8. a2 = SwapThrough(i, j, FALSE)
  BY DEF SwapThrough
<1>9. Becomes(a2)
  BY <1>8 DEF CondSwap
<1>10. Mem' = a2
  BY <1>7, <1>9 DEF Becomes, Mem, Memory
<1>11. Deref(a2, i) = View(a2, i) /\ Deref(a2, j) = View(a2, j)
  BY <1>7, DerefIsView
<1> QED
  BY <1>8, <1>10, <1>11

--------------------------------------------------------------------------------
(* What the comparators do to an array *)

LEMMA ComparatorType ==
  ASSUME SwapsApart, NEW n \in Nat, n < Len(Network)
  PROVE  LET c == Network[n + 1]
         IN /\ c.l \in Items /\ c.r \in Items /\ c.l # c.r /\ c.dire \in BOOLEAN
            /\ Apart(c.l, c.r)
<1> DEFINE c == Network[n + 1]
<1>1. n + 1 \in DOMAIN Network /\ c \in [l : Items, r : Items, dire : BOOLEAN]
  <2> DEFINE R == [l : Items, r : Items, dire : BOOLEAN]
  <2>1. Network \in Seq(R)
    BY NetworkAssumption
  <2> HIDE DEF R
  <2>2. DOMAIN Network = 1 .. Len(Network) /\ Len(Network) \in Nat
    BY <2>1
  <2>3. \A k \in DOMAIN Network : Network[k] \in R
    BY <2>1
  <2>4. n + 1 \in DOMAIN Network
    BY <2>2
  <2>5. Network[n + 1] \in R
    BY <2>3, <2>4
  <2> QED
    BY <2>4, <2>5 DEF R
<1>2. c.l \in Items /\ c.r \in Items /\ c.dire \in BOOLEAN
  BY <1>1
<1>3. c.l # c.r
  BY <1>1, NetworkAssumption
<1>4. <<c.l, c.r>> \in SwapPairs
  BY <1>1, NetworkAssumption
<1>5. Apart(c.l, c.r)
  BY <1>4 DEF SwapsApart
<1> QED
  BY <1>2, <1>3, <1>5

\* An array with two elements exchanged is still a permutation of the input.
LEMMA ExchangePermutes ==
  ASSUME NEW a \in [Items -> Values], NEW b, NEW s,
         NEW f \in Bijection(Items, 1 .. N), \A k \in Items : a[k] = s[f[k]],
         NEW i \in Items, NEW j \in Items,
         b = [a EXCEPT ![i] = a[j], ![j] = a[i]]
  PROVE  \E g \in Bijection(Items, 1 .. N) : \A k \in Items : b[k] = s[g[k]]
<1> DEFINE g == [k \in Items |-> IF k = i THEN f[j] ELSE IF k = j THEN f[i] ELSE f[k]]
<1>1. /\ f \in [Items -> 1 .. N]
      /\ \A k, l \in Items : f[k] = f[l] => k = l
      /\ \A t \in 1 .. N : \E k \in Items : f[k] = t
  BY DEF Bijection, Injection, Surjection, IsInjective
<1>2. g \in [Items -> 1 .. N]
  BY <1>1
<1>3. \A k, l \in Items : g[k] = g[l] => k = l
  BY <1>1
<1>4. \A t \in 1 .. N : \E k \in Items : g[k] = t
  <2> SUFFICES ASSUME NEW t \in 1 .. N
               PROVE  \E k \in Items : g[k] = t
    OBVIOUS
  <2>1. PICK k \in Items : f[k] = t
    BY <1>1
  <2> QED
    BY <2>1
<1>5. g \in Bijection(Items, 1 .. N)
  <2> HIDE DEF g
  <2> QED
    BY <1>2, <1>3, <1>4 DEF Bijection, Injection, Surjection, IsInjective
<1>6. \A k \in Items : b[k] = s[g[k]]
  OBVIOUS
<1> QED
  BY <1>5, <1>6

\* One more comparator.
LEMMA RunsOn ==
  ASSUME NEW n \in Nat, NEW h \in Runs(n), NEW b \in [Items -> Values],
         b = Exchange(h[n], Network[n + 1])
  PROVE  \E g \in Runs(n + 1) : g[0] = h[0] /\ g[n + 1] = b
<1> DEFINE g == [k \in 0 .. n + 1 |-> IF k = n + 1 THEN b ELSE h[k]]
<1>1. /\ h \in [0 .. n -> [Items -> Values]]
      /\ \A k \in 1 .. n : h[k] = Exchange(h[k - 1], Network[k])
  BY DEF Runs
<1>2. g \in [0 .. n + 1 -> [Items -> Values]]
  BY <1>1
<1>3. \A k \in 0 .. n : g[k] = h[k]
  OBVIOUS
<1>4. g[n + 1] = b
  OBVIOUS
<1>5. ASSUME NEW k \in 1 .. n + 1
      PROVE  g[k] = Exchange(g[k - 1], Network[k])
  <2> HIDE DEF g
  <2>1. CASE k = n + 1
    BY <2>1, <1>3, <1>4
  <2>2. CASE k # n + 1
    <3>1. k \in 1 .. n /\ k \in 0 .. n /\ k - 1 \in 0 .. n
      BY <2>2
    <3> QED
      BY <3>1, <1>1, <1>3
  <2> QED
    BY <2>1, <2>2
<1>6. g \in Runs(n + 1)
  <2> HIDE DEF g
  <2> QED
    BY <1>2, <1>5 DEF Runs
<1>7. g[0] = h[0]
  BY <1>3
<1> HIDE DEF g
<1> QED
  BY <1>4, <1>6, <1>7

\* The array holds a value for every item once all are specified.
LEMMA ArrayOfValues ==
  ASSUME Inv, defined = Items
  PROVE  /\ AsArray \in [Items -> Values]
         /\ \A i \in Items : AsArray[i] = View(Mem, i)
  BY InvIsCoherence, ViewIsValue DEF AsArray

--------------------------------------------------------------------------------
(* The steps of the program *)

LEMMA ProgInitInv == ProgInit => ProgInv
<1> SUFFICES ASSUME ProgInit PROVE ProgInv
  OBVIOUS
<1>1. Inv /\ forfeited = {} /\ defined = {}
  BY InitInv DEF ProgInit, Init
<1>2. 0 < N /\ 0 .. 0 - 1 = {} /\ 1 .. 0 = {}
  BY GeometryAssumption, NetworkAssumption
<1>3. pc = "write" /\ pos = 0 /\ swapFlag = FALSE /\ input = <<>> /\ result = <<>>
  BY DEF ProgInit
<1>4. input \in Seq(Values) /\ result \in Seq(Values) /\ Len(input) = 0 /\ Len(result) = 0
  BY <1>3
<1>5. FlagIsCurrent
  BY <1>3 DEF FlagIsCurrent
<1> QED
  BY <1>1, <1>2, <1>3, <1>4, <1>5 DEF ProgInv

\* A loop that has rounds left goes on, or ends after exactly n of them.
LEMMA RoundType ==
  ASSUME pos \in Nat, NEW n \in Nat, pos < n, NEW l, NEW m, Round(l, n, m)
  PROVE  /\ pos' \in Nat
         /\ \/ pos + 1 < n /\ pc' = l /\ pos' = pos + 1
            \/ pos + 1 = n /\ pc' = m /\ pos' = 0
  BY DEF Round

\* The Writer fills the vector front to back.
LEMMA WriteElementStep ==
  ASSUME ProgInv, NEW v \in Values, WriteElement(v)
  PROVE  ProgInv'
<1> DEFINE m == IF Network = <<>> THEN "read" ELSE "compare"
<1>1. /\ Inv /\ forfeited = {} /\ input \in Seq(Values) /\ pos \in Nat /\ pos < N
      /\ Len(input) = pos /\ result = <<>> /\ defined = 0 .. pos - 1
      /\ \A i \in 0 .. pos - 1 : AsArray[i] = input[i + 1]
      /\ swapFlag \in BOOLEAN
  BY DEF ProgInv, WriteElement
<1>2. pos \in Items /\ N \in Nat
  BY <1>1, GeometryAssumption DEF Items
<1>3. /\ Inv' /\ forfeited' = {} /\ defined' = defined \cup {pos}
      /\ AsArray' = [AsArray EXCEPT ![pos] = v]
  BY <1>1, <1>2, PutExact DEF WriteElement
<1>4. input' \in Seq(Values) /\ Len(input') = pos + 1
      /\ input'[pos + 1] = v /\ \A k \in 1 .. pos : input'[k] = input[k]
  BY <1>1 DEF WriteElement
<1>5. swapFlag' \in BOOLEAN /\ result' = <<>> /\ result' \in Seq(Values) /\ Len(result') = 0
  BY <1>1 DEF WriteElement
<1>6. /\ pos' \in Nat
      /\ \/ pos + 1 < N /\ pc' = "write" /\ pos' = pos + 1
         \/ pos + 1 = N /\ pc' = m /\ pos' = 0
  BY <1>1, <1>2, RoundType DEF WriteElement
<1> HIDE DEF m
<1>7. defined' = 0 .. pos
  BY <1>1, <1>3
<1>8. \A i \in 0 .. pos : AsArray'[i] = input'[i + 1]
  <2>1. AsArray'[pos] = v /\ \A i \in 0 .. pos - 1 : AsArray'[i] = AsArray[i]
    <3>1. DOMAIN AsArray = Items /\ \A i \in 0 .. pos - 1 : i \in Items /\ i # pos
      BY <1>1, <1>2 DEF AsArray, Items
    <3> QED
      BY <3>1, <1>2, <1>3
  <2> SUFFICES ASSUME NEW i \in 0 .. pos
               PROVE  AsArray'[i] = input'[i + 1]
    OBVIOUS
  <2>2. CASE i = pos
    BY <2>1, <2>2, <1>4
  <2>3. CASE i \in 0 .. pos - 1
    BY <2>1, <2>3, <1>1, <1>4
  <2> QED
    BY <2>2, <2>3, <1>1
<1>9. CASE pos + 1 < N
  <2>1. pc' = "write" /\ pos' = pos + 1 /\ pos' - 1 = pos
    <3>1. pos \in Nat /\ N \in Nat /\ pos + 1 # N
      BY <1>1, <1>2, <1>9
    <3>2. pc' = "write" /\ pos' = pos + 1
      BY <3>1, <1>6
    <3> QED
      BY <3>1, <3>2
  <2> QED
    BY <2>1, <1>1, <1>3, <1>4, <1>5, <1>6, <1>7, <1>8, <1>9 DEF ProgInv, FlagIsCurrent
<1>10. CASE pos + 1 = N
  <2>1. pc' = m /\ pos' = 0
    BY <1>1, <1>2, <1>6, <1>10
  <2>2. defined' = Items /\ Len(input') = N /\ \A i \in Items : AsArray'[i] = input'[i + 1]
    BY <1>1, <1>4, <1>7, <1>8, <1>10 DEF Items
  <2>3. Permuted'
    <3> DEFINE f == [i \in Items |-> i + 1]
    <3>1. /\ f \in [Items -> 1 .. N]
          /\ \A k, l \in Items : f[k] = f[l] => k = l
          /\ \A t \in 1 .. N : t - 1 \in Items /\ f[t - 1] = t
      BY <1>2 DEF Items
    <3>2. \A i \in Items : AsArray'[i] = input'[f[i]]
      BY <2>2
    <3>3. f \in Bijection(Items, 1 .. N)
      <4> HIDE DEF f
      <4> QED
        BY <3>1 DEF Bijection, Injection, Surjection, IsInjective
    <3> HIDE DEF f
    <3> QED
      BY <3>2, <3>3 DEF Permuted
  <2>4. Ran(0)'
    <3> DEFINE h == [k \in 0 .. 0 |-> AsArray']
    <3>1. AsArray' \in [Items -> Values]
      <4>1. \A i \in Items : AsArray'[i] \in Values
        <5>1. \A i \in Items : i + 1 \in 1 .. N
          BY <1>2 DEF Items
        <5>2. \A k \in 1 .. N : input'[k] \in Values
          BY <1>4, <2>2
        <5> QED
          BY <5>1, <5>2, <2>2
      <4>2. AsArray' = [i \in Items |-> AsArray'[i]]
        BY <1>3 DEF AsArray
      <4> QED
        BY <4>1, <4>2
    <3>2. h \in Runs(0)
      BY <3>1 DEF Runs
    <3>3. h[0] = AsArray'
      OBVIOUS
    <3> HIDE DEF h
    <3> QED
      BY <2>2, <3>2, <3>3 DEF Ran
  <2>5. Finished' = 0
    <3>1. Network = <<>> => Len(Network) = 0
      OBVIOUS
    <3> QED
      BY <3>1, <2>1 DEF Finished, m
  <2>6. Network # <<>> => 0 < Len(Network)
    BY NetworkAssumption
  <2>7. Ran(Finished)'
    BY <2>4, <2>5
  <2>8. 0 < N
    BY <1>2, NetworkAssumption
  <2>9. pc' = "read" \/ (pc' = "compare" /\ Network # <<>>)
    BY <2>1 DEF m
  <2> QED
    BY <2>1, <2>2, <2>3, <2>6, <2>7, <2>8, <2>9, <1>3, <1>4, <1>5 DEF ProgInv, FlagIsCurrent
<1> QED
  BY <1>9, <1>10, <1>6

\* The comparison leaves the vector as it is, and its result describes it.
LEMMA CompareStep ==
  ASSUME SwapsApart, ProgInv, Compare
  PROVE  ProgInv'
<1> DEFINE c == Network[pos + 1]
           m == SwapThrough(c.l, c.r, FALSE)
<1>1. /\ Inv /\ forfeited = {} /\ input \in Seq(Values) /\ pos \in Nat /\ pos < Len(Network)
      /\ Len(input) = N /\ result = <<>> /\ defined = Items /\ Permuted /\ Ran(pos)
      /\ pc = "compare"
  BY DEF ProgInv, Compare, Finished
<1>2. c.l \in Items /\ c.r \in Items /\ c.dire \in BOOLEAN /\ Apart(c.l, c.r)
  BY <1>1, ComparatorType
<1>3. /\ pc' = "swap" /\ pos' = pos /\ input' = input /\ result' = result
      /\ CondSwap(c.l, c.r, FALSE)
      /\ swapFlag' = (c.dire # (Deref(m, c.l) < Deref(m, c.r)))
  BY DEF Compare
<1> HIDE DEF c
<1>4. Inv' /\ forfeited' = {} /\ defined' = Items /\ AsArray' = AsArray
  BY <1>1, <1>2, <1>3, CondSwapExact
<1>5. Deref(m, c.l) = View(Mem', c.l) /\ Deref(m, c.r) = View(Mem', c.r)
  BY <1>1, <1>2, <1>3, <1>4, CompareSees
<1>6. swapFlag' \in BOOLEAN
  BY <1>2, <1>3
<1>7. FlagIsCurrent'
  <2>1. Network[pos' + 1] = c
    BY <1>3 DEF c
  <2> QED
    BY <2>1, <1>3, <1>5 DEF FlagIsCurrent
<1>8. Permuted' /\ Ran(Finished)'
  <2>1. Finished' = pos
    BY <1>3 DEF Finished
  <2> QED
    BY <2>1, <1>1, <1>3, <1>4 DEF Permuted, Ran
<1> QED
  BY <1>1, <1>3, <1>4, <1>6, <1>7, <1>8 DEF ProgInv

\* The swap makes of the vector what its comparator makes of an array in memory.
LEMMA SwapStep ==
  ASSUME SwapsApart, ProgInv, Swap
  PROVE  /\ ProgInv'
         /\ AsArray' = Exchange(AsArray, Network[pos + 1])
<1> DEFINE c == Network[pos + 1]
<1>1. /\ Inv /\ forfeited = {} /\ input \in Seq(Values) /\ pos \in Nat /\ pos < Len(Network)
      /\ Len(input) = N /\ result = <<>> /\ defined = Items /\ Permuted /\ Ran(pos)
      /\ pc = "swap" /\ swapFlag \in BOOLEAN
  BY DEF ProgInv, Swap, Finished
<1>2. c.l \in Items /\ c.r \in Items /\ c.dire \in BOOLEAN /\ Apart(c.l, c.r)
  BY <1>1, ComparatorType
<1>3. /\ input' = input /\ result' = result /\ swapFlag' = swapFlag
      /\ CondSwap(c.l, c.r, swapFlag)
      /\ Round("compare", Len(Network), "read")
  BY DEF Swap
<1>4. AsArray \in [Items -> Values] /\ \A i \in Items : AsArray[i] = View(Mem, i)
  BY <1>1, ArrayOfValues
<1>5. swapFlag = (c.dire # (AsArray[c.l] < AsArray[c.r]))
  <2>1. swapFlag = (c.dire # (View(Mem, c.l) < View(Mem, c.r)))
    BY <1>1 DEF ProgInv, FlagIsCurrent
  <2> QED
    BY <2>1, <1>2, <1>4
<1> HIDE DEF c
<1>6. /\ Inv' /\ forfeited' = {} /\ defined' = Items
      /\ AsArray' = IF swapFlag
                    THEN [AsArray EXCEPT ![c.l] = AsArray[c.r], ![c.r] = AsArray[c.l]] ELSE AsArray
  BY <1>1, <1>2, <1>3, CondSwapExact
<1>7. AsArray' = Exchange(AsArray, c)
  BY <1>5, <1>6 DEF Exchange
<1>8. AsArray' \in [Items -> Values]
  BY <1>2, <1>4, <1>6
<1>9. Permuted'
  <2>1. PICK f \in Bijection(Items, 1 .. N) : \A i \in Items : AsArray[i] = input[f[i]]
    BY <1>1 DEF Permuted
  <2>2. CASE swapFlag
    BY <2>1, <2>2, <1>2, <1>3, <1>4, <1>6, ExchangePermutes DEF Permuted
  <2>3. CASE ~swapFlag
    BY <2>1, <2>3, <1>3, <1>6 DEF Permuted
  <2> QED
    BY <2>2, <2>3, <1>1
<1>10. \E g \in Runs(pos + 1) : /\ \A i \in Items : g[0][i] = input'[i + 1]
                                /\ g[pos + 1] = AsArray'
  <2>1. PICK h \in Runs(pos) : /\ \A i \in Items : h[0][i] = input[i + 1]
                               /\ h[pos] = AsArray
    BY <1>1 DEF Ran
  <2>2. PICK g \in Runs(pos + 1) : g[0] = h[0] /\ g[pos + 1] = AsArray'
    BY <2>1, <1>1, <1>7, <1>8, RunsOn DEF c
  <2> QED
    BY <2>1, <2>2, <1>3
<1>11. /\ pos' \in Nat
       /\ \/ pos + 1 < Len(Network) /\ pc' = "compare" /\ pos' = pos + 1
          \/ pos + 1 = Len(Network) /\ pc' = "read" /\ pos' = 0
  <2>1. Len(Network) \in Nat
    BY NetworkAssumption
  <2> QED
    BY <2>1, <1>1, <1>3, RoundType
<1>12. Ran(Finished)'
  <2>1. Finished' = pos + 1
    BY <1>11 DEF Finished
  <2> QED
    BY <2>1, <1>10 DEF Ran
<1>13. FlagIsCurrent'
  BY <1>11 DEF FlagIsCurrent
<1>14. 0 < N /\ Len(<<>>) = 0 /\ <<>> \in Seq(Values) /\ 1 .. 0 = {}
  BY GeometryAssumption, NetworkAssumption
<1>15. ProgInv'
  <2>1. CASE pc' = "compare" /\ pos' < Len(Network)
    BY <2>1, <1>1, <1>3, <1>6, <1>9, <1>11, <1>12, <1>13, <1>14 DEF ProgInv
  <2>2. CASE pc' = "read" /\ pos' = 0
    BY <2>2, <1>1, <1>3, <1>6, <1>9, <1>11, <1>12, <1>13, <1>14 DEF ProgInv
  <2> QED
    BY <2>1, <2>2, <1>11
<1> QED
  BY <1>7, <1>15 DEF c

\* The reader collects the array, front to back.
LEMMA ReadElementStep ==
  ASSUME ProgInv, ReadElement
  PROVE  ProgInv'
<1>1. /\ Inv /\ forfeited = {} /\ input \in Seq(Values) /\ pos \in Nat /\ pos < N
      /\ Len(input) = N /\ defined = Items /\ Permuted /\ Ran(Len(Network))
      /\ result \in Seq(Values) /\ Len(result) = pos /\ swapFlag \in BOOLEAN
      /\ \A k \in 1 .. Len(result) : result[k] = AsArray[k - 1]
  BY DEF ProgInv, ReadElement, Finished
<1>2. pos \in Items /\ N \in Nat
  BY <1>1, GeometryAssumption DEF Items
<1>3. /\ input' = input /\ swapFlag' = swapFlag /\ result' = Append(result, out'.val)
      /\ Get(pos) /\ Round("read", N, "done")
  BY DEF ReadElement
<1>4. /\ Inv' /\ forfeited' = {} /\ defined' = Items /\ AsArray' = AsArray
      /\ out'.val = AsArray[pos] /\ AsArray[pos] \in Values
  BY <1>1, <1>2, <1>3, GetExact
<1>5. result' \in Seq(Values) /\ Len(result') = pos + 1
  BY <1>1, <1>3, <1>4
<1>6. ASSUME NEW k \in 1 .. Len(result')
      PROVE  result'[k] = AsArray'[k - 1]
  <2>1. CASE k = pos + 1
    BY <2>1, <1>1, <1>3, <1>4
  <2>2. CASE k \in 1 .. pos
    BY <2>2, <1>1, <1>3, <1>4
  <2> QED
    BY <2>1, <2>2, <1>1, <1>5
<1>7. /\ pos' \in Nat
      /\ \/ pos + 1 < N /\ pc' = "read" /\ pos' = pos + 1
         \/ pos + 1 = N /\ pc' = "done" /\ pos' = 0
  BY <1>1, <1>2, <1>3, RoundType
<1>8. Permuted' /\ Ran(Finished)'
  <2>1. Finished' = Len(Network)
    BY <1>7 DEF Finished
  <2> QED
    BY <2>1, <1>1, <1>3, <1>4 DEF Permuted, Ran
<1>9. FlagIsCurrent'
  BY <1>7 DEF FlagIsCurrent
<1>10. CASE pc' = "read" /\ pos' = pos + 1 /\ pos + 1 < N
  BY <1>10, <1>1, <1>3, <1>4, <1>5, <1>6, <1>7, <1>8, <1>9 DEF ProgInv
<1>11. CASE pc' = "done" /\ pos + 1 = N
  BY <1>11, <1>1, <1>3, <1>4, <1>5, <1>6, <1>7, <1>8, <1>9 DEF ProgInv
<1> QED
  BY <1>7, <1>10, <1>11

\* Every step keeps the invariant.
LEMMA ProgStep ==
  ASSUME SwapsApart, ProgInv, [ProgNext]_progVars
  PROVE  ProgInv'
<1>1. CASE UNCHANGED progVars
  <2>1. /\ store' = store /\ slots' = slots /\ out' = out /\ defined' = defined
        /\ forfeited' = forfeited /\ pc' = pc /\ pos' = pos /\ swapFlag' = swapFlag
        /\ input' = input /\ result' = result
    BY <1>1 DEF progVars
  <2>2. Mem' = Mem
    BY <2>1 DEF Mem
  <2>3. AsArray' = AsArray
    BY <2>1, <2>2 DEF AsArray
  <2>4. Inv'
    BY <2>1, <2>2 DEF ProgInv, Inv, TypeOK, DirtyInPlace, CleanMatchesServer, ForfeitedIsCached, Hit
  <2>5. FlagIsCurrent'
    BY <2>1, <2>2 DEF ProgInv, FlagIsCurrent
  <2>6. (Permuted <=> Permuted') /\ (Ran(Finished) <=> Ran(Finished)')
    BY <2>1, <2>3 DEF Permuted, Ran, Finished
  <2> QED
    BY <2>1, <2>3, <2>4, <2>5, <2>6 DEF ProgInv
<1>2. CASE \E v \in Values : WriteElement(v)
  BY <1>2, WriteElementStep
<1>3. CASE Compare
  BY <1>3, CompareStep
<1>4. CASE Swap
  BY <1>4, SwapStep
<1>5. CASE ReadElement
  BY <1>5, ReadElementStep
<1> QED
  BY <1>1, <1>2, <1>3, <1>4, <1>5 DEF ProgNext

LEMMA ProgInvariance ==
  ASSUME SwapsApart
  PROVE  Program => []ProgInv
<1>1. ProgInv /\ [ProgNext]_progVars => ProgInv'
  BY ProgStep
<1> QED
  BY ProgInitInv, <1>1, PTL DEF Program

--------------------------------------------------------------------------------
(* What the invariant says *)

\* The bijection f from S to T maps A onto B.
MapsOnto(f, S, T, A, B) ==
  /\ IsFiniteSet(S) /\ f \in Bijection(S, T)
  /\ A \in SUBSET S /\ B \in SUBSET T
  /\ \A k \in S : k \in A <=> f[k] \in B

\* A bijection keeps the number of elements that have a given value.
LEMMA SameCount ==
  ASSUME NEW f, NEW S, NEW T, NEW A, NEW B, MapsOnto(f, S, T, A, B)
  PROVE  Cardinality(A) = Cardinality(B)
<1> USE DEF MapsOnto
<1> DEFINE g == [k \in A |-> f[k]]
<1>1. /\ f \in [S -> T]
      /\ \A k, l \in S : f[k] = f[l] => k = l
      /\ \A t \in T : \E k \in S : f[k] = t
  BY DEF Bijection, Injection, Surjection, IsInjective
<1>2. g \in [A -> B]
  BY <1>1
<1>3. \A k, l \in A : g[k] = g[l] => k = l
  BY <1>1
<1>4. \A t \in B : \E k \in A : g[k] = t
  <2> SUFFICES ASSUME NEW t \in B
               PROVE  \E k \in A : g[k] = t
    OBVIOUS
  <2>1. PICK k \in S : f[k] = t
    BY <1>1
  <2> QED
    BY <2>1
<1>5. g \in Bijection(A, B)
  <2> HIDE DEF g
  <2> QED
    BY <1>2, <1>3, <1>4 DEF Bijection, Injection, Surjection, IsInjective
<1>6. ExistsBijection(A, B)
  BY <1>5 DEF ExistsBijection
<1>7. IsFiniteSet(A)
  BY FS_Subset
<1> QED
  BY <1>6, <1>7, FS_Bijection

\* condSwap through the direct-mapped cache exchanges the two elements that were compared
\* and no others, so that no element is lost or doubled, for every number of elements,
\* every size of page and cache and every network whose pairs do not collide in a slot.
THEOREM ExactSwaps ==
  ASSUME SwapsApart
  PROVE  Program => []SwapsExact
<1>1. ASSUME ProgInv PROVE SwapsExact
  <2>1. FlagIsCurrent
    BY <1>1 DEF ProgInv
  <2>2. ASSUME pc \in {"compare", "swap", "read"}, NEW v \in Values
        PROVE  Cardinality({i \in Items : View(Mem, i) = v}) = Cardinality(Occurrences(v, input))
    <3>1. Inv /\ defined = Items /\ Permuted /\ input \in Seq(Values) /\ Len(input) = N
      BY <1>1, <2>2 DEF ProgInv
    <3>2. PICK f \in Bijection(Items, 1 .. N) : \A i \in Items : AsArray[i] = input[f[i]]
      BY <3>1 DEF Permuted
    <3>3. \A i \in Items : AsArray[i] = View(Mem, i)
      BY <3>1, ArrayOfValues
    <3>4. f \in [Items -> 1 .. N] /\ DOMAIN input = 1 .. N
      BY <3>1 DEF Bijection, Injection
    <3>5. IsFiniteSet(Items)
      BY GeometryAssumption, FS_Interval DEF Items
    <3> DEFINE A == {i \in Items : View(Mem, i) = v}
               B == Occurrences(v, input)
    <3>6. B \in SUBSET (1 .. N) /\ A \in SUBSET Items
      BY <3>4 DEF Occurrences
    <3>7. \A i \in Items : i \in A <=> f[i] \in B
      BY <3>2, <3>3, <3>4 DEF Occurrences
    <3> HIDE DEF A, B
    <3>8. MapsOnto(f, Items, 1 .. N, A, B)
      BY <3>5, <3>6, <3>7 DEF MapsOnto
    <3>9. Cardinality(A) = Cardinality(B)
      BY <3>8, SameCount
    <3> QED
      BY <3>9 DEF A, B
  <2> QED
    BY <2>1, <2>2 DEF SwapsExact, KeepsElements
<1> QED
  BY ProgInvariance, <1>1, PTL

\* From the end of the writing on the vector holds, behind its cache, exactly what the
\* comparators finished so far make of the written elements in memory.
THEOREM FollowsNetwork ==
  ASSUME SwapsApart
  PROVE  Program => [](pc # "write" => Ran(Finished))
<1>1. ProgInv => (pc # "write" => Ran(Finished))
  BY DEF ProgInv
<1> QED
  BY ProgInvariance, <1>1, PTL

\* The comparators sort every array in memory.
NetworkSorts ==
  \A h \in Runs(Len(Network)) :
    \A i \in 0 .. N - 2 : h[Len(Network)][i] <= h[Len(Network)][i + 1]

\* A network of comparators that sorts arrays in memory sorts the external-memory vector:
\* what the program reads back is sorted and holds every key as often as it was written.
THEOREM SortsThroughCache ==
  ASSUME SwapsApart, NetworkSorts
  PROVE  Program => []SortedAtTheEnd
<1>1. ASSUME ProgInv PROVE SortedAtTheEnd
  <2> SUFFICES ASSUME pc = "done" PROVE SortedAtTheEnd
    BY DEF SortedAtTheEnd
  <2>1. /\ Inv /\ defined = Items /\ Permuted /\ Ran(Len(Network))
        /\ input \in Seq(Values) /\ Len(input) = N
        /\ result \in Seq(Values) /\ Len(result) = N
        /\ \A k \in 1 .. N : result[k] = AsArray[k - 1]
    BY <1>1 DEF ProgInv, Finished
  <2>2. N \in Nat
    BY GeometryAssumption
  <2>3. ASSUME NEW k \in 1 .. N - 1
        PROVE  result[k] <= result[k + 1]
    <3>1. PICK h \in Runs(Len(Network)) : h[Len(Network)] = AsArray
      BY <2>1 DEF Ran
    <3>2. k - 1 \in 0 .. N - 2 /\ k \in 1 .. N /\ k + 1 \in 1 .. N /\ (k - 1) + 1 = k /\ (k + 1) - 1 = k
      BY <2>2
    <3>3. AsArray[k - 1] <= AsArray[k]
      BY <3>1, <3>2 DEF NetworkSorts
    <3>4. result[k] = AsArray[k - 1] /\ result[k + 1] = AsArray[k]
      BY <2>1, <3>2
    <3> QED
      BY <3>3, <3>4
  <2>4. ASSUME NEW v \in Values
        PROVE  Cardinality(Occurrences(v, result)) = Cardinality(Occurrences(v, input))
    <3>1. PICK f \in Bijection(Items, 1 .. N) : \A i \in Items : AsArray[i] = input[f[i]]
      BY <2>1 DEF Permuted
    <3>2. /\ f \in [Items -> 1 .. N]
          /\ \A k, l \in Items : f[k] = f[l] => k = l
          /\ \A t \in 1 .. N : \E k \in Items : f[k] = t
      BY DEF Bijection, Injection, Surjection, IsInjective
    <3> DEFINE g == [k \in 1 .. N |-> f[k - 1]]
    <3>3. /\ \A k \in 1 .. N : k - 1 \in Items
          /\ \A i \in Items : i + 1 \in 1 .. N /\ (i + 1) - 1 = i
          /\ \A k, l \in 1 .. N : k - 1 = l - 1 => k = l
      BY <2>2 DEF Items
    <3>4. /\ g \in [1 .. N -> 1 .. N]
          /\ \A k, l \in 1 .. N : g[k] = g[l] => k = l
      BY <3>2, <3>3
    <3>5. ASSUME NEW t \in 1 .. N
          PROVE  \E k \in 1 .. N : g[k] = t
      <4>1. PICK i \in Items : f[i] = t
        BY <3>2
      <4>2. i + 1 \in 1 .. N /\ g[i + 1] = t
        BY <4>1, <3>3
      <4> QED
        BY <4>2
    <3>6. \A k \in 1 .. N : result[k] = input[g[k]]
      BY <2>1, <3>1, <3>3
    <3> HIDE DEF g
    <3>7. g \in Bijection(1 .. N, 1 .. N)
      BY <3>4, <3>5 DEF Bijection, Injection, Surjection, IsInjective
    <3>8. DOMAIN result = 1 .. N /\ DOMAIN input = 1 .. N /\ IsFiniteSet(1 .. N)
      BY <2>1, <2>2, FS_Interval
    <3>9. /\ Occurrences(v, result) \in SUBSET (1 .. N)
          /\ Occurrences(v, input) \in SUBSET (1 .. N)
          /\ \A k \in 1 .. N : k \in Occurrences(v, result) <=> g[k] \in Occurrences(v, input)
      BY <3>4, <3>6, <3>8 DEF Occurrences
    <3>10. MapsOnto(g, 1 .. N, 1 .. N, Occurrences(v, result), Occurrences(v, input))
      BY <3>7, <3>8, <3>9 DEF MapsOnto
    <3> QED
      BY <3>10, SameCount
  <2> QED
    BY <2>3, <2>4 DEF SortedAtTheEnd
<1> QED
  BY ProgInvariance, <1>1, PTL
================================================================================
