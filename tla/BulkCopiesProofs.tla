--------------------------- MODULE BulkCopiesProofs ----------------------------
(***************************************************************************)
(* The copy and fill loops of a cached vector move their items and no      *)
(* others, for every geometry of pages and cache and every range.          *)
(***************************************************************************)
EXTENDS BulkCopies, CachedVectorProofs

Storing == {"Copy", "CopyForLateInit", "FillForLateInit"}

Task ==
  [fn : Storing \cup {"CopyWithoutWriteBackInput"}, begin : Items, to : 0 .. N, end : 0 .. N,
   src : Seq(Values), before : [Items -> Values \cup {Unspecified}]]

\* What the loop stores in item i.
Stored(i) == IF task.fn = "FillForLateInit" THEN task.src[1] ELSE task.src[i - task.begin + 1]

\* The call's arguments, and the length of its buffer.
TaskOK ==
  /\ task \in Task
  /\ task.begin < task.end /\ task.begin <= task.to /\ task.to <= task.end
  /\ task.fn \in {"Copy", "CopyForLateInit"} => task.end - task.begin <= Len(task.src)
  /\ task.fn = "FillForLateInit" => Len(task.src) = 1
  /\ task.fn = "CopyWithoutWriteBackInput" => Len(task.src) = task.to - task.begin

\* A loop that stores: items it has reached hold what it stored, items outside what they
\* held, and no page of these may be dropped.  The page it is in is cached.
StoringOK ==
  task.fn \in Storing =>
    /\ \A i \in Items :
         /\ i \in task.begin .. task.to - 1 => AsArray[i] = Stored(i) /\ PageOf(i) \notin forfeited
         /\ i \notin task.begin .. task.end - 1 /\ task.before[i] # Unspecified =>
              AsArray[i] = task.before[i] /\ PageOf(i) \notin forfeited
    /\ task.begin < task.to => Hit(Mem, PageOf(task.to - 1))

\* A loop that copies out: it has read the items it has reached, and those ahead are as they
\* were.  It has forfeited none of their pages but the one it is in.
ReadingOK ==
  task.fn = "CopyWithoutWriteBackInput" =>
    \A i \in Items : task.before[i] # Unspecified =>
      /\ i \in task.begin .. task.to - 1 => task.src[i - task.begin + 1] = task.before[i]
      /\ i \in task.to .. task.end - 1 =>
           /\ AsArray[i] = task.before[i]
           /\ PageOf(i) \in forfeited => task.begin < task.to /\ PageOf(i) = PageOf(task.to - 1)

BulkInv == Inv /\ (task = NoTask \/ (TaskOK /\ StoringOK /\ ReadingOK))

--------------------------------------------------------------------------------
(* Pages of a range *)

\* Page and offset of an item.
LEMMA PageParts ==
  ASSUME NEW i \in Nat
  PROVE  /\ PageOf(i) \in Nat /\ OffsetOf(i) \in 0 .. item_per_page - 1
         /\ i = item_per_page * PageOf(i) + OffsetOf(i)
<1>1. item_per_page \in Nat \ {0}
  BY GeometryAssumption
<1> QED
  BY <1>1 DEF PageOf, OffsetOf

\* Pages follow one another.
LEMMA PageMonotone ==
  ASSUME NEW i \in Nat, NEW j \in Nat, i <= j
  PROVE  PageOf(i) <= PageOf(j)
<1>1. item_per_page \in Nat \ {0}
  BY GeometryAssumption
<1> QED
  BY <1>1 DEF PageOf

\* Items next to each other are on one page, or the second one begins a page.
LEMMA PageGoesOn ==
  ASSUME NEW i \in Nat, i # 0, OffsetOf(i) # 0
  PROVE  PageOf(i - 1) = PageOf(i)
<1>1. item_per_page \in Nat \ {0} /\ i - 1 \in Nat
  BY GeometryAssumption
<1>2. /\ PageOf(i) \in Nat /\ OffsetOf(i) \in 0 .. item_per_page - 1
      /\ i = item_per_page * PageOf(i) + OffsetOf(i)
  BY PageParts
<1>3. /\ PageOf(i - 1) \in Nat /\ OffsetOf(i - 1) \in 0 .. item_per_page - 1
      /\ i - 1 = item_per_page * PageOf(i - 1) + OffsetOf(i - 1)
  BY <1>1, PageParts
<1> DEFINE p == PageOf(i)
           q == PageOf(i - 1)
           x == OffsetOf(i) - 1
           y == OffsetOf(i - 1)
<1>4. item_per_page * p + x = item_per_page * q + y
  BY <1>1, <1>2, <1>3
<1>5. p \in Nat /\ q \in Nat /\ x \in 0 .. item_per_page - 1 /\ y \in 0 .. item_per_page - 1
  BY <1>1, <1>2, <1>3
<1> HIDE DEF p, q, x, y
<1>6. p = q
  <2>1. ASSUME p < q PROVE FALSE
    <3>1. item_per_page * p + item_per_page <= item_per_page * q
      BY <2>1, <1>1, <1>5
    <3> QED
      BY <3>1, <1>1, <1>4, <1>5
  <2>2. ASSUME q < p PROVE FALSE
    <3>1. item_per_page * q + item_per_page <= item_per_page * p
      BY <2>2, <1>1, <1>5
    <3> QED
      BY <3>1, <1>1, <1>4, <1>5
  <2> QED
    BY <2>1, <2>2, <1>5
<1> QED
  BY <1>6 DEF p, q

\* The first item that a loop stores with derefWriteOnly begins a page.
LEMMA WriteOnlyBegins ==
  ASSUME NEW b \in Items, NEW e \in 0 .. N, b \in WriteOnlyItems(b, e)
  PROVE  OffsetOf(b) = 0
<1>1. item_per_page \in Nat \ {0} /\ b \in Nat
  BY GeometryAssumption DEF Items
<1>2. OffsetOf(b) \in 0 .. item_per_page - 1
  BY <1>1, PageParts
<1>3. b + ((item_per_page - OffsetOf(b)) % item_per_page) <= b
  BY DEF WriteOnlyItems, firstFullPage
<1> DEFINE x == item_per_page - OffsetOf(b)
<1>4. x \in 1 .. item_per_page /\ x \in Nat /\ x % item_per_page \in Nat
  BY <1>1, <1>2
<1>5. x % item_per_page = 0
  BY <1>1, <1>3, <1>4
<1>6. ASSUME x # item_per_page PROVE FALSE
  <2>1. x < item_per_page /\ 0 < x
    BY <1>1, <1>4, <1>6
  <2>2. x % item_per_page = x
    BY <2>1, <1>1, <1>4
  <2> QED
    BY <2>1, <2>2, <1>5
<1> QED
  BY <1>1, <1>2, <1>6

\* A page that is written without being read is overwritten altogether.
LEMMA WriteOnlyCovers ==
  ASSUME NEW b \in Items, NEW e \in 0 .. N, NEW t \in WriteOnlyItems(b, e), OffsetOf(t) = 0,
         NEW i \in Items, PageOf(i) = PageOf(t)
  PROVE  t <= i /\ i < e
<1>1. item_per_page \in Nat \ {0} /\ t \in Nat /\ i \in Nat /\ e \in Nat
  BY GeometryAssumption DEF Items, WriteOnlyItems
<1> DEFINE p == PageOf(t)
           q == PageOf(e)
<1>2. p \in Nat /\ t = item_per_page * p
  BY <1>1, PageParts
<1>3. OffsetOf(i) \in 0 .. item_per_page - 1 /\ i = item_per_page * p + OffsetOf(i)
  BY <1>1, PageParts
<1>4. q \in Nat /\ OffsetOf(e) \in Nat /\ e = item_per_page * q + OffsetOf(e)
  BY <1>1, PageParts
<1>5. t < e - OffsetOf(e)
  BY DEF WriteOnlyItems, fullPageEnd
<1> HIDE DEF p, q
<1>6. item_per_page * p < item_per_page * q
  BY <1>1, <1>2, <1>4, <1>5
<1>7. p < q
  <2>1. ASSUME q <= p PROVE FALSE
    <3>1. item_per_page * q <= item_per_page * p
      BY <2>1, <1>1, <1>2, <1>4
    <3> QED
      BY <3>1, <1>1, <1>2, <1>4, <1>6
  <2> QED
    BY <2>1, <1>2, <1>4
<1>8. item_per_page * p + item_per_page <= item_per_page * q
  BY <1>1, <1>2, <1>4, <1>7
<1> QED
  BY <1>1, <1>2, <1>3, <1>4, <1>8

--------------------------------------------------------------------------------
(* What one access of a loop does *)

\* AccessDM leaves the page in its slot.
LEMMA StaysCached ==
  ASSUME Inv, NEW i \in Items, NEW v \in Values, Put(i, v) \/ PutWriteOnly(i, v)
  PROVE  Hit(Mem', PageOf(i))
<1> DEFINE p == PageOf(i)
<1>1. Mem \in Memory /\ p \in Pages /\ GetMappedSlot(p) \in SlotIds
  BY InvIsCoherence, ItemInPage, MappedSlotInRange
<1>2. PICK a \in Memory : Hit(a, p) /\ Becomes(Poke(a, i, v))
  <2>1. CASE Put(i, v)
    <3>1. Accessed(Mem, Access(Mem, p), p, Mem.slots[GetMappedSlot(p)], TRUE, FALSE, TRUE)
      BY <1>1, AccessFacts DEF Access
    <3> QED
      BY <2>1, <3>1 DEF Put, Accessed, Hit
  <2>2. CASE PutWriteOnly(i, v)
    <3>1. Accessed(Mem, AccessWriteOnly(Mem, p), p, Mem.slots[GetMappedSlot(p)], TRUE, TRUE, TRUE)
      BY <1>1, AccessFacts DEF AccessWriteOnly
    <3> QED
      BY <2>2, <3>1 DEF PutWriteOnly, Accessed, Hit
  <2> QED
    BY <2>1, <2>2
<1>3. Poked(a, Poke(a, i, v), i, v)
  BY <1>2, PokeFacts
<1>4. Mem'.slots = Poke(a, i, v).slots
  BY <1>2 DEF Becomes, Mem
<1> QED
  BY <1>2, <1>3, <1>4 DEF Poked, Hit

\* What a store into item i leaves of the array: the items of pages that are not forfeited,
\* those of i's own page only if kept holds.
Leaves(i, v, kept) ==
  /\ Inv' /\ AsArray'[i] = v /\ Hit(Mem', PageOf(i))
  /\ forfeited' \subseteq forfeited /\ PageOf(i) \notin forfeited'
  /\ \A k \in Items \ {i} :
       /\ PageOf(k) \notin forfeited /\ AsArray[k] # Unspecified
       /\ PageOf(k) = PageOf(i) => kept
       => AsArray'[k] = AsArray[k]

LEMMA PutLeaves ==
  ASSUME Inv, NEW i \in Items, NEW v \in Values, Put(i, v)
  PROVE  Leaves(i, v, TRUE)
<1>1. Inv' /\ Array!Put(i, v)
  BY PutStep
<1>2. PICK L \in SUBSET forfeited : AsArray' = [Array!Forget(AsArray, L) EXCEPT ![i] = v]
  BY <1>1 DEF Array!Put, Array!Lossy
<1>3. /\ AsArray'[i] = v
      /\ \A k \in Items \ {i} : PageOf(k) \notin L => AsArray'[k] = AsArray[k]
  BY <1>2 DEF Array!Forget, Array!Items, Array!PageOf, Items, PageOf
<1>4. forfeited' \subseteq forfeited /\ PageOf(i) \notin forfeited'
  BY DEF Put
<1>5. Hit(Mem', PageOf(i))
  BY StaysCached
<1> QED
  BY <1>1, <1>2, <1>3, <1>4, <1>5 DEF Leaves

LEMMA PutWriteOnlyLeaves ==
  ASSUME Inv, NEW i \in Items, NEW v \in Values, PutWriteOnly(i, v)
  PROVE  Leaves(i, v, Hit(Mem, PageOf(i)))
<1> DEFINE p == PageOf(i)
<1>1. Inv' /\ Array!PutWriteOnly(i, v)
  BY PutWriteOnlyStep
<1>2. PICK L \in SUBSET (forfeited \ {p}), K \in {{}, {p}} :
        AsArray' = [Array!Forget(AsArray, L \cup K) EXCEPT ![i] = v]
  BY <1>1 DEF Array!PutWriteOnly, Array!Lossy, Array!PageOf, PageOf
<1>3. /\ AsArray'[i] = v
      /\ \A k \in Items \ {i} :
           AsArray'[k] = IF PageOf(k) \in L \cup K THEN Unspecified ELSE AsArray[k]
  BY <1>2 DEF Array!Forget, Array!Items, Array!PageOf, Items, PageOf
<1>4. forfeited' \subseteq forfeited /\ PageOf(i) \notin forfeited'
  BY DEF PutWriteOnly
<1>5. Hit(Mem', PageOf(i))
  BY StaysCached
<1>6. ASSUME NEW k \in Items \ {i}, PageOf(k) \notin forfeited, AsArray[k] # Unspecified,
             PageOf(k) = p => Hit(Mem, p)
      PROVE  AsArray'[k] = AsArray[k]
  <2>1. CASE PageOf(k) # p
    BY <2>1, <1>2, <1>3, <1>6
  <2>2. CASE PageOf(k) = p
    <3>1. k \in defined
      BY <1>6 DEF AsArray
    <3>2. k \in defined'
      BY <2>2, <3>1, <1>6 DEF PutWriteOnly, Forgotten, Evicted
    <3>3. AsArray'[k] \in Values
      <4>1. Mem' \in Memory
        BY <1>1 DEF Inv, TypeOK, Mem, Memory
      <4> QED
        BY <4>1, <3>2, ViewIsValue DEF AsArray
    <3>4. AsArray'[k] # Unspecified
      BY <3>3, GeometryAssumption
    <3> QED
      BY <3>4, <1>3
  <2> QED
    BY <2>1, <2>2
<1> QED
  BY <1>1, <1>3, <1>4, <1>5, <1>6 DEF Leaves

\* A read with derefNoWriteBack forfeits at most its own page, and drops no other value.
LEMMA GetNoWriteBackLeaves ==
  ASSUME Inv, NEW i \in Items, GetNoWriteBack(i)
  PROVE  /\ Inv' /\ forfeited' \subseteq forfeited \cup {PageOf(i)}
         /\ out'.val \in Values
         /\ AsArray[i] # Unspecified => out'.val = AsArray[i]
         /\ \A k \in Items : PageOf(k) \notin forfeited \/ PageOf(k) = PageOf(i)
                               => AsArray'[k] = AsArray[k]
<1>1. Inv' /\ Array!GetNoWriteBack(i)
  BY GetNoWriteBackStep
<1>2. PICK L \in SUBSET (forfeited \ {PageOf(i)}) :
        /\ Array!Returns(i) /\ AsArray' = Array!Forget(AsArray, L)
        /\ forfeited' \in {forfeited \ L, (forfeited \ L) \cup {PageOf(i)}}
  BY <1>1 DEF Array!GetNoWriteBack, Array!Lossy, Array!PageOf, PageOf
<1>3. out'.val \in Values /\ (AsArray[i] # Unspecified => out'.val = AsArray[i])
  BY <1>2 DEF Array!Returns
<1>4. \A k \in Items : PageOf(k) \notin L => AsArray'[k] = AsArray[k]
  BY <1>2 DEF Array!Forget, Array!Items, Array!PageOf, Items, PageOf
<1> QED
  BY <1>1, <1>2, <1>3, <1>4

--------------------------------------------------------------------------------
(* The steps of the loops *)

Counted == task' = [task EXCEPT !.to = @ + 1]

LEMMA BulkInitInv == BulkInit => BulkInv
  BY InitInv DEF BulkInit, BulkInv

\* A loop relies on what is specified and not given up.
LEMMA StartStep ==
  ASSUME BulkInv, NEW begin \in Items, NEW end \in 0 .. N, begin < end,
         NEW fn \in Storing \cup {"CopyWithoutWriteBackInput"}, NEW src \in Seq(Values),
         fn \in {"Copy", "CopyForLateInit"} => end - begin <= Len(src),
         fn = "FillForLateInit" => Len(src) = 1,
         fn = "CopyWithoutWriteBackInput" => src = <<>>,
         Start(fn, begin, end, src)
  PROVE  BulkInv'
<1>1. /\ Inv /\ begin \in Nat /\ begin \in 0 .. N
  BY GeometryAssumption DEF BulkInv, Items
<1>2. /\ task' = [fn |-> fn, begin |-> begin, to |-> begin, end |-> end, src |-> src, before |-> Settled]
      /\ store' = store /\ slots' = slots /\ out' = out /\ defined' = defined
      /\ forfeited' = forfeited
  BY DEF Start, vars
<1>3. /\ task'.fn = fn /\ task'.begin = begin /\ task'.to = begin /\ task'.end = end
      /\ task'.src = src /\ task'.before = Settled
  BY <1>2
<1>4. Mem' = Mem /\ AsArray' = AsArray
  BY <1>2 DEF Mem, AsArray
<1>5. Inv'
  BY <1>1, <1>2, <1>4 DEF Inv, TypeOK, DirtyInPlace, CleanMatchesServer, ForfeitedIsCached, Hit
<1>6. /\ Settled \in [Items -> Values \cup {Unspecified}]
      /\ \A i \in Items : Settled[i] # Unspecified => Settled[i] = AsArray[i] /\ PageOf(i) \notin forfeited
  BY <1>1, InvIsCoherence, ViewIsValue DEF Settled, AsArray
<1>7. task' \in Task
  BY <1>1, <1>2, <1>6 DEF Task
<1>8. TaskOK'
  <2>1. begin <= begin /\ begin <= end /\ (src = <<>> => Len(src) = begin - begin)
    BY <1>1
  <2> HIDE DEF Task
  <2> QED
    BY <2>1, <1>3, <1>7 DEF TaskOK
<1>9. begin .. begin - 1 = {} /\ ~(begin < begin)
  BY <1>1
<1>10. StoringOK'
  BY <1>2, <1>3, <1>4, <1>6, <1>9 DEF StoringOK
<1>11. ReadingOK'
  BY <1>2, <1>3, <1>4, <1>6, <1>9 DEF ReadingOK
<1> QED
  BY <1>5, <1>8, <1>10, <1>11 DEF BulkInv

\* A loop that counts on keeps its arguments.
LEMMA CountedType ==
  ASSUME TaskOK, Running, Counted
  PROVE  /\ task' \in Task
         /\ task.to \in Items /\ task.to \in Nat /\ task.begin \in Nat /\ task.end \in Nat
         /\ task'.fn = task.fn /\ task'.begin = task.begin /\ task'.end = task.end
         /\ task'.src = task.src /\ task'.before = task.before /\ task'.to = task.to + 1
         /\ task.begin <= task'.to /\ task'.to <= task.end
<1>1. /\ task \in Task /\ task.to \in 0 .. N /\ task.end \in 0 .. N /\ task.begin \in Items
      /\ task.begin <= task.to /\ task.to < task.end /\ N \in Nat
  BY GeometryAssumption DEF TaskOK, Running, Task
<1>2. task.to \in Items /\ task.to \in Nat /\ task.begin \in Nat /\ task.end \in Nat
  BY <1>1 DEF Items
<1>3. task.to + 1 \in 0 .. N /\ task.begin <= task.to + 1 /\ task.to + 1 <= task.end
  BY <1>1, <1>2
<1>4. /\ task'.fn = task.fn /\ task'.begin = task.begin /\ task'.end = task.end
      /\ task'.src = task.src /\ task'.before = task.before /\ task'.to = task.to + 1
  BY <1>1 DEF Counted, Task
<1>5. task' \in Task
  BY <1>1, <1>3 DEF Counted, Task
<1> QED
  BY <1>2, <1>3, <1>4, <1>5

\* What a loop stores comes from its source.
LEMMA ReachedIsStored ==
  ASSUME TaskOK, task.fn \in Storing, NEW i \in Nat, task.begin <= i, i < task.end
  PROVE  Stored(i) \in Values
<1>1. /\ task.src \in Seq(Values) /\ Len(task.src) \in Nat
      /\ task.begin \in Nat /\ task.end \in Nat
  BY GeometryAssumption DEF TaskOK, Task, Items
<1>2. CASE task.fn = "FillForLateInit"
  BY <1>1, <1>2 DEF TaskOK, Stored
<1>3. CASE task.fn # "FillForLateInit"
  <2>1. task.fn \in {"Copy", "CopyForLateInit"}
    BY <1>3 DEF Storing
  <2>2. task.end - task.begin <= Len(task.src)
    BY <2>1 DEF TaskOK
  <2>3. i - task.begin + 1 \in 1 .. Len(task.src)
    BY <2>2, <1>1
  <2> QED
    BY <2>3, <1>1, <1>3 DEF Stored
<1> QED
  BY <1>2, <1>3

\* The next value of a loop that stores is one of its source.
LEMMA NextIsStored ==
  ASSUME TaskOK, Running, task.fn \in Storing
  PROVE  task.to \in Items /\ Stored(task.to) \in Values
<1>1. /\ task \in Task /\ task.to \in 0 .. N /\ task.end \in 0 .. N /\ task.begin \in Items
      /\ task.begin <= task.to /\ task.to < task.end /\ N \in Nat
  BY GeometryAssumption DEF TaskOK, Running, Task
<1>2. task.to \in Items /\ task.to \in Nat /\ task.begin \in Nat /\ task.end \in Nat
  BY <1>1 DEF Items
<1> QED
  BY <1>1, <1>2, ReachedIsStored

\* A loop that stores one more item keeps the invariant, if the store keeps what is outside
\* of the rest of its range.
LEMMA StoreStep ==
  ASSUME BulkInv, TaskOK, StoringOK, Running, task.fn \in Storing, Counted,
         NEW kept \in BOOLEAN, Leaves(task.to, Stored(task.to), kept),
         kept \/ \A k \in Items : PageOf(k) = PageOf(task.to) => k \in task.to .. task.end - 1
  PROVE  BulkInv'
<1>1. /\ task' \in Task
      /\ task.to \in Items /\ task.to \in Nat /\ task.begin \in Nat /\ task.end \in Nat
      /\ task'.fn = task.fn /\ task'.begin = task.begin /\ task'.end = task.end
      /\ task'.src = task.src /\ task'.before = task.before /\ task'.to = task.to + 1
      /\ task.begin <= task'.to /\ task'.to <= task.end
  BY CountedType
<1>2. /\ Inv' /\ AsArray'[task.to] = Stored(task.to) /\ Hit(Mem', PageOf(task.to))
      /\ forfeited' \subseteq forfeited /\ PageOf(task.to) \notin forfeited'
  BY DEF Leaves
<1>3. ASSUME NEW k \in Items, PageOf(k) \notin forfeited, AsArray[k] # Unspecified,
             k \notin task.to .. task.end - 1
      PROVE  AsArray'[k] = AsArray[k] /\ PageOf(k) \notin forfeited'
  <2>1. k # task.to
    BY <1>1, <1>3
  <2>2. PageOf(k) = PageOf(task.to) => kept
    BY <1>3
  <2> QED
    BY <2>1, <2>2, <1>2, <1>3 DEF Leaves
<1>4. \A i \in Items : Stored(i)' = Stored(i)
  BY <1>1 DEF Stored
<1>5. TaskOK'
  <2>1. task'.begin < task'.end
    BY <1>1 DEF TaskOK
  <2>2. task.fn # "CopyWithoutWriteBackInput"
    BY DEF Storing
  <2> QED
    BY <2>1, <2>2, <1>1 DEF TaskOK
<1>6. ASSUME NEW i \in Items, i \in task.begin .. task.to
      PROVE  AsArray'[i] = Stored(i) /\ PageOf(i) \notin forfeited'
  <2>1. CASE i = task.to
    BY <2>1, <1>2
  <2>2. CASE i # task.to
    <3>1. i \in task.begin .. task.to - 1 /\ i \notin task.to .. task.end - 1
      BY <2>2, <1>1, <1>6
    <3>2. AsArray[i] = Stored(i) /\ PageOf(i) \notin forfeited
      BY <3>1 DEF StoringOK
    <3>3. Stored(i) \in Values
      BY <3>1, <1>1, ReachedIsStored DEF Items
    <3> QED
      BY <3>1, <3>2, <3>3, <1>3, GeometryAssumption
  <2> QED
    BY <2>1, <2>2
<1>7. ASSUME NEW i \in Items, i \notin task.begin .. task.end - 1, task.before[i] # Unspecified
      PROVE  AsArray'[i] = task.before[i] /\ PageOf(i) \notin forfeited'
  <2>1. AsArray[i] = task.before[i] /\ PageOf(i) \notin forfeited
    BY <1>7 DEF StoringOK
  <2>2. i \notin task.to .. task.end - 1
    BY <1>1, <1>7 DEF TaskOK
  <2> QED
    BY <2>1, <2>2, <1>3, <1>7
<1>8. StoringOK'
  <2>1. task'.to - 1 = task.to
    BY <1>1
  <2> QED
    BY <2>1, <1>1, <1>2, <1>4, <1>6, <1>7 DEF StoringOK
<1>9. ReadingOK'
  BY <1>1 DEF ReadingOK, Storing
<1> QED
  BY <1>2, <1>5, <1>8, <1>9 DEF BulkInv

LEMMA CopyStep ==
  ASSUME BulkInv, Copy
  PROVE  BulkInv' /\ Next
<1>1. task.fn = "Copy" /\ Running /\ Counted /\ Put(task.to, task.src[task.to - task.begin + 1])
  BY DEF Copy, Counted
<1>2. Inv /\ TaskOK /\ StoringOK
  BY <1>1 DEF BulkInv, NoTask, Running
<1>3. task.to \in Items /\ Stored(task.to) \in Values
  BY <1>1, <1>2, NextIsStored DEF Storing
<1>4. Stored(task.to) = task.src[task.to - task.begin + 1]
  BY <1>1 DEF Stored
<1>5. Leaves(task.to, Stored(task.to), TRUE)
  BY <1>1, <1>2, <1>3, <1>4, PutLeaves
<1> QED
  BY <1>1, <1>2, <1>3, <1>4, <1>5, StoreStep DEF Storing, Next

\* A store with derefWriteOnly hits a page the loop has begun, or begins one that it
\* covers altogether.
LEMMA WriteOnlyIsSafe ==
  ASSUME TaskOK, StoringOK, task.fn \in Storing, Running,
         task.to \in WriteOnlyItems(task.begin, task.end)
  PROVE  \/ Hit(Mem, PageOf(task.to))
         \/ \A k \in Items : PageOf(k) = PageOf(task.to) => k \in task.to .. task.end - 1
<1>1. /\ task.to \in Nat /\ task.end \in 0 .. N /\ task.end \in Nat /\ task.begin \in Items
      /\ task.begin \in Nat /\ task.begin <= task.to
  BY GeometryAssumption DEF TaskOK, Task, Items
<1>2. CASE OffsetOf(task.to) = 0
  <2>1. \A k \in Items : PageOf(k) = PageOf(task.to) => task.to <= k /\ k < task.end
    BY <1>1, <1>2, WriteOnlyCovers
  <2>2. \A k \in Items : k \in Int
    BY DEF Items
  <2> QED
    BY <2>1, <2>2, <1>1
<1>3. CASE OffsetOf(task.to) # 0
  <2>1. task.begin # task.to
    BY <1>1, <1>3, WriteOnlyBegins
  <2>2. task.begin < task.to /\ task.to # 0
    BY <2>1, <1>1
  <2>3. Hit(Mem, PageOf(task.to - 1))
    BY <2>2 DEF StoringOK
  <2>4. PageOf(task.to - 1) = PageOf(task.to)
    BY <2>2, <1>1, <1>3, PageGoesOn
  <2> QED
    BY <2>3, <2>4
<1> QED
  BY <1>2, <1>3

LEMMA LateInitStep ==
  ASSUME BulkInv, task.fn \in {"CopyForLateInit", "FillForLateInit"}, Running, Counted,
         IF task.to \in WriteOnlyItems(task.begin, task.end)
         THEN PutWriteOnly(task.to, Stored(task.to)) ELSE Put(task.to, Stored(task.to))
  PROVE  BulkInv' /\ Next
<1>1. Inv /\ TaskOK /\ StoringOK /\ task.fn \in Storing
  BY DEF BulkInv, NoTask, Running, Storing
<1>2. task.to \in Items /\ Stored(task.to) \in Values
  BY <1>1, NextIsStored
<1>3. CASE task.to \in WriteOnlyItems(task.begin, task.end)
  <2> DEFINE kept == Hit(Mem, PageOf(task.to))
  <2>1. PutWriteOnly(task.to, Stored(task.to)) /\ kept \in BOOLEAN
    BY <1>3 DEF Hit
  <2>2. Leaves(task.to, Stored(task.to), kept)
    BY <2>1, <1>1, <1>2, PutWriteOnlyLeaves
  <2>3. kept \/ \A k \in Items : PageOf(k) = PageOf(task.to) => k \in task.to .. task.end - 1
    BY <1>1, <1>3, WriteOnlyIsSafe
  <2> HIDE DEF kept
  <2>4. BulkInv'
    BY <2>1, <2>2, <2>3, <1>1, StoreStep
  <2> QED
    BY <2>1, <2>4, <1>2 DEF Next
<1>4. CASE task.to \notin WriteOnlyItems(task.begin, task.end)
  <2>1. Put(task.to, Stored(task.to))
    BY <1>4
  <2>2. Leaves(task.to, Stored(task.to), TRUE)
    BY <2>1, <1>1, <1>2, PutLeaves
  <2>3. BulkInv'
    BY <2>2, <1>1, StoreStep
  <2> QED
    BY <2>1, <2>3, <1>2 DEF Next
<1> QED
  BY <1>3, <1>4

\* Copying out forfeits pages behind the loop, or the one it is in.
LEMMA CopyOutStep ==
  ASSUME BulkInv, CopyWithoutWriteBackInput
  PROVE  BulkInv' /\ Next
<1> DEFINE i == task.to
<1>1. /\ task.fn = "CopyWithoutWriteBackInput" /\ Running /\ GetNoWriteBack(i)
      /\ task' = [task EXCEPT !.to = @ + 1, !.src = Append(@, out'.val)]
  BY DEF CopyWithoutWriteBackInput
<1>2. Inv /\ TaskOK /\ ReadingOK
  BY <1>1 DEF BulkInv, NoTask, Running
<1>3. /\ task \in Task /\ i \in 0 .. N /\ task.end \in 0 .. N /\ task.begin \in Items
      /\ task.begin < task.end /\ task.begin <= i /\ i < task.end /\ N \in Nat
      /\ task.src \in Seq(Values) /\ Len(task.src) = i - task.begin
  BY <1>1, <1>2, GeometryAssumption DEF TaskOK, Running, Task
<1>4. i \in Items /\ i \in Nat /\ task.begin \in Nat /\ task.end \in Nat
  BY <1>3 DEF Items
<1>5. /\ Inv' /\ forfeited' \subseteq forfeited \cup {PageOf(i)}
      /\ out'.val \in Values
      /\ AsArray[i] # Unspecified => out'.val = AsArray[i]
      /\ \A k \in Items : PageOf(k) \notin forfeited \/ PageOf(k) = PageOf(i)
                            => AsArray'[k] = AsArray[k]
  BY <1>1, <1>2, <1>4, GetNoWriteBackLeaves
<1>6. /\ task'.fn = task.fn /\ task'.begin = task.begin /\ task'.end = task.end
      /\ task'.src = Append(task.src, out'.val) /\ task'.before = task.before /\ task'.to = i + 1
  BY <1>1, <1>3 DEF Task
<1>7. /\ task'.src \in Seq(Values) /\ Len(task'.src) = (i + 1) - task.begin
      /\ task'.src[i - task.begin + 1] = out'.val
      /\ \A k \in 1 .. i - task.begin : task'.src[k] = task.src[k]
  <2> DEFINE r == task.src
             v == out'.val
  <2>1. r \in Seq(Values) /\ v \in Values /\ Len(r) = i - task.begin
    BY <1>3, <1>5
  <2> HIDE DEF r, v
  <2>2. /\ Append(r, v) \in Seq(Values) /\ Len(Append(r, v)) = Len(r) + 1
        /\ Append(r, v)[Len(r) + 1] = v
        /\ \A k \in 1 .. Len(r) : Append(r, v)[k] = r[k]
    BY <2>1
  <2>3. Len(r) + 1 = (i + 1) - task.begin /\ Len(r) + 1 = i - task.begin + 1
    BY <2>1, <1>4
  <2>4. task'.src = Append(r, v)
    BY <1>6 DEF r, v
  <2> QED
    BY <2>1, <2>2, <2>3, <2>4 DEF r, v
<1>8. i + 1 \in 0 .. N /\ task.begin <= i + 1 /\ i + 1 <= task.end
  BY <1>3, <1>4
<1>9. task' \in Task
  <2>1. Append(task.src, out'.val) \in Seq(Values)
    BY <1>6, <1>7
  <2> QED
    BY <2>1, <1>1, <1>3, <1>8 DEF Task
<1>10. TaskOK'
  <2>1. task'.fn = "CopyWithoutWriteBackInput" /\ Len(task'.src) = task'.to - task'.begin
    <3>1. task.fn = "CopyWithoutWriteBackInput"
      BY <1>1
    <3>2. Len(task'.src) = (i + 1) - task.begin
      BY <1>7
    <3> QED
      BY <3>1, <3>2, <1>6
  <2>2. task'.begin < task'.end /\ task'.begin <= task'.to /\ task'.to <= task'.end
    BY <1>3, <1>6, <1>8
  <2> QED
    BY <2>1, <2>2, <1>9 DEF TaskOK
<1>11. ASSUME NEW k \in Items, task.before[k] # Unspecified, k \in task.begin .. i
       PROVE  task'.src[k - task.begin + 1] = task.before[k]
  <2>1. CASE k = i
    <3>1. AsArray[i] = task.before[i]
      BY <2>1, <1>1, <1>2, <1>3, <1>4, <1>11 DEF ReadingOK
    <3> QED
      BY <2>1, <3>1, <1>5, <1>7, <1>11
  <2>2. CASE k # i
    <3>1. k \in task.begin .. i - 1 /\ k - task.begin + 1 \in 1 .. i - task.begin
      BY <2>2, <1>4, <1>11
    <3>2. task.src[k - task.begin + 1] = task.before[k]
      BY <3>1, <1>1, <1>2, <1>11 DEF ReadingOK
    <3> QED
      BY <3>1, <3>2, <1>7
  <2> QED
    BY <2>1, <2>2
<1>12. ASSUME NEW k \in Items, task.before[k] # Unspecified, k \in i + 1 .. task.end - 1
       PROVE  /\ AsArray'[k] = task.before[k]
              /\ PageOf(k) \in forfeited' => PageOf(k) = PageOf(i)
  <2>1. k \in i .. task.end - 1 /\ k \in Nat /\ i <= k
    BY <1>4, <1>12
  <2>2. /\ AsArray[k] = task.before[k]
        /\ PageOf(k) \in forfeited => task.begin < i /\ PageOf(k) = PageOf(i - 1)
    BY <2>1, <1>1, <1>2, <1>12 DEF ReadingOK
  <2>3. PageOf(k) \in forfeited => PageOf(k) = PageOf(i)
    <3> SUFFICES ASSUME PageOf(k) \in forfeited
                 PROVE  PageOf(k) = PageOf(i)
      OBVIOUS
    <3>1. i - 1 \in Nat /\ i - 1 <= i /\ PageOf(k) = PageOf(i - 1)
      BY <2>2, <1>4
    <3>2. PageOf(i - 1) <= PageOf(i) /\ PageOf(i) <= PageOf(k)
      BY <3>1, <2>1, <1>4, PageMonotone
    <3>3. PageOf(i) \in Nat /\ PageOf(k) \in Nat
      BY <2>1, <1>4, PageParts
    <3> QED
      BY <3>1, <3>2, <3>3
  <2> QED
    BY <2>2, <2>3, <1>5
<1>13. ReadingOK'
  <2>1. (i + 1) - 1 = i /\ task.begin < i + 1
    BY <1>3, <1>4
  <2> QED
    BY <2>1, <1>6, <1>11, <1>12 DEF ReadingOK
<1>14. StoringOK'
  BY <1>1, <1>6 DEF StoringOK, Storing
<1> QED
  BY <1>1, <1>4, <1>5, <1>10, <1>13, <1>14 DEF BulkInv, Next

\* Every step keeps the invariant, and is an operation of the vector or leaves it alone.
LEMMA BulkStep ==
  ASSUME SwapsApart, BulkInv, [BulkNext]_bulkVars
  PROVE  BulkInv' /\ [Next]_vars
<1>1. CASE UNCHANGED bulkVars
  <2>1. /\ store' = store /\ slots' = slots /\ out' = out /\ defined' = defined
        /\ forfeited' = forfeited /\ task' = task
    BY <1>1 DEF bulkVars
  <2>2. Mem' = Mem
    BY <2>1 DEF Mem
  <2>3. AsArray' = AsArray
    BY <2>1, <2>2 DEF AsArray
  <2>4. Inv'
    BY <2>1, <2>2 DEF BulkInv, Inv, TypeOK, DirtyInPlace, CleanMatchesServer, ForfeitedIsCached, Hit
  <2>5. (TaskOK => TaskOK') /\ (StoringOK => StoringOK') /\ (ReadingOK => ReadingOK')
    BY <2>1, <2>2, <2>3 DEF TaskOK, StoringOK, ReadingOK, Stored
  <2> QED
    BY <2>1, <2>4, <2>5 DEF BulkInv, vars
<1>2. CASE Starts
  <2>1. PICK begin \in Items, end \in 0 .. N :
          /\ begin < end /\ end <= begin + MaxBulk
          /\ \/ \E src \in Sources, fn \in {"Copy", "CopyForLateInit"} : Start(fn, begin, end, src)
             \/ \E v \in Values : Start("FillForLateInit", begin, end, <<v>>)
             \/ Start("CopyWithoutWriteBackInput", begin, end, <<>>)
    BY <1>2 DEF Starts
  <2>2. begin \in Nat /\ end \in Nat /\ MaxBulk \in Nat
    BY GeometryAssumption, BulkAssumption DEF Items
  <2>3. ASSUME NEW src \in Sources, NEW fn \in {"Copy", "CopyForLateInit"},
               Start(fn, begin, end, src)
        PROVE  BulkInv'
    <3>1. src \in Seq(Values) /\ end - begin <= Len(src)
      BY <2>1, <2>2, BulkAssumption
    <3> QED
      BY <3>1, <2>1, <2>3, StartStep DEF Storing
  <2>4. ASSUME NEW v \in Values, Start("FillForLateInit", begin, end, <<v>>)
        PROVE  BulkInv'
    <3>1. <<v>> \in Seq(Values) /\ Len(<<v>>) = 1
      OBVIOUS
    <3> QED
      BY <3>1, <2>1, <2>4, StartStep DEF Storing
  <2>5. ASSUME Start("CopyWithoutWriteBackInput", begin, end, <<>>)
        PROVE  BulkInv'
    <3>1. <<>> \in Seq(Values)
      OBVIOUS
    <3> QED
      BY <3>1, <2>1, <2>5, StartStep DEF Storing
  <2>6. UNCHANGED vars
    BY <2>1 DEF Start
  <2> QED
    BY <2>1, <2>3, <2>4, <2>5, <2>6
<1>3. CASE Copy
  BY <1>3, CopyStep
<1>4. CASE CopyForLateInit
  <2>1. Stored(task.to) = task.src[task.to - task.begin + 1]
    BY <1>4 DEF CopyForLateInit, Stored
  <2>2. BulkInv' /\ Next
    BY <2>1, <1>4, LateInitStep DEF CopyForLateInit, Counted
  <2> QED
    BY <2>2
<1>5. CASE FillForLateInit
  <2>1. Stored(task.to) = task.src[1]
    BY <1>5 DEF FillForLateInit, Stored
  <2>2. BulkInv' /\ Next
    BY <2>1, <1>5, LateInitStep DEF FillForLateInit, Counted
  <2> QED
    BY <2>2
<1>6. CASE CopyWithoutWriteBackInput
  BY <1>6, CopyOutStep
<1>7. CASE Return
  <2>1. task' = NoTask /\ UNCHANGED vars
    BY <1>7 DEF Return
  <2>2. Inv'
    BY <2>1 DEF BulkInv, vars, Inv, TypeOK, DirtyInPlace, CleanMatchesServer, ForfeitedIsCached, Mem, Hit
  <2>3. task' = NoTask'
    BY <2>1 DEF NoTask
  <2> QED
    BY <2>1, <2>2, <2>3 DEF BulkInv
<1>8. CASE Otherwise
  <2>1. Next /\ task' = task /\ task = NoTask /\ Inv
    BY <1>8 DEF Otherwise, BulkInv
  <2>2. Inv'
    BY <2>1, StepRefines
  <2>3. task' = NoTask'
    BY <2>1 DEF NoTask
  <2> QED
    BY <2>1, <2>2, <2>3 DEF BulkInv
<1> QED
  BY <1>1, <1>2, <1>3, <1>4, <1>5, <1>6, <1>7, <1>8 DEF BulkNext

LEMMA BulkInvariance ==
  ASSUME SwapsApart
  PROVE  BulkSpec => []BulkInv
<1>1. BulkInv /\ [BulkNext]_bulkVars => BulkInv'
  BY BulkStep
<1> QED
  BY BulkInitInv, <1>1, PTL DEF BulkSpec

\* A copy or fill loop of a cached vector moves the items of its range and no others, for
\* every range and geometry: derefWriteOnly leaves a page unread only if all of it is
\* overwritten, and derefNoWriteBack gives up only pages that have been copied out.
THEOREM LoopsAreExact ==
  ASSUME SwapsApart
  PROVE  BulkSpec => []BulkExact
<1>1. ASSUME BulkInv PROVE BulkExact
  <2> SUFFICES ASSUME task # NoTask, ~Running PROVE BulkExact
    BY DEF BulkExact
  <2>1. TaskOK /\ StoringOK /\ ReadingOK
    BY <1>1 DEF BulkInv
  <2>2. task.to = task.end /\ task.fn \in Storing \cup {"CopyWithoutWriteBackInput"}
    BY <2>1, GeometryAssumption DEF TaskOK, Task, Running
  <2>3. ASSUME NEW i \in Items, i \in task.begin .. task.end - 1, task.fn \in {"Copy", "CopyForLateInit"}
        PROVE  AsArray[i] = task.src[i - task.begin + 1]
    BY <2>1, <2>2, <2>3 DEF StoringOK, Stored, Storing
  <2>4. ASSUME NEW i \in Items, i \in task.begin .. task.end - 1, task.fn = "FillForLateInit"
        PROVE  AsArray[i] = task.src[1]
    BY <2>1, <2>2, <2>4 DEF StoringOK, Stored, Storing
  <2>5. ASSUME NEW i \in Items, i \in task.begin .. task.end - 1,
               task.fn = "CopyWithoutWriteBackInput", task.before[i] # Unspecified
        PROVE  task.src[i - task.begin + 1] = task.before[i]
    BY <2>1, <2>2, <2>5 DEF ReadingOK
  <2>6. ASSUME NEW i \in Items, i \notin task.begin .. task.end - 1,
               task.fn # "CopyWithoutWriteBackInput", task.before[i] # Unspecified
        PROVE  AsArray[i] = task.before[i]
    BY <2>1, <2>2, <2>6 DEF StoringOK
  <2> QED
    BY <2>2, <2>3, <2>4, <2>5, <2>6 DEF BulkExact, Storing
<1> QED
  BY BulkInvariance, <1>1, PTL

\* The loops use the vector through its operations only, so that the vector remains an
\* array, with a consistent cache, while they run.
THEOREM LoopsUseTheVector ==
  ASSUME SwapsApart
  PROVE  BulkSpec => Spec /\ IsArray /\ []CacheConsistent
<1>1. BulkInit => Init
  BY DEF BulkInit
<1>2. BulkInv /\ [BulkNext]_bulkVars => [Next]_vars
  BY BulkStep
<1>3. BulkSpec => Spec
  BY BulkInvariance, <1>1, <1>2, PTL DEF BulkSpec, Spec
<1> QED
  BY <1>3, Consistency, Refinement
================================================================================
