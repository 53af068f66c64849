---------------------------------- MODULE Apps ---------------------------------
(***************************************************************************)
(* The applications of the sorters: database join, histogram and ORAM      *)
(* initialisation (apps/db_join.hpp, histogram.hpp, oram_init.hpp,         *)
(* apps_common.hpp), each a chain of sorts with a pass over the elements   *)
(* where a sort reads or writes them.  Sequences are what readers read and *)
(* writers write.                                                          *)
(***************************************************************************)
EXTENDS Bitonic

Undefined == "undefined"

\* Reads all, sorts in memory or in a cached vector, and writes.
BitonicSortRW(seq, lt) ==
  LET n == Len(seq)
      sorted == Sorted([i \in 0 .. n - 1 |-> seq[i + 1]], n, lt)
  IN [i \in 1 .. n |-> sorted[i - 1]]

--------------------------------------------------------------------------------
(* db_join.hpp: rows are records of id and payload *)

\* Of equal ids, the row of table 2 comes first.
JoinBefore(rows) ==
  [x, y \in rows |-> x.id < y.id \/ (x.id = y.id /\ x.tableId > y.tableId)]

\* vReader: the rows of both tables, each with the other's payload not initialised.
JoinRows(table1, table2) ==
  [i \in 1 .. Len(table1) |-> [id |-> table1[i].id, first |-> table1[i].payload,
                               second |-> Undefined, tableId |-> 1]]
  \o [i \in 1 .. Len(table2) |-> [id |-> table2[i].id, first |-> Undefined,
                                  second |-> table2[i].payload, tableId |-> 2]]

\* Mutant of CopyDown: the copy is taken whatever the id.
CopiesAlways(rows) ==
  [i \in DOMAIN rows |-> IF i > 1 THEN [rows[i] EXCEPT !.second = rows[i - 1].second] ELSE rows[i]]

\* vWriter: a row takes the second payload of the row before it, as it was read, if
\* that has the same id.
CopyDown(rows) ==
  [i \in DOMAIN rows |-> IF i > 1 /\ rows[i - 1].id = rows[i].id
                         THEN [rows[i] EXCEPT !.second = rows[i - 1].second] ELSE rows[i]]

dbJoin(table1, table2) ==
  LET read == JoinRows(table1, table2)
      db == CopyDown(BitonicSortRW(read, JoinBefore(Range(read))))
  IN BitonicSortRW(db, JoinBefore(Range(db)))

--------------------------------------------------------------------------------
(* histogram.hpp *)

\* Entries without a count are last.
HistBefore(entries) ==
  [x, y \in entries |-> (x.key < y.key \/ y.count = 0) /\ x.count # 0]

\* Element idx > 0 writes the entry of the element before it: the length of the run
\* that ends there, or 0 if the run goes on.
CountRun(s, ele) ==
  LET isDup == s.prev = ele
      toWriteFreq == IF isDup THEN 0 ELSE s.dupCounter + 1
  IN IF s.idx = 0 THEN [s EXCEPT !.idx = 1, !.prev = ele]
     ELSE [idx |-> s.idx + 1, prev |-> ele, dupCounter |-> IF isDup THEN s.dupCounter + 1 ELSE 0,
           hist |-> Append(s.hist, [key |-> s.prev, count |-> toWriteFreq])]

\* For at least one key: the entry of the last is written after the sort.
histogram(keys) ==
  LET sorted == BitonicSortRW(keys, [x, y \in Range(keys) |-> x < y])
      s == Steps(CountRun, [idx |-> 0, prev |-> 0, dupCounter |-> 0, hist |-> <<>>], sorted)
      hist == Append(s.hist, [key |-> s.prev, count |-> s.dupCounter + 1])
  IN BitonicSortRW(hist, HistBefore(Range(hist)))

--------------------------------------------------------------------------------
(* oram_init.hpp: entries are records of pos and uid *)

DummyUid == 1000   \* (uint64_t)-1: larger than any uid

\* vReader: the entries, and Z dummies for every bucket of the level.
WithDummies(entries, Z, level) ==
  LET size == Len(entries)
  IN entries \o [i \in 1 .. size * Z |-> [pos |-> ((i - 1) \div Z) * 2^level, uid |-> DummyUid]]

LevelBefore(entries, level) ==
  [x, y \in entries |->
     LET p == x.pos \div 2^level
         q == y.pos \div 2^level
     IN p < q \/ (p = q /\ x.uid < y.uid)]

\* vReader2: the first Z of the entries of each bucket are marked.
MarkBuckets(entries, Z, level) ==
  [i \in DOMAIN entries |->
     [isMarked |-> Cardinality({j \in 1 .. i - 1 : entries[j].pos \div 2^level
                                                     = entries[i].pos \div 2^level}) < Z,
      entry |-> entries[i]]]

\* The marked ones first, by position; then the others, dummies last.
MarkBefore(marks) ==
  [x, y \in marks |-> \/ x.isMarked /\ ~y.isMarked
                      \/ x.isMarked /\ y.isMarked /\ x.entry.pos < y.entry.pos
                      \/ ~x.isMarked /\ ~y.isMarked /\ x.entry.uid < y.entry.uid]

\* The entries written, bottom up: one level, then the levels above it, which get
\* half as many of the unmarked entries.
RECURSIVE ORAMInitHelper(_, _, _)
ORAMInitHelper(entries, Z, level) ==
  LET size == Len(entries)
      read == WithDummies(entries, Z, level)
      sorted == BitonicSortRW(read, LevelBefore(Range(read), level))
      marks == MarkBuckets(sorted, Z, level)
      out == BitonicSortRW(marks, MarkBefore(Range(marks)))
      Entries(from, count) == [i \in 1 .. count |-> out[from + i].entry]
  IN IF size = 0 THEN <<>>
     ELSE Entries(0, size * Z) \o ORAMInitHelper(Entries(size * Z, size \div 2), Z, level + 1)

\* Throws if the size is not a power of two, in the first call or not at all.
ORAMInit(entries, Z) ==
  IF \E b \in 0 .. W : Len(entries) \in {0, 2^b} THEN ORAMInitHelper(entries, Z, 0) ELSE Undefined
================================================================================
