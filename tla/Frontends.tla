------------------------------- MODULE Frontends -------------------------------
(***************************************************************************)
(* The frontends of the server on top of the allocator and the backend's   *)
(* bytes: NonCachedServerFrontendInstance, whose pages have a fixed type,  *)
(* and DynamicServerFrontendInstance, whose pages are as long as the       *)
(* DynamicPageVector that owns it asks for.  Slots are allocated, moved,   *)
(* freed and given to other frontends, and their bytes are never cleared.  *)
(*                                                                         *)
(* A byte of the server is the offset k of a ciphertext; a ciphertext is   *)
(* what was encrypted, with its nonce.  Draws of the random nonce are      *)
(* taken to be distinct, and so are the nonces derived by xor.             *)
(***************************************************************************)
EXTENDS Allocator, Servers

CONSTANTS
  Shapes,      \* of the frontends to construct: kind, number of pages, bytes of an
               \* encrypted page, and items on a page
  Items,       \* what the pages hold
  defaultVal,
  Counters,    \* write counters of the clients
  AES_BLOCK_SIZE,  \* bytes of a tag
  MaxDraws,    \* bound on the frontends constructed
  MaxWrites    \* bound on the writes of their clients

VARIABLES
  fe,             \* [Objects -> the members of a frontend]
  data,           \* MemServerBackend::data
  draws,          \* nonces drawn
  writes,         \* writes so far
  item_per_page,  \* the static local of CopyIn, 0 before its first call
  contents        \* history: what each frontend's pages were last given

feVars == <<fe, data, draws, writes, item_per_page, contents>>
allVars == <<vars, feVars>>

NoText == [nounce |-> <<0, 0, 0>>, val |-> <<>>, size |-> 0]
NoContents == [val |-> <<>>, counter |-> -1]

\* What a constructor that returns early or has not run leaves undefined.
NoFrontend == [kind |-> "unwritten", pages |-> 0, size |-> 0, items |-> 0, nounce |-> 0,
               modified |-> {}]

Default(f) == [j \in 1 .. f.items |-> defaultVal]

Encrypt(f, i, val, counter) ==
  [nounce |-> <<f.nounce, i, counter>>, val |-> val, size |-> f.size]

PageBytes(text) == [k \in 1 .. text.size |-> [text |-> text, k |-> k - 1]]

\* The server's bytes after frontend f with slot s has written its page i.
Written(d, s, f, i, val, counter) ==
  ocall_Write(d, s.base + i * f.size, PageBytes(Encrypt(f, i, val, counter)))

\* What page i decrypts to; <<>> for an authentication failure, which aborts.
Decrypted(f, i, enc, counter) ==
  LET text == enc[1].text
  IN IF enc = PageBytes(text) /\ text.nounce = <<f.nounce, i, counter>> THEN text.val ELSE <<>>

\* Mutant of ReadPage: the write counter is not part of the nonce.
ReadPageAnyCounter(o, i, counter) ==
  LET f == fe[o]
      enc == ocall_Read(data, slot[o].base + i * f.size, f.size, "memory")
      text == enc[1].text
  IN IF f.kind = "late" /\ i \notin f.modified THEN Default(f)
     ELSE IF enc = PageBytes(text) /\ text.nounce[1] = f.nounce /\ text.nounce[2] = i
     THEN text.val ELSE <<>>

ReadPage(o, i, counter) ==
  LET f == fe[o]
      enc == ocall_Read(data, slot[o].base + i * f.size, f.size, "memory")
  IN IF f.kind = "late" /\ i \notin f.modified THEN Default(f) ELSE Decrypted(f, i, enc, counter)

--------------------------------------------------------------------------------
Init ==
  /\ AllocatorInit
  /\ fe = [o \in Objects |-> NoFrontend]
  /\ data = [b \in 0 .. ServerPage * PagesFor(size) - 1 |-> [text |-> NoText, k |-> 0]]
  /\ draws = 0 /\ writes = 0
  /\ item_per_page = 0
  /\ contents = [o \in Objects |-> <<>>]

\* The members the constructors set, and the pages they write.
Members(shape) ==
  [kind |-> shape.kind, pages |-> shape.pages, size |-> shape.size, items |-> shape.items,
   nounce |-> draws + 1, modified |-> {}]

\* Only the kinds with pages of a fixed type look for initialSize = 0.
New(o, shape) ==
  /\ draws < MaxDraws
  /\ IF shape.pages = 0 /\ shape.kind # "dynamic"
     THEN /\ ConstructEmpty(o)
          /\ fe' = [fe EXCEPT ![o] = NoFrontend]
          /\ contents' = [contents EXCEPT ![o] = <<>>]
          /\ UNCHANGED <<data, draws>>
     ELSE /\ Construct(o, shape.pages * shape.size)
          /\ IF aborted' # -1 THEN UNCHANGED <<fe, data, draws, contents>>
             ELSE LET f == Members(shape)
                      all == 0 .. f.pages - 1
                      default == f.kind = "default"
                  IN /\ fe' = [fe EXCEPT ![o] = f]
                     /\ draws' = draws + 1
                     /\ data' = IF ~default THEN data
                                ELSE FoldLeft(LAMBDA d, i : Written(d, slot'[o], f, i, Default(f), 0),
                                              data, [i \in 1 .. f.pages |-> i - 1])
                     /\ contents' = [contents EXCEPT ![o] =
                          [i \in all |-> IF default THEN [val |-> Default(f), counter |-> 0]
                                         ELSE NoContents]]
  /\ UNCHANGED <<writes, item_per_page>>

\* The modified bits are swapped with the new frontend's, which has none; nothing but
\* the destructor looks at other again.
MoveFrontend(o, other) ==
  /\ Move(o, other)
  /\ fe' = [fe EXCEPT ![o] = fe[other], ![other] = NoFrontend]
  /\ contents' = [contents EXCEPT ![o] = contents[other], ![other] = <<>>]
  /\ UNCHANGED <<data, draws, writes, item_per_page>>

DestroyFrontend(o) ==
  /\ Destroy(o)
  /\ fe' = [fe EXCEPT ![o] = NoFrontend]
  /\ contents' = [contents EXCEPT ![o] = <<>>]
  /\ UNCHANGED <<data, draws, writes, item_per_page>>

\* Write and WriteLazy, with a counter or with 0
WritePage(o, i, val, counter) ==
  /\ Owns(o) /\ i < fe[o].pages
  /\ writes < MaxWrites /\ writes' = writes + 1
  /\ data' = Written(data, slot[o], fe[o], i, val, counter)
  /\ fe' = IF fe[o].kind = "late" THEN [fe EXCEPT ![o].modified = @ \cup {i}] ELSE fe
  /\ contents' = [contents EXCEPT ![o][i] = [val |-> val, counter |-> counter]]
  /\ UNCHANGED <<vars, draws, item_per_page>>

--------------------------------------------------------------------------------
(* DynamicPageVector: whole pages are copied, page first up to page end.   *)

\* The frontend of a vector of N items of a byte each.
DynamicShape(N, itemPerPage) ==
  [kind |-> "dynamic", pages |-> N \div itemPerPage, size |-> itemPerPage + AES_BLOCK_SIZE,
   items |-> itemPerPage]

Dynamic(o) == Owns(o) /\ fe[o].kind = "dynamic"

Page(f, from, p) == SubSeq(from, p * f.items + 1, (p + 1) * f.items)

CopyOut(o, first, end, from, counter) ==
  LET f == fe[o]
      Copy(d, i) == Written(d, slot[o], f, i, Page(f, from, i - first), counter)
  IN /\ Dynamic(o) /\ first <= end /\ end <= f.pages /\ Len(from) = (end - first) * f.items
     /\ writes < MaxWrites /\ writes' = writes + 1
     /\ data' = FoldLeft(Copy, data, [i \in 1 .. end - first |-> first + i - 1])
     /\ contents' = [contents EXCEPT ![o] = [i \in DOMAIN @ |->
          IF i \in first .. end - 1 THEN [val |-> Page(f, from, i - first), counter |-> counter]
          ELSE @[i]]]
     /\ UNCHANGED <<vars, fe, draws, item_per_page>>

\* The static local takes the page size of the first vector ever copied from.
Stride(f) == IF item_per_page = 0 THEN f.items ELSE item_per_page

\* What CopyIn leaves at to: a function of the items it has written.
CopiedIn(o, first, end, counter) ==
  LET f == fe[o]
      At(to, items) == [j \in to .. to + Len(items) - 1 |-> items[j - to + 1]]
      Copy(buffer, i) ==
        At((i - first) * Stride(f), ReadPage(o, i, counter)) @@ buffer
  IN FoldLeft(Copy, <<>>, [i \in 1 .. end - first |-> first + i - 1])

CopyIn(o) ==
  /\ Dynamic(o)
  /\ item_per_page' = Stride(fe[o])
  /\ UNCHANGED <<vars, fe, data, draws, writes, contents>>

\* The iterator's operator*: a whole page is read, with counter 0.
Item(o, m_ptr) ==
  LET page == ReadPage(o, m_ptr \div fe[o].items, 0)
  IN IF page = <<>> THEN <<>> ELSE <<page[1 + (m_ptr % fe[o].items)]>>

--------------------------------------------------------------------------------
Pages(f) == 0 .. f.pages - 1
\* Items of which no two neighbours are equal.
Inputs(n) == {from \in [1 .. n -> Items] : \A j \in 1 .. n - 1 : from[j] # from[j + 1]}
PageValues(f) == [1 .. f.items -> Items]

Next ==
  /\ aborted = -1
  /\ \E o \in Objects :
       \/ \E shape \in Shapes : New(o, shape)
       \/ \E other \in Objects : MoveFrontend(o, other)
       \/ DestroyFrontend(o)
       \/ \E i \in Pages(fe[o]), val \in PageValues(fe[o]), c \in Counters :
            fe[o].kind # "dynamic" /\ val # Default(fe[o]) /\ WritePage(o, i, val, c)
       \/ \E first \in Pages(fe[o]) : \E end \in first + 1 .. fe[o].pages, c \in Counters :
            \E from \in Inputs((end - first) * fe[o].items) : CopyOut(o, first, end, from, c)
       \/ CopyIn(o)

Spec == Init /\ [][Next]_allVars

--------------------------------------------------------------------------------
(* Properties *)

\* A frontend reads what it was last given, with the counter it was given it with,
\* and its default where it promises one, after any moves and whatever other frontends
\* did with their slots, this one's former bytes included; with any other counter,
\* or where nothing was written, the read fails rather than return older bytes.
ReadsOwnContents ==
  \A o \in Owners : \A i \in Pages(fe[o]), c \in Counters :
    LET w == contents[o][i]
    IN ReadPage(o, i, c) =
         IF w.counter = c THEN w.val
         ELSE IF w = NoContents /\ fe[o].kind = "late" THEN Default(fe[o])
         ELSE <<>>

\* A dynamic vector whose pages are as long as those of the first vector CopyIn was
\* called for copies in what was copied out, page after page and without gaps, and
\* the iterator reads the same items.
VectorsReadBack ==
  \A o \in Owners :
    fe[o].kind = "dynamic" /\ item_per_page \in {0, fe[o].items} =>
      \A first \in Pages(fe[o]), c \in Counters : \A end \in first + 1 .. fe[o].pages :
        (\A i \in first .. end - 1 : contents[o][i].counter = c) =>
          LET in == CopiedIn(o, first, end, c)
          IN /\ DOMAIN in = 0 .. (end - first) * fe[o].items - 1
             /\ \A j \in DOMAIN in :
                  /\ in[j] = contents[o][first + j \div fe[o].items].val[1 + (j % fe[o].items)]
                  /\ c = 0 => Item(o, first * fe[o].items + j) = <<in[j]>>

\* Pages of every kind of frontend, and vectors of such pages, read back as written.
PagesReadBack == ReadsOwnContents /\ VectorsReadBack

--------------------------------------------------------------------------------
(* Instances for TLC *)

Shape(kind, pages, bytes, items) ==
  [kind |-> kind, pages |-> pages, size |-> bytes, items |-> items]

MCShapes ==
  {Shape("default", 2, 1, 1), Shape("late", 1, 1, 1), Shape("late", 0, 1, 1),
   DynamicShape(2, 1), DynamicShape(2, 2), DynamicShape(0, 1)}

Symmetry == Permutations(Objects)
================================================================================
