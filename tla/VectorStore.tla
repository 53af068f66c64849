------------------------------ MODULE VectorStore ------------------------------
(***************************************************************************)
(* What an external-memory vector (EM::ExtVector::Vector) promises its     *)
(* user, whatever page cache sits below it: an array of items, read,       *)
(* written and swapped one item at a time.                                 *)
(*                                                                         *)
(* Two operations give part of that promise away, at the granularity of a  *)
(* page: derefWriteOnly may leave the other items of its page without a    *)
(* value, and after derefNoWriteBack the page's pending changes may be     *)
(* forgotten by any later access to another page (the page is forfeited).  *)
(* An item without a specified value reads as anything.                    *)
(***************************************************************************)
EXTENDS Integers

CONSTANTS
  N,               \* Vector::N, the number of items
  item_per_page,   \* items held by one page
  Values,          \* what an item may hold
  Unspecified      \* marks an item that has no specified value

VARIABLES
  mem,        \* the specified value of each item
  forfeited,  \* pages whose pending changes the user has given up
  out         \* what the last operation returned, if it read an item

Items == 0 .. N - 1

PageOf(i) == i \div item_per_page

Nothing == [item |-> -1]

\* The array after the pages in L lost the values of their items.
Forget(m, L) == [i \in Items |-> IF PageOf(i) \in L THEN Unspecified ELSE m[i]]

\* Touching page p may drop forfeited pages other than p.
Lossy(p) == SUBSET (forfeited \ {p})

Init ==
  /\ mem = [i \in Items |-> Unspecified]
  /\ forfeited = {}
  /\ out = Nothing

Put(i, v) ==
  \E L \in Lossy(PageOf(i)) :
    /\ out' = Nothing
    /\ forfeited' = forfeited \ (L \cup {PageOf(i)})
    /\ mem' = [Forget(mem, L) EXCEPT ![i] = v]

Returns(i) ==
  /\ out' \in [item : {i}, val : Values]
  /\ mem[i] # Unspecified => out'.val = mem[i]

Get(i) ==
  \E L \in Lossy(PageOf(i)) :
    /\ Returns(i)
    /\ forfeited' = forfeited \ L
    /\ mem' = Forget(mem, L)

GetNoWriteBack(i) ==
  \E L \in Lossy(PageOf(i)) :
    /\ Returns(i)
    /\ forfeited' \in {forfeited \ L, (forfeited \ L) \cup {PageOf(i)}}
    /\ mem' = Forget(mem, L)

\* The rest of the page keeps its values only if the page was at hand.
PutWriteOnly(i, v) ==
  \E L \in Lossy(PageOf(i)), K \in {{}, {PageOf(i)}} :
    /\ out' = Nothing
    /\ forfeited' = forfeited \ (L \cup {PageOf(i)})
    /\ mem' = [Forget(mem, L \cup K) EXCEPT ![i] = v]

\* Both items are touched, i's first; the exchange happens when c holds.
CondSwap(i, j, c) ==
  \E L \in Lossy(PageOf(i)) :
    LET m == Forget(mem, L)
    IN /\ out' = Nothing
       /\ forfeited' = forfeited \ (L \cup {PageOf(i), PageOf(j)})
       /\ mem' = IF c THEN [m EXCEPT ![i] = m[j], ![j] = m[i]] ELSE m

Next ==
  \/ \E i \in Items :
       \/ \E v \in Values : Put(i, v) \/ PutWriteOnly(i, v)
       \/ Get(i)
       \/ GetNoWriteBack(i)
  \/ \E i, j \in Items, c \in BOOLEAN : CondSwap(i, j, c)

vars == <<mem, forfeited, out>>

Spec == Init /\ [][Next]_vars
================================================================================
