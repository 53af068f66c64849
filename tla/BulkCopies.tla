------------------------------ MODULE BulkCopies -------------------------------
(***************************************************************************)
(* The copy and fill loops of extemvector.hpp, step by step on a cached    *)
(* vector and mixed with its other operations.  The loops for a late       *)
(* initialisation do not read the pages they overwrite altogether, and     *)
(* one that copies an input out gives up the changes of the pages it has   *)
(* read.  What is copied in comes from src, what is copied out goes to it. *)
(***************************************************************************)
EXTENDS CachedVector, Sequences

CONSTANTS
  MaxBulk,   \* items a loop goes over, at most
  Sources    \* what is copied in: a loop takes a prefix

\* A loop does not run past what is copied in.
ASSUME BulkAssumption ==
  /\ MaxBulk \in Nat
  /\ \A s \in Sources : s \in Seq(Values) /\ Len(s) = MaxBulk

VARIABLE task   \* the call under way


bulkVars == <<store, slots, out, defined, forfeited, task>>

\* The items whose value the loop that starts may rely on.
Settled == [i \in Items |-> IF PageOf(i) \in forfeited THEN Unspecified ELSE AsArray[i]]

NoTask == [fn |-> "Copy", begin |-> 0, to |-> 0, end |-> 0, src |-> <<>>, before |-> [i \in Items |-> Unspecified]]

BulkInit == Init /\ task = NoTask

Running == task.to < task.end

\* Mutant of fullPageEnd: the end of the page that end is in.
endOfLastPage(end) == end + ((item_per_page - OffsetOf(end)) % item_per_page)

fullPageEnd(end) == end - OffsetOf(end)

\* Where the loop up to the first page boundary stops.
firstFullPage(begin) == begin + ((item_per_page - OffsetOf(begin)) % item_per_page)

\* The items stored with derefWriteOnly.
WriteOnlyItems(begin, end) ==
  {i \in Items : begin < fullPageEnd(end) /\ firstFullPage(begin) <= i /\ i < fullPageEnd(end)}

Start(fn, begin, end, src) ==
  /\ task = NoTask
  /\ task' = [fn |-> fn, begin |-> begin, to |-> begin, end |-> end, src |-> src, before |-> Settled]
  /\ UNCHANGED vars

Copy ==
  /\ task.fn = "Copy" /\ Running
  /\ Put(task.to, task.src[task.to - task.begin + 1])
  /\ task' = [task EXCEPT !.to = @ + 1]

CopyForLateInit ==
  LET v == task.src[task.to - task.begin + 1]
  IN /\ task.fn = "CopyForLateInit" /\ Running
     /\ IF task.to \in WriteOnlyItems(task.begin, task.end) THEN PutWriteOnly(task.to, v) ELSE Put(task.to, v)
     /\ task' = [task EXCEPT !.to = @ + 1]

FillForLateInit ==
  LET v == task.src[1]
  IN /\ task.fn = "FillForLateInit" /\ Running
     /\ IF task.to \in WriteOnlyItems(task.begin, task.end) THEN PutWriteOnly(task.to, v) ELSE Put(task.to, v)
     /\ task' = [task EXCEPT !.to = @ + 1]

CopyWithoutWriteBackInput ==
  /\ task.fn = "CopyWithoutWriteBackInput" /\ Running
  /\ GetNoWriteBack(task.to)
  /\ task' = [task EXCEPT !.to = @ + 1, !.src = Append(@, out'.val)]

Starts ==
  \E begin \in Items, end \in 0 .. N :
    /\ begin < end /\ end <= begin + MaxBulk
    /\ \/ \E src \in Sources, fn \in {"Copy", "CopyForLateInit"} : Start(fn, begin, end, src)
       \/ \E v \in Values : Start("FillForLateInit", begin, end, <<v>>)
       \/ Start("CopyWithoutWriteBackInput", begin, end, <<>>)

Return == task # NoTask /\ ~Running /\ task' = NoTask /\ UNCHANGED vars

\* Between two calls the vector is used in any other way.
Otherwise == task = NoTask /\ Next /\ UNCHANGED task

BulkNext == Starts \/ Copy \/ CopyForLateInit \/ FillForLateInit \/ CopyWithoutWriteBackInput \/ Return \/ Otherwise

BulkSpec == BulkInit /\ [][BulkNext]_bulkVars

--------------------------------------------------------------------------------
(* Properties *)

\* A loop over items begin .. end - 1 of a cached vector moves these items and no
\* others: each one holds what was stored in it (or was copied out as it was before),
\* and every item outside keeps the value it had, also on a page that the loop reaches
\* only in part and does not read before it writes to it.
BulkExact ==
  task # NoTask /\ ~Running =>
    \A i \in Items :
      LET k == i - task.begin + 1
          inside == i \in task.begin .. task.end - 1
      IN CASE inside /\ task.fn \in {"Copy", "CopyForLateInit"} -> AsArray[i] = task.src[k]
           [] inside /\ task.fn = "FillForLateInit" -> AsArray[i] = task.src[1]
           [] inside /\ task.fn = "CopyWithoutWriteBackInput" ->
                task.before[i] # Unspecified => task.src[k] = task.before[i]
           [] OTHER -> task.fn # "CopyWithoutWriteBackInput" /\ task.before[i] # Unspecified
                         => AsArray[i] = task.before[i]

--------------------------------------------------------------------------------
(* Instances for TLC *)

\* Every pair whose two references stay valid together.
ApartPairs == {s \in Items \X Items : s[1] < s[2] /\ Apart(s[1], s[2])}

Alternating == {[k \in 1 .. MaxBulk |-> (k + v) % 2] : v \in {0, 1}}
================================================================================
