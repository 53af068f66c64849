--------------------------------- MODULE Tracing -------------------------------
(***************************************************************************)
(* The tracing of the library (common/tracing): BlockTracer objects that   *)
(* time the block they are declared in for the Profiler and the            *)
(* TimeTracker, and the MaxTracker of values.  The two block trackers have *)
(* a stack each and the macros use them alike, so that one stack stands    *)
(* for both here.  objs are the tracers alive, in the order of their       *)
(* declaration; a stack holds their indices.  now is the clock: every      *)
(* operation takes one tick.                                               *)
(***************************************************************************)
EXTENDS Integers, SequencesExt

CONSTANTS
  EventIds,          \* the events of tracer_events.hxx
  MAX_TRACKER_REC    \* 128: the places of a stack

LAST_EVENT == "last"

NoTimes == [e \in EventIds |-> 0]

\* Profiling is off and tracing on when the program starts.
NewTrackers ==
  [objs |-> <<>>, stack |-> <<>>, now |-> 0, undefined |-> FALSE, profiling |-> FALSE, tracing |-> TRUE,
   logs |-> <<>>, start |-> 0, files |-> <<>>, logCount |-> 0, totals |-> NoTimes, count |-> NoTimes,
   maxes |-> NoTimes, sums |-> NoTimes, counts |-> NoTimes]

--------------------------------------------------------------------------------
(* Profiler *)

TrackEvent(t, e, type) ==
  IF ~t.profiling THEN t
  ELSE [t EXCEPT !.logs = Append(@, [eventId |-> e, time |-> t.now - t.start, profType |-> type, v |-> 0])]

TrackValue(t, e, val) ==
  IF ~t.profiling THEN t
  ELSE [t EXCEPT !.logs = Append(@, [eventId |-> e, time |-> t.now - t.start, profType |-> "Count", v |-> val])]

toString(type) == CASE type = "Start" -> "B" [] type = "End" -> "E" [] type = "Count" -> "C"

\* The phases and names in the file; a mark for its end.
Log_Chrome(t) ==
  [i \in DOMAIN t.logs |-> [ph |-> toString(t.logs[i].profType), name |-> t.logs[i].eventId, ts |-> t.logs[i].time]]
    \o <<[ph |-> "i", name |-> "EOL", ts |-> t.now - t.start]>>

ProfilerLog(t) ==
  IF ~t.profiling THEN t ELSE [t EXCEPT !.files = Append(@, [number |-> t.logCount, lines |-> Log_Chrome(t)])]

\* The number of the file is used up also when nothing is written.
ProfilerReset(t) == [ProfilerLog(t) EXCEPT !.logCount = @ + 1, !.logs = <<>>, !.start = t.now]

--------------------------------------------------------------------------------
(* TimeTracker and MaxTracker *)

Measure(t, e, start) ==
  IF ~t.tracing THEN t ELSE [t EXCEPT !.count[e] = @ + 1, !.totals[e] = @ + (t.now - start)]

TimeReset(t) == [t EXCEPT !.totals = NoTimes, !.count = NoTimes]

Update(t, e, val) ==
  IF ~t.tracing THEN t
  ELSE [t EXCEPT !.maxes[e] = IF @ < val THEN val ELSE @, !.sums[e] = @ + val, !.counts[e] = @ + 1]

MaxReset(t) == [t EXCEPT !.maxes = NoTimes, !.sums = NoTimes, !.counts = NoTimes]

--------------------------------------------------------------------------------
(* Blocks *)

\* A tracer more than the stack has places is stored behind it.
BeginBlock(t, e) ==
  LET s == TrackEvent(t, e, "Start")
  IN IF Len(t.stack) = MAX_TRACKER_REC THEN [t EXCEPT !.undefined = TRUE]
     ELSE [s EXCEPT !.objs = Append(@, [eventId |-> e, metadata |-> t.now]),
                    !.stack = Append(@, Len(t.objs) + 1)]

\* Mutant of Finish: the tracer is not marked as finished.
FinishKeepsEvent(t, i) ==
  LET o == t.objs[i] IN Measure(TrackEvent(t, o.eventId, "End"), o.eventId, o.metadata)

Finish(t, i) ==
  LET o == t.objs[i]
  IN [Measure(TrackEvent(t, o.eventId, "End"), o.eventId, o.metadata) EXCEPT !.objs[i].eventId = LAST_EVENT]

\* The innermost block that is not finished, wherever it was declared.
EndBlock(t) ==
  IF t.stack = <<>> THEN [t EXCEPT !.undefined = TRUE]
  ELSE Finish([t EXCEPT !.stack = Front(@)], Last(t.stack))

\* A scope is left: the tracer declared last is destroyed.
DestroyTracer(t) ==
  LET s == IF Last(t.objs).eventId = LAST_EVENT THEN t ELSE EndBlock(t)
  IN IF s.undefined THEN s ELSE [s EXCEPT !.objs = Front(@)]

\* PROFILER_SET and TRACER_SET
SetTrackers(t, val) == [t EXCEPT !.profiling = val, !.tracing = val]

\* The RESET macros and the handler of fatal signals
ResetTrackers(t) == MaxReset(TimeReset(ProfilerReset(t)))

\* One operation of the program, after a tick of the clock.
Perform(t0, op) ==
  LET t == [t0 EXCEPT !.now = @ + 1]
  IN CASE t0.undefined -> t0
       [] op.op = "block" -> BeginBlock(t, op.e)
       [] op.op = "end" -> EndBlock(t)
       [] op.op = "leave" -> IF t.objs = <<>> THEN t ELSE DestroyTracer(t)
       [] op.op = "value" -> Update(TrackValue(t, op.e, op.v), op.e, op.v)
       [] op.op = "set" -> SetTrackers(t, op.val)
       [] op.op = "reset" -> ResetTrackers(t)
================================================================================
