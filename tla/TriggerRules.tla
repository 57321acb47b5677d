---------------------------- MODULE TriggerRules ----------------------------
(***************************************************************************)
(* The pure rules of an event trigger (booth_pipeline/triggers.py): what   *)
(* one event, a due timer, the end of a run, a busy pipeline, a gap of the *)
(* bus and a switched-off trigger do to the trigger's row of               *)
(* event_trigger_state.                                                    *)
(*                                                                         *)
(* A count of events is modelled by the set of the events it counts, so    *)
(* that "the count is exact" becomes a statement about which events are    *)
(* where.  The columns that are only shown (last_event, last_event_at,     *)
(* gap_detected_at) are left out.  Instants are naturals; SQL's NULL is    *)
(* NoTime.                                                                 *)
(***************************************************************************)
EXTENDS Integers

CONSTANTS Events,   \* the events of the bus that match the trigger
          NoTime    \* a timestamp column that is NULL

ASSUME NoTimeAssumption == NoTime \notin Nat

Times == Nat \cup {NoTime}

\* The settings a trigger is saved with, and the pipeline's own switch for
\* concurrent runs.
TriggerSettings ==
    [enabled : BOOLEAN, concurrent : BOOLEAN, when_running : {"queue_one", "skip"},
     debounce : Nat, max_wait : Nat, min_gap : Nat]

\* A row of event_trigger_state; exists is FALSE until the first event creates it.
TriggerRows ==
    [exists : BOOLEAN, pending_since : Times, fire_at : Times, queued : BOOLEAN,
     last_fired : Times, events : SUBSET Events, missed : BOOLEAN,
     skipped : SUBSET Events, ignored : SUBSET Events]

NoRow ==
    [exists |-> FALSE, pending_since |-> NoTime, fire_at |-> NoTime, queued |-> FALSE,
     last_fired |-> NoTime, events |-> {}, missed |-> FALSE,
     skipped |-> {}, ignored |-> {}]

-----------------------------------------------------------------------------
Earlier(a, b) == IF a <= b THEN a ELSE b
Later(a, b)   == IF a >= b THEN a ELSE b

\* Fault: the minimum gap is forgotten.
AfterGap_no_gap(st, t, at) == at

\* No sooner than the minimum gap after the last fire.
AfterGap(st, t, at) ==
    IF st.last_fired = NoTime THEN at ELSE Later(at, st.last_fired + t.min_gap)

\* Fault: a steady trickle of events postpones the fire for ever.
FireAt_uncapped(st, t, since, now) == AfterGap(st, t, now + t.debounce)

\* Debounce after this event, capped by the burst's longest wait, floored by the gap.
FireAt(st, t, since, now) ==
    AfterGap(st, t, Earlier(now + t.debounce, since + t.max_wait))

\* A run is in the way: one is active and the pipeline runs one at a time.
Held(t, active) == active /\ ~t.concurrent

ingest(st, t, e, now, own, active) ==
    LET since == IF st.pending_since = NoTime THEN now ELSE st.pending_since
    IN  CASE own ->
               [st EXCEPT !.ignored = @ \cup {e}]
          [] ~own /\ Held(t, active) /\ t.when_running = "skip" ->
               [st EXCEPT !.skipped = @ \cup {e}]
          [] ~own /\ Held(t, active) /\ t.when_running = "queue_one" ->
               [st EXCEPT !.events = @ \cup {e}, !.queued = TRUE]
          [] ~own /\ ~Held(t, active) ->
               [st EXCEPT !.events = @ \cup {e}, !.queued = FALSE,
                          !.pending_since = since,
                          !.fire_at = FireAt(st, t, since, now)]

\* Fault: the fired events stay in the row.
reset_pending_keeps_events(st) ==
    [st EXCEPT !.pending_since = NoTime, !.fire_at = NoTime, !.queued = FALSE, !.missed = FALSE]

\* The burst leaves the row: nothing is pending any more.
reset_pending(st) ==
    [st EXCEPT !.pending_since = NoTime, !.fire_at = NoTime, !.queued = FALSE,
               !.events = {}, !.missed = FALSE]

\* Fault: events skipped by a due timer are counted and kept.
on_due_keeps_skipped(st, t, now, active) ==
    IF Held(t, active)
    THEN [st EXCEPT !.pending_since = NoTime, !.fire_at = NoTime,
                    !.queued = t.when_running = "queue_one",
                    !.skipped = IF t.when_running = "skip" THEN @ \cup st.events ELSE @]
    ELSE [reset_pending(st) EXCEPT !.last_fired = now]

\* What on_due leaves in the row; it hands out the row's events iff ~Held(t, active).
on_due(st, t, now, active) ==
    CASE ~Held(t, active) ->
           [reset_pending(st) EXCEPT !.last_fired = now]
      [] Held(t, active) /\ t.when_running = "queue_one" ->
           [st EXCEPT !.pending_since = NoTime, !.fire_at = NoTime, !.queued = TRUE]
      [] Held(t, active) /\ t.when_running = "skip" ->
           [st EXCEPT !.pending_since = NoTime, !.fire_at = NoTime,
                      !.skipped = @ \cup st.events, !.events = {}, !.missed = FALSE]

on_run_finished(st, t, now) ==
    IF st.queued
    THEN [st EXCEPT !.queued = FALSE, !.pending_since = now,
                    !.fire_at = AfterGap(st, t, now)]
    ELSE st

\* Fault: what arrived since the claim is overwritten.
requeue_overwrites(st, t, fired, firedMissed) ==
    [st EXCEPT !.events = fired, !.missed = firedMissed, !.queued = TRUE,
               !.pending_since = NoTime, !.fire_at = NoTime]

\* Fault: the timer is cleared and no follow-up is owed.
requeue_unqueued(st, t, fired, firedMissed) ==
    [st EXCEPT !.events = @ \cup fired, !.pending_since = NoTime, !.fire_at = NoTime]

requeue(st, t, fired, firedMissed) ==
    IF t.when_running = "skip"
    THEN [st EXCEPT !.skipped = @ \cup fired]
    ELSE [st EXCEPT !.events = @ \cup fired, !.missed = @ \/ firedMissed,
                    !.queued = TRUE, !.pending_since = NoTime, !.fire_at = NoTime]

on_missed_events(st, t, now) ==
    IF st.queued \/ st.fire_at # NoTime
    THEN [st EXCEPT !.missed = TRUE]
    ELSE [st EXCEPT !.missed = TRUE, !.pending_since = now,
                    !.fire_at = AfterGap(st, t, now)]
=============================================================================
