---------------------------- MODULE ScheduleSlots ----------------------------
(***************************************************************************)
(* The arithmetic of schedules (booth_pipeline/schedule.py): when a        *)
(* schedule fires next, and which slot a late fire is for.                 *)
(*                                                                         *)
(* Instants are naturals in some fraction of a second, Second of them to   *)
(* one.  A cron expression in its timezone is the set of instants it       *)
(* matches; croniter (external) finds the neighbours of an instant in it.  *)
(***************************************************************************)
EXTENDS Integers

CONSTANTS Second,   \* units of time in one second
          NoTime    \* a timestamp that is None

ASSUME SecondAssumption == Second \in Nat \ {0} /\ NoTime \notin Nat

\* CronTrigger and IntervalTrigger; slots is a cron's instants, every an
\* interval's length.  A removed schedule behaves as one that is not enabled.
ScheduleTypes ==
    [enabled : BOOLEAN, type : {"cron", "interval"}, slots : SUBSET Nat, every : Nat \ {0}]

\* croniter (external): get_next and get_prev, both strict.
NextSlot(slots, after) ==
    CHOOSE s \in slots : s > after /\ \A x \in slots : x > after => s <= x

PrevSlot(slots, before) ==
    CHOOSE s \in slots : s < before /\ \A x \in slots : x < before => x <= s

next_fire_trigger(t, after) ==
    IF t.type = "cron" THEN NextSlot(t.slots, after) ELSE after + t.every

\* What a schedule's next_run_at becomes when it is saved.
Armed(t, now) == IF t.enabled THEN next_fire_trigger(t, now) ELSE NoTime

\* Fault: a late fire is for the oldest missed slot.
latest_slot_oldest(t, first, now) == first

\* The slot a fire claimed at now is for, when first is the oldest slot not yet
\* run: a cron's search starts one second late, to include now itself.
latest_slot(t, first, now) ==
    CASE first >= now -> first
      [] first < now /\ t.type = "cron" ->
           IF \E s \in t.slots : s < now + Second
           THEN LET prev == PrevSlot(t.slots, now + Second)
                IN  IF prev > first THEN prev ELSE first
           ELSE first
      [] first < now /\ t.type = "interval" ->
           first + ((now - first) \div t.every) * t.every
=============================================================================
