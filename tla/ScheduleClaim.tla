---------------------------- MODULE ScheduleClaim ----------------------------
(***************************************************************************)
(* One pipeline's schedule: the scheduler loops of the replicas index and  *)
(* claim its due slots and start their runs, while the API saves schedules,*)
(* changes the owner and starts runs by hand.                              *)
(*                                                                         *)
(* A claim commits the next next_run_at together with the claim, and skips *)
(* a pipeline whose row is locked; the run it starts is a transaction of   *)
(* its own, under the lock of the pipeline row unless runs may be          *)
(* concurrent.  update_schedule and set_owner read the pipeline, change    *)
(* their copy and write all of it back.  The other races of create_run are *)
(* the subject of EventTriggers.                                           *)
(***************************************************************************)
EXTENDS ScheduleSlots, FiniteSets

CONSTANTS Replicas,    \* the replicas; each has a scheduler loop
          Editors,     \* API requests that change the pipeline
          Schedules,   \* schedules the pipeline may be saved with
          Nobody,      \* the pipeline row is not locked
          MaxClock,    \* bound on the clock
          MaxEdits,    \* bound on saved schedules and changes of owner
          MaxManual,   \* bound on runs started by hand
          MaxFailures  \* bound on ticks that fail half way

\* A cron expression has a first slot after any instant, and a last one before
\* it unless it has none there.
ASSUME ScheduleAssumption ==
    /\ Schedules \subseteq ScheduleTypes
    /\ \A t \in Schedules : t.type = "cron" =>
          \A now \in 0..MaxClock + Second :
              /\ now <= MaxClock =>
                    \E s \in t.slots : s > now /\ \A x \in t.slots : x > now => s <= x
              /\ (\E s \in t.slots : s < now) =>
                    \E s \in t.slots : s < now /\ \A x \in t.slots : x < now => x <= s
    /\ Nobody \notin Replicas
    /\ MaxClock \in Nat /\ MaxEdits \in Nat /\ MaxManual \in Nat /\ MaxFailures \in Nat

Times == Nat \cup {NoTime}

VARIABLES clock,     \* the clock the replicas share
          pipe,      \* the committed row of pipelines
          pipeLock,  \* the replica whose create_run holds it FOR UPDATE
          tick,      \* per replica: its tick()
          known,     \* per replica: _next_known_fire
          edit,      \* per request: the copy of the row it will write
          rows,      \* the runs of the pipeline
          claims,    \* how many slots were claimed
          edits,     \* how many requests began to change the pipeline
          manual,    \* how many runs were started by hand
          failures,  \* how many ticks failed
          lost       \* history: claims in the hands of a tick that failed

vars == <<clock, pipe, pipeLock, tick, known, edit, rows, claims, edits, manual, failures, lost>>

Pipelines == [sched : Schedules, concurrent : BOOLEAN, next : Times]

\* A claim: its number, the pipeline as it was claimed, and when.
Ticks == [pc : {"idle", "claim", "start", "insert", "dropped", "reindex"},
          now : Nat, n : Nat, p : Pipelines, active : BOOLEAN]

\* n numbers the claims, or the runs started by hand; first is the claimed
\* next_run_at, slot the run's scheduled_for.
RunRows == [trigger : {"schedule", "manual"}, n : Nat, sched : Schedules, first : Times,
            slot : Times, at : Nat, status : {"active", "ended", "skipped"}]

Edits == [pc : {"idle", "write"}, p : Pipelines]

TypeOK ==
    /\ clock \in Nat
    /\ pipe \in Pipelines
    /\ pipeLock \in Replicas \cup {Nobody}
    /\ tick \in [Replicas -> Ticks]
    /\ known \in [Replicas -> Times]
    /\ edit \in [Editors -> Edits]
    /\ rows \subseteq RunRows
    /\ claims \in Nat /\ edits \in Nat /\ manual \in Nat /\ failures \in Nat
    /\ lost \subseteq Nat

\* A pipeline that is not scheduled stands for an unused copy.
AnySchedule == CHOOSE t \in Schedules : TRUE
Unused      == [sched |-> AnySchedule, concurrent |-> FALSE, next |-> NoTime]
IdleTick    == [pc |-> "idle", now |-> 0, n |-> 0, p |-> Unused, active |-> FALSE]
Reindex     == [pc |-> "reindex", now |-> 0, n |-> 0, p |-> Unused, active |-> FALSE]
IdleEdit    == [pc |-> "idle", p |-> Unused]

Init ==
    /\ clock = 0
    /\ \E t \in Schedules, c \in BOOLEAN :
          pipe = [sched |-> t, concurrent |-> c, next |-> Armed(t, 0)]
    /\ pipeLock = Nobody
    /\ tick = [r \in Replicas |-> IdleTick]
    /\ known = [r \in Replicas |-> NoTime]
    /\ edit = [u \in Editors |-> IdleEdit]
    /\ rows = {}
    /\ claims = 0 /\ edits = 0 /\ manual = 0 /\ failures = 0
    /\ lost = {}

Active == \E x \in rows : x.status = "active"

-----------------------------------------------------------------------------
(* The scheduler loop and claim_due_pipelines *)

\* list_upcoming, on the loop's cadence or after a tick.
RefreshIndex(r) ==
    /\ tick[r].pc \in {"idle", "reindex"}
    /\ known' = [known EXCEPT ![r] = IF pipe.sched.enabled THEN pipe.next ELSE NoTime]
    /\ tick' = [tick EXCEPT ![r] = IdleTick]
    /\ UNCHANGED <<clock, pipe, pipeLock, edit, rows, claims, edits, manual, failures, lost>>

\* The loop ticks only when its index says that a fire is due.
TickBegin(r) ==
    /\ tick[r].pc = "idle"
    /\ known[r] # NoTime
    /\ clock >= known[r]
    /\ tick' = [tick EXCEPT ![r].pc = "claim", ![r].now = clock]
    /\ UNCHANGED <<clock, pipe, pipeLock, known, edit, rows, claims, edits, manual, failures, lost>>

Due(now) == pipe.sched.enabled /\ pipe.next # NoTime /\ pipe.next <= now

\* Fault: each missed slot is claimed on its own.
ClaimSlot_one_by_one(r) ==
    /\ tick[r].pc = "claim"
    /\ Due(tick[r].now)
    /\ pipeLock = Nobody
    /\ pipe' = [pipe EXCEPT !.next = next_fire_trigger(pipe.sched, pipe.next)]
    /\ claims' = claims + 1
    /\ tick' = [tick EXCEPT ![r].pc = "start", ![r].n = claims + 1, ![r].p = pipe]
    /\ UNCHANGED <<clock, pipeLock, known, edit, rows, edits, manual, failures, lost>>

\* The pipeline is returned as it was; the row advances from now.
ClaimSlot(r) ==
    /\ tick[r].pc = "claim"
    /\ Due(tick[r].now)
    /\ pipeLock = Nobody
    /\ pipe' = [pipe EXCEPT !.next = next_fire_trigger(pipe.sched, tick[r].now)]
    /\ claims' = claims + 1
    /\ tick' = [tick EXCEPT ![r].pc = "start", ![r].n = claims + 1, ![r].p = pipe]
    /\ UNCHANGED <<clock, pipeLock, known, edit, rows, edits, manual, failures, lost>>

\* Claimed by another replica meanwhile, turned off, or locked.
ClaimNothing(r) ==
    /\ tick[r].pc = "claim"
    /\ ~Due(tick[r].now) \/ pipeLock # Nobody
    /\ tick' = [tick EXCEPT ![r] = Reindex]
    /\ UNCHANGED <<clock, pipe, pipeLock, known, edit, rows, claims, edits, manual, failures, lost>>

-----------------------------------------------------------------------------
(* start_scheduled, start_run and create_run *)

CreateLock(r) ==
    /\ tick[r].pc = "start"
    /\ ~tick[r].p.concurrent
    /\ pipeLock = Nobody
    /\ pipeLock' = r
    /\ tick' = [tick EXCEPT ![r].pc = "insert", ![r].active = Active]
    /\ UNCHANGED <<clock, pipe, known, edit, rows, claims, edits, manual, failures, lost>>

CreateUnlocked(r) ==
    /\ tick[r].pc = "start"
    /\ tick[r].p.concurrent
    /\ tick' = [tick EXCEPT ![r].pc = "insert", ![r].active = FALSE]
    /\ UNCHANGED <<clock, pipe, pipeLock, known, edit, rows, claims, edits, manual, failures, lost>>

\* The run of replica r's claim.
ScheduledRun(r, status) ==
    [trigger |-> "schedule", n |-> tick[r].n, sched |-> tick[r].p.sched,
     first |-> tick[r].p.next, slot |-> latest_slot(tick[r].p.sched, tick[r].p.next, tick[r].now),
     at |-> tick[r].now, status |-> status]

Unlock(r) == IF pipeLock = r THEN Nobody ELSE pipeLock

\* INSERT and COMMIT; its foreign key waits for another create_run's lock.
CreateCommit(r) ==
    /\ tick[r].pc = "insert"
    /\ ~tick[r].active
    /\ pipeLock \in {r, Nobody}
    /\ rows' = rows \cup {ScheduledRun(r, "active")}
    /\ pipeLock' = Unlock(r)
    /\ tick' = [tick EXCEPT ![r] = Reindex]
    /\ UNCHANGED <<clock, pipe, known, edit, claims, edits, manual, failures, lost>>

\* Fault: a slot dropped because a run is active leaves no trace.
CreateBusy_silent(r) ==
    /\ tick[r].pc = "insert"
    /\ tick[r].active
    /\ pipeLock' = Unlock(r)
    /\ tick' = [tick EXCEPT ![r] = Reindex]
    /\ UNCHANGED <<clock, pipe, known, edit, rows, claims, edits, manual, failures, lost>>

\* Busy: rolled back.
CreateBusy(r) ==
    /\ tick[r].pc = "insert"
    /\ tick[r].active
    /\ pipeLock' = Unlock(r)
    /\ tick' = [tick EXCEPT ![r].pc = "dropped", ![r].active = FALSE]
    /\ UNCHANGED <<clock, pipe, known, edit, rows, claims, edits, manual, failures, lost>>

\* _record_dropped_fire: a second create_run, of a run that is already over.
RecordDropped(r) ==
    /\ tick[r].pc = "dropped"
    /\ pipeLock = Nobody
    /\ rows' = rows \cup {ScheduledRun(r, "skipped")}
    /\ tick' = [tick EXCEPT ![r] = Reindex]
    /\ UNCHANGED <<clock, pipe, pipeLock, known, edit, claims, edits, manual, failures, lost>>

\* A statement of the tick raises or the process dies: a claimed slot is gone.
TickFail(r) ==
    /\ tick[r].pc \notin {"idle", "reindex"}
    /\ failures < MaxFailures
    /\ failures' = failures + 1
    /\ lost' = IF tick[r].pc = "claim" THEN lost ELSE lost \cup {tick[r].n}
    /\ pipeLock' = Unlock(r)
    /\ tick' = [tick EXCEPT ![r] = Reindex]
    /\ UNCHANGED <<clock, pipe, known, edit, rows, claims, edits, manual>>

\* run_now; a busy pipeline refuses it.
RunNow ==
    /\ manual < MaxManual
    /\ pipeLock = Nobody
    /\ pipe.concurrent \/ ~Active
    /\ manual' = manual + 1
    /\ rows' = rows \cup {[trigger |-> "manual", n |-> manual + 1, sched |-> AnySchedule,
                           first |-> NoTime, slot |-> NoTime, at |-> 0, status |-> "active"]}
    /\ UNCHANGED <<clock, pipe, pipeLock, tick, known, edit, claims, edits, failures, lost>>

RunEnds(x) ==
    /\ x.status = "active"
    /\ rows' = (rows \ {x}) \cup {[x EXCEPT !.status = "ended"]}
    /\ UNCHANGED <<clock, pipe, pipeLock, tick, known, edit, claims, edits, manual, failures, lost>>

-----------------------------------------------------------------------------
(* update_schedule and set_owner *)

EditBegin(u, p) ==
    /\ edit[u].pc = "idle"
    /\ edits < MaxEdits
    /\ edits' = edits + 1
    /\ edit' = [edit EXCEPT ![u] = [pc |-> "write", p |-> p]]
    /\ UNCHANGED <<clock, pipe, pipeLock, tick, known, rows, claims, manual, failures, lost>>

\* Fault: the next fire time of the old schedule is kept.
SaveSchedule_unarmed(u, t, c) ==
    EditBegin(u, [sched |-> t, concurrent |-> c, next |-> pipe.next])

\* get_pipeline, the new settings, and the next fire after now.
SaveSchedule(u, t, c) ==
    EditBegin(u, [sched |-> t, concurrent |-> c, next |-> Armed(t, clock)])

\* get_pipeline; only the owner changes, but the whole row is written.
SetOwner(u) == EditBegin(u, pipe)

EditCommit(u) ==
    /\ edit[u].pc = "write"
    /\ pipeLock = Nobody
    /\ pipe' = edit[u].p
    /\ edit' = [edit EXCEPT ![u] = IdleEdit]
    /\ UNCHANGED <<clock, pipeLock, tick, known, rows, claims, edits, manual, failures, lost>>

ClockTick ==
    /\ clock < MaxClock
    /\ clock' = clock + 1
    /\ UNCHANGED <<pipe, pipeLock, tick, known, edit, rows, claims, edits, manual, failures, lost>>

-----------------------------------------------------------------------------
TickStep(r) ==
    \/ RefreshIndex(r)
    \/ TickBegin(r)
    \/ ClaimSlot(r)
    \/ ClaimNothing(r)
    \/ CreateLock(r)
    \/ CreateUnlocked(r)
    \/ CreateCommit(r)
    \/ CreateBusy(r)
    \/ RecordDropped(r)
    \/ TickFail(r)

EditStep(u) ==
    \/ \E t \in Schedules, c \in BOOLEAN : SaveSchedule(u, t, c)
    \/ SetOwner(u)
    \/ EditCommit(u)

Next ==
    \/ \E r \in Replicas : TickStep(r)
    \/ \E u \in Editors : EditStep(u)
    \/ \E x \in rows : RunEnds(x)
    \/ RunNow
    \/ ClockTick

Spec == Init /\ [][Next]_vars

\* Statements of an open transaction run, lock waiters are served, the loops keep
\* looping and time passes.
Fairness ==
    /\ \A r \in Replicas :
          /\ WF_vars(RefreshIndex(r)) /\ WF_vars(TickBegin(r))
          /\ SF_vars(ClaimSlot(r)) /\ WF_vars(ClaimSlot(r) \/ ClaimNothing(r))
          /\ SF_vars(CreateLock(r)) /\ WF_vars(CreateUnlocked(r))
          /\ SF_vars(CreateCommit(r)) /\ WF_vars(CreateBusy(r)) /\ SF_vars(RecordDropped(r))
    /\ \A u \in Editors : SF_vars(EditCommit(u))
    /\ WF_vars(ClockTick)

FairSpec == Spec /\ Fairness

-----------------------------------------------------------------------------
\* The claims a tick holds, and the ones that became runs.
InHand == {tick[r].n : r \in {q \in Replicas : tick[q].pc \in {"start", "insert", "dropped"}}}
Shown  == {x.n : x \in {y \in rows : y.trigger = "schedule"}}

\* Every claimed slot becomes exactly one run, started or recorded as skipped,
\* unless the tick that holds it fails: a busy pipeline, a second replica or a
\* changed schedule never make it disappear or show twice (start_scheduled).
EveryClaimShows ==
    /\ 1..claims = InHand \cup Shown \cup lost
    /\ Shown \cap (InHand \cup lost) = {} /\ InHand \cap lost = {}
    /\ \A q, r \in Replicas :
          q # r /\ tick[q].n = tick[r].n => tick[q].n = 0
    /\ \A x, y \in rows : x.trigger = "schedule" /\ y.trigger = "schedule" /\ x.n = y.n => x = y

\* A late run is for the latest slot due when it was claimed, within the second
\* that latest_slot looks ahead: no slot due by then is later, and an interval's
\* slot is a whole number of intervals after the oldest one.
SlotIsLatest ==
    \A x \in rows : x.trigger = "schedule" =>
        /\ x.first <= x.slot /\ x.slot < x.at + Second
        /\ x.sched.type = "cron" =>
              x.slot \in x.sched.slots /\ \A s \in x.sched.slots : s <= x.at => s <= x.slot
        /\ x.sched.type = "interval" =>
              x.slot <= x.at /\ x.at < x.slot + x.sched.every

\* scheduler.py: "Missed fires still coalesce".  Until somebody edits the pipeline,
\* of two fires one was claimed before the other's oldest slot: no slot is claimed
\* twice, and none that was already past gets a run of its own later.
MissedSlotsCoalesce ==
    edits = 0 =>
        \A x, y \in rows : x.trigger = "schedule" /\ y.trigger = "schedule" /\ x # y =>
            x.first > y.at \/ y.first > x.at

\* An enabled schedule goes on firing: whatever saves, owner changes and failed
\* ticks do to next_run_at, it is again and again in the future.
KeepsFiring ==
    []<>(pipe.sched.enabled => pipe.next # NoTime /\ pipe.next > clock)

-----------------------------------------------------------------------------
(* Statements of the repository that the code does not keep *)

\* store/base.py, claim_due_pipelines: "each due fire is claimed exactly once".
ClaimedOnce ==
    \A x, y \in rows : x.trigger = "schedule" /\ y.trigger = "schedule" /\ x.first = y.first => x = y
=============================================================================
