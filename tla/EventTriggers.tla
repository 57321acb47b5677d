---------------------------- MODULE EventTriggers ----------------------------
(***************************************************************************)
(* One pipeline's event trigger on the deployed store (store/postgres.py), *)
(* at the grain at which its transactions can interleave: replicas ingest  *)
(* events of the bus, the scheduler loops claim due fires and start runs,  *)
(* runs end, and the API saves new settings or starts a run by hand.       *)
(*                                                                         *)
(* PostgreSQL runs at READ COMMITTED: a statement sees what is committed   *)
(* when it starts, and SELECT ... FOR UPDATE waits only for a row that its *)
(* WHERE clause matches.  A transaction's writes therefore appear at its   *)
(* commit action, the row locks it takes are stLock (its row of            *)
(* event_trigger_state) and pipeLock (its row of pipelines), and what it   *)
(* read in an earlier statement (settings, "is a run active", now) is kept *)
(* in its own record.  Two statements are one action only where no other   *)
(* transaction can come between them with a different outcome.             *)
(***************************************************************************)
EXTENDS TriggerRules, FiniteSets

CONSTANTS Replicas,        \* replicas of the module; each has a scheduler loop and a bus consumer
          Api,             \* the HTTP request that starts a run by hand
          Runs,            \* ids a run may get: bounds the runs kept at one time
          OwnEvents,       \* the events written by one of the pipeline's own runs
          Settings,        \* settings the pipeline may be saved with
          MinGap,          \* the shortest min_gap_seconds of Settings
          OtherSchedules,  \* TRUE: some other pipeline is due whenever the index is refreshed
          MaxClock,        \* bound on the clock
          MaxSkew,         \* how far a clock reading may lag: taken early, or on a slow replica
          MaxOutages,      \* bound on failures of a replica and gaps of the bus
          MaxManual,       \* bound on runs started by hand
          Saver,           \* the update_schedule request
          Nobody,          \* a row lock nobody holds
          Gap              \* event_triggers_missed_events in place of an event

ASSUME SettingsAssumption ==
    /\ Settings \subseteq TriggerSettings
    /\ MinGap \in Nat
    /\ \A t \in Settings : t.min_gap >= MinGap

ASSUME NamesAssumption ==
    /\ Api \notin Replicas
    /\ Saver \notin Replicas \cup {Api}
    /\ Nobody \notin Replicas \cup {Api, Saver}
    /\ Gap \notin Events
    /\ OwnEvents \subseteq Events
    /\ OtherSchedules \in BOOLEAN
    /\ MaxClock \in Nat /\ MaxSkew \in Nat /\ MaxOutages \in Nat /\ MaxManual \in Nat

Starters == Replicas \cup {Api}

\* Who may hold the state row: a replica's ingest, a replica's tick, a run's finish.
StLocks == {"ingest", "tick"} \X Replicas \cup {"finish"} \X Runs

VARIABLES clock,     \* the clock the replicas share
          pipe,      \* committed row of pipelines: the settings
          pipeLock,  \* who holds that row FOR UPDATE
          st,        \* committed row of event_trigger_state
          stLock,    \* who holds that row (also while its INSERT is not committed)
          seen,      \* trigger_events_seen: stream sequences already recorded
          run,       \* rows of runs: status and the events that fired the run
          ing,       \* per replica: its ingest_trigger_event / event_triggers_missed_events
          tick,      \* per starter: its tick() or run_now()
          known,     \* per replica: the scheduler's _next_known_fire
          fin,       \* per run: its finish_run
          sched,     \* the update_schedule request
          outages,   \* how many replicas failed and gaps of the bus so far
          manual,    \* how many runs were started by hand
          pruned,    \* history: events of runs that retention has deleted
          dropped,   \* history: events consumed without a run because the trigger was off
          lost       \* history: events in the hands of a tick that died

vars == <<clock, pipe, pipeLock, st, stLock, seen, run, ing, tick, known, fin,
          sched, outages, manual, pruned, dropped, lost>>

ghosts == <<outages, manual, pruned, dropped, lost>>

-----------------------------------------------------------------------------
(* Types *)

RunStatus == {"none", "active", "ended"}

IngestTxn == [pc : {"idle", "locked", "decided"}, ev : Events \cup {Gap},
              now : Nat, t : Settings, active : BOOLEAN]

TickPc == {"idle", "claim", "locked", "decided", "start", "insert", "busy",
           "relocked", "redecided", "reindex"}

TickTxn == [pc : TickPc, now : Nat, t : Settings, active : BOOLEAN,
            fired : SUBSET Events, missed : BOOLEAN]

FinTxn == [pc : {"idle", "plain", "release"}, now : Nat, t : Settings]

TypeOK ==
    /\ clock \in Nat
    /\ pipe \in Settings
    /\ pipeLock \in Starters \cup {Saver, Nobody}
    /\ st \in TriggerRows
    /\ stLock \in StLocks \cup {Nobody}
    /\ seen \subseteq Events
    /\ run \in [Runs -> [status : RunStatus, events : SUBSET Events]]
    /\ ing \in [Replicas -> IngestTxn]
    /\ tick \in [Starters -> TickTxn]
    /\ known \in [Replicas -> Times]
    /\ fin \in [Runs -> FinTxn]
    /\ sched \in [pc : {"idle", "saving"}, t : Settings]
    /\ outages \in Nat
    /\ manual \in Nat
    /\ pruned \subseteq Events
    /\ dropped \subseteq Events
    /\ lost \subseteq Events

-----------------------------------------------------------------------------
\* datetime.now(), read before the transaction that uses it begins.
Now == {n \in 0..clock : n + MaxSkew >= clock}

Active == \E x \in Runs : run[x].status = "active"

Unlock(lock, s) == IF lock = s THEN Nobody ELSE lock

AnyTrigger == CHOOSE t \in Settings : TRUE

IdleIngest == [pc |-> "idle", ev |-> Gap, now |-> 0, t |-> AnyTrigger, active |-> FALSE]
IdleTick   == [pc |-> "idle", now |-> 0, t |-> AnyTrigger, active |-> FALSE,
               fired |-> {}, missed |-> FALSE]
Reindex    == [IdleTick EXCEPT !.pc = "reindex"]
IdleFin    == [pc |-> "idle", now |-> 0, t |-> AnyTrigger]
IdleSched  == [pc |-> "idle", t |-> AnyTrigger]

Init ==
    /\ clock = 0
    /\ pipe \in {t \in Settings : t.enabled}
    /\ pipeLock = Nobody
    /\ st = NoRow
    /\ stLock = Nobody
    /\ seen = {}
    /\ run = [x \in Runs |-> [status |-> "none", events |-> {}]]
    /\ ing = [r \in Replicas |-> IdleIngest]
    /\ tick = [s \in Starters |-> IdleTick]
    /\ known = [r \in Replicas |-> NoTime]
    /\ fin = [x \in Runs |-> IdleFin]
    /\ sched = IdleSched
    /\ outages = 0
    /\ manual = 0
    /\ pruned = {}
    /\ dropped = {}
    /\ lost = {}

-----------------------------------------------------------------------------
(* ingest_trigger_event *)

\* Creating the state row checks its foreign key, which waits for a create_run
\* that holds the pipeline row FOR UPDATE (not for update_schedule's UPDATE).
MayReference == pipe.enabled /\ ~st.exists => pipeLock \in {Saver, Nobody}

\* The stream sequence is new (a concurrent INSERT of the same one waits), and
\* the state row is created or locked; a trigger that is off by then ignores
\* the event for good.
IngestLock(r, e) ==
    /\ ing[r].pc = "idle"
    /\ e \notin seen
    /\ \A q \in Replicas : ing[q].pc # "idle" => ing[q].ev # e
    /\ stLock = Nobody
    /\ MayReference
    /\ IF pipe.enabled
       THEN /\ \E now \in Now :
                  ing' = [ing EXCEPT ![r] = [pc |-> "locked", ev |-> e, now |-> now,
                                             t |-> pipe, active |-> FALSE]]
            /\ stLock' = <<"ingest", r>>
            /\ UNCHANGED <<seen, dropped>>
       ELSE /\ seen' = seen \cup {e}
            /\ dropped' = dropped \cup {e}
            /\ UNCHANGED <<ing, stLock>>
    /\ UNCHANGED <<clock, pipe, pipeLock, st, run, tick, known, fin, sched, outages, manual, pruned, lost>>

\* _active(): its own statement, after the lock.
IngestActive(r) ==
    /\ ing[r].pc = "locked"
    /\ ing[r].ev # Gap
    /\ ing' = [ing EXCEPT ![r].pc = "decided", ![r].active = Active]
    /\ UNCHANGED <<clock, pipe, pipeLock, st, stLock, seen, run, tick, known, fin, sched, ghosts>>

\* triggers.ingest, _save_state and COMMIT.
IngestCommit(r) ==
    LET x == ing[r] IN
    /\ x.pc = "decided"
    /\ st' = [ingest(st, x.t, x.ev, x.now, x.ev \in OwnEvents, x.active) EXCEPT !.exists = TRUE]
    /\ seen' = seen \cup {x.ev}
    /\ stLock' = Nobody
    /\ ing' = [ing EXCEPT ![r] = IdleIngest]
    /\ UNCHANGED <<clock, pipe, pipeLock, run, tick, known, fin, sched, ghosts>>

\* event_triggers_missed_events: the bus was silent for longer than it keeps events.
MissedLock(r) ==
    /\ ing[r].pc = "idle"
    /\ stLock = Nobody
    /\ MayReference
    /\ pipe.enabled
    /\ outages < MaxOutages
    /\ outages' = outages + 1
    /\ \E now \in Now :
          ing' = [ing EXCEPT ![r] = [pc |-> "locked", ev |-> Gap, now |-> now,
                                     t |-> pipe, active |-> FALSE]]
    /\ stLock' = <<"ingest", r>>
    /\ UNCHANGED <<clock, pipe, pipeLock, st, seen, run, tick, known, fin, sched, manual,
                   pruned, dropped, lost>>

MissedCommit(r) ==
    LET x == ing[r] IN
    /\ x.pc = "locked"
    /\ x.ev = Gap
    /\ st' = [on_missed_events(st, x.t, x.now) EXCEPT !.exists = TRUE]
    /\ stLock' = Nobody
    /\ ing' = [ing EXCEPT ![r] = IdleIngest]
    /\ UNCHANGED <<clock, pipe, pipeLock, seen, run, tick, known, fin, sched, ghosts>>

\* The database failed or the consumer died before COMMIT: rolled back, nak'd,
\* and the bus delivers the message again.
IngestFail(r) ==
    /\ ing[r].pc # "idle"
    /\ outages < MaxOutages
    /\ outages' = outages + 1
    /\ stLock' = Nobody
    /\ ing' = [ing EXCEPT ![r] = IdleIngest]
    /\ UNCHANGED <<clock, pipe, pipeLock, st, seen, run, tick, known, fin, sched, manual, pruned, dropped, lost>>

-----------------------------------------------------------------------------
(* The scheduler loop and tick() *)

\* next_event_fire_at and list_upcoming: a row that is queued without a timer
\* is not in the index.
NextKnownFire == IF OtherSchedules THEN clock ELSE st.fire_at

\* _refresh_index, on its cadence, on wake() or after a tick.
RefreshIndex(r) ==
    /\ tick[r].pc \in {"idle", "reindex"}
    /\ known' = [known EXCEPT ![r] = NextKnownFire]
    /\ tick' = [tick EXCEPT ![r] = IdleTick]
    /\ UNCHANGED <<clock, pipe, pipeLock, st, stLock, seen, run, ing, fin, sched, ghosts>>

\* The loop calls tick(now) only when the index says a fire is due.
TickBegin(r) ==
    /\ tick[r].pc = "idle"
    /\ known[r] # NoTime
    /\ \E now \in Now :
          /\ now >= known[r]
          /\ tick' = [tick EXCEPT ![r].pc = "claim", ![r].now = now]
    /\ UNCHANGED <<clock, pipe, pipeLock, st, stLock, seen, run, ing, known, fin, sched, ghosts>>

\* Fault: a follow-up that was never released is not looked for.
Due_timers_only(now) == st.exists /\ st.fire_at # NoTime /\ st.fire_at <= now

Due(now) ==
    /\ st.exists
    /\ \/ st.fire_at # NoTime /\ st.fire_at <= now
       \/ st.queued /\ st.fire_at = NoTime /\ ~Active

\* claim_due_event_triggers: SELECT ... FOR UPDATE SKIP LOCKED, then the settings.
ClaimSelect(r) ==
    /\ tick[r].pc = "claim"
    /\ Due(tick[r].now)
    /\ stLock = Nobody
    /\ pipe.enabled
    /\ stLock' = <<"tick", r>>
    /\ tick' = [tick EXCEPT ![r].pc = "locked", ![r].t = pipe]
    /\ UNCHANGED <<clock, pipe, pipeLock, st, seen, run, ing, known, fin, sched, ghosts>>

\* Nothing due, the row locked by someone else, or the trigger off: no claim.
ClaimNothing(r) ==
    /\ tick[r].pc = "claim"
    /\ ~Due(tick[r].now) \/ stLock # Nobody \/ ~pipe.enabled
    /\ tick' = [tick EXCEPT ![r] = Reindex]
    /\ UNCHANGED <<clock, pipe, pipeLock, st, stLock, seen, run, ing, known, fin, sched, ghosts>>

ClaimActive(r) ==
    /\ tick[r].pc = "locked"
    /\ tick' = [tick EXCEPT ![r].pc = "decided", ![r].active = Active]
    /\ UNCHANGED <<clock, pipe, pipeLock, st, stLock, seen, run, ing, known, fin, sched, ghosts>>

\* A row that is queued without a timer first becomes due, at the gap.
Released(s, x) == IF s.queued /\ s.fire_at = NoTime THEN on_run_finished(s, x.t, x.now) ELSE s

\* _save_state and COMMIT; a fire is then in this tick's hands.
ClaimCommit(r) ==
    LET x   == tick[r]
        row == Released(st, x)
        notYet == row.fire_at = NoTime \/ row.fire_at > x.now
        fires  == ~notYet /\ ~Held(x.t, x.active)
    IN
    /\ x.pc = "decided"
    /\ st' = IF notYet THEN row ELSE on_due(row, x.t, x.now, x.active)
    /\ tick' = [tick EXCEPT ![r] =
                  IF fires THEN [@ EXCEPT !.pc = "start", !.fired = st.events, !.missed = st.missed]
                           ELSE Reindex]
    /\ stLock' = Nobody
    /\ UNCHANGED <<clock, pipe, pipeLock, seen, run, ing, known, fin, sched, ghosts>>

-----------------------------------------------------------------------------
(* start_run and create_run *)

\* run_now, or a scheduled fire: get_pipeline, then start_run.
RunNow ==
    /\ tick[Api].pc = "idle"
    /\ manual < MaxManual
    /\ manual' = manual + 1
    /\ tick' = [tick EXCEPT ![Api].pc = "start", ![Api].t = pipe]
    /\ UNCHANGED <<clock, pipe, pipeLock, st, stLock, seen, run, ing, known, fin, sched,
                   outages, pruned, dropped, lost>>

\* Fault: the active runs are counted without the pipeline row's lock.
CreateExclusive_unlocked(s) ==
    /\ tick[s].pc = "start"
    /\ ~tick[s].t.concurrent
    /\ tick' = [tick EXCEPT ![s].pc = "insert", ![s].active = Active]
    /\ UNCHANGED <<clock, pipe, pipeLock, st, stLock, seen, run, ing, known, fin, sched, ghosts>>

\* create_run(exclusive): lock the pipeline row, then count the active runs.
CreateExclusive(s) ==
    /\ tick[s].pc = "start"
    /\ ~tick[s].t.concurrent
    /\ pipeLock = Nobody
    /\ pipeLock' = s
    /\ tick' = [tick EXCEPT ![s].pc = "insert", ![s].active = Active]
    /\ UNCHANGED <<clock, pipe, st, stLock, seen, run, ing, known, fin, sched, ghosts>>

\* create_run without exclusive: no lock and no count.
CreateConcurrent(s) ==
    /\ tick[s].pc = "start"
    /\ tick[s].t.concurrent
    /\ tick' = [tick EXCEPT ![s].pc = "insert", ![s].active = FALSE]
    /\ UNCHANGED <<clock, pipe, pipeLock, st, stLock, seen, run, ing, known, fin, sched, ghosts>>

\* Busy: the transaction rolls back; a fire goes back to the trigger.
CreateBusy(s) ==
    /\ tick[s].pc = "insert"
    /\ tick[s].active
    /\ tick' = [tick EXCEPT ![s] = IF s = Api THEN IdleTick ELSE [@ EXCEPT !.pc = "busy"]]
    /\ pipeLock' = Unlock(pipeLock, s)
    /\ UNCHANGED <<clock, pipe, st, stLock, seen, run, ing, known, fin, sched, ghosts>>

\* INSERT INTO runs and COMMIT: the run carries the events that fired it.  Its
\* foreign key waits for another create_run that holds the pipeline row.
CreateCommit(s, x) ==
    /\ tick[s].pc = "insert"
    /\ ~tick[s].active
    /\ pipeLock \in {s, Saver, Nobody}
    /\ run[x].status = "none"
    /\ run' = [run EXCEPT ![x] = [status |-> "active", events |-> tick[s].fired]]
    /\ tick' = [tick EXCEPT ![s] = IF s = Api THEN IdleTick ELSE Reindex]
    /\ pipeLock' = Unlock(pipeLock, s)
    /\ UNCHANGED <<clock, pipe, st, stLock, seen, ing, known, fin, sched, ghosts>>

-----------------------------------------------------------------------------
(* requeue_event_trigger *)

\* The row is locked; with the trigger off by now the fire is given up.
RequeueLock(r) ==
    /\ tick[r].pc = "busy"
    /\ stLock = Nobody
    /\ IF pipe.enabled
       THEN /\ stLock' = <<"tick", r>>
            /\ \E now \in Now :
                  tick' = [tick EXCEPT ![r].pc = "relocked", ![r].t = pipe, ![r].now = now]
            /\ UNCHANGED dropped
       ELSE /\ dropped' = dropped \cup tick[r].fired
            /\ tick' = [tick EXCEPT ![r] = Reindex]
            /\ UNCHANGED stLock
    /\ UNCHANGED <<clock, pipe, pipeLock, st, seen, run, ing, known, fin, sched, outages, manual, pruned, lost>>

RequeueActive(r) ==
    /\ tick[r].pc = "relocked"
    /\ tick' = [tick EXCEPT ![r].pc = "redecided", ![r].active = Active]
    /\ UNCHANGED <<clock, pipe, pipeLock, st, stLock, seen, run, ing, known, fin, sched, ghosts>>

RequeueCommit(r) ==
    LET x   == tick[r]
        row == requeue(st, x.t, x.fired, x.missed)
    IN
    /\ x.pc = "redecided"
    /\ st' = IF x.active THEN row ELSE on_run_finished(row, x.t, x.now)
    /\ stLock' = Nobody
    /\ tick' = [tick EXCEPT ![r] = Reindex]
    /\ UNCHANGED <<clock, pipe, pipeLock, seen, run, ing, known, fin, sched, ghosts>>

\* The process dies, or a statement of the tick raises: open transactions roll
\* back, and a fire claimed but not yet turned into a run is gone.
TickFail(r) ==
    /\ tick[r].pc # "idle"
    /\ outages < MaxOutages
    /\ outages' = outages + 1
    /\ lost' = lost \cup tick[r].fired
    /\ tick' = [tick EXCEPT ![r] = IdleTick]
    /\ known' = [known EXCEPT ![r] = NoTime]
    /\ pipeLock' = Unlock(pipeLock, r)
    /\ stLock' = Unlock(stLock, <<"tick", r>>)
    /\ UNCHANGED <<clock, pipe, st, seen, run, ing, fin, sched, manual, pruned, dropped>>

-----------------------------------------------------------------------------
(* finish_run *)

\* UPDATE runs (seen by nobody before COMMIT), then SELECT ... WHERE queued FOR
\* UPDATE: a committed row that is not queued does not match, so the statement
\* neither waits for its lock nor takes it.
FinishSelect(x) ==
    /\ run[x].status = "active"
    /\ fin[x].pc = "idle"
    /\ \/ /\ ~st.queued
          /\ fin' = [fin EXCEPT ![x].pc = "plain"]
          /\ UNCHANGED stLock
       \/ /\ st.queued
          /\ stLock = Nobody
          /\ stLock' = <<"finish", x>>
          /\ \E now \in Now :
                fin' = [fin EXCEPT ![x] = [pc |-> "release", now |-> now, t |-> pipe]]
    /\ UNCHANGED <<clock, pipe, pipeLock, st, seen, run, ing, tick, known, sched, ghosts>>

FinishCommit(x) ==
    /\ fin[x].pc # "idle"
    /\ run' = [run EXCEPT ![x].status = "ended"]
    /\ \/ /\ fin[x].pc = "plain"
          /\ UNCHANGED <<st, stLock>>
       \/ /\ fin[x].pc = "release"
          /\ st' = IF fin[x].t.enabled THEN on_run_finished(st, fin[x].t, fin[x].now) ELSE st
          /\ stLock' = Nobody
    /\ fin' = [fin EXCEPT ![x] = IdleFin]
    /\ UNCHANGED <<clock, pipe, pipeLock, seen, ing, tick, known, sched, ghosts>>

\* prune_runs: retention deletes a terminal run, which also frees its id here.
PruneRun(x) ==
    /\ run[x].status = "ended"
    /\ run' = [run EXCEPT ![x] = [status |-> "none", events |-> {}]]
    /\ pruned' = pruned \cup run[x].events
    /\ UNCHANGED <<clock, pipe, pipeLock, st, stLock, seen, ing, tick, known, fin, sched,
                   outages, manual, dropped, lost>>

-----------------------------------------------------------------------------
(* update_schedule *)

\* UPDATE pipelines: waits for a create_run that holds the row.
SaveBegin(t) ==
    /\ sched.pc = "idle"
    /\ t # pipe
    /\ pipeLock = Nobody
    /\ pipeLock' = Saver
    /\ sched' = [pc |-> "saving", t |-> t]
    /\ UNCHANGED <<clock, pipe, st, stLock, seen, run, ing, tick, known, fin, ghosts>>

\* A trigger saved as off empties the state row, if a committed one exists
\* (the UPDATE waits for its lock), and COMMIT.
SaveCommit ==
    /\ sched.pc = "saving"
    /\ pipe' = sched.t
    /\ pipeLock' = Nobody
    /\ IF ~sched.t.enabled /\ st.exists
       THEN /\ stLock = Nobody
            /\ st' = reset_pending(st)
            /\ dropped' = dropped \cup st.events
       ELSE UNCHANGED <<st, dropped>>
    /\ sched' = IdleSched
    /\ UNCHANGED <<clock, stLock, seen, run, ing, tick, known, fin, outages, manual, pruned, lost>>

ClockTick ==
    /\ clock < MaxClock
    /\ clock' = clock + 1
    /\ UNCHANGED <<pipe, pipeLock, st, stLock, seen, run, ing, tick, known, fin, sched, ghosts>>

-----------------------------------------------------------------------------
IngestStep(r) ==
    \/ \E e \in Events : IngestLock(r, e)
    \/ IngestActive(r)
    \/ IngestCommit(r)
    \/ MissedLock(r)
    \/ MissedCommit(r)
    \/ IngestFail(r)

CreateStep(s) ==
    \/ CreateExclusive(s)
    \/ CreateConcurrent(s)
    \/ CreateBusy(s)
    \/ \E x \in Runs : CreateCommit(s, x)

TickStep(r) ==
    \/ RefreshIndex(r)
    \/ TickBegin(r)
    \/ ClaimSelect(r)
    \/ ClaimNothing(r)
    \/ ClaimActive(r)
    \/ ClaimCommit(r)
    \/ RequeueLock(r)
    \/ RequeueActive(r)
    \/ RequeueCommit(r)
    \/ TickFail(r)

FinishStep(x) == FinishSelect(x) \/ FinishCommit(x) \/ PruneRun(x)

Next ==
    \/ \E r \in Replicas : IngestStep(r)
    \/ \E r \in Replicas : TickStep(r)
    \/ \E s \in Starters : CreateStep(s)
    \/ \E x \in Runs : FinishStep(x)
    \/ RunNow
    \/ \E t \in Settings : SaveBegin(t)
    \/ SaveCommit
    \/ ClockTick

Spec == Init /\ [][Next]_vars

-----------------------------------------------------------------------------
(* Where a recorded event can be *)

InHand == UNION {tick[r].fired : r \in Replicas}
InRuns == UNION {run[x].events : x \in Runs}
Closed == st.skipped \cup st.ignored \cup pruned \cup dropped \cup lost

\* The scheduler's promise (triggers.py: "the count is always exact"; records.py:
\* a restart never "runs it twice"): an event is never in two places, so no event
\* starts, or is counted by, two runs, whatever is requeued, redelivered or rolled back.
NeverTwice ==
    /\ \A q, r \in Replicas : q # r => tick[q].fired \cap tick[r].fired = {}
    /\ \A x, y \in Runs : x # y => run[x].events \cap run[y].events = {}
    /\ st.events \cap (InHand \cup InRuns \cup Closed) = {}
    /\ InHand \cap (InRuns \cup Closed) = {}
    /\ InRuns \cap Closed = {}

\* Every event recorded as seen is accounted for: in the row, in the hands of a
\* tick, in a run, or given up for a reason the code names (skip, own run, trigger
\* off) or in the hands of a tick that died.
NothingVanishes == seen = st.events \cup InHand \cup InRuns \cup Closed

\* Both at once, for every mode of the trigger and with the clock (triggers.py:
\* "the count is always exact").
Accounted == TypeOK /\ NeverTwice /\ NothingVanishes

\* A burst is never stranded: while the row holds events or a noticed gap, it has
\* a timer or owes a follow-up, through every requeue, release and change of settings.
BurstHasExit == st.events # {} \/ st.missed => st.queued \/ st.fire_at # NoTime

\* A pipeline that never allows concurrent runs never has two active ones,
\* however its schedule, its event trigger and run_now race (create_run).
OneActiveRun ==
    (\A t \in Settings : ~t.concurrent) =>
        \A x, y \in Runs : run[x].status = "active" /\ run[y].status = "active" => x = y

\* A timer in the row respects both promises of EventTrigger (model.py): never
\* sooner than the gap after the last fire, never later than the longest wait of
\* the burst unless the gap says so.
TimerInWindow ==
    st.fire_at # NoTime =>
        /\ st.pending_since # NoTime
        /\ st.last_fired # NoTime => st.fire_at >= st.last_fired + MinGap
        /\ \E t \in Settings :
              \/ st.fire_at <= st.pending_since + t.max_wait
              \/ st.last_fired # NoTime /\ st.fire_at <= st.last_fired + t.min_gap

\* Two fires of a trigger are at least the smallest configured gap apart, on
\* whichever replicas and with whichever stale clocks they were claimed.
FiresKeepTheirDistance ==
    [][st'.last_fired # st.last_fired =>
          /\ st'.last_fired # NoTime
          /\ st.last_fired # NoTime => st'.last_fired >= st.last_fired + MinGap]_st

-----------------------------------------------------------------------------
(* Statements of the repository that the code does not keep *)

\* No transaction of the trigger is open.
Quiet ==
    /\ stLock = Nobody
    /\ sched.pc = "idle"
    /\ \A x \in Runs : fin[x].pc = "idle"
    /\ \A r \in Replicas : tick[r].pc \in {"idle", "reindex"}

\* postgres.py, finish_run: "a run can't end without its follow-up being released".
FollowUpReleased ==
    Quiet /\ st.queued /\ st.fire_at = NoTime => Active

\* records.py, EventTriggerState: "a restart neither loses a pending fire nor runs it twice".
RestartLosesNothing == lost = {}

-----------------------------------------------------------------------------
(* Liveness *)

\* Statements of an open transaction run; lock waiters are served in turn (strong
\* fairness: PostgreSQL queues them); loops keep looping; runs end; the bus
\* redelivers until an event is recorded; time passes.
Fairness ==
    /\ \A r \in Replicas :
          /\ WF_vars(IngestActive(r)) /\ WF_vars(IngestCommit(r)) /\ WF_vars(MissedCommit(r))
          /\ WF_vars(RefreshIndex(r)) /\ WF_vars(TickBegin(r))
          /\ WF_vars(ClaimSelect(r) \/ ClaimNothing(r))
          /\ WF_vars(ClaimActive(r)) /\ WF_vars(ClaimCommit(r))
          /\ SF_vars(RequeueLock(r)) /\ WF_vars(RequeueActive(r)) /\ WF_vars(RequeueCommit(r))
    /\ \A s \in Starters :
          /\ SF_vars(CreateExclusive(s)) /\ WF_vars(CreateConcurrent(s))
          /\ WF_vars(CreateBusy(s)) /\ SF_vars(\E x \in Runs : CreateCommit(s, x))
    /\ \A x \in Runs : SF_vars(FinishSelect(x)) /\ WF_vars(FinishCommit(x)) /\ WF_vars(PruneRun(x))
    /\ \A e \in Events : SF_vars(\E r \in Replicas : IngestLock(r, e))
    /\ SF_vars(SaveCommit)
    /\ WF_vars(ClockTick)

FairSpec == Spec /\ Fairness

\* Every event of the bus ends in a run, or is given up for a named reason: the
\* debounce, a busy pipeline, a requeue or a lost release postpone it, never for good.
EveryEventSettles == \A e \in Events : <>(e \in InRuns \cup Closed)
=============================================================================
