# Booth Pipeline in TLA+

TLA+ models of booth-pipeline, the module that stores pipelines (graphs of
tasks), runs them through Dagster, and starts runs on a cron schedule, on events
of a bus, or by hand. Several replicas of the service share one PostgreSQL
database and nothing else; almost everything that can go wrong is two of them
writing the same few rows, or one of them stopping half way.

Source paths below are relative to `src/booth_pipeline/`.

## 1. The system

| Component | Code | State | Operations | Modelled by |
|---|---|---|---|---|
| Event trigger rules | `triggers.py` | none (pure functions on a row of `event_trigger_state`) | `ingest`, `on_due`, `on_run_finished`, `requeue`, `on_missed_events`, `reset_pending` | `TriggerRules` |
| Store, trigger side | `store/postgres.py` | `pipelines` (settings), `event_trigger_state`, `trigger_events_seen`, `runs` | `ingest_trigger_event`, `claim_due_event_triggers`, `requeue_event_trigger`, `event_triggers_missed_events`, `create_run`, `finish_run`, `update_schedule`, `prune_runs` | `EventTriggers` |
| Scheduler | `scheduler.py` | `_next_known_fire` per replica | `_loop`, `_refresh_index`, `tick` | `ScheduleClaim` (scheduled fires), `EventTriggers` (event fires), `RunLifecycle` (sweep) |
| Event bus consumer | `event_bus.py` | durable consumer, `trigger_bus` (last contact), seen sequences | sessions, `_ensure_consumer`, fetch, ack, nak, `_prune` | `EventBus`; what an event does: `EventTriggers` |
| Run manager, recorder | `runs.py` | thread pool, cancellations, in-memory task runs, log buffer | `_execute`, `_watch`, `_authorize`, `cancel`, `shutdown`, `sweep`, `settle_unfinished`; `_emit`, `flush`, `close` | `RunLifecycle`, `RunLog` |
| Engine | `engine.py` | Dagster's steps | `compile_job`, `compute`, `execute` | `SpecRules`, `RunLifecycle`, `PodRules` (the invocation) |
| Run records | `records.py`, `store/base.py` | status of runs and task runs | the lifecycle the docs promise | `RunContract` |
| Schedules | `schedule.py`, `service.py` | `next_run_at` | `next_fire_trigger`, `latest_slot`, `claim_due_pipelines`, `start_scheduled`, `update_schedule`, `set_owner` | `ScheduleSlots`, `ScheduleClaim` |
| Job runner | `runners/kubejob.py`, `runners/remote.py` | slots, a Job, a Secret, an HTTP stream | template check, assembling the pod, create, wait, stream, cancel, clean up | `PodRules`, `TaskPod` |
| Task's pod | `runner_service.py`, `runners/subprocess_runner.py`, `_harness.py`, `pip_install.py` | one process, token files, an event queue, an idle timer | set up, run, time out, stop, report, exit | `PodRules`, `TaskPod` |
| Spark runner | `runners/spark.py`, `runners/_spark_client.py` | `_apps`, one application per attempt, a log cursor | check the previous application, submit, poll, copy the log, stop | `SparkRun` |
| Task secrets | `task_secrets.py` | `task_secrets`, mounted keys, a run's `Redactor` | `seal`, `reseal`, `values`, `add`, `text` | `TaskSecrets` |
| Workload identity | `workload.py`, `owners.py`, `service_accounts.py` | none | minting a run's token, with retries | `Workload` |
| Service | `service.py` | pipelines, versions, drafts, owners, tasks | saving, drafting, pinning, starting, deleting | `Catalogue`; starting and schedules also in `EventTriggers`, `ScheduleClaim` |
| Store | `store/memory.py`, `store/postgres.py` | the tables | one transaction per operation | `CatalogueStore` (as what each operation leaves behind) and the modules above (at statement grain) |
| Model and validation | `model.py`, `resolve.py` | none | `validate_task_config`, `validate_structure`, `topological_order`, `node_config` | `ConfigRules`, `SpecRules` |
| Retention | `retention.py` | none | `prune_runs` in batches | its effect: `EventTriggers` |
| API | `api.py`, `app.py` | none of its own | following a log; re-sealing at start-up | `RunLog`, `TaskSecrets`; the rest is routing |
| Auth, config, clients, registry, web UI | `auth.py`, ... | none of their own | request handling, I/O | not modelled (Section 8) |

How they interact. A bus consumer on any replica calls `ingest_trigger_event`,
which locks the trigger's state row, asks whether a run is active, applies
`triggers.ingest` and commits. The scheduler loop of each replica keeps an index
of the next fire it knows; when that is due it ticks: it claims due triggers in
one transaction, and starts a run for each in another (`create_run`, under the
lock of the pipeline row). If the pipeline turned out to be busy the fire goes
back with `requeue_event_trigger`. The run is executed by a thread of the replica
that created it, watched by a second thread that sends heartbeats and polls for a
cancel. When it ends, `finish_run` also releases a follow-up that the trigger owes.
A tick ends with `sweep`, which fails runs without a heartbeat.

A task attempt runs elsewhere: the Job runner creates a pod for it, streams the task over
one HTTP connection, and hangs up to cancel. A Spark task's pod in turn only submits an
application to booth-spark and follows it. The run's thread, the threads that read the
task's output and a flusher share the recorder's log buffer. What can be run at all is
decided earlier, when a request saves a task or a pipeline: each such request is a sequence
of store transactions, and requests of other clients come between them.

What is hard here:

* *Interleavings of transactions at READ COMMITTED.* A decision made from one
  statement (settings, "is a run active", `now()`) is committed later, and
  `SELECT ... FOR UPDATE` waits only for rows its `WHERE` clause already matches.
* *Two transactions for one logical step.* Claiming a fire and creating its run;
  ending a run and closing its task runs; checking a status and changing it.
* *A worker that is slow, not dead.* A sweep may end a run whose worker is still
  writing.
* *Delivery.* Events are delivered at least once, to any replica, and may be
  dropped by the bus while nobody consumes.
* *Several threads and machines around one attempt.* A cancel, a hang-up, a result on the
  wire, a timeout, the end of the pod and the death of the API pod may fall in any order.
* *Retries of what was already done.* A repeated POST, a second application, a redelivered
  event whose seen row is being pruned, a page of a log that is still being written.
* *Checked now, used later.* References, configurations and drafts are validated in one
  transaction and stored in another; a key rotation meets replicas that still use the old key.
* *Progress.* A burst may be debounced, held by a running run, requeued and held
  again; every path must end in a run or in a named reason for having none.

## 2. Modules

### TriggerRules (pure)

One operator per rule of `triggers.py`, with the source's name. A count of events
(`pending_count`, `skipped_count`, `ignored_count`) is modelled by the *set* of
events counted, so exact counting becomes a statement about where each event is.
Columns that are only displayed (`last_event`, `last_event_at`, `gap_detected_at`)
are left out. `FireAt` is `_fire_at`: debounce after this event, capped by the
longest wait of the burst, floored by the gap after the last fire.

### EventTriggers

One pipeline with an event trigger, any number of replicas, events and runs.

| Variable | Code |
|---|---|
| `pipe`, `pipeLock` | the pipeline's row (its settings) and its row lock |
| `st`, `stLock` | the committed row of `event_trigger_state`, and its lock |
| `seen` | `trigger_events_seen` |
| `run` | rows of `runs`: status, and the events the run carries |
| `ing[r]` | replica r's open `ingest_trigger_event` or `event_triggers_missed_events` |
| `tick[s]` | the tick of replica s, or the API's `run_now` |
| `known[r]` | `_next_known_fire` |
| `fin[x]` | the open `finish_run` of run x |
| `sched` | an open `update_schedule` |
| `clock` | wall time; readings of it may lag by `MaxSkew` |
| `pruned`, `dropped`, `lost`, `outages`, `manual` | history and bounds |

A transaction is split wherever another can come between two of its statements
with a different outcome: lock, `_active()`, commit. Its writes appear at the
commit. `ClaimSelect` carries `SKIP LOCKED` (`ClaimNothing` is the skip),
`FinishSelect` carries the `WHERE queued` that neither waits for nor locks a row
that does not match, and `MayReference` is the foreign-key check that makes the
first insert of a state row wait for a `create_run` holding the pipeline row.
`TickFail` is a process that stops, or a statement that raises, anywhere in a
tick; `IngestFail` is the same for a delivery, which the bus then repeats.

An enabled trigger always has a saved version (`service.py:283-285`), so
`start_run`'s other errors cannot occur for an event fire and are not actions.

### RunContract (abstract) and RunLifecycle

`RunContract` is what the rest of the system may assume about a run: queued, then
perhaps running, then one terminal status for good; a success or a skip only of a
run that started; canceled only if somebody asked. `RunLifecycle` is the code: one
action per store write or read that matters.

| Variable | Code |
|---|---|
| `row` | the run's row: `status`, `cancel_requested`, and `stale` (`stale_runs` would return it) |
| `task` | its rows of `task_runs` |
| `w` | the worker: its place in `_execute_inner`, its `Cancellation`, the outcome it will write |
| `mem` | `StoreRecorder`'s own copy of the task runs |
| `step` | Dagster's view of the steps (external) |
| `sw[s]` | replica s's `sweep` of this run, with the task runs it listed |
| `shutdown`, `crashes` | the replica is stopping; deaths so far |

Dagster is external: one step at a time, a step only when all its upstream steps
gave an output, and a step that raised again while its retry policy allows. Store
failures follow the code: swallowed inside the recorder (`Record`), turned into a
failed run by `_execute`'s handler outside it (`StoreRaises`, worker place
`internal`), and a worker that is gone if the handler's own `finish_run` raises.

`Authorize` takes its answers from `Workload`: `mint` classifies booth-core's response,
`authorize` asks up to three times, `_authorize` decides whether the run goes on. `Lossy`
names the tasks whose saves may fail inside the recorder.

`KeepsContract` is the refinement: `RunContract` with `status <- row.status` and
`stopping <- row.cancel_requested \/ shutdown`.

### ScheduleSlots (pure) and ScheduleClaim

`ScheduleSlots` is `schedule.py`: `next_fire_trigger` and `latest_slot` on natural-number
instants, `Second` of them to a second. A cron expression is the set of instants it
matches; croniter is external and is modelled by its two strict searches, `NextSlot`
and `PrevSlot`.

`ScheduleClaim` is one scheduled pipeline and the replicas that tick for it.

| Variable | Code |
|---|---|
| `pipe`, `pipeLock` | the pipeline's row (schedule, `allow_concurrent_runs`, `next_run_at`) and its row lock |
| `tick[r]` | replica r's tick: the instant it read, and the pipeline it claimed |
| `known[r]` | `_next_known_fire` |
| `edit[u]` | an `update_schedule` or `set_owner`: the copy of the row that it will write |
| `rows` | the pipeline's runs: their claim, the claimed `next_run_at`, `scheduled_for` |
| `clock`, `claims`, `edits`, `manual`, `failures`, `lost` | time, numbering, bounds, history |

`ClaimSlot` is one transaction, as in the code: it returns the row as it was and
commits the next fire after its own `now`. The run comes later, in `create_run`
(`CreateLock` or `CreateUnlocked`, then `CreateCommit` or `CreateBusy`); a busy
pipeline leads to `RecordDropped`, a second `create_run` for a run that is already
over. Claims are numbered so that properties can say which run belongs to which.
`SaveSchedule` and `SetOwner` read the row and `EditCommit` writes all of it, however
old it is by then, because `update_pipeline` does.

### ConfigRules, SpecRules (pure)

`ConfigRules` is which task configurations may be saved: `validate_task_config` and the
checks it calls. A name is a member of a small set with one element for each way in which the
checks tell names apart (malformed, reserved, shadowing, plain); a text is its length.
`SpecRules` is a pipeline's graph: `topological_order` (Kahn's loop as a recursive function; `Pop` is one turn of it,
`Release` what a turn does to one node downstream), `validate_structure`, `compile_job`, and the params of a node. It ends with
`WellFormed`, `Acyclic` and `IsOrder`, which say what a graph and its order have to be without
an algorithm, and which the operators are compared with.

### PodRules (pure) and TaskPod

`PodRules` is what becomes of the chart's Job template for one task (`_check_template`, `_job`,
`_personalize_sidecars`, `_personalize_pip`), what the pod's entry point makes of it (`Main`), the
environment of the task's process (`_env`) and which module an import finds (`Imports`).

`TaskPod` is the attempt itself.

| Variable | Code |
|---|---|
| `template`, `up` | the chart's template; whether the API pod refused it, runs, or died |
| `slots` | `_slots` of the Job runner |
| `inv[a]` | the invocation `engine.compute` made of the task's configuration |
| `cl[a]` | the attempt's thread in the API pod: stage, the run's cancel flag, the `watch_cancel` thread, whether `stream_box` holds the response, the outcome |
| `kb[a]` | the cluster (external): Job, Secret, pod |
| `link[a]` | the connection of `POST /v1/run` |
| `sv[a]` | the task's pod: stream generator, `should_exit`, the idle timer's flag, cancel flag, work thread, process, token files, event queue, what is on the wire |

The process, the cluster and the network are external: a process may end in any way or never, a
pod may stay pending, be refused or be lost, the API server may refuse to delete a Job, or create one and
not answer (`kb[a].job` is then "leaked" or "orphan"; `MaxLeaks` bounds each kind).
Timeouts are steps that may be taken whenever their wait is on. Configurations come from
`Configs`, the ones somebody may try to save; only those that `validate_task_config` accepts reach
an attempt.

### SparkRun

The attempts of one Spark task. `n`, `at`, `mem`, `prev` and `trk` are `SparkRunner.run` (the attempt, its stage,
`_apps[key]`, `previous`, the `_Tracker`); `cli` is the client in the pod (`_spark_client.py`); `pipe` holds
events on their way from one to the other; `apps` is booth-spark (external), which keeps one
application per idempotency key and the newest `KeptLines` lines of its log (its last 1 MiB); after a lost cursor the
client asks for the newest `TailLines` only (`logs?tail=10000`). `forgotten` is history: applications whose end nobody will wait for.

### EventBus

The replicas' sessions on one durable consumer. `row` is `trigger_bus`, `seen` is `trigger_events_seen`, `rep[r]`
the session (its stage in `_session` and `_ensure_consumer`, the `now` and the row it read, the message in
its hands); `events` and `consumer` are JetStream (external), which keeps an event for `MaxAge`,
delivers what is unacknowledged again and again, and may lose the consumer. `counted`, `heard`, `stale`
and `noticed` are history. `parse_event` is `triggers.parse_event` on what a publisher may have written.
A unit of the clock is about a day: setting a session up and handling a message take less
(`Prompt`).

### RunLog

One run's log: `rec` is the recorder under its lock, `batch[t]` what thread `t` took and is storing, `rows` the
table, `sweep` a replica that appends "run failed", `follower` a client of `GET /runs/{id}/logs`. A flush
is two steps, because the batch is taken under the lock and stored outside of it. `hidden`, `late`,
`lost`, `made` and `slow` are history.

### CatalogueStore and Catalogue

`CatalogueStore` has the store's operations on pipelines, versions, drafts, tasks and runs as
operators from one value of the database to the next. `Catalogue` is `PipelineService`: each request `q` is
a sequence of store transactions (`req[q]` is its next step and what it has read), and may be
abandoned after any of them. Code referenced from storage or from the catalogue is fetched between
two of them (`Resolve`), while the object may be replaced (`Replace`). `work[x]` is a run's worker, for
what deleting its pipeline does to it. `MaxListed` is the page of runs that a deletion looks at (1000): `list_runs`
returns the newest of any status, and `_record_dropped_fire` adds rows of skipped runs, as a tick does that finds the
pipeline busy. A row's `created` counts the rows of its pipeline before it, in the place of `created_at`; retention's
pruning, which can only shorten that list, is left to `EventTriggers`. `raced`, `uneven`, `away` and `behind` are
history: the cases that the properties below name as exceptions.

### TaskSecrets

`mount` and `keyId` are the key Secret and the configured key id, `box[r]` the `SecretBox` replica `r` loaded,
`phase[r]` and `todo[r]` its start and its re-sealing, `row` the table, `run`, `task`, `byValue` and `kept` a run (the
replica it is on), its attempts, which open secrets, its `Redactor`, and the text it stored last. Values are sequences of
characters, because redaction is about one value inside another; `text` replaces them, longest first, as
`Redactor.text` does. Both it and `str.replace` are recursive functions, not `RECURSIVE` operators, so that they can
be proved about.

The `MC*` modules give the constants small values. The
operators commented `Fault:` (or "a plausible bug") are not part of the models: each is a plausible bug
of the definition that follows it, kept to show that the properties notice it.

## 3. Properties and what they are for

Event triggers:

* `NeverTwice`, `NothingVanishes`: every recorded event is in exactly one place
  (the row, a tick's hands, one run) or was given up for a reason the code names.
  Redelivery, rollback, requeue, changed settings and pruning are all included.
* `Accounted`: both, in every mode of the trigger and with the clock.
* `BurstHasExit`: a row that holds events or a noticed gap has a timer or owes a
  follow-up.
* `OneActiveRun`: a pipeline without concurrent runs never has two.
* `TimerInWindow`, `FiresKeepTheirDistance`: debounce, longest wait and gap, with
  clock readings that are stale and settings that change in between.
* `EveryEventSettles`: every event ends in a run or is given up.

Runs:

* `KeepsContract`: the refinement above.
* `OutcomeMatchesTasks`: the run's status agrees with its task runs.
* `SettledBeforeFinish`: an executed run shows its end only after its task runs
  are closed.
* `SweptOnce`: of the replicas that see a run stale, at most one goes on to its
  task runs, and only if its `finish_run` ended the run.
* `EveryRunEnds`.
* `AttemptsBounded` (proved only): `max_retries + 1` attempts, through cancels and sweeps.

Schedules:

* `EveryClaimShows`: each claimed slot becomes exactly one run, started or recorded
  as skipped, unless the tick that holds it fails.
* `SlotIsLatest`: a late run is for the latest slot due when it was claimed. The
  bound is `slot < at + Second`, not `slot <= at`: see Section 7, (g).
* `MissedSlotsCoalesce`: while nobody edits the pipeline, of two fires one was claimed
  before the other's first slot.
* `KeepsFiring`: an enabled schedule's `next_run_at` is in the future again and again.

Task attempts:

* `OutcomeIsTheTasks`: the engine is told what happened in the pod, however hang-up, result and the
  end of the pod fall.
* `NothingLeftBehind`: no Job, Secret or slot is kept by an attempt that is over. A Job may remain that the API server
  refused to delete, and one whose creation it never answered (Section 7, p); the latter gets no Secret and runs
  nothing. `MaxConcurrent` bounds the Jobs apart from these.
* `PodFits`, `GivenAsListed`: a running process has the packages, sidecars, tokens, secrets and modules
  its saved configuration lists, and nothing of the runner's own is replaced by them.
* `HangUpStops`, `OrphansEnd`: hanging up is enough to stop a process; a pod without an API pod ends.
* `OneUnlessForgotten`, `OutputIsReal`, `LogOnce`, `TaskEnds`: Spark applications, their output, their log,
  and that no attempt waits for ever. The exceptions `OneUnlessForgotten` names are in Section 7, (k). `LogOnce`:
  a line of a successful attempt's log is missing only if booth-spark no longer kept it, or if the cursor was lost
  before it and it is not among the last `TailLines`; it is there twice only if the cursor was lost after it (l).

Events, log, catalogue and secrets:

* `HandledOnce`: no event is ingested twice, across redelivery, recreated consumers and pruning.
* `GapsKnown`: what the bus dropped while nobody read is announced (`LossNoticed`); a recreated consumer
  skips only what a contact had left behind (`SkippedOnlyIfOld`).
* `EventuallyHandled`: what can be delivered is ingested in the end.
* `LinesAccounted`, `DoneIsComplete`, `FollowerHasAll`: each numbered line is in one place; a terminal status
  shows a complete log; a follower told "done" has every row stored in order before the end.
* `RefsHold`, `SavedRuns`, `DraftFresh`, `GenuineCode`, `DeletedIsGone`: what the requests of several
  clients leave in the store. `SavedRuns` includes `OrderDecides`, the comparison of the graph's rules with
  their definition. `DeletedIsGone` is about what a deletion leaves and whom it tells: a worker that goes on executing
  without its row was told, was out of its reach (`away`: on another replica or not registered yet, or created after
  the deletion had looked), or served a run behind the page it looked at (`behind`, Section 7, q).
* `RotationCompletes`, `NothingLeaks`: a key rotation ends with no row under the old key; no character of a
  value handed to a run is left in what the run stores.

Except in `RunLifecycle`, `ScheduleClaim` and `EventTriggers`, where it is a theorem of its own, a module's type invariant is
part of one of its properties.

## 4. Runs

| Run | Instance | Checks | Shows |
|---|---|---|---|
| `trigger_safety` | 2 replicas, 2 runs, 3 events (one of the pipeline's own run), one manual start, one outage, trigger on or off | `NeverTwice`, `NothingVanishes`, `OneActiveRun`, `BurstHasExit` | exact accounting and exclusion between replicas |
| `trigger_timed` | 1 replica, 1 run, debounce 1, wait 2, gap 2 or 3, every mode, clock to 5, skew 1 | `TimerInWindow`, `Accounted`, `FiresKeepTheirDistance` | the timing promises, while settings change under open transactions |
| `trigger_settles` | 1 replica, manual run in the way, one outage | `EveryEventSettles` | progress, if something else keeps the scheduler ticking |
| `runs` | 2 tasks, one retry, 2 sweepers, stalls, store failures, two deaths | `OutcomeMatchesTasks`, `SettledBeforeFinish`, `SweptOnce`, `KeepsContract`, `EveryRunEnds` | agreement of rows, also between a live worker and a sweep; progress after any two deaths |
| `schedule_safety` | 2 replicas, clock to 5, one edit, one failed tick | `EveryClaimShows`, `SlotIsLatest`, `MissedSlotsCoalesce` | claims by racing replicas, late ticks and busy pipelines |
| `schedule_fires` | 1 replica, clock to 4, one edit, one manual run, one failed tick | `KeepsFiring` | no edit leaves an enabled schedule that will not fire |
| `task_pod` | 2 attempts, 1 slot, a good and a refused template, one configuration for every check | `OutcomeIsTheTasks`, `NothingLeftBehind`, `PodFits`, `GivenAsListed`, `HangUpStops`, `OrphansEnd` | an attempt through cancels, timeouts, lost pods and the API pod's death |
| `spark_apps` | 3 attempts, 1 outage each, 2 log lines and the output line, of which 2 are kept and 1 is asked for after a lost cursor | `OneUnlessForgotten`, `OutputIsReal`, `LogOnce`, `TaskEnds` | one application per task across retries |
| `event_bus` | 2 replicas, 1 event kept for 1 unit, clock to 3, one lost consumer | `HandledOnce`, `GapsKnown`, `EventuallyHandled` | delivery and gap detection |
| `run_log` | 2 readers of 2 lines each, cap of 3 lines, batches and pages of 2 | `LinesAccounted`, `DoneIsComplete`, `FollowerHasAll` | concurrent flushes, close, a sweep and a follower |
| `catalogue` | 1 pipeline, 1 task, 2 runs or skipped fires, a page of 1, 2 clients, 2 replicas, 4 requests, 2 versions | `RefsHold`, `SavedRuns`, `DraftFresh`, `GenuineCode`, `DeletedIsGone` | requests that interleave and stop half way |
| `task_secrets` | 2 replicas, 2 names, 2 keys, one task attempted twice, one value part of the other, 6 requests or operator steps | `RotationCompletes`, `NothingLeaks` | rotation under traffic, redaction across attempts |

Run one with `tlc -config EventTriggers_safety.cfg MCEventTriggers`; the module is the `MC` one where
there is one. The longest take about three minutes.

Bounds. Two events are the least that make a burst with a member that arrives
before and one that arrives after each step; a third only repeats the second's
role, and is here the pipeline's own. Two run ids are the least that can violate exclusion; `PruneRun` frees an
id, so histories of more than two runs occur. Two replicas are the least that
race for a row, and every lock is between two holders. `MaxOutages` and
`MaxCrashes` bound failures, `MaxManual` bounds runs started by hand.
The untimed instances set debounce, wait and gap to 0 and `MaxClock` to 0, which
makes every timer due as soon as it is set: the clock is then coarser than the
delays, and any order of transactions is possible, including the ones a longer
delay would make unlikely. `trigger_timed` has the clock and only one replica and one
run. `MinGap` is the smallest gap of the settings in use. In the run model two
tasks give one dependency and one retry, and the saves of the second may fail (`Lossy`).
`CHECK_DEADLOCK FALSE` appears where the modelled run, task or bounded set of requests comes to an end.

In the schedule instances a unit is half a second (`Second = 2`), so that a tick can
read the clock between seconds, which is where `latest_slot`'s one-second look-ahead
matters; a cron has the slots 2, 4 and 8, an interval is 2 units, and a schedule may
be off. Slots two units apart under a clock to 5 give a tick one missed slot, two
missed slots, and a slot less than a second ahead. `MaxEdits`, `MaxManual` and `MaxFailures`
bound the edits, the runs started by hand and the failed ticks; with no edit allowed
the schedules would only be chosen by `Init`, with one every pair of them is tried.

In `task_pod` the second attempt competes for the slot and cannot be started, so every path by which a
slot, a Job and a Secret come back meets a waiter. Three Spark attempts are the least in which an
application forgotten by the second is alive during the third. In `event_bus` a clock to 3 lets an
event expire (age 1), its seen row be pruned (kept 2), and a contact be late. Two readers with
batches of two make a writer, the flusher and `close` store at once; the cap of three lines is
reached and noted. In `catalogue` four requests are the least for a save, a deletion and a run to cross
with one that was abandoned; the graph's rules are checked on every graph of up to two nodes with
arbitrary lists of dependencies and every graph of three. A page of one and two runs are the least where an active run is
past the page. The constraint `RunsOfOneSpec` lets runs appear only while one fixed spec is all that is stored, the object in storage is
the first one and no request is half way through saving a task (deleting one is a single step and is explored): what happens to a
run depends on none of these, and the properties of specs, drafts and code are explored in full without runs.
In `spark_apps` one line is asked for, two are kept and the log grows to two and its output line, so that each limit cuts something off.

Symmetry is used for replicas, run ids, requests and names in runs that check no liveness.

## 5. Fairness

`EventTriggers!Fairness`: a statement of an open transaction eventually runs (weak);
a transaction that waits for a row lock eventually gets it (strong: PostgreSQL
queues waiters); the scheduler loop keeps looping (`_loop` swallows exceptions);
a run eventually ends (`FinishSelect`, from `EveryRunEnds`); the bus redelivers what
was not acknowledged; retention prunes; time passes. No fairness is assumed for
saving settings, manual starts, gaps and failures. `OtherSchedules = TRUE` says
that some other pipeline of the deployment is due whenever the index is refreshed;
without it the property fails (Section 7, a).

`RunLifecycle!Fairness`: a live worker takes its next step (attempts have a
timeout), a run nobody watches goes stale, a replica that ticks sweeps. Nothing
is assumed of the watcher, of cancels or of a crashed worker.

`ScheduleClaim!Fairness`: statements of an open transaction run and the loop keeps
looping (weak); claims, inserts and edits that wait for the pipeline's row get it
(strong; the claim skips a locked row, but its lock is held for one short transaction and
the loop comes back); time passes. Nothing is assumed of edits beginning, of manual runs,
of failures, or of runs ending.

`TaskPod!Fairness`: the threads, timers and generators of both pods go on. Nothing is assumed of the
task's process, of its timeout, of the cluster, or of cancels.

`SparkRun!Fairness`: the runner and the client go on, booth-spark ends every application (its
`maxDuration`), and a request for an application's state is answered again and again (the client polls
for ever, so a permanently unreachable booth-spark would keep the attempt until its timeout).

`EventBus!Fairness`: the credential's Secret arrives, the session loop goes on (`_main` retries every
failure), and outages end at some time (`<>[][Answered]_vars`). Nothing is assumed of time, of
publishers, or of JetStream keeping the consumer.

`RunLog`, `Catalogue` and `TaskSecrets` state no liveness.

## 6. Proofs

`RunLifecycleProofs` proves, for every set of tasks, acyclic dependency relation, retry
policy, number of replicas and any number of crashes, stalls and store failures:

| Theorem | Statement | Argument |
|---|---|---|
| `TypeCorrect` | `Spec => []TypeOK` | one lemma per group of actions |
| `RunKeepsContract` | `Spec => KeepsContract` | `ContractInv`: past `mark_running` the run is not queued, although `mark_running`'s result is not looked at (`Marked`); a cancellation or a canceled outcome was asked for (`CancelAsked`); an outcome only the engine gives belongs to a run that was marked (`WorkedFirst`). With it each step is a step or a stutter of `RunContract` |
| `SweepsOnce` | `Spec => []SweptOnce` | inductive with `TypeOK`: only the sweeper whose `finish_run` changed the row goes on |
| `SettlesBeforeFinish` | `Spec => []SettledBeforeFinish` | `SettledInv`: what the recorder has closed is closed in the store (`ClosedInStore`), because a sweep too only writes closed statuses, and past `settle_unfinished` the recorder has closed all of them (`AllSettled`) |
| `AttemptsAreBounded` | `Spec => []AttemptsBounded` | `AttemptInv`: recorder, store and every sweep's snapshot are within the policy (`AttemptsFit`), and a step that Dagster will run again has an attempt left (`RetriesLeft`). It needs `NotYet`: before the engine runs no step has run |
| `OutcomesMatchTasks` | `Spec => []OutcomeMatchesTasks` | `OutcomeInv`: step states determine the recorder's statuses (`StepsRecorded`, `WaitingIsPending`), the worker's outcome says what they are (`SucceededMeans`, `SkippedMeans`), and while no sweep failed the run, recorder and store agree (`InStep`, `WhoSaysSo`). An engine with nothing left to run has no waiting step unless one failed or gave no output, which is where `AcyclicAssumption` is used (`NothingLeftWaiting`) |

The assumptions on constants are `RunAssumption` (types) and `AcyclicAssumption`
(`topological_order` refuses a cycle when a version is saved); TLC evaluates both
in every run of `MCRunLifecycle`.

`ScheduleClaimProofs` proves, for every set of schedules, every number of replicas and
requests, and every bound:

| Theorem | Statement | Argument |
|---|---|---|
| `ScheduleTypeCorrect` | `Spec => []TypeOK` | `BaseInv`: no instant is past the clock, every copy of the row pairs a schedule with a fire time of that schedule (`PairInv`), and a claimed fire was due (`HoldInv`); without these `latest_slot` could be asked for a slot that does not exist |
| `SlotsAreLatest` | `Spec => []SlotIsLatest` | `LatestSlotIsLatest`, the lemma about the operator: for an interval by `WholeIntervals` (division with remainder), for a cron by the maximality of `PrevSlot`. Its hypotheses hold of every claim by `BaseInv` |
| `ClaimsShow` | `Spec => []EveryClaimShows` | `NumberInv`: with the property itself, a tick has a claim's number exactly while it holds the claim (`Numbered`). `HandMoves` says what one tick's step does to the claims in hand (nothing, one less, one more); a claim's number is `claims + 1`, which no place has yet |
| `FiresCoalesce` | `Spec => []MissedSlotsCoalesce` | `CoalesceInv`: before the first edit, `next_run_at` is after every fire claimed so far, in a tick's hands or already a run (`NextIsLater`), and all of these are pairwise apart (`HandsApart`, `HandsRowsApart`, `RowsApart`). A claim begins at `next_run_at` and moves it past its own `now` (`NextFireLater`) |

They assume `SecondAssumption` (a second has at least one unit, `NoTime` is not an
instant) and `ScheduleAssumption` (types; a cron has a first slot after any instant of
the run and, if any, a last one before it), evaluated in every run of `MCScheduleClaim`.

`EventTriggersProofs` proves, for every set of replicas, runs, events and settings, every clock, lag and
bound on outages and manual starts:

| Theorem | Statement | Argument |
|---|---|---|
| `TriggerTypeCorrect` | `Spec => []TypeOK` | `TInv`: the types, the promises of the row (`RowInv`), and that open ingests are of different events, none recorded yet (`IngestsAreFresh`: the lock of a sequence number is the row that records it) |
| `BurstsHaveExits`, `TimersInWindow` | `Spec => []BurstHasExit`, `Spec => []TimerInWindow` | `ExitOf` and `WindowOf` of a row, by one lemma per rule of `triggers.py`: each rule, given a row with these promises and *any* settings and clock reading, returns such a row. The lock is what makes the row of the decision the row of the commit |
| `FiresApart` | `Spec => FiresKeepTheirDistance` | `Apart`, what a rule may do to `last_fired`; from the floor that `_fire_at` puts under every timer |
| `EventsNeverTwice`, `EventsNeverVanish`, `EventsAccounted` | `Spec => []NeverTwice`, `[]NothingVanishes`, `[]Accounted` | `BInv`: the books (`Books`: each recorded event is in exactly one of row, one hand, one run, closed), and that a tick has events in its hands only from its claim until it gives them on (`HandsOpen`). Every transaction moves a whole set from one place to another |
| `OneRunAtATime` | `Spec => []OneActiveRun` | `OInv`: whoever inserts an exclusive run holds the pipeline row (`RowHeld`), and what it counted under that lock is still so (`CountHolds`), because every other path to an active run needs the same lock |

They assume `SettingsAssumption` (types; `MinGap` is a lower bound of the gaps), `NamesAssumption` (roles are
distinct, bounds are numbers) and `NoTimeAssumption`.

`StoredTextProofs` is about what a run stores. On `RunLog` it proves, for any number of readers and lines and every
cap, batch and page size:

| Theorem | Statement | Argument |
|---|---|---|
| `LinesAreAccounted` | `Spec => []LinesAccounted` | `LInv`: each line made is in one place of buffer, one thread's batch, lost, stored, or displaced by a sweep's row with its number (`Ledger`); numbers are at most `rec.seq` (`Numbers`), so a new one is new |
| `EndsComplete` | `Spec => []DoneIsComplete` | `EndInv`: what was written before the end is, past `close`, stored, lost or in the closing thread's batch, unless that gave up waiting |
| `FollowersHaveAll` | `Spec => []FollowerHasAll` | `FollowInv`: whatever is at or below the follower's number was read, or was stored below it afterwards. A page holds everything up to its last line, and a short page everything |

They assume `SizesAssumption` (sizes are at least one). On `TaskSecrets` it proves, for any replicas, keys, tasks, names
and values:

| Theorem | Statement | Argument |
|---|---|---|
| `RotationsComplete` | `SecretsSpec => []RotationCompletes` | `SecretsInv` (types, a run's values) and `Answered`: a row is under the current key of some replica, unless a replica that has no keys yet, or has still to seal this row again (`WillReseal`), answers for it. When all replicas are up with one key only the first is left |
| `NoValueStored` | `SecretsSpec => []NothingLeaks` | `Redacts`: every value handed out is in the run's `byValue`. Before a value's turn the values tried are as long or longer, and none but itself occurs in the line (`NoLonger`), so the line is unchanged (`ReplaceNothing`); its turn leaves its mark alone between the line's two other characters (`ReplaceWhole`); after it a replacement can only put in marks (`ReplaceStays`) |

They assume `ValuesAssumption` (a value is a non-empty sequence of `Chars`), `TextAssumption` (the other text of the line that
is stored has no such character), `CapsAssumption` and `DeclaresAssumption` (bounds, and what tasks declare). The library's induction
theorems are out of reach, so what the recursive functions compute is proved from the least number at which it would be wrong
(`LeastMember`, by `WFMin`): the same for the functions of `PodRules` and `SpecRules` below.

`EventBusProofs` proves, for any number of replicas, events and losses of the consumer, and every age,
retention and margin:

| Theorem | Statement | Argument |
|---|---|---|
| `EventsHandledOnce` | `Spec => []HandledOnce` | `HInv`: no time lies ahead (`Past`), a session acts within a unit of what it read (`InTime`), an event in hand had not expired when fetched (`InHand`), and a counted event is marked as seen, or older than `SEEN_KEEP` (`Marked`), which by then no session can hold |
| `OutagesKnown` | `Spec => []GapsKnown` | `GInv`: what the row of `trigger_bus` says about an event that came before it (`RowTells`), where each session stands to that row (`SessionsHold`), that a session announces a loss before it records the contact that would hide it (`ToldBefore`), and what a recreated consumer skips (`SkipsStale`) |

They assume `AgesAssumption` (seen rows are kept longer than the stream keeps events, as `SEEN_KEEP` and the stream's
age are chosen), `BoundsAssumption` and `NeverAssumption` (NULL is no time). The step of a session that takes less than a unit of
the clock is part of the model (`Prompt`), not of the proof.

`TaskPodProofs` proves, for any number of attempts, slots, templates and configurations:

| Theorem | Statement | Argument |
|---|---|---|
| `PodsAreCleanedUp` | `Spec => []NothingLeftBehind` | `AInv` (per attempt: which objects each stage may have, `Tidy`) and `SlotInv`: while the API pod is up, free slots and the attempts between acquire and release add up to `MaxConcurrent`, and a Job is present only for one of these. Both ends of a slot change the cardinality by one. `OrphanInv`: an attempt whose Job was created without an answer is already past the Secret, which is why its pod never becomes ready |
| `OutcomesAreTrue` | `Spec => []OutcomeIsTheTasks` | `AInv`: a queued event or one on the wire says what the process did (`Says`), the process has ended by then and stays ended (`Sound`, `Keeps`), only a hang-up cancels, and the caller's outcome comes from the wire or from its own cancel (`Truthful`) |
| `TasksGetWhatTheyList` | `Spec => []GivenAsListed` | `Given`: an attempt's invocation was made from a configuration that `validate_task_config` accepts. From that, distinct, unreserved, well-formed names put every secret and module where it is listed and nothing over the runner's own |

| `PodsFit` | `Spec => []PodFits` | `PodInv`: only a template that passed `_check_template` gets this far, and each attempt's pod is `Assembled`: from its creation to its end it `Suits` the invocation. `OnlyKeeps` says what filtering the init containers leaves (the named ones, in their order, each as often as before), from which the pod that `_personalize_sidecars` and `_personalize_pip` make of any checked template suits any invocation |

They assume `SlotsAssumption` (at least one slot), `TemplatesAssumption` (the types of a template's init containers and flags) and
`ConfigsAssumption` (a configuration has the fields of `TaskConfig`).

`SparkRunProofs` proves, for any number of attempts, outages and log lines:

| Theorem | Statement | Argument |
|---|---|---|
| `OneAppUnlessForgotten` | `Spec => []OneUnlessForgotten` | `SInv`: one application per key and the keys in order (`Rows`); a live application that is not forgotten is the one in `_apps`, the one this attempt waits for, or this attempt's own, according to its stage (`Followed`) |
| `OutputsAreReal` | `Spec => []OutputIsReal` | `SInv`: the client at each of its steps beside its application (`Story`), and what the tracker has heard (`Tracking`) |
| `LogsAreWhole` | `Spec => []LogOnce` | `SInv`: `Copying` (once up to the cursor, or to where it was lost, but for lines that had been dropped when they were asked for) and `Printed` (and then perhaps the newest `TailLines` once more). The log only grows, so what was dropped then is still dropped at the end |

They assume `SparkAssumption` (at least one attempt, line kept and line asked for; bounds are numbers).

`CatalogueProofs` proves, for any sets of pipelines, tasks, specs, runs, replicas and requests, and any number
of operations:

| Theorem | Statement | Argument |
|---|---|---|
| `ReferencesHold` | `Spec => []RefsHold` | `CInv`: the tables fit together (`Tables`), a request carries what its next step needs (`Asked`), an id is created once (`Ids`), and the references of every stored spec *and of every spec checked and not yet stored* resolve or lost their task to a crossing deletion (`Refs`) |
| `DraftsFresh` | `Spec => []DraftFresh` | `CInv`: a save between its writes knows the latest version and is the only one, unless it is marked uneven (`Levels`) |
| `CodeIsGenuine` | `Spec => []GenuineCode` | `CInv`: all code in the store and in a request's hands is `Honest` |
| `DeletedStaysGone` | `Spec => []DeletedIsGone` | `Told`: when a deletion reaches its last step, every worker executing one of its pipeline's runs was told, is away, or is behind; a worker whose row is gone was one of these. A listed run whose worker is registered here is still active, so the deletion tells it |
| `SavedSpecsFit` | `Spec => []StoredFits` | `Kept`: every spec that is stored *or checked and not yet stored* compiles, its pinned nodes fit, and it names no task id that is unused or just being created, so that a task which is deleted never comes back as another one under its id |
| `EveryGraph` | `OrderDecides`, for every set `Shapes` of specs | Kahn's loop. `Ordered`, between its turns: the nodes ordered or ready are those whose dependencies are all ordered, each once and, of nodes with the same dependencies, in declaration order; the in-degrees count the dependencies not yet ordered; and each ordered node is behind its dependencies. `MidTurn` says the same while a turn has told only some of the nodes downstream (`PopOrders`). No line is longer than there are nodes, so the loop ends with nothing ready (`KahnOrders`). If the nodes can be ranked, a missing node of least rank has all its dependencies ordered, so none is missing; if none is missing, the positions are a ranking (`KahnDecides`) |
| `SavedSpecsRun` | `Spec => []SavedRuns` | `Kept` and `EveryGraph`: what compiles has an order (`CompilingSound`) |

They assume `IdsAssumption` (ids of pipelines and tasks differ, `None` is neither a spec nor code), `BoundsAssumption`
(the limit on a source's length and the page are positive) and, for the last two, `SpecsAssumption` (specs are finite sequences of `Nodes`, which
is what `TaskRef` lets through).

All assumptions are evaluated by TLC in the runs of these modules.

Only model-checked: the liveness properties (`EveryEventSettles`, `EveryRunEnds`, `KeepsFiring`, `HangUpStops`,
`OrphansEnd`, `TaskEnds`, `EventuallyHandled`), because liveness under fairness is beyond the prover. Every safety invariant and
action property that a run checks is a theorem.

## 7. Where code and documentation disagree

The configurations named here check what a comment or docstring says; TLC's counterexample is the
behaviour described (`tlc -config EventTriggers_followup.cfg MCEventTriggers`, and so on). The
properties of Section 3 are stated with these cases as named exceptions.

1. `EventTriggers_followup.cfg`, `FollowUpReleased`. `finish_run` looks for a follow-up with
   `SELECT ... WHERE ... AND queued FOR UPDATE`. An ingest that read the run as
   active and has not committed `queued = true` is neither seen nor waited for;
   the run ends and nobody releases the follow-up, although the comment says "a
   run can't end without its follow-up being released" (`store/postgres.py:691-692`).
   The claim looks for such rows, so the burst is late rather than lost, provided
   something makes the scheduler tick.
2. `EventTriggers_restart.cfg`, `RestartLosesNothing`. The claim of a fire commits before its run is
   created; a stop in between loses the burst. `records.py:83`: "a restart neither
   loses a pending fire nor runs it twice".
3. `RunLifecycle_idle.cfg`, `EveryRunEnds`. `sweep` is called only from `tick`, and the loop ticks only if a
   fire is indexed: on a deployment where runs are started by hand, a dead worker's
   run stays active. `store/base.py:231`.
4. `ScheduleClaim_claimed_once.cfg`, `ClaimedOnce`. `set_owner` (`service.py:350`) and `update_schedule` (`service.py:309`)
   write back the whole row they read. A slot claimed between their read and their
   write is given back and claimed again, although `store/base.py:144` says "each due
   fire is claimed exactly once". `MissedSlotsCoalesce` is therefore stated for
   pipelines that nobody edits.
5. `Catalogue_refs.cfg`, `RefsAlwaysResolve`. A save resolves its references, then stores its version in
   another transaction; `delete_task` in between sees no reference and deletes the task. Also, a
   "latest" node's overrides may stop fitting after a later save of the task. `export.py:6-8`: a
   saved version's references always resolve.
6. `TaskSecrets_replaced.cfg`, `ReplacedReachesNext`. `reseal` reads rows and writes each back later
   (`task_secrets.py:155-170`, called in `app.py:146-151`): a value the owner replaced in between is put back to the old one, a
   secret deleted in between comes back. `engine.py`: "a replaced value reaches the next attempt".

Seen while modelling, without a configuration of their own (`CancelNotLost` in `TaskPod` and `TwoNeverWrite` in
`SparkRun` state the comments of (h) and (k)):

* (a) `next_event_fire_at` ignores rows that are queued without a timer, so with no other
  schedule in the deployment the follow-up of item 1 is never claimed:
  `EveryEventSettles` fails with `OtherSchedules = FALSE`.
* (b) `on_due` under `skip` empties the burst but leaves `queued` (`triggers.py:195`):
  a follow-up run without events can start.
* (c) The early `finish_run` paths of `_execute_inner` (`runs.py:270-283`) leave task
  runs pending, where `settle_unfinished` says nothing stays "pending" (`runs.py:195`).
* (d) Turning a trigger off resets a *committed* state row. One that an ingest is inserting
  is not seen, and keeps a timer that fires if the trigger is turned on again.
  `store/postgres.py:247`: "nothing it was waiting for still fires".
* (e) Between `get_run` and `mark_running` a sweep may end the run; `mark_running` then
  changes nothing, which is not looked at, and the run is executed. `runs.py:269`: "do not
  resurrect it".
* (f) A task that fails while its run is being canceled is recorded as failed, but raised
  in a way Dagster retries: failed becomes running (`engine.py:209-212`). `records.py:15`:
  "Terminal states never change again".
* (g) `latest_slot` searches for a cron's slot from one second after `now`
  (`schedule.py:69-70`). Claimed less than a second before a slot, and after a missed one, a
  fire is attributed to the slot that is not due yet, which then runs again at its own
  time; the docstring says the "most recent slot due by `now`".
* (h) `watch_cancel` (`runners/remote.py:144-150`) returns after its first look at a cancel even if the response
  is not in `stream_box` yet; the task then runs to its end or timeout. `remote.py:11-12`: "cancellation
  needs no separate call that could be lost".
* (i) The token refresh may write the token file of a task that is already over.
* (j) A script that calls `sys.exit(0)` leaves no `result.json`, so the runner fails it; `_harness.py:283` says it is
  success.
* (k) `SparkRunner.run` takes the earlier application out of `_apps` (`spark.py:134`) before it knows that it has ended;
  if the check fails, the next attempt starts a second one beside it. The same when an attempt ends
  before its "submitted" event arrives. `spark.py:11`: "two never write at once".
* (l) A log poll of a Spark application that is answered with an error loses the cursor, and the kept log is
  copied again at the end, but only its last 10000 lines (`_spark_client.py:232`), so earlier ones that were not copied yet
  never are, although the attempt succeeds; what has been copied comes twice, perhaps joined to half a line. booth-spark keeps
  only the end of a log ("its last 1 MiB", `docs/design-spark-runner.md:132`), and a cursor that fell behind it skips lines
  unnoticed. The poll itself (`_spark_client.py:281`) is outside the `try` around the state.
* (m) `event_bus.py`: the contact is recorded before the subscription is bound, so a session that fails there
  hides a silence; a backlog older than `REPLAY_MARGIN` is skipped when the consumer is recreated, where
  the docstring (13-14) says "the gap is replayed, not skipped"; a gap may be announced more than once (15-16); a
  session that read no row may recreate the consumer for new events only.
* (n) Two threads' batches may be stored in the opposite order of their numbers; a follower whose cursor
  has passed the higher ones does not see the lower ones. A sweep's line is stored after the terminal status,
  although `api.py:536-539` relies on the log being complete then; `close` waits five seconds for a thread
  that is storing; a line whose number a sweep took is dropped.
* (o) `update_schedule` and `set_owner` lose each other's changes; the draft can be behind the version after
  two crossing saves (`service.py:201`); a cancel does not reach a worker that has not registered yet; the
  in-memory `create_run` does not check that the pipeline is there; drafts do not keep a task from being
  deleted.
* (p) `create_job` is called outside the `try` whose `finally` deletes the Job (`kubejob.py:149-152`): if its answer is
  lost after the Job was created, the slot is given back and only the Job's own deadline removes it. Until then there is one
  Job more than `runner.maxConcurrent` counts, though without its Secret nothing runs in it.
* (q) `delete_pipeline` looks at the newest 1000 runs of any status (`service.py:192`), skipped fires included. A
  run that is active behind so many newer rows is neither flagged nor told, even by the process that executes it,
  which is what the comment before the call says does not happen (`service.py:184-186`: "Stop any run this process is still
  executing first").

## 8. Plan and limits

What could follow: the cap of 100 listed events and the matching of a trigger's filter, as operators; the refinement of
`CatalogueStore` by the statements of its transactions.

Not modelled: request parsing and routing, authentication, configuration, the runner registry, HTTP clients of other
services, exports, schema migrations, the SQL harness, the long-running runner service (the pods use
the one-shot form), the browser UI. They keep no state that the components above
share, or only call the operations that are modelled. Time zones and cron expressions are croniter's
and zoneinfo's, the cipher is the library's, and Dagster, PostgreSQL's locks, JetStream, Kubernetes and
booth-spark appear as far as the code depends on them. The in-memory store runs every operation under one
lock: its interleavings are a subset of the ones checked here.
