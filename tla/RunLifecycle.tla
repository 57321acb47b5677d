---------------------------- MODULE RunLifecycle ----------------------------
(***************************************************************************)
(* One run, from the moment it is created (queued, one pending task run    *)
(* per task) to its end: the worker that executes it (RunManager._execute, *)
(* engine.execute, StoreRecorder), its watcher thread (heartbeat and       *)
(* cancel poll), cancel requests, the replica's shutdown, the replicas'    *)
(* sweeps, and the crashes, stalls and store failures that make them race. *)
(*                                                                         *)
(* The store's rows are row (the run) and task (its task runs); each write *)
(* of the code is one action.  In the worker's memory are w (where it is), *)
(* the recorder's own copy of the task runs (mem), saved with every        *)
(* change, and what Dagster knows of each step (step).  Time is abstract:  *)
(* row.stale says that stale_runs would return the run (no heartbeat for   *)
(* stale_after_seconds, or queued longer than queued_timeout_seconds).     *)
(*                                                                         *)
(* Dagster (external) runs one step at a time, a step only once all its    *)
(* upstream steps gave an output, and runs a step that raised again while  *)
(* its retry policy allows.                                                *)
(***************************************************************************)
EXTENDS Integers, FiniteSets, Workload

CONSTANTS Tasks,          \* the tasks of the pipeline version
          DependsOn,      \* per task: the tasks it depends on
          MaxRetries,     \* per task: its retry policy's max_retries
          Sweepers,       \* the replicas that sweep
          Stalls,         \* TRUE: a live worker may miss its heartbeats (a pause, a partition)
          StoreFaults,    \* TRUE: a store call of the worker may raise
          Lossy,          \* the tasks whose saves by the recorder may fail
          MaxCrashes,     \* bound on the deaths of the worker and of sweeping replicas
          SomeFireKnown   \* TRUE: some fire of the deployment keeps the scheduler ticking

ASSUME RunAssumption ==
    /\ DependsOn \in [Tasks -> SUBSET Tasks]
    /\ MaxRetries \in [Tasks -> Nat]
    /\ MaxCrashes \in Nat
    /\ Lossy \subseteq Tasks
    /\ Stalls \in BOOLEAN /\ StoreFaults \in BOOLEAN /\ SomeFireKnown \in BOOLEAN

\* topological_order refuses a cycle when a version is saved: any set of tasks
\* has one that depends on none of the others.
ASSUME AcyclicAssumption ==
    \A S \in SUBSET Tasks : S # {} => \E k \in S : DependsOn[k] \cap S = {}

RunTerminal == {"succeeded", "failed", "canceled", "skipped"}
RunActive   == {"queued", "running"}
TaskOpen    == {"pending", "running", "retrying"}
TaskClosed  == {"succeeded", "failed", "skipped", "canceled"}
TaskRuns    == [status : TaskOpen \cup TaskClosed, attempts : Nat]

VARIABLES row,       \* runs: [status, cancel_requested, stale]
          task,      \* task_runs: per task [status, attempts]
          w,         \* the worker: its place, its Cancellation, the run's outcome
          mem,       \* the recorder's copy of the task runs
          step,      \* Dagster's view of the steps
          sw,        \* per sweeper: its sweep() of this run
          shutdown,  \* the worker's replica is shutting down
          crashes    \* how many processes died

vars == <<row, task, w, mem, step, sw, shutdown, crashes>>

\* "abandon" and "internal" are a finish_run without settle_unfinished, in
\* _execute_inner and in _execute's handler; "dead" is a worker that is gone.
WorkerPc == {"queued", "resolve", "mark", "register", "authorize", "engine", "settle",
             "finish", "settled", "abandon", "internal", "done", "dead"}

StepState == {"waiting", "running", "again", "output", "no_output", "failed"}

Sweeps == [pc : {"idle", "finish", "list", "tasks"}, todo : SUBSET Tasks, snap : [Tasks -> TaskRuns]]

TypeOK ==
    /\ row \in [status : RunActive \cup RunTerminal, cancel_requested : BOOLEAN, stale : BOOLEAN]
    /\ task \in [Tasks -> TaskRuns]
    /\ w \in [pc : WorkerPc, cancel : BOOLEAN, out : RunTerminal]
    /\ mem \in [Tasks -> TaskRuns]
    /\ step \in [Tasks -> StepState]
    /\ sw \in [Sweepers -> Sweeps]
    /\ shutdown \in BOOLEAN
    /\ crashes \in Nat

Pending == [k \in Tasks |-> [status |-> "pending", attempts |-> 0]]

IdleSweep == [pc |-> "idle", todo |-> {}, snap |-> Pending]

\* create_run has committed and RunManager.submit has queued it in the pool.
Init ==
    /\ row = [status |-> "queued", cancel_requested |-> FALSE, stale |-> FALSE]
    /\ task = Pending
    /\ w = [pc |-> "queued", cancel |-> FALSE, out |-> "failed"]
    /\ mem = Pending
    /\ step = [k \in Tasks |-> "waiting"]
    /\ sw = [s \in Sweepers |-> IdleSweep]
    /\ shutdown = FALSE
    /\ crashes = 0

-----------------------------------------------------------------------------
(* The store's conditional writes *)

\* Fault: the last writer wins.
finish_run_overwrites(r, status) == [r EXCEPT !.status = status]

\* finish_run: a no-op on a terminal run, the first writer wins.
finish_run(r, status) == IF r.status \in RunTerminal THEN r ELSE [r EXCEPT !.status = status]

\* mark_running: only a queued run; it is also the first heartbeat.
mark_running(r) ==
    IF r.status = "queued" THEN [r EXCEPT !.status = "running", !.stale = FALSE] ELSE r

-----------------------------------------------------------------------------
(* RunManager._execute_inner *)

\* get_run: a run that is no longer queued is left alone; one canceled while
\* queued ends here.
Pickup ==
    /\ w.pc = "queued"
    /\ \/ /\ row.status # "queued"
          /\ w' = [w EXCEPT !.pc = "done"]
       \/ /\ row.status = "queued" /\ row.cancel_requested
          /\ w' = [w EXCEPT !.pc = "abandon", !.out = "canceled"]
       \/ /\ row.status = "queued" /\ ~row.cancel_requested
          /\ w' = [w EXCEPT !.pc = "resolve"]
    /\ UNCHANGED <<row, task, mem, step, sw, shutdown, crashes>>

\* The version, the pipeline and the task configs are looked up; any may be gone.
Resolve ==
    /\ w.pc = "resolve"
    /\ \/ w' = [w EXCEPT !.pc = "mark"]
       \/ w' = [w EXCEPT !.pc = "abandon", !.out = "failed"]
    /\ UNCHANGED <<row, task, mem, step, sw, shutdown, crashes>>

\* mark_running; whether it changed anything is not looked at.
MarkRunning ==
    /\ w.pc = "mark"
    /\ row' = mark_running(row)
    /\ w' = [w EXCEPT !.pc = "register"]
    /\ UNCHANGED <<task, mem, step, sw, shutdown, crashes>>

\* The recorder reads the task runs, the run is registered for cancel() and
\* shutdown(), and its watcher starts.
Register ==
    /\ w.pc = "register"
    /\ w' = [w EXCEPT !.pc = "authorize"]
    /\ mem' = task
    /\ UNCHANGED <<row, task, step, sw, shutdown, crashes>>

\* _authorize refuses a scheduled or event-fired run, or the engine cannot
\* compile the job: the run fails before any task.
Authorize ==
    /\ w.pc = "authorize"
    /\ \/ \E go \in Authorizations :
             w' = IF go THEN [w EXCEPT !.pc = "engine"] ELSE [w EXCEPT !.pc = "settle", !.out = "failed"]
       \/ w' = [w EXCEPT !.pc = "settle", !.out = "failed"]
    /\ UNCHANGED <<row, task, mem, step, sw, shutdown, crashes>>

\* _execute: a store call outside the recorder raised, the run is failed as it
\* is; if that call raises as well, nobody executes the run any more.
StoreRaises ==
    /\ StoreFaults
    /\ \/ /\ w.pc \in {"queued", "resolve", "mark", "register", "finish", "abandon"}
          /\ w' = [w EXCEPT !.pc = "internal", !.out = "failed"]
       \/ /\ w.pc = "internal"
          /\ w' = [w EXCEPT !.pc = "dead"]
    /\ UNCHANGED <<row, task, mem, step, sw, shutdown, crashes>>

-----------------------------------------------------------------------------
(* engine.execute and the recorder *)

\* The recorder changes its copy of task k and saves it; a store error is logged
\* and swallowed.
Record(k, t) ==
    /\ mem' = [mem EXCEPT ![k] = t]
    /\ \/ task' = [task EXCEPT ![k] = t]
       \/ k \in Lossy /\ UNCHANGED task

\* Dagster (external): the steps it may run next.
Ready(k) ==
    \/ step[k] = "again"
    \/ /\ step[k] = "waiting"
       /\ \A d \in DependsOn[k] : step[d] = "output"

\* compute() begins an attempt: task_started.
StartTask(k) ==
    LET t == [status |-> "running", attempts |-> mem[k].attempts + 1] IN
    /\ w.pc = "engine"
    /\ \A j \in Tasks : step[j] # "running"
    /\ Ready(k)
    /\ step' = [step EXCEPT ![k] = "running"]
    /\ Record(k, t)
    /\ UNCHANGED <<row, w, sw, shutdown, crashes>>

\* compute() ends an attempt: task_attempt_finished, and what Dagster is told.
EndTask(k, status, told) ==
    /\ w.pc = "engine"
    /\ step[k] = "running"
    /\ step' = [step EXCEPT ![k] = told]
    /\ Record(k, [status |-> status, attempts |-> mem[k].attempts])
    /\ UNCHANGED <<row, w, sw, shutdown, crashes>>

Succeed(k) == EndTask(k, "succeeded", "output")

\* ctx.skip: not a failure, no output, so nothing downstream runs.
Skip(k) == EndTask(k, "skipped", "no_output")

\* The runner saw the cancellation.
Cancel(k) == w.cancel /\ EndTask(k, "canceled", "failed")

\* A missing secret or a refused identity is never retried.
Refuse(k) == EndTask(k, "failed", "failed")

\* Anything else: Dagster runs it again while retries are left, canceled or not.
Fail(k) ==
    LET left == mem[k].attempts <= MaxRetries[k] IN
    EndTask(k, IF left /\ ~w.cancel THEN "retrying" ELSE "failed",
               IF left THEN "again" ELSE "failed")

\* Fault: Dagster's success is taken at its word, skips or not.
Outcome_ignores_skips(steps, cancel) ==
    CASE ~(\E k \in Tasks : steps[k] = "failed") -> "succeeded"
      [] (\E k \in Tasks : steps[k] = "failed") /\ cancel -> "canceled"
      [] (\E k \in Tasks : steps[k] = "failed") /\ ~cancel -> "failed"

\* EngineResult, as a run status.
Outcome(steps, cancel) ==
    LET AnyStep(s) == \E k \in Tasks : steps[k] = s
    IN  CASE ~AnyStep("failed") /\ AnyStep("no_output") -> "skipped"
          [] ~AnyStep("failed") /\ ~AnyStep("no_output") -> "succeeded"
          [] AnyStep("failed") /\ cancel -> "canceled"
          [] AnyStep("failed") /\ ~cancel -> "failed"

\* No step is left to run: the engine returns, the watcher stops, the run is unregistered.
EngineDone ==
    /\ w.pc = "engine"
    /\ \A k \in Tasks : step[k] # "running" /\ ~Ready(k)
    /\ w' = [w EXCEPT !.pc = "settle", !.out = Outcome(step, w.cancel)]
    /\ UNCHANGED <<row, task, mem, step, sw, shutdown, crashes>>

\* settle_unfinished, one saved task at a time.
SettledAs(status, out) ==
    CASE out = "canceled" -> "canceled"
      [] out # "canceled" /\ status = "pending" -> "skipped"
      [] out # "canceled" /\ status # "pending" -> "failed"

SettleTask(k) ==
    /\ w.pc = "settle"
    /\ mem[k].status \in TaskOpen
    /\ Record(k, [status |-> SettledAs(mem[k].status, w.out), attempts |-> mem[k].attempts])
    /\ UNCHANGED <<row, w, step, sw, shutdown, crashes>>

\* Fault: the run is finished with task runs still open.
SettleDone_early ==
    /\ w.pc = "settle"
    /\ w' = [w EXCEPT !.pc = "finish"]
    /\ UNCHANGED <<row, task, mem, step, sw, shutdown, crashes>>

SettleDone ==
    /\ w.pc = "settle"
    /\ \A k \in Tasks : mem[k].status \notin TaskOpen
    /\ w' = [w EXCEPT !.pc = "finish"]
    /\ UNCHANGED <<row, task, mem, step, sw, shutdown, crashes>>

Finish ==
    /\ w.pc = "finish"
    /\ row' = finish_run(row, w.out)
    /\ w' = [w EXCEPT !.pc = "settled"]
    /\ UNCHANGED <<task, mem, step, sw, shutdown, crashes>>

Abandon ==
    /\ w.pc \in {"abandon", "internal"}
    /\ row' = finish_run(row, w.out)
    /\ w' = [w EXCEPT !.pc = "done"]
    /\ UNCHANGED <<task, mem, step, sw, shutdown, crashes>>

-----------------------------------------------------------------------------
(* The watcher thread, cancel requests, shutdown *)

\* The run is registered and its watcher runs.
Watched == w.pc \in {"authorize", "engine"}

\* heartbeat
WatchBeat ==
    /\ Watched
    /\ row.status \in RunActive
    /\ row.stale
    /\ row' = [row EXCEPT !.stale = FALSE]
    /\ UNCHANGED <<task, w, mem, step, sw, shutdown, crashes>>

WatchCancel ==
    /\ Watched
    /\ row.cancel_requested
    /\ ~w.cancel
    /\ w' = [w EXCEPT !.cancel = TRUE]
    /\ UNCHANGED <<row, task, mem, step, sw, shutdown, crashes>>

\* cancel_run: request_cancel in the store; the manager.cancel that follows does
\* at once what the watcher does later, if this replica executes the run.
RequestCancel ==
    /\ row.status \in RunActive
    /\ ~row.cancel_requested
    /\ row' = [row EXCEPT !.cancel_requested = TRUE]
    /\ UNCHANGED <<task, w, mem, step, sw, shutdown, crashes>>

\* RunManager.shutdown: registered runs are canceled, queued ones never start.
Shutdown ==
    /\ ~shutdown
    /\ shutdown' = TRUE
    /\ w' = [w EXCEPT !.cancel = @ \/ Watched, !.pc = IF @ = "queued" THEN "dead" ELSE @]
    /\ UNCHANGED <<row, task, mem, step, sw, crashes>>

-----------------------------------------------------------------------------
(* Staleness, crashes and the sweep *)

\* Time passes without a heartbeat: nobody watches the run, or its watcher stalls.
Lapse ==
    /\ row.status \in RunActive
    /\ ~row.stale
    /\ Watched => Stalls
    /\ row' = [row EXCEPT !.stale = TRUE]
    /\ UNCHANGED <<task, w, mem, step, sw, shutdown, crashes>>

WorkerDies ==
    /\ crashes < MaxCrashes
    /\ w.pc \notin {"settled", "done", "dead"}
    /\ w' = [w EXCEPT !.pc = "dead"]
    /\ crashes' = crashes + 1
    /\ UNCHANGED <<row, task, mem, step, sw, shutdown>>

\* Fault: runs that never started are not looked for.
SweepSelect_running_only(s) ==
    /\ SomeFireKnown
    /\ sw[s].pc = "idle"
    /\ row.status = "running"
    /\ row.stale
    /\ sw' = [sw EXCEPT ![s].pc = "finish"]
    /\ UNCHANGED <<row, task, w, mem, step, shutdown, crashes>>

\* stale_runs, in a tick.
SweepSelect(s) ==
    /\ SomeFireKnown
    /\ sw[s].pc = "idle"
    /\ row.status \in RunActive
    /\ row.stale
    /\ sw' = [sw EXCEPT ![s].pc = "finish"]
    /\ UNCHANGED <<row, task, w, mem, step, shutdown, crashes>>

\* Fault: finish_run's answer is ignored.
SweepFinish_unchecked(s) ==
    /\ sw[s].pc = "finish"
    /\ row' = finish_run(row, "failed")
    /\ sw' = [sw EXCEPT ![s].pc = "list"]
    /\ UNCHANGED <<task, w, mem, step, shutdown, crashes>>

\* Only the sweeper whose finish_run ended the run goes on to its tasks.
SweepFinish(s) ==
    /\ sw[s].pc = "finish"
    /\ row' = finish_run(row, "failed")
    /\ sw' = [sw EXCEPT ![s].pc = IF row.status \in RunTerminal THEN "idle" ELSE "list"]
    /\ UNCHANGED <<task, w, mem, step, shutdown, crashes>>

\* list_task_runs
SweepList(s) ==
    /\ sw[s].pc = "list"
    /\ sw' = [sw EXCEPT ![s] = [pc |-> "tasks", snap |-> task,
                                todo |-> {k \in Tasks : task[k].status \in TaskOpen}]]
    /\ UNCHANGED <<row, task, w, mem, step, shutdown, crashes>>

\* update_task_run of the whole row as it was listed.
SweepTask(s, k) ==
    /\ sw[s].pc = "tasks"
    /\ k \in sw[s].todo
    /\ task' = [task EXCEPT ![k] = [status   |-> SettledAs(sw[s].snap[k].status, "failed"),
                                    attempts |-> sw[s].snap[k].attempts]]
    /\ sw' = [sw EXCEPT ![s].todo = @ \ {k}]
    /\ UNCHANGED <<row, w, mem, step, shutdown, crashes>>

SweepDone(s) ==
    /\ sw[s].pc = "tasks"
    /\ sw[s].todo = {}
    /\ sw' = [sw EXCEPT ![s] = IdleSweep]
    /\ UNCHANGED <<row, task, w, mem, step, shutdown, crashes>>

SweeperDies(s) ==
    /\ crashes < MaxCrashes
    /\ sw[s].pc # "idle"
    /\ sw' = [sw EXCEPT ![s] = IdleSweep]
    /\ crashes' = crashes + 1
    /\ UNCHANGED <<row, task, w, mem, step, shutdown>>

-----------------------------------------------------------------------------
AttemptEnds(k) == Succeed(k) \/ Skip(k) \/ Cancel(k) \/ Refuse(k) \/ Fail(k)

Execute ==
    \/ Pickup
    \/ Resolve
    \/ MarkRunning
    \/ Register
    \/ Authorize
    \/ \E k \in Tasks : StartTask(k) \/ AttemptEnds(k) \/ SettleTask(k)
    \/ EngineDone
    \/ SettleDone
    \/ Finish
    \/ Abandon

Sweep(s) ==
    \/ SweepSelect(s)
    \/ SweepFinish(s)
    \/ SweepList(s)
    \/ \E k \in Tasks : SweepTask(s, k)
    \/ SweepDone(s)

Next ==
    \/ Execute
    \/ StoreRaises
    \/ WatchBeat
    \/ WatchCancel
    \/ RequestCancel
    \/ Shutdown
    \/ Lapse
    \/ WorkerDies
    \/ \E s \in Sweepers : Sweep(s) \/ SweeperDies(s)

Spec == Init /\ [][Next]_vars

\* A live worker takes its next step (every attempt ends: it has a timeout), a
\* run nobody watches goes stale, and the scheduler loop that ticks sweeps.
Fairness ==
    /\ WF_vars(Execute)
    /\ WF_vars(Lapse)
    /\ \A s \in Sweepers : WF_vars(Sweep(s))

FairSpec == Spec /\ Fairness

-----------------------------------------------------------------------------
(* What makes the lifecycle correct *)

\* records.py: a run's terminal status never changes, and it was reached the way
\* RunContract says, whoever wrote it: the worker, a sweep or both.
Contract == INSTANCE RunContract WITH
                status   <- row.status,
                stopping <- row.cancel_requested \/ shutdown

KeepsContract == Contract!CSpec

\* What the run's status says is what its task runs say: success means that every
\* task succeeded, skipped that some task was skipped and none failed or was
\* canceled (engine.execute, _execute_inner), although sweeps write both as well.
OutcomeMatchesTasks ==
    /\ row.status = "succeeded" => \A k \in Tasks \ Lossy : task[k].status = "succeeded"
    /\ row.status = "skipped" =>
          /\ \A k \in Tasks \ Lossy : task[k].status \in {"succeeded", "skipped"}
          /\ \E k \in Tasks : k \in Lossy \/ task[k].status = "skipped"

\* An executed run shows its end only once no task run is open, also when a sweep
\* wrote some of them in between (settle_unfinished before finish_run); a task
\* whose saves failed is the exception.
SettledBeforeFinish ==
    w.pc \in {"finish", "settled"} =>
        \A k \in Tasks \ Lossy : task[k].status \in TaskClosed

\* RunManager.sweep: "each stale run is failed exactly once": of the replicas that
\* saw it stale, at most one goes on to settle its tasks, and none after the worker ended it.
SweptOnce ==
    /\ \A s, q \in Sweepers : sw[s].pc \in {"list", "tasks"} /\ sw[q].pc \in {"list", "tasks"} => s = q
    /\ \A s \in Sweepers : sw[s].pc \in {"list", "tasks"} => row.status = "failed"

\* A retry policy allows max_retries + 1 attempts, through cancels and sweeps.
AttemptsBounded == \A k \in Tasks : task[k].attempts <= MaxRetries[k] + 1

\* Every run ends: its worker ends it, or it goes stale and a sweep does
\* (store/base.py, stale_runs: a crashed worker leaves no run active forever).
EveryRunEnds == <>(row.status \in RunTerminal)

=============================================================================
