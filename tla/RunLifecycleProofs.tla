------------------------- MODULE RunLifecycleProofs -------------------------
(***************************************************************************)
(* Proofs about RunLifecycle, for every pipeline graph, retry policy and   *)
(* number of sweeping replicas.                                            *)
(***************************************************************************)
EXTENDS RunLifecycle, TLAPS

-----------------------------------------------------------------------------
(* Type correctness *)

\* What settle_unfinished and sweep write into an open task run closes it.
LEMMA SettledAsCloses ==
    ASSUME NEW status, NEW out
    PROVE  SettledAs(status, out) \in TaskClosed
BY DEF SettledAs, TaskClosed

\* The engine's result is a terminal run status.
LEMMA OutcomeTerminal ==
    ASSUME NEW steps, NEW cancel \in BOOLEAN
    PROVE  Outcome(steps, cancel) \in RunTerminal
<1>1. CASE \E k \in Tasks : steps[k] = "failed"
  BY <1>1 DEF Outcome, RunTerminal
<1>2. CASE ~ \E k \in Tasks : steps[k] = "failed"
  BY <1>2 DEF Outcome, RunTerminal
<1> QED BY <1>1, <1>2

USE RunAssumption

\* Recording a task run keeps both copies of the task runs well typed.
LEMMA RecordType ==
    ASSUME TypeOK, NEW k \in Tasks, NEW t \in TaskRuns, Record(k, t)
    PROVE  task' \in [Tasks -> TaskRuns] /\ mem' \in [Tasks -> TaskRuns]
BY DEF TypeOK, Record

\* A task run with its attempts kept and another status is a task run.
LEMMA Relabelled ==
    ASSUME NEW t \in TaskRuns, NEW status \in TaskOpen \cup TaskClosed
    PROVE  [status |-> status, attempts |-> t.attempts] \in TaskRuns
BY DEF TaskRuns

\* Every step of the worker keeps its types.
LEMMA ExecuteType == ASSUME TypeOK, Execute PROVE TypeOK'
<1> USE DEF TypeOK, RunActive, RunTerminal, WorkerPc
<1>1. CASE Pickup
  BY <1>1 DEF Pickup
<1>2. CASE Resolve
  BY <1>2 DEF Resolve
<1>3. CASE MarkRunning
  BY <1>3 DEF MarkRunning, mark_running
<1>4. CASE Register
  BY <1>4 DEF Register
<1>5. CASE Authorize
  BY <1>5 DEF Authorize
<1>6. ASSUME NEW k \in Tasks, StartTask(k) PROVE TypeOK'
  <2>1. [status |-> "running", attempts |-> mem[k].attempts + 1] \in TaskRuns
    BY DEF TaskRuns, TaskOpen
  <2>2. task' \in [Tasks -> TaskRuns] /\ mem' \in [Tasks -> TaskRuns]
    BY <1>6, <2>1, RecordType DEF StartTask
  <2> QED BY <1>6, <2>2 DEF StartTask, StepState
<1>7. ASSUME NEW k \in Tasks, NEW status \in TaskOpen \cup TaskClosed, NEW told \in StepState,
             EndTask(k, status, told)
      PROVE  TypeOK'
  <2>1. [status |-> status, attempts |-> mem[k].attempts] \in TaskRuns
    BY Relabelled
  <2>2. task' \in [Tasks -> TaskRuns] /\ mem' \in [Tasks -> TaskRuns]
    BY <1>7, <2>1, RecordType DEF EndTask
  <2> QED BY <1>7, <2>2 DEF EndTask
<1>8. ASSUME NEW k \in Tasks, AttemptEnds(k) PROVE TypeOK'
  BY <1>7, <1>8 DEF AttemptEnds, Succeed, Skip, Cancel, Refuse, Fail, TaskOpen, TaskClosed, StepState
<1>9. ASSUME NEW k \in Tasks, SettleTask(k) PROVE TypeOK'
  <2>1. [status |-> SettledAs(mem[k].status, w.out), attempts |-> mem[k].attempts] \in TaskRuns
    BY Relabelled, SettledAsCloses
  <2>2. task' \in [Tasks -> TaskRuns] /\ mem' \in [Tasks -> TaskRuns]
    BY <1>9, <2>1, RecordType DEF SettleTask
  <2> QED BY <1>9, <2>2 DEF SettleTask
<1>10. CASE EngineDone
  <2>1. Outcome(step, w.cancel) \in RunTerminal
    BY OutcomeTerminal
  <2> QED BY <1>10, <2>1 DEF EngineDone
<1>11. CASE SettleDone
  BY <1>11 DEF SettleDone
<1>12. CASE Finish
  BY <1>12 DEF Finish, finish_run
<1>13. CASE Abandon
  BY <1>13 DEF Abandon, finish_run
<1> QED
  BY <1>1, <1>2, <1>3, <1>4, <1>5, <1>6, <1>8, <1>9, <1>10, <1>11, <1>12, <1>13 DEF Execute

\* Every step of a sweep keeps its types.
LEMMA SweepType == ASSUME TypeOK, NEW s \in Sweepers, Sweep(s) \/ SweeperDies(s) PROVE TypeOK'
<1> USE DEF TypeOK, RunActive, RunTerminal
<1>1. CASE SweepSelect(s)
  BY <1>1 DEF SweepSelect, Sweeps
<1>2. CASE SweepFinish(s)
  <2>1. row' \in [status : RunActive \cup RunTerminal, cancel_requested : BOOLEAN, stale : BOOLEAN]
    BY <1>2 DEF SweepFinish, finish_run
  <2>2. \A pc \in {"idle", "list"} : [sw[s] EXCEPT !.pc = pc] \in Sweeps
    BY DEF Sweeps
  <2>3. sw' \in [Sweepers -> Sweeps]
    BY <1>2, <2>2 DEF SweepFinish
  <2> QED BY <1>2, <2>1, <2>3 DEF SweepFinish
<1>3. CASE SweepList(s)
  <2>1. [pc |-> "tasks", snap |-> task, todo |-> {k \in Tasks : task[k].status \in TaskOpen}] \in Sweeps
    BY DEF Sweeps
  <2> QED BY <1>3, <2>1 DEF SweepList
<1>4. ASSUME NEW k \in Tasks, SweepTask(s, k) PROVE TypeOK'
  <2>1. [status |-> SettledAs(sw[s].snap[k].status, "failed"), attempts |-> sw[s].snap[k].attempts] \in TaskRuns
    BY Relabelled, SettledAsCloses DEF Sweeps
  <2> QED BY <1>4, <2>1 DEF SweepTask, Sweeps
<1>5. IdleSweep \in Sweeps
  BY DEF IdleSweep, Pending, TaskRuns, TaskOpen, Sweeps
<1>6. CASE SweepDone(s)
  BY <1>5, <1>6 DEF SweepDone
<1>7. CASE SweeperDies(s)
  BY <1>5, <1>7 DEF SweeperDies
<1> QED
  BY <1>1, <1>2, <1>3, <1>4, <1>6, <1>7 DEF Sweep

\* The variables keep their types: statuses, attempts and program counters stay
\* in range through every interleaving of worker, watcher and sweeps.
THEOREM TypeCorrect == Spec => []TypeOK
<1>1. Init => TypeOK
  <2>1. Pending \in [Tasks -> TaskRuns]
    BY DEF Pending, TaskRuns, TaskOpen
  <2>2. IdleSweep \in Sweeps
    BY <2>1 DEF IdleSweep, Sweeps
  <2>3. Init => sw \in [Sweepers -> Sweeps]
    BY <2>2 DEF Init
  <2>4. Init => row \in [status : RunActive \cup RunTerminal, cancel_requested : BOOLEAN, stale : BOOLEAN]
    BY DEF Init, RunActive
  <2>5. Init => w \in [pc : WorkerPc, cancel : BOOLEAN, out : RunTerminal]
    BY DEF Init, WorkerPc, RunTerminal
  <2>6. Init => step \in [Tasks -> StepState]
    BY DEF Init, StepState
  <2>7. Init => task = Pending /\ mem = Pending /\ shutdown \in BOOLEAN
    BY Zenon DEF Init
  <2>8. Init => crashes \in Nat
    BY DEF Init
  <2> QED
    BY <2>1, <2>3, <2>4, <2>5, <2>6, <2>7, <2>8 DEF TypeOK
<1>2. TypeOK /\ [Next]_vars => TypeOK'
  <2> SUFFICES ASSUME TypeOK, [Next]_vars PROVE TypeOK'
    OBVIOUS
  <2>1. CASE Execute
    BY <2>1, ExecuteType
  <2>2. ASSUME NEW s \in Sweepers, Sweep(s) \/ SweeperDies(s) PROVE TypeOK'
    BY <2>2, SweepType
  <2>3. CASE StoreRaises
    BY <2>3 DEF StoreRaises, TypeOK, WorkerPc, RunTerminal
  <2>4. CASE WatchBeat \/ RequestCancel \/ Lapse
    BY <2>4 DEF WatchBeat, RequestCancel, Lapse, TypeOK
  <2>5. CASE WatchCancel
    BY <2>5 DEF WatchCancel, TypeOK
  <2>6. CASE Shutdown
    BY <2>6 DEF Shutdown, TypeOK, Watched, WorkerPc
  <2>7. CASE WorkerDies
    BY <2>7 DEF WorkerDies, TypeOK, WorkerPc
  <2>8. CASE UNCHANGED vars
    BY <2>8 DEF vars, TypeOK
  <2> QED
    BY <2>1, <2>2, <2>3, <2>4, <2>5, <2>6, <2>7, <2>8 DEF Next
<1> QED
  BY <1>1, <1>2, PTL DEF Spec

-----------------------------------------------------------------------------
(* The contract *)

\* Past mark_running the run is no longer queued, whether or not mark_running
\* found it queued.
Marked == w.pc \in {"register", "authorize", "engine", "settle", "finish", "settled"} => row.status # "queued"

\* The worker holds a cancellation, or a canceled outcome, only if someone asked for it.
CancelAsked == w.cancel \/ w.out = "canceled" => row.cancel_requested \/ shutdown

\* An outcome only the engine gives is the outcome of a run that was marked.
WorkedFirst == w.out \in {"succeeded", "skipped"} => row.status # "queued"

ContractInv == Marked /\ CancelAsked /\ WorkedFirst

\* The engine calls a run canceled only if its Cancellation is set.
LEMMA OutcomeCanceled ==
    ASSUME NEW steps, NEW cancel \in BOOLEAN, Outcome(steps, cancel) = "canceled"
    PROVE  cancel
<1>1. CASE \E k \in Tasks : steps[k] = "failed"
  BY <1>1 DEF Outcome
<1>2. CASE ~ \E k \in Tasks : steps[k] = "failed"
  BY <1>2 DEF Outcome
<1> QED BY <1>1, <1>2

\* The three parts of ContractInv hold together: each action of the worker relies
\* on what mark_running and the cancel paths left behind.
LEMMA ContractInvHolds == Spec => []ContractInv
<1>1. Init => ContractInv
  BY DEF Init, ContractInv, Marked, CancelAsked, WorkedFirst
<1>2. TypeOK /\ ContractInv /\ [Next]_vars => ContractInv'
  <2> SUFFICES ASSUME TypeOK, ContractInv, [Next]_vars PROVE ContractInv'
    OBVIOUS
  <2> USE DEF ContractInv, Marked, CancelAsked, WorkedFirst, TypeOK, RunActive, RunTerminal
  <2>1. CASE Pickup
    BY <2>1 DEF Pickup
  <2>2. CASE Resolve
    BY <2>2 DEF Resolve
  <2>3. CASE MarkRunning
    BY <2>3 DEF MarkRunning, mark_running
  <2>4. CASE Register
    BY <2>4 DEF Register
  <2>5. CASE Authorize
    BY <2>5 DEF Authorize
  <2>6. ASSUME NEW k \in Tasks, StartTask(k) \/ AttemptEnds(k) \/ SettleTask(k) PROVE ContractInv'
    BY <2>6 DEF StartTask, AttemptEnds, Succeed, Skip, Cancel, Refuse, Fail, EndTask, SettleTask
  <2>7. CASE EngineDone
    <3>1. Outcome(step, w.cancel) = "canceled" => w.cancel
      BY OutcomeCanceled
    <3> QED BY <2>7, <3>1 DEF EngineDone
  <2>8. CASE SettleDone
    BY <2>8 DEF SettleDone
  <2>9. CASE Finish \/ Abandon
    BY <2>9 DEF Finish, Abandon, finish_run
  <2>10. CASE StoreRaises
    BY <2>10 DEF StoreRaises
  <2>11. CASE WatchBeat \/ RequestCancel \/ Lapse
    BY <2>11 DEF WatchBeat, RequestCancel, Lapse
  <2>12. CASE WatchCancel \/ WorkerDies
    BY <2>12 DEF WatchCancel, WorkerDies
  <2>13. CASE Shutdown
    BY <2>13 DEF Shutdown
  <2>14. ASSUME NEW s \in Sweepers, SweepFinish(s) PROVE ContractInv'
    BY <2>14 DEF SweepFinish, finish_run
  <2>15. ASSUME NEW s \in Sweepers, Sweep(s) \/ SweeperDies(s) PROVE ContractInv'
    BY <2>14, <2>15 DEF Sweep, SweepSelect, SweepList, SweepTask, SweepDone, SweeperDies
  <2>16. CASE UNCHANGED vars
    BY <2>16 DEF vars
  <2> QED
    BY <2>1, <2>2, <2>3, <2>4, <2>5, <2>6, <2>7, <2>8, <2>9, <2>10, <2>11, <2>12, <2>13, <2>15,
       <2>16 DEF Next, Execute
<1> QED
  BY <1>1, <1>2, TypeCorrect, PTL DEF Spec

\* Every step of the run implements a step of the contract, or none.
LEMMA StepKeepsContract ==
    ASSUME TypeOK, ContractInv, [Next]_vars
    PROVE  [Contract!CNext]_(Contract!cvars)
<1> USE DEF ContractInv, Marked, CancelAsked, WorkedFirst, TypeOK, RunActive, RunTerminal,
            Contract!cvars, Contract!Terminal
<1>1. CASE MarkRunning
  BY <1>1 DEF MarkRunning, mark_running, Contract!CNext, Contract!CStart
<1>2. CASE Finish
  BY <1>2 DEF Finish, finish_run, Contract!CNext, Contract!CEnd
<1>3. CASE Abandon
  BY <1>3 DEF Abandon, finish_run, Contract!CNext, Contract!CEnd
<1>4. ASSUME NEW s \in Sweepers, SweepFinish(s) PROVE [Contract!CNext]_(Contract!cvars)
  BY <1>4 DEF SweepFinish, finish_run, Contract!CNext, Contract!CEnd
<1>5. CASE RequestCancel
  BY <1>5 DEF RequestCancel, Contract!CNext, Contract!CStop
<1>6. CASE Shutdown
  BY <1>6 DEF Shutdown, Contract!CNext, Contract!CStop
<1>7. CASE WatchBeat \/ Lapse
  BY <1>7 DEF WatchBeat, Lapse
<1>8. CASE UNCHANGED <<row, shutdown>>
  BY <1>8
<1>9. Execute => MarkRunning \/ Finish \/ Abandon \/ UNCHANGED <<row, shutdown>>
  BY DEF Execute, Pickup, Resolve, Register, Authorize, StartTask, AttemptEnds, Succeed, Skip, Cancel,
         Refuse, Fail, EndTask, SettleTask, EngineDone, SettleDone
<1>10. ASSUME NEW s \in Sweepers, Sweep(s) \/ SweeperDies(s)
       PROVE  SweepFinish(s) \/ UNCHANGED <<row, shutdown>>
  BY <1>10 DEF Sweep, SweepSelect, SweepList, SweepTask, SweepDone, SweeperDies
<1>11. StoreRaises \/ WatchCancel \/ WorkerDies \/ UNCHANGED vars => UNCHANGED <<row, shutdown>>
  BY DEF StoreRaises, WatchCancel, WorkerDies, vars
<1> QED
  BY <1>1, <1>2, <1>3, <1>4, <1>5, <1>6, <1>7, <1>8, <1>9, <1>10, <1>11 DEF Next

\* A run implements its contract: it starts at most once, ends at most once, and
\* never leaves its terminal status, for every graph, retry policy and number of
\* replicas, with crashes, stalls, store failures and zombie workers.
THEOREM RunKeepsContract == Spec => KeepsContract
<1>1. Init => Contract!CInit
  BY DEF Init, Contract!CInit
<1>2. TypeOK /\ ContractInv /\ [Next]_vars => [Contract!CNext]_(Contract!cvars)
  BY StepKeepsContract
<1> QED
  BY <1>1, <1>2, TypeCorrect, ContractInvHolds, PTL DEF Spec, KeepsContract, Contract!CSpec

-----------------------------------------------------------------------------
(* Sweeps, settling and attempts *)

\* Before the engine runs, Dagster has not run a step.
NotYet == w.pc \in {"queued", "resolve", "mark", "register", "authorize"} =>
              \A k \in Tasks : step[k] = "waiting"

\* What the recorder has closed is closed in the store, by its own write or a sweep's.
ClosedInStore ==
    \A k \in Tasks \ Lossy : mem[k].status \in TaskClosed => task[k].status \in TaskClosed

\* settle_unfinished leaves no open task run in the recorder.
AllSettled == w.pc \in {"finish", "settled"} => \A k \in Tasks : mem[k].status \in TaskClosed

SettledInv == ClosedInStore /\ AllSettled

\* Attempts counted anywhere: by the recorder, in the store, in a sweep's listing.
AttemptsFit ==
    \A k \in Tasks :
        /\ mem[k].attempts <= MaxRetries[k] + 1
        /\ task[k].attempts <= MaxRetries[k] + 1
        /\ \A s \in Sweepers : sw[s].snap[k].attempts <= MaxRetries[k] + 1

\* A step that may run again has an attempt left; one that never ran has used none.
RetriesLeft ==
    \A k \in Tasks :
        /\ step[k] = "again" => mem[k].attempts <= MaxRetries[k]
        /\ step[k] = "waiting" =>
              /\ mem[k].attempts = 0
              /\ task[k].attempts = 0
              /\ \A s \in Sweepers : sw[s].snap[k].attempts = 0

AttemptInv == AttemptsFit /\ RetriesLeft

\* A stale run is failed once: of all the replicas that saw it stale, at most one
\* settles its tasks, and only if its own finish_run ended the run.
THEOREM SweepsOnce == Spec => []SweptOnce
<1>1. Init => SweptOnce
  BY DEF Init, SweptOnce, IdleSweep
<1>2. TypeOK /\ SweptOnce /\ [Next]_vars => SweptOnce'
  <2> SUFFICES ASSUME TypeOK, SweptOnce, [Next]_vars PROVE SweptOnce'
    OBVIOUS
  <2>1. CASE UNCHANGED sw /\ (row.status \in RunTerminal => row'.status = row.status)
    BY <2>1 DEF SweptOnce, RunTerminal
  <2>2. ASSUME NEW s \in Sweepers, SweepSelect(s) PROVE SweptOnce'
    BY <2>2 DEF SweepSelect, SweptOnce, TypeOK, Sweeps
  <2>3. ASSUME NEW s \in Sweepers, SweepFinish(s) PROVE SweptOnce'
    <3>1. \A q \in Sweepers : q # s => sw'[q] = sw[q]
      BY <2>3 DEF SweepFinish, TypeOK
    <3>2. CASE row.status \in RunTerminal
      <4>1. sw'[s].pc = "idle" /\ row' = row
        BY <2>3, <3>2 DEF SweepFinish, finish_run, TypeOK, Sweeps
      <4> QED BY <3>1, <4>1 DEF SweptOnce
    <3>3. CASE row.status \notin RunTerminal
      <4>1. row'.status = "failed"
        BY <2>3, <3>3 DEF SweepFinish, finish_run, TypeOK
      <4>2. \A q \in Sweepers : sw[q].pc \notin {"list", "tasks"}
        BY <3>3 DEF SweptOnce, RunTerminal
      <4> QED BY <3>1, <4>1, <4>2 DEF SweptOnce
    <3> QED BY <3>2, <3>3
  <2>4. ASSUME NEW s \in Sweepers, SweepList(s) PROVE SweptOnce'
    BY <2>4 DEF SweepList, SweptOnce, TypeOK, Sweeps
  <2>5. ASSUME NEW s \in Sweepers, NEW k \in Tasks, SweepTask(s, k) PROVE SweptOnce'
    <3>1. \A q \in Sweepers : sw'[q].pc = sw[q].pc
      BY <2>5 DEF SweepTask, TypeOK, Sweeps
    <3> QED BY <2>5, <3>1 DEF SweepTask, SweptOnce
  <2>6. ASSUME NEW s \in Sweepers, SweepDone(s) \/ SweeperDies(s) PROVE SweptOnce'
    <3>1. \A q \in Sweepers : sw'[q].pc = IF q = s THEN "idle" ELSE sw[q].pc
      BY <2>6 DEF SweepDone, SweeperDies, IdleSweep, TypeOK
    <3> QED BY <2>6, <3>1 DEF SweepDone, SweeperDies, SweptOnce
  <2>7. [Next]_vars => \/ UNCHANGED sw /\ (row.status \in RunTerminal => row'.status = row.status)
                      \/ \E s \in Sweepers : Sweep(s) \/ SweeperDies(s)
    <3>1. Execute => UNCHANGED sw /\ (row.status \in RunTerminal => row'.status = row.status)
      BY DEF Execute, Pickup, Resolve, MarkRunning, mark_running, Register, Authorize, StartTask,
             AttemptEnds, Succeed, Skip, Cancel, Refuse, Fail, EndTask, SettleTask, EngineDone,
             SettleDone, Finish, Abandon, finish_run, RunTerminal
    <3>2. StoreRaises \/ WatchBeat \/ WatchCancel \/ RequestCancel \/ Shutdown \/ Lapse \/ WorkerDies
             \/ UNCHANGED vars
          => UNCHANGED sw /\ (row.status \in RunTerminal => row'.status = row.status)
      BY DEF StoreRaises, WatchBeat, WatchCancel, RequestCancel, Shutdown, Lapse, WorkerDies, vars,
             RunActive, RunTerminal
    <3> QED BY <3>1, <3>2 DEF Next
  <2> QED
    BY <2>1, <2>2, <2>3, <2>4, <2>5, <2>6, <2>7 DEF Sweep
<1> QED
  BY <1>1, <1>2, TypeCorrect, PTL DEF Spec

\* Nothing runs before the engine does.
LEMMA NotYetHolds == Spec => []NotYet
<1>1. Init => NotYet
  BY DEF Init, NotYet
<1>2. TypeOK /\ NotYet /\ [Next]_vars => NotYet'
  <2> SUFFICES ASSUME TypeOK, NotYet, [Next]_vars PROVE NotYet'
    OBVIOUS
  <2> USE DEF NotYet, TypeOK
  <2>1. CASE Execute
    BY <2>1 DEF Execute, Pickup, Resolve, MarkRunning, Register, Authorize, StartTask,
           AttemptEnds, Succeed, Skip, Cancel, Refuse, Fail, EndTask, SettleTask, EngineDone,
           SettleDone, Finish, Abandon
  <2>2. CASE StoreRaises \/ WatchBeat \/ WatchCancel \/ RequestCancel \/ Shutdown \/ Lapse \/ WorkerDies
               \/ UNCHANGED vars
    BY <2>2 DEF StoreRaises, WatchBeat, WatchCancel, RequestCancel, Shutdown, Lapse, WorkerDies, vars
  <2>3. ASSUME NEW s \in Sweepers, Sweep(s) \/ SweeperDies(s) PROVE NotYet'
    BY <2>3 DEF Sweep, SweepSelect, SweepFinish, SweepList, SweepTask, SweepDone, SweeperDies
  <2> QED
    BY <2>1, <2>2, <2>3 DEF Next
<1> QED
  BY <1>1, <1>2, TypeCorrect, PTL DEF Spec

\* Recording a closed status, and a sweep's write, close the stored task run.
LEMMA SettledInvHolds == Spec => []SettledInv
<1>1. Init => SettledInv
  BY DEF Init, SettledInv, ClosedInStore, AllSettled, Pending, TaskClosed
<1>2. TypeOK /\ SettledInv /\ [Next]_vars => SettledInv'
  <2> SUFFICES ASSUME TypeOK, SettledInv, [Next]_vars PROVE SettledInv'
    OBVIOUS
  <2> USE DEF SettledInv, ClosedInStore, AllSettled
  <2>1. ASSUME NEW k \in Tasks, NEW t, Record(k, t), w.pc \notin {"finish", "settled"}, UNCHANGED w
        PROVE  SettledInv'
    BY <2>1 DEF Record, TypeOK
  <2>2. ASSUME NEW k \in Tasks, StartTask(k) \/ AttemptEnds(k) \/ SettleTask(k) PROVE SettledInv'
    BY <2>1, <2>2 DEF StartTask, AttemptEnds, Succeed, Skip, Cancel, Refuse, Fail, EndTask, SettleTask
  <2>3. CASE Register
    BY <2>3 DEF Register, TypeOK
  <2>4. CASE SettleDone
    BY <2>4 DEF SettleDone, TypeOK, TaskRuns
  <2>5. CASE Pickup \/ Resolve \/ MarkRunning \/ Authorize \/ EngineDone \/ Finish \/ Abandon
    BY <2>5 DEF Pickup, Resolve, MarkRunning, Authorize, EngineDone, Finish, Abandon, TypeOK
  <2>6. CASE StoreRaises \/ WatchBeat \/ WatchCancel \/ RequestCancel \/ Shutdown \/ Lapse \/ WorkerDies
               \/ UNCHANGED vars
    BY <2>6 DEF StoreRaises, WatchBeat, WatchCancel, RequestCancel, Shutdown, Lapse, WorkerDies, vars, TypeOK
  <2>7. ASSUME NEW s \in Sweepers, NEW k \in Tasks, SweepTask(s, k) PROVE SettledInv'
    BY <2>7, SettledAsCloses DEF SweepTask, TypeOK
  <2>8. ASSUME NEW s \in Sweepers, Sweep(s) \/ SweeperDies(s) PROVE SettledInv'
    BY <2>7, <2>8 DEF Sweep, SweepSelect, SweepFinish, SweepList, SweepDone, SweeperDies
  <2> QED
    BY <2>2, <2>3, <2>4, <2>5, <2>6, <2>8 DEF Next, Execute
<1> QED
  BY <1>1, <1>2, TypeCorrect, PTL DEF Spec

\* An executed run shows its end only once all its task runs are closed, also
\* when a sweep that took the worker for dead writes them at the same time.
THEOREM SettlesBeforeFinish == Spec => []SettledBeforeFinish
<1>1. SettledInv => SettledBeforeFinish
  BY DEF SettledInv, ClosedInStore, AllSettled, SettledBeforeFinish
<1> QED
  BY <1>1, SettledInvHolds, PTL

\* Attempts never outgrow the retry policy: not in memory, not in the store, not
\* in the copy a sweep writes back.
LEMMA AttemptInvHolds == Spec => []AttemptInv
<1>1. Init => AttemptInv
  BY DEF Init, AttemptInv, AttemptsFit, RetriesLeft, Pending, IdleSweep
<1>2. TypeOK /\ NotYet /\ AttemptInv /\ [Next]_vars => AttemptInv'
  <2> SUFFICES ASSUME TypeOK, NotYet, AttemptInv, [Next]_vars PROVE AttemptInv'
    OBVIOUS
  <2> USE DEF AttemptInv, AttemptsFit, RetriesLeft
  <2>1. ASSUME NEW k \in Tasks, StartTask(k) PROVE AttemptInv'
    BY <2>1 DEF StartTask, Ready, Record, TypeOK, TaskRuns
  <2>2. ASSUME NEW k \in Tasks, NEW status, NEW told \in StepState \ {"waiting"},
               told = "again" => mem[k].attempts <= MaxRetries[k], EndTask(k, status, told)
        PROVE  AttemptInv'
    BY <2>2 DEF EndTask, Record, TypeOK, TaskRuns
  <2>3. ASSUME NEW k \in Tasks, AttemptEnds(k) PROVE AttemptInv'
    BY <2>2, <2>3 DEF AttemptEnds, Succeed, Skip, Cancel, Refuse, Fail, StepState
  <2>4. ASSUME NEW k \in Tasks, SettleTask(k) PROVE AttemptInv'
    BY <2>4 DEF SettleTask, Record, TypeOK, TaskRuns
  <2>5. CASE Register
    BY <2>5 DEF Register, NotYet, TypeOK
  <2>6. CASE UNCHANGED <<mem, task, step, sw>>
    BY <2>6
  <2>7. Pickup \/ Resolve \/ MarkRunning \/ Authorize \/ EngineDone \/ SettleDone \/ Finish \/ Abandon
          \/ StoreRaises \/ WatchBeat \/ WatchCancel \/ RequestCancel \/ Shutdown \/ Lapse \/ WorkerDies
          \/ UNCHANGED vars
        => UNCHANGED <<mem, task, step, sw>>
    BY DEF Pickup, Resolve, MarkRunning, Authorize, EngineDone, SettleDone, Finish, Abandon, StoreRaises,
           WatchBeat, WatchCancel, RequestCancel, Shutdown, Lapse, WorkerDies, vars
  <2>8. ASSUME NEW s \in Sweepers, SweepSelect(s) \/ SweepFinish(s) PROVE AttemptInv'
    <3>1. \E pc : sw' = [sw EXCEPT ![s].pc = pc]
      BY <2>8 DEF SweepSelect, SweepFinish
    <3>2. \A q \in Sweepers : sw'[q].snap = sw[q].snap
      BY <3>1 DEF TypeOK, Sweeps
    <3> QED BY <2>8, <3>2 DEF SweepSelect, SweepFinish
  <2>9. ASSUME NEW s \in Sweepers, SweepList(s) PROVE AttemptInv'
    <3>1. \A q \in Sweepers : sw'[q].snap = sw[q].snap \/ sw'[q].snap = task
      BY <2>9 DEF SweepList, TypeOK
    <3> QED BY <2>9, <3>1 DEF SweepList
  <2>10. ASSUME NEW s \in Sweepers, NEW k \in Tasks, SweepTask(s, k) PROVE AttemptInv'
    <3>1. \A q \in Sweepers : sw'[q].snap = sw[q].snap
      BY <2>10 DEF SweepTask, TypeOK, Sweeps
    <3>2. \A j \in Tasks : task'[j].attempts = task[j].attempts \/ task'[j].attempts = sw[s].snap[j].attempts
      BY <2>10 DEF SweepTask, TypeOK
    <3> QED BY <2>10, <3>1, <3>2 DEF SweepTask
  <2>11. ASSUME NEW s \in Sweepers, SweepDone(s) \/ SweeperDies(s) PROVE AttemptInv'
    <3>1. \A q \in Sweepers : sw'[q].snap = sw[q].snap \/ sw'[q].snap = Pending
      BY <2>11 DEF SweepDone, SweeperDies, IdleSweep, TypeOK
    <3>2. \A k \in Tasks : Pending[k].attempts = 0
      BY DEF Pending
    <3> QED BY <2>11, <3>1, <3>2 DEF SweepDone, SweeperDies
  <2> QED
    BY <2>1, <2>3, <2>4, <2>5, <2>6, <2>7, <2>8, <2>9, <2>10, <2>11 DEF Next, Execute, Sweep
<1> QED
  BY <1>1, <1>2, TypeCorrect, NotYetHolds, PTL DEF Spec

\* No task is attempted more often than its retry policy allows, although Dagster
\* retries without looking at the Cancellation and a sweep writes attempts back.
THEOREM AttemptsAreBounded == Spec => []AttemptsBounded
<1>1. AttemptInv => AttemptsBounded
  BY DEF AttemptInv, AttemptsFit, AttemptsBounded
<1> QED
  BY <1>1, AttemptInvHolds, PTL

-----------------------------------------------------------------------------
(* Outcomes *)

\* While no sweep has failed the run, the recorder and the store agree on every
\* task whose saves did not fail.
InStep ==
    row.status # "failed" =>
        \A k \in Tasks : \/ task[k] = mem[k]
                         \/ k \in Lossy /\ w.pc \notin {"queued", "resolve", "mark", "register", "authorize"}

\* The recorder knows what Dagster was told.
StepsRecorded ==
    \A k \in Tasks :
        /\ step[k] = "output" => mem[k].status = "succeeded"
        /\ step[k] = "no_output" => mem[k].status = "skipped"

WaitingIsPending ==
    /\ row.status # "failed"
    /\ w.pc \in {"queued", "resolve", "mark", "register", "authorize", "engine"}
    => \A k \in Tasks : step[k] = "waiting" => mem[k].status = "pending"

Ending == w.pc \in {"settle", "finish", "settled"}

SucceededMeans == Ending /\ w.out = "succeeded" => \A k \in Tasks : step[k] = "output"

SkippedMeans ==
    row.status # "failed" /\ Ending /\ w.out = "skipped" =>
        /\ \A k \in Tasks : mem[k].status \in {"succeeded", "skipped", "pending"}
        /\ \E k \in Tasks : step[k] = "no_output"

\* Only an executed run's finish_run writes these two.
WhoSaysSo ==
    /\ row.status \in {"succeeded", "skipped"} => w.pc = "settled" /\ w.out = row.status
    /\ w.pc \in {"abandon", "internal"} => w.out \in {"failed", "canceled"}

OutcomeInv == InStep /\ StepsRecorded /\ WaitingIsPending /\ SucceededMeans /\ SkippedMeans /\ WhoSaysSo

\* When the engine is done and nothing failed or skipped, every step gave an
\* output: an acyclic graph cannot leave a step waiting for ever.
LEMMA NothingLeftWaiting ==
    ASSUME TypeOK, EngineDone, \A k \in Tasks : step[k] \notin {"failed", "no_output"}
    PROVE  \A k \in Tasks : step[k] = "output"
<1> DEFINE S == {k \in Tasks : step[k] = "waiting"}
<1>1. \A k \in Tasks : step[k] \in {"waiting", "output"}
  BY DEF EngineDone, Ready, TypeOK, StepState
<1>2. S = {}
  <2> SUFFICES ASSUME S # {} PROVE FALSE
    OBVIOUS
  <2>1. PICK k \in S : DependsOn[k] \cap S = {}
    BY AcyclicAssumption
  <2>2. \A d \in DependsOn[k] : step[d] = "output"
    BY <1>1, <2>1
  <2> QED BY <2>1, <2>2 DEF EngineDone, Ready
<1> QED BY <1>1, <1>2

\* What the engine's result says about the steps.
LEMMA OutcomeOfSteps ==
    ASSUME NEW steps, NEW cancel \in BOOLEAN
    PROVE  /\ Outcome(steps, cancel) = "succeeded" =>
                 \A k \in Tasks : steps[k] \notin {"failed", "no_output"}
           /\ Outcome(steps, cancel) = "skipped" =>
                 /\ \A k \in Tasks : steps[k] # "failed"
                 /\ \E k \in Tasks : steps[k] = "no_output"
<1>1. CASE \E k \in Tasks : steps[k] = "failed"
  BY <1>1 DEF Outcome
<1>2. CASE ~ \E k \in Tasks : steps[k] = "failed"
  <2>1. CASE \E k \in Tasks : steps[k] = "no_output"
    BY <1>2, <2>1 DEF Outcome
  <2>2. CASE ~ \E k \in Tasks : steps[k] = "no_output"
    BY <1>2, <2>2 DEF Outcome
  <2> QED BY <2>1, <2>2
<1> QED BY <1>1, <1>2

\* The outcome and the task runs agree at every step of the worker, as long as no
\* sweep failed the run.
LEMMA OutcomeInvHolds == Spec => []OutcomeInv
<1>1. Init => OutcomeInv
  BY DEF Init, OutcomeInv, InStep, StepsRecorded, WaitingIsPending, SucceededMeans, SkippedMeans, WhoSaysSo,
         Ending, Pending
<1>2. TypeOK /\ NotYet /\ SweptOnce /\ OutcomeInv /\ [Next]_vars => OutcomeInv'
  <2> SUFFICES ASSUME TypeOK, NotYet, SweptOnce, OutcomeInv, [Next]_vars PROVE OutcomeInv'
    OBVIOUS
  <2> USE DEF OutcomeInv, InStep, StepsRecorded, WaitingIsPending, SucceededMeans, SkippedMeans, WhoSaysSo, Ending
  <2>1. CASE Pickup
    BY <2>1 DEF Pickup, TypeOK
  <2>2. CASE Resolve
    BY <2>2 DEF Resolve, TypeOK
  <2>3. CASE MarkRunning
    BY <2>3 DEF MarkRunning, mark_running, TypeOK
  <2>4. CASE Register
    BY <2>4 DEF Register, NotYet, TypeOK
  <2>5. CASE Authorize
    BY <2>5 DEF Authorize, TypeOK
  <2>6. ASSUME NEW k \in Tasks, StartTask(k) PROVE OutcomeInv'
    BY <2>6 DEF StartTask, Record, TypeOK
  <2>7. ASSUME NEW k \in Tasks, NEW status, NEW told,
               told = "output" => status = "succeeded", told = "no_output" => status = "skipped",
               told # "waiting", EndTask(k, status, told)
        PROVE  OutcomeInv'
    BY <2>7 DEF EndTask, Record, TypeOK
  <2>8. ASSUME NEW k \in Tasks, AttemptEnds(k) PROVE OutcomeInv'
    BY <2>7, <2>8 DEF AttemptEnds, Succeed, Skip, Cancel, Refuse, Fail
  <2>9. ASSUME NEW k \in Tasks, SettleTask(k) PROVE OutcomeInv'
    BY <2>9 DEF SettleTask, SettledAs, Record, TypeOK, TaskOpen
  <2>10. CASE EngineDone
    <3>1. w'.out = "succeeded" => \A k \in Tasks : step[k] = "output"
      BY <2>10, OutcomeOfSteps, NothingLeftWaiting DEF EngineDone, TypeOK
    <3>2. w'.out = "skipped" => /\ \A k \in Tasks : step[k] # "failed"
                                /\ \E k \in Tasks : step[k] = "no_output"
      BY <2>10, OutcomeOfSteps DEF EngineDone, TypeOK
    <3>3. w'.out = "skipped" => \A k \in Tasks : step[k] \in {"waiting", "output", "no_output"}
      BY <2>10, <3>2 DEF EngineDone, Ready, TypeOK, StepState
    <3> QED BY <2>10, <3>1, <3>2, <3>3 DEF EngineDone, TypeOK
  <2>11. CASE SettleDone
    BY <2>11 DEF SettleDone, TypeOK
  <2>12. CASE Finish
    BY <2>12 DEF Finish, finish_run, TypeOK, RunTerminal
  <2>13. CASE Abandon
    BY <2>13 DEF Abandon, finish_run, TypeOK, RunTerminal
  <2>14. CASE StoreRaises
    BY <2>14 DEF StoreRaises, TypeOK
  <2>15. CASE WatchBeat \/ RequestCancel \/ Lapse
    BY <2>15 DEF WatchBeat, RequestCancel, Lapse, TypeOK
  <2>16. CASE WatchCancel
    BY <2>16 DEF WatchCancel, TypeOK
  <2>17. CASE Shutdown
    BY <2>17 DEF Shutdown, TypeOK
  <2>18. CASE WorkerDies
    BY <2>18 DEF WorkerDies, TypeOK
  <2>19. ASSUME NEW s \in Sweepers, SweepFinish(s) PROVE OutcomeInv'
    BY <2>19 DEF SweepFinish, finish_run, TypeOK, RunTerminal
  <2>20. ASSUME NEW s \in Sweepers, NEW k \in Tasks, SweepTask(s, k) PROVE OutcomeInv'
    <3>1. row.status = "failed"
      BY <2>20 DEF SweepTask, SweptOnce
    <3> QED BY <2>20, <3>1 DEF SweepTask
  <2>21. ASSUME NEW s \in Sweepers, Sweep(s) \/ SweeperDies(s) PROVE OutcomeInv'
    BY <2>19, <2>20, <2>21 DEF Sweep, SweepSelect, SweepList, SweepDone, SweeperDies
  <2>22. CASE UNCHANGED vars
    BY <2>22 DEF vars
  <2> QED
    BY <2>1, <2>2, <2>3, <2>4, <2>5, <2>6, <2>8, <2>9, <2>10, <2>11, <2>12, <2>13, <2>14, <2>15,
       <2>16, <2>17, <2>18, <2>21, <2>22 DEF Next, Execute
<1> QED
  BY <1>1, <1>2, TypeCorrect, NotYetHolds, SweepsOnce, PTL DEF Spec

\* A run that says it succeeded has only succeeded task runs, one that says it was
\* skipped has none that failed or was canceled: for every acyclic graph, and
\* although sweeps write runs and task runs as well.
THEOREM OutcomesMatchTasks == Spec => []OutcomeMatchesTasks
<1>1. OutcomeInv /\ SettledInv => OutcomeMatchesTasks
  <2> SUFFICES ASSUME OutcomeInv, SettledInv PROVE OutcomeMatchesTasks
    OBVIOUS
  <2>1. row.status = "succeeded" => \A k \in Tasks \ Lossy : task[k].status = "succeeded"
    BY DEF OutcomeInv, InStep, StepsRecorded, SucceededMeans, WhoSaysSo, Ending
  <2>2. row.status = "skipped" =>
            /\ \A k \in Tasks \ Lossy : task[k].status \in {"succeeded", "skipped"}
            /\ \E k \in Tasks : k \in Lossy \/ task[k].status = "skipped"
    BY DEF OutcomeInv, InStep, StepsRecorded, SkippedMeans, WhoSaysSo, Ending, SettledInv, AllSettled, TaskClosed
  <2> QED BY <2>1, <2>2 DEF OutcomeMatchesTasks
<1> QED
  BY <1>1, OutcomeInvHolds, SettledInvHolds, PTL

=============================================================================
