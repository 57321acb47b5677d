------------------------------ MODULE TaskPod -------------------------------
(***************************************************************************)
(* One task attempt in a pod of its own: the Job runner and the remote     *)
(* runner in the API pod (runners/kubejob.py, runners/remote.py), the      *)
(* one-shot runner service in the task's pod (runner_service.py), and the  *)
(* process it runs (runners/subprocess_runner.py).                         *)
(*                                                                         *)
(*   cl[a]    the API pod's side of attempt a: the stage of the thread     *)
(*            that runs it, the run's cancel flag, the watch_cancel        *)
(*            thread, whether stream_box holds the response, the outcome   *)
(*   kb[a]    the cluster: the Job, its Secret, its pod                    *)
(*   link[a]  the HTTP connection that carries POST /v1/run                *)
(*   sv[a]    the pod's side: the stream generator, should_exit, the       *)
(*            idle timer's flag, the attempt's cancel flag, the work       *)
(*            thread, the task's process and its token files, the event    *)
(*            queue                                                        *)
(* The API pod may die at any point (up); the pod may be lost at any       *)
(* point.  Timeouts are steps that may be taken whenever their wait is on. *)
(***************************************************************************)
EXTENDS PodRules, FiniteSets

CONSTANTS Attempts,      \* task attempts of this API pod
          MaxConcurrent, \* runner.maxConcurrent
          Templates,     \* Job templates a chart may render
          Configs,       \* the configurations somebody may try to save, per attempt
          Runners,       \* the registry's runners
          SavedImages,   \* runner.images when the tasks were saved
          PipRoute,      \* whether BOOTH_PIPELINE_PIP_ROUTE is one of PIP_ROUTES
          Images,        \* names in runner.images now
          Pullable,      \* those the cluster can pull
          MaxLeaks       \* bound: Jobs left behind, by kind (LeftOver)

ASSUME SlotsAssumption == MaxConcurrent \in Nat \ {0}
ASSUME TemplatesAssumption == Templates \subseteq [init : Seq(InitContainers), auth : BOOLEAN, automount : BOOLEAN]
ASSUME ConfigsAssumption == \A a \in Attempts : \A c \in Configs[a] : TaskConfig(c)

VARIABLES template, up, slots, inv, cl, kb, link, sv

vars == <<template, up, slots, inv, cl, kb, link, sv>>
podvars == <<template, up, slots, inv>>

None == "none"
Ends == {"output", "skipped", "failed", "canceled"}

Stages == {"idle", "acquire", "start", "secret", "wait", "connect", "posting",
           "reading", "delete", "release", "done", "gone"}

\* What can be saved as a task, and so reach the engine.
Savable(c) == validate_task_config(_spark_always_has_platform_access(c), Runners, SavedImages)
Invocations(a) == {Invocation(_spark_always_has_platform_access(c)) : c \in {x \in Configs[a] : Savable(x)}}

NoInv == [requirements |-> FALSE, access |-> FALSE, spark |-> FALSE,
          image |-> "", env |-> <<>>, modules |-> <<>>, of |-> None]

NoPod == [init |-> <<>>, env |-> {}, healthz |-> {}, site |-> FALSE, packages |-> FALSE]

\* Jobs nobody will delete: the API server refused to, or the answer to their
\* creation was lost.  They end at their activeDeadlineSeconds.
LeftOver == {"leaked", "orphan"}

TypeOK ==
  /\ template \in Templates
  /\ up \in {"refused", "up", "down"}
  /\ slots \in 0..MaxConcurrent
  /\ \A a \in Attempts : inv[a] # NoInv => inv[a] = Invocation(inv[a].of) /\ Savable(inv[a].of)
  /\ \A a \in Attempts :
       /\ cl[a].stage \in Stages
       /\ cl[a].cancel \in BOOLEAN /\ cl[a].box \in BOOLEAN
       /\ cl[a].watch \in {"off", "on"}
       /\ cl[a].outcome \in Ends \cup {None}
       /\ kb[a].job \in {"none", "present", "deleted"} \cup LeftOver
       /\ kb[a].secret \in BOOLEAN
       /\ kb[a].phase \in {"none", "pending", "ready", "ended"}
       /\ link[a] \in {"none", "sent", "open", "closed"}
       /\ sv[a].gen \in {"none", "on", "over"}
       /\ sv[a].exit \in BOOLEAN /\ sv[a].started \in BOOLEAN
       /\ sv[a].cancel \in BOOLEAN
       /\ sv[a].work \in {"none", "setup", "waiting", "running", "over"}
       /\ sv[a].proc \in {"none", "running", "ok", "skip", "error", "empty", "killed"}
       /\ sv[a].token \in BOOLEAN /\ sv[a].shared \in BOOLEAN
       /\ sv[a].put \in BOOLEAN
       /\ Len(sv[a].events) <= 2 /\ Len(sv[a].wire) <= 1

NoCall == [stage |-> "idle", cancel |-> FALSE, watch |-> "off", box |-> FALSE,
           outcome |-> None]

NoService == [gen |-> "none", exit |-> FALSE, started |-> FALSE, cancel |-> FALSE,
              work |-> "none", proc |-> "none", token |-> FALSE, shared |-> FALSE,
              put |-> FALSE, events |-> <<>>, wire |-> <<>>]

\* The template is checked when the runner is constructed: a bad one stops
\* the API pod from starting.
Init ==
  /\ template \in Templates
  /\ up = IF _check_template(template) THEN "up" ELSE "refused"
  /\ slots = MaxConcurrent
  /\ inv = [a \in Attempts |-> NoInv]
  /\ cl = [a \in Attempts |-> NoCall]
  /\ kb = [a \in Attempts |-> [job |-> "none", secret |-> FALSE, phase |-> "none",
                               pod |-> NoPod]]
  /\ link = [a \in Attempts |-> "none"]
  /\ sv = [a \in Attempts |-> NoService]

-----------------------------------------------------------------------------
(* The API pod.                                                             *)

At(a, s) == up = "up" /\ cl[a].stage = s

To(a, s) == cl' = [cl EXCEPT ![a].stage = s]

\* A raise or a return of the attempt's thread: where it goes next, with
\* which outcome.
Leave(a, s, end) ==
  cl' = [cl EXCEPT ![a].stage = s, ![a].outcome = end, ![a].watch = "off",
                   ![a].box = FALSE]

Lost(a) == IF cl[a].cancel THEN "canceled" ELSE "failed"

\* The run is canceled while the attempt is under way.
Cancel(a) ==
  /\ up = "up"
  /\ cl[a].stage \notin {"done", "gone"}
  /\ ~cl[a].cancel
  /\ cl' = [cl EXCEPT ![a].cancel = TRUE]
  /\ UNCHANGED <<podvars, kb, link, sv>>

\* KubernetesJobRunner.run is called.
Run(a) ==
  /\ At(a, "idle")
  /\ \E i \in Invocations(a) : inv' = [inv EXCEPT ![a] = i]
  /\ IF cl[a].cancel THEN Leave(a, "done", "canceled") ELSE To(a, "acquire")
  /\ UNCHANGED <<template, up, slots, kb, link, sv>>

_acquire(a) ==
  /\ At(a, "acquire")
  /\ IF slots > 0
     THEN To(a, "start") /\ slots' = slots - 1
     ELSE cl[a].cancel /\ Leave(a, "done", "canceled") /\ UNCHANGED slots
  /\ UNCHANGED <<template, up, inv, kb, link, sv>>

MayLeave(kind) == Cardinality({a \in Attempts : kb[a].job = kind}) < MaxLeaks

\* _run_in_job up to the Job: the refusals, the warehouse lookup, create_job,
\* all outside the try whose finally deletes the Job.  When it fails the slot
\* is given back: nothing was created, or the answer was lost (a timeout, a
\* 5xx) and the Job is there all the same.
CreateJob(a) ==
  /\ At(a, "start")
  /\ \/ /\ Leave(a, "release", "failed")
        /\ UNCHANGED kb
     \/ /\ ~Refused(template, inv[a], PipRoute, Images)
        /\ \E w \in _warehouse(template, inv[a]) : \E job \in {"present", "orphan"} :
             /\ kb' = [kb EXCEPT ![a] = [job |-> job, secret |-> FALSE,
                                         phase |-> "pending",
                                         pod |-> _job(template, inv[a], w)]]
             /\ \/ job = "present" /\ To(a, "secret")
                \/ job = "orphan" /\ MayLeave("orphan") /\ Leave(a, "release", "failed")
  /\ UNCHANGED <<podvars, link, sv>>

\* Fault: the Secret is created outside the try whose finally deletes the Job.
Fault_CreateSecret(a) ==
  /\ At(a, "secret")
  /\ \/ /\ kb' = [kb EXCEPT ![a].secret = TRUE]
        /\ To(a, "wait")
     \/ Leave(a, "release", "failed") /\ UNCHANGED kb
  /\ UNCHANGED <<podvars, link, sv>>

\* When it fails the Secret may be there or not.
CreateSecret(a) ==
  /\ At(a, "secret")
  /\ \/ /\ kb' = [kb EXCEPT ![a].secret = TRUE]
        /\ To(a, "wait") \/ Leave(a, "delete", "failed")
     \/ Leave(a, "delete", "failed") /\ UNCHANGED kb
  /\ UNCHANGED <<podvars, link, sv>>

\* One round of _wait_ready: the cancel flag, then the pod, then the deadline
\* (or a list_pods that raises, or a container waiting for a fatal reason).
_wait_ready(a) ==
  /\ At(a, "wait")
  /\ \/ cl[a].cancel /\ Leave(a, "delete", "canceled")
     \/ ~cl[a].cancel /\ kb[a].phase = "ready" /\ To(a, "connect")
     \/ ~cl[a].cancel /\ Leave(a, "delete", "failed")
  /\ UNCHANGED <<podvars, kb, link, sv>>

\* RemoteRunner.run: the protocol of an operator's image is asked first; then
\* the watcher and the refresher start and the invocation is sent.
Connect(a) ==
  /\ At(a, "connect")
  /\ \/ cl[a].cancel /\ Leave(a, "delete", "canceled") /\ UNCHANGED link
     \/ /\ ~cl[a].cancel /\ inv[a].image # ""
        /\ \E answer \in Answers : ~check_protocol(answer)
        /\ Leave(a, "delete", "failed") /\ UNCHANGED link
     \/ /\ ~cl[a].cancel
        /\ inv[a].image # "" => \E answer \in Answers : check_protocol(answer)
        /\ cl' = [cl EXCEPT ![a].stage = "posting", ![a].watch = "on"]
        /\ link' = [link EXCEPT ![a] = "sent"]
  /\ UNCHANGED <<podvars, kb, sv>>

\* The response's headers: from here on stream_box holds it.
Headers(a) ==
  /\ At(a, "posting")
  /\ sv[a].gen # "none"
  /\ cl' = [cl EXCEPT ![a].stage = "reading", ![a].box = TRUE]
  /\ UNCHANGED <<podvars, kb, link, sv>>

Unheard(a) == cl' = [cl EXCEPT ![a].watch = "off"]

\* watch_cancel sees the flag: it hangs up if the response has arrived, and
\* is over either way.
watch_cancel(a) ==
  /\ up = "up"
  /\ cl[a].stage \in {"posting", "reading"}
  /\ cl[a].watch = "on" /\ cl[a].cancel
  /\ Unheard(a)
  /\ link' = IF cl[a].box THEN [link EXCEPT ![a] = "closed"] ELSE link
  /\ UNCHANGED <<podvars, kb, sv>>

\* The reader gets the one event that decides, and leaves the stream, which
\* closes the connection.
Receive(a) ==
  /\ At(a, "reading")
  /\ sv[a].wire # <<>>
  /\ Leave(a, "delete", Head(sv[a].wire))
  /\ link' = [link EXCEPT ![a] = "closed"]
  /\ UNCHANGED <<podvars, kb, sv>>

\* The connection fails, or the stream ends, without that event.
LostConnection(a) ==
  /\ At(a, "posting") \/ At(a, "reading")
  /\ \/ link[a] = "closed"
     \/ kb[a].phase = "ended"
     \/ sv[a].gen = "over" /\ sv[a].wire = <<>>
     \/ sv[a].exit /\ sv[a].gen = "none"
  /\ Leave(a, "delete", Lost(a))
  /\ link' = [link EXCEPT ![a] = "closed"]
  /\ UNCHANGED <<podvars, kb, sv>>

\* No keep-alive within the read timeout.
ReadTimeout(a) ==
  /\ At(a, "posting") \/ At(a, "reading")
  /\ Leave(a, "delete", Lost(a))
  /\ link' = [link EXCEPT ![a] = "closed"]
  /\ UNCHANGED <<podvars, kb, sv>>

\* The pod is over, with everything in it: nothing a process wrote is left.
Dead(s) == [s EXCEPT !.proc = IF @ = "running" THEN "killed" ELSE @,
                     !.work = IF @ = "none" THEN @ ELSE "over",
                     !.gen = IF @ = "none" THEN @ ELSE "over",
                     !.token = FALSE, !.shared = FALSE, !.put = FALSE,
                     !.exit = TRUE, !.events = <<>>]

EndPod(a) ==
  /\ kb' = [kb EXCEPT ![a].phase = "ended"]
  /\ sv' = [sv EXCEPT ![a] = Dead(@)]

\* delete_job, in the finally of _run_in_job: a failure is only logged.
DeleteJob(a) ==
  /\ At(a, "delete")
  /\ To(a, "release")
  /\ \/ /\ kb' = [kb EXCEPT ![a].job = "deleted", ![a].secret = FALSE,
                            ![a].phase = "ended"]
        /\ sv' = [sv EXCEPT ![a] = Dead(@)]
     \/ /\ MayLeave("leaked")
        /\ kb' = [kb EXCEPT ![a].job = "leaked"]
        /\ UNCHANGED sv
  /\ UNCHANGED <<podvars, link>>

\* The slot is given back and the engine has the outcome.  Of a pod whose Job
\* is deleted nothing is left to tell.
Release(a) ==
  /\ At(a, "release")
  /\ cl' = [cl EXCEPT ![a] = [NoCall EXCEPT !.stage = "done"]]
  /\ slots' = slots + 1
  /\ IF kb[a].job \in LeftOver
     THEN UNCHANGED <<inv, kb, link, sv>>
     ELSE /\ inv' = [inv EXCEPT ![a] = NoInv]
          /\ kb' = [kb EXCEPT ![a].pod = NoPod]
          /\ link' = [link EXCEPT ![a] = "none"]
          /\ sv' = [sv EXCEPT ![a] = NoService]
  /\ UNCHANGED <<template, up>>

\* The API pod dies: its threads go, and its connections close.
Crash ==
  /\ up = "up"
  /\ up' = "down"
  /\ cl' = [a \in Attempts |->
              IF cl[a].stage \in {"idle", "done"} THEN cl[a]
              ELSE [cl[a] EXCEPT !.stage = "gone", !.watch = "off", !.box = FALSE]]
  /\ link' = [a \in Attempts |-> IF link[a] = "none" THEN "none" ELSE "closed"]
  /\ UNCHANGED <<template, slots, inv, kb, sv>>

-----------------------------------------------------------------------------
(* The cluster (external).                                                  *)

\* The kubelet pulls the image, mounts the Secret, runs the installer, starts
\* the sidecars and the runner.  A sidecar that is no native one holds the others up, one on
\* the runner's port keeps the runner from listening.
PodReady(a) ==
  /\ kb[a].phase = "pending" /\ kb[a].job # "deleted" /\ kb[a].secret
  /\ inv[a].image \in Pullable \cup {""}
  /\ \A i \in DOMAIN kb[a].pod.init :
       LET c == kb[a].pod.init[i] IN
         c.name \in Sidecars => c.port # "task" /\ c.always
  /\ PIP \in Names(kb[a].pod.init) => \E p \in PipRuns : install(p)
  /\ kb' = [kb EXCEPT ![a].phase = "ready",
                      ![a].pod.packages = PIP \in Names(kb[a].pod.init)]
  /\ UNCHANGED <<podvars, cl, link, sv>>

\* The installer's exit code ends the pod.
InstallFails(a) ==
  /\ kb[a].phase = "pending" /\ kb[a].job # "deleted" /\ kb[a].secret
  /\ PIP \in Names(kb[a].pod.init)
  /\ \E p \in PipRuns : ~install(p)
  /\ EndPod(a)
  /\ UNCHANGED <<podvars, cl, link>>

\* A pod that never starts, or is evicted, or reaches the Job's deadline.
PodLost(a) ==
  /\ kb[a].phase \in {"pending", "ready"}
  /\ EndPod(a)
  /\ UNCHANGED <<podvars, cl, link>>

-----------------------------------------------------------------------------
(* The pod.                                                                 *)

InPod(a) == kb[a].phase = "ready"

\* POST /v1/run: the one slot is taken, the idle timer is told, the work
\* thread and the stream start.  The client may have given up meanwhile.
Accept(a) ==
  /\ InPod(a) /\ link[a] # "none" /\ ~sv[a].exit /\ sv[a].gen = "none"
  /\ sv' = [sv EXCEPT ![a].started = TRUE, ![a].gen = "on", ![a].work = "setup"]
  /\ link' = [link EXCEPT ![a] = IF @ = "sent" THEN "open" ELSE @]
  /\ UNCHANGED <<podvars, cl, kb>>

Say(s, ev) == [s EXCEPT !.work = "over", !.events = <<ev, "end">>,
                        !.token = FALSE, !.shared = FALSE]

\* Fault: only the work directory's token is written, not the sidecars'.
Fault_Setup(a) ==
  /\ InPod(a) /\ sv[a].work = "setup"
  /\ sv' = [sv EXCEPT ![a].work = "waiting", ![a].token = inv[a].access]
  /\ UNCHANGED <<podvars, cl, kb, link>>

\* SubprocessRunner.run as far as the token: the install record is checked,
\* the token written and registered.
Setup(a) ==
  /\ InPod(a) /\ sv[a].work = "setup"
  /\ LET m == Main(kb[a].pod) IN
       sv' = [sv EXCEPT ![a] =
                IF @.cancel THEN Say(@, "canceled")
                ELSE IF ~_report_install(inv[a], m, kb[a].pod) THEN Say(@, "failed")
                ELSE [@ EXCEPT !.work = "waiting",
                               !.token = inv[a].access,
                               !.shared = inv[a].access /\ m.shared_token_file]]
  /\ UNCHANGED <<podvars, cl, kb, link>>

\* before_start has returned; a sidecar gets no lease before its token file is
\* there.
Popen(a) ==
  /\ InPod(a) /\ sv[a].work = "waiting"
  /\ \E leased \in SUBSET (IF sv[a].shared THEN Sidecars ELSE {}) : \E late \in BOOLEAN :
       Main(kb[a].pod).before_start => sidecar_wait(inv[a], kb[a].pod.healthz, leased, late)
  /\ sv' = [sv EXCEPT ![a].work = "running", ![a].proc = "running"]
  /\ UNCHANGED <<podvars, cl, kb, link>>

\* The task's own process ends.
ProcExit(a) ==
  /\ sv[a].proc = "running"
  /\ \E end \in Endings : sv' = [sv EXCEPT ![a].proc = harness_main(end)]
  /\ UNCHANGED <<podvars, cl, kb, link>>

\* Fault: a missing result.json is taken for a task that returned nothing.
Fault_Result(proc) == CASE proc \in {"ok", "empty"} -> "output"
                        [] proc = "skip" -> "skipped"
                        [] OTHER         -> "failed"

\* How _run_in reads an exit: the code, then result.json, then "skipped".
Result(proc) == CASE proc = "ok"   -> "output"
                  [] proc = "skip" -> "skipped"
                  [] OTHER         -> "failed"

\* The wait loop notices the exit; the finally of run removes the token.
Reap(a) ==
  /\ InPod(a) /\ sv[a].work = "running" /\ sv[a].proc # "running"
  /\ sv' = [sv EXCEPT ![a] = Say(@, Result(sv[a].proc))]
  /\ UNCHANGED <<podvars, cl, kb, link>>

\* The wait loop sees the cancel flag and kills the process tree.
Kill(a) ==
  /\ InPod(a) /\ sv[a].work = "running" /\ sv[a].proc = "running" /\ sv[a].cancel
  /\ sv' = [sv EXCEPT ![a] = Say([@ EXCEPT !.proc = "killed"], "canceled")]
  /\ UNCHANGED <<podvars, cl, kb, link>>

\* The task's own timeout passes first.
Timeout(a) ==
  /\ InPod(a) /\ sv[a].work = "running" /\ sv[a].proc = "running" /\ ~sv[a].cancel
  /\ sv' = [sv EXCEPT ![a] = Say([@ EXCEPT !.proc = "killed"], "failed")]
  /\ UNCHANGED <<podvars, cl, kb, link>>

\* The generator takes the next event: a result goes on the wire, "end" ends
\* the stream, and with it the one-shot server.
Stream(a) ==
  /\ InPod(a) /\ sv[a].gen = "on" /\ sv[a].events # <<>>
  /\ sv' = [sv EXCEPT ![a].events = Tail(@),
                      ![a].wire = IF Head(sv[a].events) # "end" /\ link[a] = "open"
                                  THEN <<Head(sv[a].events)>> ELSE @,
                      ![a].gen  = IF Head(sv[a].events) = "end" THEN "over" ELSE @,
                      ![a].exit = Head(sv[a].events) = "end"]
  /\ UNCHANGED <<podvars, cl, kb, link>>

\* Fault: the finally that runs on a hang-up forgets the task.
Fault_Disconnected(a) ==
  /\ InPod(a) /\ sv[a].gen = "on" /\ link[a] = "closed"
  /\ sv' = [sv EXCEPT ![a].gen = "over"]
  /\ UNCHANGED <<podvars, cl, kb, link>>

\* The generator notices the hang-up: its finally cancels the task and ends
\* the one-shot server.
Disconnected(a) ==
  /\ InPod(a) /\ sv[a].gen = "on" /\ link[a] = "closed"
  /\ sv' = [sv EXCEPT ![a].gen = "over", ![a].cancel = TRUE, ![a].exit = TRUE]
  /\ UNCHANGED <<podvars, cl, kb, link>>

\* PUT .../token, as _keep_token_fresh sends it: update_token looks the file
\* up under its lock ...
PutToken(a) ==
  /\ up = "up" /\ cl[a].stage \in {"posting", "reading"}
  /\ InPod(a) /\ sv[a].token /\ ~sv[a].put
  /\ sv' = [sv EXCEPT ![a].put = TRUE]
  /\ UNCHANGED <<podvars, cl, kb, link>>

\* ... and writes outside it: a work directory that has gone meanwhile makes
\* the first write fail; between the two writes it may go as well.
WriteToken(a) ==
  /\ InPod(a) /\ sv[a].put
  /\ \/ /\ sv' = [sv EXCEPT ![a].put = FALSE,
                            ![a].shared = @ \/ (sv[a].token /\ Main(kb[a].pod).shared_token_file)]
     \/ /\ sv[a].work = "over"
        /\ sv' = [sv EXCEPT ![a].put = FALSE, ![a].shared = Main(kb[a].pod).shared_token_file]
  /\ UNCHANGED <<podvars, cl, kb, link>>

\* Fault: the timer asks whether the task is over, which it is not either.
Fault_IdleExit(a) == sv[a].started /\ ~sv[a].started /\ UNCHANGED vars

\* The idle timer: no task arrived in time.
IdleExit(a) ==
  /\ InPod(a) /\ ~sv[a].started /\ ~sv[a].exit
  /\ sv' = [sv EXCEPT ![a].exit = TRUE]
  /\ UNCHANGED <<podvars, cl, kb, link>>

\* server.run returns once no stream is open; the container ends, and with it
\* every process in it and, its sidecars being native, the pod.
ServerExit(a) ==
  /\ InPod(a) /\ sv[a].exit /\ sv[a].gen # "on"
  /\ EndPod(a)
  /\ UNCHANGED <<podvars, cl, link>>

-----------------------------------------------------------------------------
Step(a) ==
  \/ Run(a) \/ Cancel(a) \/ _acquire(a) \/ CreateJob(a) \/ CreateSecret(a)
  \/ _wait_ready(a) \/ Connect(a) \/ Headers(a) \/ watch_cancel(a)
  \/ Receive(a) \/ LostConnection(a) \/ ReadTimeout(a)
  \/ DeleteJob(a) \/ Release(a)
  \/ PodReady(a) \/ InstallFails(a) \/ PodLost(a)
  \/ Accept(a) \/ Setup(a) \/ Popen(a) \/ ProcExit(a) \/ Reap(a) \/ Kill(a)
  \/ Timeout(a) \/ Stream(a) \/ Disconnected(a) \/ PutToken(a) \/ WriteToken(a)
  \/ IdleExit(a) \/ ServerExit(a)

Next == Crash \/ \E a \in Attempts : Step(a)

\* The threads of both pods go on, and so do their timers; nothing is assumed
\* of the task's process, of its timeout, of the cluster or of a cancel.
Fairness ==
  \A a \in Attempts :
    /\ WF_vars(watch_cancel(a)) /\ WF_vars(Receive(a)) /\ WF_vars(LostConnection(a))
    /\ WF_vars(DeleteJob(a)) /\ WF_vars(Release(a))
    /\ WF_vars(Setup(a)) /\ WF_vars(Popen(a)) /\ WF_vars(Reap(a)) /\ WF_vars(Kill(a))
    /\ WF_vars(Stream(a)) /\ WF_vars(Disconnected(a))
    /\ WF_vars(IdleExit(a)) /\ WF_vars(ServerExit(a))

Spec == Init /\ [][Next]_vars /\ Fairness

-----------------------------------------------------------------------------
(* Properties.                                                              *)

\* What the engine is told is what happened in the pod: an output only of a
\* process that exited 0 with a result, a skip only of one that skipped, and
\* "canceled" only when the run was canceled, however the hang-up, the
\* result on the wire and the end of the pod fall (remote._stream, _run_in).
OutcomeIsTheTasks ==
  TypeOK /\ \A a \in Attempts :
    /\ cl[a].outcome = "output"   => sv[a].proc = "ok"
    /\ cl[a].outcome = "skipped"  => sv[a].proc = "skip"
    /\ cl[a].outcome = "canceled" => cl[a].cancel

\* An attempt that is over has left no Job and no Secret behind, on every
\* path out of _run_in_job, except a Job the API server refused to delete and
\* one whose creation it never answered.  The latter never gets a Secret, so
\* nothing ever runs in it; and apart from those that were left, and the ones
\* of an earlier API pod, runner.maxConcurrent bounds the Jobs outstanding
\* (kubejob.run, _acquire, _run_in_job).
NothingLeftBehind ==
  /\ \A a \in Attempts :
       /\ cl[a].stage \in {"release", "done"} =>
            /\ kb[a].job # "present"
            /\ kb[a].secret => kb[a].job = "leaked"
       /\ kb[a].job = "orphan" => /\ ~kb[a].secret /\ kb[a].phase \in {"pending", "ended"}
                                  /\ sv[a].proc = "none"
  /\ up = "up" => Cardinality({a \in Attempts : kb[a].job = "present"}) <= MaxConcurrent

\* The pod of a running process is the one its task needs: its packages are
\* there, exactly the sidecars that serve it are, the runner waited for those
\* and no others, and their token file is in place (_job, main, _run_in).
PodFits ==
  \A a \in Attempts : sv[a].proc = "running" =>
    LET pod == kb[a].pod
        m   == Main(pod)
        held == Names(pod.init) \cap Sidecars
    IN  /\ inv[a].requirements <=> PIP \in Names(pod.init)
        /\ PIP \in Names(pod.init) => pod.init[1].name = PIP /\ m.site_dir /\ pod.site /\ pod.packages
        /\ held # {} => inv[a].access /\ ~inv[a].spark
        /\ pod.healthz = held /\ (m.before_start <=> held # {})
        /\ DATABASE \in m.task_env <=> POSTGRES \in held
        /\ AWS \in m.task_env <=> S3 \in held
        /\ inv[a].access => sv[a].token /\ (held # {} => sv[a].shared)

\* The process of a task that could be saved has what its configuration lists:
\* every secret in the variable it names, every module under its name, and
\* nothing the runner sets or Python needs hidden by one of them
\* (validate_task_config, engine.compute, _env, _harness.main).
GivenAsListed ==
  \A a \in Attempts : sv[a].proc = "running" =>
    LET c   == inv[a].of
        m   == Main(kb[a].pod)
        env == _env(inv[a], m)
    IN  /\ \A i \in DOMAIN c.secrets : env[c.secrets[i].env] = c.secrets[i].name
        /\ \A i \in DOMAIN c.modules : Imports(inv[a], c.modules[i].name) = c.modules[i].entry
        /\ \A n \in Shadowing \ {"task"} : Imports(inv[a], n) = "image"
        /\ \A n \in m.task_env \cup {"HOME"} : env[n] = "runner"
        /\ c.spark => c.access /\ inv[a].requirements = FALSE

\* Hanging up is enough: once the connection is closed, whether by a cancel,
\* by the client's failure or by the API pod's death, the process is stopped
\* for good, without anything from the task itself (runner_service.stream);
\* and a cancel that finds the response there does hang up and end the attempt.
HangUpStops ==
  \A a \in Attempts :
    /\ (link[a] = "closed") ~> [](sv[a].proc # "running")
    /\ (cl[a].cancel /\ cl[a].watch = "on" /\ cl[a].box)
         ~> (cl[a].stage \in {"done", "gone"} /\ sv[a].proc # "running")

\* A pod whose API pod died ends by itself, also when no task ever arrived
\* (runner_service.main: task_done, the idle timer).
OrphansEnd ==
  \A a \in Attempts : (up = "down" /\ kb[a].phase = "ready") ~> (kb[a].phase = "ended")

\* "cancels by hanging up ... so cancellation needs no separate call that
\* could be lost" (remote.py:11): the watcher of a stream that is still being
\* read gives up only once it has hung up.
CancelNotLost ==
  \A a \in Attempts :
    (cl[a].stage = "reading" /\ cl[a].cancel /\ cl[a].watch = "off") => link[a] = "closed"
=============================================================================
