------------------------------ MODULE Catalogue ------------------------------
(***************************************************************************)
(* PipelineService (service.py) on pipelines, tasks, their versions and    *)
(* drafts: requests of several clients, each a sequence of store           *)
(* transactions that other requests come between, and the workers of runs  *)
(* under a pipeline that is deleted.                                       *)
(*                                                                         *)
(*   db       the store (CatalogueStore)                                   *)
(*   req      each request: what it does, its next step, and what it read  *)
(*   object   the present content of the storage object tasks may refer to *)
(*   work     the worker of each run: its stage, its replica, whether its  *)
(*            Cancellation was set                                         *)
(*   ops      requests left                                                *)
(*   fresh    ids not yet given to a pipeline or task                      *)
(*   raced    (history) tasks deleted under a save that had checked them   *)
(*   uneven   (history) pipelines and tasks of which a save died between   *)
(*            version and draft, or two saves crossed                      *)
(*   away     (history) runs that a deletion of their pipeline could not   *)
(*            reach: registered elsewhere, not yet, or created too late    *)
(*   behind   (history) active runs past the page a deletion looked at     *)
(***************************************************************************)
EXTENDS CatalogueStore, ConfigRules

CONSTANTS Specs,              \* what clients try to save as a pipeline
          Shapes,             \* specs the graph's rules are checked on
          Pipelines, Tasks, Runs, Replicas, Requests,
          Me, Service,        \* owners: a person, a service account
          MaxListed,          \* runs that a deletion looks at (1000)
          MaxVersions, MaxOps \* bounds: versions of each, requests

VARIABLES db, req, object, work, ops, fresh, raced, uneven, away, behind
vars == <<db, req, object, work, ops, fresh, raced, uneven, away, behind>>

\* Where code comes from: a client may send a source with a catalog or storage
\* key, which is not to be believed; and what each has for params.
CodeKeys == {"inline", "catalog", "storage"}
Params(key) == IF key = "inline" THEN {"x"} ELSE {"y"}

\* The storage object's content, and what replaces it: too large to save.
Contents == {"small", "huge"}
Sources  == Contents \cup {"sent", "catalog"}
Codes    == {[key |-> k, source |-> s, params |-> Params(k)] : k \in CodeKeys, s \in Sources}

\* A node as a client may send it (TaskRef).
Nodes == [key : STRING, task : Tasks, version : Nat \cup {None}, deps : Seq(STRING), over : SUBSET STRING]

\* Ids are UUIDs; None is neither a spec nor a config.
ASSUME IdsAssumption    == Pipelines \cap Tasks = {} /\ None \notin Specs /\ None \notin Codes
ASSUME SpecsAssumption  == Specs \cup Shapes \subseteq Seq(Nodes)
ASSUME BoundsAssumption == MaxOps \in Nat /\ {Limits.source, MaxListed} \subseteq Nat \ {0}

Idle  == [op |-> "none", at |-> "idle", id |-> None, arg |-> None, code |-> None,
          level |-> 0, row |-> None, home |-> None]
Ops   == {"none", "version", "draft", "new task", "task version", "task draft", "schedule", "delete", "run"}
Steps == {"idle", "create", "add", "draft", "resolve", "write", "cancel", "delete"}

TypeOK ==
  /\ DOMAIN db.pipelines \subseteq Pipelines /\ db.tasks \subseteq Tasks
  /\ DOMAIN db.versions = DOMAIN db.pipelines /\ DOMAIN db.task_versions = db.tasks
  /\ \A p \in DOMAIN db.versions : \A v \in DOMAIN db.versions[p] : db.versions[p][v] \in Specs
  /\ \A q \in Requests : req[q].op \in Ops /\ req[q].at \in Steps
  /\ object \in Contents /\ ops \in 0..MaxOps
  /\ \A x \in Runs : work[x].at \in {"none", "queued", "starting", "executing", "over"}

\* The store as it was left by earlier requests: empty, with a saved task, or
\* with a saved pipeline that uses it.
Saved == [key |-> "inline", source |-> "sent", params |-> Params("inline")]
WithTask(d, t) == save_task_draft(add_task_version(create_task(d, t), t, Saved), t, Saved, 1)
WithPipeline(d, p, spec) == save_pipeline_draft(add_version(create_pipeline(d, p), p, spec), p, spec, 1)

\* PipelineService._prepare: the graph and the job it compiles to, and every
\* reference as it resolves now.
Compiling == {spec \in Specs : validate_structure(spec) /\ compile_job(spec).ops # <<>>}
Prepared(d, spec) == spec \in Compiling /\ resolve_task_configs(d, spec)

Init ==
  /\ db \in {Store} \cup {WithTask(Store, t) : t \in Tasks}
          \cup {d \in {WithPipeline(WithTask(Store, t), p, spec) : t \in Tasks, p \in Pipelines, spec \in Specs} :
                  \A p \in DOMAIN d.versions : Prepared(d, d.versions[p][1])}
  /\ fresh = (Pipelines \ DOMAIN db.pipelines) \cup (Tasks \ db.tasks)
  /\ req = [q \in Requests |-> Idle]
  /\ object = "small"
  /\ work = [x \in Runs |-> [at |-> "none", home |-> None, told |-> FALSE]]
  /\ ops = MaxOps /\ raced = {} /\ uneven = {} /\ away = {} /\ behind = {}

history == <<raced, uneven, away, behind>>

-----------------------------------------------------------------------------
(* Requests begin, and may fail anywhere: refused, an error, a dead replica. *)

Begin(q, r) ==
  /\ req[q].at = "idle" /\ ops > 0
  /\ ops' = ops - 1
  /\ req' = [req EXCEPT ![q] = r]

Then(q, step) == req' = [req EXCEPT ![q].at = step]
End(q)        == req' = [req EXCEPT ![q] = Idle]

\* A request that has added a version but not yet its draft.
Between(q, id) == req[q].at = "draft" /\ req[q].id = id /\ req[q].op \in {"version", "task version"}

Abandon(q) ==
  /\ req[q].at # "idle"
  /\ End(q)
  /\ uneven' = IF Between(q, req[q].id) THEN uneven \cup {req[q].id} ELSE uneven
  /\ UNCHANGED <<db, object, work, ops, fresh, raced, away, behind>>

-----------------------------------------------------------------------------
(* Saving a pipeline.                                                       *)

\* save_version, save_pipeline_draft.
Prepare(q, op, p, spec) ==
  /\ p \in DOMAIN db.pipelines
  /\ Prepared(db, spec)
  /\ Begin(q, [Idle EXCEPT !.op = op, !.at = IF op = "version" THEN "add" ELSE "draft", !.id = p, !.arg = spec])
  /\ UNCHANGED <<db, object, work, fresh, history>>

\* create_pipeline: validated before anything is created.
PrepareNew(q, p, spec) ==
  /\ p \in fresh /\ fresh' = fresh \ {p}
  /\ spec # None => Prepared(db, spec)
  /\ Begin(q, [Idle EXCEPT !.op = "version", !.at = "create", !.id = p, !.arg = spec])
  /\ UNCHANGED <<db, object, work, history>>

CreatePipeline(q) ==
  /\ req[q].at = "create" /\ req[q].id \in Pipelines
  /\ db' = create_pipeline(db, req[q].id)
  /\ IF req[q].arg = None THEN End(q) ELSE Then(q, "add")
  /\ UNCHANGED <<object, work, ops, fresh, history>>

\* A second save that adds its version before the first has saved its draft.
Crossing(q, id) == IF \E o \in Requests \ {q} : Between(o, id) THEN {id} ELSE {}

\* The pipeline row is locked; None if it is gone.
AddVersion(q) ==
  LET p == req[q].id IN
  /\ req[q].at = "add" /\ p \in Pipelines
  /\ db' = add_version(db, p, req[q].arg)
  /\ IF p \in DOMAIN db.pipelines
     THEN /\ Len(db.versions[p]) < MaxVersions
          /\ req' = [req EXCEPT ![q].at = "draft", ![q].level = Len(db'.versions[p])]
     ELSE End(q)
  /\ uneven' = uneven \cup Crossing(q, p)
  /\ UNCHANGED <<object, work, ops, fresh, raced, away, behind>>

\* Fault: "save as new version" leaves the draft alone.
Fault_SaveDraft(q) ==
  LET p == req[q].id IN
  /\ req[q].at = "draft" /\ p \in Pipelines
  /\ db' = IF req[q].op = "version" THEN db
           ELSE save_pipeline_draft(db, p, req[q].arg, IF p \in DOMAIN db.versions THEN Len(db.versions[p]) ELSE 0)
  /\ End(q)
  /\ UNCHANGED <<object, work, ops, fresh, history>>

\* save_version refreshes the draft with its version, a plain save replaces it.
SaveDraft(q) ==
  LET p == req[q].id IN
  /\ req[q].at = "draft" /\ p \in Pipelines
  /\ db' = save_pipeline_draft(db, p, req[q].arg,
             IF req[q].op = "version" THEN req[q].level
             ELSE IF p \in DOMAIN db.versions THEN Len(db.versions[p]) ELSE 0)
  /\ End(q)
  /\ UNCHANGED <<object, work, ops, fresh, history>>

-----------------------------------------------------------------------------
(* Saving a task.                                                           *)

\* The draft, else the latest version: what may be reused without a fetch.
_latest_task_config(t) ==
  IF t \in DOMAIN db.task_drafts THEN db.task_drafts[t].code
  ELSE IF t \in db.tasks /\ db.task_versions[t] # <<>> THEN db.task_versions[t][Len(db.task_versions[t])]
  ELSE None

PrepareTask(q, op, t, key) ==
  /\ t \in db.tasks
  /\ Begin(q, [Idle EXCEPT !.op = op, !.at = "resolve", !.id = t, !.arg = key, !.code = _latest_task_config(t)])
  /\ UNCHANGED <<db, object, work, fresh, history>>

PrepareNewTask(q, t, key) ==
  /\ t \in fresh /\ fresh' = fresh \ {t}
  /\ Begin(q, [Idle EXCEPT !.op = "new task", !.at = "resolve", !.id = t, !.arg = key])
  /\ UNCHANGED <<db, object, work, history>>

\* The object's owner replaces it (external).
Replace ==
  /\ object = "small" /\ object' = "huge"
  /\ UNCHANGED <<db, req, work, ops, fresh, history>>

\* _fetch_catalog, _fetch_storage.
Fetched(key) == [key |-> key, source |-> IF key = "catalog" THEN "catalog" ELSE object, params |-> Params(key)]

\* Fault: a source sent with the reference is taken for a snapshot.
Fault_resolve_task_code(key, previous) == [key |-> key, source |-> "sent", params |-> Params(key)]

\* Inline code is what was sent; a reference this task already holds keeps its
\* snapshot; any other is fetched.
_resolve_task_code(key, previous) ==
  IF key = "inline" THEN [key |-> key, source |-> "sent", params |-> Params(key)]
  ELSE IF previous # None /\ previous.key = key THEN previous
  ELSE Fetched(key)

\* A plain Python task with this source; what a client sends is short.
Configuration(source) ==
  [runner |-> BASE_RUNNER, language |-> "python", size |-> IF source = "huge" THEN Limits.source + 1 ELSE 1,
   spark |-> FALSE, access |-> FALSE, requirements |-> <<>>, secrets |-> <<>>, modules |-> <<>>, image |-> ""]

\* _prepare_task_config: validated as sent, then with the source it resolves
\* to, which is what is stored.
Resolve(q) ==
  LET code == _resolve_task_code(req[q].arg, req[q].code) IN
  /\ req[q].at = "resolve"
  /\ validate_task_config(Configuration("sent"), {BASE_RUNNER}, {})
  /\ IF validate_task_config(Configuration(code.source), {BASE_RUNNER}, {})
     THEN req' = [req EXCEPT ![q].code = code, ![q].arg = None,
                             ![q].at = CASE req[q].op = "new task"     -> "create"
                                         [] req[q].op = "task version" -> "add"
                                         [] req[q].op = "task draft"   -> "draft"]
     ELSE End(q)
  /\ UNCHANGED <<db, object, work, ops, fresh, history>>

CreateTask(q) ==
  /\ req[q].at = "create" /\ req[q].id \in Tasks
  /\ db' = create_task(db, req[q].id)
  /\ req' = [req EXCEPT ![q].op = "task version", ![q].at = "add"]
  /\ UNCHANGED <<object, work, ops, fresh, history>>

AddTaskVersion(q) ==
  LET t == req[q].id IN
  /\ req[q].at = "add" /\ t \in Tasks
  /\ db' = add_task_version(db, t, req[q].code)
  /\ IF t \in db.tasks
     THEN /\ Len(db.task_versions[t]) < MaxVersions
          /\ req' = [req EXCEPT ![q].at = "draft", ![q].level = Len(db'.task_versions[t])]
     ELSE End(q)
  /\ uneven' = uneven \cup Crossing(q, t)
  /\ UNCHANGED <<object, work, ops, fresh, raced, away, behind>>

SaveTaskDraft(q) ==
  LET t == req[q].id IN
  /\ req[q].at = "draft" /\ t \in Tasks
  /\ db' = save_task_draft(db, t, req[q].code,
             IF req[q].op = "task version" THEN req[q].level
             ELSE IF t \in db.tasks THEN Len(db.task_versions[t]) ELSE 0)
  /\ End(q)
  /\ UNCHANGED <<object, work, ops, fresh, history>>

\* Saves that have checked a reference to t and not yet stored it.
Unstored(t) == \E q \in Requests : /\ req[q].at \in {"create", "add"} /\ req[q].id \in Pipelines
                                   /\ req[q].arg # None /\ \E ref \in Range(req[q].arg) : ref.task = t

DeleteTask(q, t) ==
  /\ t \in db.tasks
  /\ Begin(q, Idle)
  /\ db' = delete_task(db, t)
  /\ raced' = IF Unstored(t) /\ db' # db THEN raced \cup {t} ELSE raced
  /\ UNCHANGED <<object, work, fresh, uneven, away, behind>>

-----------------------------------------------------------------------------
(* Schedule and owner: the row is read, changed and written back whole.      *)

\* update_schedule: a pinned version must exist; the first to save is owner.
ReadSchedule(q, p, pin) ==
  /\ p \in DOMAIN db.pipelines
  /\ pin # None => get_version(db, p, pin) # None
  /\ LET row == db.pipelines[p] IN
       Begin(q, [Idle EXCEPT !.op = "schedule", !.at = "write", !.id = p,
                   !.row = [owner |-> IF row.owner = None THEN Me ELSE row.owner, pinned |-> pin]])
  /\ UNCHANGED <<db, object, work, fresh, history>>

\* set_owner, by a workspace owner (who may do both) or a member (who may take
\* over what no service account has).
SetOwner(q, p, admin, to) ==
  /\ p \in DOMAIN db.pipelines
  /\ admin \/ (to = Me /\ db.pipelines[p].owner # Service)
  /\ Begin(q, [Idle EXCEPT !.op = "schedule", !.at = "write", !.id = p,
                 !.row = [db.pipelines[p] EXCEPT !.owner = to]])
  /\ UNCHANGED <<db, object, work, fresh, history>>

UpdateSchedule(q) ==
  /\ req[q].at = "write" /\ req[q].op = "schedule"
  /\ db' = update_schedule(db, req[q].id, req[q].row)
  /\ End(q)
  /\ UNCHANGED <<object, work, ops, fresh, history>>

-----------------------------------------------------------------------------
(* Runs, and the deletion of a pipeline under them.                         *)

\* start_run reads the version to run; create_run inserts the run, which needs
\* its pipeline and, here, that no other run is active; then it is submitted.
StartRun(q, p, home) ==
  /\ p \in DOMAIN db.pipelines
  /\ get_version(db, p, db.pipelines[p].pinned) # None
  /\ Begin(q, [Idle EXCEPT !.op = "run", !.at = "write", !.id = p, !.home = home,
                 !.level = get_version(db, p, db.pipelines[p].pinned)])
  /\ UNCHANGED <<db, object, work, fresh, history>>

\* Fault: the run is inserted whether or not its pipeline is still there.
Fault_MayRun(p) == \A x \in RunsOf(db, p) : db.runs[x].status \notin Active

MayRun(p) == p \in DOMAIN db.pipelines /\ \A x \in RunsOf(db, p) : db.runs[x].status \notin Active

\* A deletion has cancelled p's runs and not yet deleted it.
Cancelled(p) == \E q \in Requests : req[q].at = "delete" /\ req[q].id = p

CreateRun(q, x) ==
  /\ req[q].at = "write" /\ req[q].op = "run" /\ work[x].at = "none"
  /\ MayRun(req[q].id)
  /\ db' = create_run(db, x, req[q].id, req[q].level, "queued")
  /\ work' = [work EXCEPT ![x].at = "queued", ![x].home = req[q].home]
  /\ End(q)
  /\ away' = IF Cancelled(req[q].id) THEN away \cup {x} ELSE away
  /\ UNCHANGED <<object, ops, fresh, raced, uneven, behind>>

\* The scheduler's fire that found a run active is kept as a skipped run, in a
\* transaction of its own: that run may be over by now.
_record_dropped_fire(p, x) ==
  /\ p \in DOMAIN db.pipelines /\ RunsOf(db, p) # {} /\ work[x].at = "none"
  /\ get_version(db, p, db.pipelines[p].pinned) # None
  /\ db' = create_run(db, x, p, get_version(db, p, db.pipelines[p].pinned), "skipped")
  /\ work' = [work EXCEPT ![x].at = "over"]
  /\ UNCHANGED <<req, object, ops, fresh, history>>

\* _execute_inner: the run must still be there, uncancelled, and its pipeline's
\* references must resolve.
WorkerStarts(x) ==
  /\ work[x].at = "queued"
  /\ LET go == /\ x \in DOMAIN db.runs /\ ~db.runs[x].cancel /\ db.runs[x].status = "queued"
               /\ resolve_task_configs(db, db.versions[db.runs[x].pipeline][db.runs[x].version])
     IN  /\ db' = IF go THEN mark_running(db, x) ELSE finish_run(db, x)
         /\ work' = [work EXCEPT ![x].at = IF go THEN "starting" ELSE "over"]
  /\ UNCHANGED <<req, object, ops, fresh, history>>

\* Its Cancellation is registered.
WorkerRegisters(x) ==
  /\ work[x].at = "starting"
  /\ work' = [work EXCEPT ![x].at = "executing"]
  /\ UNCHANGED <<db, req, object, ops, fresh, history>>

\* The watcher polls the run's row.
Watch(x) ==
  /\ work[x].at = "executing" /\ ~work[x].told
  /\ x \in DOMAIN db.runs /\ db.runs[x].cancel
  /\ work' = [work EXCEPT ![x].told = TRUE]
  /\ UNCHANGED <<db, req, object, ops, fresh, history>>

WorkerEnds(x) ==
  /\ work[x].at = "executing"
  /\ work' = [work EXCEPT ![x].at = "over"]
  /\ db' = finish_run(db, x)
  /\ UNCHANGED <<req, object, ops, fresh, history>>

DeleteBegin(q, p, home) ==
  /\ p \in DOMAIN db.pipelines
  /\ Begin(q, [Idle EXCEPT !.op = "delete", !.at = "cancel", !.id = p, !.home = home])
  /\ UNCHANGED <<db, object, work, fresh, history>>

\* The active ones among the pipeline's newest runs: an older one is not seen.
ActiveRuns(p) == {x \in list_runs(db, p, MaxListed) : db.runs[x].status \in Active}

\* manager.cancel: runs registered in this process.
Registered(home) == {x \in Runs : work[x].at = "executing" /\ work[x].home = home}

_cancel_active_runs(q) ==
  LET p    == req[q].id
      here == Registered(req[q].home) IN
  /\ req[q].at = "cancel"
  /\ db' = request_cancel(db, ActiveRuns(p))
  /\ work' = [x \in Runs |-> IF x \in ActiveRuns(p) \cap here THEN [work[x] EXCEPT !.told = TRUE] ELSE work[x]]
  /\ Then(q, "delete")
  /\ away' = away \cup (RunsOf(db, p) \ here)
  /\ behind' = behind \cup {x \in RunsOf(db, p) \ list_runs(db, p, MaxListed) : db.runs[x].status \in Active}
  /\ UNCHANGED <<object, ops, fresh, raced, uneven>>

DeletePipeline(q) ==
  /\ req[q].at = "delete"
  /\ db' = delete_pipeline(db, req[q].id)
  /\ End(q)
  /\ UNCHANGED <<object, work, ops, fresh, history>>

-----------------------------------------------------------------------------
Next ==
  \/ Replace
  \/ \E q \in Requests :
       \/ Abandon(q)
       \/ \E p \in Pipelines :
            \/ \E spec \in Specs : \E op \in {"version", "draft"} : Prepare(q, op, p, spec)
            \/ \E spec \in Specs \cup {None} : PrepareNew(q, p, spec)
            \/ \E pin \in {None} \cup 1..MaxVersions : ReadSchedule(q, p, pin)
            \/ \E admin \in BOOLEAN : \E to \in {Me, Service} : SetOwner(q, p, admin, to)
            \/ \E home \in Replicas : StartRun(q, p, home) \/ DeleteBegin(q, p, home)
       \/ CreatePipeline(q) \/ AddVersion(q) \/ SaveDraft(q) \/ UpdateSchedule(q)
       \/ \E t \in Tasks :
            \/ \E key \in CodeKeys : \/ PrepareNewTask(q, t, key)
                                 \/ \E op \in {"task version", "task draft"} : PrepareTask(q, op, t, key)
            \/ DeleteTask(q, t)
       \/ Resolve(q) \/ CreateTask(q) \/ AddTaskVersion(q) \/ SaveTaskDraft(q)
       \/ \E x \in Runs : CreateRun(q, x)
       \/ _cancel_active_runs(q) \/ DeletePipeline(q)
  \/ \E x \in Runs : \E p \in Pipelines : _record_dropped_fire(p, x)
  \/ \E x \in Runs : WorkerStarts(x) \/ WorkerRegisters(x) \/ Watch(x) \/ WorkerEnds(x)

Spec == Init /\ [][Next]_vars

-----------------------------------------------------------------------------
(* Properties.                                                              *)

\* A reference in a saved version stays resolvable for ever, whatever is saved
\* or deleted at the same time: delete_task refuses a task that any version
\* names.  Only a save that checked its references before the deletion and
\* stored its version after it leaves a dangling one.
RefsHold ==
  TypeOK /\
  \A p \in DOMAIN db.versions : \A v \in DOMAIN db.versions[p] : \A ref \in Range(db.versions[p][v]) :
    resolve_task_ref(db, ref) # None \/ ref.task \in raced

Level(versions, drafts, id) ==
  versions[id] # <<>> => id \in DOMAIN drafts /\ drafts[id].level = Len(versions[id])
Excused(id) == id \in uneven \/ \E q \in Requests : Between(q, id)

\* The draft is never behind the latest version (ADR 0073), except while a
\* save is between its two writes, after one died there, and after two crossed.
DraftFresh ==
  /\ \A p \in DOMAIN db.versions : Excused(p) \/ Level(db.versions, db.drafts, p)
  /\ \A t \in db.tasks : Excused(t) \/ Level(db.task_versions, db.task_drafts, t)

\* The graph's rules on every small spec: one may be saved iff its nodes can be
\* ranked after their dependencies, and the order of its ops is such a ranking.
OrderDecides ==
  \A spec \in Shapes :
    /\ validate_structure(spec) <=> WellFormed(spec) /\ Acyclic(spec)
    /\ WellFormed(spec) /\ Acyclic(spec) =>
         /\ IsOrder(spec, compile_job(spec).ops)
         /\ \A i \in DOMAIN spec : compile_job(spec).ins[spec[i].key] = Range(spec[i].deps)

Sound == {spec \in Specs : WellFormed(spec) /\ Acyclic(spec) /\ IsOrder(spec, compile_job(spec).ops)}

\* "A structural problem must surface when the user saves, not at 3am"
\* (service.py, _prepare): every stored spec, version or draft, has an order in
\* which it can run, and a node pinned to a version keeps fitting its task's
\* params, whatever is saved later (a "latest" one may stop fitting).
SavedRuns ==
  /\ OrderDecides
  /\ \A spec \in (UNION {Range(db.versions[p]) : p \in DOMAIN db.versions}) \cup {db.drafts[p].spec : p \in DOMAIN db.drafts} :
       /\ spec \in Sound
       /\ \A node \in Range(spec) :
            node.version # None => ResolvedNode(db, node) # None \/ node.task \notin db.tasks

\* Code stored as a catalog entry's or a storage object's was fetched from
\* there, by this save or by one before it that it reuses, and passes the
\* checks with the source it then had.
GenuineCode ==
  LET Genuine(c) == /\ c.key = "catalog" => c.source = "catalog"
                    /\ c.key = "storage" => c.source \in Contents
                    /\ validate_task_config(Configuration(c.source), {BASE_RUNNER}, {})
  IN  \A t \in db.tasks : /\ \A v \in DOMAIN db.task_versions[t] : Genuine(db.task_versions[t][v])
                          /\ t \in DOMAIN db.task_drafts => Genuine(db.task_drafts[t].code)

\* Deleting a pipeline leaves no row of it behind and lets none come back, and
\* a worker that goes on without its row was told to stop, unless the process
\* that deleted could not reach it, or the run was past the MaxListed newest of
\* its pipeline, of any status, which are all that a deletion looks at.
DeletedIsGone ==
  /\ DOMAIN db.drafts \subseteq DOMAIN db.pipelines
  /\ \A x \in DOMAIN db.runs : db.runs[x].pipeline \in DOMAIN db.pipelines
  /\ \A x \in Runs : work[x].at = "executing" /\ x \notin DOMAIN db.runs
                       => work[x].told \/ x \in away \/ x \in behind

\* "A saved pipeline version's references always resolve" (export.py).
RefsAlwaysResolve ==
  \A p \in DOMAIN db.versions : \A v \in DOMAIN db.versions[p] :
    resolve_task_configs(db, db.versions[p][v])
=============================================================================
