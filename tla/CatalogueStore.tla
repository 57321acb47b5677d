--------------------------- MODULE CatalogueStore ---------------------------
(***************************************************************************)
(* The store's pipelines and tasks as one value, and each operation on     *)
(* them as what it leaves behind (store/memory.py, where every operation   *)
(* holds one lock; postgres.py does the same in one transaction).          *)
(*                                                                         *)
(* A pipeline's spec is the sequence of its nodes (SpecRules); a task's    *)
(* config is [key, source, params]: where its code comes from, the source  *)
(* snapshotted with it, and its params.                                    *)
(***************************************************************************)
EXTENDS SpecRules

Empty == [x \in {} |-> None]

Store == [pipelines |-> Empty,      \* id -> its owner and pinned version
          versions |-> Empty,       \* id -> saved specs, oldest first
          drafts |-> Empty,         \* id -> the draft and (history) the version it is level with
          tasks |-> {},
          task_versions |-> Empty, task_drafts |-> Empty,
          runs |-> Empty]           \* id -> pipeline, version, status, cancel_requested, created_at

Put(f, x, v)  == [y \in DOMAIN f \cup {x} |-> IF y = x THEN v ELSE f[y]]
Drop(f, S)    == Restrict(f, DOMAIN f \ S)
Has(f, x)     == x \in DOMAIN f

-----------------------------------------------------------------------------
RunsOf(db, p) == {x \in DOMAIN db.runs : db.runs[x].pipeline = p}

create_pipeline(db, p) ==
  [db EXCEPT !.pipelines = Put(@, p, [owner |-> None, pinned |-> None]),
             !.versions = Put(@, p, <<>>)]

\* Its versions, draft and runs go with it.
delete_pipeline(db, p) ==
  [db EXCEPT !.pipelines = Drop(@, {p}), !.versions = Drop(@, {p}),
             !.drafts = Drop(@, {p}), !.runs = Drop(@, RunsOf(db, p))]

\* The whole row as the caller read and changed it.
update_schedule(db, p, row) ==
  IF Has(db.pipelines, p) THEN [db EXCEPT !.pipelines[p] = row] ELSE db

add_version(db, p, spec) ==
  IF Has(db.pipelines, p) THEN [db EXCEPT !.versions[p] = Append(@, spec)] ELSE db

\* A given version, or the latest.
get_version(db, p, v) ==
  IF ~Has(db.pipelines, p) \/ db.versions[p] = <<>> THEN None
  ELSE IF v = None THEN Len(db.versions[p])
  ELSE IF v \in 1..Len(db.versions[p]) THEN v ELSE None

save_pipeline_draft(db, p, spec, level) ==
  IF Has(db.pipelines, p)
  THEN [db EXCEPT !.drafts = Put(@, p, [spec |-> spec, level |-> level])] ELSE db

-----------------------------------------------------------------------------
create_task(db, t) ==
  [db EXCEPT !.tasks = @ \cup {t}, !.task_versions = Put(@, t, <<>>)]

\* Fault: only references to a given version count.
Fault_Referenced(db, t) ==
  \E p \in DOMAIN db.versions : \E v \in DOMAIN db.versions[p] :
    \E ref \in Range(db.versions[p][v]) : ref.task = t /\ ref.version # None

\* Any version of any pipeline; drafts do not count.
Referenced(db, t) ==
  \E p \in DOMAIN db.versions : \E v \in DOMAIN db.versions[p] :
    \E ref \in Range(db.versions[p][v]) : ref.task = t

delete_task(db, t) ==
  IF t \notin db.tasks \/ Referenced(db, t) THEN db
  ELSE [db EXCEPT !.tasks = @ \ {t}, !.task_versions = Drop(@, {t}), !.task_drafts = Drop(@, {t})]

add_task_version(db, t, code) ==
  IF t \in db.tasks THEN [db EXCEPT !.task_versions[t] = Append(@, code)] ELSE db

save_task_draft(db, t, code, level) ==
  IF t \in db.tasks
  THEN [db EXCEPT !.task_drafts = Put(@, t, [code |-> code, level |-> level])] ELSE db

-----------------------------------------------------------------------------
Active == {"queued", "running"}

\* created: how many runs its pipeline had before (they go only with it).
create_run(db, x, p, v, status) ==
  [db EXCEPT !.runs = Put(@, x, [pipeline |-> p, version |-> v, status |-> status, cancel |-> FALSE,
                                 created |-> Cardinality(RunsOf(db, p))])]

\* The first page of a pipeline's runs of any status, newest first.
list_runs(db, p, limit) ==
  {x \in RunsOf(db, p) : Cardinality({y \in RunsOf(db, p) : db.runs[y].created > db.runs[x].created}) < limit}

mark_running(db, x) ==
  IF Has(db.runs, x) /\ db.runs[x].status = "queued" THEN [db EXCEPT !.runs[x].status = "running"] ELSE db

finish_run(db, x) ==
  IF Has(db.runs, x) /\ db.runs[x].status \in Active THEN [db EXCEPT !.runs[x].status = "over"] ELSE db

\* request_cancel for each of the runs.
request_cancel(db, X) ==
  [db EXCEPT !.runs = [x \in DOMAIN @ |->
     IF x \in X /\ @[x].status \in Active THEN [@[x] EXCEPT !.cancel = TRUE] ELSE @[x]]]

-----------------------------------------------------------------------------
\* What a reference means now: the pinned version, or the draft, or the latest
\* version; None where it cannot be resolved.
resolve_task_ref(db, ref) ==
  IF ref.task \notin db.tasks THEN None
  ELSE LET versions == db.task_versions[ref.task] IN
       IF ref.version # None
       THEN IF ref.version \in DOMAIN versions THEN versions[ref.version] ELSE None
       ELSE IF Has(db.task_drafts, ref.task) THEN db.task_drafts[ref.task].code
       ELSE IF versions = <<>> THEN None ELSE versions[Len(versions)]

\* What one node runs with, None if nothing.
ResolvedNode(db, node) ==
  LET config == resolve_task_ref(db, node) IN IF config = None THEN None ELSE node_config(config, node)

\* Fault: the overrides are merged unchecked.
Fault_resolve_task_configs(db, spec) == \A node \in Range(spec) : resolve_task_ref(db, node) # None

resolve_task_configs(db, spec) == \A node \in Range(spec) : ResolvedNode(db, node) # None
=============================================================================
