--------------------------- MODULE CatalogueProofs ---------------------------
(***************************************************************************)
(* Proofs about requests on pipelines and tasks (Catalogue), for any sets  *)
(* of pipelines, tasks, specs, runs, replicas and requests.                *)
(***************************************************************************)
EXTENDS Catalogue, SequenceTheorems, FiniteSetTheorems, TLAPS

\* Code a task may have: from where it says it is, and valid with its source.
Honest(c) ==
  /\ c \in Codes
  /\ c.key = "catalog" => c.source = "catalog"
  /\ c.key = "storage" => c.source \in Contents
  /\ validate_task_config(Configuration(c.source), {BASE_RUNNER}, {})

Columns == {"pipelines", "versions", "drafts", "tasks", "task_versions", "task_drafts", "runs"}

\* The store's tables fit together: what hangs on a pipeline or a task is
\* there only with it.
Tables(d) ==
  /\ DOMAIN d = Columns
  /\ DOMAIN d.pipelines \subseteq Pipelines /\ d.tasks \subseteq Tasks
  /\ DOMAIN d.versions = DOMAIN d.pipelines /\ DOMAIN d.drafts \subseteq DOMAIN d.pipelines
  /\ DOMAIN d.task_versions = d.tasks /\ DOMAIN d.task_drafts \subseteq d.tasks
  /\ \A p \in DOMAIN d.versions : d.versions[p] \in Seq(Specs)
  /\ \A t \in d.tasks : /\ d.task_versions[t] \in Seq(Codes)
                        /\ \A v \in DOMAIN d.task_versions[t] : Honest(d.task_versions[t][v])
  /\ \A t \in DOMAIN d.task_drafts : Honest(d.task_drafts[t].code)
  /\ \A x \in DOMAIN d.runs : "pipeline" \in DOMAIN d.runs[x] /\ d.runs[x].pipeline \in DOMAIN d.pipelines

Parts == {"op", "at", "id", "arg", "code", "level", "row", "home"}

\* What each step of a request has in hand.
Asked(r) ==
  /\ DOMAIN r = Parts /\ r.op \in Ops /\ r.at \in Steps
  /\ r.at = "create" => \/ r.id \in Pipelines /\ r.op = "version" /\ r.arg \in Specs \cup {None}
                        \/ r.id \in Tasks /\ r.op = "new task" /\ Honest(r.code)
  /\ r.at = "add" => \/ r.id \in Pipelines /\ r.op = "version" /\ r.arg \in Specs
                     \/ r.id \in Tasks /\ r.op = "task version" /\ Honest(r.code)
  /\ r.at = "draft" => \/ r.id \in Pipelines /\ r.op \in {"version", "draft"}
                       \/ r.id \in Tasks /\ r.op \in {"task version", "task draft"} /\ Honest(r.code)
  /\ r.at = "resolve" => /\ r.id \in Tasks /\ r.op \in {"new task", "task version", "task draft"}
                         /\ r.arg \in CodeKeys /\ (r.code = None \/ Honest(r.code))
  /\ r.op = "new task" => r.at \in {"resolve", "create"}
  /\ r.at = "idle" => r.op = "none"

\* A request that is to create what it is about.
Creating(r) == r.at = "create" \/ r.op = "new task"

\* An id is given once: nobody else works on what is not yet created.
Ids(d, rq, fr) ==
  /\ \A i \in fr : i \notin DOMAIN d.pipelines /\ i \notin d.tasks
  /\ \A q \in Requests : rq[q].at # "idle" => rq[q].id \notin fr
  /\ \A q \in Requests : Creating(rq[q]) => rq[q].id \notin DOMAIN d.pipelines /\ rq[q].id \notin d.tasks
  /\ \A q, o \in Requests : q # o /\ Creating(rq[q]) /\ rq[o].at # "idle" => rq[o].id # rq[q].id

Reqs(rq) == DOMAIN rq = Requests /\ \A q \in Requests : Asked(rq[q])

-----------------------------------------------------------------------------
\* A reference that means something.
Resolves(d, ref) ==
  /\ ref.task \in d.tasks
  /\ ref.version # None => ref.version \in DOMAIN d.task_versions[ref.task]
  /\ ref.version = None => ref.task \in DOMAIN d.task_drafts \/ d.task_versions[ref.task] # <<>>

Held(d, spec, lost) == \A ref \in Range(spec) : Resolves(d, ref) \/ ref.task \in lost

\* Specs a request has checked and not yet stored.
Checked(r) == r.at \in {"create", "add"} /\ r.id \in Pipelines /\ r.arg # None

\* The references of every stored spec, and of those about to be stored.
Refs(d, rq, ra) ==
  /\ \A p \in DOMAIN d.versions : \A v \in DOMAIN d.versions[p] : Held(d, d.versions[p][v], ra)
  /\ \A q \in Requests : Checked(rq[q]) => Held(d, rq[q].arg, ra)

-----------------------------------------------------------------------------
\* A save between its two writes.
Halfway(r) == r.at = "draft" /\ r.op \in {"version", "task version"}

\* What a pipeline's or task's versions and draft are to each other.  The save
\* between its writes knows the latest version and is the only one, else the
\* draft is level, unless saves crossed or one died.
Fits(vers, drafts, id, rq, un) ==
  /\ \A q \in Requests : Halfway(rq[q]) /\ rq[q].id = id /\ id \notin un =>
       /\ rq[q].level = Len(vers[id])
       /\ \A o \in Requests : Halfway(rq[o]) /\ rq[o].id = id => o = q
  /\ \/ id \in un
     \/ \E q \in Requests : Halfway(rq[q]) /\ rq[q].id = id
     \/ Level(vers, drafts, id)

Levels(d, rq, un) ==
  /\ \A p \in DOMAIN d.versions : Fits(d.versions, d.drafts, p, rq, un)
  /\ \A t \in d.tasks : Fits(d.task_versions, d.task_drafts, t, rq, un)

\* The store, the requests, the fresh ids and the two histories, together.
Good(d, rq, fr, ra, un) ==
  Tables(d) /\ Reqs(rq) /\ Ids(d, rq, fr) /\ Refs(d, rq, ra) /\ Levels(d, rq, un)

CInv == Good(db, req, fresh, raced, uneven)

-----------------------------------------------------------------------------
\* The stages of a worker that is not over; past the first its run is running.
Working == {"queued", "starting", "executing"}

\* A row goes only with its pipeline, whose deletion first told the worker of
\* every run of it that is not excused (ex).
Stopped(d, rq, w, ex) ==
  /\ \A x \in Runs : x \in DOMAIN d.runs /\ w[x].at \in Working =>
       "status" \in DOMAIN d.runs[x] /\ (w[x].at # "queued" => d.runs[x].status = "running")
  /\ \A q \in Requests : rq[q].at = "delete" =>
       \A x \in Runs : x \in RunsOf(d, rq[q].id) /\ w[x].at \in Working => w[x].told \/ x \in ex
  /\ \A x \in Runs : w[x].at \in Working /\ x \notin DOMAIN d.runs => w[x].told \/ x \in ex

Told == Stopped(db, req, work, away \cup behind)

Workers ==
  /\ object \in Contents /\ ops \in 0..MaxOps
  /\ DOMAIN work = Runs
  /\ \A x \in Runs : /\ DOMAIN work[x] = {"at", "home", "told"}
                     /\ work[x].at \in {"none", "queued", "starting", "executing", "over"}

-----------------------------------------------------------------------------
(* Versions and drafts.                                                     *)

\* A request that is not between its writes, in place of one that was not or
\* of one that died there.
LEMMA FitsTurn ==
  ASSUME NEW vers, NEW drafts, NEW id, NEW rq, NEW un, Fits(vers, drafts, id, rq, un), DOMAIN rq = Requests,
         NEW q \in Requests, NEW r, ~Halfway(r), NEW rq1, rq1 = [rq EXCEPT ![q] = r],
         NEW un1, un \subseteq un1, Halfway(rq[q]) /\ rq[q].id = id => id \in un1
  PROVE  Fits(vers, drafts, id, rq1, un1)
<1>1. rq1[q] = r /\ \A o \in Requests : o # q => rq1[o] = rq[o]
  OBVIOUS
<1>2. \A o \in Requests : Halfway(rq1[o]) => o # q /\ Halfway(rq[o]) /\ rq1[o] = rq[o]
  BY <1>1
<1>3. \A o \in Requests : Halfway(rq[o]) /\ rq[o].id = id /\ id \notin un1 => Halfway(rq1[o]) /\ rq1[o] = rq[o]
  BY <1>1
<1> QED BY <1>2, <1>3 DEF Fits

\* Neither its versions nor its draft changed, nor a save of it.
Untouched(vers, drafts, vers1, drafts1, id) ==
  /\ vers1[id] = vers[id]
  /\ id \in DOMAIN drafts => id \in DOMAIN drafts1 /\ drafts1[id] = drafts[id]

Saves(r, id) == Halfway(r) /\ r.id = id

\* What is neither written nor saved keeps fitting as request q becomes r.
LEMMA FitsStill ==
  ASSUME NEW vers, NEW drafts, NEW id, NEW rq, NEW un, Fits(vers, drafts, id, rq, un), DOMAIN rq = Requests,
         NEW q \in Requests, NEW r, NEW rq1, rq1 = [rq EXCEPT ![q] = r],
         ~Saves(rq[q], id), ~Saves(r, id), NEW un1, un \subseteq un1,
         NEW vers1, NEW drafts1, Untouched(vers, drafts, vers1, drafts1, id)
  PROVE  Fits(vers1, drafts1, id, rq1, un1)
<1>1. rq1[q] = r /\ \A o \in Requests : o # q => rq1[o] = rq[o]
  OBVIOUS
<1>2. \A o \in Requests : Halfway(rq1[o]) /\ rq1[o].id = id <=> Halfway(rq[o]) /\ rq[o].id = id
  BY <1>1 DEF Saves
<1>3. \A o \in Requests : Halfway(rq1[o]) /\ rq1[o].id = id => rq1[o] = rq[o]
  BY <1>1 DEF Saves
<1>4. Level(vers, drafts, id) => Level(vers1, drafts1, id)
  BY DEF Level, Untouched
<1> QED BY <1>2, <1>3, <1>4 DEF Fits, Untouched

\* If another save of id than q's is between its writes, the two have crossed.
Crossed(rq, q, id, un1) ==
  (\E o \in Requests \ {q} : Halfway(rq[o]) /\ rq[o].id = id) => id \in un1

\* A version was added: the save is between its writes, the only one or crossed.
LEMMA FitsAdded ==
  ASSUME NEW vers1, NEW drafts, NEW id, NEW rq, NEW un, DOMAIN rq = Requests,
         NEW q \in Requests, NEW r, NEW rq1, rq1 = [rq EXCEPT ![q] = r],
         Halfway(r), r.id = id, r.level = Len(vers1[id]),
         NEW un1, Crossed(rq, q, id, un1)
  PROVE  Fits(vers1, drafts, id, rq1, un1)
<1>1. rq1[q] = r /\ \A o \in Requests : o # q => rq1[o] = rq[o]
  OBVIOUS
<1>2. \A o \in Requests : Halfway(rq1[o]) /\ rq1[o].id = id /\ id \notin un1 => o = q
  BY <1>1 DEF Crossed
<1> QED BY <1>1, <1>2 DEF Fits

\* The level of the draft that request o saves: of its own version, if it added
\* one, else of the latest.
Levelled(o, id, vers, drafts1) ==
  /\ o.id = id /\ id \in DOMAIN drafts1
  /\ Halfway(o) => drafts1[id].level = o.level
  /\ ~Halfway(o) => drafts1[id].level = Len(vers[id])

\* A draft was saved, level with the latest version as far as its save knows.
LEMMA FitsSaved ==
  ASSUME NEW vers, NEW drafts, NEW id, NEW rq, NEW un, Fits(vers, drafts, id, rq, un), DOMAIN rq = Requests,
         NEW q \in Requests, NEW r, ~Halfway(r), NEW rq1, rq1 = [rq EXCEPT ![q] = r],
         NEW drafts1, Levelled(rq[q], id, vers, drafts1)
  PROVE  Fits(vers, drafts1, id, rq1, un)
<1>1. rq1[q] = r /\ \A o \in Requests : o # q => rq1[o] = rq[o]
  OBVIOUS
<1>2. \A o \in Requests : Halfway(rq1[o]) => o # q /\ Halfway(rq[o]) /\ rq1[o] = rq[o]
  BY <1>1
<1>3. id \notin un => Level(vers, drafts1, id)
  BY DEF Level, Fits, Levelled
<1> QED BY <1>2, <1>3 DEF Fits

-----------------------------------------------------------------------------
(* Ids and references through a step of request q, which becomes r.         *)

\* Nothing comes to the store but what request o created.
Came(d, e, o) ==
  \A i : i \in DOMAIN e.pipelines \/ i \in e.tasks =>
           i \in DOMAIN d.pipelines \/ i \in d.tasks \/ (Creating(o) /\ i = o.id)

\* The request o, as r, goes on with its id, takes up one that is in the store,
\* or a fresh one.
Named(d, e, o, r, fr, fr1) ==
  \/ r.at = "idle"
  \/ /\ o.at # "idle" /\ r.id = o.id
     /\ Creating(r) => Creating(o) /\ r.id \notin DOMAIN e.pipelines /\ r.id \notin e.tasks
  \/ (r.id \in DOMAIN d.pipelines \/ r.id \in d.tasks) /\ ~Creating(r) /\ o.at = "idle"
  \/ /\ r.id \in fr /\ r.id \notin fr1 /\ o.at = "idle"
     /\ DOMAIN e.pipelines = DOMAIN d.pipelines /\ e.tasks = d.tasks

\* Ids stay apart as request q becomes r and the store e.
LEMMA IdsKept ==
  ASSUME NEW d, NEW rq, NEW fr, Reqs(rq), Ids(d, rq, fr),
         NEW q \in Requests, NEW r, Asked(r), NEW rq1, rq1 = [rq EXCEPT ![q] = r], NEW e, NEW fr1, fr1 \subseteq fr,
         Came(d, e, rq[q]), Named(d, e, rq[q], r, fr, fr1)
  PROVE  Ids(e, rq1, fr1)
<1>1. /\ Reqs(rq1) /\ rq1[q] = r
      /\ \A o \in Requests : o # q => rq1[o] = rq[o]
  BY DEF Reqs
<1>2. \A o \in Requests : /\ Creating(rq[o]) => rq[o].at # "idle"
                          /\ Creating(rq1[o]) => rq1[o].at # "idle"
  BY <1>1 DEF Reqs, Asked, Creating
<1>3. \A i \in fr1 : i \notin DOMAIN e.pipelines /\ i \notin e.tasks
  BY <1>2 DEF Ids, Came
<1>4. \A o \in Requests : rq1[o].at # "idle" => rq1[o].id \notin fr1
  <2>1. rq1[q].at # "idle" => rq1[q].id \notin fr1
    BY <1>1 DEF Ids, Named
  <2> QED BY <1>1, <2>1 DEF Ids
<1>5. \A o \in Requests : Creating(rq1[o]) => rq1[o].id \notin DOMAIN e.pipelines /\ rq1[o].id \notin e.tasks
  <2>1. Creating(rq1[q]) => rq1[q].id \notin DOMAIN e.pipelines /\ rq1[q].id \notin e.tasks
    BY <1>1, <1>2 DEF Ids, Named
  <2>2. ASSUME NEW o \in Requests, o # q, Creating(rq[o])
        PROVE  rq[o].id \notin DOMAIN e.pipelines /\ rq[o].id \notin e.tasks
    BY <1>2, <2>2 DEF Ids, Came
  <2> QED BY <1>1, <2>1, <2>2
<1>6. ASSUME NEW a \in Requests, NEW b \in Requests, a # b, Creating(rq1[a]), rq1[b].at # "idle"
      PROVE  rq1[b].id # rq1[a].id
  <2>1. CASE a # q /\ b # q
    BY <1>1, <1>6, <2>1 DEF Ids
  <2>2. CASE a = q
    BY <1>1, <1>2, <1>6, <2>2 DEF Ids, Named
  <2>3. CASE b = q
    BY <1>1, <1>2, <1>6, <2>3 DEF Ids, Named
  <2> QED BY <2>1, <2>2, <2>3
<1> QED BY <1>3, <1>4, <1>5, <1>6 DEF Ids

\* Tasks, their versions and drafts are only added to.
Grows(d, e) ==
  /\ d.tasks \subseteq e.tasks /\ DOMAIN d.task_drafts \subseteq DOMAIN e.task_drafts
  /\ \A t \in d.tasks : /\ DOMAIN d.task_versions[t] \subseteq DOMAIN e.task_versions[t]
                        /\ d.task_versions[t] # <<>> => e.task_versions[t] # <<>>

\* Each stored spec is an old one or the one that request o had checked.
Stored(d, e, o) ==
  \A p \in DOMAIN e.versions : \A v \in DOMAIN e.versions[p] :
    \/ p \in DOMAIN d.versions /\ v \in DOMAIN d.versions[p] /\ e.versions[p][v] = d.versions[p][v]
    \/ Checked(o) /\ e.versions[p][v] = o.arg

\* Then what resolved does so still, and the stored specs hold.
LEMMA RefsKept ==
  ASSUME NEW d, NEW rq, NEW ra, Reqs(rq), Refs(d, rq, ra), NEW e, Grows(d, e),
         NEW q \in Requests, NEW r, Asked(r), NEW rq1, rq1 = [rq EXCEPT ![q] = r],
         Stored(d, e, rq[q]),
         Checked(r) => Held(d, r.arg, ra) \/ (Checked(rq[q]) /\ r.arg = rq[q].arg)
  PROVE  Refs(e, rq1, ra)
<1>1. /\ rq1[q] = r /\ \A o \in Requests : o # q => rq1[o] = rq[o]
  BY DEF Reqs
<1>2. \A ref : Resolves(d, ref) => Resolves(e, ref)
  BY DEF Resolves, Grows
<1>3. \A spec : Held(d, spec, ra) => Held(e, spec, ra)
  BY <1>2 DEF Held
<1>4. \A o \in Requests : Checked(rq1[o]) => Held(d, rq1[o].arg, ra)
  BY <1>1 DEF Refs
<1>5. ASSUME NEW p \in DOMAIN e.versions, NEW v \in DOMAIN e.versions[p]
      PROVE  Held(d, e.versions[p][v], ra)
  BY DEF Refs, Stored
<1> QED BY <1>3, <1>4, <1>5 DEF Refs

-----------------------------------------------------------------------------
(* What each write to the store leaves.                                     *)

\* Everything but owners, pinned versions and runs is as it was.
SameCatalogue(d, e) ==
  /\ DOMAIN e = Columns /\ DOMAIN e.pipelines = DOMAIN d.pipelines
  /\ e.versions = d.versions /\ e.drafts = d.drafts /\ e.tasks = d.tasks
  /\ e.task_versions = d.task_versions /\ e.task_drafts = d.task_drafts

\* Every run has its pipeline.
Rooted(d) == \A x \in DOMAIN d.runs : "pipeline" \in DOMAIN d.runs[x] /\ d.runs[x].pipeline \in DOMAIN d.pipelines

\* Owners, pinned versions and runs may change freely under rooted runs.
LEMMA GoodSame ==
  ASSUME NEW d, NEW rq, NEW fr, NEW ra, NEW un, Good(d, rq, fr, ra, un),
         NEW e, SameCatalogue(d, e), Rooted(e)
  PROVE  Good(e, rq, fr, ra, un)
<1>1. Tables(e)
  BY DEF Good, Tables, SameCatalogue, Rooted
<1>2. Ids(e, rq, fr) /\ Levels(e, rq, un)
  BY DEF Good, Ids, Levels, SameCatalogue
<1>3. \A ref : Resolves(d, ref) => Resolves(e, ref)
  BY DEF Resolves, SameCatalogue
<1>4. Refs(e, rq, ra)
  BY <1>3 DEF Good, Refs, Held, SameCatalogue
<1> QED BY <1>1, <1>2, <1>4 DEF Good

\* A save does not stop between its writes, or counts as one that died there.
Leaves(d, o, un1) ==
  Halfway(o) => o.id \in un1 \/ (o.id \notin DOMAIN d.versions /\ o.id \notin d.tasks)

\* The request o becomes r: it ends, goes on, or takes an id up.
Goes(d, o, r, fr, fr1) ==
  \/ r.at = "idle"
  \/ o.at # "idle" /\ r.id = o.id /\ (Creating(r) => Creating(o))
  \/ (r.id \in DOMAIN d.pipelines \/ r.id \in d.tasks) /\ ~Creating(r) /\ o.at = "idle"
  \/ r.id \in fr /\ r.id \notin fr1 /\ o.at = "idle"

\* The spec it is to store was checked, now or before.
Backed(d, o, r, ra) == Checked(r) => Held(d, r.arg, ra) \/ (Checked(o) /\ r.arg = o.arg)

\* A request goes on, begins or ends, and is not between the writes of a save.
LEMMA GoodTurn ==
  ASSUME NEW d, NEW rq, NEW fr, NEW ra, NEW un, Good(d, rq, fr, ra, un),
         NEW q \in Requests, NEW r, Asked(r), NEW rq1, rq1 = [rq EXCEPT ![q] = r],
         NEW fr1, fr1 \subseteq fr, NEW un1, un \subseteq un1, ~Halfway(r),
         Leaves(d, rq[q], un1), Goes(d, rq[q], r, fr, fr1), Backed(d, rq[q], r, ra)
  PROVE  Good(d, rq1, fr1, ra, un1)
<1>0. Tables(d) /\ Reqs(rq) /\ Ids(d, rq, fr) /\ Refs(d, rq, ra) /\ Levels(d, rq, un) /\ DOMAIN rq = Requests
  BY DEF Good, Reqs
<1>1. Reqs(rq1)
  BY <1>0 DEF Reqs
<1>2. Creating(rq[q]) => rq[q].id \notin DOMAIN d.pipelines /\ rq[q].id \notin d.tasks
  BY <1>0 DEF Ids
<1>3. Ids(d, rq1, fr1)
  <2>1. Came(d, d, rq[q]) /\ Named(d, d, rq[q], r, fr, fr1)
    BY <1>2 DEF Came, Named, Goes
  <2> QED BY <1>0, <2>1, IdsKept
<1>4. Grows(d, d) /\ Stored(d, d, rq[q])
  BY DEF Grows, Stored
<1>5. Refs(d, rq1, ra)
  BY <1>0, <1>4, RefsKept DEF Backed
<1>6. \A p \in DOMAIN d.versions : Fits(d.versions, d.drafts, p, rq1, un1)
  BY <1>0, FitsTurn DEF Levels, Leaves
<1>7. \A t \in d.tasks : Fits(d.task_versions, d.task_drafts, t, rq1, un1)
  BY <1>0, FitsTurn DEF Levels, Leaves
<1> QED BY <1>0, <1>1, <1>3, <1>5, <1>6, <1>7 DEF Good, Levels

\* create_pipeline.
LEMMA GoodPipeline ==
  ASSUME NEW d, NEW rq, NEW fr, NEW ra, NEW un, Good(d, rq, fr, ra, un),
         NEW q \in Requests, NEW r, Asked(r), NEW rq1, rq1 = [rq EXCEPT ![q] = r],
         NEW p, p = rq[q].id, p \in Pipelines, rq[q].at = "create",
         NEW e, e = create_pipeline(d, p),
         ~Halfway(r), ~Creating(r), r.at = "idle" \/ r.id = p,
         Checked(r) => Checked(rq[q]) /\ r.arg = rq[q].arg
  PROVE  Good(e, rq1, fr, ra, un)
<1>0. Tables(d) /\ Reqs(rq) /\ Ids(d, rq, fr) /\ Refs(d, rq, ra) /\ Levels(d, rq, un) /\ DOMAIN rq = Requests
  BY DEF Good, Reqs
<1>1. /\ DOMAIN e = Columns /\ e.versions = Put(d.versions, p, <<>>)
      /\ e.pipelines = Put(d.pipelines, p, [owner |-> None, pinned |-> None])
      /\ e.drafts = d.drafts /\ e.tasks = d.tasks /\ e.runs = d.runs
      /\ e.task_versions = d.task_versions /\ e.task_drafts = d.task_drafts
  BY <1>0 DEF create_pipeline, Tables, Columns
<1>2. /\ DOMAIN e.versions = DOMAIN d.versions \cup {p} /\ e.versions[p] = <<>>
      /\ \A y \in DOMAIN d.versions : y # p => e.versions[y] = d.versions[y]
      /\ DOMAIN e.pipelines = DOMAIN d.pipelines \cup {p}
  BY <1>1 DEF Put
<1>3. Creating(rq[q]) /\ p \notin DOMAIN d.pipelines /\ p \notin d.tasks /\ p \notin DOMAIN d.versions
  BY <1>0 DEF Ids, Creating, Tables
<1>4. Tables(e)
  <2>1. <<>> \in Seq(Specs)
    BY EmptySeq
  <2> QED BY <1>0, <1>1, <1>2, <2>1 DEF Tables
<1>5. Reqs(rq1)
  BY <1>0 DEF Reqs
<1>6. Ids(e, rq1, fr)
  <2>1. Came(d, e, rq[q]) /\ Named(d, e, rq[q], r, fr, fr) /\ fr \subseteq fr
    BY <1>1, <1>2, <1>3 DEF Came, Named
  <2> QED BY <1>0, <2>1, IdsKept
<1>7. Refs(e, rq1, ra)
  <2>1. Grows(d, e)
    BY <1>1 DEF Grows
  <2>2. \A v \in DOMAIN <<>> : FALSE
    BY EmptySeq
  <2>3. Stored(d, e, rq[q])
    BY <1>2, <2>2 DEF Stored
  <2> QED BY <1>0, <2>1, <2>3, RefsKept
<1>8. Levels(e, rq1, un)
  <2>0. ~Halfway(rq[q]) /\ \A y \in DOMAIN d.versions : y # p
    BY <1>3 DEF Halfway
  <2>1. ASSUME NEW y \in DOMAIN d.versions
        PROVE  Fits(e.versions, e.drafts, y, rq1, un)
    <3>1. Fits(d.versions, d.drafts, y, rq, un)
      BY <1>0 DEF Levels
    <3>2. Untouched(d.versions, d.drafts, e.versions, e.drafts, y) /\ un \subseteq un
      BY <1>1, <1>2, <2>0 DEF Untouched
    <3>3. ~Saves(rq[q], y) /\ ~Saves(r, y)
      BY <2>0 DEF Saves
    <3> QED BY <1>0, <3>1, <3>2, <3>3, FitsStill
  <2>2. Fits(e.versions, e.drafts, p, rq1, un)
    <3>1. \A o \in Requests : Halfway(rq1[o]) => rq1[o].id # p
      <4>1. rq1[q] = r /\ \A o \in Requests : o # q => rq1[o] = rq[o]
        BY <1>0
      <4>2. \A o \in Requests : o # q /\ rq[o].at # "idle" => rq[o].id # p
        BY <1>0, <1>3 DEF Ids
      <4> QED BY <4>1, <4>2 DEF Halfway
    <3>2. Level(e.versions, e.drafts, p)
      BY <1>2 DEF Level
    <3> QED BY <3>1, <3>2 DEF Fits
  <2>3. \A t \in e.tasks : Fits(e.task_versions, e.task_drafts, t, rq1, un)
    BY <1>0, <1>1, <2>0, FitsTurn DEF Levels
  <2> QED BY <1>2, <2>1, <2>2, <2>3 DEF Levels
<1> QED BY <1>4, <1>5, <1>6, <1>7, <1>8 DEF Good

\* add_version: the spec it stores is the one the request checked.
LEMMA GoodVersion ==
  ASSUME NEW d, NEW rq, NEW fr, NEW ra, NEW un, Good(d, rq, fr, ra, un),
         NEW q \in Requests, NEW r, Asked(r), NEW rq1, rq1 = [rq EXCEPT ![q] = r],
         NEW p, p = rq[q].id, p \in DOMAIN d.pipelines, rq[q].at = "add",
         NEW e, e = add_version(d, p, rq[q].arg),
         Halfway(r), r.id = p, r.level = Len(e.versions[p]), NEW un1, un \subseteq un1,
         Crossed(rq, q, p, un1)
  PROVE  Good(e, rq1, fr, ra, un1)
<1>0. Tables(d) /\ Reqs(rq) /\ Ids(d, rq, fr) /\ Refs(d, rq, ra) /\ Levels(d, rq, un) /\ DOMAIN rq = Requests
  BY DEF Good, Reqs
<1>1. p \in Pipelines /\ p \notin Tasks
  BY <1>0, IdsAssumption DEF Tables
<1>2. rq[q].arg \in Specs /\ Checked(rq[q])
  BY <1>0, <1>1, IdsAssumption DEF Reqs, Asked, Checked
<1>3. /\ DOMAIN e = Columns /\ e.versions = [d.versions EXCEPT ![p] = Append(d.versions[p], rq[q].arg)]
      /\ e.pipelines = d.pipelines
      /\ e.drafts = d.drafts /\ e.tasks = d.tasks /\ e.runs = d.runs
      /\ e.task_versions = d.task_versions /\ e.task_drafts = d.task_drafts
  BY <1>0 DEF add_version, Tables, Columns, Has
<1>4. /\ DOMAIN e.versions = DOMAIN d.versions /\ p \in DOMAIN d.versions
      /\ e.versions[p] = Append(d.versions[p], rq[q].arg)
      /\ \A y \in DOMAIN d.versions : y # p => e.versions[y] = d.versions[y]
  BY <1>0, <1>3 DEF Tables
<1>5. PICK s \in Seq(Specs) : s = d.versions[p]
  BY <1>0, <1>4 DEF Tables
<1>6. /\ e.versions[p] \in Seq(Specs) /\ DOMAIN s = 1..Len(s) /\ Len(s) \in Nat
      /\ DOMAIN e.versions[p] = 1..(Len(s) + 1)
      /\ \A v \in 1..Len(s) : e.versions[p][v] = s[v]
      /\ e.versions[p][Len(s) + 1] = rq[q].arg
  <2>1. PICK a \in Specs : a = rq[q].arg
    BY <1>2
  <2>2. PICK z : z = Append(s, a)
    OBVIOUS
  <2>3. /\ z \in Seq(Specs) /\ Len(z) = Len(s) + 1 /\ z[Len(s) + 1] = a
        /\ \A v \in 1..Len(s) : z[v] = s[v]
    BY <2>2, AppendProperties
  <2>4. DOMAIN s = 1..Len(s) /\ Len(s) \in Nat /\ DOMAIN z = 1..Len(z)
    BY <2>3, LenProperties
  <2>5. e.versions[p] = z
    BY <1>4, <1>5, <2>1, <2>2
  <2> QED BY <2>1, <2>3, <2>4, <2>5
<1>7. Tables(e)
  BY <1>0, <1>3, <1>4, <1>6 DEF Tables
<1>8. Reqs(rq1)
  BY <1>0 DEF Reqs
<1>9. Ids(e, rq1, fr)
  <2>1. Came(d, e, rq[q]) /\ Named(d, e, rq[q], r, fr, fr) /\ fr \subseteq fr
    BY <1>3 DEF Came, Named, Halfway, Creating, Asked
  <2> QED BY <1>0, <2>1, IdsKept
<1>10. Refs(e, rq1, ra)
  <2>1. Grows(d, e)
    BY <1>3 DEF Grows
  <2>2. Stored(d, e, rq[q])
    <3> SUFFICES ASSUME NEW y \in DOMAIN e.versions, NEW v \in DOMAIN e.versions[y]
                 PROVE  \/ y \in DOMAIN d.versions /\ v \in DOMAIN d.versions[y] /\ e.versions[y][v] = d.versions[y][v]
                        \/ Checked(rq[q]) /\ e.versions[y][v] = rq[q].arg
      BY DEF Stored
    <3>1. CASE y # p
      BY <1>4, <3>1
    <3>2. CASE y = p
      <4>1. v \in 1..Len(s) \/ v = Len(s) + 1
        BY <1>6, <3>2
      <4> QED BY <1>2, <1>4, <1>5, <1>6, <3>2, <4>1
    <3> QED BY <3>1, <3>2
  <2>3. ~Checked(r)
    BY DEF Halfway, Checked
  <2> QED BY <1>0, <2>1, <2>2, <2>3, RefsKept
<1>11. Levels(e, rq1, un1)
  <2>0. ~Halfway(rq[q])
    BY DEF Halfway
  <2>1. ASSUME NEW y \in DOMAIN d.versions, y # p
        PROVE  Fits(e.versions, e.drafts, y, rq1, un1)
    <3>1. Fits(d.versions, d.drafts, y, rq, un)
      BY <1>0 DEF Levels
    <3>2. Untouched(d.versions, d.drafts, e.versions, e.drafts, y)
      BY <1>3, <1>4, <2>1 DEF Untouched
    <3>3. ~Saves(rq[q], y) /\ ~Saves(r, y)
      BY <2>0, <2>1 DEF Saves
    <3> QED BY <1>0, <3>1, <3>2, <3>3, FitsStill
  <2>2. Fits(e.versions, e.drafts, p, rq1, un1)
    BY <1>0, FitsAdded
  <2>3. ASSUME NEW t \in d.tasks
        PROVE  Fits(e.task_versions, e.task_drafts, t, rq1, un1)
    <3>1. Fits(d.task_versions, d.task_drafts, t, rq, un)
      BY <1>0 DEF Levels
    <3>2. t # p
      BY <1>0, <1>1 DEF Tables
    <3>3. Untouched(d.task_versions, d.task_drafts, e.task_versions, e.task_drafts, t)
      BY <1>3 DEF Untouched
    <3>4. ~Saves(rq[q], t) /\ ~Saves(r, t)
      BY <2>0, <3>2 DEF Saves
    <3> QED BY <1>0, <3>1, <3>3, <3>4, FitsStill
  <2> QED BY <1>3, <1>4, <2>1, <2>2, <2>3 DEF Levels
<1> QED BY <1>7, <1>8, <1>9, <1>10, <1>11 DEF Good

\* save_pipeline_draft.
LEMMA GoodDraft ==
  ASSUME NEW d, NEW rq, NEW fr, NEW ra, NEW un, Good(d, rq, fr, ra, un),
         NEW q \in Requests, NEW r, Asked(r), NEW rq1, rq1 = [rq EXCEPT ![q] = r],
         NEW p, p = rq[q].id, p \in DOMAIN d.pipelines, rq[q].at = "draft",
         NEW spec, NEW level, Halfway(rq[q]) => level = rq[q].level, ~Halfway(rq[q]) => level = Len(d.versions[p]),
         NEW e, e = save_pipeline_draft(d, p, spec, level), r.at = "idle"
  PROVE  Good(e, rq1, fr, ra, un)
<1>0. Tables(d) /\ Reqs(rq) /\ Ids(d, rq, fr) /\ Refs(d, rq, ra) /\ Levels(d, rq, un) /\ DOMAIN rq = Requests
  BY DEF Good, Reqs
<1>1. p \in Pipelines /\ p \notin Tasks
  BY <1>0, IdsAssumption DEF Tables
<1>2. /\ DOMAIN e = Columns /\ e.drafts = Put(d.drafts, p, [spec |-> spec, level |-> level])
      /\ e.pipelines = d.pipelines
      /\ e.versions = d.versions /\ e.tasks = d.tasks /\ e.runs = d.runs
      /\ e.task_versions = d.task_versions /\ e.task_drafts = d.task_drafts
  BY <1>0 DEF save_pipeline_draft, Tables, Columns, Has
<1>3. /\ DOMAIN e.drafts = DOMAIN d.drafts \cup {p} /\ e.drafts[p].level = level
      /\ \A y \in DOMAIN d.drafts : y # p => e.drafts[y] = d.drafts[y]
  <2>1. PICK row : row = [spec |-> spec, level |-> level]
    OBVIOUS
  <2>2. /\ DOMAIN e.drafts = DOMAIN d.drafts \cup {p} /\ e.drafts[p] = row
        /\ \A y \in DOMAIN d.drafts : y # p => e.drafts[y] = d.drafts[y]
    BY <1>2, <2>1 DEF Put
  <2> QED BY <2>1, <2>2
<1>4. Tables(e)
  <2>1. DOMAIN e.drafts \subseteq DOMAIN e.pipelines
    BY <1>0, <1>2, <1>3 DEF Tables
  <2> QED BY <1>0, <1>2, <2>1 DEF Tables
<1>5. Reqs(rq1)
  BY <1>0 DEF Reqs
<1>6. Ids(e, rq1, fr)
  <2>1. Came(d, e, rq[q]) /\ Named(d, e, rq[q], r, fr, fr) /\ fr \subseteq fr
    BY <1>2 DEF Came, Named
  <2> QED BY <1>0, <2>1, IdsKept
<1>7. ~Halfway(r) /\ ~Checked(r)
  BY DEF Halfway, Checked
<1>8. Refs(e, rq1, ra)
  <2>1. Grows(d, e) /\ Stored(d, e, rq[q])
    BY <1>2 DEF Grows, Stored
  <2> QED BY <1>0, <1>7, <2>1, RefsKept
<1>9. Levels(e, rq1, un)
  <2>1. ASSUME NEW y \in DOMAIN d.versions, y # p
        PROVE  Fits(e.versions, e.drafts, y, rq1, un)
    <3>1. Fits(d.versions, d.drafts, y, rq, un) /\ un \subseteq un
      BY <1>0 DEF Levels
    <3>2. Untouched(d.versions, d.drafts, e.versions, e.drafts, y)
      BY <1>2, <1>3, <2>1 DEF Untouched
    <3>3. ~Saves(rq[q], y) /\ ~Saves(r, y)
      BY <1>7, <2>1 DEF Saves
    <3> QED BY <1>0, <3>1, <3>2, <3>3, FitsStill
  <2>2. Fits(e.versions, e.drafts, p, rq1, un)
    <3>1. Fits(d.versions, d.drafts, p, rq, un)
      BY <1>0 DEF Levels, Tables
    <3>2. Levelled(rq[q], p, d.versions, e.drafts)
      BY <1>3 DEF Levelled
    <3>3. Fits(d.versions, e.drafts, p, rq1, un)
      <4>1. DOMAIN rq = Requests /\ ~Halfway(r) /\ rq1 = [rq EXCEPT ![q] = r] /\ q \in Requests
        BY <1>0, <1>7
      <4> QED BY ONLY <3>1, <3>2, <4>1, FitsSaved
    <3> QED BY <1>2, <3>3
  <2>3. ASSUME NEW t \in d.tasks
        PROVE  Fits(e.task_versions, e.task_drafts, t, rq1, un)
    <3>1. Fits(d.task_versions, d.task_drafts, t, rq, un) /\ un \subseteq un
      BY <1>0 DEF Levels
    <3>2. t # p
      BY <1>0, <1>1 DEF Tables
    <3>3. Untouched(d.task_versions, d.task_drafts, e.task_versions, e.task_drafts, t)
      BY <1>2 DEF Untouched
    <3>4. ~Saves(rq[q], t) /\ ~Saves(r, t)
      BY <1>7, <3>2 DEF Saves
    <3> QED BY <1>0, <3>1, <3>3, <3>4, FitsStill
  <2> QED BY <1>2, <2>1, <2>2, <2>3 DEF Levels
<1> QED BY <1>4, <1>5, <1>6, <1>8, <1>9 DEF Good

\* delete_pipeline.
LEMMA GoodDelete ==
  ASSUME NEW d, NEW rq, NEW fr, NEW ra, NEW un, Good(d, rq, fr, ra, un),
         NEW q \in Requests, NEW r, Asked(r), NEW rq1, rq1 = [rq EXCEPT ![q] = r],
         rq[q].at = "delete", r.at = "idle", NEW p, NEW e, e = delete_pipeline(d, p)
  PROVE  Good(e, rq1, fr, ra, un)
<1>0. Tables(d) /\ Reqs(rq) /\ Ids(d, rq, fr) /\ Refs(d, rq, ra) /\ Levels(d, rq, un) /\ DOMAIN rq = Requests
  BY DEF Good, Reqs
<1>1. PICK rs : rs = RunsOf(d, p)
  OBVIOUS
<1>2. /\ DOMAIN e = Columns /\ e.pipelines = Drop(d.pipelines, {p}) /\ e.versions = Drop(d.versions, {p})
      /\ e.drafts = Drop(d.drafts, {p}) /\ e.runs = Drop(d.runs, rs)
      /\ e.tasks = d.tasks /\ e.task_versions = d.task_versions /\ e.task_drafts = d.task_drafts
  BY <1>0, <1>1 DEF delete_pipeline, Tables, Columns
<1>3. /\ DOMAIN e.pipelines = DOMAIN d.pipelines \ {p} /\ DOMAIN e.versions = DOMAIN d.versions \ {p}
      /\ DOMAIN e.drafts = DOMAIN d.drafts \ {p} /\ DOMAIN e.runs = DOMAIN d.runs \ rs
      /\ \A y \in DOMAIN e.versions : e.versions[y] = d.versions[y]
      /\ \A y \in DOMAIN e.drafts : e.drafts[y] = d.drafts[y]
      /\ \A y \in DOMAIN e.runs : e.runs[y] = d.runs[y]
  BY <1>2 DEF Drop, Restrict
<1>4. Tables(e)
  <2>1. \A x \in DOMAIN d.runs : x \in rs <=> d.runs[x].pipeline = p
    BY <1>1 DEF RunsOf
  <2> QED BY <1>0, <1>2, <1>3, <2>1 DEF Tables
<1>5. Reqs(rq1)
  BY <1>0 DEF Reqs
<1>6. Ids(e, rq1, fr)
  <2>1. Came(d, e, rq[q]) /\ Named(d, e, rq[q], r, fr, fr) /\ fr \subseteq fr
    BY <1>2, <1>3 DEF Came, Named
  <2> QED BY <1>0, <2>1, IdsKept
<1>7. ~Halfway(r) /\ ~Checked(r) /\ ~Halfway(rq[q]) /\ un \subseteq un
  BY DEF Halfway, Checked
<1>8. Refs(e, rq1, ra)
  <2>1. Grows(d, e) /\ Stored(d, e, rq[q])
    BY <1>2, <1>3 DEF Grows, Stored
  <2> QED BY <1>0, <1>7, <2>1, RefsKept
<1>9. Levels(e, rq1, un)
  <2>1. ASSUME NEW y \in DOMAIN e.versions
        PROVE  Fits(e.versions, e.drafts, y, rq1, un)
    <3>1. Fits(d.versions, d.drafts, y, rq, un)
      BY <1>0, <1>3, <2>1 DEF Levels
    <3>2. Untouched(d.versions, d.drafts, e.versions, e.drafts, y)
      BY <1>3, <2>1 DEF Untouched
    <3>3. ~Saves(rq[q], y) /\ ~Saves(r, y)
      BY <1>7 DEF Saves
    <3> QED BY <1>0, <1>7, <3>1, <3>2, <3>3, FitsStill
  <2>2. \A t \in d.tasks : Fits(d.task_versions, d.task_drafts, t, rq1, un)
    BY <1>0, <1>7, FitsTurn DEF Levels
  <2> QED BY <1>2, <2>1, <2>2 DEF Levels
<1> QED BY <1>4, <1>5, <1>6, <1>8, <1>9 DEF Good

\* create_task.
LEMMA GoodTask ==
  ASSUME NEW d, NEW rq, NEW fr, NEW ra, NEW un, Good(d, rq, fr, ra, un),
         NEW q \in Requests, NEW r, Asked(r), NEW rq1, rq1 = [rq EXCEPT ![q] = r],
         NEW t, t = rq[q].id, t \in Tasks, rq[q].at = "create",
         NEW e, e = create_task(d, t),
         ~Halfway(r), ~Creating(r), r.id = t
  PROVE  Good(e, rq1, fr, ra, un)
<1>0. Tables(d) /\ Reqs(rq) /\ Ids(d, rq, fr) /\ Refs(d, rq, ra) /\ Levels(d, rq, un) /\ DOMAIN rq = Requests
  BY DEF Good, Reqs
<1>1. /\ DOMAIN e = Columns /\ e.task_versions = Put(d.task_versions, t, <<>>)
      /\ e.tasks = d.tasks \cup {t}
      /\ e.drafts = d.drafts /\ e.pipelines = d.pipelines /\ e.runs = d.runs
      /\ e.versions = d.versions /\ e.task_drafts = d.task_drafts
  BY <1>0 DEF create_task, Tables, Columns
<1>2. /\ DOMAIN e.task_versions = DOMAIN d.task_versions \cup {t} /\ e.task_versions[t] = <<>>
      /\ \A y \in DOMAIN d.task_versions : y # t => e.task_versions[y] = d.task_versions[y]
  BY <1>1 DEF Put
<1>3. Creating(rq[q]) /\ t \notin DOMAIN d.pipelines /\ t \notin d.tasks /\ DOMAIN d.task_versions = d.tasks
  BY <1>0 DEF Ids, Creating, Tables
<1>4. Tables(e)
  <2>1. <<>> \in Seq(Codes) /\ \A v \in DOMAIN <<>> : FALSE
    BY EmptySeq
  <2>2. \A y \in e.tasks : /\ e.task_versions[y] \in Seq(Codes)
                           /\ \A v \in DOMAIN e.task_versions[y] : Honest(e.task_versions[y][v])
    <3>1. \A y \in d.tasks : /\ e.task_versions[y] \in Seq(Codes)
                             /\ \A v \in DOMAIN e.task_versions[y] : Honest(e.task_versions[y][v])
      BY <1>0, <1>2, <1>3 DEF Tables
    <3> QED BY <1>1, <1>2, <2>1, <3>1
  <2> QED BY <1>0, <1>1, <1>2, <2>2 DEF Tables
<1>5. Reqs(rq1)
  BY <1>0 DEF Reqs
<1>6. Ids(e, rq1, fr)
  <2>1. Came(d, e, rq[q]) /\ Named(d, e, rq[q], r, fr, fr) /\ fr \subseteq fr
    BY <1>1, <1>3 DEF Came, Named
  <2> QED BY <1>0, <2>1, IdsKept
<1>7. Refs(e, rq1, ra)
  <2>1. Grows(d, e)
    BY <1>1, <1>2, <1>3 DEF Grows
  <2>2. Stored(d, e, rq[q])
    BY <1>1 DEF Stored
  <2>3. ~Checked(r)
    BY IdsAssumption DEF Checked
  <2> QED BY <1>0, <2>1, <2>2, <2>3, RefsKept
<1>8. Levels(e, rq1, un)
  <2>0. ~Halfway(rq[q]) /\ (\A y \in d.tasks : y # t) /\ un \subseteq un
    BY <1>3 DEF Halfway
  <2>1. ASSUME NEW y \in d.tasks
        PROVE  Fits(e.task_versions, e.task_drafts, y, rq1, un)
    <3>1. Fits(d.task_versions, d.task_drafts, y, rq, un)
      BY <1>0 DEF Levels
    <3>2. Untouched(d.task_versions, d.task_drafts, e.task_versions, e.task_drafts, y)
      BY <1>1, <1>2, <1>3, <2>0 DEF Untouched
    <3>3. ~Saves(rq[q], y) /\ ~Saves(r, y)
      BY <2>0 DEF Saves
    <3> QED BY <1>0, <2>0, <3>1, <3>2, <3>3, FitsStill
  <2>2. Fits(e.task_versions, e.task_drafts, t, rq1, un)
    <3>1. \A o \in Requests : Halfway(rq1[o]) => rq1[o].id # t
      <4>1. rq1[q] = r /\ \A o \in Requests : o # q => rq1[o] = rq[o]
        BY <1>0
      <4>2. \A o \in Requests : o # q /\ rq[o].at # "idle" => rq[o].id # t
        BY <1>0, <1>3 DEF Ids
      <4> QED BY <4>1, <4>2 DEF Halfway
    <3>2. Level(e.task_versions, e.task_drafts, t)
      BY <1>2 DEF Level
    <3> QED BY <3>1, <3>2 DEF Fits
  <2>3. \A p \in DOMAIN e.versions : Fits(e.versions, e.drafts, p, rq1, un)
    BY <1>0, <1>1, <2>0, FitsTurn DEF Levels
  <2> QED BY <1>1, <2>1, <2>2, <2>3 DEF Levels
<1> QED BY <1>4, <1>5, <1>6, <1>7, <1>8 DEF Good

\* add_task_version.
LEMMA GoodTaskVersion ==
  ASSUME NEW d, NEW rq, NEW fr, NEW ra, NEW un, Good(d, rq, fr, ra, un),
         NEW q \in Requests, NEW r, Asked(r), NEW rq1, rq1 = [rq EXCEPT ![q] = r],
         NEW t, t = rq[q].id, t \in d.tasks, rq[q].at = "add",
         NEW e, e = add_task_version(d, t, rq[q].code),
         Halfway(r), r.id = t, r.level = Len(e.task_versions[t]), NEW un1, un \subseteq un1,
         Crossed(rq, q, t, un1)
  PROVE  Good(e, rq1, fr, ra, un1)
<1>0. Tables(d) /\ Reqs(rq) /\ Ids(d, rq, fr) /\ Refs(d, rq, ra) /\ Levels(d, rq, un) /\ DOMAIN rq = Requests
  BY DEF Good, Reqs
<1>1. t \in Tasks /\ t \notin Pipelines
  BY <1>0, IdsAssumption DEF Tables
<1>2. Honest(rq[q].code) /\ rq[q].code \in Codes
  BY <1>0, <1>1 DEF Reqs, Asked, Honest
<1>3. /\ DOMAIN e = Columns /\ e.task_versions = [d.task_versions EXCEPT ![t] = Append(d.task_versions[t], rq[q].code)]
      /\ e.pipelines = d.pipelines
      /\ e.drafts = d.drafts /\ e.tasks = d.tasks /\ e.runs = d.runs
      /\ e.versions = d.versions /\ e.task_drafts = d.task_drafts
  BY <1>0 DEF add_task_version, Tables, Columns
<1>4. /\ DOMAIN e.task_versions = DOMAIN d.task_versions /\ DOMAIN d.task_versions = d.tasks
      /\ e.task_versions[t] = Append(d.task_versions[t], rq[q].code)
      /\ \A y \in d.tasks : y # t => e.task_versions[y] = d.task_versions[y]
  BY <1>0, <1>3 DEF Tables
<1>5. PICK s \in Seq(Codes) : s = d.task_versions[t]
  BY <1>0 DEF Tables
<1>6. /\ e.task_versions[t] \in Seq(Codes) /\ DOMAIN s = 1..Len(s) /\ Len(s) \in Nat
      /\ DOMAIN e.task_versions[t] = 1..(Len(s) + 1)
      /\ \A v \in 1..Len(s) : e.task_versions[t][v] = s[v]
      /\ e.task_versions[t][Len(s) + 1] = rq[q].code
  <2>1. PICK a \in Codes : a = rq[q].code
    BY <1>2
  <2>2. PICK z : z = Append(s, a)
    OBVIOUS
  <2>3. /\ z \in Seq(Codes) /\ Len(z) = Len(s) + 1 /\ z[Len(s) + 1] = a
        /\ \A v \in 1..Len(s) : z[v] = s[v]
    BY <2>2, AppendProperties
  <2>4. DOMAIN s = 1..Len(s) /\ Len(s) \in Nat /\ DOMAIN z = 1..Len(z)
    BY <2>3, LenProperties
  <2>5. e.task_versions[t] = z
    BY <1>4, <1>5, <2>1, <2>2
  <2> QED BY <2>1, <2>3, <2>4, <2>5
<1>7. e.task_versions[t] # <<>>
  BY <1>6
<1>8. Tables(e)
  <2>1. \A v \in DOMAIN s : Honest(s[v])
    BY <1>0, <1>5 DEF Tables
  <2>2. \A v \in DOMAIN e.task_versions[t] : Honest(e.task_versions[t][v])
    <3> SUFFICES ASSUME NEW v \in DOMAIN e.task_versions[t]
                 PROVE  Honest(e.task_versions[t][v])
      OBVIOUS
    <3>1. v \in 1..Len(s) \/ v = Len(s) + 1
      BY <1>6
    <3> QED BY <1>2, <1>6, <2>1, <3>1
  <2> QED BY <1>0, <1>3, <1>4, <1>6, <2>2 DEF Tables
<1>9. Reqs(rq1)
  BY <1>0 DEF Reqs
<1>10. Ids(e, rq1, fr)
  <2>1. Came(d, e, rq[q]) /\ Named(d, e, rq[q], r, fr, fr) /\ fr \subseteq fr
    BY <1>3 DEF Came, Named, Halfway, Creating, Asked
  <2> QED BY <1>0, <2>1, IdsKept
<1>11. Refs(e, rq1, ra)
  <2>0. DOMAIN d.task_versions[t] \subseteq DOMAIN e.task_versions[t]
    BY <1>5, <1>6
  <2>1. Grows(d, e)
    BY <1>3, <1>4, <1>7, <2>0 DEF Grows
  <2>2. Stored(d, e, rq[q])
    BY <1>3 DEF Stored
  <2>3. ~Checked(r)
    BY DEF Halfway, Checked
  <2> QED BY <1>0, <2>1, <2>2, <2>3, RefsKept
<1>12. Levels(e, rq1, un1)
  <2>0. ~Halfway(rq[q])
    BY DEF Halfway
  <2>1. ASSUME NEW y \in d.tasks, y # t
        PROVE  Fits(e.task_versions, e.task_drafts, y, rq1, un1)
    <3>1. Fits(d.task_versions, d.task_drafts, y, rq, un)
      BY <1>0 DEF Levels
    <3>2. Untouched(d.task_versions, d.task_drafts, e.task_versions, e.task_drafts, y)
      BY <1>3, <1>4, <2>1 DEF Untouched
    <3>3. ~Saves(rq[q], y) /\ ~Saves(r, y)
      BY <2>0, <2>1 DEF Saves
    <3> QED BY <1>0, <3>1, <3>2, <3>3, FitsStill
  <2>2. Fits(e.task_versions, e.task_drafts, t, rq1, un1)
    BY <1>0, FitsAdded
  <2>3. ASSUME NEW p \in DOMAIN d.versions
        PROVE  Fits(e.versions, e.drafts, p, rq1, un1)
    <3>1. Fits(d.versions, d.drafts, p, rq, un)
      BY <1>0 DEF Levels
    <3>2. t # p
      BY <1>0, <1>1 DEF Tables
    <3>3. Untouched(d.versions, d.drafts, e.versions, e.drafts, p)
      BY <1>3 DEF Untouched
    <3>4. ~Saves(rq[q], p) /\ ~Saves(r, p)
      BY <2>0, <3>2 DEF Saves
    <3> QED BY <1>0, <3>1, <3>3, <3>4, FitsStill
  <2> QED BY <1>3, <2>1, <2>2, <2>3 DEF Levels
<1> QED BY <1>8, <1>9, <1>10, <1>11, <1>12 DEF Good

\* save_task_draft.
LEMMA GoodTaskDraft ==
  ASSUME NEW d, NEW rq, NEW fr, NEW ra, NEW un, Good(d, rq, fr, ra, un),
         NEW q \in Requests, NEW r, Asked(r), NEW rq1, rq1 = [rq EXCEPT ![q] = r],
         NEW t, t = rq[q].id, t \in d.tasks, rq[q].at = "draft",
         NEW level, Halfway(rq[q]) => level = rq[q].level, ~Halfway(rq[q]) => level = Len(d.task_versions[t]),
         NEW e, e = save_task_draft(d, t, rq[q].code, level), r.at = "idle"
  PROVE  Good(e, rq1, fr, ra, un)
<1>0. Tables(d) /\ Reqs(rq) /\ Ids(d, rq, fr) /\ Refs(d, rq, ra) /\ Levels(d, rq, un) /\ DOMAIN rq = Requests
  BY DEF Good, Reqs
<1>1. t \in Tasks /\ t \notin Pipelines
  BY <1>0, IdsAssumption DEF Tables
<1>2. /\ DOMAIN e = Columns /\ e.task_drafts = Put(d.task_drafts, t, [code |-> rq[q].code, level |-> level])
      /\ e.pipelines = d.pipelines
      /\ e.versions = d.versions /\ e.tasks = d.tasks /\ e.runs = d.runs
      /\ e.task_versions = d.task_versions /\ e.drafts = d.drafts
  BY <1>0 DEF save_task_draft, Tables, Columns
<1>3. /\ DOMAIN e.task_drafts = DOMAIN d.task_drafts \cup {t}
      /\ e.task_drafts[t].level = level /\ e.task_drafts[t].code = rq[q].code
      /\ \A y \in DOMAIN d.task_drafts : y # t => e.task_drafts[y] = d.task_drafts[y]
  <2>1. PICK row : row = [code |-> rq[q].code, level |-> level]
    OBVIOUS
  <2>2. /\ DOMAIN e.task_drafts = DOMAIN d.task_drafts \cup {t} /\ e.task_drafts[t] = row
        /\ \A y \in DOMAIN d.task_drafts : y # t => e.task_drafts[y] = d.task_drafts[y]
    BY <1>2, <2>1 DEF Put
  <2> QED BY <2>1, <2>2
<1>4. Tables(e)
  <2>1. DOMAIN e.task_drafts \subseteq e.tasks
    BY <1>0, <1>2, <1>3 DEF Tables
  <2>2. Honest(rq[q].code)
    BY <1>0, <1>1 DEF Reqs, Asked
  <2>3. \A y \in DOMAIN e.task_drafts : Honest(e.task_drafts[y].code)
    BY <1>0, <1>3, <2>2 DEF Tables
  <2> QED BY <1>0, <1>2, <2>1, <2>3 DEF Tables
<1>5. Reqs(rq1)
  BY <1>0 DEF Reqs
<1>6. Ids(e, rq1, fr)
  <2>1. Came(d, e, rq[q]) /\ Named(d, e, rq[q], r, fr, fr) /\ fr \subseteq fr
    BY <1>2 DEF Came, Named
  <2> QED BY <1>0, <2>1, IdsKept
<1>7. ~Halfway(r) /\ ~Checked(r)
  BY DEF Halfway, Checked
<1>8. Refs(e, rq1, ra)
  <2>1. Grows(d, e) /\ Stored(d, e, rq[q])
    BY <1>2, <1>3 DEF Grows, Stored
  <2> QED BY <1>0, <1>7, <2>1, RefsKept
<1>9. Levels(e, rq1, un)
  <2>1. ASSUME NEW y \in d.tasks, y # t
        PROVE  Fits(e.task_versions, e.task_drafts, y, rq1, un)
    <3>1. Fits(d.task_versions, d.task_drafts, y, rq, un) /\ un \subseteq un
      BY <1>0 DEF Levels
    <3>2. Untouched(d.task_versions, d.task_drafts, e.task_versions, e.task_drafts, y)
      BY <1>2, <1>3, <2>1 DEF Untouched
    <3>3. ~Saves(rq[q], y) /\ ~Saves(r, y)
      BY <1>7, <2>1 DEF Saves
    <3> QED BY <1>0, <3>1, <3>2, <3>3, FitsStill
  <2>2. Fits(e.task_versions, e.task_drafts, t, rq1, un)
    <3>1. Fits(d.task_versions, d.task_drafts, t, rq, un)
      BY <1>0 DEF Levels, Tables
    <3>2. Levelled(rq[q], t, d.task_versions, e.task_drafts)
      BY <1>3 DEF Levelled
    <3>3. Fits(d.task_versions, e.task_drafts, t, rq1, un)
      <4>1. DOMAIN rq = Requests /\ ~Halfway(r) /\ rq1 = [rq EXCEPT ![q] = r] /\ q \in Requests
        BY <1>0, <1>7
      <4> QED BY ONLY <3>1, <3>2, <4>1, FitsSaved
    <3> QED BY <1>2, <3>3
  <2>3. ASSUME NEW p \in DOMAIN d.versions
        PROVE  Fits(e.versions, e.drafts, p, rq1, un)
    <3>1. Fits(d.versions, d.drafts, p, rq, un) /\ un \subseteq un
      BY <1>0 DEF Levels
    <3>2. t # p
      BY <1>0, <1>1 DEF Tables
    <3>3. Untouched(d.versions, d.drafts, e.versions, e.drafts, p)
      BY <1>2 DEF Untouched
    <3>4. ~Saves(rq[q], p) /\ ~Saves(r, p)
      BY <1>7, <3>2 DEF Saves
    <3> QED BY <1>0, <3>1, <3>3, <3>4, FitsStill
  <2> QED BY <1>2, <2>1, <2>2, <2>3 DEF Levels
<1> QED BY <1>4, <1>5, <1>6, <1>8, <1>9 DEF Good

\* Saves that had checked a reference to t are raced.
Raced(rq, t, ra1) ==
  (\E o \in Requests : Checked(rq[o]) /\ \E ref \in Range(rq[o].arg) : ref.task = t) => t \in ra1

\* delete_task: a task that no version names; the saves that had checked a
\* reference to it are the ones it raced.
LEMMA GoodTaskGone ==
  ASSUME NEW d, NEW rq, NEW fr, NEW ra, NEW un, Good(d, rq, fr, ra, un),
         NEW q \in Requests, NEW r, Asked(r), NEW rq1, rq1 = [rq EXCEPT ![q] = r],
         rq[q].at = "idle", r.at = "idle", NEW t \in d.tasks, ~Referenced(d, t),
         NEW e, e = delete_task(d, t), NEW ra1, ra \subseteq ra1, Raced(rq, t, ra1)
  PROVE  Good(e, rq1, fr, ra1, un)
<1>0. Tables(d) /\ Reqs(rq) /\ Ids(d, rq, fr) /\ Refs(d, rq, ra) /\ Levels(d, rq, un) /\ DOMAIN rq = Requests
  BY DEF Good, Reqs
<1>2. /\ DOMAIN e = Columns /\ e.tasks = d.tasks \ {t} /\ e.task_versions = Drop(d.task_versions, {t})
      /\ e.task_drafts = Drop(d.task_drafts, {t}) /\ e.runs = d.runs
      /\ e.pipelines = d.pipelines /\ e.versions = d.versions /\ e.drafts = d.drafts
  BY <1>0 DEF delete_task, Tables, Columns
<1>3. /\ DOMAIN e.task_versions = DOMAIN d.task_versions \ {t} /\ DOMAIN e.task_drafts = DOMAIN d.task_drafts \ {t}
      /\ \A y \in DOMAIN e.task_versions : e.task_versions[y] = d.task_versions[y]
      /\ \A y \in DOMAIN e.task_drafts : e.task_drafts[y] = d.task_drafts[y]
  BY <1>2 DEF Drop, Restrict
<1>4. Tables(e)
  <2>1. /\ DOMAIN e.task_versions = e.tasks /\ DOMAIN e.task_drafts \subseteq e.tasks
        /\ e.tasks \subseteq d.tasks /\ DOMAIN e.task_drafts \subseteq DOMAIN d.task_drafts
    BY <1>0, <1>2, <1>3 DEF Tables
  <2>2. \A y \in e.tasks : /\ e.task_versions[y] \in Seq(Codes)
                           /\ \A v \in DOMAIN e.task_versions[y] : Honest(e.task_versions[y][v])
    BY <1>0, <1>3, <2>1 DEF Tables
  <2>3. \A y \in DOMAIN e.task_drafts : Honest(e.task_drafts[y].code)
    BY <1>0, <1>3, <2>1 DEF Tables
  <2> QED BY <1>0, <1>2, <2>1, <2>2, <2>3 DEF Tables
<1>5. Reqs(rq1)
  BY <1>0 DEF Reqs
<1>6. Ids(e, rq1, fr)
  <2>1. Came(d, e, rq[q]) /\ Named(d, e, rq[q], r, fr, fr) /\ fr \subseteq fr
    BY <1>2 DEF Came, Named
  <2> QED BY <1>0, <2>1, IdsKept
<1>7. ~Halfway(r) /\ ~Checked(r) /\ ~Halfway(rq[q]) /\ un \subseteq un
  BY DEF Halfway, Checked
<1>8. Refs(e, rq1, ra1)
  <2>1. \A ref : Resolves(d, ref) /\ ref.task # t => Resolves(e, ref)
    BY <1>0, <1>2, <1>3 DEF Resolves, Tables
  <2>2. ASSUME NEW p \in DOMAIN d.versions, NEW v \in DOMAIN d.versions[p]
        PROVE  Held(e, d.versions[p][v], ra1)
    <3>1. Held(d, d.versions[p][v], ra)
      BY <1>0, <2>2 DEF Refs
    <3>2. \A ref \in Range(d.versions[p][v]) : ref.task # t
      BY <2>2 DEF Referenced
    <3> QED BY <2>1, <3>1, <3>2 DEF Held
  <2>3. ASSUME NEW o \in Requests, Checked(rq1[o])
        PROVE  Held(e, rq1[o].arg, ra1)
    <3>1. rq1[o] = rq[o] /\ Held(d, rq[o].arg, ra) /\ Checked(rq[o])
      BY <1>0, <1>7, <2>3 DEF Refs
    <3>2. \A ref \in Range(rq[o].arg) : ref.task = t => t \in ra1
      BY <3>1 DEF Raced
    <3>3. Held(e, rq[o].arg, ra1)
      BY <2>1, <3>1, <3>2 DEF Held
    <3> QED BY <3>1, <3>3
  <2> QED BY <1>2, <2>2, <2>3 DEF Refs
<1>9. Levels(e, rq1, un)
  <2>1. ASSUME NEW y \in e.tasks
        PROVE  Fits(e.task_versions, e.task_drafts, y, rq1, un)
    <3>1. Fits(d.task_versions, d.task_drafts, y, rq, un)
      BY <1>0, <1>2, <2>1 DEF Levels
    <3>2. Untouched(d.task_versions, d.task_drafts, e.task_versions, e.task_drafts, y)
      BY <1>0, <1>2, <1>3, <2>1 DEF Untouched, Tables
    <3>3. ~Saves(rq[q], y) /\ ~Saves(r, y)
      BY <1>7 DEF Saves
    <3> QED BY <1>0, <1>7, <3>1, <3>2, <3>3, FitsStill
  <2>2. \A p \in DOMAIN d.versions : Fits(d.versions, d.drafts, p, rq1, un)
    BY <1>0, <1>7, FitsTurn DEF Levels
  <2> QED BY <1>2, <2>1, <2>2 DEF Levels
<1> QED BY <1>4, <1>5, <1>6, <1>8, <1>9 DEF Good

-----------------------------------------------------------------------------
(* Steps of requests that leave the store alone.                            *)

\* Told workers stay told as a request changes that does not come to delete.
LEMMA StoppedTurn ==
  ASSUME NEW d, NEW rq, NEW w, NEW aw, Stopped(d, rq, w, aw), Reqs(rq),
         NEW q \in Requests, NEW r, r.at # "delete", NEW rq1, rq1 = [rq EXCEPT ![q] = r],
         NEW e, e.runs = d.runs
  PROVE  Stopped(e, rq1, w, aw)
<1>1. rq1[q] = r /\ \A o \in Requests : o # q => rq1[o] = rq[o]
  BY DEF Reqs
<1> QED BY <1>1 DEF Stopped, RunsOf

\* A request that is not there has nothing in hand.
LEMMA IdleFacts ==
  Asked(Idle) /\ Idle.at = "idle" /\ ~Halfway(Idle) /\ ~Checked(Idle)
BY DEF Idle, Asked, Halfway, Checked, Parts, Ops, Steps

\* Request q becomes r and nothing else changes but the histories.
LEMMA Turns ==
  ASSUME CInv, Told, NEW q \in Requests, NEW r, Asked(r), ~Halfway(r), r.at # "delete",
         req' = [req EXCEPT ![q] = r], fresh' \subseteq fresh, uneven \subseteq uneven',
         Leaves(db, req[q], uneven'), Goes(db, req[q], r, fresh, fresh'), Backed(db, req[q], r, raced),
         UNCHANGED <<db, work, raced, away, behind>>
  PROVE  CInv' /\ Told'
<1>1. PICK rq1 : rq1 = req'
  OBVIOUS
<1>2. PICK fr1 : fr1 = fresh'
  OBVIOUS
<1>3. PICK un1 : un1 = uneven'
  OBVIOUS
<1>4. /\ rq1 = [req EXCEPT ![q] = r] /\ fr1 \subseteq fresh /\ uneven \subseteq un1
      /\ Leaves(db, req[q], un1) /\ Goes(db, req[q], r, fresh, fr1)
  BY <1>1, <1>2, <1>3
<1>5. Good(db, req, fresh, raced, uneven) /\ Stopped(db, req, work, away \cup behind) /\ Reqs(req)
  BY DEF CInv, Told, Good
<1>6. Good(db, rq1, fr1, raced, un1)
  BY <1>4, <1>5, GoodTurn
<1>7. Stopped(db, rq1, work, away \cup behind)
  BY <1>4, <1>5, StoppedTurn
<1> QED BY <1>1, <1>2, <1>3, <1>6, <1>7 DEF CInv, Told

\* It begins.
LEMMA Begins ==
  ASSUME CInv, Told, NEW q \in Requests, NEW r, Begin(q, r), Asked(r), ~Halfway(r), r.at # "delete",
         fresh' \subseteq fresh, Goes(db, req[q], r, fresh, fresh'), Backed(db, req[q], r, raced),
         UNCHANGED <<db, work, raced, uneven, away, behind>>
  PROVE  CInv' /\ Told'
<1>1. req' = [req EXCEPT ![q] = r] /\ req[q].at = "idle"
  BY DEF Begin
<1>2. Leaves(db, req[q], uneven') /\ uneven \subseteq uneven'
  BY <1>1 DEF Leaves, Halfway
<1> QED BY <1>1, <1>2, Turns

\* It ends.
LEMMA Ends ==
  ASSUME CInv, Told, NEW q \in Requests, End(q), uneven \subseteq uneven', Leaves(db, req[q], uneven'),
         UNCHANGED <<db, work, fresh, raced, away, behind>>
  PROVE  CInv' /\ Told'
<1>1. PICK r : r = Idle
  OBVIOUS
<1>2. Asked(r) /\ ~Halfway(r) /\ r.at = "idle" /\ ~Checked(r)
  BY <1>1, IdleFacts
<1>3. req' = [req EXCEPT ![q] = r] /\ fresh' \subseteq fresh
  BY <1>1 DEF End
<1>4. Goes(db, req[q], r, fresh, fresh') /\ Backed(db, req[q], r, raced)
  BY <1>2 DEF Goes, Backed
<1> QED BY <1>2, <1>3, <1>4, Turns

\* A request dies: one between its writes leaves its id uneven.
LEMMA Abandons ==
  ASSUME CInv, Told, NEW q \in Requests, Abandon(q)
  PROVE  CInv' /\ Told'
<1>1. uneven \subseteq uneven' /\ Leaves(db, req[q], uneven')
  BY DEF Abandon, Between, Leaves, Halfway
<1> QED BY <1>1, Ends DEF Abandon

\* A spec that was prepared holds: what resolves is a version or a draft.
LEMMA PreparedHeld ==
  ASSUME NEW d, NEW spec, NEW ra, Prepared(d, spec)
  PROVE  Held(d, spec, ra) /\ spec \in Specs
<1>1. ASSUME NEW node \in Range(spec)
      PROVE  Resolves(d, node)
  <2>1. ResolvedNode(d, node) # None
    BY DEF Prepared, resolve_task_configs
  <2>2. resolve_task_ref(d, node) # None
    BY <2>1 DEF ResolvedNode
  <2> QED BY <2>2 DEF resolve_task_ref, Resolves, Has
<1> QED BY <1>1 DEF Held, Prepared, Compiling

\* save_version and save_pipeline_draft check a spec.
LEMMA PreparesSave ==
  ASSUME CInv, Told, NEW q \in Requests, NEW op \in {"version", "draft"}, NEW p \in Pipelines, NEW spec \in Specs,
         Prepare(q, op, p, spec)
  PROVE  CInv' /\ Told'
<1>1. PICK r : r = [Idle EXCEPT !.op = op, !.at = IF op = "version" THEN "add" ELSE "draft", !.id = p, !.arg = spec]
  OBVIOUS
<1>2. /\ DOMAIN r = Parts /\ r.op = op /\ r.id = p /\ r.arg = spec
      /\ r.at = IF op = "version" THEN "add" ELSE "draft"
  BY <1>1 DEF Idle, Parts
<1>3. Begin(q, r) /\ req[q].at = "idle" /\ p \in DOMAIN db.pipelines /\ Prepared(db, spec)
  BY <1>1 DEF Prepare, Begin
<1>4. Asked(r) /\ ~Halfway(r) /\ r.at # "delete" /\ ~Creating(r)
  BY <1>2 DEF Asked, Halfway, Creating, Ops, Steps
<1>5. Held(db, spec, raced)
  BY <1>3, PreparedHeld
<1>6. Goes(db, req[q], r, fresh, fresh') /\ Backed(db, req[q], r, raced)
  BY <1>2, <1>3, <1>4, <1>5 DEF Goes, Backed
<1>7. UNCHANGED <<db, work, fresh, raced, uneven, away, behind>> /\ fresh' \subseteq fresh
  BY DEF Prepare, history
<1> QED BY <1>3, <1>4, <1>6, <1>7, Begins

\* create_pipeline checks its spec under a fresh id.
LEMMA PreparesPipeline ==
  ASSUME CInv, Told, NEW q \in Requests, NEW p \in Pipelines, NEW spec \in Specs \cup {None}, PrepareNew(q, p, spec)
  PROVE  CInv' /\ Told'
<1>1. PICK r : r = [Idle EXCEPT !.op = "version", !.at = "create", !.id = p, !.arg = spec]
  OBVIOUS
<1>2. DOMAIN r = Parts /\ r.op = "version" /\ r.id = p /\ r.arg = spec /\ r.at = "create"
  BY <1>1 DEF Idle, Parts
<1>3. /\ Begin(q, r) /\ req[q].at = "idle" /\ p \in fresh /\ p \notin fresh' /\ fresh' \subseteq fresh
      /\ spec # None => Prepared(db, spec)
  BY <1>1 DEF PrepareNew, Begin
<1>4. Asked(r) /\ ~Halfway(r) /\ r.at # "delete"
  BY <1>2 DEF Asked, Halfway, Ops, Steps
<1>5. spec # None => Held(db, spec, raced)
  BY <1>3, PreparedHeld
<1>6. Goes(db, req[q], r, fresh, fresh') /\ Backed(db, req[q], r, raced)
  BY <1>2, <1>3, <1>5 DEF Goes, Backed, Checked
<1>7. UNCHANGED <<db, work, raced, uneven, away, behind>>
  BY DEF PrepareNew, history
<1> QED BY <1>3, <1>4, <1>6, <1>7, Begins

\* create_task takes a fresh id.
LEMMA PreparesTask ==
  ASSUME CInv, Told, NEW q \in Requests, NEW t \in Tasks, NEW key \in CodeKeys, PrepareNewTask(q, t, key)
  PROVE  CInv' /\ Told'
<1>1. PICK r : r = [Idle EXCEPT !.op = "new task", !.at = "resolve", !.id = t, !.arg = key]
  OBVIOUS
<1>2. DOMAIN r = Parts /\ r.op = "new task" /\ r.id = t /\ r.arg = key /\ r.at = "resolve" /\ r.code = None
  BY <1>1 DEF Idle, Parts
<1>3. Begin(q, r) /\ req[q].at = "idle" /\ t \in fresh /\ t \notin fresh' /\ fresh' \subseteq fresh
  BY <1>1 DEF PrepareNewTask, Begin
<1>4. Asked(r) /\ ~Halfway(r) /\ r.at # "delete"
  BY <1>2 DEF Asked, Halfway, Ops, Steps
<1>6. Goes(db, req[q], r, fresh, fresh') /\ Backed(db, req[q], r, raced)
  BY <1>2, <1>3 DEF Goes, Backed, Checked
<1>7. UNCHANGED <<db, work, raced, uneven, away, behind>>
  BY DEF PrepareNewTask, history
<1> QED BY <1>3, <1>4, <1>6, <1>7, Begins

\* The code a task has now is honest.
LEMMA LatestHonest ==
  ASSUME Tables(db), NEW t \in db.tasks
  PROVE  _latest_task_config(t) = None \/ Honest(_latest_task_config(t))
<1>1. t \in DOMAIN db.task_drafts => Honest(db.task_drafts[t].code)
  BY DEF Tables
<1>2. PICK s \in Seq(Codes) : s = db.task_versions[t]
  BY DEF Tables
<1>3. s # <<>> => Len(s) \in DOMAIN s
  BY LenProperties, EmptySeq
<1>4. s # <<>> => Honest(s[Len(s)])
  BY <1>2, <1>3 DEF Tables
<1> QED BY <1>1, <1>2, <1>4 DEF _latest_task_config

\* A save of a task reads the code it has.
LEMMA PreparesTaskSave ==
  ASSUME CInv, Told, NEW q \in Requests, NEW op \in {"task version", "task draft"}, NEW t \in Tasks, NEW key \in CodeKeys,
         PrepareTask(q, op, t, key)
  PROVE  CInv' /\ Told'
<1>0. PICK c : c = _latest_task_config(t)
  OBVIOUS
<1>1. PICK r : r = [Idle EXCEPT !.op = op, !.at = "resolve", !.id = t, !.arg = key, !.code = c]
  OBVIOUS
<1>2. DOMAIN r = Parts /\ r.op = op /\ r.id = t /\ r.arg = key /\ r.at = "resolve" /\ r.code = c
  BY <1>1 DEF Idle, Parts
<1>3. Begin(q, r) /\ req[q].at = "idle" /\ t \in db.tasks
  BY <1>0, <1>1 DEF PrepareTask, Begin
<1>4. c = None \/ Honest(c)
  BY <1>0, <1>3, LatestHonest DEF CInv, Good
<1>5. Asked(r) /\ ~Halfway(r) /\ r.at # "delete" /\ ~Creating(r)
  BY <1>2, <1>4 DEF Asked, Halfway, Ops, Steps, Creating
<1>6. Goes(db, req[q], r, fresh, fresh') /\ Backed(db, req[q], r, raced)
  BY <1>2, <1>3, <1>5 DEF Goes, Backed, Checked
<1>7. UNCHANGED <<db, work, fresh, raced, uneven, away, behind>> /\ fresh' \subseteq fresh
  BY DEF PrepareTask, history
<1> QED BY <1>3, <1>5, <1>6, <1>7, Begins

\* What a reference resolves to is honest where it passes the checks.
LEMMA ResolvedHonest ==
  ASSUME object \in Contents, NEW key \in CodeKeys, NEW previous, previous = None \/ Honest(previous),
         NEW code, code = _resolve_task_code(key, previous),
         validate_task_config(Configuration(code.source), {BASE_RUNNER}, {})
  PROVE  Honest(code)
<1>1. CASE key = "inline"
  <2>1. PICK source : source = "sent"
    OBVIOUS
  <2>2. code = [key |-> key, source |-> source, params |-> Params(key)] /\ source \in Sources
    BY <1>1, <2>1 DEF _resolve_task_code, Sources
  <2>3. code \in Codes /\ code.key = key
    BY <2>2 DEF Codes
  <2> QED BY <1>1, <2>3 DEF Honest
<1>2. CASE key # "inline" /\ previous # None /\ previous.key = key
  BY <1>2 DEF _resolve_task_code
<1>3. CASE key # "inline" /\ ~(previous # None /\ previous.key = key)
  <2>1. PICK source : source = IF key = "catalog" THEN "catalog" ELSE object
    OBVIOUS
  <2>2. source \in Sources
    BY <2>1 DEF Sources
  <2>3. code = [key |-> key, source |-> source, params |-> Params(key)]
    BY <1>3, <2>1 DEF _resolve_task_code, Fetched
  <2>4. code \in Codes /\ code.key = key /\ code.source = source
    BY <2>2, <2>3 DEF Codes
  <2> QED BY <1>3, <2>1, <2>4 DEF Honest, Contents
<1> QED BY <1>1, <1>2, <1>3

\* _prepare_task_config: the code resolves and passes, or the request ends.
LEMMA Resolving ==
  ASSUME CInv, Told, Workers, NEW q \in Requests, Resolve(q)
  PROVE  CInv' /\ Told'
<1>0. /\ DOMAIN req = Requests /\ Asked(req[q]) /\ DOMAIN req[q] = Parts /\ req[q].at = "resolve"
      /\ req[q].id \in Tasks /\ req[q].op \in {"new task", "task version", "task draft"}
      /\ req[q].arg \in CodeKeys /\ (req[q].code = None \/ Honest(req[q].code))
  BY DEF CInv, Good, Reqs, Resolve, Asked
<1>1. PICK code : code = _resolve_task_code(req[q].arg, req[q].code)
  OBVIOUS
<1>2. UNCHANGED <<db, work, fresh, raced, uneven, away, behind>> /\ fresh' \subseteq fresh /\ uneven \subseteq uneven'
  BY DEF Resolve, history
<1>3. Leaves(db, req[q], uneven')
  BY <1>0 DEF Leaves, Halfway
<1>4. CASE ~validate_task_config(Configuration(code.source), {BASE_RUNNER}, {})
  <2>1. End(q)
    BY <1>1, <1>4 DEF Resolve
  <2> QED BY <1>2, <1>3, <2>1, Ends
<1>5. CASE validate_task_config(Configuration(code.source), {BASE_RUNNER}, {})
  <2>1. Honest(code)
    BY <1>0, <1>1, <1>5, ResolvedHonest DEF Workers
  <2>2. PICK at : at = CASE req[q].op = "new task"     -> "create"
                         [] req[q].op = "task version" -> "add"
                         [] req[q].op = "task draft"   -> "draft"
    OBVIOUS
  <2>3. /\ req[q].op = "new task" => at = "create"
        /\ req[q].op = "task version" => at = "add"
        /\ req[q].op = "task draft" => at = "draft"
    BY <2>2
  <2>4. PICK r : r = [req[q] EXCEPT !.code = code, !.arg = None, !.at = at]
    OBVIOUS
  <2>5. /\ DOMAIN r = Parts /\ r.op = req[q].op /\ r.id = req[q].id /\ r.code = code /\ r.at = at
        /\ r.arg = None
    BY <1>0, <2>4 DEF Parts
  <2>6. req' = [req EXCEPT ![q] = r]
    BY <1>0, <1>1, <1>5, <2>2, <2>4 DEF Resolve
  <2>7. Asked(r) /\ ~Halfway(r) /\ r.at # "delete" /\ ~Checked(r) /\ (Creating(r) => Creating(req[q]))
    BY <1>0, <2>1, <2>3, <2>5 DEF Asked, Halfway, Checked, Creating, Ops, Steps
  <2>8. Goes(db, req[q], r, fresh, fresh') /\ Backed(db, req[q], r, raced)
    BY <1>0, <2>5, <2>7 DEF Goes, Backed
  <2> QED BY <1>2, <1>3, <2>6, <2>7, <2>8, Turns
<1> QED BY <1>4, <1>5

\* A row is read to be written back, a run or a deletion begins.
LEMMA ReadsPipeline ==
  ASSUME CInv, Told, NEW q \in Requests, NEW p \in Pipelines, p \in DOMAIN db.pipelines,
         NEW r, Begin(q, r), DOMAIN r = Parts, r.op \in {"schedule", "run", "delete"}, r.at \in {"write", "cancel"},
         r.id = p, UNCHANGED <<db, work, fresh, raced, uneven, away, behind>>
  PROVE  CInv' /\ Told'
<1>1. Asked(r) /\ ~Halfway(r) /\ r.at # "delete" /\ ~Creating(r) /\ ~Checked(r)
  BY DEF Asked, Halfway, Creating, Checked, Ops, Steps
<1>2. req[q].at = "idle" /\ fresh' \subseteq fresh
  BY DEF Begin
<1>3. Goes(db, req[q], r, fresh, fresh') /\ Backed(db, req[q], r, raced)
  BY <1>1, <1>2 DEF Goes, Backed
<1> QED BY <1>1, <1>2, <1>3, Begins

\* update_schedule reads the row.
LEMMA ReadsSchedule ==
  ASSUME CInv, Told, NEW q \in Requests, NEW p \in Pipelines, NEW pin, ReadSchedule(q, p, pin)
  PROVE  CInv' /\ Told'
<1>1. PICK row : row = [owner |-> IF db.pipelines[p].owner = None THEN Me ELSE db.pipelines[p].owner, pinned |-> pin]
  OBVIOUS
<1>2. PICK r : r = [Idle EXCEPT !.op = "schedule", !.at = "write", !.id = p, !.row = row]
  OBVIOUS
<1>3. DOMAIN r = Parts /\ r.op = "schedule" /\ r.at = "write" /\ r.id = p
  BY <1>2 DEF Idle, Parts
<1>4. /\ Begin(q, r) /\ p \in DOMAIN db.pipelines /\ UNCHANGED <<db, work, fresh, raced, uneven, away, behind>>
  BY <1>1, <1>2 DEF ReadSchedule, history
<1> QED BY <1>3, <1>4, ReadsPipeline

\* set_owner reads the row.
LEMMA SetsOwner ==
  ASSUME CInv, Told, NEW q \in Requests, NEW p \in Pipelines, NEW admin, NEW to, SetOwner(q, p, admin, to)
  PROVE  CInv' /\ Told'
<1>1. PICK row : row = [db.pipelines[p] EXCEPT !.owner = to]
  OBVIOUS
<1>2. PICK r : r = [Idle EXCEPT !.op = "schedule", !.at = "write", !.id = p, !.row = row]
  OBVIOUS
<1>3. DOMAIN r = Parts /\ r.op = "schedule" /\ r.at = "write" /\ r.id = p
  BY <1>2 DEF Idle, Parts
<1>4. /\ Begin(q, r) /\ p \in DOMAIN db.pipelines /\ UNCHANGED <<db, work, fresh, raced, uneven, away, behind>>
  BY <1>1, <1>2 DEF SetOwner, history
<1> QED BY <1>3, <1>4, ReadsPipeline

\* start_run reads the version to run.
LEMMA StartsRun ==
  ASSUME CInv, Told, NEW q \in Requests, NEW p \in Pipelines, NEW home, StartRun(q, p, home)
  PROVE  CInv' /\ Told'
<1>1. PICK v : v = get_version(db, p, db.pipelines[p].pinned)
  OBVIOUS
<1>2. PICK r : r = [Idle EXCEPT !.op = "run", !.at = "write", !.id = p, !.home = home, !.level = v]
  OBVIOUS
<1>3. DOMAIN r = Parts /\ r.op = "run" /\ r.at = "write" /\ r.id = p
  BY <1>2 DEF Idle, Parts
<1>4. /\ Begin(q, r) /\ p \in DOMAIN db.pipelines /\ UNCHANGED <<db, work, fresh, raced, uneven, away, behind>>
  BY <1>1, <1>2 DEF StartRun, history
<1> QED BY <1>3, <1>4, ReadsPipeline

\* delete_pipeline begins.
LEMMA BeginsDelete ==
  ASSUME CInv, Told, NEW q \in Requests, NEW p \in Pipelines, NEW home, DeleteBegin(q, p, home)
  PROVE  CInv' /\ Told'
<1>2. PICK r : r = [Idle EXCEPT !.op = "delete", !.at = "cancel", !.id = p, !.home = home]
  OBVIOUS
<1>3. DOMAIN r = Parts /\ r.op = "delete" /\ r.at = "cancel" /\ r.id = p
  BY <1>2 DEF Idle, Parts
<1>4. /\ Begin(q, r) /\ p \in DOMAIN db.pipelines /\ UNCHANGED <<db, work, fresh, raced, uneven, away, behind>>
  BY <1>2 DEF DeleteBegin, history
<1> QED BY <1>3, <1>4, ReadsPipeline

-----------------------------------------------------------------------------
(* Steps that write to the store.                                           *)

\* Request q becomes r as the store changes; the workers stay.
Writes(q, r) ==
  /\ req' = [req EXCEPT ![q] = r] /\ Asked(r) /\ r.at # "delete"
  /\ db'.runs = db.runs
  /\ UNCHANGED <<work, away, behind>>

\* A write that touches no run leaves the workers as told as they were.
LEMMA WritesTold ==
  ASSUME CInv, Told, NEW q \in Requests, NEW r, Writes(q, r)
  PROVE  Told'
<1>1. PICK rq1 : rq1 = req'
  OBVIOUS
<1>2. PICK e : e = db'
  OBVIOUS
<1>3. rq1 = [req EXCEPT ![q] = r] /\ r.at # "delete" /\ e.runs = db.runs
  BY <1>1, <1>2 DEF Writes
<1>4. Stopped(db, req, work, away \cup behind) /\ Reqs(req)
  BY DEF Told, CInv, Good
<1>5. Stopped(e, rq1, work, away \cup behind)
  BY <1>3, <1>4, StoppedTurn
<1> QED BY <1>1, <1>2, <1>5 DEF Told, Writes

\* create_pipeline inserts the row.
LEMMA CreatesPipeline ==
  ASSUME CInv, Told, NEW q \in Requests, CreatePipeline(q)
  PROVE  CInv' /\ Told'
<1>0. /\ DOMAIN req = Requests /\ Asked(req[q]) /\ DOMAIN req[q] = Parts /\ req[q].at = "create"
      /\ req[q].id \in Pipelines /\ req[q].op = "version" /\ req[q].arg \in Specs \cup {None}
      /\ Tables(db)
  BY IdsAssumption DEF CInv, Good, Reqs, CreatePipeline, Asked
<1>1. PICK p : p = req[q].id
  OBVIOUS
<1>2. PICK e : e = db'
  OBVIOUS
<1>3. PICK rq1 : rq1 = req'
  OBVIOUS
<1>4. e = create_pipeline(db, p) /\ p \in Pipelines /\ UNCHANGED <<fresh, raced, uneven, work, away, behind>>
  BY <1>1, <1>2 DEF CreatePipeline, history
<1>5. e.runs = db.runs
  BY <1>0, <1>4 DEF create_pipeline, Tables, Columns
<1>6. PICK r : /\ req' = [req EXCEPT ![q] = r] /\ Asked(r) /\ ~Halfway(r) /\ ~Creating(r) /\ r.at # "delete"
               /\ r.at = "idle" \/ r.id = p
               /\ Checked(r) => Checked(req[q]) /\ r.arg = req[q].arg
  <2>1. CASE req[q].arg = None
    <3>1. req' = [req EXCEPT ![q] = Idle]
      BY <2>1 DEF CreatePipeline, End
    <3>2. ~Creating(Idle)
      BY DEF Creating, Idle
    <3> QED BY <3>1, <3>2, IdleFacts
  <2>2. CASE req[q].arg # None
    <3>1. PICK r : r = [req[q] EXCEPT !.at = "add"]
      OBVIOUS
    <3>2. req' = [req EXCEPT ![q] = r]
      BY <2>2, <3>1, <1>0 DEF CreatePipeline, Then
    <3>3. DOMAIN r = Parts /\ r.at = "add" /\ r.op = "version" /\ r.id = p /\ r.arg = req[q].arg
      BY <1>0, <1>1, <3>1 DEF Parts
    <3>4. Asked(r) /\ ~Halfway(r) /\ ~Creating(r) /\ r.at # "delete" /\ Checked(req[q])
      BY <1>0, <1>1, <2>2, <3>3 DEF Asked, Halfway, Creating, Ops, Steps, Checked
    <3> QED BY <3>2, <3>3, <3>4
  <2> QED BY <2>1, <2>2
<1>7. rq1 = [req EXCEPT ![q] = r] /\ Good(db, req, fresh, raced, uneven)
  BY <1>3, <1>6 DEF CInv
<1>8. Good(e, rq1, fresh, raced, uneven)
  BY <1>0, <1>1, <1>4, <1>6, <1>7, GoodPipeline
<1>9. Writes(q, r)
  BY <1>2, <1>4, <1>5, <1>6 DEF Writes
<1>10. Told'
  BY <1>9, WritesTold
<1> QED BY <1>2, <1>3, <1>4, <1>8, <1>10 DEF CInv

\* Another save of the same stood between its writes.
LEMMA CrossingFacts ==
  ASSUME NEW q \in Requests, NEW id, \E o \in Requests \ {q} : Halfway(req[o]) /\ req[o].id = id
  PROVE  id \in Crossing(q, id)
BY DEF Crossing, Between, Halfway

\* add_version under the row's lock, or the pipeline is gone.
LEMMA AddsVersion ==
  ASSUME CInv, Told, NEW q \in Requests, AddVersion(q)
  PROVE  CInv' /\ Told'
<1>0. /\ DOMAIN req = Requests /\ Asked(req[q]) /\ DOMAIN req[q] = Parts /\ req[q].at = "add"
      /\ req[q].id \in Pipelines /\ Tables(db)
  BY DEF CInv, Good, Reqs, AddVersion, Asked
<1>1. PICK p : p = req[q].id
  OBVIOUS
<1>2. PICK e : e = db'
  OBVIOUS
<1>3. PICK rq1 : rq1 = req'
  OBVIOUS
<1>4. PICK un1 : un1 = uneven'
  OBVIOUS
<1>5. e = add_version(db, p, req[q].arg) /\ UNCHANGED <<fresh, raced, work, away, behind>> /\ un1 = uneven \cup Crossing(q, p)
  BY <1>1, <1>2, <1>4 DEF AddVersion
<1>6. CASE p \notin DOMAIN db.pipelines
  <2>1. End(q) /\ UNCHANGED db
    BY <1>1, <1>2, <1>5, <1>6 DEF AddVersion, add_version, Has
  <2>2. uneven \subseteq uneven' /\ Leaves(db, req[q], uneven')
    BY <1>0, <1>4, <1>5 DEF Leaves, Halfway
  <2> QED BY <1>5, <2>1, <2>2, Ends
<1>7. CASE p \in DOMAIN db.pipelines
  <2>1. PICK level : level = Len(e.versions[p])
    OBVIOUS
  <2>2. PICK r : r = [req[q] EXCEPT !.at = "draft", !.level = level]
    OBVIOUS
  <2>3. rq1 = [req EXCEPT ![q] = r]
    BY <1>0, <1>1, <1>2, <1>3, <1>7, <2>1, <2>2 DEF AddVersion
  <2>4. Asked(r) /\ Halfway(r) /\ r.id = p /\ r.level = Len(e.versions[p]) /\ r.at # "delete"
    <3>1. /\ DOMAIN r = Parts /\ r.at = "draft" /\ r.level = level
          /\ r.id = req[q].id /\ r.op = req[q].op /\ r.code = req[q].code
      BY <1>0, <2>2 DEF Parts
    <3>2. Asked(r) /\ Halfway(r)
      BY <1>0, <3>1 DEF Asked, Halfway, Ops, Steps
    <3> QED BY <1>1, <2>1, <3>1, <3>2
  <2>5. uneven \subseteq un1 /\ Crossed(req, q, p, un1)
    BY <1>5, CrossingFacts DEF Crossed
  <2>6. Good(db, req, fresh, raced, uneven)
    BY DEF CInv
  <2>7. Good(e, rq1, fresh, raced, un1)
    BY <1>0, <1>1, <1>5, <1>7, <2>3, <2>4, <2>5, <2>6, GoodVersion
  <2>8. e.runs = db.runs
    BY <1>0, <1>5 DEF add_version, Tables, Columns
  <2>9. Writes(q, r)
    BY <1>2, <1>3, <1>5, <2>3, <2>4, <2>8 DEF Writes
  <2>10. Told'
    BY <2>9, WritesTold
  <2> QED BY <1>2, <1>3, <1>4, <1>5, <2>7, <2>10 DEF CInv
<1> QED BY <1>6, <1>7

\* The draft of a pipeline, refreshed or replaced.
LEMMA SavesDraft ==
  ASSUME CInv, Told, NEW q \in Requests, SaveDraft(q)
  PROVE  CInv' /\ Told'
<1>0. /\ DOMAIN req = Requests /\ Asked(req[q]) /\ DOMAIN req[q] = Parts /\ req[q].at = "draft"
      /\ req[q].id \in Pipelines /\ req[q].op \in {"version", "draft"} /\ Tables(db)
  BY IdsAssumption DEF CInv, Good, Reqs, SaveDraft, Asked
<1>1. PICK p : p = req[q].id
  OBVIOUS
<1>2. PICK e : e = db'
  OBVIOUS
<1>3. PICK rq1 : rq1 = req'
  OBVIOUS
<1>4. PICK level : level = IF req[q].op = "version" THEN req[q].level
                           ELSE IF p \in DOMAIN db.versions THEN Len(db.versions[p]) ELSE 0
  OBVIOUS
<1>5. e = save_pipeline_draft(db, p, req[q].arg, level) /\ UNCHANGED <<fresh, raced, uneven, work, away, behind>> /\ End(q)
  BY <1>1, <1>2, <1>4 DEF SaveDraft, history
<1>6. CASE p \notin DOMAIN db.pipelines
  <2>1. UNCHANGED db
    BY <1>2, <1>5, <1>6 DEF save_pipeline_draft, Has
  <2>2. uneven \subseteq uneven' /\ Leaves(db, req[q], uneven')
    BY <1>0, <1>1, <1>5, <1>6, IdsAssumption DEF Leaves, Tables
  <2> QED BY <1>5, <2>1, <2>2, Ends
<1>7. CASE p \in DOMAIN db.pipelines
  <2>1. PICK r : r = Idle
    OBVIOUS
  <2>2. rq1 = [req EXCEPT ![q] = r] /\ Asked(r) /\ r.at = "idle"
    BY <1>3, <1>5, <2>1, IdleFacts DEF End
  <2>3. (Halfway(req[q]) => level = req[q].level) /\ (~Halfway(req[q]) => level = Len(db.versions[p]))
    BY <1>0, <1>4, <1>7 DEF Halfway, Tables
  <2>4. Good(db, req, fresh, raced, uneven)
    BY DEF CInv
  <2>5. Good(e, rq1, fresh, raced, uneven)
    BY <1>0, <1>1, <1>5, <1>7, <2>2, <2>3, <2>4, GoodDraft
  <2>6. e.runs = db.runs
    BY <1>0, <1>5 DEF save_pipeline_draft, Tables, Columns
  <2>7. Writes(q, r)
    BY <1>2, <1>3, <1>5, <2>2, <2>6 DEF Writes
  <2>8. Told'
    BY <2>7, WritesTold
  <2> QED BY <1>2, <1>3, <1>5, <2>5, <2>8 DEF CInv
<1> QED BY <1>6, <1>7

\* create_task inserts the task.
LEMMA CreatesTask ==
  ASSUME CInv, Told, NEW q \in Requests, CreateTask(q)
  PROVE  CInv' /\ Told'
<1>0. /\ DOMAIN req = Requests /\ Asked(req[q]) /\ DOMAIN req[q] = Parts /\ req[q].at = "create"
      /\ req[q].id \in Tasks /\ Honest(req[q].code) /\ Tables(db)
  BY IdsAssumption DEF CInv, Good, Reqs, CreateTask, Asked
<1>1. PICK t : t = req[q].id
  OBVIOUS
<1>2. PICK e : e = db'
  OBVIOUS
<1>3. PICK rq1 : rq1 = req'
  OBVIOUS
<1>4. e = create_task(db, t) /\ t \in Tasks /\ UNCHANGED <<fresh, raced, uneven, work, away, behind>>
  BY <1>0, <1>1, <1>2 DEF CreateTask, history
<1>5. e.runs = db.runs
  BY <1>0, <1>4 DEF create_task, Tables, Columns
<1>6. PICK r : r = [req[q] EXCEPT !.op = "task version", !.at = "add"]
  OBVIOUS
<1>7. rq1 = [req EXCEPT ![q] = r] /\ DOMAIN r = Parts /\ r.at = "add" /\ r.op = "task version" /\ r.id = t
      /\ r.code = req[q].code
  BY <1>0, <1>1, <1>3, <1>6 DEF CreateTask, Parts
<1>8. Asked(r) /\ ~Halfway(r) /\ ~Creating(r) /\ r.at # "delete"
  BY <1>0, <1>1, <1>7 DEF Asked, Halfway, Creating, Ops, Steps
<1>9. Good(e, rq1, fresh, raced, uneven)
  BY <1>0, <1>1, <1>4, <1>7, <1>8, GoodTask DEF CInv
<1>10. Writes(q, r)
  BY <1>2, <1>3, <1>4, <1>5, <1>7, <1>8 DEF Writes
<1>11. Told'
  BY <1>10, WritesTold
<1> QED BY <1>2, <1>3, <1>4, <1>9, <1>11 DEF CInv

\* add_task_version, or the task is gone.
LEMMA AddsTaskVersion ==
  ASSUME CInv, Told, NEW q \in Requests, AddTaskVersion(q)
  PROVE  CInv' /\ Told'
<1>0. /\ DOMAIN req = Requests /\ Asked(req[q]) /\ DOMAIN req[q] = Parts /\ req[q].at = "add"
      /\ req[q].id \in Tasks /\ Tables(db)
  BY DEF CInv, Good, Reqs, AddTaskVersion, Asked
<1>1. PICK t : t = req[q].id
  OBVIOUS
<1>2. PICK e : e = db'
  OBVIOUS
<1>3. PICK rq1 : rq1 = req'
  OBVIOUS
<1>4. PICK un1 : un1 = uneven'
  OBVIOUS
<1>5. e = add_task_version(db, t, req[q].code) /\ UNCHANGED <<fresh, raced, work, away, behind>> /\ un1 = uneven \cup Crossing(q, t)
  BY <1>1, <1>2, <1>4 DEF AddTaskVersion
<1>6. CASE t \notin db.tasks
  <2>1. End(q) /\ UNCHANGED db
    BY <1>1, <1>2, <1>5, <1>6 DEF AddTaskVersion, add_task_version
  <2>2. uneven \subseteq uneven' /\ Leaves(db, req[q], uneven')
    BY <1>0, <1>4, <1>5 DEF Leaves, Halfway
  <2> QED BY <1>5, <2>1, <2>2, Ends
<1>7. CASE t \in db.tasks
  <2>1. PICK level : level = Len(e.task_versions[t])
    OBVIOUS
  <2>2. PICK r : r = [req[q] EXCEPT !.at = "draft", !.level = level]
    OBVIOUS
  <2>3. rq1 = [req EXCEPT ![q] = r]
    BY <1>0, <1>1, <1>2, <1>3, <1>7, <2>1, <2>2 DEF AddTaskVersion
  <2>4. Asked(r) /\ Halfway(r) /\ r.id = t /\ r.level = Len(e.task_versions[t]) /\ r.at # "delete"
    <3>1. /\ DOMAIN r = Parts /\ r.at = "draft" /\ r.level = level
          /\ r.id = req[q].id /\ r.op = req[q].op /\ r.code = req[q].code
      BY <1>0, <2>2 DEF Parts
    <3>2. Asked(r) /\ Halfway(r)
      BY <1>0, <3>1 DEF Asked, Halfway, Ops, Steps
    <3> QED BY <1>1, <2>1, <3>1, <3>2
  <2>5. uneven \subseteq un1 /\ Crossed(req, q, t, un1)
    BY <1>5, CrossingFacts DEF Crossed
  <2>6. Good(db, req, fresh, raced, uneven)
    BY DEF CInv
  <2>7. Good(e, rq1, fresh, raced, un1)
    BY <1>0, <1>1, <1>5, <1>7, <2>3, <2>4, <2>5, <2>6, GoodTaskVersion
  <2>8. e.runs = db.runs
    BY <1>0, <1>5 DEF add_task_version, Tables, Columns
  <2>9. Writes(q, r)
    BY <1>2, <1>3, <1>5, <2>3, <2>4, <2>8 DEF Writes
  <2>10. Told'
    BY <2>9, WritesTold
  <2> QED BY <1>2, <1>3, <1>4, <1>5, <2>7, <2>10 DEF CInv
<1> QED BY <1>6, <1>7

\* The draft of a task, refreshed or replaced.
LEMMA SavesTaskDraft ==
  ASSUME CInv, Told, NEW q \in Requests, SaveTaskDraft(q)
  PROVE  CInv' /\ Told'
<1>0. /\ DOMAIN req = Requests /\ Asked(req[q]) /\ DOMAIN req[q] = Parts /\ req[q].at = "draft"
      /\ req[q].id \in Tasks /\ req[q].op \in {"task version", "task draft"} /\ Tables(db)
  BY IdsAssumption DEF CInv, Good, Reqs, SaveTaskDraft, Asked
<1>1. PICK t : t = req[q].id
  OBVIOUS
<1>2. PICK e : e = db'
  OBVIOUS
<1>3. PICK rq1 : rq1 = req'
  OBVIOUS
<1>4. PICK level : level = IF req[q].op = "task version" THEN req[q].level
                           ELSE IF t \in db.tasks THEN Len(db.task_versions[t]) ELSE 0
  OBVIOUS
<1>5. e = save_task_draft(db, t, req[q].code, level) /\ UNCHANGED <<fresh, raced, uneven, work, away, behind>> /\ End(q)
  BY <1>1, <1>2, <1>4 DEF SaveTaskDraft, history
<1>6. CASE t \notin db.tasks
  <2>1. UNCHANGED db
    BY <1>2, <1>5, <1>6 DEF save_task_draft
  <2>2. uneven \subseteq uneven' /\ Leaves(db, req[q], uneven')
    BY <1>0, <1>1, <1>5, <1>6, IdsAssumption DEF Leaves, Tables
  <2> QED BY <1>5, <2>1, <2>2, Ends
<1>7. CASE t \in db.tasks
  <2>1. PICK r : r = Idle
    OBVIOUS
  <2>2. rq1 = [req EXCEPT ![q] = r] /\ Asked(r) /\ r.at = "idle"
    BY <1>3, <1>5, <2>1, IdleFacts DEF End
  <2>3. (Halfway(req[q]) => level = req[q].level) /\ (~Halfway(req[q]) => level = Len(db.task_versions[t]))
    BY <1>0, <1>4, <1>7 DEF Halfway
  <2>4. Good(db, req, fresh, raced, uneven)
    BY DEF CInv
  <2>5. Good(e, rq1, fresh, raced, uneven)
    BY <1>0, <1>1, <1>5, <1>7, <2>2, <2>3, <2>4, GoodTaskDraft
  <2>6. e.runs = db.runs
    BY <1>0, <1>5 DEF save_task_draft, Tables, Columns
  <2>7. Writes(q, r)
    BY <1>2, <1>3, <1>5, <2>2, <2>6 DEF Writes
  <2>8. Told'
    BY <2>7, WritesTold
  <2> QED BY <1>2, <1>3, <1>5, <2>5, <2>8 DEF CInv
<1> QED BY <1>6, <1>7

\* delete_task is refused where a version names the task.
LEMMA DeletesTask ==
  ASSUME CInv, Told, NEW q \in Requests, NEW t \in Tasks, DeleteTask(q, t)
  PROVE  CInv' /\ Told'
<1>0. DOMAIN req = Requests /\ Tables(db) /\ Good(db, req, fresh, raced, uneven)
  BY DEF CInv, Good, Reqs
<1>1. PICK r : r = Idle
  OBVIOUS
<1>2. PICK e : e = db'
  OBVIOUS
<1>3. PICK rq1 : rq1 = req'
  OBVIOUS
<1>4. PICK ra1 : ra1 = raced'
  OBVIOUS
<1>5. /\ Begin(q, r) /\ req[q].at = "idle" /\ rq1 = [req EXCEPT ![q] = r] /\ t \in db.tasks
      /\ e = delete_task(db, t) /\ UNCHANGED <<fresh, uneven, work, away, behind>>
      /\ ra1 = IF Unstored(t) /\ e # db THEN raced \cup {t} ELSE raced
  BY <1>1, <1>2, <1>3, <1>4 DEF DeleteTask, Begin
<1>6. Asked(r) /\ r.at = "idle" /\ ~Halfway(r) /\ ~Checked(r)
  BY <1>1, IdleFacts
<1>7. CASE Referenced(db, t)
  <2>1. UNCHANGED <<db, raced>>
    BY <1>2, <1>4, <1>5, <1>7 DEF delete_task
  <2>2. Goes(db, req[q], r, fresh, fresh') /\ Backed(db, req[q], r, raced) /\ fresh' \subseteq fresh
    BY <1>5, <1>6 DEF Goes, Backed
  <2> QED BY <1>5, <1>6, <2>1, <2>2, Begins
<1>8. CASE ~Referenced(db, t)
  <2>1. e.tasks = db.tasks \ {t} /\ e.runs = db.runs
    BY <1>0, <1>5, <1>8 DEF delete_task, Tables, Columns
  <2>2. e # db
    BY <1>5, <2>1
  <2>3. (\E o \in Requests : Checked(req[o]) /\ \E ref \in Range(req[o].arg) : ref.task = t) => Unstored(t)
    BY DEF Unstored, Checked
  <2>4. raced \subseteq ra1 /\ Raced(req, t, ra1)
    BY <1>5, <2>2, <2>3 DEF Raced
  <2>5. Good(e, rq1, fresh, ra1, uneven)
    BY <1>0, <1>5, <1>6, <1>8, <2>4, GoodTaskGone
  <2>6. Writes(q, r)
    BY <1>2, <1>3, <1>5, <1>6, <2>1 DEF Writes
  <2>7. Told'
    BY <2>6, WritesTold
  <2> QED BY <1>2, <1>3, <1>4, <1>5, <2>5, <2>7 DEF CInv
<1> QED BY <1>7, <1>8

-----------------------------------------------------------------------------
(* Steps on schedules and runs.                                             *)

\* Only schedules and runs change.
LEMMA Shifts ==
  ASSUME CInv, SameCatalogue(db, db'), Rooted(db'), UNCHANGED <<req, fresh, raced, uneven>>
  PROVE  CInv'
<1>1. PICK e : e = db'
  OBVIOUS
<1>2. SameCatalogue(db, e) /\ Rooted(e) /\ Good(db, req, fresh, raced, uneven)
  BY <1>1 DEF CInv
<1>3. Good(e, req, fresh, raced, uneven)
  BY <1>2, GoodSame
<1> QED BY <1>1, <1>3 DEF CInv

\* And request q ends or goes on to delete its pipeline.
LEMMA ShiftsTurn ==
  ASSUME CInv, SameCatalogue(db, db'), Rooted(db'), UNCHANGED <<fresh, raced, uneven>>,
         NEW q \in Requests, NEW r, req' = [req EXCEPT ![q] = r], Asked(r), r.at \in {"idle", "delete"},
         req[q].at \in {"write", "cancel"}, r.at = "delete" => r.id = req[q].id
  PROVE  CInv'
<1>1. PICK e : e = db'
  OBVIOUS
<1>2. PICK rq1 : rq1 = req'
  OBVIOUS
<1>3. SameCatalogue(db, e) /\ Rooted(e) /\ Good(db, req, fresh, raced, uneven) /\ rq1 = [req EXCEPT ![q] = r]
  BY <1>1, <1>2 DEF CInv
<1>4. Good(e, req, fresh, raced, uneven)
  BY <1>3, GoodSame
<1>5. ~Halfway(r) /\ ~Checked(r) /\ ~Creating(r) /\ fresh \subseteq fresh /\ uneven \subseteq uneven
  BY DEF Halfway, Checked, Creating, Asked
<1>6. Leaves(e, req[q], uneven) /\ Goes(e, req[q], r, fresh, fresh) /\ Backed(e, req[q], r, raced)
  BY <1>5 DEF Leaves, Halfway, Goes, Backed
<1>7. Good(e, rq1, fresh, raced, uneven)
  BY <1>3, <1>4, <1>5, <1>6, GoodTurn
<1> QED BY <1>1, <1>2, <1>7 DEF CInv

\* The row goes back whole; a deleted one does not come back.
LEMMA UpdatesSchedule ==
  ASSUME CInv, Told, NEW q \in Requests, UpdateSchedule(q)
  PROVE  CInv' /\ Told'
<1>0. Tables(db) /\ Rooted(db)
  BY DEF CInv, Good, Tables, Rooted
<1>1. PICK e : e = db'
  OBVIOUS
<1>2. PICK r : r = Idle
  OBVIOUS
<1>3. /\ Asked(r) /\ r.at = "idle" /\ req' = [req EXCEPT ![q] = r] /\ req[q].at = "write"
      /\ UNCHANGED <<fresh, raced, uneven, work, away, behind>>
  BY <1>2, IdleFacts DEF UpdateSchedule, End, history
<1>4. e = update_schedule(db, req[q].id, req[q].row)
  BY <1>1 DEF UpdateSchedule
<1>5. DOMAIN e = Columns /\ DOMAIN e.pipelines = DOMAIN db.pipelines /\ e.runs = db.runs
      /\ e.versions = db.versions /\ e.drafts = db.drafts /\ e.tasks = db.tasks
      /\ e.task_versions = db.task_versions /\ e.task_drafts = db.task_drafts
  BY <1>0, <1>4 DEF update_schedule, Tables, Columns, Has
<1>6. SameCatalogue(db, e) /\ Rooted(e)
  BY <1>0, <1>5 DEF SameCatalogue, Rooted
<1>7. CInv'
  BY <1>1, <1>3, <1>6, ShiftsTurn
<1>8. Writes(q, r)
  BY <1>1, <1>3, <1>5 DEF Writes
<1> QED BY <1>7, <1>8, WritesTold

\* Run x of p has come, the others are as they were.
Inserted(d, e, x, p) ==
  /\ DOMAIN e.runs = DOMAIN d.runs \cup {x} /\ "status" \in DOMAIN e.runs[x] /\ e.runs[x].pipeline = p
  /\ \A y \in DOMAIN d.runs : y # x => e.runs[y] = d.runs[y]

\* create_run inserts a row under its pipeline and leaves the others.
LEMMA RunInserted ==
  ASSUME NEW d, Tables(d), NEW x, NEW p \in DOMAIN d.pipelines, NEW v, NEW status,
         NEW e, e = create_run(d, x, p, v, status)
  PROVE  SameCatalogue(d, e) /\ Rooted(e) /\ Inserted(d, e, x, p)
<1>1. PICK row : row = [pipeline |-> p, version |-> v, status |-> status, cancel |-> FALSE,
                        created |-> Cardinality(RunsOf(d, p))]
  OBVIOUS
<1>2. row.pipeline = p /\ "pipeline" \in DOMAIN row /\ "status" \in DOMAIN row
  BY <1>1
<1>3. /\ DOMAIN e = Columns /\ e.pipelines = d.pipelines /\ e.runs = Put(d.runs, x, row)
      /\ e.versions = d.versions /\ e.drafts = d.drafts /\ e.tasks = d.tasks
      /\ e.task_versions = d.task_versions /\ e.task_drafts = d.task_drafts
  BY <1>1 DEF create_run, Tables, Columns
<1>4. /\ DOMAIN e.runs = DOMAIN d.runs \cup {x} /\ e.runs[x] = row
      /\ \A y \in DOMAIN d.runs : y # x => e.runs[y] = d.runs[y]
  BY <1>3 DEF Put
<1>5. SameCatalogue(d, e) /\ Rooted(e)
  BY <1>2, <1>3, <1>4 DEF SameCatalogue, Rooted, Tables
<1> QED BY <1>2, <1>4, <1>5 DEF Inserted

\* A run is inserted under its pipeline; if that is about to be deleted, the
\* deletion does not know of it.
LEMMA CreatesRun ==
  ASSUME CInv, Told, Workers, NEW q \in Requests, NEW x \in Runs, CreateRun(q, x)
  PROVE  CInv' /\ Told'
<1>0. Tables(db) /\ DOMAIN req = Requests
  BY DEF CInv, Good, Reqs
<1>1. PICK e : e = db'
  OBVIOUS
<1>2. PICK r : r = Idle
  OBVIOUS
<1>3. /\ Asked(r) /\ r.at = "idle" /\ req' = [req EXCEPT ![q] = r] /\ req[q].at = "write"
      /\ UNCHANGED <<fresh, raced, uneven, behind>>
  BY <1>2, IdleFacts DEF CreateRun, End
<1>4. PICK p : p = req[q].id
  OBVIOUS
<1>5. p \in DOMAIN db.pipelines /\ e = create_run(db, x, p, req[q].level, "queued")
  BY <1>1, <1>4 DEF CreateRun, MayRun
<1>6. SameCatalogue(db, e) /\ Rooted(e) /\ Inserted(db, e, x, p)
  BY <1>0, <1>5, RunInserted
<1>7. /\ DOMAIN e.runs = DOMAIN db.runs \cup {x} /\ "status" \in DOMAIN e.runs[x] /\ e.runs[x].pipeline = p
      /\ \A y \in DOMAIN db.runs : y # x => e.runs[y] = db.runs[y]
  BY <1>6 DEF Inserted
<1>8. CInv'
  BY <1>1, <1>3, <1>6, ShiftsTurn
<1>9. PICK w : w = work'
  OBVIOUS
<1>10. PICK ex : ex = away' \cup behind'
  OBVIOUS
<1>11. PICK rq1 : rq1 = req'
  OBVIOUS
<1>12. /\ w[x].at = "queued"
       /\ \A y \in Runs : w[y].told = work[y].told /\ (y # x => w[y].at = work[y].at)
  BY <1>9 DEF CreateRun, Workers
<1>13. away \cup behind \subseteq ex /\ (Cancelled(p) => x \in ex)
  BY <1>3, <1>4, <1>10 DEF CreateRun
<1>14. \A o \in Requests : rq1[o].at = "delete" => rq1[o] = req[o]
  BY <1>0, <1>3, <1>11
<1>15. Stopped(db, req, work, away \cup behind)
  BY DEF Told
<1>16. ASSUME NEW y \in Runs, y \in DOMAIN e.runs, w[y].at \in Working
       PROVE  "status" \in DOMAIN e.runs[y] /\ (w[y].at # "queued" => e.runs[y].status = "running")
  BY <1>7, <1>12, <1>15, <1>16 DEF Stopped
<1>17. ASSUME NEW o \in Requests, rq1[o].at = "delete", NEW y \in Runs, y \in RunsOf(e, rq1[o].id), w[y].at \in Working
       PROVE  w[y].told \/ y \in ex
  <2>1. rq1[o] = req[o] /\ y \in DOMAIN e.runs /\ e.runs[y].pipeline = req[o].id
    BY <1>14, <1>17 DEF RunsOf
  <2>2. CASE y = x
    BY <1>7, <1>13, <1>17, <2>1, <2>2 DEF Cancelled
  <2>3. CASE y # x
    <3>1. y \in RunsOf(db, req[o].id)
      BY <1>7, <2>1, <2>3 DEF RunsOf
    <3> QED BY <1>12, <1>13, <1>15, <1>17, <2>1, <2>3, <3>1 DEF Stopped
  <2> QED BY <2>2, <2>3
<1>18. ASSUME NEW y \in Runs, w[y].at \in Working, y \notin DOMAIN e.runs
       PROVE  w[y].told \/ y \in ex
  BY <1>7, <1>12, <1>13, <1>15, <1>18 DEF Stopped
<1>19. Stopped(e, rq1, w, ex)
  BY <1>16, <1>17, <1>18 DEF Stopped
<1> QED BY <1>1, <1>8, <1>9, <1>10, <1>11, <1>19 DEF Told

\* A dropped fire is a row that no worker serves.
LEMMA RecordsFire ==
  ASSUME CInv, Told, Workers, NEW p \in Pipelines, NEW x \in Runs, _record_dropped_fire(p, x)
  PROVE  CInv' /\ Told'
<1>0. Tables(db)
  BY DEF CInv, Good
<1>1. PICK e : e = db'
  OBVIOUS
<1>2. PICK v : v = get_version(db, p, db.pipelines[p].pinned)
  OBVIOUS
<1>3. p \in DOMAIN db.pipelines /\ e = create_run(db, x, p, v, "skipped")
  BY <1>1, <1>2 DEF _record_dropped_fire
<1>4. SameCatalogue(db, e) /\ Rooted(e) /\ Inserted(db, e, x, p)
  BY <1>0, <1>3, RunInserted
<1>5. /\ DOMAIN e.runs = DOMAIN db.runs \cup {x}
      /\ \A y \in DOMAIN db.runs : y # x => e.runs[y] = db.runs[y]
  BY <1>4 DEF Inserted
<1>6. UNCHANGED <<req, fresh, raced, uneven, away, behind>>
  BY DEF _record_dropped_fire, history
<1>7. CInv'
  BY <1>1, <1>4, <1>6, Shifts
<1>8. PICK w : w = work'
  OBVIOUS
<1>9. /\ w[x].at \notin Working
      /\ \A y \in Runs : y # x => w[y] = work[y]
  BY <1>8 DEF _record_dropped_fire, Workers, Working
<1>10. Stopped(e, req, w, away \cup behind)
  <2>1. \A y \in Runs : w[y].at \in Working => y # x /\ w[y] = work[y]
    BY <1>9
  <2>2. \A i : \A y \in RunsOf(e, i) : y # x => y \in RunsOf(db, i)
    BY <1>5 DEF RunsOf
  <2> QED BY <1>5, <2>1, <2>2 DEF Told, Stopped
<1> QED BY <1>1, <1>6, <1>7, <1>8, <1>10 DEF Told

\* A run's row, where there is one, changes in its status or its cancel flag.
Marks(d, e) ==
  /\ DOMAIN e = Columns /\ e.pipelines = d.pipelines
  /\ e.versions = d.versions /\ e.drafts = d.drafts /\ e.tasks = d.tasks
  /\ e.task_versions = d.task_versions /\ e.task_drafts = d.task_drafts
  /\ DOMAIN e.runs = DOMAIN d.runs
  /\ \A x \in DOMAIN d.runs : /\ "pipeline" \in DOMAIN e.runs[x]
                              /\ e.runs[x].pipeline = d.runs[x].pipeline

\* Then the catalogue is the same and its runs are rooted.
LEMMA Marking ==
  ASSUME NEW d, NEW e, Marks(d, e), Rooted(d)
  PROVE  SameCatalogue(d, e) /\ Rooted(e)
<1>1. SameCatalogue(d, e)
  BY DEF Marks, SameCatalogue
<1> QED BY <1>1 DEF Marks, Rooted

\* mark_running and finish_run change no more than that.
LEMMA StatusMarks ==
  ASSUME NEW d, DOMAIN d = Columns, Rooted(d), NEW x, NEW e,
         e = d \/ e = mark_running(d, x) \/ e = finish_run(d, x)
  PROVE  Marks(d, e)
<1>0. \A y \in DOMAIN d.runs : "pipeline" \in DOMAIN d.runs[y]
  BY DEF Rooted
<1>1. CASE e = d
  BY <1>0, <1>1 DEF Marks
<1>2. ASSUME x \in DOMAIN d.runs, NEW word, e = [d EXCEPT !.runs[x].status = word]
      PROVE  Marks(d, e)
  <2>1. PICK row : row = [d.runs[x] EXCEPT !.status = word]
    OBVIOUS
  <2>2. "pipeline" \in DOMAIN row /\ row.pipeline = d.runs[x].pipeline
    BY <1>0, <1>2, <2>1
  <2>3. /\ DOMAIN e = Columns /\ e.pipelines = d.pipelines /\ e.runs = [d.runs EXCEPT ![x] = row]
        /\ e.versions = d.versions /\ e.drafts = d.drafts /\ e.tasks = d.tasks
        /\ e.task_versions = d.task_versions /\ e.task_drafts = d.task_drafts
    BY <1>2, <2>1 DEF Columns
  <2>4. DOMAIN e.runs = DOMAIN d.runs /\ e.runs[x] = row /\ \A y \in DOMAIN d.runs : y # x => e.runs[y] = d.runs[y]
    BY <1>2, <2>3
  <2> QED BY <1>0, <2>2, <2>3, <2>4 DEF Marks
<1>3. \/ e = d
      \/ x \in DOMAIN d.runs /\ e = [d EXCEPT !.runs[x].status = "running"]
      \/ x \in DOMAIN d.runs /\ e = [d EXCEPT !.runs[x].status = "over"]
  BY DEF mark_running, finish_run, Has
<1> QED BY <1>1, <1>2, <1>3

\* No row but x's changes.
OthersKept(d, e, x) == \A y \in DOMAIN d.runs : y # x => e.runs[y] = d.runs[y]

\* And no other row; a queued run that is marked runs.
LEMMA StatusesLeft ==
  ASSUME NEW d, DOMAIN d = Columns, NEW x, NEW e
  PROVE  /\ (e = d \/ e = mark_running(d, x) \/ e = finish_run(d, x)) => OthersKept(d, e, x)
         /\ e = mark_running(d, x) /\ x \in DOMAIN d.runs /\ d.runs[x].status = "queued" /\ "status" \in DOMAIN d.runs[x] =>
              "status" \in DOMAIN e.runs[x] /\ e.runs[x].status = "running"
<1>1. ASSUME NEW word, x \in DOMAIN d.runs, e = [d EXCEPT !.runs[x].status = word]
      PROVE  /\ OthersKept(d, e, x)
             /\ "status" \in DOMAIN d.runs[x] => "status" \in DOMAIN e.runs[x] /\ e.runs[x].status = word
  <2>1. PICK row : row = [d.runs[x] EXCEPT !.status = word]
    OBVIOUS
  <2>2. e.runs = [d.runs EXCEPT ![x] = row]
    BY <1>1, <2>1 DEF Columns
  <2>3. "status" \in DOMAIN d.runs[x] => "status" \in DOMAIN row /\ row.status = word
    BY <2>1
  <2> QED BY <1>1, <2>2, <2>3 DEF OthersKept
<1>2. \/ mark_running(d, x) = d /\ ~(x \in DOMAIN d.runs /\ d.runs[x].status = "queued")
      \/ x \in DOMAIN d.runs /\ mark_running(d, x) = [d EXCEPT !.runs[x].status = "running"]
  BY DEF mark_running, Has
<1>3. \/ finish_run(d, x) = d
      \/ x \in DOMAIN d.runs /\ finish_run(d, x) = [d EXCEPT !.runs[x].status = "over"]
  <2>1. CASE Has(d.runs, x) /\ d.runs[x].status \in Active
    BY <2>1 DEF finish_run, Has
  <2>2. CASE ~(Has(d.runs, x) /\ d.runs[x].status \in Active)
    BY <2>2 DEF finish_run
  <2> QED BY <2>1, <2>2
<1>4. OthersKept(d, d, x)
  BY DEF OthersKept
<1> QED BY <1>1, <1>2, <1>3, <1>4

\* A worker starts, registers, is told or ends.
LEMMA Works ==
  ASSUME CInv, Told, Workers, NEW x \in Runs,
         WorkerStarts(x) \/ WorkerRegisters(x) \/ Watch(x) \/ WorkerEnds(x)
  PROVE  CInv' /\ Told'
<1>0. Tables(db) /\ Rooted(db) /\ DOMAIN db = Columns
  BY DEF CInv, Good, Tables, Rooted
<1>1. PICK e : e = db'
  OBVIOUS
<1>2. e = db \/ e = mark_running(db, x) \/ e = finish_run(db, x)
  BY <1>1 DEF WorkerStarts, WorkerRegisters, Watch, WorkerEnds
<1>3. Marks(db, e)
  BY <1>0, <1>2, StatusMarks
<1>4. SameCatalogue(db, e) /\ Rooted(e)
  BY <1>0, <1>3, Marking
<1>5. UNCHANGED <<req, fresh, raced, uneven, away, behind>>
  BY DEF WorkerStarts, WorkerRegisters, Watch, WorkerEnds, history
<1>6. CInv'
  BY <1>1, <1>4, <1>5, Shifts
<1>7. \A y \in Runs : /\ work[y].told => work'[y].told
                      /\ y # x => work'[y] = work[y]
  BY DEF Workers, WorkerStarts, WorkerRegisters, Watch, WorkerEnds
<1>8. work[x].at \in Working
  BY DEF WorkerStarts, WorkerRegisters, Watch, WorkerEnds, Working
<1>9. DOMAIN e.runs = DOMAIN db.runs /\ \A i : RunsOf(e, i) = RunsOf(db, i)
  BY <1>3 DEF Marks, RunsOf
<1>10. Stopped(db, req, work, away \cup behind)
  BY DEF Told
<1>11. PICK w : w = work'
  OBVIOUS
<1>12. ASSUME NEW y \in Runs, y \in DOMAIN e.runs, w[y].at \in Working
       PROVE  "status" \in DOMAIN e.runs[y] /\ (w[y].at # "queued" => e.runs[y].status = "running")
  <2>1. CASE y # x
    <3>1. OthersKept(db, e, x)
      BY <1>0, <1>2, StatusesLeft
    <3>2. e.runs[y] = db.runs[y] /\ w[y] = work[y]
      BY <1>7, <1>9, <1>11, <1>12, <2>1, <3>1 DEF OthersKept
    <3> QED BY <1>9, <1>10, <1>12, <3>2 DEF Stopped
  <2>2. CASE y = x
    <3>1. x \in DOMAIN db.runs /\ "status" \in DOMAIN db.runs[x]
          /\ (work[x].at # "queued" => db.runs[x].status = "running")
      BY <1>8, <1>9, <1>10, <1>12, <2>2 DEF Stopped
    <3>2. CASE WorkerStarts(x)
      <4>1. e = mark_running(db, x) /\ db.runs[x].status = "queued"
        BY <1>1, <1>11, <1>12, <2>2, <3>2 DEF WorkerStarts, Workers, Working
      <4> QED BY <1>0, <2>2, <3>1, <4>1, StatusesLeft
    <3>3. CASE WorkerRegisters(x) \/ Watch(x)
      <4>1. e = db /\ work[x].at # "queued"
        BY <1>1, <3>3 DEF WorkerRegisters, Watch
      <4> QED BY <2>2, <3>1, <4>1
    <3>4. CASE WorkerEnds(x)
      BY <1>11, <1>12, <2>2, <3>4 DEF WorkerEnds, Workers, Working
    <3> QED BY <3>2, <3>3, <3>4
  <2> QED BY <2>1, <2>2
<1>13. \A y \in Runs : /\ work[y].told => w[y].told
                       /\ w[y].at \in Working => work[y].at \in Working
  BY <1>7, <1>8, <1>11
<1>14. Stopped(e, req, w, away \cup behind)
  BY <1>9, <1>10, <1>12, <1>13 DEF Stopped
<1> QED BY <1>1, <1>5, <1>6, <1>11, <1>14 DEF Told

\* _cancel_active_runs tells every worker it reaches, and knows the others.
LEMMA CancelsRuns ==
  ASSUME CInv, Told, Workers, NEW q \in Requests, _cancel_active_runs(q)
  PROVE  CInv' /\ Told'
<1>0. /\ Tables(db) /\ Rooted(db) /\ DOMAIN db = Columns /\ DOMAIN req = Requests
      /\ Asked(req[q]) /\ DOMAIN req[q] = Parts /\ req[q].at = "cancel"
      /\ \A y \in DOMAIN db.runs : "pipeline" \in DOMAIN db.runs[y]
  BY DEF CInv, Good, Tables, Rooted, Reqs, Asked, _cancel_active_runs
<1>1. PICK e : e = db'
  OBVIOUS
<1>2. PICK r : r = [req[q] EXCEPT !.at = "delete"]
  OBVIOUS
<1>3. DOMAIN r = Parts /\ r.at = "delete" /\ r.id = req[q].id /\ r.op = req[q].op
  BY <1>0, <1>2 DEF Parts
<1>4. req' = [req EXCEPT ![q] = r] /\ UNCHANGED <<fresh, raced, uneven>>
  BY <1>0, <1>2 DEF _cancel_active_runs, Then
<1>5. Asked(r)
  BY <1>0, <1>3 DEF Asked, Steps
<1>6. PICK X : X = ActiveRuns(req[q].id)
  OBVIOUS
<1>7. PICK rs : rs = [x \in DOMAIN db.runs |-> IF x \in X /\ db.runs[x].status \in Active
                                               THEN [db.runs[x] EXCEPT !.cancel = TRUE] ELSE db.runs[x]]
  OBVIOUS
<1>8. \A x \in DOMAIN db.runs : "pipeline" \in DOMAIN rs[x] /\ rs[x].pipeline = db.runs[x].pipeline
  BY <1>0, <1>7
<1>9. e = [db EXCEPT !.runs = rs]
  BY <1>1, <1>6, <1>7 DEF _cancel_active_runs, request_cancel
<1>10. Marks(db, e)
  BY <1>0, <1>7, <1>8, <1>9 DEF Marks, Columns
<1>11. SameCatalogue(db, e) /\ Rooted(e)
  BY <1>0, <1>10, Marking
<1>12. CInv'
  BY <1>0, <1>1, <1>3, <1>4, <1>5, <1>11, ShiftsTurn
<1>13. PICK p : p = req[q].id
  OBVIOUS
<1>14. PICK w : w = work'
  OBVIOUS
<1>15. PICK ex : ex = away' \cup behind'
  OBVIOUS
<1>16. PICK rq1 : rq1 = req'
  OBVIOUS
<1>17. PICK here : here = Registered(req[q].home)
  OBVIOUS
<1>18. \A x \in Runs : /\ work[x].told => w[x].told
                       /\ x \in X /\ x \in here => w[x].told
                       /\ w[x].at = work[x].at
  BY <1>6, <1>14, <1>17 DEF _cancel_active_runs, Workers
<1>19. /\ away \cup behind \subseteq ex /\ RunsOf(db, p) \ here \subseteq ex
       /\ \A x \in RunsOf(db, p) : x \notin list_runs(db, p, MaxListed) /\ db.runs[x].status \in Active => x \in ex
  BY <1>13, <1>15, <1>17 DEF _cancel_active_runs
<1>20. Stopped(db, req, work, away \cup behind)
  BY DEF Told
<1>21. DOMAIN e.runs = DOMAIN db.runs /\ (\A i : RunsOf(e, i) = RunsOf(db, i)) /\ e.runs = rs
  BY <1>0, <1>9, <1>10 DEF Marks, RunsOf, Columns
<1>22. \A x \in DOMAIN db.runs : /\ "status" \in DOMAIN db.runs[x] => "status" \in DOMAIN rs[x]
                                 /\ rs[x].status = db.runs[x].status
  BY <1>7
<1>23. ASSUME NEW x \in Runs, x \in RunsOf(db, p), w[x].at \in Working
       PROVE  w[x].told \/ x \in ex
  <2>1. CASE x \in here
    <3>1. x \in DOMAIN db.runs /\ work[x].at = "executing" /\ work[x].at \in Working
      BY <1>17, <1>23, <2>1 DEF Registered, RunsOf, Working
    <3>2. db.runs[x].status \in Active
      BY <1>20, <3>1 DEF Stopped, Active
    <3>3. x \in list_runs(db, p, MaxListed) => x \in X
      BY <1>6, <1>13, <3>2 DEF ActiveRuns
    <3> QED BY <1>18, <1>19, <1>23, <2>1, <3>2, <3>3
  <2>2. CASE x \notin here
    BY <1>19, <1>23, <2>2
  <2> QED BY <2>1, <2>2
<1>24. rq1[q] = r /\ \A o \in Requests : o # q => rq1[o] = req[o]
  BY <1>0, <1>4, <1>16
<1>25. ASSUME NEW x \in Runs, x \in DOMAIN e.runs, w[x].at \in Working
       PROVE  "status" \in DOMAIN e.runs[x] /\ (w[x].at # "queued" => e.runs[x].status = "running")
  <2>1. "status" \in DOMAIN db.runs[x] /\ (work[x].at # "queued" => db.runs[x].status = "running")
    BY <1>18, <1>20, <1>21, <1>25 DEF Stopped
  <2> QED BY <1>18, <1>21, <1>22, <1>25, <2>1
<1>26. ASSUME NEW o \in Requests, rq1[o].at = "delete", NEW x \in Runs, x \in RunsOf(e, rq1[o].id), w[x].at \in Working
       PROVE  w[x].told \/ x \in ex
  <2>1. CASE o = q
    BY <1>3, <1>13, <1>21, <1>23, <1>24, <1>26, <2>1
  <2>2. CASE o # q
    BY <1>18, <1>19, <1>20, <1>21, <1>24, <1>26, <2>2 DEF Stopped
  <2> QED BY <2>1, <2>2
<1>27. ASSUME NEW x \in Runs, w[x].at \in Working, x \notin DOMAIN e.runs
       PROVE  w[x].told \/ x \in ex
  BY <1>18, <1>19, <1>20, <1>21, <1>27 DEF Stopped
<1>28. Stopped(e, rq1, w, ex)
  BY <1>25, <1>26, <1>27 DEF Stopped
<1> QED BY <1>1, <1>12, <1>14, <1>15, <1>16, <1>28 DEF Told

\* delete_pipeline takes the rows of runs whose workers were told.
LEMMA DeletesPipeline ==
  ASSUME CInv, Told, NEW q \in Requests, DeletePipeline(q)
  PROVE  CInv' /\ Told'
<1>0. Good(db, req, fresh, raced, uneven)
  BY DEF CInv
<1>1. PICK e : e = db'
  OBVIOUS
<1>2. PICK rq1 : rq1 = req'
  OBVIOUS
<1>3. PICK r : r = Idle
  OBVIOUS
<1>4. PICK p : p = req[q].id
  OBVIOUS
<1>5. /\ Asked(r) /\ r.at = "idle" /\ rq1 = [req EXCEPT ![q] = r] /\ req[q].at = "delete"
      /\ e = delete_pipeline(db, p) /\ UNCHANGED <<fresh, raced, uneven, work, away, behind>>
  BY <1>1, <1>2, <1>3, <1>4, IdleFacts DEF DeletePipeline, End, history
<1>6. Good(e, rq1, fresh, raced, uneven)
  BY <1>0, <1>5, GoodDelete
<1>7. e.runs = Drop(db.runs, RunsOf(db, p))
  BY <1>0, <1>5 DEF delete_pipeline, Good, Tables, Columns
<1>8. /\ DOMAIN e.runs = DOMAIN db.runs \ RunsOf(db, p)
      /\ \A x \in DOMAIN e.runs : e.runs[x] = db.runs[x]
  BY <1>7 DEF Drop, Restrict
<1>9. \A i : RunsOf(e, i) \subseteq RunsOf(db, i)
  BY <1>8 DEF RunsOf
<1>10. \A o \in Requests : rq1[o].at = "delete" => rq1[o] = req[o]
  BY <1>0, <1>5 DEF Good, Reqs
<1>11. Stopped(db, req, work, away \cup behind)
  BY DEF Told
<1>12. Stopped(e, rq1, work, away \cup behind)
  <2>1. \A x \in Runs : x \in RunsOf(db, p) /\ work[x].at \in Working => work[x].told \/ x \in away \cup behind
    BY <1>4, <1>5, <1>11 DEF Stopped
  <2> QED BY <1>8, <1>9, <1>10, <1>11, <2>1 DEF Stopped
<1>13. Told'
  BY <1>1, <1>2, <1>5, <1>12 DEF Told
<1> QED BY <1>1, <1>2, <1>5, <1>6, <1>13 DEF CInv

-----------------------------------------------------------------------------
(* The workers, the object and the requests left.                           *)

\* A step of the service alone: at most one request begins.
Quiet == UNCHANGED <<object, work>> /\ (ops' = ops \/ (ops > 0 /\ ops' = ops - 1))

\* Every step of a request is one, but a run's insertion and cancellation.
LEMMA QuietSteps ==
  ASSUME NEW q \in Requests
  PROVE  /\ Abandon(q) \/ CreatePipeline(q) \/ AddVersion(q) \/ SaveDraft(q) \/ UpdateSchedule(q) => Quiet
         /\ Resolve(q) \/ CreateTask(q) \/ AddTaskVersion(q) \/ SaveTaskDraft(q) \/ DeletePipeline(q) => Quiet
         /\ \A op, p, spec : Prepare(q, op, p, spec) => Quiet
         /\ \A p, spec : PrepareNew(q, p, spec) => Quiet
         /\ \A p, pin : ReadSchedule(q, p, pin) => Quiet
         /\ \A p, admin, to : SetOwner(q, p, admin, to) => Quiet
         /\ \A p, home : StartRun(q, p, home) \/ DeleteBegin(q, p, home) => Quiet
         /\ \A t, key : PrepareNewTask(q, t, key) => Quiet
         /\ \A op, t, key : PrepareTask(q, op, t, key) => Quiet
         /\ \A t : DeleteTask(q, t) => Quiet
<1>1. Abandon(q) \/ CreatePipeline(q) \/ AddVersion(q) \/ SaveDraft(q) \/ UpdateSchedule(q) => Quiet
  BY DEF Quiet, Abandon, CreatePipeline, AddVersion, SaveDraft, UpdateSchedule
<1>2. Resolve(q) \/ CreateTask(q) \/ AddTaskVersion(q) \/ SaveTaskDraft(q) \/ DeletePipeline(q) => Quiet
  BY DEF Quiet, Resolve, CreateTask, AddTaskVersion, SaveTaskDraft, DeletePipeline
<1>3. \A op, p, spec : Prepare(q, op, p, spec) => Quiet
  BY DEF Quiet, Prepare, Begin
<1>4. \A p, spec : PrepareNew(q, p, spec) => Quiet
  BY DEF Quiet, PrepareNew, Begin
<1>5. \A p, pin : ReadSchedule(q, p, pin) => Quiet
  BY DEF Quiet, ReadSchedule, Begin
<1>6. \A p, admin, to : SetOwner(q, p, admin, to) => Quiet
  BY DEF Quiet, SetOwner, Begin
<1>7. \A p, home : StartRun(q, p, home) \/ DeleteBegin(q, p, home) => Quiet
  BY DEF Quiet, StartRun, DeleteBegin, Begin
<1>8. \A t, key : PrepareNewTask(q, t, key) => Quiet
  BY DEF Quiet, PrepareNewTask, Begin
<1>9. \A op, t, key : PrepareTask(q, op, t, key) => Quiet
  BY DEF Quiet, PrepareTask, Begin
<1>10. \A t : DeleteTask(q, t) => Quiet
  BY DEF Quiet, DeleteTask, Begin
<1> QED BY <1>1, <1>2, <1>3, <1>4, <1>5, <1>6, <1>7, <1>8, <1>9, <1>10

\* The types of the workers, the object and the count are kept.
LEMMA WorkersKept ==
  ASSUME Workers, [Next]_vars
  PROVE  Workers'
<1>1. CASE UNCHANGED vars
  BY <1>1 DEF vars, Workers
<1>2. CASE Replace
  BY <1>2 DEF Replace, Workers, Contents
<1>3. CASE Quiet
  BY <1>3, BoundsAssumption DEF Quiet, Workers
<1>4. ASSUME NEW x \in Runs, (\E q \in Requests : CreateRun(q, x)) \/ \E p \in Pipelines : _record_dropped_fire(p, x)
      PROVE  Workers'
  BY <1>4 DEF CreateRun, _record_dropped_fire, Workers
<1>5. ASSUME NEW q \in Requests, _cancel_active_runs(q)
      PROVE  Workers'
  BY <1>5 DEF _cancel_active_runs, Workers
<1>6. ASSUME NEW x \in Runs, WorkerStarts(x) \/ WorkerRegisters(x) \/ Watch(x) \/ WorkerEnds(x)
      PROVE  Workers'
  <2>1. WorkerStarts(x) => Workers'
    BY DEF WorkerStarts, Workers
  <2>2. WorkerRegisters(x) => Workers'
    BY DEF WorkerRegisters, Workers
  <2>3. Watch(x) => Workers'
    BY DEF Watch, Workers
  <2>4. WorkerEnds(x) => Workers'
    BY DEF WorkerEnds, Workers
  <2> QED BY <1>6, <2>1, <2>2, <2>3, <2>4
<1> QED BY <1>1, <1>2, <1>3, <1>4, <1>5, <1>6, QuietSteps DEF Next

-----------------------------------------------------------------------------
(* The store as earlier requests left it.                                   *)

\* Every reference resolves and every draft is level.
Tidy(d) ==
  /\ Tables(d)
  /\ \A p \in DOMAIN d.versions : \A v \in DOMAIN d.versions[p] : Held(d, d.versions[p][v], {})
  /\ \A p \in DOMAIN d.versions : Level(d.versions, d.drafts, p)
  /\ \A t \in d.tasks : Level(d.task_versions, d.task_drafts, t)

\* The code of a task saved earlier.
LEMMA SavedHonest ==
  Honest(Saved)
<1>1. Saved \in Codes
  BY DEF Saved, Codes, CodeKeys, Sources
<1>2. validate_task_config(Configuration("sent"), {BASE_RUNNER}, {})
  BY BoundsAssumption DEF validate_task_config, Configuration, BASE_RUNNER, SPARK_RUNNER
<1> QED BY <1>1, <1>2 DEF Honest, Saved

\* The empty store.
LEMMA TidyStore ==
  Tidy(Store)
<1>1. DOMAIN Empty = {}
  BY DEF Empty
<1>2. /\ DOMAIN Store = Columns /\ Store.pipelines = Empty /\ Store.versions = Empty /\ Store.drafts = Empty
      /\ Store.tasks = {} /\ Store.task_versions = Empty /\ Store.task_drafts = Empty /\ Store.runs = Empty
  BY DEF Store, Columns
<1> QED BY <1>1, <1>2 DEF Tidy, Tables

\* One value saved: it is the first and latest version.
LEMMA FirstVersion ==
  ASSUME NEW S, NEW a \in S, NEW z, z = Append(<<>>, a)
  PROVE  z \in Seq(S) /\ Len(z) = 1 /\ DOMAIN z = {1} /\ z[1] = a /\ z # <<>>
<1>1. <<>> \in Seq(S) /\ Len(<<>>) = 0
  BY EmptySeq
<1>2. z \in Seq(S) /\ Len(z) = 1 /\ z[1] = a
  BY <1>1, AppendProperties
<1>3. DOMAIN z = 1..1
  BY <1>2, LenProperties
<1> QED BY <1>2, <1>3, EmptySeq

\* A store with one saved task.
LEMMA TidyTask ==
  ASSUME NEW t \in Tasks, NEW e, e = WithTask(Store, t)
  PROVE  Tidy(e) /\ e.pipelines = Empty /\ e.versions = Empty /\ e.drafts = Empty /\ e.runs = Empty
<1>1. DOMAIN Empty = {}
  BY DEF Empty
<1>2. PICK c : c = Saved
  OBVIOUS
<1>3. Honest(c) /\ c \in Codes
  BY <1>2, SavedHonest DEF Honest
<1>4. PICK a : a = create_task(Store, t)
  OBVIOUS
<1>5. /\ DOMAIN a = Columns /\ a.pipelines = Empty /\ a.versions = Empty /\ a.drafts = Empty
      /\ a.tasks = {t} /\ a.task_versions = Put(Empty, t, <<>>) /\ a.task_drafts = Empty /\ a.runs = Empty
  BY <1>4 DEF create_task, Store, Columns
<1>6. DOMAIN a.task_versions = {t} /\ a.task_versions[t] = <<>>
  BY <1>1, <1>5 DEF Put
<1>7. PICK b : b = add_task_version(a, t, c)
  OBVIOUS
<1>8. /\ DOMAIN b = Columns /\ b.pipelines = Empty /\ b.versions = Empty /\ b.drafts = Empty
      /\ b.tasks = {t} /\ b.task_drafts = Empty /\ b.runs = Empty
      /\ b.task_versions = [a.task_versions EXCEPT ![t] = Append(<<>>, c)]
  BY <1>5, <1>6, <1>7 DEF add_task_version, Columns
<1>9. PICK z : z = Append(<<>>, c)
  OBVIOUS
<1>10. z \in Seq(Codes) /\ Len(z) = 1 /\ DOMAIN z = {1} /\ z[1] = c /\ z # <<>>
  BY <1>3, <1>9, FirstVersion
<1>11. DOMAIN b.task_versions = {t} /\ b.task_versions[t] = z
  BY <1>6, <1>8, <1>9
<1>12. PICK row : row = [code |-> c, level |-> 1]
  OBVIOUS
<1>13. e = save_task_draft(b, t, c, 1)
  BY <1>2, <1>4, <1>7 DEF WithTask
<1>14. /\ DOMAIN e = Columns /\ e.pipelines = Empty /\ e.versions = Empty /\ e.drafts = Empty
       /\ e.tasks = {t} /\ e.task_drafts = Put(Empty, t, row) /\ e.runs = Empty
       /\ e.task_versions = b.task_versions
  BY <1>8, <1>12, <1>13 DEF save_task_draft, Columns
<1>15. DOMAIN e.task_drafts = {t} /\ e.task_drafts[t] = row /\ row.code = c /\ row.level = 1
  BY <1>1, <1>12, <1>14 DEF Put
<1>16. Tables(e)
  BY <1>1, <1>3, <1>10, <1>11, <1>14, <1>15 DEF Tables
<1>17. Level(e.task_versions, e.task_drafts, t)
  BY <1>10, <1>11, <1>14, <1>15 DEF Level
<1> QED BY <1>1, <1>14, <1>16, <1>17 DEF Tidy

\* A store with a pipeline that uses it.
LEMMA TidyPipeline ==
  ASSUME NEW d, Tidy(d), d.pipelines = Empty, d.versions = Empty, d.drafts = Empty, d.runs = Empty,
         NEW p \in Pipelines, NEW spec \in Specs, NEW e, e = WithPipeline(d, p, spec),
         \A y \in DOMAIN e.versions : Prepared(e, e.versions[y][1])
  PROVE  Tidy(e)
<1>1. DOMAIN Empty = {} /\ DOMAIN d = Columns
  BY DEF Empty, Tidy, Tables
<1>2. PICK a : a = create_pipeline(d, p)
  OBVIOUS
<1>3. /\ DOMAIN a = Columns /\ a.versions = Put(Empty, p, <<>>)
      /\ a.pipelines = Put(Empty, p, [owner |-> None, pinned |-> None])
      /\ a.drafts = Empty /\ a.tasks = d.tasks /\ a.runs = Empty
      /\ a.task_versions = d.task_versions /\ a.task_drafts = d.task_drafts
  BY <1>1, <1>2 DEF create_pipeline, Columns
<1>4. DOMAIN a.versions = {p} /\ a.versions[p] = <<>> /\ DOMAIN a.pipelines = {p}
  BY <1>1, <1>3 DEF Put
<1>5. PICK b : b = add_version(a, p, spec)
  OBVIOUS
<1>6. /\ DOMAIN b = Columns /\ b.versions = [a.versions EXCEPT ![p] = Append(<<>>, spec)]
      /\ b.pipelines = a.pipelines /\ b.drafts = Empty /\ b.tasks = d.tasks /\ b.runs = Empty
      /\ b.task_versions = d.task_versions /\ b.task_drafts = d.task_drafts
  BY <1>3, <1>4, <1>5 DEF add_version, Columns, Has
<1>7. PICK z : z = Append(<<>>, spec)
  OBVIOUS
<1>8. z \in Seq(Specs) /\ Len(z) = 1 /\ DOMAIN z = {1} /\ z[1] = spec /\ z # <<>>
  BY <1>7, FirstVersion
<1>9. DOMAIN b.versions = {p} /\ b.versions[p] = z
  BY <1>4, <1>6, <1>7
<1>10. PICK row : row = [spec |-> spec, level |-> 1]
  OBVIOUS
<1>11. e = save_pipeline_draft(b, p, spec, 1)
  BY <1>2, <1>5 DEF WithPipeline
<1>12. /\ DOMAIN e = Columns /\ e.versions = b.versions /\ e.pipelines = a.pipelines
       /\ e.drafts = Put(Empty, p, row) /\ e.tasks = d.tasks /\ e.runs = Empty
       /\ e.task_versions = d.task_versions /\ e.task_drafts = d.task_drafts
  BY <1>4, <1>6, <1>10, <1>11 DEF save_pipeline_draft, Columns, Has
<1>13. DOMAIN e.drafts = {p} /\ e.drafts[p] = row /\ row.level = 1
  BY <1>1, <1>10, <1>12 DEF Put
<1>14. Tables(e)
  <2>1. /\ d.tasks \subseteq Tasks /\ DOMAIN d.task_versions = d.tasks /\ DOMAIN d.task_drafts \subseteq d.tasks
        /\ \A t \in d.tasks : /\ d.task_versions[t] \in Seq(Codes)
                              /\ \A v \in DOMAIN d.task_versions[t] : Honest(d.task_versions[t][v])
        /\ \A t \in DOMAIN d.task_drafts : Honest(d.task_drafts[t].code)
    BY DEF Tidy, Tables
  <2>2. DOMAIN e.pipelines = {p} /\ DOMAIN e.versions = {p} /\ DOMAIN e.drafts = {p}
    BY <1>4, <1>9, <1>12, <1>13
  <2>3. \A y \in DOMAIN e.versions : e.versions[y] \in Seq(Specs)
    BY <1>8, <1>9, <1>12
  <2>4. \A x \in DOMAIN e.runs : "pipeline" \in DOMAIN e.runs[x] /\ e.runs[x].pipeline \in DOMAIN e.pipelines
    BY <1>1, <1>12
  <2> QED BY <1>12, <2>1, <2>2, <2>3, <2>4 DEF Tables
<1>15. Level(e.versions, e.drafts, p)
  BY <1>8, <1>9, <1>12, <1>13 DEF Level
<1>16. Held(e, spec, {})
  <2>1. Prepared(e, spec)
    BY <1>8, <1>9, <1>12
  <2> QED BY <2>1, PreparedHeld
<1> QED BY <1>8, <1>9, <1>12, <1>14, <1>15, <1>16 DEF Tidy

\* The invariant holds at first.
LEMMA InitGood ==
  ASSUME Init
  PROVE  CInv /\ Told /\ Workers
<1>1. Tidy(db)
  <2>1. CASE db = Store
    BY <2>1, TidyStore
  <2>2. ASSUME NEW t \in Tasks, db = WithTask(Store, t)
        PROVE  Tidy(db)
    BY <2>2, TidyTask
  <2>3. ASSUME NEW t \in Tasks, NEW p \in Pipelines, NEW spec \in Specs, db = WithPipeline(WithTask(Store, t), p, spec),
               \A y \in DOMAIN db.versions : Prepared(db, db.versions[y][1])
        PROVE  Tidy(db)
    <3>1. PICK d : d = WithTask(Store, t)
      OBVIOUS
    <3>2. Tidy(d) /\ d.pipelines = Empty /\ d.versions = Empty /\ d.drafts = Empty /\ d.runs = Empty
      BY <3>1, TidyTask
    <3>3. db = WithPipeline(d, p, spec)
      BY <2>3, <3>1
    <3> QED BY <2>3, <3>2, <3>3, TidyPipeline
  <2> QED BY <2>1, <2>2, <2>3 DEF Init
<1>2. /\ DOMAIN req = Requests /\ \A q \in Requests : req[q] = Idle
      /\ fresh = (Pipelines \ DOMAIN db.pipelines) \cup (Tasks \ db.tasks) /\ raced = {} /\ uneven = {}
  BY DEF Init
<1>3. Asked(Idle) /\ Idle.at = "idle" /\ ~Halfway(Idle) /\ ~Checked(Idle) /\ ~Creating(Idle)
  BY IdleFacts DEF Creating, Idle
<1>4. Reqs(req)
  BY <1>2, <1>3 DEF Reqs
<1>5. Ids(db, req, fresh)
  BY <1>1, <1>2, <1>3, IdsAssumption DEF Ids, Tidy, Tables
<1>6. Refs(db, req, raced)
  BY <1>1, <1>2, <1>3 DEF Refs, Tidy
<1>7. Levels(db, req, uneven)
  BY <1>1, <1>2, <1>3 DEF Levels, Fits, Tidy
<1>8. CInv
  BY <1>1, <1>4, <1>5, <1>6, <1>7 DEF CInv, Good, Tidy
<1>9. Workers
  BY BoundsAssumption DEF Init, Workers, Contents
<1>10. Told
  BY <1>2, <1>3 DEF Told, Stopped, Working, Init
<1> QED BY <1>8, <1>9, <1>10

-----------------------------------------------------------------------------
(* The invariant and what follows.                                          *)

\* Every step keeps it, one lemma for each action.
LEMMA StepKeeps ==
  ASSUME CInv, Told, Workers, [Next]_vars
  PROVE  CInv' /\ Told'
<1>1. CASE UNCHANGED vars
  BY <1>1 DEF vars, CInv, Told
<1>2. CASE Replace
  BY <1>2 DEF Replace, history, CInv, Told
<1>3. ASSUME NEW q \in Requests,
             \/ Abandon(q) \/ CreatePipeline(q) \/ AddVersion(q) \/ SaveDraft(q) \/ UpdateSchedule(q)
             \/ Resolve(q) \/ CreateTask(q) \/ AddTaskVersion(q) \/ SaveTaskDraft(q)
             \/ _cancel_active_runs(q) \/ DeletePipeline(q)
             \/ \E x \in Runs : CreateRun(q, x)
      PROVE  CInv' /\ Told'
  BY <1>3, Abandons, CreatesPipeline, AddsVersion, SavesDraft, UpdatesSchedule, Resolving, CreatesTask,
     AddsTaskVersion, SavesTaskDraft, CancelsRuns, DeletesPipeline, CreatesRun
<1>4. ASSUME NEW q \in Requests, NEW p \in Pipelines,
             \/ \E spec \in Specs : \E op \in {"version", "draft"} : Prepare(q, op, p, spec)
             \/ \E spec \in Specs \cup {None} : PrepareNew(q, p, spec)
             \/ \E pin \in {None} \cup 1..MaxVersions : ReadSchedule(q, p, pin)
             \/ \E admin \in BOOLEAN : \E to \in {Me, Service} : SetOwner(q, p, admin, to)
             \/ \E home \in Replicas : StartRun(q, p, home) \/ DeleteBegin(q, p, home)
      PROVE  CInv' /\ Told'
  BY <1>4, PreparesSave, PreparesPipeline, ReadsSchedule, SetsOwner, StartsRun, BeginsDelete
<1>5. ASSUME NEW q \in Requests, NEW t \in Tasks,
             \/ \E key \in CodeKeys : \/ PrepareNewTask(q, t, key)
                                      \/ \E op \in {"task version", "task draft"} : PrepareTask(q, op, t, key)
             \/ DeleteTask(q, t)
      PROVE  CInv' /\ Told'
  BY <1>5, PreparesTask, PreparesTaskSave, DeletesTask
<1>6. ASSUME NEW x \in Runs, WorkerStarts(x) \/ WorkerRegisters(x) \/ Watch(x) \/ WorkerEnds(x)
      PROVE  CInv' /\ Told'
  BY <1>6, Works
<1>7. ASSUME NEW x \in Runs, NEW p \in Pipelines, _record_dropped_fire(p, x)
      PROVE  CInv' /\ Told'
  BY <1>7, RecordsFire
<1> QED BY <1>1, <1>2, <1>3, <1>4, <1>5, <1>6, <1>7 DEF Next

\* The invariant of the catalogue holds in every reachable state.
LEMMA CatalogueInvariant == Spec => [](CInv /\ Told /\ Workers)
<1>1. Init => CInv /\ Told /\ Workers
  BY InitGood
<1>2. CInv /\ Told /\ Workers /\ [Next]_vars => (CInv /\ Told /\ Workers)'
  BY StepKeeps, WorkersKept
<1> QED BY <1>1, <1>2, PTL DEF Spec

\* What means something resolves to code.
LEMMA ResolvesToCode ==
  ASSUME NEW d, Tables(d), NEW ref, Resolves(d, ref)
  PROVE  resolve_task_ref(d, ref) # None
<1>1. \A c : Honest(c) => c # None
  BY IdsAssumption DEF Honest
<1>2. PICK s \in Seq(Codes) : s = d.task_versions[ref.task]
  BY DEF Tables, Resolves
<1>3. \A v \in DOMAIN s : s[v] # None
  BY <1>1, <1>2 DEF Tables, Resolves
<1>4. s # <<>> => Len(s) \in DOMAIN s
  BY LenProperties, EmptySeq
<1>5. ref.task \in DOMAIN d.task_drafts => d.task_drafts[ref.task].code # None
  BY <1>1 DEF Tables
<1> QED BY <1>2, <1>3, <1>4, <1>5 DEF resolve_task_ref, Resolves, Has

\* A saved version's references resolve in every reachable state, unless the
\* task was deleted between the check and the store of that very save
\* (service.py's save_version and delete_task take two transactions).
THEOREM ReferencesHold == Spec => []RefsHold
<1>1. ASSUME CInv, Workers
      PROVE  RefsHold
  <2>1. Tables(db) /\ Reqs(req) /\ Refs(db, req, raced)
    BY <1>1 DEF CInv, Good
  <2>2. TypeOK
    <3>1. \A p \in DOMAIN db.versions : \A v \in DOMAIN db.versions[p] : db.versions[p][v] \in Specs
      BY <2>1, ElementOfSeq, LenProperties DEF Tables
    <3> QED BY <1>1, <2>1, <3>1 DEF TypeOK, Tables, Reqs, Asked, Workers
  <2>3. ASSUME NEW p \in DOMAIN db.versions, NEW v \in DOMAIN db.versions[p], NEW ref \in Range(db.versions[p][v])
        PROVE  resolve_task_ref(db, ref) # None \/ ref.task \in raced
    <3>1. Resolves(db, ref) \/ ref.task \in raced
      BY <2>1, <2>3 DEF Refs, Held
    <3> QED BY <2>1, <3>1, ResolvesToCode
  <2> QED BY <2>2, <2>3 DEF RefsHold
<1> QED BY <1>1, CatalogueInvariant, PTL

\* The draft is level with the latest version whenever no save is between its
\* two writes, none died there and no two crossed.
THEOREM DraftsFresh == Spec => []DraftFresh
<1>1. ASSUME CInv
      PROVE  DraftFresh
  <2>1. Levels(db, req, uneven)
    BY <1>1 DEF CInv, Good
  <2>2. \A id : (\E q \in Requests : Halfway(req[q]) /\ req[q].id = id) => \E q \in Requests : Between(q, id)
    BY DEF Between, Halfway
  <2> QED BY <2>1, <2>2 DEF Levels, Fits, DraftFresh, Excused
<1> QED BY <1>1, CatalogueInvariant, PTL

\* Stored code comes from where it says and passes the checks with the source
\* it has.
THEOREM CodeIsGenuine == Spec => []GenuineCode
<1>1. ASSUME CInv
      PROVE  GenuineCode
  <2>1. Tables(db)
    BY <1>1 DEF CInv, Good
  <2> QED BY <2>1 DEF Tables, Honest, GenuineCode
<1> QED BY <1>1, CatalogueInvariant, PTL

\* Deleting a pipeline leaves nothing of it, and a worker whose row is gone was
\* told to stop, was out of reach, or served a run past the newest ones that the
\* deletion looked at.
THEOREM DeletedStaysGone == Spec => []DeletedIsGone
<1>1. ASSUME CInv, Told
      PROVE  DeletedIsGone
  <2>1. Tables(db)
    BY <1>1 DEF CInv, Good
  <2> QED BY <1>1, <2>1 DEF Tables, Told, Stopped, Working, DeletedIsGone
<1> QED BY <1>1, CatalogueInvariant, PTL
-----------------------------------------------------------------------------
(* Induction and recursion up to a number.                                  *)

\* Every non-empty set of naturals has a least member.
LEMMA LeastMember ==
    ASSUME NEW T \in SUBSET Nat, T # {}
    PROVE  \E m \in T : \A k \in T : m <= k
<1> DEFINE R == OpToRel(<, Nat)
<1>1. IsWellFoundedOn(R, Nat)
  BY NatLessThanWellFounded
<1>2. \A k, m \in Nat : k < m => <<k, m>> \in R
  BY DEF OpToRel
<1> HIDE DEF R
<1>3. PICK m \in T : \A k \in T : ~(<<k, m>> \in R)
  BY <1>1, WFMin
<1>4. ASSUME NEW k \in T PROVE m <= k
  <2>1. k \in Nat /\ m \in Nat /\ <<k, m>> \notin R
    BY <1>3
  <2>2. ~(k < m)
    BY <1>2, <2>1
  <2> QED BY <2>1, <2>2
<1> QED BY <1>4

\* A set with 0 and every successor up to N holds all of them.
LEMMA Upto ==
    ASSUME NEW N \in Nat, NEW S, 0 \in S, \A n \in 1..N : n - 1 \in S => n \in S
    PROVE  \A n \in 0..N : n \in S
<1> DEFINE T == {n \in 0..N : n \notin S}
<1> SUFFICES ASSUME T # {} PROVE FALSE
  OBVIOUS
<1>0. T \in SUBSET Nat
  OBVIOUS
<1>1. PICK m \in T : \A k \in T : m <= k
  BY <1>0, LeastMember
<1>2. m \in 1..N
  BY <1>1
<1>3. m - 1 \in 0..N /\ m - 1 \notin T
  BY <1>1, <1>2
<1> QED BY <1>1, <1>2, <1>3

\* The table of a recursion exists.
Table(f, N, v, F) == f = [n \in 0..N |-> IF n = 0 THEN v ELSE F[<<n, f[n - 1]>>]]

LEMMA Recursion ==
    ASSUME NEW N \in Nat, NEW V, NEW v \in V, NEW F \in [(1..N) \X V -> V]
    PROVE  \E f \in [0..N -> V] : Table(f, N, v, F)
<1> DEFINE S == {n \in 0..N : \E f \in [0..n -> V] : Table(f, n, v, F)}
<1>1. 0 \in S
  <2>1. PICK f : f = [n \in 0..0 |-> v]
    OBVIOUS
  <2>2. \A n \in 0..0 : n = 0
    OBVIOUS
  <2>3. f \in [0..0 -> V] /\ Table(f, 0, v, F)
    BY <2>1, <2>2 DEF Table
  <2> QED BY <2>3
<1>2. ASSUME NEW n \in 1..N, n - 1 \in S PROVE n \in S
  <2>1. PICK f \in [0..(n - 1) -> V] : Table(f, n - 1, v, F)
    BY <1>2
  <2>2. n - 1 \in 0..(n - 1) /\ f[n - 1] \in V
    BY <2>1
  <2>3. PICK w \in V : w = F[<<n, f[n - 1]>>]
    BY <2>2
  <2>4. PICK g : g = [k \in 0..n |-> IF k = n THEN w ELSE f[k]]
    OBVIOUS
  <2>5. \A k \in 0..n : k = n \/ k \in 0..(n - 1)
    OBVIOUS
  <2>6. g \in [0..n -> V]
    BY <2>1, <2>3, <2>4, <2>5
  <2>7. ASSUME NEW k \in 0..n PROVE g[k] = IF k = 0 THEN v ELSE F[<<k, g[k - 1]>>]
    <3>1. k # 0 => k - 1 \in 0..(n - 1) /\ k - 1 \in 0..n /\ k - 1 # n
      OBVIOUS
    <3>2. k # 0 => g[k - 1] = f[k - 1]
      BY <2>4, <3>1
    <3>3. CASE k = n
      <4>1. k # 0 /\ g[k] = w
        BY <2>4, <3>3
      <4>2. <<k, g[k - 1]>> = <<n, f[n - 1]>>
        BY <3>2, <3>3, <4>1
      <4> QED BY <2>3, <4>1, <4>2
    <3>4. CASE k # n
      <4>1. k \in 0..(n - 1) /\ g[k] = f[k]
        BY <2>4, <2>5, <3>4
      <4>2. f[k] = IF k = 0 THEN v ELSE F[<<k, f[k - 1]>>]
        BY <2>1, <4>1 DEF Table
      <4> QED BY <3>2, <4>1, <4>2
    <3> QED BY <3>3, <3>4
  <2>8. g = [k \in 0..n |-> g[k]]
    BY <2>6
  <2>9. Table(g, n, v, F)
    BY <2>7, <2>8 DEF Table
  <2> QED BY <2>6, <2>9
<1> HIDE DEF S
<1>3. N \in S
  <2>1. \A n \in 0..N : n \in S
    BY <1>1, <1>2, Upto
  <2> QED BY <2>1
<1> QED BY <1>3 DEF S

-----------------------------------------------------------------------------
(* The order of a graph.                                                   *)

\* What the node with this key depends on, and where it is declared.
Deps(spec, k) == Range(by_key(spec, k).deps)
Place(spec, k) == CHOOSE i \in DOMAIN spec : spec[i].key = k

\* The nodes of a well-formed spec by key.
LEMMA GraphOf ==
    ASSUME NEW spec \in Seq(Nodes), WellFormed(spec), NEW N, N = Len(spec), NEW K, K = Keys(spec)
    PROVE  /\ N \in Nat /\ N >= 1 /\ DOMAIN spec = 1..N
           /\ \A i \in 1..N : /\ spec[i].key \in K /\ Place(spec, spec[i].key) = i
                              /\ by_key(spec, spec[i].key) = spec[i] /\ Deps(spec, spec[i].key) = Range(spec[i].deps)
                              /\ spec[i].deps \in Seq(STRING)
           /\ \A k \in K : /\ Place(spec, k) \in 1..N /\ spec[Place(spec, k)].key = k
                           /\ Deps(spec, k) \subseteq K /\ k \notin Deps(spec, k) /\ IsFiniteSet(Deps(spec, k))
           /\ IsFiniteSet(K) /\ Cardinality(K) = N
<1>1. N \in Nat /\ DOMAIN spec = 1..N /\ spec # <<>> /\ K = {spec[i].key : i \in 1..N}
  BY DEF WellFormed, Keys
<1>2. N >= 1
  BY <1>1
<1>3. \A i, j \in 1..N : spec[i].key = spec[j].key => i = j
  BY <1>1 DEF WellFormed
<1>4. ASSUME NEW i \in 1..N PROVE spec[i].deps \in Seq(STRING)
  <2>1. spec[i] \in Nodes
    BY <1>1, ElementOfSeq
  <2> QED BY <2>1 DEF Nodes
<1>5. ASSUME NEW i \in 1..N
      PROVE  /\ spec[i].key \in K /\ Place(spec, spec[i].key) = i
             /\ by_key(spec, spec[i].key) = spec[i]
  <2>1. \E j \in DOMAIN spec : /\ j = i /\ spec[j].key = spec[i].key
                               /\ \A m \in DOMAIN spec : spec[m].key = spec[i].key => m <= j
    BY <1>1, <1>3
  <2>2. \A j \in DOMAIN spec : spec[j].key = spec[i].key => j = i
    BY <1>1, <1>3
  <2>3. Place(spec, spec[i].key) = i
    BY <2>1, <2>2 DEF Place
  <2>4. (CHOOSE j \in DOMAIN spec :
           spec[j].key = spec[i].key /\ \A m \in DOMAIN spec : spec[m].key = spec[i].key => m <= j) = i
    BY <2>1, <2>2
  <2>5. by_key(spec, spec[i].key) = spec[i]
    BY <2>4 DEF by_key
  <2> QED BY <1>1, <2>3, <2>5
<1>6. ASSUME NEW i \in 1..N
      PROVE  Range(spec[i].deps) \subseteq K /\ spec[i].key \notin Range(spec[i].deps) /\ IsFiniteSet(Range(spec[i].deps))
  <2>1. ASSUME NEW m \in DOMAIN spec[i].deps PROVE spec[i].deps[m] \in K /\ spec[i].deps[m] # spec[i].key
    <3>1. PICK j \in DOMAIN spec \ {i} : spec[j].key = spec[i].deps[m]
      BY <1>1 DEF WellFormed
    <3> QED BY <1>1, <1>3, <3>1
  <2>2. PICK L \in Nat : DOMAIN spec[i].deps = 1..L
    BY <1>4
  <2>3. PICK f : f = spec[i].deps
    OBVIOUS
  <2>4. f \in [1..L -> Range(f)] /\ \A x \in Range(f) : \E m \in 1..L : f[m] = x
    BY <1>4, <2>2, <2>3 DEF Range
  <2>5. f \in Surjection(1..L, Range(f))
    BY <2>4 DEF Surjection
  <2>6. IsFiniteSet(Range(f))
    <3>1. IsFiniteSet(1..L)
      BY FS_Interval
    <3> QED BY <2>5, <3>1, FS_Surjection
  <2> QED BY <2>1, <2>3, <2>6 DEF Range
<1>7. ASSUME NEW k \in K
      PROVE  /\ Place(spec, k) \in 1..N /\ spec[Place(spec, k)].key = k
             /\ Deps(spec, k) \subseteq K /\ k \notin Deps(spec, k) /\ IsFiniteSet(Deps(spec, k))
  <2>1. PICK i \in 1..N : k = spec[i].key
    BY <1>1
  <2> QED BY <1>5, <1>6, <2>1 DEF Deps
<1>8. IsFiniteSet(K) /\ Cardinality(K) = N
  <2>1. PICK f : f = [i \in 1..N |-> spec[i].key]
    OBVIOUS
  <2>2. f \in [1..N -> K] /\ (\A k \in K : \E i \in 1..N : f[i] = k) /\ \A i, j \in 1..N : f[i] = f[j] => i = j
    BY <1>1, <1>3, <2>1
  <2>3. f \in Surjection(1..N, K)
    BY <2>2 DEF Surjection
  <2>4. f \in Injection(1..N, K)
    BY <2>2 DEF Injection, IsInjective
  <2>5. IsFiniteSet(1..N) /\ Cardinality(1..N) = N
    <3>1. 1 \in Int /\ N \in Int /\ ~(1 > N) /\ N - 1 + 1 = N
      BY <1>1, <1>2
    <3> QED BY <3>1, FS_Interval
  <2> QED BY <2>3, <2>4, <2>5, FS_Surjection
<1> QED BY <1>1, <1>2, <1>4, <1>5, <1>7, <1>8 DEF Deps

\* A node of a well-formed spec lists another once or not at all.
Listing(spec, k, i) == [m \in 1..Cardinality({n \in DOMAIN spec[i].deps : spec[i].deps[n] = k}) |-> spec[i].key]

LEMMA ListedOnce ==
    ASSUME NEW spec \in Seq(Nodes), WellFormed(spec), NEW i \in 1..Len(spec), NEW k
    PROVE  Listing(spec, k, i) = IF k \in Range(spec[i].deps) THEN <<spec[i].key>> ELSE <<>>
<1>1. PICK S : S = {n \in DOMAIN spec[i].deps : spec[i].deps[n] = k}
  OBVIOUS
<1>2. i \in DOMAIN spec
  OBVIOUS
<1>3. \A m, n \in S : m = n
  BY <1>1, <1>2 DEF WellFormed
<1>4. k \in Range(spec[i].deps) <=> \E n : n \in S
  BY <1>1 DEF Range
<1>5. PICK key : key = spec[i].key
  OBVIOUS
<1>6. CASE k \in Range(spec[i].deps)
  <2>0. PICK n : n \in S
    BY <1>4, <1>6
  <2>1. S = {n}
    BY <1>3, <2>0
  <2>2. Cardinality(S) = 1
    BY <2>1, FS_Singleton
  <2>3. Listing(spec, k, i) = [m \in 1..1 |-> key]
    BY <1>1, <1>5, <2>2 DEF Listing
  <2>4. [m \in 1..1 |-> key] = <<key>>
    OBVIOUS
  <2> QED BY <1>5, <1>6, <2>3, <2>4
<1>7. CASE k \notin Range(spec[i].deps)
  <2>1. S = {}
    BY <1>4, <1>7
  <2>2. Cardinality(S) = 0
    BY <2>1, FS_EmptySet
  <2>3. Listing(spec, k, i) = [m \in 1..0 |-> key]
    BY <1>1, <1>5, <2>2 DEF Listing
  <2>4. [m \in 1..0 |-> key] = <<>>
    OBVIOUS
  <2> QED BY <1>7, <2>3, <2>4
<1> QED BY <1>6, <1>7

\* The keys in C, in declaration order.
Picked(spec, C, i) == IF spec[i].key \in C THEN <<spec[i].key>> ELSE <<>>

PickTo(spec, C, t) ==
    t = [i \in 0..Len(spec) |-> IF i = 0 THEN <<>> ELSE t[i - 1] \o Picked(spec, C, i)]

Sorted(spec, q) == \A a, b \in 1..Len(q) : a < b => Place(spec, q[a]) < Place(spec, q[b])

LEMMA PickExists ==
    ASSUME NEW spec \in Seq(Nodes), WellFormed(spec), NEW C
    PROVE  \E t : PickTo(spec, C, t)
<1>1. PICK N : N = Len(spec)
  OBVIOUS
<1>2. PICK K : K = Keys(spec)
  OBVIOUS
<1>3. N \in Nat /\ \A i \in 1..N : spec[i].key \in K
  BY <1>1, <1>2, GraphOf
<1>4. PICK V : V = Seq(K)
  OBVIOUS
<1>5. ASSUME NEW i \in 1..N, NEW q \in V PROVE q \o Picked(spec, C, i) \in V
  <2>1. PICK x \in K : x = spec[i].key
    BY <1>3
  <2>2. q \o <<x>> \in Seq(K) /\ q \o <<>> \in Seq(K)
    BY <1>4
  <2> QED BY <1>4, <2>1, <2>2 DEF Picked
<1>6. PICK F : F = [x \in (1..N) \X V |-> x[2] \o Picked(spec, C, x[1])]
  OBVIOUS
<1>7. F \in [(1..N) \X V -> V]
  BY <1>5, <1>6
<1>8. PICK f \in [0..N -> V] : Table(f, N, <<>>, F)
  <2>1. <<>> \in V
    BY <1>4
  <2> QED BY <1>3, <1>7, <2>1, Recursion
<1>9. ASSUME NEW i \in 0..N PROVE f[i] = IF i = 0 THEN <<>> ELSE f[i - 1] \o Picked(spec, C, i)
  <2>1. f[i] = IF i = 0 THEN <<>> ELSE F[<<i, f[i - 1]>>]
    BY <1>8 DEF Table
  <2>2. CASE i # 0
    <3>1. i \in 1..N /\ i - 1 \in 0..N
      BY <1>3, <2>2
    <3>2. <<i, f[i - 1]>> \in (1..N) \X V
      BY <1>8, <3>1
    <3> QED BY <1>6, <2>1, <2>2, <3>2
  <2> QED BY <2>1, <2>2
<1>10. PickTo(spec, C, f)
  BY <1>1, <1>8, <1>9 DEF PickTo
<1> QED BY <1>10

LEMMA PickHas ==
    ASSUME NEW spec \in Seq(Nodes), WellFormed(spec), NEW K, K = Keys(spec), NEW C, NEW t, PickTo(spec, C, t),
           NEW q, q = t[Len(spec)]
    PROVE  /\ q \in Seq(K)
           /\ \A x \in K : x \in C <=> \E a \in 1..Len(q) : q[a] = x
           /\ Sorted(spec, q)
<1>1. PICK N : N = Len(spec)
  OBVIOUS
<1>2. /\ N \in Nat /\ N >= 1
      /\ \A i \in 1..N : spec[i].key \in K /\ Place(spec, spec[i].key) = i
      /\ \A x \in K : Place(spec, x) \in 1..N /\ spec[Place(spec, x)].key = x
  BY <1>1, GraphOf
<1>3. \A i \in 0..N : t[i] = IF i = 0 THEN <<>> ELSE t[i - 1] \o Picked(spec, C, i)
  BY <1>1 DEF PickTo
<1> DEFINE Right(i) == /\ t[i] \in Seq(K)
                       /\ \A a \in 1..Len(t[i]) : t[i][a] \in C /\ Place(spec, t[i][a]) <= i
                       /\ \A j \in 1..i : spec[j].key \in C => \E a \in 1..Len(t[i]) : t[i][a] = spec[j].key
                       /\ Sorted(spec, t[i])
           S == {i \in 0..N : Right(i)}
<1>4. 0 \in S
  <2>1. t[0] = <<>> /\ 0 \in 0..N
    BY <1>2, <1>3
  <2>2. Right(0)
    BY <2>1 DEF Sorted
  <2> QED BY <2>1, <2>2
<1>5. ASSUME NEW i \in 1..N, i - 1 \in S PROVE i \in S
  <2>1. PICK r : r = t[i - 1]
    OBVIOUS
  <2>2. PICK d : d = t[i]
    OBVIOUS
  <2>3. PICK x \in K : x = spec[i].key /\ Place(spec, x) = i
    BY <1>2
  <2>4. /\ r \in Seq(K)
        /\ \A a \in 1..Len(r) : r[a] \in C /\ Place(spec, r[a]) <= i - 1 /\ r[a] \in K
        /\ \A j \in 1..(i - 1) : spec[j].key \in C => \E a \in 1..Len(r) : r[a] = spec[j].key
        /\ Sorted(spec, r)
    <3>1. Right(i - 1)
      BY <1>5
    <3> QED BY <2>1, <3>1
  <2>5. i \in 0..N /\ i # 0 /\ \A j \in 1..i : j = i \/ j \in 1..(i - 1)
    BY <1>2
  <2>6. d = r \o Picked(spec, C, i)
    BY <1>3, <2>1, <2>2, <2>5
  <2>7. CASE x \notin C
    <3>1. d = r
      <4>1. r \o <<>> = r
        BY <2>4
      <4> QED BY <2>3, <2>6, <2>7, <4>1 DEF Picked
    <3>2. \A a \in 1..Len(r) : Place(spec, r[a]) <= i
      BY <1>2, <2>4
    <3>3. Right(i)
      BY <2>2, <2>3, <2>4, <2>5, <2>7, <3>1, <3>2
    <3> QED BY <2>5, <3>3
  <2>8. CASE x \in C
    <3>1. d = r \o <<x>>
      BY <2>3, <2>6, <2>8 DEF Picked
    <3>2. PICK L \in Nat : L = Len(r)
      BY <2>4
    <3>3. d \in Seq(K) /\ Len(d) = L + 1 /\ d[L + 1] = x /\ \A a \in 1..L : d[a] = r[a]
      BY <2>4, <3>1, <3>2
    <3>4. \A a \in 1..(L + 1) : a = L + 1 \/ a \in 1..L
      OBVIOUS
    <3>5. \A a \in 1..L : r[a] \in C /\ Place(spec, r[a]) < i
      BY <1>2, <2>4, <3>2
    <3>6. \A a \in 1..(L + 1) : d[a] \in C /\ Place(spec, d[a]) <= i
      BY <2>3, <2>8, <3>3, <3>4, <3>5, <1>2
    <3>7. ASSUME NEW j \in 1..i, spec[j].key \in C PROVE \E a \in 1..(L + 1) : d[a] = spec[j].key
      <4>1. CASE j = i
        <5>1. L + 1 \in 1..(L + 1)
          OBVIOUS
        <5> QED BY <2>3, <3>3, <4>1, <5>1
      <4>2. CASE j # i
        <5>1. PICK a \in 1..L : r[a] = spec[j].key
          BY <2>4, <2>5, <3>2, <3>7, <4>2
        <5>2. a \in 1..(L + 1)
          OBVIOUS
        <5> QED BY <3>3, <5>1, <5>2
      <4> QED BY <4>1, <4>2
    <3>8. ASSUME NEW a \in 1..(L + 1), NEW b \in 1..(L + 1), a < b PROVE Place(spec, d[a]) < Place(spec, d[b])
      <4>1. a \in 1..L /\ d[a] = r[a]
        BY <3>3, <3>8
      <4>2. CASE b = L + 1
        BY <2>3, <3>3, <3>5, <4>1, <4>2
      <4>3. CASE b # L + 1
        <5>1. b \in 1..L /\ d[b] = r[b]
          BY <3>3, <3>4, <4>3
        <5> QED BY <2>4, <3>2, <3>8, <4>1, <5>1 DEF Sorted
      <4> QED BY <4>2, <4>3
    <3>9. Sorted(spec, d)
      BY <3>3, <3>8 DEF Sorted
    <3>10. Right(i)
      BY <2>2, <3>3, <3>6, <3>7, <3>9
    <3> QED BY <2>5, <3>10
  <2> QED BY <2>7, <2>8
<1> HIDE DEF S
<1>6. N \in S
  <2>1. \A i \in 0..N : i \in S
    BY <1>2, <1>4, <1>5, Upto
  <2> QED BY <1>2, <2>1
<1>7. Right(N)
  BY <1>6 DEF S
<1>8. \A x \in K : x \in C => \E a \in 1..Len(t[N]) : t[N][a] = x
  BY <1>2, <1>7
<1> QED BY <1>1, <1>7, <1>8

\* The nodes downstream of k are those that depend on it, once each.
LEMMA DownstreamOf ==
    ASSUME NEW spec \in Seq(Nodes), WellFormed(spec), NEW K, K = Keys(spec), NEW k, NEW q, q = downstream(spec, k)
    PROVE  /\ q \in Seq(K)
           /\ \A x \in K : k \in Deps(spec, x) <=> \E a \in 1..Len(q) : q[a] = x
           /\ Sorted(spec, q)
<1>1. PICK N : N = Len(spec)
  OBVIOUS
<1>2. PICK C : C = {x \in K : k \in Deps(spec, x)}
  OBVIOUS
<1>3. ASSUME NEW i \in 1..N PROVE Listing(spec, k, i) = Picked(spec, C, i)
  <2>1. spec[i].key \in K /\ Deps(spec, spec[i].key) = Range(spec[i].deps)
    BY <1>1, GraphOf
  <2> QED BY <1>1, <1>2, <2>1, ListedOnce DEF Picked
<1> DEFINE DownTo(down) ==
        down = [i \in 0..N |-> IF i = 0 THEN <<>> ELSE down[i - 1] \o Listing(spec, k, i)]
<1>4. N \in Nat
  BY <1>1
<1>5. ASSUME NEW down PROVE DownTo(down) <=> PickTo(spec, C, down)
  <2>1. \A i \in 0..N : (IF i = 0 THEN <<>> ELSE down[i - 1] \o Listing(spec, k, i))
                          = (IF i = 0 THEN <<>> ELSE down[i - 1] \o Picked(spec, C, i))
    <3>1. \A i \in 0..N : i # 0 => i \in 1..N
      BY <1>4
    <3> QED BY <1>3, <3>1
  <2> QED BY <1>1, <2>1 DEF PickTo
<1>6. PICK down : down = CHOOSE g : DownTo(g)
  OBVIOUS
<1>7. DownTo(down)
  <2>1. \E g : DownTo(g)
    BY <1>5, PickExists
  <2> QED BY <1>6, <2>1
<1>8. PickTo(spec, C, down)
  BY <1>5, <1>7
<1>9. q = down[N]
  BY <1>1, <1>6 DEF downstream, Listing
<1>10. /\ q \in Seq(K)
       /\ \A x \in K : x \in C <=> \E a \in 1..Len(q) : q[a] = x
       /\ Sorted(spec, q)
  BY <1>1, <1>8, <1>9, PickHas
<1> QED BY <1>2, <1>10

\* The roots are the nodes that depend on nothing.
LEMMA RootsOf ==
    ASSUME NEW spec \in Seq(Nodes), WellFormed(spec), NEW K, K = Keys(spec), NEW q, q = Roots(spec)
    PROVE  /\ q \in Seq(K)
           /\ \A x \in K : Deps(spec, x) = {} <=> \E a \in 1..Len(q) : q[a] = x
           /\ Sorted(spec, q)
<1>1. PICK N : N = Len(spec)
  OBVIOUS
<1>2. PICK C : C = {x \in K : Deps(spec, x) = {}}
  OBVIOUS
<1> DEFINE Root(i) == IF Indegrees(spec)[spec[i].key] = 0 THEN <<spec[i].key>> ELSE <<>>
           RootTo(roots) == roots = [i \in 0..N |-> IF i = 0 THEN <<>> ELSE roots[i - 1] \o Root(i)]
<1>3. ASSUME NEW i \in 1..N PROVE Root(i) = Picked(spec, C, i)
  <2>1. PICK x \in K : x = spec[i].key
    BY <1>1, GraphOf
  <2>2. Indegrees(spec)[x] = Cardinality(Deps(spec, x))
    BY DEF Indegrees, Deps
  <2>3. Cardinality(Deps(spec, x)) = 0 <=> Deps(spec, x) = {}
    <3>1. IsFiniteSet(Deps(spec, x))
      BY GraphOf
    <3> QED BY <3>1, FS_EmptySet
  <2> QED BY <1>2, <2>1, <2>2, <2>3 DEF Picked
<1>4. N \in Nat
  BY <1>1
<1>5. ASSUME NEW roots PROVE RootTo(roots) <=> PickTo(spec, C, roots)
  <2>1. \A i \in 0..N : (IF i = 0 THEN <<>> ELSE roots[i - 1] \o Root(i))
                          = (IF i = 0 THEN <<>> ELSE roots[i - 1] \o Picked(spec, C, i))
    <3>1. \A i \in 0..N : i # 0 => i \in 1..N
      BY <1>4
    <3> QED BY <1>3, <3>1
  <2> QED BY <1>1, <2>1 DEF PickTo
<1>6. PICK roots : roots = CHOOSE g : RootTo(g)
  OBVIOUS
<1>7. RootTo(roots)
  <2>1. \E g : RootTo(g)
    BY <1>5, PickExists
  <2> QED BY <1>6, <2>1
<1>8. PickTo(spec, C, roots)
  BY <1>5, <1>7
<1>9. q = roots[N]
  BY <1>1, <1>6 DEF Roots
<1>10. /\ q \in Seq(K)
       /\ \A x \in K : x \in C <=> \E a \in 1..Len(q) : q[a] = x
       /\ Sorted(spec, q)
  BY <1>1, <1>8, <1>9, PickHas
<1> QED BY <1>2, <1>10

\* The state of the loop, and the nodes that were ever ready, in the order in which they became so.
States(K) == [indeg : [K -> Int], order : Seq(K), ready : Seq(K)]
Line(s) == s.order \o s.ready

NoTwice(q) == \A a, b \in 1..Len(q) : a # b => q[a] # q[b]

\* Of two nodes with the same dependencies the one declared first is first.
InTurn(spec, q) ==
    \A a, b \in 1..Len(q) : Deps(spec, q[a]) = Deps(spec, q[b]) /\ Place(spec, q[a]) < Place(spec, q[b]) => a < b

LEMMA LineParts ==
    ASSUME NEW K, NEW o \in Seq(K), NEW r \in Seq(K)
    PROVE  /\ o \o r \in Seq(K) /\ Range(o \o r) = Range(o) \cup Range(r)
           /\ \A x \in K : o \o Append(r, x) = Append(o \o r, x)
           /\ r # <<>> => /\ Append(o, Head(r)) \o Tail(r) = o \o r
                          /\ Head(r) \in K /\ Tail(r) \in Seq(K)
                          /\ Len(o \o r) >= Len(o) + 1 /\ (o \o r)[Len(o) + 1] = Head(r)
<1>1. o \o r \in Seq(K) /\ Range(o \o r) = Range(o) \cup Range(r)
  BY RangeConcatenation
<1>2. ASSUME NEW x \in K PROVE o \o Append(r, x) = Append(o \o r, x)
  <2>1. <<x>> \in Seq(K) /\ Append(r, x) = r \o <<x>> /\ Append(o \o r, x) = (o \o r) \o <<x>>
    BY <1>1, AppendIsConcat
  <2>2. (o \o r) \o <<x>> = o \o (r \o <<x>>)
    BY <2>1, ConcatAssociative
  <2> QED BY <2>1, <2>2
<1>3. ASSUME r # <<>>
      PROVE  /\ Append(o, Head(r)) \o Tail(r) = o \o r
             /\ Head(r) \in K /\ Tail(r) \in Seq(K) /\ Len(o \o r) >= Len(o) + 1 /\ (o \o r)[Len(o) + 1] = Head(r)
  <2>1. Head(r) \in K /\ Tail(r) \in Seq(K) /\ Len(r) >= 1 /\ Len(Tail(r)) = Len(r) - 1
        /\ \A i \in 1..Len(Tail(r)) : Tail(r)[i] = r[i + 1]
    BY <1>3, HeadTailProperties
  <2>2. PICK h \in K : h = Head(r) /\ h = r[1]
    BY <2>1
  <2>3. PICK t \in Seq(K) : t = Tail(r)
    BY <2>1
  <2>4. <<h>> \in Seq(K) /\ Append(o, h) = o \o <<h>>
    BY AppendIsConcat
  <2>5. r = <<h>> \o t
    <3>1. PICK u : u = <<h>> \o t
      OBVIOUS
    <3>2. u \in Seq(K) /\ Len(u) = Len(r) /\ u[1] = h /\ \A i \in 2..Len(r) : u[i] = t[i - 1]
      BY <2>1, <2>3, <2>4, <3>1
    <3>3. ASSUME NEW i \in 1..Len(r) PROVE u[i] = r[i]
      <4>1. i = 1 \/ (i \in 2..Len(r) /\ i - 1 \in 1..Len(t) /\ (i - 1) + 1 = i)
        BY <2>1, <2>3
      <4> QED BY <2>1, <2>2, <2>3, <3>2, <4>1
    <3> QED BY <3>1, <3>2, <3>3, SeqEqual
  <2>6. (o \o <<h>>) \o t = o \o (<<h>> \o t)
    BY <2>4, ConcatAssociative
  <2>7. Len(o \o r) = Len(o) + Len(r) /\ (o \o r)[Len(o) + 1] = r[1]
    BY <2>1, ConcatProperties
  <2> QED BY <2>1, <2>2, <2>3, <2>4, <2>5, <2>6, <2>7
<1> QED BY <1>1, <1>2, <1>3

\* A node that is new to the line joins it at the end.
LEMMA LineGrows ==
    ASSUME NEW spec, NEW K, NEW q \in Seq(K), NoTwice(q), InTurn(spec, q), NEW x \in K, x \notin Range(q),
           \A y \in K : Place(spec, y) \in Nat,
           \A y \in Range(q) : Deps(spec, y) = Deps(spec, x) => Place(spec, y) < Place(spec, x)
    PROVE  /\ Append(q, x) \in Seq(K) /\ Range(Append(q, x)) = Range(q) \cup {x}
           /\ NoTwice(Append(q, x)) /\ InTurn(spec, Append(q, x))
<1>1. PICK p : p = Append(q, x)
  OBVIOUS
<1>2. PICK L \in Nat : L = Len(q)
  OBVIOUS
<1>3. p \in Seq(K) /\ Len(p) = L + 1 /\ p[L + 1] = x /\ \A a \in 1..L : p[a] = q[a]
  BY <1>1, <1>2, AppendProperties
<1>4. \A a \in 1..(L + 1) : a = L + 1 \/ a \in 1..L
  OBVIOUS
<1>5. \A a \in 1..L : q[a] \in Range(q) /\ q[a] \in K
  BY <1>2 DEF Range
<1>6. Range(p) = Range(q) \cup {x}
  <2>1. Range(<<x>>) = {x}
    BY DEF Range
  <2>0. <<x>> \in Seq(K)
    OBVIOUS
  <2>2. PICK t \in Seq(K) : t = <<x>>
    BY <2>0
  <2>3. p = q \o t
    BY <1>1, <2>2, AppendIsConcat
  <2>4. Range(q \o t) = Range(q) \cup Range(t)
    BY RangeConcatenation
  <2> QED BY <2>1, <2>2, <2>3, <2>4
<1>7. ASSUME NEW a \in 1..(L + 1), NEW b \in 1..(L + 1), a # b PROVE p[a] # p[b]
  <2>1. CASE a \in 1..L /\ b \in 1..L
    BY <1>2, <1>3, <1>7, <2>1 DEF NoTwice
  <2>2. CASE a = L + 1
    <3>1. b \in 1..L
      BY <1>4, <1>7, <2>2
    <3> QED BY <1>3, <1>5, <2>2, <3>1
  <2>3. CASE b = L + 1
    <3>1. a \in 1..L
      BY <1>4, <1>7, <2>3
    <3> QED BY <1>3, <1>5, <2>3, <3>1
  <2> QED BY <1>4, <2>1, <2>2, <2>3
<1>8. ASSUME NEW a \in 1..(L + 1), NEW b \in 1..(L + 1),
             Deps(spec, p[a]) = Deps(spec, p[b]), Place(spec, p[a]) < Place(spec, p[b])
      PROVE  a < b
  <2>1. CASE a \in 1..L /\ b \in 1..L
    BY <1>2, <1>3, <1>8, <2>1 DEF InTurn
  <2>2. CASE a \in 1..L /\ b = L + 1
    BY <2>2
  <2>3. CASE a = L + 1
    <3>1. b \in 1..L
      BY <1>3, <1>4, <1>8, <2>3
    <3>2. Place(spec, q[b]) < Place(spec, x) /\ Place(spec, x) < Place(spec, q[b])
      BY <1>3, <1>5, <1>8, <2>3, <3>1
    <3>3. Place(spec, q[b]) \in Nat /\ Place(spec, x) \in Nat
      BY <1>5, <3>1
    <3> QED BY <3>2, <3>3
  <2> QED BY <1>4, <2>1, <2>2, <2>3
<1>9. NoTwice(p) /\ InTurn(spec, p)
  BY <1>3, <1>7, <1>8 DEF NoTwice, InTurn
<1> QED BY <1>1, <1>3, <1>6, <1>9

\* Between the releases of one turn: the nodes in T were told that k is ordered.
MidTurn(spec, K, O, k, T, r) ==
    /\ r \in States(K) /\ NoTwice(Line(r)) /\ InTurn(spec, Line(r))
    /\ \A x \in K : /\ x \in Range(Line(r)) <=> Deps(spec, x) \subseteq O \/ (x \in T /\ Deps(spec, x) \subseteq O \cup {k})
                    /\ r.indeg[x] = Cardinality(Deps(spec, x) \ O) - (IF x \in T THEN 1 ELSE 0)

LEMMA ReleaseTyped ==
    ASSUME NEW K, NEW r \in States(K), NEW x \in K
    PROVE  /\ Release(r, x) \in States(K) /\ Release(r, x).order = r.order
           /\ Release(r, x).indeg = [r.indeg EXCEPT ![x] = r.indeg[x] - 1]
           /\ Release(r, x).ready = IF r.indeg[x] - 1 = 0 THEN Append(r.ready, x) ELSE r.ready
<1>1. r.indeg \in [K -> Int] /\ r.order \in Seq(K) /\ r.ready \in Seq(K) /\ DOMAIN r = {"indeg", "order", "ready"}
  BY DEF States
<1>2. PICK left \in Int : left = r.indeg[x] - 1
  BY <1>1
<1>3. PICK i \in [K -> Int] : i = [r.indeg EXCEPT ![x] = left]
  BY <1>1
<1>4. PICK y \in Seq(K) : y = IF left = 0 THEN Append(r.ready, x) ELSE r.ready
  <2>1. Append(r.ready, x) \in Seq(K)
    BY <1>1, AppendProperties
  <2> QED BY <1>1, <2>1
<1>5. Release(r, x) = [r EXCEPT !.indeg = i, !.ready = y]
  BY <1>1, <1>2, <1>3, <1>4 DEF Release
<1>6. Release(r, x) = [indeg |-> i, order |-> r.order, ready |-> y]
  BY <1>5 DEF States
<1> QED BY <1>1, <1>2, <1>3, <1>4, <1>6 DEF States

LEMMA ReleaseTells ==
    ASSUME NEW spec \in Seq(Nodes), WellFormed(spec), NEW K, K = Keys(spec), NEW O, NEW k \in K, k \notin O, NEW T, NEW r,
           MidTurn(spec, K, O, k, T, r), NEW x \in K, x \notin T, k \in Deps(spec, x),
           \A y \in K : y \in T => Place(spec, y) < Place(spec, x)
    PROVE  MidTurn(spec, K, O, k, T \cup {x}, Release(r, x))
<1>1. PICK D : D = Deps(spec, x) \ O
  OBVIOUS
<1>2. IsFiniteSet(D) /\ k \in D /\ ~(Deps(spec, x) \subseteq O)
  <2>1. IsFiniteSet(Deps(spec, x))
    BY GraphOf
  <2> QED BY <1>1, <2>1, FS_Subset
<1>3. PICK c \in Nat : c = Cardinality(D)
  BY <1>2, FS_CardinalityType
<1>4. c = 1 <=> Deps(spec, x) \subseteq O \cup {k}
  <2>1. c = 1 <=> \E y : D = {y}
    BY <1>2, <1>3, FS_Singleton
  <2> QED BY <1>1, <1>2, <2>1
<1>5. r \in States(K) /\ r.indeg[x] = c /\ x \notin Range(Line(r))
  BY <1>1, <1>2, <1>3 DEF MidTurn
<1>6. PICK w : w = Release(r, x)
  OBVIOUS
<1>7. /\ w \in States(K) /\ w.order = r.order
      /\ w.indeg = [r.indeg EXCEPT ![x] = c - 1]
      /\ w.ready = IF c = 1 THEN Append(r.ready, x) ELSE r.ready
  <2>1. c - 1 = 0 <=> c = 1
    OBVIOUS
  <2> QED BY <1>5, <1>6, <2>1, ReleaseTyped
<1>8. r.indeg \in [K -> Int] /\ r.order \in Seq(K) /\ r.ready \in Seq(K)
  BY <1>5 DEF States
<1>9. Line(w) = IF c = 1 THEN Append(Line(r), x) ELSE Line(r)
  <2>1. PICK o \in Seq(K), u \in Seq(K) : o = r.order /\ u = r.ready
    BY <1>8
  <2>2. o \o Append(u, x) = Append(o \o u, x)
    BY LineParts
  <2> QED BY <1>7, <2>1, <2>2 DEF Line
<1>10. Line(r) \in Seq(K)
  BY <1>8, LineParts DEF Line
<1>11. ASSUME NEW y \in K
       PROVE  w.indeg[y] = Cardinality(Deps(spec, y) \ O) - (IF y \in T \cup {x} THEN 1 ELSE 0)
  <2>1. r.indeg[y] = Cardinality(Deps(spec, y) \ O) - (IF y \in T THEN 1 ELSE 0)
    BY DEF MidTurn
  <2>2. w.indeg[y] = IF y = x THEN c - 1 ELSE r.indeg[y]
    BY <1>7, <1>8
  <2> QED BY <1>1, <1>3, <2>1, <2>2
<1>12. CASE c = 1
  <2>1. \A y \in K : Place(spec, y) \in Nat
    BY GraphOf
  <2>2. ASSUME NEW y \in Range(Line(r)), Deps(spec, y) = Deps(spec, x) PROVE Place(spec, y) < Place(spec, x)
    <3>1. y \in K
      BY <1>10, RangeOfSeq
    <3>2. y \in T
      BY <1>2, <2>2, <3>1 DEF MidTurn
    <3> QED BY <3>1, <3>2
  <2>3. NoTwice(Line(r)) /\ InTurn(spec, Line(r))
    BY DEF MidTurn
  <2>4. Range(Line(w)) = Range(Line(r)) \cup {x} /\ NoTwice(Line(w)) /\ InTurn(spec, Line(w))
    BY <1>5, <1>9, <1>10, <1>12, <2>1, <2>2, <2>3, LineGrows
  <2>5. ASSUME NEW y \in K
        PROVE  y \in Range(Line(w)) <=> Deps(spec, y) \subseteq O \/ (y \in T \cup {x} /\ Deps(spec, y) \subseteq O \cup {k})
    BY <1>4, <1>12, <2>4 DEF MidTurn
  <2> QED BY <1>6, <1>7, <1>11, <2>4, <2>5 DEF MidTurn
<1>13. CASE c # 1
  <2>1. Line(w) = Line(r)
    BY <1>9, <1>13
  <2>2. ASSUME NEW y \in K
        PROVE  y \in Range(Line(w)) <=> Deps(spec, y) \subseteq O \/ (y \in T \cup {x} /\ Deps(spec, y) \subseteq O \cup {k})
    BY <1>2, <1>4, <1>13, <2>1 DEF MidTurn
  <2> QED BY <1>6, <1>7, <1>11, <2>1, <2>2 DEF MidTurn
<1> QED BY <1>12, <1>13

\* Between two turns: what is ordered comes after its dependencies, and what is
\* in the line is exactly what waits for nothing more.
Ordered(spec, K, s) ==
    /\ s \in States(K) /\ NoTwice(Line(s)) /\ InTurn(spec, Line(s))
    /\ \A x \in K : /\ x \in Range(Line(s)) <=> Deps(spec, x) \subseteq Range(s.order)
                    /\ s.indeg[x] = Cardinality(Deps(spec, x) \ Range(s.order))
    /\ \A a \in 1..Len(s.order) : \A d \in Deps(spec, s.order[a]) : \E b \in 1..(a - 1) : s.order[b] = d

\* The releases of a turn, one after the other.
PopTo(s, k, down, f) ==
    f = [n \in 0..Len(down) |-> IF n = 0 THEN [s EXCEPT !.ready = Tail(@), !.order = Append(@, k)]
                                ELSE Release(f[n - 1], down[n])]

\* The first ready node moves to the end of the order.
LEMMA OrderPut ==
    ASSUME NEW K, NEW u \in States(K), NEW o
    PROVE  [u EXCEPT !.order = o] = [indeg |-> u.indeg, order |-> o, ready |-> u.ready]
BY DEF States

LEMMA PopStarts ==
    ASSUME NEW K, NEW s \in States(K), s.ready # <<>>, NEW k
    PROVE  [s EXCEPT !.ready = Tail(@), !.order = Append(@, k)]
             = [indeg |-> s.indeg, order |-> Append(s.order, k), ready |-> Tail(s.ready)]
<1>1. PICK t \in Seq(K) : t = Tail(s.ready)
  BY HeadTailProperties DEF States
<1>2. PICK o : o = Append(s.order, k)
  OBVIOUS
<1>3. PICK u : u = [s EXCEPT !.ready = t]
  OBVIOUS
<1>4. u = [indeg |-> s.indeg, order |-> s.order, ready |-> t]
  BY <1>3 DEF States
<1>5. u \in States(K)
  BY <1>1, <1>4 DEF States
<1>6. [u EXCEPT !.order = o] = [indeg |-> u.indeg, order |-> o, ready |-> u.ready]
  BY <1>5, OrderPut
<1>7. [u EXCEPT !.order = o] = [indeg |-> s.indeg, order |-> o, ready |-> t]
  BY <1>4, <1>6
<1>8. s.order = u.order
  BY <1>4
<1>9. [s EXCEPT !.ready = Tail(@), !.order = Append(@, k)] = [u EXCEPT !.order = o]
  BY <1>1, <1>2, <1>3, <1>8
<1> QED BY <1>1, <1>2, <1>7, <1>9

LEMMA PopExists ==
    ASSUME NEW K, NEW s \in States(K), s.ready # <<>>, NEW k, k = Head(s.ready), NEW down \in Seq(K)
    PROVE  \E f : PopTo(s, k, down, f)
<1>1. PICK M \in Nat : M = Len(down)
  OBVIOUS
<1>2. PICK s0 : s0 = [s EXCEPT !.ready = Tail(@), !.order = Append(@, k)]
  OBVIOUS
<1>3. s0 \in States(K)
  <2>1. s.order \in Seq(K) /\ s.ready \in Seq(K) /\ s.indeg \in [K -> Int]
    BY DEF States
  <2>2. k \in K /\ Tail(s.ready) \in Seq(K)
    BY <2>1, HeadTailProperties
  <2>3. PICK o \in Seq(K), t \in Seq(K) : o = Append(s.order, k) /\ t = Tail(s.ready)
    BY <2>1, <2>2, AppendProperties
  <2>4. s0 = [indeg |-> s.indeg, order |-> o, ready |-> t]
    BY <1>2, <2>3, PopStarts
  <2> QED BY <2>1, <2>4 DEF States
<1>4. PICK V : V = States(K)
  OBVIOUS
<1>5. PICK F : F = [x \in (1..M) \X V |-> Release(x[2], down[x[1]])]
  OBVIOUS
<1>6. ASSUME NEW n \in 1..M, NEW r \in V PROVE Release(r, down[n]) \in V
  <2>1. down[n] \in K
    BY <1>1
  <2> QED BY <1>4, <2>1, ReleaseTyped
<1>7. F \in [(1..M) \X V -> V]
  BY <1>5, <1>6
<1>8. PICK f \in [0..M -> V] : Table(f, M, s0, F)
  BY <1>3, <1>4, <1>7, Recursion
<1>9. ASSUME NEW n \in 0..M PROVE f[n] = IF n = 0 THEN s0 ELSE Release(f[n - 1], down[n])
  <2>1. f[n] = IF n = 0 THEN s0 ELSE F[<<n, f[n - 1]>>]
    BY <1>8 DEF Table
  <2>2. CASE n # 0
    <3>1. n \in 1..M /\ n - 1 \in 0..M
      BY <2>2
    <3>2. <<n, f[n - 1]>> \in (1..M) \X V
      BY <1>8, <3>1
    <3> QED BY <1>5, <2>1, <2>2, <3>2
  <2> QED BY <2>1, <2>2
<1>10. PopTo(s, k, down, f)
  BY <1>1, <1>2, <1>8, <1>9 DEF PopTo
<1> QED BY <1>10

LEMMA ReleaseOrder ==
    ASSUME NEW K, NEW r \in States(K), NEW x \in K
    PROVE  Release(r, x).order = r.order
BY DEF Release, States

\* A turn orders one node more and keeps the order.
LEMMA PopOrders ==
    ASSUME NEW spec \in Seq(Nodes), WellFormed(spec), NEW K, K = Keys(spec), NEW s, Ordered(spec, K, s), s.ready # <<>>
    PROVE  Ordered(spec, K, Pop(spec, s)) /\ Len(Pop(spec, s).order) = Len(s.order) + 1
<1>1. PICK k : k = Head(s.ready)
  OBVIOUS
<1>2. PICK O : O = Range(s.order)
  OBVIOUS
<1>3. s \in States(K) /\ s.indeg \in [K -> Int] /\ s.order \in Seq(K) /\ s.ready \in Seq(K)
  BY DEF Ordered, States
<1>4. PICK o \in Seq(K), t \in Seq(K) : o = s.order /\ t = s.ready
  BY <1>3
<1>5. PICK L \in Nat : L = Len(o)
  OBVIOUS
<1>6. /\ Line(s) = o \o t /\ Line(s) \in Seq(K) /\ Range(Line(s)) = O \cup Range(t)
      /\ Append(o, k) \o Tail(t) = o \o t
      /\ k \in K /\ Tail(t) \in Seq(K) /\ Len(Line(s)) >= L + 1 /\ Line(s)[L + 1] = k
  <2>1. t # <<>> /\ k = Head(t) /\ Line(s) = o \o t
    BY <1>1, <1>4 DEF Line
  <2>2. o \o t \in Seq(K) /\ Range(o \o t) = O \cup Range(t)
    <3>1. o \o t \in Seq(K) /\ Range(o \o t) = Range(o) \cup Range(t)
      BY <1>4, RangeConcatenation
    <3> QED BY <1>2, <1>4, <3>1
  <2>3. /\ Append(o, Head(t)) \o Tail(t) = o \o t
        /\ Head(t) \in K /\ Tail(t) \in Seq(K) /\ Len(o \o t) >= L + 1 /\ (o \o t)[L + 1] = Head(t)
    BY <1>5, <2>1, LineParts
  <2> QED BY <2>1, <2>2, <2>3
<1>7. k \in Range(Line(s))
  <2>1. L + 1 \in DOMAIN Line(s)
    BY <1>6
  <2> QED BY <1>6, <2>1 DEF Range
<1>8. k \notin O
  <2> SUFFICES ASSUME k \in O PROVE FALSE
    OBVIOUS
  <2>1. PICK a \in 1..L : o[a] = k
    BY <1>2, <1>4, <1>5 DEF Range
  <2>2. (o \o t)[a] = k
    BY <1>5, <2>1, ConcatProperties
  <2>3. a \in 1..Len(Line(s)) /\ L + 1 \in 1..Len(Line(s)) /\ a # L + 1
    BY <1>6
  <2> QED BY <1>6, <2>2, <2>3 DEF Ordered, NoTwice
<1>9. PICK down : down = downstream(spec, k)
  OBVIOUS
<1>10. /\ down \in Seq(K)
       /\ \A x \in K : k \in Deps(spec, x) <=> \E a \in 1..Len(down) : down[a] = x
       /\ Sorted(spec, down)
  BY <1>9, DownstreamOf
<1>11. PICK M \in Nat : M = Len(down)
  BY <1>10
<1>12. PICK f : f = CHOOSE g : PopTo(s, k, down, g)
  OBVIOUS
<1>13. PopTo(s, k, down, f)
  BY <1>1, <1>3, <1>10, <1>12, PopExists
<1>14. Pop(spec, s) = f[M]
  BY <1>1, <1>9, <1>11, <1>12 DEF Pop, PopTo
<1>15. \A n \in 0..M : f[n] = IF n = 0 THEN [s EXCEPT !.ready = Tail(@), !.order = Append(@, k)]
                              ELSE Release(f[n - 1], down[n])
  BY <1>11, <1>13 DEF PopTo
<1>16. PICK p \in Seq(K) : p = Append(o, k) /\ Len(p) = L + 1 /\ p[L + 1] = k /\ \A a \in 1..L : p[a] = o[a]
  <2>1. k \in K
    BY <1>6
  <2>2. PICK p : p = Append(o, k)
    OBVIOUS
  <2>3. p \in Seq(K) /\ Len(p) = L + 1 /\ p[L + 1] = k /\ \A a \in 1..L : p[a] = o[a]
    BY <1>5, <2>1, <2>2, AppendProperties
  <2> QED BY <2>2, <2>3
<1>17. Range(p) = O \cup {k}
  <2>1. <<k>> \in Seq(K) /\ p = o \o <<k>> /\ Range(<<k>>) = {k}
    BY <1>6, <1>16, AppendIsConcat DEF Range
  <2>2. PICK u \in Seq(K) : u = <<k>>
    BY <2>1
  <2>3. Range(o \o u) = Range(o) \cup Range(u)
    BY RangeConcatenation
  <2> QED BY <1>2, <1>4, <2>1, <2>2, <2>3
<1> DEFINE T(n) == {down[b] : b \in 1..n}
           S == {n \in 0..M : MidTurn(spec, K, O, k, T(n), f[n]) /\ f[n].order = p}
<1>18. 0 \in S
  <2>1. f[0] = [s EXCEPT !.ready = Tail(@), !.order = Append(@, k)] /\ T(0) = {} /\ 0 \in 0..M
    BY <1>15
  <2>2. PICK v \in Seq(K) : v = Tail(t)
    BY <1>6
  <2>3. f[0] = [indeg |-> s.indeg, order |-> p, ready |-> v]
    <3>1. [s EXCEPT !.ready = Tail(@), !.order = Append(@, k)]
            = [indeg |-> s.indeg, order |-> Append(s.order, k), ready |-> Tail(s.ready)]
      BY <1>3, PopStarts
    <3> QED BY <1>4, <1>16, <2>1, <2>2, <3>1
  <2>4. f[0] \in States(K) /\ f[0].order = p /\ f[0].indeg = s.indeg
    BY <1>3, <2>3 DEF States
  <2>5. Line(f[0]) = Line(s)
    <3>1. Line(f[0]) = p \o v
      BY <2>3 DEF Line
    <3> QED BY <1>6, <1>16, <2>2, <3>1
  <2>6. ASSUME NEW x \in K
        PROVE  /\ x \in Range(Line(f[0])) <=> Deps(spec, x) \subseteq O
               /\ f[0].indeg[x] = Cardinality(Deps(spec, x) \ O) - 0
    <3>1. s.indeg[x] = Cardinality(Deps(spec, x) \ O) /\ (x \in Range(Line(s)) <=> Deps(spec, x) \subseteq O)
      BY <1>2 DEF Ordered
    <3>2. s.indeg[x] \in Int
      BY <1>3
    <3> QED BY <2>4, <2>5, <3>1, <3>2
  <2>7. MidTurn(spec, K, O, k, {}, f[0])
    BY <2>4, <2>5, <2>6 DEF MidTurn, Ordered
  <2> QED BY <2>1, <2>4, <2>7
<1>19. ASSUME NEW n \in 1..M, n - 1 \in S PROVE n \in S
  <2>1. PICK r : r = f[n - 1]
    OBVIOUS
  <2>2. PICK x \in K : x = down[n]
    BY <1>10, <1>11
  <2>3. MidTurn(spec, K, O, k, T(n - 1), r) /\ r.order = p
    BY <1>19, <2>1
  <2>4. f[n] = Release(r, x)
    BY <1>15, <2>1, <2>2
  <2>5. k \in Deps(spec, x)
    BY <1>10, <1>11, <2>2
  <2>6. \A b \in 1..(n - 1) : b \in 1..M /\ b < n
    OBVIOUS
  <2>7. \A y \in T(n - 1) : Place(spec, y) < Place(spec, x)
    BY <1>10, <1>11, <2>2, <2>6 DEF Sorted
  <2>8. x \notin T(n - 1)
    <3>1. Place(spec, x) \in Nat
      BY GraphOf
    <3> QED BY <2>7, <3>1
  <2>9. T(n) = T(n - 1) \cup {x}
    <3>1. \A b \in 1..n : b = n \/ b \in 1..(n - 1)
      OBVIOUS
    <3> QED BY <2>2, <2>6, <3>1
  <2> HIDE DEF T, S
  <2>10. MidTurn(spec, K, O, k, T(n - 1) \cup {x}, Release(r, x))
    BY <1>6, <1>8, <2>3, <2>5, <2>7, <2>8, ReleaseTells
  <2>11. r \in States(K)
    BY <2>3 DEF MidTurn
  <2>12. Release(r, x).order = p
    <3>1. Release(r, x).order = r.order
      BY <2>2, <2>11, ReleaseOrder
    <3> QED BY <2>3, <3>1
  <2>13. n \in 0..M
    OBVIOUS
  <2> QED BY <2>4, <2>9, <2>10, <2>12, <2>13 DEF S
<1>20. PICK r : r = f[M]
  OBVIOUS
<1>21. MidTurn(spec, K, O, k, T(M), r) /\ r.order = p
  <2> HIDE DEF S
  <2>1. \A n \in 0..M : n \in S
    BY <1>18, <1>19, Upto
  <2>2. M \in S
    BY <2>1
  <2> QED BY <1>20, <2>2 DEF S
<1>22. \A x \in K : x \in T(M) <=> k \in Deps(spec, x)
  BY <1>10, <1>11
<1> HIDE DEF T, S
<1>23. ASSUME NEW x \in K
       PROVE  /\ x \in Range(Line(r)) <=> Deps(spec, x) \subseteq O \cup {k}
              /\ r.indeg[x] = Cardinality(Deps(spec, x) \ (O \cup {k}))
  <2>1. IsFiniteSet(Deps(spec, x) \ O) /\ Deps(spec, x) \ (O \cup {k}) = (Deps(spec, x) \ O) \ {k}
    <3>1. IsFiniteSet(Deps(spec, x))
      BY GraphOf
    <3> QED BY <3>1, FS_Subset
  <2>2. Cardinality(Deps(spec, x) \ O) \in Nat
    BY <2>1, FS_CardinalityType
  <2>3. Cardinality((Deps(spec, x) \ O) \ {k})
          = IF k \in Deps(spec, x) \ O THEN Cardinality(Deps(spec, x) \ O) - 1 ELSE Cardinality(Deps(spec, x) \ O)
    BY <2>1, FS_RemoveElement
  <2>4. r.indeg[x] = Cardinality(Deps(spec, x) \ O) - (IF k \in Deps(spec, x) THEN 1 ELSE 0)
    BY <1>21, <1>22 DEF MidTurn
  <2>5. x \in Range(Line(r)) <=> Deps(spec, x) \subseteq O \/ (k \in Deps(spec, x) /\ Deps(spec, x) \subseteq O \cup {k})
    BY <1>21, <1>22 DEF MidTurn
  <2>6. k \in Deps(spec, x) \ O <=> k \in Deps(spec, x)
    BY <1>8
  <2>7. x \in Range(Line(r)) <=> Deps(spec, x) \subseteq O \cup {k}
    BY <2>5
  <2>8. r.indeg[x] = Cardinality((Deps(spec, x) \ O) \ {k})
    BY <2>2, <2>3, <2>4, <2>6
  <2> QED BY <2>1, <2>7, <2>8
<1>24. ASSUME NEW a \in 1..(L + 1), NEW d \in Deps(spec, p[a]) PROVE \E b \in 1..(a - 1) : p[b] = d
  <2>1. CASE a = L + 1
    <3>1. d \in O
      BY <1>2, <1>6, <1>7, <1>16, <1>24, <2>1 DEF Ordered
    <3>2. PICK b \in 1..L : o[b] = d
      BY <1>2, <1>4, <1>5, <3>1 DEF Range
    <3> QED BY <1>16, <2>1, <3>2
  <2>2. CASE a # L + 1
    <3>1. a \in 1..L /\ p[a] = o[a]
      BY <1>16, <2>2
    <3>2. PICK b \in 1..(a - 1) : o[b] = d
      BY <1>4, <1>5, <1>24, <3>1 DEF Ordered
    <3>3. b \in 1..L
      BY <3>1, <3>2
    <3> QED BY <1>16, <3>2, <3>3
  <2> QED BY <2>1, <2>2
<1>25. r \in States(K) /\ NoTwice(Line(r)) /\ InTurn(spec, Line(r))
  BY <1>21 DEF MidTurn
<1>26. Ordered(spec, K, r)
  <2>1. r.order = p /\ Len(p) = L + 1 /\ Range(r.order) = O \cup {k}
    BY <1>16, <1>17, <1>21
  <2>2. \A a \in 1..Len(r.order) : \A d \in Deps(spec, r.order[a]) : \E b \in 1..(a - 1) : r.order[b] = d
    BY <1>24, <2>1
  <2> QED BY <1>23, <1>25, <2>1, <2>2 DEF Ordered
<1> QED BY <1>4, <1>5, <1>14, <1>16, <1>20, <1>21, <1>26

\* A sequence has as many elements as it is long if it has none twice.
LEMMA SeqSize ==
    ASSUME NEW S, NEW q \in Seq(S)
    PROVE  /\ IsFiniteSet(Range(q)) /\ Cardinality(Range(q)) <= Len(q)
           /\ Cardinality(Range(q)) = Len(q) <=> NoTwice(q)
<1>1. PICK n \in Nat : n = Len(q) /\ DOMAIN q = 1..n
  BY LenProperties
<1>2. q \in [1..n -> Range(q)] /\ \A x \in Range(q) : \E i \in 1..n : q[i] = x
  BY <1>1 DEF Range
<1>3. q \in Surjection(1..n, Range(q))
  BY <1>2 DEF Surjection
<1>4. IsFiniteSet(1..n) /\ Cardinality(1..n) = n
  <2>1. IsFiniteSet(1..n) /\ Cardinality(1..n) = IF 1 > n THEN 0 ELSE n - 1 + 1
    BY FS_Interval
  <2> QED BY <2>1
<1>5. q \in Injection(1..n, Range(q)) <=> NoTwice(q)
  BY <1>1, <1>2 DEF Injection, IsInjective, NoTwice
<1> QED BY <1>1, <1>3, <1>4, <1>5, FS_Surjection

\* No line is longer than there are nodes, and one as long has them all.
LEMMA LineFits ==
    ASSUME NEW spec \in Seq(Nodes), WellFormed(spec), NEW K, K = Keys(spec), NEW q \in Seq(K), NoTwice(q)
    PROVE  Len(q) <= Len(spec) /\ (Len(q) = Len(spec) <=> Range(q) = K)
<1>1. IsFiniteSet(K) /\ Cardinality(K) = Len(spec)
  BY GraphOf
<1>2. PICK R \in SUBSET K : R = Range(q)
  BY RangeOfSeq
<1>3. Cardinality(R) = Len(q)
  BY <1>2, SeqSize
<1> QED BY <1>1, <1>2, <1>3, FS_Subset

LEMMA OrderStarts ==
    ASSUME NEW spec \in Seq(Nodes), WellFormed(spec), NEW K, K = Keys(spec), NEW s,
           s = [indeg |-> Indegrees(spec), order |-> <<>>, ready |-> Roots(spec)]
    PROVE  Ordered(spec, K, s)
<1>1. PICK q \in Seq(K) : q = Roots(spec)
  BY RootsOf
<1>2. /\ \A x \in K : Deps(spec, x) = {} <=> \E a \in 1..Len(q) : q[a] = x
      /\ Sorted(spec, q)
  BY <1>1, RootsOf
<1>3. ASSUME NEW x \in K PROVE Place(spec, x) \in Nat /\ IsFiniteSet(Deps(spec, x)) /\ Cardinality(Deps(spec, x)) \in Int
  BY GraphOf, FS_CardinalityType
<1>4. PICK w \in [K -> Int] : w = Indegrees(spec) /\ \A x \in K : w[x] = Cardinality(Deps(spec, x))
  BY <1>3 DEF Indegrees, Deps
<1>5. PICK o \in Seq(K) : o = <<>> /\ Range(o) = {}
  <2>1. <<>> \in Seq(K) /\ Range(<<>>) = {}
    BY DEF Range
  <2> QED BY <2>1
<1>6. s = [indeg |-> w, order |-> o, ready |-> q]
  BY <1>1, <1>4, <1>5
<1>7. o \o q = q
  BY <1>5
<1>8. s \in States(K) /\ Line(s) = q /\ s.order = o /\ s.indeg = w
  BY <1>6, <1>7 DEF States, Line
<1>9. \A a \in 1..Len(q) : q[a] \in K
  BY <1>1
<1>10. NoTwice(q)
  <2> SUFFICES ASSUME NEW a \in 1..Len(q), NEW b \in 1..Len(q), a # b PROVE q[a] # q[b]
    BY DEF NoTwice
  <2>1. a < b \/ b < a
    OBVIOUS
  <2>2. PICK m \in Nat, n \in Nat : m = Place(spec, q[a]) /\ n = Place(spec, q[b])
    BY <1>3, <1>9
  <2>3. m < n \/ n < m
    BY <1>2, <2>1, <2>2 DEF Sorted
  <2>4. m # n
    BY <2>3
  <2> QED BY <2>2, <2>4
<1>11. InTurn(spec, q)
  <2> SUFFICES ASSUME NEW a \in 1..Len(q), NEW b \in 1..Len(q), Place(spec, q[a]) < Place(spec, q[b]) PROVE a < b
    BY DEF InTurn
  <2>1. a < b \/ b < a \/ a = b
    OBVIOUS
  <2>2. PICK m \in Nat, n \in Nat : m = Place(spec, q[a]) /\ n = Place(spec, q[b])
    BY <1>3, <1>9
  <2>3. m < n /\ ~(n < m)
    BY <2>2
  <2>4. a # b
    BY <2>2, <2>3
  <2> QED BY <1>2, <2>1, <2>2, <2>3, <2>4 DEF Sorted
<1>12. ASSUME NEW x \in K
       PROVE  /\ x \in Range(q) <=> Deps(spec, x) \subseteq {}
              /\ w[x] = Cardinality(Deps(spec, x) \ {})
  <2>1. Deps(spec, x) \ {} = Deps(spec, x)
    OBVIOUS
  <2>2. x \in Range(q) <=> \E a \in 1..Len(q) : q[a] = x
    BY <1>1 DEF Range
  <2> QED BY <1>2, <1>4, <2>1, <2>2
<1>13. 1..Len(o) = {}
  BY <1>5
<1> QED BY <1>5, <1>8, <1>10, <1>11, <1>12, <1>13 DEF Ordered

\* The loop ends with an order, when no node is ready any more.
KahnTo(spec, M, turn) ==
    turn = [n \in 0..M |->
              IF n = 0 THEN [indeg |-> Indegrees(spec), order |-> <<>>, ready |-> Roots(spec)]
              ELSE IF turn[n - 1].ready = <<>> THEN turn[n - 1] ELSE Pop(spec, turn[n - 1])]

LEMMA KahnOrders ==
    ASSUME NEW spec \in Seq(Nodes), WellFormed(spec), NEW K, K = Keys(spec)
    PROVE  \E s : Ordered(spec, K, s) /\ s.ready = <<>> /\ Kahn(spec) = s.order
<1>1. PICK N \in Nat : N = Len(spec)
  OBVIOUS
<1>2. PICK M \in Nat : M = 2 * Len(spec) /\ M >= N
  BY <1>1
<1>3. PICK V : V = {s \in States(K) : Ordered(spec, K, s)}
  OBVIOUS
<1>4. PICK start : start = [indeg |-> Indegrees(spec), order |-> <<>>, ready |-> Roots(spec)]
  OBVIOUS
<1>5. start \in V
  <2>1. Ordered(spec, K, start)
    BY <1>4, OrderStarts
  <2>2. start \in States(K)
    BY <2>1 DEF Ordered
  <2> QED BY <1>3, <2>1, <2>2
<1>6. PICK F : F = [x \in (1..M) \X V |-> IF x[2].ready = <<>> THEN x[2] ELSE Pop(spec, x[2])]
  OBVIOUS
<1>7. ASSUME NEW s \in V, s.ready # <<>> PROVE Pop(spec, s) \in V /\ Len(Pop(spec, s).order) = Len(s.order) + 1
  <2>1. Ordered(spec, K, s)
    BY <1>3
  <2>2. PICK w : w = Pop(spec, s)
    OBVIOUS
  <2>3. Ordered(spec, K, w) /\ Len(w.order) = Len(s.order) + 1
    BY <1>7, <2>1, <2>2, PopOrders
  <2>4. w \in States(K)
    BY <2>3 DEF Ordered
  <2> QED BY <1>3, <2>2, <2>3, <2>4
<1>8. F \in [(1..M) \X V -> V]
  BY <1>6, <1>7
<1>9. PICK g \in [0..M -> V] : Table(g, M, start, F)
  BY <1>5, <1>8, Recursion
<1>10. ASSUME NEW n \in 0..M
       PROVE  g[n] = IF n = 0 THEN start ELSE IF g[n - 1].ready = <<>> THEN g[n - 1] ELSE Pop(spec, g[n - 1])
  <2>1. g[n] = IF n = 0 THEN start ELSE F[<<n, g[n - 1]>>]
    BY <1>9 DEF Table
  <2>2. CASE n # 0
    <3>1. n \in 1..M /\ n - 1 \in 0..M
      BY <2>2
    <3>2. <<n, g[n - 1]>> \in (1..M) \X V
      BY <1>9, <3>1
    <3> QED BY <1>6, <2>1, <2>2, <3>2
  <2> QED BY <2>1, <2>2
<1>11. KahnTo(spec, M, g)
  BY <1>4, <1>9, <1>10 DEF KahnTo
<1>12. PICK f : f = CHOOSE h : KahnTo(spec, M, h)
  OBVIOUS
<1>13. KahnTo(spec, M, f)
  BY <1>11, <1>12
<1>14. Kahn(spec) = f[M].order
  BY <1>2, <1>12 DEF Kahn, KahnTo
<1>15. \A n \in 0..M : f[n] = IF n = 0 THEN start ELSE IF f[n - 1].ready = <<>> THEN f[n - 1] ELSE Pop(spec, f[n - 1])
  BY <1>4, <1>13 DEF KahnTo
<1>16. PICK S : S = {n \in 0..M : f[n] \in V /\ (f[n].ready = <<>> \/ Len(f[n].order) = n)}
  OBVIOUS
<1>17. 0 \in S
  <2>1. f[0] = start /\ 0 \in 0..M
    BY <1>15
  <2>2. start.order = <<>>
    BY <1>4
  <2> QED BY <1>5, <1>16, <2>1, <2>2
<1>18. ASSUME NEW n \in 1..M, n - 1 \in S PROVE n \in S
  <2>1. PICK r \in V : r = f[n - 1] /\ (r.ready = <<>> \/ Len(r.order) = n - 1)
    BY <1>16, <1>18
  <2>2. n \in 0..M /\ n # 0 /\ f[n] = IF r.ready = <<>> THEN r ELSE Pop(spec, r)
    BY <1>15, <2>1
  <2>3. CASE r.ready = <<>>
    BY <1>16, <2>1, <2>2, <2>3
  <2>4. CASE r.ready # <<>>
    <3>1. PICK w : w = Pop(spec, r)
      OBVIOUS
    <3>2. w \in V /\ Len(w.order) = (n - 1) + 1
      BY <1>7, <2>1, <2>4, <3>1
    <3>3. Len(w.order) = n
      BY <3>2
    <3> QED BY <1>16, <2>2, <2>4, <3>1, <3>2, <3>3
  <2> QED BY <2>3, <2>4
<1>19. M \in S
  <2>1. \A n \in 0..M : n \in S
    BY <1>17, <1>18, Upto
  <2> QED BY <2>1
<1>20. PICK s \in V : s = f[M] /\ (s.ready = <<>> \/ Len(s.order) = M)
  BY <1>16, <1>19
<1>21. Ordered(spec, K, s)
  BY <1>3, <1>20
<1>22. s.ready = <<>>
  <2> SUFFICES ASSUME s.ready # <<>> PROVE FALSE
    OBVIOUS
  <2>1. Line(s) \in Seq(K) /\ Len(Line(s)) >= Len(s.order) + 1
    <3>1. PICK o \in Seq(K), t \in Seq(K) : o = s.order /\ t = s.ready
      BY <1>21 DEF Ordered, States
    <3>2. o \o t \in Seq(K) /\ Len(o \o t) >= Len(o) + 1
      BY <3>1, LineParts
    <3> QED BY <3>1, <3>2 DEF Line
  <2>2. Len(Line(s)) <= N
    BY <1>1, <1>21, <2>1, LineFits DEF Ordered
  <2> QED BY <1>2, <1>20, <2>1, <2>2
<1> QED BY <1>14, <1>20, <1>21, <1>22

\* The loop orders every node iff they can be ranked, and its order is then the one that is wanted.
LEMMA KahnDecides ==
    ASSUME NEW spec \in Seq(Nodes), WellFormed(spec), NEW K, K = Keys(spec)
    PROVE  /\ topological_order(spec) # <<>> <=> Acyclic(spec)
           /\ topological_order(spec) # <<>> => IsOrder(spec, topological_order(spec)) /\ Range(topological_order(spec)) = K
<1>1. PICK N \in Nat : N = Len(spec)
  OBVIOUS
<1>2. /\ N >= 1 /\ DOMAIN spec = 1..N
      /\ \A i \in 1..N : spec[i].key \in K /\ Place(spec, spec[i].key) = i /\ Deps(spec, spec[i].key) = Range(spec[i].deps)
      /\ \A x \in K : Place(spec, x) \in 1..N /\ spec[Place(spec, x)].key = x /\ Deps(spec, x) \subseteq K
  BY <1>1, GraphOf
<1>3. PICK s : Ordered(spec, K, s) /\ s.ready = <<>> /\ Kahn(spec) = s.order
  BY KahnOrders
<1>4. PICK o \in Seq(K) : o = s.order
  BY <1>3 DEF Ordered, States
<1>5. Line(s) = o
  <2>1. o \o <<>> = o
    BY <1>4
  <2> QED BY <1>3, <1>4, <2>1 DEF Line
<1>6. /\ NoTwice(o) /\ InTurn(spec, o)
      /\ \A x \in K : x \in Range(o) <=> Deps(spec, x) \subseteq Range(o)
      /\ \A a \in 1..Len(o) : \A d \in Deps(spec, o[a]) : \E b \in 1..(a - 1) : o[b] = d
  <2>1. /\ NoTwice(Line(s)) /\ InTurn(spec, Line(s))
        /\ \A x \in K : x \in Range(Line(s)) <=> Deps(spec, x) \subseteq Range(s.order)
    BY <1>3 DEF Ordered
  <2>2. \A a \in 1..Len(s.order) : \A d \in Deps(spec, s.order[a]) : \E b \in 1..(a - 1) : s.order[b] = d
    BY <1>3 DEF Ordered
  <2> QED BY <1>4, <1>5, <2>1, <2>2
<1>7. Len(o) = N <=> Range(o) = K
  BY <1>1, <1>4, <1>6, LineFits
<1>8. topological_order(spec) = IF Len(o) = N THEN o ELSE <<>>
  BY <1>1, <1>3, <1>4 DEF topological_order
<1>9. topological_order(spec) # <<>> <=> Len(o) = N
  BY <1>2, <1>8
<1>10. ASSUME Acyclic(spec) PROVE Range(o) = K
  <2>1. PICK rank \in [K -> 1..N] :
          \A i \in DOMAIN spec : \A d \in Range(spec[i].deps) : d \in K => rank[d] < rank[spec[i].key]
    BY <1>1, <1>10 DEF Acyclic
  <2>2. ASSUME NEW x \in K, NEW d \in Deps(spec, x) PROVE d \in K /\ rank[d] < rank[x]
    <3>1. PICK i \in 1..N : i = Place(spec, x) /\ spec[i].key = x
      BY <1>2
    <3>2. d \in K /\ d \in Range(spec[i].deps)
      BY <1>2, <2>2, <3>1
    <3> QED BY <1>2, <2>1, <3>1, <3>2
  <2>3. PICK T : T = {rank[x] : x \in K \ Range(o)}
    OBVIOUS
  <2>4. Range(o) \subseteq K
    BY <1>4, RangeOfSeq
  <2> SUFFICES ASSUME Range(o) # K PROVE FALSE
    OBVIOUS
  <2>5. T \in SUBSET Nat /\ T # {}
    <3>1. \A x \in K : rank[x] \in Nat
      BY <2>1
    <3>2. PICK x : x \in K \ Range(o)
      BY <2>4
    <3>3. rank[x] \in T
      BY <2>3, <3>2
    <3> QED BY <2>3, <3>1, <3>3
  <2>6. PICK m \in T : \A k \in T : m <= k
    BY <2>5, LeastMember
  <2>7. PICK x \in K \ Range(o) : rank[x] = m
    BY <2>3, <2>6
  <2>8. ASSUME NEW d \in Deps(spec, x) PROVE d \in Range(o)
    <3>1. d \in K /\ rank[d] < rank[x]
      BY <2>2, <2>7
    <3>2. d \notin Range(o) => rank[d] \in T
      BY <2>3, <3>1
    <3>3. rank[d] \in Nat /\ m \in Nat
      BY <2>1, <2>7, <3>1
    <3>4. rank[d] \notin T
      BY <2>6, <2>7, <3>1, <3>3
    <3> QED BY <3>2, <3>4
  <2> QED BY <1>6, <2>7, <2>8
<1>11. ASSUME Range(o) = K PROVE Acyclic(spec) /\ IsOrder(spec, o)
  <2>1. Len(o) = N /\ DOMAIN o = 1..N
    BY <1>4, <1>7, <1>11
  <2>2. PICK at : at = [k \in Range(o) |-> CHOOSE n \in DOMAIN o : o[n] = k]
    OBVIOUS
  <2>3. ASSUME NEW x \in K PROVE at[x] \in 1..N /\ o[at[x]] = x
    <3>1. \E n \in DOMAIN o : o[n] = x
      BY <1>11 DEF Range
    <3> QED BY <1>11, <2>1, <2>2, <3>1
  <2>4. ASSUME NEW n \in 1..N PROVE o[n] \in K /\ at[o[n]] = n
    <3>1. o[n] \in K
      BY <1>4, <2>1
    <3> QED BY <1>6, <2>1, <2>3, <3>1 DEF NoTwice
  <2>5. at \in [K -> 1..N]
    <3>1. at = [k \in K |-> at[k]]
      BY <1>11, <2>2
    <3> QED BY <2>3, <3>1
  <2>6. ASSUME NEW i \in 1..N, NEW d \in Range(spec[i].deps) PROVE at[d] < at[spec[i].key]
    <3>1. PICK x \in K : x = spec[i].key /\ d \in Deps(spec, x)
      BY <1>2, <2>6
    <3>2. PICK a \in 1..N : a = at[x] /\ o[a] = x
      BY <2>3
    <3>3. PICK b \in 1..(a - 1) : o[b] = d
      BY <1>6, <2>1, <3>1, <3>2
    <3>4. at[d] = b
      BY <2>4, <3>3
    <3> QED BY <3>1, <3>2, <3>3, <3>4
  <2>7. ASSUME NEW i \in 1..N, NEW j \in 1..N, i < j, Range(spec[i].deps) = Range(spec[j].deps)
        PROVE  at[spec[i].key] < at[spec[j].key]
    <3>1. PICK x \in K, y \in K : x = spec[i].key /\ y = spec[j].key
      BY <1>2
    <3>2. Deps(spec, x) = Deps(spec, y) /\ Place(spec, x) < Place(spec, y)
      BY <1>2, <2>7, <3>1
    <3>3. PICK a \in 1..N, b \in 1..N : a = at[x] /\ b = at[y] /\ o[a] = x /\ o[b] = y
      BY <2>3
    <3>4. a < b
      BY <1>6, <2>1, <3>2, <3>3 DEF InTurn
    <3> QED BY <3>1, <3>3, <3>4
  <2>8. Acyclic(spec)
    <3>1. \A i \in DOMAIN spec : \A d \in Range(spec[i].deps) : d \in Keys(spec) => at[d] < at[spec[i].key]
      BY <1>2, <2>6
    <3> QED BY <1>1, <2>5, <3>1 DEF Acyclic
  <2>9. IsOrder(spec, o)
    BY <1>1, <1>2, <1>11, <2>1, <2>2, <2>6, <2>7 DEF IsOrder
  <2> QED BY <2>8, <2>9
<1> QED BY <1>7, <1>8, <1>9, <1>10, <1>11

\* What may be saved.
LEMMA ValidateDecides ==
    ASSUME NEW spec \in Seq(Nodes)
    PROVE  validate_structure(spec) <=> WellFormed(spec) /\ Acyclic(spec)
<1>1. PICK N \in Nat : N = Len(spec) /\ DOMAIN spec = 1..N
  OBVIOUS
<1>2. ASSUME NEW i \in 1..N PROVE spec[i].key \in STRING /\ spec[i].deps \in Seq(STRING)
  <2>1. spec[i] \in Nodes
    BY <1>1, ElementOfSeq
  <2> QED BY <2>1 DEF Nodes
<1>3. Cardinality(Keys(spec)) = Len(spec) <=> \A i, j \in 1..N : spec[i].key = spec[j].key => i = j
  <2>1. PICK q : q = [i \in 1..N |-> spec[i].key]
    OBVIOUS
  <2>2. q \in Seq(STRING) /\ Len(q) = N /\ \A i \in 1..N : q[i] = spec[i].key
    BY <1>2, <2>1
  <2>3. Range(q) = Keys(spec)
    BY <1>1, <2>1 DEF Range, Keys
  <2>4. NoTwice(q) <=> \A i, j \in 1..N : spec[i].key = spec[j].key => i = j
    BY <2>2 DEF NoTwice
  <2>5. Cardinality(Range(q)) = Len(q) <=> NoTwice(q)
    BY <2>2, SeqSize
  <2> QED BY <1>1, <2>2, <2>3, <2>4, <2>5
<1>4. ASSUME NEW i \in 1..N
      PROVE  Cardinality(Range(spec[i].deps)) = Len(spec[i].deps)
             <=> \A m, n \in DOMAIN spec[i].deps : spec[i].deps[n] = spec[i].deps[m] => n = m
  <2>1. PICK q \in Seq(STRING) : q = spec[i].deps
    BY <1>2
  <2>2. DOMAIN q = 1..Len(q)
    BY <2>1
  <2>3. Cardinality(Range(q)) = Len(q) <=> NoTwice(q)
    BY SeqSize
  <2>4. NoTwice(q) <=> \A m, n \in DOMAIN q : q[n] = q[m] => n = m
    BY <2>2 DEF NoTwice
  <2> QED BY <2>1, <2>3, <2>4
<1>5. ASSUME NEW i \in 1..N, \A a, b \in 1..N : spec[a].key = spec[b].key => a = b
      PROVE  (\A d \in Range(spec[i].deps) : d # spec[i].key /\ d \in Keys(spec))
             <=> \A m \in DOMAIN spec[i].deps : \E j \in DOMAIN spec \ {i} : spec[j].key = spec[i].deps[m]
  <2>1. ASSUME NEW d PROVE d # spec[i].key /\ d \in Keys(spec) <=> \E j \in DOMAIN spec \ {i} : spec[j].key = d
    BY <1>1, <1>5 DEF Keys
  <2>2. PICK q : q = spec[i].deps
    OBVIOUS
  <2>3. (\A d \in Range(q) : d # spec[i].key /\ d \in Keys(spec))
          <=> \A m \in DOMAIN q : q[m] # spec[i].key /\ q[m] \in Keys(spec)
    BY DEF Range
  <2> QED BY <2>1, <2>2, <2>3
<1>6. ASSUME WellFormed(spec)
      PROVE  /\ spec # <<>> /\ Cardinality(Keys(spec)) = Len(spec)
             /\ \A i \in DOMAIN spec :
                  /\ Cardinality(Range(spec[i].deps)) = Len(spec[i].deps)
                  /\ \A d \in Range(spec[i].deps) : d # spec[i].key /\ d \in Keys(spec)
  <2>1. \A a, b \in 1..N : spec[a].key = spec[b].key => a = b
    BY <1>1, <1>6 DEF WellFormed
  <2>2. ASSUME NEW i \in 1..N
        PROVE  /\ \A m \in DOMAIN spec[i].deps : \E j \in DOMAIN spec \ {i} : spec[j].key = spec[i].deps[m]
               /\ \A m, n \in DOMAIN spec[i].deps : spec[i].deps[n] = spec[i].deps[m] => n = m
    BY <1>1, <1>6 DEF WellFormed
  <2>3. \A i \in 1..N : Cardinality(Range(spec[i].deps)) = Len(spec[i].deps)
    BY <1>4, <2>2
  <2>4. \A i \in 1..N : \A d \in Range(spec[i].deps) : d # spec[i].key /\ d \in Keys(spec)
    BY <1>5, <2>1, <2>2
  <2>5. spec # <<>>
    BY <1>6 DEF WellFormed
  <2> QED BY <1>1, <1>3, <2>1, <2>3, <2>4, <2>5
<1>7. ASSUME /\ spec # <<>> /\ Cardinality(Keys(spec)) = Len(spec)
             /\ \A i \in DOMAIN spec :
                  /\ Cardinality(Range(spec[i].deps)) = Len(spec[i].deps)
                  /\ \A d \in Range(spec[i].deps) : d # spec[i].key /\ d \in Keys(spec)
      PROVE  WellFormed(spec)
  <2>1. \A a, b \in 1..N : spec[a].key = spec[b].key => a = b
    BY <1>3, <1>7
  <2>2. \A i \in 1..N : \A m, n \in DOMAIN spec[i].deps : spec[i].deps[n] = spec[i].deps[m] => n = m
    BY <1>1, <1>4, <1>7
  <2>3. \A i \in 1..N : \A m \in DOMAIN spec[i].deps : \E j \in DOMAIN spec \ {i} : spec[j].key = spec[i].deps[m]
    BY <1>1, <1>5, <1>7, <2>1
  <2> QED BY <1>1, <1>7, <2>1, <2>2, <2>3 DEF WellFormed
<1>8. WellFormed(spec) => (topological_order(spec) # <<>> <=> Acyclic(spec))
  BY KahnDecides
<1> QED BY <1>6, <1>7, <1>8 DEF validate_structure

\* The job has an op for every node, in that order, and the inputs the node depends on.
LEMMA CompileOrders ==
    ASSUME NEW spec \in Seq(Nodes), WellFormed(spec), Acyclic(spec)
    PROVE  /\ IsOrder(spec, compile_job(spec).ops)
           /\ \A i \in DOMAIN spec : compile_job(spec).ins[spec[i].key] = Range(spec[i].deps)
<1>1. PICK K : K = Keys(spec)
  OBVIOUS
<1>2. PICK o : o = topological_order(spec)
  OBVIOUS
<1>3. IsOrder(spec, o) /\ Range(o) = K
  BY <1>1, <1>2, KahnDecides
<1>4. compile_job(spec).ops = o /\ compile_job(spec).ins = [k \in K |-> Deps(spec, k)]
  BY <1>2, <1>3 DEF compile_job, Deps
<1>5. ASSUME NEW i \in DOMAIN spec PROVE spec[i].key \in K /\ Deps(spec, spec[i].key) = Range(spec[i].deps)
  BY <1>1, GraphOf
<1> QED BY <1>3, <1>4, <1>5

\* Whatever specs there are: one may be saved iff its nodes can be ranked after their dependencies,
\* and the job it compiles to runs them in such an order (model.validate_structure,
\* model.topological_order, engine.compile_job).
THEOREM EveryGraph == OrderDecides
<1>1. \A spec \in Shapes : spec \in Seq(Nodes)
  BY SpecsAssumption
<1> QED BY <1>1, ValidateDecides, CompileOrders DEF OrderDecides

LEMMA CompilingSound == Compiling \subseteq Sound
<1>1. \A spec \in Specs : spec \in Seq(Nodes)
  BY SpecsAssumption
<1> QED BY <1>1, ValidateDecides, CompileOrders DEF Compiling, Sound

-----------------------------------------------------------------------------
(* Saved specs keep fitting.                                                *)

\* A save that has checked its spec and not yet written it everywhere.
Carries(r) == r.id \in Pipelines /\ (r.at \in {"add", "draft"} \/ (r.at = "create" /\ r.arg # None))

\* Specs in the store, as a version or a draft, and in the hands of requests.
InStore(d, spec) ==
  \/ \E p \in DOMAIN d.versions : \E v \in DOMAIN d.versions[p] : spec = d.versions[p][v]
  \/ \E p \in DOMAIN d.drafts : spec = d.drafts[p].spec
InHands(rq, spec) == \E q \in Requests : Carries(rq[q]) /\ spec = rq[q].arg

\* The spec compiles; the tasks it names are not new ones, so that one which is
\* deleted never comes back as another; and the pinned nodes of the others fit.
Fit(d, rq, fr, spec) ==
  /\ spec \in Compiling
  /\ \A node \in Range(spec) :
       /\ node.task \notin fr
       /\ \A q \in Requests : Creating(rq[q]) => rq[q].id # node.task
       /\ node.version # None => ResolvedNode(d, node) # None \/ node.task \notin d.tasks

Kept == \A spec : InStore(db, spec) \/ InHands(req, spec) => Fit(db, req, fresh, spec)

\* Tasks come only from requests that create them, and keep the versions they have.
TasksKept(d, rq, e) ==
  \A t \in e.tasks :
    \/ /\ t \in d.tasks
       /\ \A v \in DOMAIN d.task_versions[t] : /\ v \in DOMAIN e.task_versions[t]
                                               /\ e.task_versions[t][v] = d.task_versions[t][v]
    \/ t \notin d.tasks /\ \E q \in Requests : Creating(rq[q]) /\ rq[q].id = t
\* What is stored was stored or in hand.
StoresKnown(d, rq, e) == \A spec : InStore(e, spec) => InStore(d, spec) \/ InHands(rq, spec)
\* Request o as r has the spec it had, or one that was checked in this step.
HoldsChecked(d, o, r) == Carries(r) => (Carries(o) /\ r.arg = o.arg) \/ Prepared(d, r.arg)
\* And creates what it was to create, or takes a fresh id.
CreatesFresh(fr, o, r) == Creating(r) => (Creating(o) /\ r.id = o.id) \/ r.id \in fr

\* A spec that fits does so in the next state.
LEMMA FitStays ==
  ASSUME NEW d, NEW rq, NEW fr, NEW spec, Fit(d, rq, fr, spec),
         NEW e, NEW rq1, NEW fr1, fr1 \subseteq fr, TasksKept(d, rq, e),
         \A q \in Requests : CreatesFresh(fr, rq[q], rq1[q])
  PROVE  Fit(e, rq1, fr1, spec)
<1> SUFFICES ASSUME NEW node \in Range(spec)
             PROVE  /\ node.task \notin fr1
                    /\ \A q \in Requests : Creating(rq1[q]) => rq1[q].id # node.task
                    /\ node.version # None => ResolvedNode(e, node) # None \/ node.task \notin e.tasks
  BY DEF Fit
<1>1. /\ node.task \notin fr
      /\ \A q \in Requests : Creating(rq[q]) => rq[q].id # node.task
      /\ node.version # None => ResolvedNode(d, node) # None \/ node.task \notin d.tasks
  BY DEF Fit
<1>2. node.task \notin fr1 /\ \A q \in Requests : Creating(rq1[q]) => rq1[q].id # node.task
  BY <1>1 DEF CreatesFresh
<1>3. ASSUME node.version # None, node.task \in e.tasks
      PROVE  ResolvedNode(e, node) # None
  <2>1. node.task \in d.tasks
    BY <1>1, <1>3 DEF TasksKept
  <2>2. ResolvedNode(d, node) # None
    BY <1>1, <1>3, <2>1
  <2>3. resolve_task_ref(d, node) # None
    BY <2>2 DEF ResolvedNode
  <2>4. node.version \in DOMAIN d.task_versions[node.task]
    BY <1>3, <2>1, <2>3 DEF resolve_task_ref
  <2>5. /\ node.version \in DOMAIN e.task_versions[node.task]
        /\ e.task_versions[node.task][node.version] = d.task_versions[node.task][node.version]
    BY <1>3, <2>1, <2>4 DEF TasksKept
  <2>6. resolve_task_ref(e, node) = resolve_task_ref(d, node)
    BY <1>3, <2>1, <2>4, <2>5 DEF resolve_task_ref
  <2> QED BY <2>2, <2>6 DEF ResolvedNode
<1> QED BY <1>2, <1>3

\* A spec that was checked fits: it names tasks that are there.
LEMMA PreparedFits ==
  ASSUME NEW d, NEW rq, NEW fr, Ids(d, rq, fr), NEW spec, Prepared(d, spec)
  PROVE  Fit(d, rq, fr, spec)
<1>1. ASSUME NEW node \in Range(spec)
      PROVE  ResolvedNode(d, node) # None /\ node.task \in d.tasks
  <2>1. ResolvedNode(d, node) # None
    BY <1>1 DEF Prepared, resolve_task_configs
  <2>2. resolve_task_ref(d, node) # None
    BY <2>1 DEF ResolvedNode
  <2> QED BY <2>1, <2>2 DEF resolve_task_ref
<1>2. spec \in Compiling
  BY DEF Prepared
<1> QED BY <1>1, <1>2 DEF Fit, Ids

\* A step that keeps tasks, stores what was known and carries what was checked.
LEMMA KeptStays ==
  ASSUME CInv, Kept, fresh' \subseteq fresh, TasksKept(db, req, db'), StoresKnown(db, req, db'),
         \A q \in Requests : HoldsChecked(db, req[q], req'[q]) /\ CreatesFresh(fresh, req[q], req'[q])
  PROVE  Kept'
<1>1. PICK e : e = db'
  OBVIOUS
<1>2. PICK rq1 : rq1 = req'
  OBVIOUS
<1>3. PICK fr1 : fr1 = fresh'
  OBVIOUS
<1>4. /\ fr1 \subseteq fresh /\ TasksKept(db, req, e) /\ StoresKnown(db, req, e)
      /\ \A q \in Requests : HoldsChecked(db, req[q], rq1[q]) /\ CreatesFresh(fresh, req[q], rq1[q])
  BY <1>1, <1>2, <1>3
<1>5. ASSUME NEW spec, InStore(e, spec) \/ InHands(rq1, spec)
      PROVE  Fit(e, rq1, fr1, spec)
  <2>1. InStore(db, spec) \/ InHands(req, spec) \/ Prepared(db, spec)
    BY <1>4, <1>5 DEF StoresKnown, InHands, HoldsChecked
  <2>2. Ids(db, req, fresh)
    BY DEF CInv, Good
  <2>3. Fit(db, req, fresh, spec)
    BY <2>1, <2>2, PreparedFits DEF Kept
  <2> QED BY <1>4, <2>3, FitStays
<1> QED BY <1>1, <1>2, <1>3, <1>5 DEF Kept

\* The same for the turn of one request.
LEMMA KeptTurn ==
  ASSUME CInv, Kept, fresh' \subseteq fresh, TasksKept(db, req, db'), StoresKnown(db, req, db'),
         NEW q \in Requests, NEW r, req' = [req EXCEPT ![q] = r],
         HoldsChecked(db, req[q], r), CreatesFresh(fresh, req[q], r)
  PROVE  Kept'
<1>1. DOMAIN req = Requests
  BY DEF CInv, Good, Reqs
<1>2. \A o \in Requests : req'[o] = IF o = q THEN r ELSE req[o]
  BY <1>1
<1>3. \A o \in Requests : HoldsChecked(db, req[o], req'[o]) /\ CreatesFresh(fresh, req[o], req'[o])
  BY <1>2 DEF HoldsChecked, CreatesFresh
<1> QED BY <1>3, KeptStays

\* Versions, drafts and tasks that stay as they are.
LEMMA SameKept ==
  ASSUME NEW d, NEW rq, NEW e, e.versions = d.versions, e.drafts = d.drafts, e.tasks = d.tasks,
         e.task_versions = d.task_versions
  PROVE  TasksKept(d, rq, e) /\ StoresKnown(d, rq, e)
BY DEF TasksKept, StoresKnown, InStore

\* A request that ends carries nothing and creates nothing.
LEMMA IdleTurn ==
  ASSUME NEW d, NEW fr, NEW o
  PROVE  HoldsChecked(d, o, Idle) /\ CreatesFresh(fr, o, Idle)
BY DEF HoldsChecked, CreatesFresh, Carries, Creating, Idle

\* Steps that leave the store alone.
LEMMA ReadsKeep ==
  ASSUME CInv, Kept, NEW q \in Requests,
         \/ Abandon(q) \/ Resolve(q)
         \/ \E p \in Pipelines, op \in {"version", "draft"}, spec \in Specs : Prepare(q, op, p, spec)
         \/ \E p \in Pipelines, spec \in Specs \cup {None} : PrepareNew(q, p, spec)
         \/ \E p \in Pipelines, pin \in {None} \cup 1..MaxVersions : ReadSchedule(q, p, pin)
         \/ \E p \in Pipelines, admin \in BOOLEAN, to \in {Me, Service} : SetOwner(q, p, admin, to)
         \/ \E p \in Pipelines, home \in Replicas : StartRun(q, p, home) \/ DeleteBegin(q, p, home)
         \/ \E t \in Tasks, key \in CodeKeys : PrepareNewTask(q, t, key)
         \/ \E t \in Tasks, key \in CodeKeys, op \in {"task version", "task draft"} : PrepareTask(q, op, t, key)
  PROVE  Kept'
<1>0. /\ DOMAIN req = Requests /\ Asked(req[q]) /\ DOMAIN req[q] = Parts
  BY DEF CInv, Good, Reqs, Asked
<1>1. fresh' \subseteq fresh /\ UNCHANGED db
  BY DEF Abandon, Resolve, Prepare, PrepareNew, ReadSchedule, SetOwner, StartRun, DeleteBegin, PrepareNewTask, PrepareTask
<1>2. TasksKept(db, req, db') /\ StoresKnown(db, req, db')
  BY <1>1, SameKept
<1>3. ASSUME NEW r, req' = [req EXCEPT ![q] = r], HoldsChecked(db, req[q], r), CreatesFresh(fresh, req[q], r)
      PROVE  Kept'
  BY <1>1, <1>2, <1>3, KeptTurn
<1>4. HoldsChecked(db, req[q], Idle) /\ CreatesFresh(fresh, req[q], Idle)
  BY IdleTurn
<1>5. CASE End(q)
  <2>1. req' = [req EXCEPT ![q] = Idle]
    BY <1>5 DEF End
  <2> QED BY <1>3, <1>4, <2>1
<1>6. ASSUME NEW p \in Pipelines, NEW op \in {"version", "draft"}, NEW spec \in Specs, Prepare(q, op, p, spec)
      PROVE  Kept'
  <2>1. PICK r : r = [Idle EXCEPT !.op = op, !.at = IF op = "version" THEN "add" ELSE "draft", !.id = p, !.arg = spec]
    OBVIOUS
  <2>2. r.arg = spec /\ r.op = op /\ r.at \in {"add", "draft"}
    BY <2>1 DEF Idle
  <2>3. req' = [req EXCEPT ![q] = r] /\ Prepared(db, spec)
    BY <1>6, <2>1 DEF Prepare, Begin
  <2> QED BY <1>3, <2>2, <2>3 DEF HoldsChecked, CreatesFresh, Creating
<1>7. ASSUME NEW p \in Pipelines, NEW spec \in Specs \cup {None}, PrepareNew(q, p, spec)
      PROVE  Kept'
  <2>1. PICK r : r = [Idle EXCEPT !.op = "version", !.at = "create", !.id = p, !.arg = spec]
    OBVIOUS
  <2>2. r.arg = spec /\ r.id = p /\ r.at = "create"
    BY <2>1 DEF Idle
  <2>3. req' = [req EXCEPT ![q] = r] /\ (spec # None => Prepared(db, spec)) /\ p \in fresh
    BY <1>7, <2>1 DEF PrepareNew, Begin
  <2> QED BY <1>3, <2>2, <2>3 DEF HoldsChecked, CreatesFresh, Carries
<1>8. ASSUME NEW p \in Pipelines, NEW pin, ReadSchedule(q, p, pin)
      PROVE  Kept'
  <2>1. PICK row : row = [owner |-> IF db.pipelines[p].owner = None THEN Me ELSE db.pipelines[p].owner, pinned |-> pin]
    OBVIOUS
  <2>2. PICK r : r = [Idle EXCEPT !.op = "schedule", !.at = "write", !.id = p, !.row = row]
    OBVIOUS
  <2>3. r.at = "write" /\ r.op = "schedule"
    BY <2>2 DEF Idle
  <2>4. req' = [req EXCEPT ![q] = r]
    BY <1>8, <2>1, <2>2 DEF ReadSchedule, Begin
  <2> QED BY <1>3, <2>3, <2>4 DEF HoldsChecked, CreatesFresh, Carries, Creating
<1>9. ASSUME NEW p \in Pipelines, NEW admin, NEW to, SetOwner(q, p, admin, to)
      PROVE  Kept'
  <2>1. PICK row : row = [db.pipelines[p] EXCEPT !.owner = to]
    OBVIOUS
  <2>2. PICK r : r = [Idle EXCEPT !.op = "schedule", !.at = "write", !.id = p, !.row = row]
    OBVIOUS
  <2>3. r.at = "write" /\ r.op = "schedule"
    BY <2>2 DEF Idle
  <2>4. req' = [req EXCEPT ![q] = r]
    BY <1>9, <2>1, <2>2 DEF SetOwner, Begin
  <2> QED BY <1>3, <2>3, <2>4 DEF HoldsChecked, CreatesFresh, Carries, Creating
<1>10. ASSUME NEW p \in Pipelines, NEW home, StartRun(q, p, home)
       PROVE  Kept'
  <2>1. PICK v : v = get_version(db, p, db.pipelines[p].pinned)
    OBVIOUS
  <2>2. PICK r : r = [Idle EXCEPT !.op = "run", !.at = "write", !.id = p, !.home = home, !.level = v]
    OBVIOUS
  <2>3. r.at = "write" /\ r.op = "run"
    BY <2>2 DEF Idle
  <2>4. req' = [req EXCEPT ![q] = r]
    BY <1>10, <2>1, <2>2 DEF StartRun, Begin
  <2> QED BY <1>3, <2>3, <2>4 DEF HoldsChecked, CreatesFresh, Carries, Creating
<1>11. ASSUME NEW p \in Pipelines, NEW home, DeleteBegin(q, p, home)
       PROVE  Kept'
  <2>1. PICK r : r = [Idle EXCEPT !.op = "delete", !.at = "cancel", !.id = p, !.home = home]
    OBVIOUS
  <2>2. r.at = "cancel" /\ r.op = "delete"
    BY <2>1 DEF Idle
  <2>3. req' = [req EXCEPT ![q] = r]
    BY <1>11, <2>1 DEF DeleteBegin, Begin
  <2> QED BY <1>3, <2>2, <2>3 DEF HoldsChecked, CreatesFresh, Carries, Creating
<1>12. ASSUME NEW t \in Tasks, NEW key \in CodeKeys, PrepareNewTask(q, t, key)
       PROVE  Kept'
  <2>1. PICK r : r = [Idle EXCEPT !.op = "new task", !.at = "resolve", !.id = t, !.arg = key]
    OBVIOUS
  <2>2. r.at = "resolve" /\ r.id = t
    BY <2>1 DEF Idle
  <2>3. req' = [req EXCEPT ![q] = r] /\ t \in fresh
    BY <1>12, <2>1 DEF PrepareNewTask, Begin
  <2> QED BY <1>3, <2>2, <2>3 DEF HoldsChecked, CreatesFresh, Carries
<1>13. ASSUME NEW t \in Tasks, NEW key \in CodeKeys, NEW op \in {"task version", "task draft"}, PrepareTask(q, op, t, key)
       PROVE  Kept'
  <2>1. PICK c : c = _latest_task_config(t)
    OBVIOUS
  <2>2. PICK r : r = [Idle EXCEPT !.op = op, !.at = "resolve", !.id = t, !.arg = key, !.code = c]
    OBVIOUS
  <2>3. r.at = "resolve" /\ r.op = op
    BY <2>2 DEF Idle
  <2>4. req' = [req EXCEPT ![q] = r]
    BY <1>13, <2>1, <2>2 DEF PrepareTask, Begin
  <2> QED BY <1>3, <2>3, <2>4 DEF HoldsChecked, CreatesFresh, Carries, Creating
<1>14. CASE Resolve(q)
  <2>1. PICK code : code = _resolve_task_code(req[q].arg, req[q].code)
    OBVIOUS
  <2>2. CASE ~validate_task_config(Configuration(code.source), {BASE_RUNNER}, {})
    BY <1>5, <1>14, <2>1, <2>2 DEF Resolve
  <2>3. CASE validate_task_config(Configuration(code.source), {BASE_RUNNER}, {})
    <3>1. PICK at : at = CASE req[q].op = "new task"     -> "create"
                           [] req[q].op = "task version" -> "add"
                           [] req[q].op = "task draft"   -> "draft"
      OBVIOUS
    <3>2. /\ req[q].at = "resolve" /\ req[q].id \in Tasks /\ req[q].op \in {"new task", "task version", "task draft"}
          /\ at = "create" => req[q].op = "new task"
      BY <1>0, <1>14, <3>1 DEF Resolve, Asked
    <3>3. PICK r : r = [req[q] EXCEPT !.code = code, !.arg = None, !.at = at]
      OBVIOUS
    <3>4. r.op = req[q].op /\ r.id = req[q].id /\ r.at = at
      BY <1>0, <3>3 DEF Parts
    <3>5. req' = [req EXCEPT ![q] = r]
      BY <1>0, <1>14, <2>1, <2>3, <3>1, <3>3 DEF Resolve
    <3>6. HoldsChecked(db, req[q], r) /\ CreatesFresh(fresh, req[q], r)
      BY <3>2, <3>4, IdsAssumption DEF HoldsChecked, CreatesFresh, Carries, Creating
    <3> QED BY <1>3, <3>5, <3>6
  <2> QED BY <2>2, <2>3
<1> QED BY <1>5, <1>6, <1>7, <1>8, <1>9, <1>10, <1>11, <1>12, <1>13, <1>14 DEF Abandon

\* The writes of a pipeline's save.
LEMMA SavesKeep ==
  ASSUME CInv, Kept, NEW q \in Requests, CreatePipeline(q) \/ AddVersion(q) \/ SaveDraft(q)
  PROVE  Kept'
<1>0. /\ DOMAIN req = Requests /\ DOMAIN req[q] = Parts /\ req[q].id \in Pipelines /\ Tables(db) /\ DOMAIN db = Columns
      /\ fresh' \subseteq fresh
  BY DEF CInv, Good, Reqs, Asked, Tables, CreatePipeline, AddVersion, SaveDraft
<1>1. PICK p : p = req[q].id
  OBVIOUS
<1>2. PICK e : e = db'
  OBVIOUS
<1>4. PICK s : s = req[q].arg
  OBVIOUS
<1>5. CASE CreatePipeline(q)
  <2>1. e = create_pipeline(db, p) /\ req[q].at = "create"
    BY <1>1, <1>2, <1>5 DEF CreatePipeline
  <2>2. /\ e.versions = Put(db.versions, p, <<>>) /\ e.drafts = db.drafts
        /\ e.tasks = db.tasks /\ e.task_versions = db.task_versions
    BY <1>0, <2>1 DEF create_pipeline, Columns
  <2>3. /\ DOMAIN e.versions = DOMAIN db.versions \cup {p} /\ e.versions[p] = <<>>
        /\ \A y \in DOMAIN db.versions : y # p => e.versions[y] = db.versions[y]
    BY <2>2 DEF Put
  <2>4. DOMAIN (<<>>) = {}
    OBVIOUS
  <2>5. TasksKept(db, req, e)
    BY <2>2 DEF TasksKept
  <2>6. StoresKnown(db, req, e)
    BY <2>2, <2>3, <2>4 DEF StoresKnown, InStore
  <2>7. CASE req[q].arg = None
    <3>1. req' = [req EXCEPT ![q] = Idle]
      BY <1>5, <2>7 DEF CreatePipeline, End
    <3>2. HoldsChecked(db, req[q], Idle) /\ CreatesFresh(fresh, req[q], Idle)
      BY IdleTurn
    <3> QED BY <1>0, <1>2, <2>5, <2>6, <3>1, <3>2, KeptTurn
  <2>8. CASE req[q].arg # None
    <3>1. PICK r : r = [req[q] EXCEPT !.at = "add"]
      OBVIOUS
    <3>2. req' = [req EXCEPT ![q] = r]
      BY <1>0, <1>5, <2>8, <3>1 DEF CreatePipeline, Then
    <3>3. r.at = "add" /\ r.id = req[q].id /\ r.arg = req[q].arg /\ r.op = req[q].op
      BY <1>0, <3>1 DEF Parts
    <3>4. HoldsChecked(db, req[q], r) /\ CreatesFresh(fresh, req[q], r)
      BY <1>0, <2>1, <2>8, <3>3 DEF HoldsChecked, CreatesFresh, Carries, Creating
    <3> QED BY <1>0, <1>2, <2>5, <2>6, <3>2, <3>4, KeptTurn
  <2> QED BY <2>7, <2>8
<1>6. CASE AddVersion(q)
  <2>1. e = add_version(db, p, s) /\ req[q].at = "add"
    BY <1>1, <1>2, <1>4, <1>6 DEF AddVersion
  <2>2. CASE p \notin DOMAIN db.pipelines
    <3>1. UNCHANGED db /\ req' = [req EXCEPT ![q] = Idle]
      BY <1>1, <1>2, <1>6, <2>1, <2>2 DEF AddVersion, add_version, Has, End
    <3>2. HoldsChecked(db, req[q], Idle) /\ CreatesFresh(fresh, req[q], Idle)
      BY IdleTurn
    <3>3. TasksKept(db, req, db') /\ StoresKnown(db, req, db')
      BY <3>1, SameKept
    <3> QED BY <1>0, <3>1, <3>2, <3>3, KeptTurn
  <2>3. CASE p \in DOMAIN db.pipelines
    <3>1. PICK z : z = Append(db.versions[p], s)
      OBVIOUS
    <3>2. p \in DOMAIN db.versions /\ db.versions[p] \in Seq(Specs)
      BY <1>0, <2>3 DEF Tables
    <3>3. /\ e.versions = [db.versions EXCEPT ![p] = z] /\ e.drafts = db.drafts
          /\ e.tasks = db.tasks /\ e.task_versions = db.task_versions
      BY <1>0, <2>1, <2>3, <3>1 DEF add_version, Columns, Has
    <3>4. \A v \in DOMAIN z : z[v] = s \/ (v \in DOMAIN db.versions[p] /\ z[v] = db.versions[p][v])
      BY <3>1, <3>2
    <3>5. /\ DOMAIN e.versions = DOMAIN db.versions /\ e.versions[p] = z
          /\ \A y \in DOMAIN db.versions : y # p => e.versions[y] = db.versions[y]
      BY <3>2, <3>3
    <3>6. TasksKept(db, req, e)
      BY <3>3 DEF TasksKept
    <3>7. InHands(req, s)
      BY <1>0, <1>4, <2>1 DEF InHands, Carries
    <3>8. StoresKnown(db, req, e)
      BY <3>2, <3>3, <3>4, <3>5, <3>7 DEF StoresKnown, InStore
    <3>9. PICK level : level = Len(e.versions[p])
      OBVIOUS
    <3>10. PICK r : r = [req[q] EXCEPT !.at = "draft", !.level = level]
      OBVIOUS
    <3>11. req' = [req EXCEPT ![q] = r]
      BY <1>0, <1>1, <1>2, <1>6, <2>3, <3>9, <3>10 DEF AddVersion
    <3>12. r.at = "draft" /\ r.id = req[q].id /\ r.arg = req[q].arg /\ r.op = req[q].op
      BY <1>0, <3>10 DEF Parts
    <3>13. HoldsChecked(db, req[q], r) /\ CreatesFresh(fresh, req[q], r)
      BY <1>0, <2>1, <3>12 DEF HoldsChecked, CreatesFresh, Carries, Creating
    <3> QED BY <1>0, <1>2, <3>6, <3>8, <3>11, <3>13, KeptTurn
  <2> QED BY <2>2, <2>3
<1>7. CASE SaveDraft(q)
  <2>1. PICK level : e = save_pipeline_draft(db, p, s, level)
    BY <1>1, <1>2, <1>4, <1>7 DEF SaveDraft
  <2>2. req[q].at = "draft" /\ req' = [req EXCEPT ![q] = Idle]
    BY <1>7 DEF SaveDraft, End
  <2>3. HoldsChecked(db, req[q], Idle) /\ CreatesFresh(fresh, req[q], Idle)
    BY IdleTurn
  <2>4. TasksKept(db, req, e) /\ StoresKnown(db, req, e)
    <3>1. CASE p \notin DOMAIN db.pipelines
      <4>1. e = db
        BY <2>1, <3>1 DEF save_pipeline_draft, Has
      <4> QED BY <4>1, SameKept
    <3>2. CASE p \in DOMAIN db.pipelines
      <4>1. PICK row : row = [spec |-> s, level |-> level]
        OBVIOUS
      <4>2. row.spec = s
        BY <4>1
      <4>3. /\ e.versions = db.versions /\ e.drafts = Put(db.drafts, p, row)
            /\ e.tasks = db.tasks /\ e.task_versions = db.task_versions
        BY <1>0, <2>1, <3>2, <4>1 DEF save_pipeline_draft, Columns, Has
      <4>4. /\ DOMAIN e.drafts = DOMAIN db.drafts \cup {p} /\ e.drafts[p] = row
            /\ \A y \in DOMAIN db.drafts : y # p => e.drafts[y] = db.drafts[y]
        BY <4>3 DEF Put
      <4>5. InHands(req, s)
        BY <1>0, <1>4, <2>2 DEF InHands, Carries
      <4>6. TasksKept(db, req, e)
        BY <4>3 DEF TasksKept
      <4>7. StoresKnown(db, req, e)
        BY <4>2, <4>3, <4>4, <4>5 DEF StoresKnown, InStore
      <4> QED BY <4>6, <4>7
    <3> QED BY <3>1, <3>2
  <2> QED BY <1>0, <1>2, <2>2, <2>3, <2>4, KeptTurn
<1> QED BY <1>5, <1>6, <1>7

\* The writes of a task's save, and its deletion.
LEMMA TaskSavesKeep ==
  ASSUME CInv, Kept, NEW q \in Requests,
         CreateTask(q) \/ AddTaskVersion(q) \/ SaveTaskDraft(q) \/ \E t \in Tasks : DeleteTask(q, t)
  PROVE  Kept'
<1>0. /\ DOMAIN req = Requests /\ DOMAIN req[q] = Parts /\ Tables(db) /\ DOMAIN db = Columns /\ fresh' \subseteq fresh
  BY DEF CInv, Good, Reqs, Asked, Tables, CreateTask, AddTaskVersion, SaveTaskDraft, DeleteTask
<1>1. PICK e : e = db'
  OBVIOUS
<1>3. HoldsChecked(db, req[q], Idle) /\ CreatesFresh(fresh, req[q], Idle)
  BY IdleTurn
<1>4. ASSUME e.versions = db.versions, e.drafts = db.drafts
      PROVE  StoresKnown(db, req, e)
  BY <1>4 DEF StoresKnown, InStore
<1>5. CASE CreateTask(q)
  <2>1. PICK t : t = req[q].id
    OBVIOUS
  <2>2. e = create_task(db, t) /\ req[q].at = "create" /\ t \in Tasks
    BY <1>1, <1>5, <2>1 DEF CreateTask
  <2>3. /\ e.versions = db.versions /\ e.drafts = db.drafts
        /\ e.tasks = db.tasks \cup {t} /\ e.task_versions = Put(db.task_versions, t, <<>>)
    BY <1>0, <2>2 DEF create_task, Columns
  <2>4. t \notin db.tasks /\ Creating(req[q])
    BY <1>0, <2>1, <2>2 DEF CInv, Good, Ids, Creating
  <2>5. \A y \in db.tasks : e.task_versions[y] = db.task_versions[y]
    BY <1>0, <2>3, <2>4 DEF Put, Tables
  <2>6. TasksKept(db, req, e)
    BY <2>1, <2>3, <2>4, <2>5 DEF TasksKept
  <2>7. PICK r : r = [req[q] EXCEPT !.op = "task version", !.at = "add"]
    OBVIOUS
  <2>8. r.at = "add" /\ r.op = "task version" /\ r.id = t /\ req' = [req EXCEPT ![q] = r]
    BY <1>0, <1>5, <2>1, <2>7 DEF CreateTask, Parts
  <2>9. HoldsChecked(db, req[q], r) /\ CreatesFresh(fresh, req[q], r)
    BY <2>2, <2>8, IdsAssumption DEF HoldsChecked, CreatesFresh, Carries, Creating
  <2> QED BY <1>0, <1>1, <1>4, <2>3, <2>6, <2>8, <2>9, KeptTurn
<1>6. CASE AddTaskVersion(q)
  <2>1. PICK t : t = req[q].id
    OBVIOUS
  <2>2. e = add_task_version(db, t, req[q].code) /\ req[q].at = "add" /\ t \in Tasks
    BY <1>1, <1>6, <2>1 DEF AddTaskVersion
  <2>3. CASE t \notin db.tasks
    <3>1. UNCHANGED db /\ req' = [req EXCEPT ![q] = Idle]
      BY <1>1, <1>6, <2>1, <2>2, <2>3 DEF AddTaskVersion, add_task_version, End
    <3>2. TasksKept(db, req, db') /\ StoresKnown(db, req, db')
      BY <3>1, SameKept
    <3> QED BY <1>0, <1>3, <3>1, <3>2, KeptTurn
  <2>4. CASE t \in db.tasks
    <3>1. PICK z : z = Append(db.task_versions[t], req[q].code)
      OBVIOUS
    <3>2. t \in DOMAIN db.task_versions /\ db.task_versions[t] \in Seq(Codes)
      BY <1>0, <2>4 DEF Tables
    <3>3. /\ e.versions = db.versions /\ e.drafts = db.drafts
          /\ e.tasks = db.tasks /\ e.task_versions = [db.task_versions EXCEPT ![t] = z]
      BY <1>0, <2>2, <2>4, <3>1 DEF add_task_version, Columns
    <3>4. \A v \in DOMAIN db.task_versions[t] : v \in DOMAIN z /\ z[v] = db.task_versions[t][v]
      BY <3>1, <3>2
    <3>5. e.task_versions[t] = z /\ \A y \in db.tasks : y # t => e.task_versions[y] = db.task_versions[y]
      BY <1>0, <3>2, <3>3 DEF Tables
    <3>6. TasksKept(db, req, e)
      BY <3>3, <3>4, <3>5 DEF TasksKept
    <3>7. PICK level : level = Len(e.task_versions[t])
      OBVIOUS
    <3>8. PICK r : r = [req[q] EXCEPT !.at = "draft", !.level = level]
      OBVIOUS
    <3>9. req' = [req EXCEPT ![q] = r]
      BY <1>0, <1>1, <1>6, <2>1, <2>4, <3>7, <3>8 DEF AddTaskVersion
    <3>10. r.at = "draft" /\ r.id = t /\ r.op = req[q].op
      BY <1>0, <2>1, <3>8 DEF Parts
    <3>11. HoldsChecked(db, req[q], r) /\ CreatesFresh(fresh, req[q], r)
      BY <2>1, <2>2, <3>10, IdsAssumption DEF HoldsChecked, CreatesFresh, Carries, Creating
    <3> QED BY <1>0, <1>1, <1>4, <3>3, <3>6, <3>9, <3>11, KeptTurn
  <2> QED BY <2>3, <2>4
<1>7. CASE SaveTaskDraft(q)
  <2>1. PICK t, level : e = save_task_draft(db, t, req[q].code, level)
    BY <1>1, <1>7 DEF SaveTaskDraft
  <2>2. req' = [req EXCEPT ![q] = Idle]
    BY <1>7 DEF SaveTaskDraft, End
  <2>3. e.versions = db.versions /\ e.drafts = db.drafts /\ e.tasks = db.tasks /\ e.task_versions = db.task_versions
    BY <1>0, <2>1 DEF save_task_draft, Columns
  <2>4. TasksKept(db, req, e) /\ StoresKnown(db, req, e)
    BY <2>3, SameKept
  <2> QED BY <1>0, <1>1, <1>3, <2>2, <2>4, KeptTurn
<1>8. ASSUME NEW t \in Tasks, DeleteTask(q, t)
      PROVE  Kept'
  <2>1. e = delete_task(db, t) /\ req' = [req EXCEPT ![q] = Idle]
    BY <1>1, <1>8 DEF DeleteTask, Begin
  <2>2. \/ e = db
        \/ /\ e.versions = db.versions /\ e.drafts = db.drafts
           /\ e.tasks = db.tasks \ {t} /\ e.task_versions = Drop(db.task_versions, {t})
    BY <1>0, <2>1 DEF delete_task, Columns
  <2>3. CASE e = db
    <3>1. TasksKept(db, req, e) /\ StoresKnown(db, req, e)
      BY <2>3, SameKept
    <3> QED BY <1>0, <1>1, <1>3, <2>1, <3>1, KeptTurn
  <2>4. CASE /\ e.versions = db.versions /\ e.drafts = db.drafts
             /\ e.tasks = db.tasks \ {t} /\ e.task_versions = Drop(db.task_versions, {t})
    <3>1. \A y \in e.tasks : e.task_versions[y] = db.task_versions[y]
      BY <1>0, <2>4 DEF Drop, Restrict, Tables
    <3>2. TasksKept(db, req, e)
      BY <2>4, <3>1 DEF TasksKept
    <3> QED BY <1>0, <1>1, <1>3, <1>4, <2>1, <2>4, <3>2, KeptTurn
  <2> QED BY <2>2, <2>3, <2>4
<1> QED BY <1>5, <1>6, <1>7, <1>8

\* Schedules, runs and workers change no spec; a deletion only takes some away.
LEMMA RunsKeep ==
  ASSUME CInv, Kept,
         \/ \E q \in Requests : UpdateSchedule(q) \/ _cancel_active_runs(q) \/ DeletePipeline(q)
         \/ \E q \in Requests, x \in Runs : CreateRun(q, x)
         \/ \E p \in Pipelines, x \in Runs : _record_dropped_fire(p, x)
         \/ \E x \in Runs : WorkerStarts(x) \/ WorkerRegisters(x) \/ Watch(x) \/ WorkerEnds(x)
  PROVE  Kept'
<1>0. DOMAIN req = Requests /\ Tables(db) /\ DOMAIN db = Columns
  BY DEF CInv, Good, Reqs, Tables
<1>1. PICK e : e = db'
  OBVIOUS
<1>2. fresh' \subseteq fresh
  BY DEF UpdateSchedule, _cancel_active_runs, DeletePipeline, CreateRun, _record_dropped_fire,
         WorkerStarts, WorkerRegisters, Watch, WorkerEnds
<1>3. \A o \in Requests : HoldsChecked(db, req[o], Idle) /\ CreatesFresh(fresh, req[o], Idle)
  BY IdleTurn
<1>4. ASSUME NEW q \in Requests, DeletePipeline(q)
      PROVE  Kept'
  <2>1. PICK p : p = req[q].id
    OBVIOUS
  <2>2. e = delete_pipeline(db, p) /\ req' = [req EXCEPT ![q] = Idle]
    BY <1>1, <1>4, <2>1 DEF DeletePipeline, End
  <2>3. /\ e.versions = Drop(db.versions, {p}) /\ e.drafts = Drop(db.drafts, {p})
        /\ e.tasks = db.tasks /\ e.task_versions = db.task_versions
    BY <1>0, <2>2 DEF delete_pipeline, Columns
  <2>4. /\ DOMAIN e.versions \subseteq DOMAIN db.versions /\ DOMAIN e.drafts \subseteq DOMAIN db.drafts
        /\ \A y \in DOMAIN e.versions : e.versions[y] = db.versions[y]
        /\ \A y \in DOMAIN e.drafts : e.drafts[y] = db.drafts[y]
    BY <2>3 DEF Drop, Restrict
  <2>5. TasksKept(db, req, e)
    BY <2>3 DEF TasksKept
  <2>6. StoresKnown(db, req, e)
    BY <2>4 DEF StoresKnown, InStore
  <2> QED BY <1>1, <1>2, <1>3, <2>2, <2>5, <2>6, KeptTurn
<1>5. ASSUME e.versions = db.versions, e.drafts = db.drafts, e.tasks = db.tasks, e.task_versions = db.task_versions
      PROVE  TasksKept(db, req, db') /\ StoresKnown(db, req, db')
  BY <1>1, <1>5, SameKept
<1>6. ASSUME NEW q \in Requests, UpdateSchedule(q)
      PROVE  Kept'
  <2>1. e.versions = db.versions /\ e.drafts = db.drafts /\ e.tasks = db.tasks /\ e.task_versions = db.task_versions
    BY <1>0, <1>1, <1>6 DEF UpdateSchedule, update_schedule, Columns
  <2>2. req' = [req EXCEPT ![q] = Idle]
    BY <1>6 DEF UpdateSchedule, End
  <2> QED BY <1>2, <1>3, <1>5, <2>1, <2>2, KeptTurn
<1>7. ASSUME NEW q \in Requests, NEW x \in Runs, CreateRun(q, x)
      PROVE  Kept'
  <2>1. e.versions = db.versions /\ e.drafts = db.drafts /\ e.tasks = db.tasks /\ e.task_versions = db.task_versions
    BY <1>0, <1>1, <1>7 DEF CreateRun, create_run, Columns
  <2>2. req' = [req EXCEPT ![q] = Idle]
    BY <1>7 DEF CreateRun, End
  <2> QED BY <1>2, <1>3, <1>5, <2>1, <2>2, KeptTurn
<1>8. ASSUME NEW q \in Requests, _cancel_active_runs(q)
      PROVE  Kept'
  <2>1. e.versions = db.versions /\ e.drafts = db.drafts /\ e.tasks = db.tasks /\ e.task_versions = db.task_versions
    BY <1>0, <1>1, <1>8 DEF _cancel_active_runs, request_cancel, Columns
  <2>2. PICK r : r = [req[q] EXCEPT !.at = "delete"]
    OBVIOUS
  <2>3. DOMAIN req[q] = Parts /\ req[q].at = "cancel" /\ req[q].op # "new task"
    BY <1>8 DEF CInv, Good, Reqs, Asked, _cancel_active_runs
  <2>4. req' = [req EXCEPT ![q] = r] /\ r.at = "delete" /\ r.op = req[q].op
    BY <1>0, <1>8, <2>2, <2>3 DEF _cancel_active_runs, Then, Parts
  <2>5. HoldsChecked(db, req[q], r) /\ CreatesFresh(fresh, req[q], r)
    BY <2>3, <2>4 DEF HoldsChecked, CreatesFresh, Carries, Creating
  <2> QED BY <1>2, <1>5, <2>1, <2>4, <2>5, KeptTurn
<1>9. ASSUME NEW x \in Runs, WorkerStarts(x) \/ WorkerRegisters(x) \/ Watch(x) \/ WorkerEnds(x)
      PROVE  Kept'
  <2>1. Rooted(db)
    BY <1>0 DEF Tables, Rooted
  <2>2. e = db \/ e = mark_running(db, x) \/ e = finish_run(db, x)
    BY <1>1, <1>9 DEF WorkerStarts, WorkerRegisters, Watch, WorkerEnds
  <2>3. Marks(db, e)
    BY <1>0, <2>1, <2>2, StatusMarks
  <2>4. e.versions = db.versions /\ e.drafts = db.drafts /\ e.tasks = db.tasks /\ e.task_versions = db.task_versions
    BY <2>3 DEF Marks
  <2>5. req' = req
    BY <1>9 DEF WorkerStarts, WorkerRegisters, Watch, WorkerEnds
  <2>6. \A q \in Requests : HoldsChecked(db, req[q], req'[q]) /\ CreatesFresh(fresh, req[q], req'[q])
    BY <2>5 DEF HoldsChecked, CreatesFresh
  <2> QED BY <1>2, <1>5, <2>4, <2>6, KeptStays
<1>10. ASSUME NEW p \in Pipelines, NEW x \in Runs, _record_dropped_fire(p, x)
       PROVE  Kept'
  <2>1. e.versions = db.versions /\ e.drafts = db.drafts /\ e.tasks = db.tasks /\ e.task_versions = db.task_versions
    BY <1>0, <1>1, <1>10 DEF _record_dropped_fire, create_run, Columns
  <2>2. req' = req
    BY <1>10 DEF _record_dropped_fire
  <2>3. \A q \in Requests : HoldsChecked(db, req[q], req'[q]) /\ CreatesFresh(fresh, req[q], req'[q])
    BY <2>2 DEF HoldsChecked, CreatesFresh
  <2> QED BY <1>2, <1>5, <2>1, <2>3, KeptStays
<1> QED BY <1>4, <1>6, <1>7, <1>8, <1>9, <1>10

\* The draft and the version of a pipeline saved earlier are the spec that was checked.
LEMMA FirstSpecs ==
  ASSUME NEW d, Tidy(d), d.versions = Empty, d.drafts = Empty, NEW p, NEW spec \in Specs,
         NEW e, e = WithPipeline(d, p, spec)
  PROVE  /\ \A s : InStore(e, s) => s = spec
         /\ DOMAIN e.versions = {p} /\ e.versions[p][1] = spec
<1>1. DOMAIN Empty = {} /\ DOMAIN d = Columns
  BY DEF Empty, Tidy, Tables
<1>2. PICK a : a = create_pipeline(d, p)
  OBVIOUS
<1>3. DOMAIN a = Columns /\ a.versions = Put(Empty, p, <<>>) /\ a.drafts = Empty /\ p \in DOMAIN a.pipelines
  <2>1. DOMAIN a = Columns /\ a.versions = Put(d.versions, p, <<>>) /\ a.drafts = d.drafts
        /\ a.pipelines = Put(d.pipelines, p, [owner |-> None, pinned |-> None])
    BY <1>1, <1>2 DEF create_pipeline, Columns
  <2> QED BY <2>1 DEF Put
<1>4. DOMAIN a.versions = {p} /\ a.versions[p] = <<>>
  BY <1>1, <1>3 DEF Put
<1>5. PICK z : z = Append(<<>>, spec)
  OBVIOUS
<1>6. DOMAIN z = {1} /\ z[1] = spec
  BY <1>5, FirstVersion
<1>7. PICK b : b = add_version(a, p, spec)
  OBVIOUS
<1>8. DOMAIN b = Columns /\ b.versions = [a.versions EXCEPT ![p] = z] /\ b.drafts = Empty /\ p \in DOMAIN b.pipelines
  BY <1>3, <1>4, <1>5, <1>7 DEF add_version, Columns, Has
<1>9. DOMAIN b.versions = {p} /\ b.versions[p] = z
  BY <1>4, <1>8
<1>10. PICK row : row = [spec |-> spec, level |-> 1]
  OBVIOUS
<1>11. e = save_pipeline_draft(b, p, spec, 1)
  BY <1>2, <1>7 DEF WithPipeline
<1>12. e.versions = b.versions /\ e.drafts = Put(Empty, p, row) /\ row.spec = spec
  BY <1>8, <1>10, <1>11 DEF save_pipeline_draft, Columns, Has
<1>13. DOMAIN e.drafts = {p} /\ e.drafts[p] = row
  BY <1>1, <1>12 DEF Put
<1> QED BY <1>6, <1>9, <1>12, <1>13 DEF InStore

\* Every spec fits at first.
LEMMA InitKept ==
  ASSUME Init, CInv
  PROVE  Kept
<1>1. Ids(db, req, fresh)
  BY DEF CInv, Good
<1>2. ~Carries(Idle) /\ \A q \in Requests : req[q] = Idle
  BY DEF Init, Carries, Idle
<1>3. ASSUME NEW s, InStore(db, s)
      PROVE  Prepared(db, s)
  <2>1. DOMAIN Empty = {}
    BY DEF Empty
  <2>2. CASE db = Store
    BY <1>3, <2>1, <2>2 DEF InStore, Store
  <2>3. ASSUME NEW t \in Tasks, db = WithTask(Store, t)
        PROVE  Prepared(db, s)
    <3>1. db.versions = Empty /\ db.drafts = Empty
      BY <2>3, TidyTask
    <3> QED BY <1>3, <2>1, <3>1 DEF InStore
  <2>4. ASSUME NEW t \in Tasks, NEW p \in Pipelines, NEW spec \in Specs, db = WithPipeline(WithTask(Store, t), p, spec),
               \A y \in DOMAIN db.versions : Prepared(db, db.versions[y][1])
        PROVE  Prepared(db, s)
    <3>1. PICK d : d = WithTask(Store, t)
      OBVIOUS
    <3>2. Tidy(d) /\ d.versions = Empty /\ d.drafts = Empty
      BY <3>1, TidyTask
    <3>3. db = WithPipeline(d, p, spec)
      BY <2>4, <3>1
    <3>4. s = spec /\ p \in DOMAIN db.versions /\ db.versions[p][1] = spec
      BY <1>3, <3>2, <3>3, FirstSpecs
    <3> QED BY <2>4, <3>4
  <2> QED BY <2>2, <2>3, <2>4 DEF Init
<1> QED BY <1>1, <1>2, <1>3, PreparedFits DEF Kept, InHands

\* Every step keeps it.
LEMMA StepKept ==
  ASSUME CInv, Kept, [Next]_vars
  PROVE  Kept'
<1>1. CASE UNCHANGED vars \/ Replace
  <2>1. UNCHANGED <<db, req, fresh>>
    BY <1>1 DEF vars, Replace
  <2> QED BY <2>1 DEF Kept, InStore, InHands, Fit
<1>2. ASSUME NEW q \in Requests,
             \/ \E p \in Pipelines :
                  \/ \E spec \in Specs : \E op \in {"version", "draft"} : Prepare(q, op, p, spec)
                  \/ \E spec \in Specs \cup {None} : PrepareNew(q, p, spec)
                  \/ \E pin \in {None} \cup 1..MaxVersions : ReadSchedule(q, p, pin)
                  \/ \E admin \in BOOLEAN : \E to \in {Me, Service} : SetOwner(q, p, admin, to)
                  \/ \E home \in Replicas : StartRun(q, p, home) \/ DeleteBegin(q, p, home)
      PROVE  Kept'
  BY <1>2, ReadsKeep
<1>3. ASSUME NEW q \in Requests,
             \/ Abandon(q) \/ Resolve(q)
             \/ \E t \in Tasks : \E key \in CodeKeys :
                  \/ PrepareNewTask(q, t, key)
                  \/ \E op \in {"task version", "task draft"} : PrepareTask(q, op, t, key)
      PROVE  Kept'
  BY <1>3, ReadsKeep
<1>4. ASSUME NEW q \in Requests,
             \/ CreatePipeline(q) \/ AddVersion(q) \/ SaveDraft(q)
             \/ CreateTask(q) \/ AddTaskVersion(q) \/ SaveTaskDraft(q)
             \/ \E t \in Tasks : DeleteTask(q, t)
      PROVE  Kept'
  BY <1>4, SavesKeep, TaskSavesKeep
<1>5. ASSUME NEW q \in Requests,
             \/ UpdateSchedule(q) \/ _cancel_active_runs(q) \/ DeletePipeline(q)
             \/ \E x \in Runs : CreateRun(q, x)
      PROVE  Kept'
  BY <1>5, RunsKeep
<1>6. ASSUME NEW x \in Runs, WorkerStarts(x) \/ WorkerRegisters(x) \/ Watch(x) \/ WorkerEnds(x)
      PROVE  Kept'
  BY <1>6, RunsKeep
<1>7. ASSUME NEW x \in Runs, NEW p \in Pipelines, _record_dropped_fire(p, x)
      PROVE  Kept'
  BY <1>7, RunsKeep
<1> QED BY <1>1, <1>2, <1>3, <1>4, <1>5, <1>6, <1>7 DEF Next

\* Every spec that is stored, or checked and not yet stored, fits in every reachable state.
LEMMA KeptInvariant == Spec => []Kept
<1>1. Init => Kept
  BY InitGood, InitKept
<1>2. CInv /\ Kept /\ [Next]_vars => Kept'
  BY StepKept
<1> QED BY <1>1, <1>2, CatalogueInvariant, PTL DEF Spec

\* What was checked when it was saved holds as long as it is stored: every
\* version and draft compiles, and its pinned nodes fit their tasks' params,
\* whatever is saved and deleted meanwhile (service.py, _prepare).
StoredFits ==
  \A spec : InStore(db, spec) =>
    /\ spec \in Compiling
    /\ \A node \in Range(spec) :
         node.version # None => ResolvedNode(db, node) # None \/ node.task \notin db.tasks

\* Stored specs keep what was checked of them.
THEOREM SavedSpecsFit == Spec => []StoredFits
<1>1. Kept => StoredFits
  BY DEF Kept, Fit, StoredFits
<1> QED BY <1>1, KeptInvariant, PTL

\* Every stored spec, version or draft, has an order in which it can run, the
\* order of its job, and its pinned nodes keep fitting their tasks' params
\* (service.py, _prepare).
THEOREM SavedSpecsRun == Spec => []SavedRuns
<1>1. ASSUME CInv, Kept
      PROVE  SavedRuns
  <2> DEFINE saved == UNION {Range(db.versions[p]) : p \in DOMAIN db.versions}
             drafted == {db.drafts[p].spec : p \in DOMAIN db.drafts}
  <2>1. ASSUME NEW spec \in saved \cup drafted
        PROVE  InStore(db, spec)
    <3>1. CASE spec \in saved
      <4>1. PICK p \in DOMAIN db.versions : spec \in Range(db.versions[p])
        BY <3>1
      <4>2. PICK v \in DOMAIN db.versions[p] : spec = db.versions[p][v]
        BY <4>1 DEF Range
      <4> QED BY <4>1, <4>2 DEF InStore
    <3>2. CASE spec \in drafted
      <4>1. PICK p \in DOMAIN db.drafts : spec = db.drafts[p].spec
        BY <3>2
      <4> QED BY <4>1 DEF InStore
    <3> HIDE DEF saved, drafted
    <3> QED BY <2>1, <3>1, <3>2
  <2> QED BY <1>1, <2>1, EveryGraph, CompilingSound DEF Kept, Fit, SavedRuns
<1> QED BY <1>1, CatalogueInvariant, KeptInvariant, PTL
=============================================================================
