------------------------------ MODULE PodRules ------------------------------
(***************************************************************************)
(* What the Job runner makes of the chart's task template for one task     *)
(* (runners/kubejob.py), what the runner's entry point makes of the pod it *)
(* finds itself in (runner_service.main), and which environment the task's *)
(* process gets (runners/subprocess_runner.py).                            *)
(*                                                                         *)
(* A template is [init, auth, automount]: its init containers in order,    *)
(* whether it declares the runner-auth volume, whether it mounts a service *)
(* account token.  An init container is [name, always, port, sound]:       *)
(* whether its restartPolicy is Always, whether it listens on the task's   *)
(* port ("task") or one of its own ("own"), and whether its remaining      *)
(* texts (image digest, loopback address, core URL, mounts, environment)   *)
(* are the ones the chart is meant to render.                              *)
(*                                                                         *)
(* An invocation is [requirements, access, spark, image, env, modules, of]:*)
(* whether it has Python requirements, a platform token, Spark options; the*)
(* operator image it names ("" for none); which secret each variable holds;*)
(* which catalog entry each module is; and (history) the configuration it  *)
(* was made from.                                                          *)
(***************************************************************************)
EXTENDS ConfigRules, FiniteSetsExt

PIP      == "pip"
POSTGRES == "credential-sidecar-postgres"
S3       == "credential-sidecar-s3"
Sidecars == {POSTGRES, S3}

InitContainers == [name : STRING, always : BOOLEAN, port : {"task", "own"}, sound : BOOLEAN]

\* Variables of the task container, one name per group the code treats alike.
SITE     == "BOOTH_RUNNER_SITE_DIR"
DATABASE == "DATABASE_URL"
AWS      == "AWS_SHARED_CREDENTIALS_FILE"
COMMON   == "BOOTH_RUNNER_SIDECAR_TOKEN_FILE"
HEALTHZ  == "BOOTH_RUNNER_SIDECAR_HEALTHZ"

\* A dict filled from a sequence of key and value: the last one with a key wins.
Dict(s) == [k \in {s[i][1] : i \in DOMAIN s} |-> s[Max({i \in DOMAIN s : s[i][1] = k})][2]]

\* engine.compute: what a node's configuration hands to its runner.
Invocation(c) ==
  [requirements |-> c.requirements # <<>>,
   access  |-> c.access,
   spark   |-> c.spark,
   image   |-> c.image,
   env     |-> Dict([i \in DOMAIN c.secrets |-> <<c.secrets[i].env, c.secrets[i].name>>]),
   modules |-> Dict([i \in DOMAIN c.modules |-> <<c.modules[i].name, c.modules[i].entry>>]),
   of      |-> c]

Names(init) == {init[i].name : i \in DOMAIN init}

\* The containers with one of these names, in their order.
Only(init, names) ==
  LET kept[i \in 0..Len(init)] ==
        IF i = 0 THEN <<>>
        ELSE IF init[i].name \in names THEN kept[i - 1] \o <<init[i]>> ELSE kept[i - 1]
  IN  kept[Len(init)]

\* The installer must come first, run to completion, and see nothing else.
_check_pip(c, index) == /\ index = 1
                        /\ ~c.always
                        /\ c.sound

\* KubernetesJobRunner.__init__ refuses a template that fails this.
_check_template(t) ==
  /\ t.auth
  /\ ~t.automount
  /\ \A i \in DOMAIN t.init :
       LET c == t.init[i] IN
         /\ c.name = PIP => _check_pip(c, i)
         /\ c.name \in Sidecars => c.sound /\ c.always /\ c.port # "task"

\* The task container's variables as the chart renders them for its sidecars
\* and its installer.
TemplateEnv(t) ==
  (IF PIP \in Names(t.init) THEN {SITE} ELSE {})
    \cup (IF S3 \in Names(t.init) THEN {AWS} ELSE {})
    \cup (IF Names(t.init) \cap Sidecars # {} THEN {COMMON, HEALTHZ} ELSE {})

Pod(t) == [init |-> t.init, env |-> TemplateEnv(t), healthz |-> {},
           site |-> PIP \in Names(t.init), packages |-> FALSE]

_personalize_pip(pod, inv) ==
  IF inv.requirements /\ PIP \in Names(pod.init)
  THEN pod
  ELSE [pod EXCEPT !.init = Only(pod.init, Names(pod.init) \ {PIP}),
                   !.site = FALSE,
                   !.env  = @ \ {SITE}]

\* Which sidecars serve this task: none without a token or for a Spark task,
\* and s3 only once the workspace has a warehouse.
Serves(name, inv, warehouse) ==
  name \in Sidecars => inv.access /\ ~inv.spark /\ (name = S3 => warehouse)

_personalize_sidecars(pod, inv, warehouse) ==
  LET keep    == Only(pod.init, {n \in Names(pod.init) : Serves(n, inv, warehouse)})
      healthz == Names(keep) \cap Sidecars
      dropped == (Names(pod.init) \cap Sidecars) \ healthz
      drop    == (IF POSTGRES \in dropped THEN {DATABASE} ELSE {})
                   \cup (IF S3 \in dropped THEN {AWS} ELSE {})
                   \cup (IF healthz = {} THEN {COMMON} ELSE {})
      added   == (IF POSTGRES \in healthz THEN {DATABASE} ELSE {})
                   \cup (IF healthz # {} THEN {HEALTHZ} ELSE {})
  IN  [pod EXCEPT !.init    = keep,
                  !.healthz = healthz,
                  !.env     = ((@ \ {HEALTHZ}) \ drop) \cup added]

\* KubernetesJobRunner._job: the installer first, then the sidecars.
_job(t, inv, warehouse) ==
  _personalize_sidecars(_personalize_pip(Pod(t), inv), inv, warehouse)

\* KubernetesJobRunner._warehouse asks only for a task an s3 sidecar would
\* serve; any failure of the lookup is "no warehouse".
_warehouse(t, inv) ==
  IF S3 \notin Names(t.init) \/ ~inv.access \/ inv.spark
  THEN {FALSE}
  ELSE BOOLEAN

\* KubernetesJobRunner._run_in_job, before any Job exists.
Refused(t, inv, pip_route, images) ==
  \/ inv.requirements /\ (~pip_route \/ PIP \notin Names(t.init))
  \/ inv.image # "" /\ inv.image \notin images

\* What may become of pip in the installer: it ends within its time, with
\* exit 0, and the volume holds less than its limit; only then is a record of
\* the installation left and the container's exit code 0 (pip_install.main).
PipRuns == [started : BOOLEAN, in_time : BOOLEAN, exit_0 : BOOLEAN, fits : BOOLEAN]
install(p) == p.started /\ p.in_time /\ p.exit_0 /\ p.fits

\* RemoteRunner.check_protocol, by what the pod answers.
Answers == {"none", "404", "other status", "unreadable", "older", "newer", "same"}
check_protocol(answer) == answer = "same"

\* runner_service.main: what the process is given by the pod's environment.
Main(pod) ==
  [shared_token_file |-> COMMON \in pod.env,
   before_start      |-> HEALTHZ \in pod.env,
   site_dir          |-> SITE \in pod.env,
   task_env          |-> pod.env \cap {DATABASE, AWS}]

\* SubprocessRunner._report_install.
_report_install(inv, m, pod) == inv.requirements => m.site_dir /\ pod.packages

\* runner_service.sidecar_wait returns: nothing to wait for, every sidecar has
\* its lease, or the time is up and the task starts all the same.
sidecar_wait(inv, healthz, leased, late) ==
  inv.access /\ healthz # {} => healthz \subseteq leased \/ late

\* SubprocessRunner._env: who sets each variable; later writers win, so the
\* task's secrets can displace nothing the runner sets.
_env(inv, m) ==
  LET runner == m.task_env
                  \cup (IF inv.requirements /\ m.site_dir THEN {"PYTHONPATH"} ELSE {})
                  \cup (IF inv.access THEN {"BOOTH_TOKEN_FILE"} ELSE {})
                  \cup {"HOME"}
  IN  [n \in runner \cup DOMAIN inv.env |-> IF n \in runner THEN "runner" ELSE inv.env[n]]

\* _harness.main puts the work directory, which holds task.py, and then the
\* modules before everything else that can be imported.
Imports(inv, n) == CASE n = "task"               -> "task.py"
                     [] n # "task" /\ n \in DOMAIN inv.modules -> inv.modules[n]
                     [] OTHER                    -> "image"

\* What the task's code may do, and what _harness.main makes of it: a result
\* and exit 0, a skip, exit 0 without a result, another exit code.
Endings == {"returns", "skips", "raises", "exits 0", "exits 1", "not JSON", "too large"}
harness_main(end) == CASE end = "returns" -> "ok"
                       [] end = "skips"   -> "skip"
                       [] end = "exits 0" -> "empty"
                       [] OTHER           -> "error"
=============================================================================
