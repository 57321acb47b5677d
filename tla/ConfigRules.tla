----------------------------- MODULE ConfigRules -----------------------------
(***************************************************************************)
(* Which task configurations may be saved (model.validate_task_config and  *)
(* the checks it calls).                                                   *)
(*                                                                         *)
(* A configuration is [runner, language, size, spark, access, requirements,*)
(* secrets, modules, image]: the length of its source, whether it has      *)
(* Spark options and platform access, sequences of                         *)
(*   requirements  [form, name, size]: what the line is ("package" or one  *)
(*                 of the forms that are refused) and its canonical name   *)
(*   secrets       [name, env]: a workspace secret, the variable it goes to*)
(*   modules       [name, entry, language, size]: what the task imports    *)
(*                 and the catalog entry behind it                         *)
(* and the operator's image it names, "" for none.  Names are members of   *)
(* small sets, one for each way in which the checks tell names apart.      *)
(***************************************************************************)
EXTENDS Naturals, Sequences, SequencesExt

CONSTANT Limits \* the MAX_ bounds of model.py that the checks use

BASE_RUNNER  == "base"
SPARK_RUNNER == "spark"

\* Names that match no pattern; variables kept for the runner, by name or by
\* prefix; modules that would hide one the task or Python needs.
Malformed    == {"1st", "two words"}
RESERVED_ENV == {"HOME", "DATABASE_URL", "AWS_SHARED_CREDENTIALS_FILE",
                 "PYTHONPATH", "BOOTH_TOKEN_FILE"}
Shadowing    == {"task", "json", "pyspark", "booth_pipeline"}

Bytes(s) == FoldLeft(LAMBDA n, x : n + x.size, 0, s)

Distinct(s) == \A i, j \in DOMAIN s : i # j => s[i] # s[j]

\* The parts of a TaskConfig, as the API's parsing of a request leaves them.
TaskConfig(c) ==
  /\ DOMAIN c = {"runner", "language", "size", "spark", "access",
                 "requirements", "secrets", "modules", "image"}
  /\ {c.spark, c.access} \subseteq BOOLEAN
  /\ DOMAIN c.secrets \cup DOMAIN c.modules \subseteq Nat

\* A Spark application is submitted as the run, so it always has a token.
_spark_always_has_platform_access(c) == [c EXCEPT !.access = @ \/ c.runner = SPARK_RUNNER]

check_modules(c) ==
  LET mods == c.modules IN
  /\ c.language = "python"
  /\ Len(mods) <= Limits.modules
  /\ \A i \in DOMAIN mods : /\ mods[i].name \notin Malformed \cup Shadowing
                            /\ mods[i].language \in {"", "python"}
  /\ Distinct([i \in DOMAIN mods |-> mods[i].name])
  /\ Bytes(mods) <= Limits.inline
  /\ c.runner = SPARK_RUNNER => c.size + Bytes(mods) <= Limits.spark

\* Fault: the names the runner sets are not refused.
Fault_check_task_secrets(c) ==
  /\ c.runner # SPARK_RUNNER /\ c.language = "python"
  /\ Len(c.secrets) <= Limits.secrets
  /\ \A i \in DOMAIN c.secrets : /\ c.secrets[i].name \notin Malformed
                                 /\ c.secrets[i].env \notin Malformed
  /\ Distinct([i \in DOMAIN c.secrets |-> c.secrets[i].env])

check_task_secrets(c) ==
  /\ c.runner # SPARK_RUNNER /\ c.language = "python"
  /\ Len(c.secrets) <= Limits.secrets
  /\ \A i \in DOMAIN c.secrets : /\ c.secrets[i].name \notin Malformed
                                 /\ c.secrets[i].env \notin Malformed \cup RESERVED_ENV
  /\ Distinct([i \in DOMAIN c.secrets |-> c.secrets[i].env])

validate_spark_task(c) ==
  /\ c.spark
  /\ c.language = "python"
  /\ c.requirements = <<>>
  /\ c.size <= Limits.spark

\* A requirement that is empty, too long, more than one line, an option of
\* pip, a URL or path, unreadable, or a direct reference is none.
check_requirements(reqs) ==
  /\ Len(reqs) <= Limits.requirements
  /\ Bytes(reqs) <= Limits.requirement_bytes
  /\ \A i \in DOMAIN reqs : reqs[i].form = "package"
  /\ Distinct([i \in DOMAIN reqs |-> reqs[i].name])

validate_task_config(c, runners, images) ==
  /\ c.runner \in runners
  /\ c.size <= Limits.source
  /\ IF c.runner = SPARK_RUNNER THEN validate_spark_task(c) ELSE ~c.spark
  /\ c.requirements # <<>> => c.language = "python" /\ check_requirements(c.requirements)
  /\ c.secrets # <<>> => check_task_secrets(c)
  /\ c.modules # <<>> => check_modules(c)
  /\ c.image # "" => c.runner # SPARK_RUNNER /\ c.image \in images
=============================================================================
