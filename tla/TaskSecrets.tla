---------------------------- MODULE TaskSecrets ----------------------------
(***************************************************************************)
(* Task secrets (task_secrets.py): a workspace owner's values, sealed with *)
(* the current key of the replica that takes the request, re-sealed at a   *)
(* replica's start after a key rotation, opened at the start of each       *)
(* attempt (engine.py) and taken out of what the run stores (Redactor).    *)
(*                                                                         *)
(*   mount, keyId  the mounted key Secret and the configured current key   *)
(*   box       the SecretBox each replica loaded when it started           *)
(*   phase     each replica: down, loaded, reseal, up                      *)
(*   todo      the rows its reseal has read and not yet worked through     *)
(*   row       the table task_secrets of one workspace                     *)
(*   run       where the modelled run works: its replica, or NONE          *)
(*   task      each task of it: [stage, attempt, need, got]                *)
(*   byValue   the run's Redactor                                          *)
(*   kept      the text the run stored last                                *)
(*   live      (history) what the owner last did to each name              *)
(*   unsealed  (history) names a failed reseal left under an old key       *)
(*   handed    (history) values given to this run's tasks                  *)
(*                                                                         *)
(* A sealed row is a record of its value and key id. The associated data   *)
(* (workspace, name) is the row's key in the table, so opening fails only  *)
(* on a key that is not mounted.                                           *)
(***************************************************************************)
EXTENDS Integers, Sequences, FiniteSets

CONSTANTS Replicas, Names, Tasks, KeyIds,
          Chars,              \* the characters of values
          Secrets,            \* the values owners set
          Declares,           \* the names each task's config declares
          MaxOps, MaxAttempts, \* bounds: requests and operator steps; attempts
          NONE

ASSUME ValuesAssumption == Secrets \subseteq Seq(Chars) \ {<<>>}
ASSUME CapsAssumption == MaxOps \in Nat /\ MaxAttempts \in Nat
ASSUME TextAssumption == "x" \notin Chars \* any other text
ASSUME DeclaresAssumption == Declares \in [Tasks -> SUBSET Names]

VARIABLES mount, keyId, box, phase, todo, row, run, task, byValue, kept,
          live, unsealed, handed, ops

keys == <<mount, keyId>>
boxes == <<box, phase, todo>>
runState == <<run, task, byValue, kept, handed>>
secretVars == <<mount, keyId, box, phase, todo, row, run, task, byValue, kept, live, unsealed, handed, ops>>

Box   == [keys : SUBSET KeyIds, current : KeyIds]
Rows  == [name : Names, value : Secrets, key : KeyIds]
Unstarted == [stage |-> "idle", attempt |-> 0, need |-> {}, got |-> <<>>]

SecretsTypeOK ==
  /\ mount \subseteq KeyIds /\ keyId \in KeyIds \cup {NONE}
  /\ box \in [Replicas -> Box \cup {NONE}]
  /\ phase \in [Replicas -> {"down", "loaded", "reseal", "up"}]
  /\ todo \in [Replicas -> SUBSET Rows]
  /\ \A n \in Names : row[n] = NONE \/ row[n] \in Rows
  /\ run \in Replicas \cup {NONE}
  /\ \A t \in Tasks : task[t].stage \in {"idle", "opening", "running", "done"}
  /\ unsealed \subseteq Names /\ ops \in 0..MaxOps

-----------------------------------------------------------------------------
\* SecretBox.from_dir and __init__: several keys and no key id, or a key id that
\* is not mounted, stop the process; no key at all means task secrets are off.
SecretsError == mount # {} /\ (IF keyId = NONE THEN Cardinality(mount) > 1 ELSE keyId \notin mount)

from_dir ==
  IF mount = {} THEN NONE
  ELSE [keys |-> mount, current |-> IF keyId = NONE THEN CHOOSE k \in mount : TRUE ELSE keyId]

seal(b, n, v)    == [name |-> n, value |-> v, key |-> b.current]
can_open(b, kid) == kid \in b.keys

\* The code's NAME_RE and check_value refuse a request before it gets here.
put_task_secret(s) == row' = [row EXCEPT ![s.name] = s]

sealed_with_other_keys(k) == {row[n] : n \in {m \in Names : row[m] # NONE /\ row[m].key # k}}

\* A plausible bug: a name's new value takes the place of its old one.
Fault_add(seen, values) ==
  [v \in {w \in DOMAIN seen : seen[w] \notin DOMAIN values} \cup {values[n] : n \in DOMAIN values} |->
     IF \E n \in DOMAIN values : values[n] = v THEN CHOOSE n \in DOMAIN values : values[n] = v ELSE seen[v]]

\* Redactor.add: the first name that gave a value keeps it.
add(seen, values) ==
  [v \in DOMAIN seen \cup {values[n] : n \in DOMAIN values} |->
     IF v \in DOMAIN seen THEN seen[v] ELSE CHOOSE n \in DOMAIN values : values[n] = v]

\* The values seen, the longest first.
Order(seen) ==
  CHOOSE o \in [1..Cardinality(DOMAIN seen) -> DOMAIN seen] :
    /\ \A v \in DOMAIN seen : \E i \in DOMAIN o : o[i] = v
    /\ \A i, j \in DOMAIN o : i < j => Len(o[i]) >= Len(o[j])

\* Whether v begins where the last n characters of s do.
Begins(s, v, n) == Len(v) <= n /\ \A i \in DOMAIN v : s[Len(s) - n + i] = v[i]

\* str.replace, from left to right: rest[n] is what the last n characters become.
Replace(s, v, mark) ==
  LET rest[n \in 0..Len(s)] ==
        IF n = 0 THEN <<>>
        ELSE IF Begins(s, v, n) THEN <<mark>> \o rest[n - Len(v)]
        ELSE <<s[Len(s) - n + 1]>> \o rest[n - 1]
  IN  rest[Len(s)]

\* Redactor.text: each value in turn replaced by [secret NAME].
text(seen, s) ==
  LET order == Order(seen)
      after[i \in 0..Len(order)] ==
        IF i = 0 THEN s ELSE Replace(after[i - 1], order[i], seen[order[i]])
  IN  after[Len(order)]

-----------------------------------------------------------------------------
SecretsInit ==
  /\ mount \in {{}} \cup {{k} : k \in KeyIds} /\ keyId = NONE
  /\ box = [r \in Replicas |-> NONE]
  /\ phase = [r \in Replicas |-> "down"]
  /\ todo = [r \in Replicas |-> {}]
  /\ row = [n \in Names |-> NONE]
  /\ run = NONE /\ task = [t \in Tasks |-> Unstarted]
  /\ byValue = <<>> /\ kept = <<>>
  /\ live = [n \in Names |-> NONE] /\ unsealed = {} /\ handed = {} /\ ops = 0

Count == ops < MaxOps /\ ops' = ops + 1

\* The operator edits the key Secret and the configured key id.
EditKeys ==
  /\ Count
  /\ mount' \in SUBSET KeyIds /\ keyId' \in KeyIds \cup {NONE}
  /\ UNCHANGED <<boxes, row, runState, live, unsealed>>

\* create_app: the keys are read once, when the process starts.
Start(r) ==
  /\ phase[r] = "down" /\ ~SecretsError
  /\ box' = [box EXCEPT ![r] = from_dir]
  /\ phase' = [phase EXCEPT ![r] = IF from_dir = NONE THEN "up" ELSE "loaded"]
  /\ UNCHANGED <<keys, todo, row, runState, live, unsealed, ops>>

\* reseal: one query reads every row to work through.
ResealReads(r) ==
  /\ phase[r] = "loaded"
  /\ todo' = [todo EXCEPT ![r] = sealed_with_other_keys(box[r].current)]
  /\ phase' = [phase EXCEPT ![r] = "reseal"]
  /\ UNCHANGED <<keys, box, row, runState, live, unsealed, ops>>

\* A plausible bug: the row is sealed again under the key it had.
Fault_Reseal(r) ==
  /\ phase[r] = "reseal"
  /\ \E s \in todo[r] :
       /\ todo' = [todo EXCEPT ![r] = @ \ {s}]
       /\ IF can_open(box[r], s.key)
          THEN put_task_secret(s) /\ unsealed' = unsealed \ {s.name}
          ELSE UNCHANGED row /\ unsealed' = unsealed \cup {s.name}
  /\ UNCHANGED <<keys, box, phase, runState, live, ops>>

\* One row: left when its key is gone, else opened, sealed and put back as it
\* was read.
Reseal(r) ==
  /\ phase[r] = "reseal"
  /\ \E s \in todo[r] :
       /\ todo' = [todo EXCEPT ![r] = @ \ {s}]
       /\ IF can_open(box[r], s.key)
          THEN put_task_secret(seal(box[r], s.name, s.value)) /\ unsealed' = unsealed \ {s.name}
          ELSE UNCHANGED row /\ unsealed' = unsealed \cup {s.name}
  /\ UNCHANGED <<keys, box, phase, runState, live, ops>>

ResealEnds(r) ==
  /\ phase[r] = "reseal" /\ todo[r] = {}
  /\ phase' = [phase EXCEPT ![r] = "up"]
  /\ UNCHANGED <<keys, box, todo, row, runState, live, unsealed, ops>>

\* The store fails: logged, and the process starts all the same.
ResealFails(r) ==
  /\ phase[r] \in {"loaded", "reseal"} /\ Count
  /\ phase' = [phase EXCEPT ![r] = "up"]
  /\ todo' = [todo EXCEPT ![r] = {}]
  /\ unsealed' = Names
  /\ UNCHANGED <<keys, box, row, runState, live>>

\* A run's recorder, and the Redactor in it, end with the run.
RunOver ==
  /\ run' = NONE /\ task' = [t \in Tasks |-> Unstarted]
  /\ byValue' = <<>> /\ kept' = <<>> /\ handed' = {}

\* The process ends, and with it the run it was executing.
Stop(r) ==
  /\ phase[r] # "down" /\ Count
  /\ phase' = [phase EXCEPT ![r] = "down"]
  /\ box' = [box EXCEPT ![r] = NONE] /\ todo' = [todo EXCEPT ![r] = {}]
  /\ IF run = r THEN RunOver ELSE UNCHANGED runState
  /\ UNCHANGED <<keys, row, live, unsealed>>

\* set_task_secret and delete_task_secret, an owner's requests.
SetSecret(r) ==
  /\ phase[r] = "up" /\ box[r] # NONE /\ Count
  /\ \E n \in Names, v \in Secrets :
       /\ put_task_secret(seal(box[r], n, v))
       /\ live' = [live EXCEPT ![n] = v] /\ unsealed' = unsealed \ {n}
  /\ UNCHANGED <<keys, boxes, runState>>

DeleteSecret(r) ==
  /\ phase[r] = "up" /\ box[r] # NONE /\ Count
  /\ \E n \in Names :
       /\ row[n] # NONE
       /\ row' = [row EXCEPT ![n] = NONE] /\ live' = [live EXCEPT ![n] = NONE]
       /\ unsealed' = unsealed \ {n}
  /\ UNCHANGED <<keys, boxes, runState>>

-----------------------------------------------------------------------------
\* A run starts on a replica with a recorder, and a Redactor, of its own.
StartRun(r) ==
  /\ run = NONE /\ phase[r] = "up" /\ Count
  /\ run' = r
  /\ UNCHANGED <<keys, boxes, row, task, byValue, kept, handed, live, unsealed>>

\* compute: the attempt starts and asks for the names its config declares.
StartAttempt(t) ==
  /\ run # NONE /\ task[t].stage = "idle" /\ task[t].attempt < MaxAttempts
  /\ task' = [task EXCEPT ![t] = [stage |-> "opening", attempt |-> @.attempt + 1,
                                  need |-> Declares[t], got |-> <<>>]]
  /\ UNCHANGED <<keys, boxes, row, run, byValue, kept, handed, live, unsealed, ops>>

Given(got, n, v) == [m \in DOMAIN got \cup {n} |-> IF m = n THEN v ELSE got[m]]

\* SecretSource.values, one name: a missing or unreadable one, or no key on
\* this install, fails the task and is not retried.
Opens(n) == box[run] # NONE /\ row[n] # NONE /\ can_open(box[run], row[n].key)

OpenSecret(t) ==
  /\ run # NONE /\ task[t].stage = "opening"
  /\ \E n \in task[t].need :
       \/ /\ Opens(n)
          /\ task' = [task EXCEPT ![t].need = @ \ {n}, ![t].got = Given(task[t].got, n, row[n].value)]
       \/ /\ ~Opens(n)
          /\ task' = [task EXCEPT ![t].stage = "done", ![t].need = {}, ![t].got = <<>>]
  /\ UNCHANGED <<keys, boxes, row, run, byValue, kept, handed, live, unsealed, ops>>

\* task_secrets tells the recorder first, then the runner gets the values.
Launch(t) ==
  /\ run # NONE /\ task[t].stage = "opening" /\ task[t].need = {}
  /\ byValue' = add(byValue, task[t].got)
  /\ handed' = handed \cup {task[t].got[n] : n \in DOMAIN task[t].got}
  /\ task' = [task EXCEPT ![t].stage = "running"]
  /\ UNCHANGED <<keys, boxes, row, run, kept, live, unsealed, ops>>

\* A log line, error or output of a running task. A value may reach it as its
\* own environment or through another task or attempt of the run.
Store(t) ==
  /\ run # NONE /\ task[t].stage = "running"
  /\ \E v \in handed : kept' = text(byValue, <<"x">> \o v \o <<"x">>)
  /\ UNCHANGED <<keys, boxes, row, run, task, byValue, handed, live, unsealed, ops>>

\* The attempt ends: for good, or to be retried.
EndAttempt(t) ==
  /\ run # NONE /\ task[t].stage = "running"
  /\ \E s \in {"done", "idle"} : task' = [task EXCEPT ![t].stage = s, ![t].got = <<>>]
  /\ UNCHANGED <<keys, boxes, row, run, byValue, kept, handed, live, unsealed, ops>>

EndRun ==
  /\ run # NONE /\ \A t \in Tasks : task[t].stage \in {"idle", "done"}
  /\ RunOver
  /\ UNCHANGED <<keys, boxes, row, live, unsealed, ops>>

SecretsNext ==
  \/ EditKeys \/ EndRun
  \/ \E r \in Replicas : Start(r) \/ ResealReads(r) \/ Reseal(r) \/ ResealEnds(r) \/ ResealFails(r)
                           \/ Stop(r) \/ SetSecret(r) \/ DeleteSecret(r) \/ StartRun(r)
  \/ \E t \in Tasks : StartAttempt(t) \/ OpenSecret(t) \/ Launch(t) \/ Store(t) \/ EndAttempt(t)

SecretsSpec == SecretsInit /\ [][SecretsNext]_secretVars

-----------------------------------------------------------------------------
\* Key rotation (reseal at startup; the module's head says older keys "still
\* open what they sealed, and at startup those rows are re-sealed"). Once every
\* replica runs with the same current key, no row is left under another one,
\* whatever owners set on the old replicas meanwhile, unless a re-sealing failed
\* or the key was gone: the old key can then be taken away.
RotationCompletes ==
  /\ SecretsTypeOK
  /\ \A k \in KeyIds :
       (\A r \in Replicas : phase[r] = "up" /\ box[r] # NONE /\ box[r].current = k) =>
         \A n \in Names \ unsealed : row[n] = NONE \/ row[n].key = k

\* Redaction ("Everything the run stores ... has each exact value replaced",
\* "a value that contains another is replaced whole"). No character of a value
\* that the run handed to one of its tasks is left in what the run stored,
\* values replaced by the owner between two attempts included.
NothingLeaks == \A i \in DOMAIN kept : kept[i] \in {"x"} \cup Names

\* "opened at each attempt's start, so a replaced value reaches the next
\* attempt" (engine.py): what an attempt would open is what the owner last set.
ReplacedReachesNext == \A n \in Names : (IF row[n] = NONE THEN NONE ELSE row[n].value) = live[n]

=============================================================================
