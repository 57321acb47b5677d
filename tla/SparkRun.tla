------------------------------ MODULE SparkRun ------------------------------
(***************************************************************************)
(* The attempts of one Spark task: the Spark runner in the API pod         *)
(* (runners/spark.py), the module's Spark client in each attempt's pod     *)
(* (runners/_spark_client.py), and booth-spark itself, which is external:  *)
(* it keeps one application per idempotency key, and ends each of them     *)
(* sooner or later.                                                        *)
(*                                                                         *)
(*   n, at      the attempt under way and the stage of SparkRunner.run     *)
(*   mem, prev  _apps[key] and the local `previous`; 0 is none             *)
(*   trk        the _Tracker: what the pod's events have told so far       *)
(*   cli        the client: its step, its view of the application, its log *)
(*              cursor and how often it printed each line of the log       *)
(*   pipe       events on their way from the client to the tracker         *)
(*   apps       booth-spark's applications, by id                          *)
(*   forgotten  (history) applications whose end nobody will wait for      *)
(***************************************************************************)
EXTENDS Naturals, Sequences, FiniteSets

CONSTANTS MaxAttempts, \* retries + 1
          MaxOutages,  \* failed POSTs the client puts up with
          TailLines,   \* lines LogCopy.finish asks for: tail=10000
          KeptLines,   \* lines of a driver log that booth-spark keeps, the newest
          MaxLog       \* bound: lines an application writes

ASSUME SparkAssumption == /\ MaxAttempts \in Nat \ {0} /\ MaxOutages \in Nat /\ MaxLog \in Nat
                          /\ TailLines \in Nat \ {0} /\ KeptLines \in Nat \ {0}

VARIABLES n, at, mem, prev, trk, cli, pipe, apps, cancel, result, forgotten

vars == <<n, at, mem, prev, trk, cli, pipe, apps, cancel, result, forgotten>>

TERMINAL == {"succeeded", "failed", "stopped"}
Live(id) == apps[id].state \notin TERMINAL
Lines    == 1..(MaxLog + 1)   \* the last one is the output marker
NoCursor == MaxLog + 2        \* LogCopy.offset is None

NoTracker == [app |-> 0, state |-> "none", ran |-> FALSE]
NoClient  == [pc |-> "none", outages |-> 0, id |-> 0, state |-> "none",
              offset |-> 0, cut |-> 0, copied |-> [l \in Lines |-> 0], ok |-> FALSE]

TypeOK ==
  /\ n \in 0..MaxAttempts
  /\ at \in {"idle", "check", "wait", "job", "stop", "over"}
  /\ {mem, prev, trk.app, cli.id} \subseteq 0..Len(apps)
  /\ Len(apps) <= MaxAttempts
  /\ \A id \in DOMAIN apps : /\ apps[id].state \in {"pending", "running"} \cup TERMINAL
                             /\ apps[id].len \in 0..(MaxLog + 1)
  /\ trk.ran \in BOOLEAN /\ cancel \in BOOLEAN
  /\ cli.pc \in {"none", "submit", "poll", "state", "finish", "conclude", "exit"}
  /\ cli.outages \in 0..MaxOutages
  /\ cli.offset \in 0..NoCursor
  /\ \A l \in Lines : cli.copied[l] \in 0..2
  /\ result \in {"none", "output", "failed", "canceled"}
  /\ forgotten \subseteq DOMAIN apps

Init ==
  /\ n = 0 /\ at = "idle" /\ mem = 0 /\ prev = 0
  /\ trk = NoTracker /\ cli = NoClient /\ pipe = <<>> /\ apps = <<>>
  /\ cancel = FALSE /\ result = "none" /\ forgotten = {}

-----------------------------------------------------------------------------
(* SparkRunner, in the API pod.                                             *)

Cancel ==
  /\ at # "over" /\ ~cancel
  /\ cancel' = TRUE
  /\ UNCHANGED <<n, at, mem, prev, trk, cli, pipe, apps, result, forgotten>>

\* The engine's next attempt: the earlier application is taken out of _apps.
Run ==
  /\ at = "idle" /\ ~cancel /\ n < MaxAttempts
  /\ n' = n + 1
  /\ prev' = mem /\ mem' = 0
  /\ at' = IF mem = 0 THEN "job" ELSE "check"
  /\ result' = "none"
  /\ cli' = IF mem = 0 THEN [NoClient EXCEPT !.pc = "submit"] ELSE NoClient
  /\ UNCHANGED <<trk, pipe, apps, cancel, forgotten>>

\* No attempt is left, or the run was canceled between two of them.
GiveUp ==
  /\ at = "idle" /\ (cancel \/ n = MaxAttempts)
  /\ at' = "over"
  /\ UNCHANGED <<n, mem, prev, trk, cli, pipe, apps, cancel, result, forgotten>>

StopApp(id) == [apps EXCEPT ![id].stop = TRUE]

Start == at' = "job" /\ cli' = [NoClient EXCEPT !.pc = "submit"]

\* _ensure_ended raises: the attempt fails, and _apps no longer has the
\* application.
NotEnded ==
  /\ at \in {"check", "wait"}
  /\ at' = "idle" /\ result' = "failed"
  /\ forgotten' = forgotten \cup {prev} /\ prev' = 0
  /\ UNCHANGED <<n, mem, trk, cli, pipe, apps, cancel>>

\* _ensure_ended's first look, and its stop.
EnsureEnded ==
  /\ at = "check"
  /\ IF Live(prev)
     THEN at' = "wait" /\ apps' = StopApp(prev) /\ UNCHANGED cli
     ELSE Start /\ UNCHANGED apps
  /\ UNCHANGED <<n, mem, prev, trk, pipe, cancel, result, forgotten>>

\* ... and the look that finds the application has ended.
HasEnded ==
  /\ at = "wait" /\ ~Live(prev)
  /\ Start
  /\ UNCHANGED <<n, mem, prev, trk, pipe, apps, cancel, result, forgotten>>

\* _Tracker._event.
Event ==
  /\ at = "job" /\ pipe # <<>>
  /\ LET ev == Head(pipe) IN
       trk' = [app   |-> IF ev.event = "submitted" THEN ev.id ELSE trk.app,
               state |-> ev.state,
               ran   |-> trk.ran \/ (ev.event = "state" /\ ev.state \in {"running", "succeeded"})]
  /\ pipe' = Tail(pipe)
  /\ UNCHANGED <<n, at, mem, prev, cli, apps, cancel, result, forgotten>>

\* Applications of this attempt the tracker was never told of.
Untold == IF trk.app = 0 THEN {id \in DOMAIN apps : apps[id].key = n} ELSE {}

\* The Job runner returns: the client has exited and everything it said has
\* been read.
JobEnds ==
  /\ at = "job" /\ cli.pc = "exit" /\ pipe = <<>>
  /\ result' = IF cli.ok THEN "output" ELSE "failed"
  /\ at' = IF cli.ok THEN "over" ELSE "stop"
  /\ forgotten' = forgotten \cup Untold
  /\ UNCHANGED <<n, mem, prev, trk, cli, pipe, apps, cancel>>

\* It raises instead: a cancel, a timeout, a lost pod.  What the client had
\* not got across is lost with it.
JobLost ==
  /\ at = "job"
  /\ result' = IF cancel THEN "canceled" ELSE "failed"
  /\ at' = "stop"
  /\ cli' = [cli EXCEPT !.pc = "exit"]
  /\ pipe' = <<>>
  /\ forgotten' = forgotten \cup Untold
  /\ UNCHANGED <<n, mem, prev, trk, apps, cancel>>

\* Fault: an application that was asked to stop is taken for ended.
Fault_Remember(stopped) == IF stopped \/ result = "canceled" THEN 0 ELSE trk.app

\* _remember is called for a failure, not for a cancel (never retried).
Remember(stopped) == IF result = "canceled" THEN 0 ELSE trk.app

\* Of an attempt that is over neither the log is read again nor how its
\* application stands, only whether it has ended.
Unread(as) ==
  [id \in DOMAIN as |-> [as[id] EXCEPT !.len = 0,
                           !.state = IF @ \in TERMINAL THEN "stopped" ELSE "running"]]

\* _stop, then _remember; a stop that fails is only logged.  The attempt's
\* tracker and client are gone with it.
Stop ==
  /\ at = "stop"
  /\ LET due == trk.app # 0 /\ trk.state \notin TERMINAL IN
       \E stopped \in {FALSE, due} :
         /\ apps' = Unread(IF stopped THEN StopApp(trk.app) ELSE apps)
         /\ mem' = Remember(stopped)
  /\ at' = "idle" /\ prev' = 0
  /\ trk' = NoTracker /\ cli' = NoClient
  /\ UNCHANGED <<n, pipe, cancel, result, forgotten>>

-----------------------------------------------------------------------------
(* The Spark client, in the attempt's pod.                                  *)

Client(pc) == at = "job" /\ cli.pc = pc

Fail == cli' = [cli EXCEPT !.pc = "exit"]

\* Fault: an application somebody stopped is waited for.
Fault_Over(state) == state \in {"succeeded", "failed"}

\* The client's own list of final states.
Over(state) == state \in {"succeeded", "failed", "stopped"}

key == n

Ids(k) == {id \in DOMAIN apps : apps[id].key = k}

\* booth-spark answers a POST (external): one application per key.
Posted(k) == IF Ids(k) # {} THEN apps
             ELSE Append(apps, [key |-> k, state |-> "pending",
                                stop |-> FALSE, len |-> 0])

\* submit: the application, and the "submitted" event.
Submit ==
  /\ Client("submit")
  /\ apps' = Posted(key)
  /\ LET id == IF Ids(key) # {} THEN CHOOSE i \in Ids(key) : TRUE ELSE Len(apps) + 1 IN
       /\ cli' = [cli EXCEPT !.pc = IF Over(apps'[id].state) THEN "finish" ELSE "poll",
                             !.id = id, !.state = apps'[id].state]
       /\ pipe' = Append(pipe, [event |-> "submitted", id |-> id, state |-> apps'[id].state])
  /\ UNCHANGED <<n, at, mem, prev, trk, cancel, result, forgotten>>

\* The answer is lost or a 5xx, before or after booth-spark took it; a few of
\* those are retried.
SubmitOutage ==
  /\ Client("submit")
  /\ apps' \in {apps, Posted(key)}
  /\ IF cli.outages < MaxOutages
     THEN cli' = [cli EXCEPT !.outages = @ + 1]
     ELSE Fail
  /\ UNCHANGED <<n, at, mem, prev, trk, pipe, cancel, result, forgotten>>

\* A refusal, or no capacity until the deadline.
SubmitRefused ==
  /\ Client("submit")
  /\ Fail
  /\ UNCHANGED <<n, at, mem, prev, trk, pipe, apps, cancel, result, forgotten>>

Emit(c, S) == [c EXCEPT !.copied = [l \in Lines |-> IF l \in S THEN @[l] + 1 ELSE @[l]]]

\* The last k of the lines written so far.
Newest(len, k) == {l \in Lines : l <= len /\ l + k > len}

\* booth-spark's log (external): older lines it no longer has.
KeptLog(id) == Newest(apps[id].len, KeptLines)

\* LogCopy.poll when it is answered: everything after the cursor that is still
\* kept.  The client does not look whether lines were skipped.
Polled(c) == [Emit(c, {l \in KeptLog(c.id) : l > c.offset}) EXCEPT !.offset = apps[c.id].len]

\* LogCopy.poll without a usable answer: from now on there is no cursor.
CursorLost(c) == [c EXCEPT !.offset = NoCursor, !.cut = c.offset]

Poll ==
  /\ Client("poll")
  /\ \E c \in IF cli.offset = NoCursor THEN {cli} ELSE {Polled(cli), CursorLost(cli)} :
       cli' = [c EXCEPT !.pc = "state"]
  /\ UNCHANGED <<n, at, mem, prev, trk, pipe, apps, cancel, result, forgotten>>

\* An exception out of logs.poll or logs.finish ends the client.
PollRaises ==
  /\ \/ Client("poll") /\ cli.offset # NoCursor
     \/ Client("finish")
  /\ Fail
  /\ UNCHANGED <<n, at, mem, prev, trk, pipe, apps, cancel, result, forgotten>>

\* GET the application: a change is told; anything but 200 is passed over.
GetState ==
  /\ Client("state")
  /\ \/ /\ cli' = [cli EXCEPT !.pc = IF Over(apps[cli.id].state) THEN "finish" ELSE "poll",
                              !.state = apps[cli.id].state]
        /\ pipe' = IF apps[cli.id].state = cli.state THEN pipe
                   ELSE Append(pipe, [event |-> "state", id |-> cli.id, state |-> apps[cli.id].state])
     \/ cli' = [cli EXCEPT !.pc = "poll"] /\ UNCHANGED pipe
  /\ UNCHANGED <<n, at, mem, prev, trk, apps, cancel, result, forgotten>>

\* logs?tail=10000.
LastLines(id) == Newest(apps[id].len, TailLines) \cap KeptLog(id)

\* Fault: the end of the log is copied whether or not the cursor still stands.
Fault_Finished(c) == {Emit(IF c.offset = NoCursor THEN c ELSE Polled(c), LastLines(c.id))}

\* LogCopy.finish: the rest after the cursor, or else the last lines from
\* scratch, which booth-spark may have cleared.
Finished(c) ==
  LET Tail10000(d) == {d, Emit(d, LastLines(c.id))} IN
    IF c.offset = NoCursor THEN Tail10000(c)
    ELSE {Polled(c)} \cup Tail10000(CursorLost(c))

Finish ==
  /\ Client("finish")
  /\ \E c \in Finished(cli) : cli' = [c EXCEPT !.pc = "conclude"]
  /\ UNCHANGED <<n, at, mem, prev, trk, pipe, apps, cancel, result, forgotten>>

\* Fault: the state is not asked again, only whether there is an output line.
Fault_output == \E l \in Lines : cli.copied[l] > 0

\* The state, then the output line among the lines copied.
output == cli.state = "succeeded" /\ cli.copied[apps[cli.id].len] > 0

Conclude ==
  /\ Client("conclude")
  /\ cli' = [cli EXCEPT !.pc = "exit", !.ok = output]
  /\ UNCHANGED <<n, at, mem, prev, trk, pipe, apps, cancel, result, forgotten>>

-----------------------------------------------------------------------------
(* booth-spark (external).                                                  *)

\* The attempt under way watches it; of any other application it matters only
\* whether it has ended.
Read(id) == at = "job" /\ apps[id].key = n

AppRuns(id) ==
  /\ Read(id) /\ apps[id].state = "pending"
  /\ apps' = [apps EXCEPT ![id].state = "running"]
  /\ UNCHANGED <<n, at, mem, prev, trk, cli, pipe, cancel, result, forgotten>>

AppWrites(id) ==
  /\ Read(id) /\ apps[id].state = "running" /\ apps[id].len < MaxLog
  /\ apps' = [apps EXCEPT ![id].len = @ + 1]
  /\ UNCHANGED <<n, at, mem, prev, trk, cli, pipe, cancel, result, forgotten>>

\* Success writes the output line; a failure, maxDuration and a stop, ours or
\* that of somebody in booth-spark, do not.
AppEnds(id) ==
  /\ Live(id)
  /\ \/ /\ Read(id) /\ apps[id].state = "running"
        /\ apps' = [apps EXCEPT ![id].state = "succeeded", ![id].len = @ + 1]
     \/ Read(id) /\ apps' = [apps EXCEPT ![id].state = "failed"]
     \/ apps' = [apps EXCEPT ![id].state = "stopped"]
  /\ UNCHANGED <<n, at, mem, prev, trk, cli, pipe, cancel, result, forgotten>>

-----------------------------------------------------------------------------
Runner == Run \/ GiveUp \/ NotEnded \/ EnsureEnded \/ HasEnded \/ Event \/ JobEnds \/ Stop

SparkClient == Submit \/ SubmitOutage \/ SubmitRefused \/ Poll \/ PollRaises
                 \/ GetState \/ Finish \/ Conclude

Next == \/ Runner \/ JobLost \/ Cancel \/ SparkClient
        \/ \E id \in DOMAIN apps : AppRuns(id) \/ AppWrites(id) \/ AppEnds(id)

\* Threads and processes go on, booth-spark ends every application (its
\* maxDuration), and a GET of its state is answered again and again.
Fairness ==
  /\ WF_vars(Runner) /\ WF_vars(SparkClient)
  /\ SF_vars(GetState /\ cli'.pc = "finish")
  /\ \A id \in 1..MaxAttempts : WF_vars(id \in DOMAIN apps /\ AppEnds(id))

Spec == Init /\ [][Next]_vars /\ Fairness

-----------------------------------------------------------------------------
(* Properties.                                                              *)

\* Two applications of the task are alive at once only if the runner lost the
\* older one: its attempt ended before the "submitted" event arrived, or an
\* attempt already failed on checking that it had ended.  A retried POST, a
\* failed stop and a retry after a timeout never add a second writer.
OneUnlessForgotten ==
  TypeOK /\ \A i, j \in DOMAIN apps : i < j /\ Live(i) /\ Live(j) => i \in forgotten

\* A task that returned an output has an application that succeeded, of this
\* very attempt, whose output line was in the log it copied.
OutputIsReal ==
  result = "output" => /\ apps[cli.id].state = "succeeded"
                       /\ apps[cli.id].key = n
                       /\ cli.copied[apps[cli.id].len] > 0

\* A successful attempt has printed each line of the driver log once.  It may
\* lack one that booth-spark no longer kept, or, the cursor lost before it, one
\* that is not among the last TailLines; and it has printed twice only lines
\* before a lost cursor that are among those (LogCopy).
LogOnce ==
  result = "output" =>
    LET len == apps[cli.id].len IN
      \A l \in 1..len :
        /\ cli.copied[l] = 0 => \/ l + KeptLines <= len
                                \/ cli.offset = NoCursor /\ l > cli.cut /\ l + TailLines <= len
        /\ cli.copied[l] = 2 => cli.offset = NoCursor /\ l <= cli.cut /\ l + TailLines > len

\* Every task gets to an end: no attempt waits for ever, whatever happened to
\* the application it waits for.
TaskEnds == <>(at = "over")

\* "before a retry makes sure the previous attempt's application has ended,
\* so two never write at once" (runners/spark.py:11).
TwoNeverWrite ==
  \A i, j \in DOMAIN apps : i # j => ~(Live(i) /\ Live(j))
=============================================================================
