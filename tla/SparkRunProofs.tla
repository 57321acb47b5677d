--------------------------- MODULE SparkRunProofs ---------------------------
(***************************************************************************)
(* Proofs about the attempts of a Spark task (SparkRun), for any number of *)
(* attempts, of failed POSTs the client puts up with and of log lines:     *)
(* two applications are alive at once only if the older one was forgotten, *)
(* an output is that of an application of this very attempt that           *)
(* succeeded, and its log was printed as far as it could still be had.     *)
(***************************************************************************)
EXTENDS SparkRun, SequenceTheorems, TLAPS

States == {"pending", "running", "succeeded", "failed", "stopped"}

\* An application of booth-spark.
Application ==
  [key : Nat, state : States, stop : BOOLEAN, len : 0..(MaxLog + 1)]

\* booth-spark's applications while attempt k is the latest: one per key, in
\* the order of the attempts, so never more of them than attempts.  Only
\* success writes the last line.
Rows(as, k) ==
  /\ as \in Seq(Application)
  /\ \A i \in 1..Len(as) : i <= as[i].key /\ as[i].key <= k
  /\ \A i, j \in 1..Len(as) : i < j => as[i].key < as[j].key
  /\ \A i \in 1..Len(as) : as[i].state # "succeeded" => as[i].len <= MaxLog

\* The parts of the client, m applications being known.
Shape(c, m) ==
  /\ DOMAIN c = {"pc", "outages", "id", "state", "offset", "cut", "copied", "ok"}
  /\ c.pc \in {"none", "submit", "poll", "state", "finish", "conclude", "exit"}
  /\ c.outages \in 0..MaxOutages
  /\ c.id \in 0..m
  /\ c.offset \in 0..NoCursor /\ c.cut \in 0..NoCursor
  /\ c.copied \in [Lines -> 0..2]
  /\ c.ok \in BOOLEAN

\* Of a log of this length nothing after `to` has been printed, and of the
\* lines up to there each that booth-spark still keeps, once.
Once(c, to, len) ==
  /\ to <= len
  /\ \A l \in Lines : /\ c.copied[l] \in {0, 1}
                      /\ l > to => c.copied[l] = 0
                      /\ l <= to /\ l + KeptLines > len => c.copied[l] = 1

\* What the client has printed of a log of this length before it finishes:
\* everything up to its cursor, or up to where the cursor was lost.
Copying(c, len) ==
  \/ c.offset # NoCursor /\ Once(c, c.offset, len)
  \/ c.offset = NoCursor /\ Once(c, c.cut, len)

\* With the cursor lost, the last lines may have been printed again.
Again(c, len) ==
  /\ c.offset = NoCursor /\ c.cut <= len
  /\ \A l \in Lines :
       /\ l <= len /\ c.copied[l] = 0 => l + KeptLines <= len \/ (l > c.cut /\ l + TailLines <= len)
       /\ c.copied[l] = 2 => l <= c.cut /\ l + TailLines > len

\* ... and when it has.
Printed(c, len) == Copying(c, len) \/ Again(c, len)

\* The client at each of its steps, beside its application x.
Story(c, x) ==
  /\ c.pc \in {"none", "submit"} => c.id = 0 /\ c.offset = 0 /\ \A l \in Lines : c.copied[l] = 0
  /\ c.pc \in {"poll", "state", "finish", "conclude"} => c.id # 0
  /\ c.pc \in {"poll", "state", "finish"} => Copying(c, x.len)
  /\ c.pc \in {"finish", "conclude"} => c.state = x.state /\ x.state \in TERMINAL
  /\ c.pc = "conclude" => Printed(c, x.len)
  /\ c.ok => /\ c.pc = "exit" /\ c.id # 0
             /\ x.state = "succeeded" /\ c.copied[x.len] > 0
             /\ Printed(c, x.len)

Said(id) == {e \in [event : {"submitted", "state"}, id : Nat, state : States] : e.id = id}

Stages ==
  /\ n \in 0..MaxAttempts
  /\ at \in {"idle", "check", "wait", "job", "stop", "over"}
  /\ at \in {"check", "wait", "job", "stop"} => n > 0 /\ mem = 0
  /\ at \in {"check", "wait"} => prev # 0
  /\ at \in {"idle", "check", "wait"} => trk = NoTracker /\ cli = NoClient /\ pipe = <<>>
  /\ at = "stop" => pipe = <<>>
  /\ cancel \in BOOLEAN
  /\ result \in {"none", "output", "failed", "canceled"}
  /\ result = "canceled" => cancel
  /\ result = "output" => at = "over" /\ cli.ok
  /\ mem \in 0..Len(apps) /\ prev \in 0..Len(apps)
  /\ forgotten \subseteq DOMAIN apps

Tracking ==
  /\ DOMAIN trk = {"app", "state", "ran"}
  /\ trk.app \in {0, cli.id}
  /\ trk.ran \in BOOLEAN
  /\ pipe \in Seq(Said(cli.id))
  /\ cli.id = 0 => pipe = <<>>

Clients ==
  /\ Shape(cli, Len(apps))
  /\ Story(cli, apps[cli.id])
  /\ cli.id # 0 => apps[cli.id].key = n

\* Whom an application that is alive and not forgotten belongs to: it is the
\* one in _apps, the one this attempt waits for, or this attempt's own.
Followed ==
  \A i \in DOMAIN apps :
    Live(i) /\ i \notin forgotten =>
      /\ at = "idle" /\ ~cancel => i = mem
      /\ at \in {"check", "wait"} => i = prev
      /\ at \in {"job", "stop"} => apps[i].key = n
      /\ at = "stop" => i = trk.app

Alone == \A i, j \in DOMAIN apps : i < j /\ Live(i) /\ Live(j) => i \in forgotten

SInv == Stages /\ Rows(apps, n) /\ Tracking /\ Clients /\ Followed /\ Alone

-----------------------------------------------------------------------------
(* booth-spark's applications.                                              *)

\* An interval from one tells its length.
LEMMA SameSpan ==
  ASSUME NEW a \in Nat, NEW b \in Nat, 1..a = 1..b
  PROVE  a = b
<1>1. a > 0 => a \in 1..b
  OBVIOUS
<1>2. b > 0 => b \in 1..a
  OBVIOUS
<1> QED BY <1>1, <1>2

\* One application changed, its key kept: still one per key, in order.
LEMMA RowChanged ==
  ASSUME NEW as, NEW k, Rows(as, k),
         NEW i, i \in DOMAIN as, NEW x, x \in Application, x.key = as[i].key,
         x.state # "succeeded" => x.len <= MaxLog, NEW bs, bs = [as EXCEPT ![i] = x]
  PROVE  /\ Rows(bs, k) /\ Len(bs) = Len(as) /\ DOMAIN bs = DOMAIN as
         /\ bs[i] = x
         /\ \A j \in DOMAIN as : j # i => bs[j] = as[j]
<1>0. as \in Seq(Application)
  BY DEF Rows
<1>1. as \in Seq(Application) /\ DOMAIN as = 1..Len(as) /\ Len(as) \in Nat
  BY <1>0, LenProperties
<1>2. bs \in Seq(Application) /\ Len(bs) = Len(as)
  BY <1>1, ExceptSeq
<1>3. DOMAIN bs = DOMAIN as /\ bs[i] = x /\ \A j \in DOMAIN as : j # i => bs[j] = as[j]
  BY <1>1
<1>4. \A j \in DOMAIN as : bs[j].key = as[j].key
  BY <1>3
<1>5. Rows(bs, k)
  BY <1>1, <1>2, <1>3, <1>4 DEF Rows
<1> QED BY <1>2, <1>3, <1>5

\* The POST of attempt k: its application is there, and is the only new one.
LEMMA RowPosted ==
  ASSUME Rows(apps, n), n \in Nat \ {0}, NEW bs, bs = Posted(n)
  PROVE  /\ Rows(bs, n) /\ Len(apps) <= Len(bs)
         /\ \A i \in 1..Len(apps) : bs[i] = apps[i]
         /\ \A i \in 1..Len(bs) : i > Len(apps) => /\ i = Len(apps) + 1 /\ bs[i].key = n
                                                   /\ \A j \in 1..Len(apps) : apps[j].key # n
<1> DEFINE x == [key |-> n, state |-> "pending", stop |-> FALSE, len |-> 0]
<1>1. apps \in Seq(Application) /\ DOMAIN apps = 1..Len(apps) /\ Len(apps) \in Nat
  BY DEF Rows
<1>2. CASE Ids(n) # {}
  BY <1>1, <1>2 DEF Posted
<1>3. CASE Ids(n) = {}
  <2>1. bs = Append(apps, x)
    BY <1>3 DEF Posted
  <2>2. x \in Application
    BY SparkAssumption DEF Application, States
  <2>3. /\ bs \in Seq(Application) /\ Len(bs) = Len(apps) + 1
        /\ \A i \in 1..Len(apps) : bs[i] = apps[i]
        /\ bs[Len(apps) + 1] = x /\ x.key = n /\ x.len <= MaxLog
    BY <1>1, <2>1, <2>2, AppendProperties, SparkAssumption
  <2>4. \A j \in 1..Len(apps) : apps[j].key # n
    BY <1>1, <1>3 DEF Ids
  <2> HIDE DEF x
  <2>a. \A i \in 1..Len(apps) : apps[i] \in Application
    BY <1>1, ElementOfSeq
  <2>5. \A i \in 1..Len(apps) : apps[i].key \in Nat
    BY <2>a DEF Application
  <2>6. Len(apps) + 1 <= n
    <3>1. CASE Len(apps) = 0 BY <3>1
    <3>2. CASE Len(apps) # 0
      <4>1. Len(apps) \in 1..Len(apps) BY <1>1, <3>2
      <4> QED BY <1>1, <2>4, <2>5, <4>1 DEF Rows
    <3> QED BY <3>1, <3>2
  <2>7. \A i \in 1..Len(bs) : i \in 1..Len(apps) \/ i = Len(apps) + 1
    BY <1>1, <2>3
  <2>8. Rows(bs, n)
    BY <1>1, <2>3, <2>4, <2>5, <2>6, <2>7 DEF Rows
  <2> QED BY <1>1, <2>1, <2>3, <2>4, <2>7, <2>8
<1> QED BY <1>2, <1>3

\* Of an attempt that is over no more is kept than whether its application ended.
LEMMA RowsUnread ==
  ASSUME NEW as, NEW k, Rows(as, k), NEW bs, bs = Unread(as)
  PROVE  /\ Rows(bs, k) /\ Len(bs) = Len(as) /\ DOMAIN bs = DOMAIN as
         /\ \A i \in DOMAIN as : bs[i].key = as[i].key /\ (bs[i].state \in TERMINAL <=> as[i].state \in TERMINAL)
<1>1. as \in Seq(Application) /\ DOMAIN as = 1..Len(as) /\ Len(as) \in Nat
  BY LenProperties DEF Rows
<1>2. /\ DOMAIN bs = DOMAIN as
      /\ \A i \in DOMAIN as :
           bs[i] = [as[i] EXCEPT !.len = 0, !.state = IF @ \in TERMINAL THEN "stopped" ELSE "running"]
      /\ bs = [i \in DOMAIN as |-> bs[i]]
  BY DEF Unread
<1>3. ASSUME NEW i \in DOMAIN as
      PROVE  /\ bs[i] \in Application /\ bs[i].key = as[i].key
             /\ bs[i].state \in TERMINAL <=> as[i].state \in TERMINAL
             /\ bs[i].len <= MaxLog
  <2>1. as[i] \in Application
    BY <1>1, ElementOfSeq
  <2>3. PICK t : t = IF as[i].state \in TERMINAL THEN "stopped" ELSE "running"
    OBVIOUS
  <2>4. PICK y : y = bs[i]
    OBVIOUS
  <2>5. y = [as[i] EXCEPT !.len = 0, !.state = t]
    BY <1>2, <2>3, <2>4
  <2>6. t \in States /\ t # "succeeded" /\ (t \in TERMINAL <=> as[i].state \in TERMINAL)
    BY <2>3 DEF States, TERMINAL
  <2>7. 0 \in 0..(MaxLog + 1)
    BY SparkAssumption
  <2>8. y \in Application /\ y.key = as[i].key /\ y.state = t /\ y.len = 0
    BY <2>1, <2>5, <2>6, <2>7 DEF Application
  <2>9. 0 <= MaxLog
    BY SparkAssumption
  <2> QED BY <2>4, <2>6, <2>8, <2>9
<1>5. bs \in Seq(Application) /\ Len(bs) = Len(as)
  <2>1. bs \in [1..Len(as) -> Application]
    BY <1>1, <1>2, <1>3
  <2>2. bs \in Seq(Application)
    BY <1>1, <2>1, SeqDef
  <2>3. DOMAIN bs = 1..Len(bs) /\ Len(bs) \in Nat
    BY <2>2, LenProperties
  <2>4. Len(bs) = Len(as)
    BY <1>1, <1>2, <2>3, SameSpan
  <2> QED BY <2>2, <2>4
<1>6. Rows(bs, k)
  BY <1>1, <1>3, <1>2, <1>5 DEF Rows
<1> QED BY <1>2, <1>3, <1>5, <1>6

\* What the rows say of one application.
LEMMA RowFacts ==
  ASSUME NEW as, NEW k, Rows(as, k)
  PROVE  /\ Len(as) \in Nat /\ DOMAIN as = 1..Len(as)
         /\ \A i \in 1..Len(as) : /\ as[i] \in Application
                                  /\ DOMAIN as[i] = {"key", "state", "stop", "len"}
                                  /\ as[i].key \in Nat /\ i <= as[i].key /\ as[i].key <= k
                                  /\ as[i].state \in States /\ as[i].len \in 0..(MaxLog + 1)
                                  /\ as[i].state # "succeeded" => as[i].len <= MaxLog
         /\ \A i, j \in 1..Len(as) : as[i].key = as[j].key => i = j
<1>1. as \in Seq(Application)
  BY DEF Rows
<1>2. Len(as) \in Nat /\ DOMAIN as = 1..Len(as)
  BY <1>1, LenProperties
<1>3. \A i \in 1..Len(as) : as[i] \in Application
  BY <1>1, ElementOfSeq
<1>4. \A i \in 1..Len(as) : /\ DOMAIN as[i] = {"key", "state", "stop", "len"}
                            /\ as[i].key \in Nat /\ as[i].state \in States /\ as[i].len \in 0..(MaxLog + 1)
  BY <1>3 DEF Application
<1>5. \A i, j \in 1..Len(as) : as[i].key = as[j].key => i = j
  <2> SUFFICES ASSUME NEW i \in 1..Len(as), NEW j \in 1..Len(as), as[i].key = as[j].key, i # j
               PROVE  FALSE
    OBVIOUS
  <2>1. i < j \/ j < i
    BY <1>2
  <2>2. as[i].key < as[j].key \/ as[j].key < as[i].key
    BY <2>1 DEF Rows
  <2>3. PICK a \in Nat, b \in Nat : a = as[i].key /\ b = as[j].key
    BY <1>4
  <2>4. a = b /\ (a < b \/ b < a)
    BY <2>2, <2>3
  <2> QED BY <2>4
<1> QED BY <1>2, <1>3, <1>4, <1>5 DEF Rows

-----------------------------------------------------------------------------
(* The client and the runner.                                               *)

\* A step of the client that leaves booth-spark alone.
LEMMA ClientStep ==
  ASSUME SInv, at = "job",
         Shape(cli', Len(apps)), Story(cli', apps[cli'.id]), cli'.id = cli.id,
         pipe' \in Seq(Said(cli.id)), cli.id = 0 => pipe' = <<>>,
         UNCHANGED <<n, at, mem, prev, trk, apps, cancel, result, forgotten>>
  PROVE  SInv'
<1> USE DEF SInv
<1>1. Stages'
  BY DEF Stages
<1>2. Tracking'
  BY DEF Tracking, Said
<1>3. Clients'
  BY DEF Clients
<1>4. Rows(apps, n)' /\ Followed' /\ Alone'
  BY DEF Rows, Followed, Alone, Live
<1> QED BY <1>1, <1>2, <1>3, <1>4

\* The story of a client does not change when its application goes on: the
\* log grows, and what has ended stays as it is.
LEMMA StoryGoesOn ==
  ASSUME NEW c, NEW m, Shape(c, m), NEW x, NEW y, Story(c, x),
         x.len \in Nat, y.len \in Nat, x.len <= y.len,
         x.state \in TERMINAL => y.state = x.state /\ y.len = x.len
  PROVE  Story(c, y)
<1>0. c.offset \in Nat /\ c.cut \in Nat /\ c.ok \in BOOLEAN
  BY SparkAssumption DEF Shape, NoCursor
<1>1. Copying(c, x.len) => Copying(c, y.len)
  <2>1. KeptLines \in Nat /\ \A l \in Lines : l \in Nat
    BY SparkAssumption DEF Lines
  <2>2. ASSUME NEW to \in Nat, Once(c, to, x.len) PROVE Once(c, to, y.len)
    <3>1. to <= y.len
      BY <2>2 DEF Once
    <3>2. ASSUME NEW l \in Lines, l + KeptLines > y.len PROVE l + KeptLines > x.len
      BY <2>1, <3>2
    <3> QED BY <2>2, <3>1, <3>2 DEF Once
  <2> QED BY <1>0, <2>2 DEF Copying
<1>2. x.state \in TERMINAL => (Printed(c, x.len) => Printed(c, y.len))
  OBVIOUS
<1>3. "succeeded" \in TERMINAL
  BY DEF TERMINAL
<1>4. c.ok => c.copied[y.len] > 0 /\ y.state = "succeeded" /\ Printed(c, y.len) /\ c.pc = "exit" /\ c.id # 0
  BY <1>2, <1>3 DEF Story
<1>5. c.pc \in {"finish", "conclude"} => c.state = y.state /\ y.state \in TERMINAL
  BY DEF Story
<1>6. c.pc = "conclude" => Printed(c, y.len)
  BY <1>2 DEF Story
<1> QED BY <1>1, <1>4, <1>5, <1>6 DEF Story

\* A step of booth-spark: one application goes on, and what has ended stays.
LEMMA AppStep ==
  ASSUME SInv, NEW i \in DOMAIN apps, NEW x \in Application, apps' = [apps EXCEPT ![i] = x],
         x.key = apps[i].key, x.state # "succeeded" => x.len <= MaxLog, apps[i].len <= x.len,
         apps[i].state \in TERMINAL => x.state = apps[i].state /\ x.len = apps[i].len,
         UNCHANGED <<n, at, mem, prev, trk, cli, pipe, cancel, result, forgotten>>
  PROVE  SInv'
<1> USE DEF SInv
<1>1. /\ Rows(apps', n) /\ Len(apps') = Len(apps) /\ DOMAIN apps' = DOMAIN apps
      /\ apps'[i] = x /\ \A j \in DOMAIN apps : j # i => apps'[j] = apps[j]
  <2>1. Rows(apps, n) /\ (x.state # "succeeded" => x.len <= MaxLog) /\ x.key = apps[i].key
    OBVIOUS
  <2>2. PICK bs : bs = [apps EXCEPT ![i] = x]
    OBVIOUS
  <2>3. /\ Rows(bs, n) /\ Len(bs) = Len(apps) /\ DOMAIN bs = DOMAIN apps
        /\ bs[i] = x /\ \A j \in DOMAIN apps : j # i => bs[j] = apps[j]
    <3> HIDE DEF SInv
    <3> QED BY ONLY <2>1, <2>2, RowChanged, i \in DOMAIN apps, x \in Application, ZenonT(60)
  <2>4. bs = apps'
    BY <2>2
  <2> QED BY <2>3, <2>4
<1>2. DOMAIN apps = 1..Len(apps) /\ Len(apps) \in Nat /\ \A j \in 1..Len(apps) : apps[j].len \in Nat
  BY RowFacts, SparkAssumption
<1>3. x.len \in Nat
  BY SparkAssumption DEF Application
<1>4. \A j \in DOMAIN apps : /\ apps'[j].key = apps[j].key
                             /\ apps'[j].len \in Nat /\ apps[j].len <= apps'[j].len
                             /\ apps[j].state \in TERMINAL => apps'[j].state = apps[j].state /\ apps'[j].len = apps[j].len
  BY <1>1, <1>2, <1>3
<1>5. \A j \in DOMAIN apps : Live(j)' => Live(j)
  BY <1>4 DEF Live
<1>6. Stages'
  BY <1>1 DEF Stages
<1>7. Rows(apps, n)'
  BY <1>1 DEF Rows
<1>8. Followed' /\ Alone'
  BY <1>1, <1>4, <1>5 DEF Followed, Alone
<1>9. Clients'
  <2>1. Shape(cli, Len(apps))'
    BY <1>1 DEF Clients, Shape
  <2>2. CASE cli.id = 0
    <3>1. Story(cli, apps[cli.id])'
      BY <2>2 DEF Clients, Story
    <3> QED BY <2>1, <2>2, <3>1 DEF Clients
  <2>3. CASE cli.id # 0
    <3>1. cli.id \in DOMAIN apps
      BY <1>2, <2>3 DEF Clients, Shape
    <3>2. Story(cli, apps'[cli.id])
      BY <1>2, <1>4, <3>1, StoryGoesOn DEF Clients
    <3> QED BY <1>4, <2>1, <3>1, <3>2 DEF Clients
  <2> QED BY <2>2, <2>3
<1>10. Tracking'
  BY DEF Tracking, Said
<1> QED BY <1>6, <1>7, <1>8, <1>9, <1>10

\* booth-spark runs, writes and ends.
LEMMA AppSteps ==
  ASSUME SInv, NEW i \in DOMAIN apps, AppRuns(i) \/ AppWrites(i) \/ AppEnds(i)
  PROVE  SInv'
<1>0. Rows(apps, n) /\ i \in 1..Len(apps)
  BY RowFacts DEF SInv
<1>1. PICK w : w = apps[i]
  OBVIOUS
<1>2. /\ w \in Application /\ w.len \in Nat /\ w.len <= MaxLog + 1 /\ w.state \in States
      /\ w.state # "succeeded" => w.len <= MaxLog
  BY <1>0, <1>1, RowFacts, SparkAssumption
<1>3. /\ MaxLog \in Nat /\ MaxLog <= MaxLog + 1 /\ 0 <= MaxLog
      /\ w.state \in {"pending", "running"} <=> w.state \notin TERMINAL
  BY <1>2, SparkAssumption DEF States, TERMINAL
<1>4. ASSUME NEW t \in States, NEW k \in 0..(MaxLog + 1), w.len <= k, w.state \notin TERMINAL,
             t # "succeeded" => k <= MaxLog,
             apps' = [apps EXCEPT ![i] = [w EXCEPT !.state = t, !.len = k]],
             UNCHANGED <<n, at, mem, prev, trk, cli, pipe, cancel, result, forgotten>>
      PROVE  SInv'
  <2>1. PICK x : x = [w EXCEPT !.state = t, !.len = k]
    OBVIOUS
  <2>2. x \in Application /\ x.key = w.key /\ x.state = t /\ x.len = k
    BY <1>2, <1>4, <2>1 DEF Application
  <2>3. apps' = [apps EXCEPT ![i] = x]
    BY <1>4, <2>1
  <2> QED BY <1>1, <1>4, <2>2, <2>3, AppStep
<1>5. CASE AppRuns(i)
  <2>1. apps' = [apps EXCEPT ![i] = [w EXCEPT !.state = "running", !.len = w.len]]
    BY <1>1, <1>2, <1>5 DEF AppRuns, Application
  <2>2. w.state \notin TERMINAL /\ w.len <= MaxLog /\ w.len \in 0..(MaxLog + 1) /\ w.len <= w.len
    BY <1>1, <1>2, <1>3, <1>5 DEF AppRuns
  <2> QED BY <1>4, <1>5, <2>1, <2>2 DEF AppRuns, States
<1>6. CASE AppWrites(i)
  <2>1. apps' = [apps EXCEPT ![i] = [w EXCEPT !.state = "running", !.len = w.len + 1]]
    BY <1>1, <1>2, <1>6 DEF AppWrites, Application
  <2>2. /\ w.state \notin TERMINAL /\ w.len + 1 <= MaxLog /\ w.len + 1 \in 0..(MaxLog + 1)
        /\ w.len <= w.len + 1
    BY <1>1, <1>2, <1>3, <1>6 DEF AppWrites
  <2> QED BY <1>4, <1>6, <2>1, <2>2 DEF AppWrites, States
<1>7. CASE AppEnds(i)
  <2>0. w.state \notin TERMINAL /\ w.len <= MaxLog /\ w.len \in 0..(MaxLog + 1)
    BY <1>1, <1>2, <1>3, <1>7 DEF AppEnds, Live, TERMINAL
  <2>1. /\ w.len + 1 \in 0..(MaxLog + 1) /\ w.len <= w.len + 1 /\ w.len <= w.len
    BY <2>0, <1>2, <1>3
  <2>2. CASE apps' = [apps EXCEPT ![i].state = "succeeded", ![i].len = @ + 1]
    <3>1. apps' = [apps EXCEPT ![i] = [w EXCEPT !.state = "succeeded", !.len = w.len + 1]]
      BY <1>1, <1>2, <2>2 DEF Application
    <3> QED BY <1>4, <1>7, <2>0, <2>1, <3>1 DEF AppEnds, States
  <2>3. ASSUME NEW t \in {"failed", "stopped"}, apps' = [apps EXCEPT ![i].state = t]
        PROVE  SInv'
    <3>1. apps' = [apps EXCEPT ![i] = [w EXCEPT !.state = t, !.len = w.len]]
      BY <1>1, <1>2, <2>3 DEF Application
    <3>2. t \in States /\ t # "succeeded"
      BY <2>3 DEF States
    <3> QED BY <1>4, <1>7, <2>0, <2>1, <3>1, <3>2 DEF AppEnds
  <2> QED BY <1>7, <2>2, <2>3 DEF AppEnds
<1> QED BY <1>5, <1>6, <1>7

\* What a client step does to the client, field by field.
Turned(c, d, pc) ==
  /\ DOMAIN d = DOMAIN c /\ d.pc = pc
  /\ d.outages = c.outages /\ d.id = c.id /\ d.state = c.state /\ d.ok = c.ok

Same(c, d) == d.copied = c.copied

\* The same of what only copies lines.
Moved(c, d, offset, cut) ==
  /\ DOMAIN d = DOMAIN c /\ d.pc = c.pc /\ d.outages = c.outages /\ d.id = c.id /\ d.state = c.state
  /\ d.ok = c.ok /\ d.offset = offset /\ d.cut = cut

\* The lines counted once more.
Plus(c, S) == [l \in Lines |-> IF l \in S THEN c.copied[l] + 1 ELSE c.copied[l]]

\* The lines after the cursor that are still kept, and the last ones.
Rest(c, len) == {l \in Newest(len, KeptLines) : l > c.offset}
Last(len)    == Newest(len, TailLines) \cap Newest(len, KeptLines)

\* What emitting lines does to a client, field by field.
LEMMA EmitParts ==
  ASSUME NEW c, NEW m, Shape(c, m), NEW S
  PROVE  Moved(c, Emit(c, S), c.offset, c.cut) /\ Emit(c, S).copied = Plus(c, S)
BY DEF Emit, Shape, Moved, Plus

\* An answered poll.
LEMMA PolledParts ==
  ASSUME NEW c, NEW m, Shape(c, m), NEW x, x = apps[c.id], NEW d, d = Polled(c)
  PROVE  Moved(c, d, x.len, c.cut) /\ d.copied = Plus(c, Rest(c, x.len))
<1>1. PICK S : S = Rest(c, x.len)
  OBVIOUS
<1>2. PICK e : e = Emit(c, S)
  OBVIOUS
<1>3. Moved(c, e, c.offset, c.cut) /\ e.copied = Plus(c, S)
  BY <1>2, EmitParts
<1>4. d = [e EXCEPT !.offset = x.len]
  BY <1>1, <1>2 DEF Polled, Rest, KeptLog
<1>5. DOMAIN e = {"pc", "outages", "id", "state", "offset", "cut", "copied", "ok"}
  BY <1>3 DEF Moved, Shape
<1>6. /\ DOMAIN d = DOMAIN e /\ d.pc = e.pc /\ d.outages = e.outages /\ d.id = e.id /\ d.state = e.state
      /\ d.ok = e.ok /\ d.offset = x.len /\ d.cut = e.cut /\ d.copied = e.copied
  BY <1>4, <1>5
<1> QED BY <1>1, <1>3, <1>6 DEF Moved

\* The lines after the cursor, printed once, bring the cursor to the end.
LEMMA RestOnce ==
  ASSUME NEW c, NEW d, NEW len \in Nat, c.offset \in Nat, Once(c, c.offset, len),
         d.copied = Plus(c, Rest(c, len))
  PROVE  Once(d, len, len) /\ d.copied \in [Lines -> 0..2]
<1>1. KeptLines \in Nat /\ \A l \in Lines : l \in Nat
  BY SparkAssumption DEF Lines
<1>2. ASSUME NEW l \in Lines
      PROVE  /\ d.copied[l] \in {0, 1} /\ (l > len => d.copied[l] = 0)
             /\ (l <= len /\ l + KeptLines > len => d.copied[l] = 1)
  <2>1. l \in Rest(c, len) <=> l <= len /\ l + KeptLines > len /\ l > c.offset
    BY DEF Rest, Newest
  <2>2. d.copied[l] = IF l \in Rest(c, len) THEN c.copied[l] + 1 ELSE c.copied[l]
    BY DEF Plus
  <2>3. /\ c.copied[l] \in {0, 1} /\ (l > c.offset => c.copied[l] = 0) /\ c.offset <= len
        /\ (l <= c.offset /\ l + KeptLines > len => c.copied[l] = 1)
    BY DEF Once
  <2>4. l \in Nat
    BY <1>1
  <2>5. CASE l \in Rest(c, len)
    <3>1. l <= len /\ l > c.offset /\ c.copied[l] = 0
      BY <2>1, <2>3, <2>5
    <3>2. d.copied[l] = 1
      BY <2>2, <2>5, <3>1
    <3> QED BY <2>4, <3>1, <3>2
  <2>6. CASE l \notin Rest(c, len)
    BY <1>1, <2>1, <2>2, <2>3, <2>4, <2>6
  <2> QED BY <2>5, <2>6
<1>3. d.copied \in [Lines -> 0..2]
  <2>1. d.copied = [l \in Lines |-> d.copied[l]]
    BY DEF Plus
  <2>2. \A l \in Lines : d.copied[l] \in 0..2
    BY <1>2
  <2> QED BY <2>1, <2>2
<1> QED BY <1>2, <1>3 DEF Once

\* The last lines, printed from scratch.
LEMMA LastAgain ==
  ASSUME NEW c, NEW d, NEW len \in Nat, d.offset = NoCursor, d.cut \in Nat, Once(c, d.cut, len),
         d.copied = Plus(c, Last(len))
  PROVE  Again(d, len) /\ d.copied \in [Lines -> 0..2]
<1>1. KeptLines \in Nat /\ TailLines \in Nat /\ \A l \in Lines : l \in Nat
  BY SparkAssumption DEF Lines
<1>2. ASSUME NEW l \in Lines
      PROVE  /\ d.copied[l] \in 0..2
             /\ l <= len /\ d.copied[l] = 0 => l + KeptLines <= len \/ (l > d.cut /\ l + TailLines <= len)
             /\ d.copied[l] = 2 => l <= d.cut /\ l + TailLines > len
  <2>1. l \in Last(len) <=> l <= len /\ l + TailLines > len /\ l + KeptLines > len
    BY DEF Last, Newest
  <2>2. d.copied[l] = IF l \in Last(len) THEN c.copied[l] + 1 ELSE c.copied[l]
    BY DEF Plus
  <2>3. /\ c.copied[l] \in {0, 1} /\ (l > d.cut => c.copied[l] = 0)
        /\ (l <= d.cut /\ l + KeptLines > len => c.copied[l] = 1)
    BY DEF Once
  <2>4. l \in Nat
    BY <1>1
  <2>5. CASE l \in Last(len)
    BY <1>1, <2>1, <2>2, <2>3, <2>4, <2>5
  <2>6. CASE l \notin Last(len)
    BY <1>1, <2>1, <2>2, <2>3, <2>4, <2>6
  <2> QED BY <2>5, <2>6
<1>3. d.copied \in [Lines -> 0..2]
  <2>1. d.copied = [l \in Lines |-> d.copied[l]]
    BY DEF Plus
  <2> QED BY <1>2, <2>1
<1> QED BY <1>2, <1>3 DEF Again, Once

\* The client reads the log, or loses its place in it.
LEMMA PollStep ==
  ASSUME SInv, Poll
  PROVE  SInv'
<1> DEFINE x == apps[cli.id]
<1>0. /\ cli.id \in 1..Len(apps) /\ Shape(cli, Len(apps)) /\ Story(cli, x)
      /\ cli.pc = "poll" /\ at = "job"
  BY DEF SInv, Clients, Poll, Client, Story, Shape
<1>1. x.len \in Nat /\ x.len <= MaxLog + 1 /\ MaxLog \in Nat /\ NoCursor = MaxLog + 2
  BY <1>0, RowFacts, SparkAssumption DEF SInv, NoCursor
<1>2. /\ Copying(cli, x.len) /\ ~cli.ok
      /\ cli.offset \in Nat /\ cli.cut \in Nat /\ cli.copied \in [Lines -> 0..2]
  BY <1>0, <1>1 DEF Story, Shape
<1>3. PICK d : d = cli'
  OBVIOUS
<1>4. \/ /\ Turned(cli, d, "state") /\ d.offset = cli.offset /\ d.cut = cli.cut /\ Same(cli, d)
      \/ /\ Turned(cli, d, "state") /\ d.offset = x.len /\ d.cut = cli.cut /\ cli.offset # NoCursor
         /\ d.copied = Plus(cli, Rest(cli, x.len))
      \/ /\ Turned(cli, d, "state") /\ d.offset = NoCursor /\ d.cut = cli.offset /\ Same(cli, d)
         /\ cli.offset # NoCursor
  <2>1. PICK c \in IF cli.offset = NoCursor THEN {cli} ELSE {Polled(cli), CursorLost(cli)} :
          d = [c EXCEPT !.pc = "state"]
    BY <1>3 DEF Poll
  <2>2. CASE c = cli
    BY <1>0, <2>1, <2>2 DEF Turned, Same, Shape
  <2>3. CASE c = Polled(cli) /\ cli.offset # NoCursor
    <3>1. Moved(cli, c, x.len, cli.cut) /\ c.copied = Plus(cli, Rest(cli, x.len))
      BY <1>0, <2>3, PolledParts
    <3> QED BY <2>1, <2>3, <3>1 DEF Turned, Moved
  <2>4. CASE c = CursorLost(cli) /\ cli.offset # NoCursor
    BY <1>0, <2>1, <2>4 DEF Turned, Same, Shape, CursorLost
  <2> QED BY <2>1, <2>2, <2>3, <2>4
<1>5. Turned(cli, d, "state")
  BY <1>4
<1>6. Shape(d, Len(apps)) /\ Copying(d, x.len)
  <2>1. CASE d.offset = cli.offset /\ d.cut = cli.cut /\ Same(cli, d)
    BY <1>0, <1>2, <1>5, <2>1 DEF Shape, Turned, Same, Copying, Once
  <2>2. CASE /\ d.offset = x.len /\ d.cut = cli.cut /\ cli.offset # NoCursor
             /\ d.copied = Plus(cli, Rest(cli, x.len))
    <3>1. Once(cli, cli.offset, x.len)
      BY <1>2, <2>2 DEF Copying
    <3>2. Once(d, x.len, x.len) /\ d.copied \in [Lines -> 0..2]
      BY <1>1, <1>2, <2>2, <3>1, RestOnce
    <3>3. d.offset # NoCursor /\ d.offset \in 0..NoCursor
      BY <1>1, <2>2
    <3> QED BY <1>0, <1>1, <1>5, <2>2, <3>2, <3>3 DEF Shape, Turned, Copying
  <2>3. CASE /\ d.offset = NoCursor /\ d.cut = cli.offset /\ Same(cli, d) /\ cli.offset # NoCursor
    BY <1>0, <1>1, <1>2, <1>5, <2>3 DEF Shape, Turned, Same, Copying, Once
  <2> QED BY <1>4, <2>1, <2>2, <2>3
<1>7. Story(d, x)
  BY <1>0, <1>2, <1>5, <1>6 DEF Story, Turned
<1> QED BY <1>0, <1>3, <1>5, <1>6, <1>7, ClientStep DEF Turned, Poll, SInv, Tracking

\* The rest of the log when the application has ended.
LEMMA FinishStep ==
  ASSUME SInv, Finish
  PROVE  SInv'
<1> DEFINE x == apps[cli.id]
<1>0. /\ cli.id \in 1..Len(apps) /\ Shape(cli, Len(apps)) /\ Story(cli, x)
      /\ cli.pc = "finish" /\ at = "job"
  BY DEF SInv, Clients, Finish, Client, Story, Shape
<1>1. x.len \in Nat /\ x.len <= MaxLog + 1 /\ MaxLog \in Nat /\ NoCursor = MaxLog + 2
  BY <1>0, RowFacts, SparkAssumption DEF SInv, NoCursor
<1>2. /\ Copying(cli, x.len) /\ ~cli.ok
      /\ cli.offset \in Nat /\ cli.cut \in Nat /\ cli.copied \in [Lines -> 0..2]
  BY <1>0, <1>1 DEF Story, Shape
<1>3. PICK d : d = cli'
  OBVIOUS
<1>4. /\ Turned(cli, d, "conclude")
      /\ \/ cli.offset # NoCursor /\ d.offset = x.len /\ d.cut = cli.cut /\ d.copied = Plus(cli, Rest(cli, x.len))
         \/ /\ d.offset = NoCursor /\ d.cut = IF cli.offset = NoCursor THEN cli.cut ELSE cli.offset
            /\ Same(cli, d) \/ d.copied = Plus(cli, Last(x.len))
  <2> DEFINE kept == IF cli.offset = NoCursor THEN cli ELSE CursorLost(cli)
  <2>1. PICK c \in Finished(cli) : d = [c EXCEPT !.pc = "conclude"]
    BY <1>3 DEF Finish
  <2>2. \/ c = Polled(cli) /\ cli.offset # NoCursor
        \/ c = kept
        \/ c = Emit(kept, Last(x.len))
    BY <2>1 DEF Finished, LastLines, KeptLog, Last
  <2>3. CASE c = Polled(cli) /\ cli.offset # NoCursor
    <3>1. Moved(cli, c, x.len, cli.cut) /\ c.copied = Plus(cli, Rest(cli, x.len))
      BY <1>0, <2>3, PolledParts
    <3> QED BY <2>1, <2>3, <3>1 DEF Turned, Moved
  <2>4. PICK e : e = kept
    OBVIOUS
  <2>5. /\ DOMAIN e = DOMAIN cli /\ e.pc = cli.pc /\ e.copied = cli.copied
        /\ e.outages = cli.outages /\ e.id = cli.id /\ e.state = cli.state /\ e.ok = cli.ok
        /\ e.offset = NoCursor /\ e.cut = IF cli.offset = NoCursor THEN cli.cut ELSE cli.offset
    BY <1>0, <2>4 DEF CursorLost, Shape
  <2>6. CASE c = e
    BY <1>0, <2>1, <2>5, <2>6 DEF Turned, Same, Shape
  <2>7. CASE c = Emit(e, Last(x.len))
    <3>1. Shape(e, Len(apps))
      BY <1>0, <1>1, <1>2, <2>5 DEF Shape
    <3>2. Moved(e, c, e.offset, e.cut) /\ c.copied = Plus(e, Last(x.len))
      BY <2>7, <3>1, EmitParts
    <3>3. Plus(e, Last(x.len)) = Plus(cli, Last(x.len))
      BY <2>5 DEF Plus
    <3> QED BY <2>1, <2>5, <3>2, <3>3 DEF Turned, Moved
  <2> QED BY <2>2, <2>3, <2>4, <2>6, <2>7
<1>6. Shape(d, Len(apps)) /\ Printed(d, x.len)
  <2>1. CASE cli.offset # NoCursor /\ d.offset = x.len /\ d.cut = cli.cut /\ d.copied = Plus(cli, Rest(cli, x.len))
    <3>1. Once(cli, cli.offset, x.len)
      BY <1>2, <2>1 DEF Copying
    <3>2. Once(d, x.len, x.len) /\ d.copied \in [Lines -> 0..2]
      BY <1>1, <1>2, <2>1, <3>1, RestOnce
    <3>3. d.offset # NoCursor /\ d.offset \in 0..NoCursor
      BY <1>1, <2>1
    <3> QED BY <1>0, <1>1, <1>4, <2>1, <3>2, <3>3 DEF Shape, Turned, Copying, Printed
  <2>2. CASE /\ d.offset = NoCursor /\ d.cut = IF cli.offset = NoCursor THEN cli.cut ELSE cli.offset
             /\ Same(cli, d) \/ d.copied = Plus(cli, Last(x.len))
    <3>1. Once(cli, d.cut, x.len) /\ d.cut \in Nat /\ d.cut <= x.len
      BY <1>2, <2>2 DEF Copying, Once
    <3>2. ASSUME d.copied \in [Lines -> 0..2] PROVE Shape(d, Len(apps))
      BY <1>0, <1>1, <1>4, <2>2, <3>1, <3>2 DEF Shape, Turned
    <3>3. CASE Same(cli, d)
      BY <1>2, <2>2, <3>1, <3>2, <3>3 DEF Same, Once, Printed, Copying
    <3>4. CASE d.copied = Plus(cli, Last(x.len))
      <4>1. Again(d, x.len) /\ d.copied \in [Lines -> 0..2]
        BY <1>1, <2>2, <3>1, <3>4, LastAgain
      <4> QED BY <3>2, <4>1 DEF Printed
    <3> QED BY <2>2, <3>3, <3>4
  <2> QED BY <1>4, <2>1, <2>2
<1>7. Story(d, x)
  BY <1>0, <1>2, <1>4, <1>6 DEF Story, Turned
<1> QED BY <1>0, <1>3, <1>4, <1>6, <1>7, ClientStep DEF Turned, Finish, SInv, Tracking

\* The client looks at the state, concludes, or gives up.
LEMMA LookStep ==
  ASSUME SInv, GetState \/ Conclude \/ PollRaises \/ SubmitRefused
  PROVE  SInv'
<1> DEFINE x == apps[cli.id]
<1>0. /\ Shape(cli, Len(apps)) /\ Story(cli, x) /\ at = "job" /\ cli.ok \in BOOLEAN
      /\ pipe \in Seq(Said(cli.id)) /\ (cli.id = 0 => pipe = <<>>)
  BY DEF SInv, Clients, Tracking, GetState, Conclude, PollRaises, SubmitRefused, Client, Shape
<1>1. PICK d : d = cli'
  OBVIOUS
<1>2. ASSUME DOMAIN d = DOMAIN cli, d.outages = cli.outages, d.id = cli.id, d.offset = cli.offset,
             d.cut = cli.cut, d.copied = cli.copied
      PROVE  /\ d.ok \in BOOLEAN /\ d.pc \in {"poll", "finish", "exit"} => Shape(d, Len(apps))
             /\ \A len : Copying(cli, len) => Copying(d, len)
             /\ \A len : Printed(cli, len) => Printed(d, len)
  BY <1>0, <1>2 DEF Shape, Copying, Printed, Once, Again
<1>3. CASE GetState
  <2>0. /\ cli.pc = "state" /\ cli.id \in 1..Len(apps) /\ Copying(cli, x.len) /\ ~cli.ok /\ cli.id # 0
    BY <1>0, <1>3 DEF GetState, Client, Story, Shape
  <2>1. x.state \in States /\ cli.id \in Nat
    BY <2>0, RowFacts DEF SInv
  <2>2. CASE cli' = [cli EXCEPT !.pc = "poll"] /\ pipe' = pipe
    <3>1. /\ DOMAIN d = DOMAIN cli /\ d.outages = cli.outages /\ d.id = cli.id /\ d.offset = cli.offset
          /\ d.cut = cli.cut /\ d.copied = cli.copied /\ d.pc = "poll" /\ d.ok = cli.ok
      BY <1>0, <1>1, <2>2 DEF Shape
    <3>2. Shape(d, Len(apps)) /\ Story(d, x)
      BY <1>0, <1>2, <2>0, <3>1 DEF Story
    <3> QED BY <1>0, <1>1, <1>3, <2>2, <3>1, <3>2, ClientStep DEF GetState
  <2>3. CASE /\ cli' = [cli EXCEPT !.pc = IF Over(x.state) THEN "finish" ELSE "poll", !.state = x.state]
             /\ pipe' = IF x.state = cli.state THEN pipe
                        ELSE Append(pipe, [event |-> "state", id |-> cli.id, state |-> x.state])
    <3>0. PICK pc \in {"finish", "poll"} : pc = IF Over(x.state) THEN "finish" ELSE "poll"
      OBVIOUS
    <3>1. /\ DOMAIN d = DOMAIN cli /\ d.outages = cli.outages /\ d.id = cli.id /\ d.offset = cli.offset
          /\ d.cut = cli.cut /\ d.copied = cli.copied /\ d.pc = pc /\ d.ok = cli.ok /\ d.state = x.state
      BY <1>0, <1>1, <2>3, <3>0 DEF Shape
    <3>2. pc = "finish" => x.state \in TERMINAL
      BY <3>0 DEF Over, TERMINAL
    <3>3. Shape(d, Len(apps)) /\ Story(d, x)
      BY <1>0, <1>2, <2>0, <3>1, <3>2 DEF Story
    <3>4. [event |-> "state", id |-> cli.id, state |-> x.state] \in Said(cli.id)
      BY <2>1 DEF Said
    <3>5. pipe' \in Seq(Said(cli.id))
      BY <1>0, <2>3, <3>4, AppendProperties
    <3> QED BY <1>0, <1>1, <1>3, <2>0, <3>1, <3>3, <3>5, ClientStep DEF GetState
  <2> QED BY <1>3, <2>2, <2>3 DEF GetState
<1>4. CASE Conclude
  <2>0. /\ cli.pc = "conclude" /\ cli.id # 0 /\ Printed(cli, x.len) /\ ~cli.ok /\ cli.state = x.state
    BY <1>0, <1>4 DEF Conclude, Client, Story
  <2>1. PICK k : k = output
    OBVIOUS
  <2>2. k \in BOOLEAN
    BY <2>1, Zenon DEF output
  <2>3. k => x.state = "succeeded" /\ cli.copied[x.len] > 0
    BY <2>0, <2>1 DEF output
  <2>4. /\ DOMAIN d = DOMAIN cli /\ d.outages = cli.outages /\ d.id = cli.id /\ d.offset = cli.offset
        /\ d.cut = cli.cut /\ d.copied = cli.copied /\ d.pc = "exit" /\ d.ok = k
    BY <1>0, <1>1, <1>4, <2>1 DEF Conclude, Shape
  <2>5. Shape(d, Len(apps)) /\ Story(d, x)
    BY <1>2, <2>0, <2>2, <2>3, <2>4 DEF Story
  <2> QED BY <1>0, <1>1, <1>4, <2>0, <2>4, <2>5, ClientStep DEF Conclude
<1>5. CASE PollRaises \/ SubmitRefused
  <2>1. cli' = [cli EXCEPT !.pc = "exit"] /\ cli.pc \in {"poll", "finish", "submit"}
    BY <1>5 DEF PollRaises, SubmitRefused, Fail, Client
  <2>2. ~cli.ok
    BY <1>0, <2>1 DEF Story
  <2>4. /\ DOMAIN d = DOMAIN cli /\ d.outages = cli.outages /\ d.id = cli.id /\ d.offset = cli.offset
        /\ d.cut = cli.cut /\ d.copied = cli.copied /\ d.pc = "exit" /\ d.ok = cli.ok
    BY <1>0, <1>1, <2>1 DEF Shape
  <2>5. Shape(d, Len(apps)) /\ Story(d, x)
    BY <1>0, <1>2, <2>2, <2>4 DEF Story
  <2> QED BY <1>0, <1>1, <1>5, <2>4, <2>5, ClientStep DEF PollRaises, SubmitRefused
<1> QED BY <1>3, <1>4, <1>5

\* A POST, whether or not its answer arrives.  The one new application it may
\* add is this attempt's: every older one has ended or is forgotten.
LEMMA PostStep ==
  ASSUME SInv, at = "job", cli.pc = "submit", apps' = apps \/ apps' = Posted(n),
         Shape(cli', Len(apps')), Story(cli', apps'[cli'.id]), cli'.id # 0 => apps'[cli'.id].key = n,
         pipe' \in Seq(Said(cli'.id)), cli'.id = 0 => pipe' = <<>>,
         UNCHANGED <<n, at, mem, prev, trk, cancel, result, forgotten>>
  PROVE  SInv'
<1>0. /\ Stages /\ Rows(apps, n) /\ Tracking /\ Clients /\ Followed /\ Alone
      /\ n \in Nat \ {0} /\ cli.id = 0
  BY SparkAssumption DEF SInv, Stages, Clients, Story
<1>1. /\ Rows(apps', n) /\ Len(apps) <= Len(apps')
      /\ \A i \in 1..Len(apps) : apps'[i] = apps[i]
      /\ \A i \in 1..Len(apps') : i > Len(apps) => /\ i = Len(apps) + 1 /\ apps'[i].key = n
                                                   /\ \A j \in 1..Len(apps) : apps[j].key # n
  <2>1. PICK bs : bs = apps'
    OBVIOUS
  <2>2. CASE bs = Posted(n)
    BY <1>0, <2>1, <2>2, RowPosted
  <2>3. CASE apps' = apps
    <3>1. Len(apps) \in Nat
      BY <1>0, RowFacts
    <3> QED BY <1>0, <2>3, <3>1
  <2> QED BY <2>1, <2>2, <2>3
<1>2. /\ DOMAIN apps = 1..Len(apps) /\ Len(apps) \in Nat
      /\ DOMAIN apps' = 1..Len(apps') /\ Len(apps') \in Nat
  BY <1>0, <1>1, RowFacts
<1>3. \A i \in DOMAIN apps' : i \in DOMAIN apps \/ i = Len(apps) + 1
  BY <1>1, <1>2
<1>4. Stages'
  BY <1>0, <1>1, <1>2 DEF Stages
<1>5. Rows(apps, n)'
  BY <1>1 DEF Rows
<1>6. Clients'
  BY <1>0 DEF Clients
<1>7. Tracking'
  BY <1>0 DEF Tracking, Said
<1>8. \A i \in DOMAIN apps' : Live(i)' /\ i \notin forgotten => apps'[i].key = n
  BY <1>0, <1>1, <1>2, <1>3 DEF Followed, Live
<1>9. Followed'
  BY <1>8 DEF Followed
<1>10. Alone'
  <2> SUFFICES ASSUME NEW i \in DOMAIN apps', NEW j \in DOMAIN apps', i < j, Live(i)', Live(j)',
                      i \notin forgotten
               PROVE  FALSE
    BY DEF Alone
  <2>1. apps'[i].key = n /\ (j \in DOMAIN apps => i \in DOMAIN apps)
    BY <1>2, <1>8
  <2>2. CASE j \in DOMAIN apps
    BY <1>0, <1>1, <1>2, <2>1, <2>2 DEF Alone, Live
  <2>3. CASE j \notin DOMAIN apps
    <3>1. j > Len(apps) /\ j = Len(apps) + 1 /\ i \in 1..Len(apps)
      BY <1>2, <1>3, <2>3
    <3> QED BY <1>1, <1>2, <2>1, <3>1
  <2> QED BY <2>2, <2>3
<1> QED BY <1>4, <1>5, <1>6, <1>7, <1>9, <1>10 DEF SInv

\* The POST of a submission, answered or lost.
LEMMA SubmitSteps ==
  ASSUME SInv, Submit \/ SubmitOutage
  PROVE  SInv'
<1>0. /\ Rows(apps, n) /\ Shape(cli, Len(apps)) /\ cli.pc = "submit" /\ at = "job"
      /\ n \in Nat \ {0} /\ cli.id = 0 /\ cli.offset = 0 /\ (\A l \in Lines : cli.copied[l] = 0) /\ ~cli.ok
      /\ cli.ok \in BOOLEAN /\ cli.outages \in 0..MaxOutages /\ MaxOutages \in Nat
      /\ pipe = <<>> /\ pipe \in Seq(Said(cli.id))
  BY SparkAssumption DEF SInv, Stages, Tracking, Clients, Shape, Story, Submit, SubmitOutage, Client
<1>1. PICK bs : bs = apps'
  OBVIOUS
<1>2. bs = apps \/ bs = Posted(n)
  BY <1>1 DEF Submit, SubmitOutage, key
<1>3. /\ Rows(bs, n) /\ Len(apps) <= Len(bs) /\ Len(bs) \in Nat /\ Len(apps) \in Nat
      /\ DOMAIN bs = 1..Len(bs) /\ DOMAIN apps = 1..Len(apps)
      /\ \A i \in 1..Len(apps) : bs[i] = apps[i]
      /\ \A i \in 1..Len(bs) : i > Len(apps) => bs[i].key = n
  <2>1. CASE bs = apps
    BY <1>0, <2>1, RowFacts
  <2>2. CASE bs = Posted(n)
    BY <1>0, <2>2, RowPosted, RowFacts
  <2> QED BY <1>2, <2>1, <2>2
<1>4. PICK d : d = cli'
  OBVIOUS
<1>5. CASE SubmitOutage
  <2>1. \/ cli.outages < MaxOutages /\ cli' = [cli EXCEPT !.outages = @ + 1]
        \/ cli' = [cli EXCEPT !.pc = "exit"]
    BY <1>5 DEF SubmitOutage, Fail
  <2>2. /\ DOMAIN d = DOMAIN cli /\ d.id = 0 /\ d.offset = cli.offset /\ d.state = cli.state
        /\ d.cut = cli.cut /\ d.copied = cli.copied /\ d.pc \in {"submit", "exit"} /\ d.ok = cli.ok
        /\ d.outages \in 0..MaxOutages
    BY <1>0, <1>4, <2>1 DEF Shape
  <2>3. Shape(d, Len(bs)) /\ Story(d, bs[d.id])
    BY <1>0, <1>3, <2>2 DEF Shape, Story
  <2>4. d.id = cli.id /\ pipe' = pipe
    BY <1>0, <1>5, <2>2 DEF SubmitOutage
  <2> QED BY <1>0, <1>1, <1>2, <1>4, <1>5, <2>2, <2>3, <2>4, PostStep DEF SubmitOutage
<1>6. CASE Submit
  <2>1. PICK id : id = IF Ids(n) # {} THEN CHOOSE i \in Ids(n) : TRUE ELSE Len(apps) + 1
    OBVIOUS
  <2>2. id \in 1..Len(bs) /\ bs[id].key = n
    <3>1. CASE Ids(n) # {}
      <4>1. id \in Ids(n)
        BY <2>1, <3>1
      <4> QED BY <1>3, <4>1 DEF Ids
    <3>2. CASE Ids(n) = {}
      <4>1. bs = Posted(n)
        BY <1>1, <1>6 DEF Submit, key
      <4>2. bs = Append(apps, [key |-> n, state |-> "pending", stop |-> FALSE, len |-> 0])
        BY <3>2, <4>1 DEF Posted
      <4>3. Len(bs) = Len(apps) + 1
        BY <1>0, <4>2 DEF Rows
      <4> QED BY <1>3, <2>1, <3>2, <4>3
    <3> QED BY <3>1, <3>2
  <2> DEFINE x == bs[id]
  <2>3. x.state \in States /\ x.len \in Nat /\ id \in Nat /\ id # 0
    BY <1>3, <2>2, RowFacts, SparkAssumption
  <2>4. PICK pc \in {"finish", "poll"} : pc = IF Over(x.state) THEN "finish" ELSE "poll"
    OBVIOUS
  <2>5. /\ cli' = [cli EXCEPT !.pc = pc, !.id = id, !.state = x.state]
        /\ pipe' = Append(pipe, [event |-> "submitted", id |-> id, state |-> x.state])
    BY <1>1, <1>6, <2>1, <2>4 DEF Submit, key
  <2>6. /\ DOMAIN d = DOMAIN cli /\ d.id = id /\ d.offset = cli.offset /\ d.state = x.state
        /\ d.cut = cli.cut /\ d.copied = cli.copied /\ d.pc = pc /\ d.ok = cli.ok
        /\ d.outages = cli.outages
    BY <1>0, <1>4, <2>5 DEF Shape
  <2>7. pc = "finish" => x.state \in TERMINAL
    BY <2>4 DEF Over, TERMINAL
  <2>8. Copying(d, x.len)
    <3>1. d.offset = 0 /\ d.offset # NoCursor /\ \A l \in Lines : d.copied[l] = 0 /\ ~(l <= 0)
      BY <1>0, <2>6, SparkAssumption DEF NoCursor, Lines
    <3>2. 0 <= x.len
      BY <2>3
    <3> HIDE DEF x
    <3> QED BY <3>1, <3>2 DEF Copying, Once
  <2>9. Shape(d, Len(bs)) /\ Story(d, x)
    BY <1>0, <1>3, <2>2, <2>3, <2>6, <2>7, <2>8 DEF Shape, Story
  <2>10. [event |-> "submitted", id |-> id, state |-> x.state] \in Said(id)
    BY <2>3 DEF Said
  <2>11. pipe' \in Seq(Said(id))
    <3>1. <<>> \in Seq(Said(id))
      BY EmptySeq
    <3> QED BY <1>0, <2>5, <2>10, <3>1, AppendProperties
  <2> QED BY <1>0, <1>1, <1>2, <1>4, <1>6, <2>2, <2>3, <2>6, <2>9, <2>11, PostStep DEF Submit
<1> QED BY <1>5, <1>6

-----------------------------------------------------------------------------
(* The runner.                                                              *)

\* An attempt begins: no client, and nothing on its way from it.
LEMMA FreshClient ==
  ASSUME NEW c, c \in {NoClient, [NoClient EXCEPT !.pc = "submit"]}, NEW m \in Nat, NEW x
  PROVE  Shape(c, m) /\ Story(c, x) /\ c.id = 0
<1>1. /\ DOMAIN c = {"pc", "outages", "id", "state", "offset", "cut", "copied", "ok"}
      /\ c.pc \in {"none", "submit"} /\ c.outages = 0 /\ c.id = 0 /\ c.offset = 0 /\ c.cut = 0
      /\ c.copied = [l \in Lines |-> 0] /\ c.ok = FALSE
  BY DEF NoClient
<1>2. c.copied \in [Lines -> 0..2] /\ \A l \in Lines : c.copied[l] = 0
  BY <1>1
<1>3. 0 \in 0..NoCursor /\ 0 \in 0..MaxOutages /\ 0 \in 0..m
  BY SparkAssumption DEF NoCursor
<1> QED BY <1>1, <1>2, <1>3 DEF Shape, Story

\* The steps before the attempt's Job: from one application at most that is
\* still followed to none.
LEMMA RunnerSteps ==
  ASSUME SInv, Cancel \/ Run \/ GiveUp \/ NotEnded \/ HasEnded
  PROVE  SInv'
<1>0. /\ Stages /\ Rows(apps, n) /\ Tracking /\ Clients /\ Followed /\ Alone
      /\ DOMAIN apps = 1..Len(apps) /\ Len(apps) \in Nat /\ MaxAttempts \in Nat
      /\ n \in Nat /\ n <= MaxAttempts
  BY RowFacts, SparkAssumption DEF SInv, Stages
<1>1. UNCHANGED <<pipe, trk, apps>> /\ \A i \in DOMAIN apps : Live(i)' = Live(i)
  BY DEF Cancel, Run, GiveUp, NotEnded, HasEnded, Live
<1>2. CASE Cancel
  <2>1. Stages' /\ Rows(apps, n)'
    BY <1>0, <1>2 DEF Stages, Cancel, Rows
  <2>2. Tracking' /\ Clients'
    BY <1>0, <1>2 DEF Tracking, Clients, Cancel, Said, Shape, Story
  <2>3. Followed' /\ Alone'
    BY <1>0, <1>1, <1>2 DEF Followed, Alone, Cancel
  <2> QED BY <2>1, <2>2, <2>3 DEF SInv
<1>3. CASE GiveUp
  <2>1. Stages' /\ Rows(apps, n)'
    BY <1>0, <1>3 DEF Stages, GiveUp, Rows
  <2>2. Tracking' /\ Clients'
    BY <1>0, <1>3 DEF Tracking, Clients, GiveUp, Said, Shape, Story
  <2>3. Followed' /\ Alone'
    BY <1>0, <1>1, <1>3 DEF Followed, Alone, GiveUp
  <2> QED BY <2>1, <2>2, <2>3 DEF SInv
<1>4. CASE NotEnded
  <2>0. prev \in DOMAIN apps /\ cli' = cli /\ mem = 0
    BY <1>0, <1>4 DEF NotEnded, Stages
  <2>1. Stages' /\ Rows(apps, n)'
    BY <1>0, <1>4, <2>0 DEF Stages, NotEnded, Rows
  <2>2. Tracking' /\ Clients'
    BY <1>0, <1>4 DEF Tracking, Clients, NotEnded, Said, Shape, Story
  <2>3. Followed' /\ Alone'
    BY <1>0, <1>1, <1>4 DEF Followed, Alone, NotEnded
  <2> QED BY <2>1, <2>2, <2>3 DEF SInv
<1>5. ASSUME at \in {"idle", "wait"}, n' \in {n, n + 1}, n' \in 1..MaxAttempts, apps' = apps,
             at' = "job", mem' = 0, prev' \in 0..Len(apps),
             cli' = [NoClient EXCEPT !.pc = "submit"], UNCHANGED <<trk, pipe, cancel, forgotten>>,
             result' \in {"none", result}, \A i \in DOMAIN apps : Live(i) => i \in forgotten
      PROVE  SInv'
  <2>1. PICK c : c = cli'
    OBVIOUS
  <2>2. Shape(c, Len(apps)) /\ Story(c, apps[c.id]) /\ c.id = 0
    BY <1>0, <1>5, <2>1, FreshClient
  <2>3. result' # "output" /\ result' \in {"none", "failed", "canceled"}
    BY <1>0, <1>5 DEF Stages
  <2>4. Stages'
    BY <1>0, <1>5, <2>3 DEF Stages
  <2>5. Rows(apps, n)'
    <3>1. \A i \in 1..Len(apps) : apps[i].key \in Nat /\ apps[i].key <= n
      BY <1>0, RowFacts
    <3>2. \A i \in 1..Len(apps) : apps[i].key <= n'
      BY <1>0, <1>5, <3>1
    <3> QED BY <1>0, <1>5, <3>2 DEF Rows
  <2>6. Clients'
    BY <1>5, <2>1, <2>2 DEF Clients
  <2>7. Tracking'
    <3>1. trk = NoTracker /\ pipe = <<>>
      BY <1>0, <1>5 DEF Stages
    <3>2. pipe' \in Seq(Said(c.id))
      BY <1>5, <3>1, EmptySeq
    <3>3. DOMAIN trk = {"app", "state", "ran"} /\ trk.app = 0 /\ trk.ran = FALSE
      BY <3>1 DEF NoTracker
    <3> QED BY <1>5, <2>1, <2>2, <3>1, <3>2, <3>3 DEF Tracking, Said
  <2>8. Followed' /\ Alone'
    BY <1>0, <1>1, <1>5 DEF Followed, Alone
  <2> QED BY <2>4, <2>5, <2>6, <2>7, <2>8 DEF SInv
<1>6. CASE HasEnded
  <2>1. \A i \in DOMAIN apps : Live(i) => i \in forgotten
    BY <1>0, <1>6 DEF HasEnded, Followed
  <2>2. n \in 1..MaxAttempts /\ mem = 0 /\ prev \in 0..Len(apps)
    BY <1>0, <1>6 DEF Stages, HasEnded
  <2> QED BY <1>5, <1>6, <2>1, <2>2 DEF HasEnded, Start
<1>7. CASE Run
  <2>1. n' = n + 1 /\ n' \in 1..MaxAttempts /\ mem \in 0..Len(apps) /\ at = "idle" /\ ~cancel
    BY <1>0, <1>7 DEF Run, Stages
  <2>2. CASE mem = 0
    <3>1. \A i \in DOMAIN apps : Live(i) => i \in forgotten
      BY <1>0, <2>1, <2>2 DEF Followed
    <3> QED BY <1>5, <1>7, <2>1, <2>2, <3>1 DEF Run
  <2>3. CASE mem # 0
    <3>0. cli = NoClient /\ cli' = NoClient /\ trk = NoTracker /\ pipe = <<>>
      BY <1>0, <1>7, <2>1, <2>3 DEF Stages, Run
    <3>1. Stages'
      BY <1>0, <1>7, <2>1, <2>3, <3>0 DEF Stages, Run
    <3>2. Rows(apps, n)'
      <4>1. \A i \in 1..Len(apps) : apps[i].key \in Nat /\ apps[i].key <= n
        BY <1>0, RowFacts
      <4>2. \A i \in 1..Len(apps) : apps[i].key <= n'
        BY <1>0, <2>1, <4>1
      <4> QED BY <1>0, <1>1, <4>2 DEF Rows
    <3>3. Clients'
      <4>1. cli.id = 0
        BY <3>0 DEF NoClient
      <4> QED BY <1>0, <1>1, <3>0, <4>1 DEF Clients
    <3>4. Tracking'
      BY <1>0, <1>1, <3>0 DEF Tracking, Said
    <3>5. Followed' /\ Alone'
      BY <1>0, <1>1, <1>7, <2>1, <2>3 DEF Followed, Alone, Run
    <3> QED BY <3>1, <3>2, <3>3, <3>4, <3>5 DEF SInv
  <2> QED BY <2>2, <2>3
<1> QED BY <1>2, <1>3, <1>4, <1>6, <1>7

\* _ensure_ended's first look: the application has ended, or is asked to.
LEMMA EnsureStep ==
  ASSUME SInv, EnsureEnded
  PROVE  SInv'
<1>0. /\ Stages /\ Rows(apps, n) /\ Tracking /\ Clients /\ Followed /\ Alone
      /\ DOMAIN apps = 1..Len(apps) /\ Len(apps) \in Nat
      /\ n \in 1..MaxAttempts /\ mem = 0 /\ prev \in DOMAIN apps /\ at = "check"
      /\ trk = NoTracker /\ pipe = <<>> /\ cli = NoClient
  BY RowFacts, SparkAssumption DEF SInv, Stages, EnsureEnded
<1>1. CASE Live(prev)
  <2>1. PICK x : x = [apps[prev] EXCEPT !.stop = TRUE]
    OBVIOUS
  <2>2. apps[prev] \in Application
    BY <1>0, RowFacts
  <2>3. x \in Application /\ x.key = apps[prev].key /\ x.state = apps[prev].state /\ x.len = apps[prev].len
    BY <2>1, <2>2 DEF Application
  <2>4. apps' = [apps EXCEPT ![prev] = x] /\ at' = "wait" /\ cli' = cli
    BY <1>1, <2>1 DEF EnsureEnded, StopApp
  <2>5. PICK bs : bs = [apps EXCEPT ![prev] = x]
    OBVIOUS
  <2>6. x.state # "succeeded" => x.len <= MaxLog
    BY <1>0, <2>3, RowFacts
  <2>7. /\ Rows(bs, n) /\ Len(bs) = Len(apps) /\ DOMAIN bs = DOMAIN apps
        /\ bs[prev] = x /\ \A j \in DOMAIN apps : j # prev => bs[j] = apps[j]
    <3>1. Rows(apps, n) /\ (x.state # "succeeded" => x.len <= MaxLog) /\ x.key = apps[prev].key
      BY <1>0, <2>3, <2>6
    <3>2. prev \in DOMAIN apps
      BY <1>0
    <3>3. x \in Application
      BY <2>3
    <3> QED BY ONLY <3>1, <3>2, <3>3, <2>5, RowChanged, ZenonT(60)
  <2>8. bs = apps'
    BY <2>4, <2>5
  <2>9. \A j \in DOMAIN apps : bs[j].key = apps[j].key /\ bs[j].state = apps[j].state
    BY <2>3, <2>7
  <2>10. \A j \in DOMAIN apps : (Live(j)' <=> Live(j)) /\ apps'[j].key = apps[j].key
    BY <2>8, <2>9 DEF Live
  <2>11. cli.id = 0
    BY <1>0 DEF NoClient
  <2>12. Stages'
    BY <1>0, <2>4, <2>7, <2>8 DEF Stages, EnsureEnded
  <2>13. Rows(apps, n)'
    BY <2>7, <2>8 DEF EnsureEnded, Rows
  <2>14. Clients'
    <3>1. Story(cli, bs[cli.id])
      BY <1>0, <2>11 DEF Clients, Story
    <3> QED BY <1>0, <2>4, <2>7, <2>8, <2>11, <3>1 DEF Clients
  <2>15. Tracking'
    BY <1>0, <2>4 DEF Tracking, Said, EnsureEnded
  <2>16. Followed' /\ Alone'
    BY <1>0, <2>4, <2>7, <2>8, <2>10 DEF Followed, Alone, EnsureEnded
  <2> QED BY <2>12, <2>13, <2>14, <2>15, <2>16 DEF SInv
<1>2. CASE ~Live(prev)
  <2>1. /\ at' = "job" /\ cli' = [NoClient EXCEPT !.pc = "submit"]
        /\ UNCHANGED <<n, mem, prev, trk, pipe, apps, cancel, result, forgotten>>
    BY <1>2 DEF EnsureEnded, Start
  <2>2. PICK c : c = cli'
    OBVIOUS
  <2>3. Shape(c, Len(apps)) /\ Story(c, apps[c.id]) /\ c.id = 0
    BY <1>0, <2>1, <2>2, FreshClient
  <2>4. Stages'
    BY <1>0, <2>1 DEF Stages
  <2>5. Rows(apps, n)'
    BY <1>0, <2>1 DEF Rows
  <2>6. Clients'
    BY <2>1, <2>2, <2>3 DEF Clients
  <2>7. Tracking'
    <3>1. pipe' \in Seq(Said(c.id))
      BY <1>0, <2>1, EmptySeq
    <3>2. DOMAIN trk = {"app", "state", "ran"} /\ trk.app = 0 /\ trk.ran = FALSE
      BY <1>0 DEF NoTracker
    <3> QED BY <1>0, <2>1, <2>2, <2>3, <3>1, <3>2 DEF Tracking, Said
  <2>8. \A i \in DOMAIN apps : Live(i) => i \in forgotten
    BY <1>0, <1>2 DEF Followed
  <2>9. Followed' /\ Alone'
    BY <1>0, <2>1, <2>8 DEF Followed, Alone, Live
  <2> QED BY <2>4, <2>5, <2>6, <2>7, <2>9 DEF SInv
<1> QED BY <1>1, <1>2

\* The tracker hears of the application of this attempt and of no other.
LEMMA EventStep ==
  ASSUME SInv, Event
  PROVE  SInv'
<1>0. /\ Stages /\ Rows(apps, n) /\ Tracking /\ Clients /\ Followed /\ Alone /\ at = "job"
      /\ pipe # <<>> /\ pipe \in Seq(Said(cli.id))
      /\ UNCHANGED <<n, at, mem, prev, cli, apps, cancel, result, forgotten>>
  BY DEF SInv, Event, Tracking
<1>1. PICK ev : ev = Head(pipe)
  OBVIOUS
<1>2. ev \in Said(cli.id) /\ Tail(pipe) \in Seq(Said(cli.id))
  BY <1>0, <1>1, HeadTailProperties
<1>3. ev.id = cli.id
  BY <1>2 DEF Said
<1>4. PICK k : k = (trk.ran \/ (ev.event = "state" /\ ev.state \in {"running", "succeeded"}))
  OBVIOUS
<1>5. k \in BOOLEAN
  BY <1>4, Zenon
<1>6. /\ trk' = [app |-> IF ev.event = "submitted" THEN ev.id ELSE trk.app, state |-> ev.state, ran |-> k]
      /\ pipe' = Tail(pipe)
  BY <1>1, <1>4 DEF Event
<1>7. DOMAIN trk' = {"app", "state", "ran"} /\ trk'.app \in {0, cli.id} /\ trk'.ran = k
  BY <1>0, <1>3, <1>6 DEF Tracking
<1>8. Tracking'
  BY <1>0, <1>2, <1>5, <1>6, <1>7 DEF Tracking, Said
<1>9. Stages' /\ Rows(apps, n)' /\ Clients'
  BY <1>0 DEF Stages, Rows, Clients
<1>10. Followed' /\ Alone'
  BY <1>0 DEF Followed, Alone, Live
<1> QED BY <1>8, <1>9, <1>10 DEF SInv

\* The Job ends: an application the tracker never heard of is forgotten.
LEMMA JobSteps ==
  ASSUME SInv, JobEnds \/ JobLost
  PROVE  SInv'
<1>0. /\ Stages /\ Rows(apps, n) /\ Tracking /\ Clients /\ Followed /\ Alone /\ at = "job"
      /\ DOMAIN apps = 1..Len(apps) /\ cli.ok \in BOOLEAN
      /\ UNCHANGED <<n, mem, prev, trk, apps, cancel>>
      /\ forgotten' = forgotten \cup Untold /\ at' \in {"stop", "over"} /\ pipe' = <<>>
  BY RowFacts DEF SInv, JobEnds, JobLost, Clients, Shape
<1>1. DOMAIN cli = {"pc", "outages", "id", "state", "offset", "cut", "copied", "ok"}
  BY <1>0 DEF Clients, Shape
<1>2. Untold \subseteq DOMAIN apps
  BY DEF Untold
<1>3. PICK d : d = cli'
  OBVIOUS
<1>4. /\ DOMAIN d = DOMAIN cli /\ d.pc = "exit" /\ d.outages = cli.outages /\ d.id = cli.id
      /\ d.state = cli.state /\ d.offset = cli.offset /\ d.cut = cli.cut /\ d.copied = cli.copied
      /\ d.ok = cli.ok
  BY <1>0, <1>1, <1>3 DEF JobEnds, JobLost
<1>5. Shape(d, Len(apps)) /\ Story(d, apps[d.id])
  BY <1>0, <1>4 DEF Clients, Shape, Story, Printed, Copying, Once, Again
<1>6. Clients'
  BY <1>0, <1>3, <1>4, <1>5 DEF Clients
<1>7. Tracking'
  <2>1. pipe' \in Seq(Said(d.id))
    BY <1>0, EmptySeq
  <2> QED BY <1>0, <1>3, <1>4, <2>1 DEF Tracking, Said
<1>8. Stages'
  BY <1>0, <1>2, <1>3, <1>4 DEF Stages, JobEnds, JobLost
<1>9. Rows(apps, n)'
  BY <1>0 DEF Rows
<1>10. Alone'
  BY <1>0 DEF Alone, Live
<1>11. Followed'
  <2> SUFFICES ASSUME NEW i \in DOMAIN apps, Live(i), i \notin forgotten, i \notin Untold
               PROVE  apps[i].key = n /\ i = trk.app
    BY <1>0 DEF Followed, Live
  <2>1. apps[i].key = n
    BY <1>0 DEF Followed
  <2>2. trk.app # 0 /\ trk.app = cli.id
    BY <1>0, <2>1 DEF Untold, Tracking
  <2>3. cli.id \in 1..Len(apps) /\ apps[cli.id].key = n
    BY <1>0, <2>2 DEF Clients, Shape
  <2> QED BY <1>0, <2>1, <2>2, <2>3, RowFacts
<1> QED BY <1>6, <1>7, <1>8, <1>9, <1>10, <1>11 DEF SInv

\* The attempt ends: its application, still followed, is remembered, unless
\* the task was canceled and is not tried again.
LEMMA StopStep ==
  ASSUME SInv, Stop
  PROVE  SInv'
<1>0. /\ Stages /\ Rows(apps, n) /\ Tracking /\ Clients /\ Followed /\ Alone /\ at = "stop"
      /\ DOMAIN apps = 1..Len(apps) /\ Len(apps) \in Nat /\ pipe = <<>>
      /\ UNCHANGED <<n, pipe, cancel, result, forgotten>>
      /\ at' = "idle" /\ prev' = 0 /\ trk' = NoTracker /\ cli' = NoClient
      /\ mem' = IF result = "canceled" THEN 0 ELSE trk.app
  BY RowFacts DEF SInv, Stop, Stages, Remember
<1>1. PICK as : /\ apps' = Unread(as)
                /\ as = apps \/ (trk.app # 0 /\ as = StopApp(trk.app))
  BY DEF Stop
<1>2. trk.app \in 0..Len(apps)
  BY <1>0 DEF Tracking, Clients, Shape
<1>3. /\ Rows(as, n) /\ Len(as) = Len(apps) /\ DOMAIN as = DOMAIN apps
      /\ \A i \in DOMAIN apps : as[i].key = apps[i].key /\ as[i].state = apps[i].state
  <2>1. CASE as = apps
    BY <1>0, <2>1
  <2>2. CASE trk.app # 0 /\ as = StopApp(trk.app)
    <3>0. PICK id : id = trk.app
      OBVIOUS
    <3>1. PICK x : x = [apps[id] EXCEPT !.stop = TRUE]
      OBVIOUS
    <3>2. id \in DOMAIN apps /\ apps[id] \in Application
      BY <1>0, <1>2, <2>2, <3>0, RowFacts
    <3>3. x \in Application /\ x.key = apps[id].key /\ x.state = apps[id].state /\ x.len = apps[id].len
      BY <3>1, <3>2 DEF Application
    <3>4. as = [apps EXCEPT ![id] = x]
      BY <2>2, <3>0, <3>1 DEF StopApp
    <3>5. x.state # "succeeded" => x.len <= MaxLog
      BY <1>0, <3>2, <3>3, RowFacts
    <3>6. Rows(apps, n) /\ (x.state # "succeeded" => x.len <= MaxLog) /\ x.key = apps[id].key
      BY <1>0, <3>3, <3>5
    <3>8. id \in DOMAIN apps
      BY <3>2
    <3>9. x \in Application
      BY <3>3
    <3>7. /\ Rows(as, n) /\ Len(as) = Len(apps) /\ DOMAIN as = DOMAIN apps
          /\ as[id] = x /\ \A j \in DOMAIN apps : j # id => as[j] = apps[j]
      BY ONLY <3>4, <3>6, <3>8, <3>9, RowChanged, ZenonT(60)
    <3> QED BY <3>3, <3>7
  <2> QED BY <1>1, <2>1, <2>2
<1>4. PICK bs : bs = apps'
  OBVIOUS
<1>5. /\ Rows(bs, n) /\ Len(bs) = Len(as) /\ DOMAIN bs = DOMAIN as
      /\ \A i \in DOMAIN as : bs[i].key = as[i].key /\ (bs[i].state \in TERMINAL <=> as[i].state \in TERMINAL)
  BY <1>1, <1>3, <1>4, RowsUnread
<1>6. \A i \in DOMAIN apps : Live(i)' <=> Live(i)
  BY <1>3, <1>4, <1>5 DEF Live
<1>7. Stages'
  BY <1>0, <1>2, <1>3, <1>4, <1>5 DEF Stages
<1>8. Rows(apps, n)'
  BY <1>0, <1>4, <1>5 DEF Rows
<1>9. Clients'
  <2>1. PICK c : c = cli'
    OBVIOUS
  <2>2. c = NoClient
    BY <1>0, <2>1
  <2>3. Shape(c, Len(bs)) /\ Story(c, bs[c.id]) /\ c.id = 0
    BY <1>0, <1>3, <1>5, <2>2, FreshClient
  <2> QED BY <1>4, <2>1, <2>3 DEF Clients
<1>10. Tracking'
  <2>1. pipe' \in Seq(Said(0)) /\ cli'.id = 0
    BY <1>0, EmptySeq DEF NoClient
  <2>2. DOMAIN trk' = {"app", "state", "ran"} /\ trk'.app = 0 /\ trk'.ran = FALSE
    BY <1>0 DEF NoTracker
  <2> QED BY <1>0, <2>1, <2>2 DEF Tracking, Said
<1>11. Alone'
  BY <1>0, <1>3, <1>4, <1>5, <1>6 DEF Alone
<1>12. Followed'
  BY <1>0, <1>3, <1>4, <1>5, <1>6 DEF Followed, Stages
<1> QED BY <1>7, <1>8, <1>9, <1>10, <1>11, <1>12 DEF SInv

-----------------------------------------------------------------------------
(* The theorems.                                                            *)

\* The invariant holds at first.
LEMMA SparkInit == Init => SInv
<1> SUFFICES ASSUME Init PROVE SInv
  OBVIOUS
<1>1. Len(apps) = 0 /\ DOMAIN apps = {} /\ apps \in Seq(Application)
  BY EmptySeq DEF Init
<1>2. Rows(apps, n)
  BY <1>1 DEF Rows
<1>3. Stages
  <2>1. 0 \in 0..MaxAttempts /\ 0 \in 0..Len(apps)
    BY <1>1, SparkAssumption
  <2> QED BY <2>1 DEF Init, Stages
<1>4. Clients
  <2>1. PICK c : c = cli
    OBVIOUS
  <2>2. Shape(c, Len(apps)) /\ Story(c, apps[c.id]) /\ c.id = 0
    BY <1>1, <2>1, FreshClient DEF Init
  <2> QED BY <2>1, <2>2 DEF Clients
<1>5. Tracking
  <2>1. pipe \in Seq(Said(0)) /\ cli.id = 0
    BY EmptySeq DEF Init, NoClient
  <2>2. DOMAIN trk = {"app", "state", "ran"} /\ trk.app = 0 /\ trk.ran = FALSE
    BY DEF Init, NoTracker
  <2> QED BY <2>1, <2>2 DEF Tracking, Init
<1>6. Followed /\ Alone
  BY <1>1 DEF Followed, Alone
<1> QED BY <1>2, <1>3, <1>4, <1>5, <1>6 DEF SInv

\* Every step keeps it.
LEMMA SparkStep == SInv /\ [Next]_vars => SInv'
<1> SUFFICES ASSUME SInv, [Next]_vars PROVE SInv'
  OBVIOUS
<1>1. CASE Runner
  BY <1>1, RunnerSteps, EnsureStep, EventStep, JobSteps, StopStep DEF Runner
<1>2. CASE JobLost \/ Cancel
  BY <1>2, JobSteps, RunnerSteps
<1>3. CASE SparkClient
  BY <1>3, SubmitSteps, LookStep, PollStep, FinishStep DEF SparkClient
<1>4. CASE \E id \in DOMAIN apps : AppRuns(id) \/ AppWrites(id) \/ AppEnds(id)
  BY <1>4, AppSteps
<1>5. CASE UNCHANGED vars
  <2>1. Stages' /\ Rows(apps, n)' /\ Tracking' /\ Clients'
    BY <1>5 DEF SInv, vars, Stages, Rows, Tracking, Said, Clients
  <2>2. Followed' /\ Alone'
    BY <1>5 DEF SInv, vars, Followed, Alone, Live
  <2> QED BY <2>1, <2>2 DEF SInv
<1> QED BY <1>1, <1>2, <1>3, <1>4, <1>5 DEF Next

\* It holds in every reachable state.
LEMMA SparkInvariant == Spec => []SInv
<1> QED BY SparkInit, SparkStep, PTL DEF Spec

\* Two applications of a task are alive at once only if the runner lost the
\* older one (spark.py, _ensure_ended and _remember), for any number of
\* attempts, of retried POSTs and of failed stops.
THEOREM OneAppUnlessForgotten == Spec => []OneUnlessForgotten
<1>1. SInv => OneUnlessForgotten
  <2> SUFFICES ASSUME SInv PROVE OneUnlessForgotten
    OBVIOUS
  <2>0. Stages /\ Rows(apps, n) /\ Tracking /\ Clients /\ Alone
    BY DEF SInv
  <2>1. /\ Len(apps) \in Nat /\ DOMAIN apps = 1..Len(apps)
        /\ \A i \in 1..Len(apps) : /\ apps[i].state \in States /\ apps[i].len \in 0..(MaxLog + 1)
                                   /\ apps[i].key \in Nat /\ i <= apps[i].key /\ apps[i].key <= n
    BY <2>0, RowFacts
  <2>2. n \in 0..MaxAttempts /\ n \in Nat /\ MaxAttempts \in Nat
    BY <2>0, SparkAssumption DEF Stages
  <2>3. Len(apps) <= MaxAttempts
    <3>1. CASE Len(apps) = 0
      BY <2>2, <3>1
    <3>2. CASE Len(apps) # 0
      <4>1. Len(apps) \in 1..Len(apps)
        BY <2>1, <3>2
      <4>2. Len(apps) <= apps[Len(apps)].key /\ apps[Len(apps)].key <= n /\ apps[Len(apps)].key \in Nat
        BY <2>1, <4>1
      <4> QED BY <2>1, <2>2, <4>2
    <3> QED BY <3>1, <3>2
  <2>4. {mem, prev, trk.app, cli.id} \subseteq 0..Len(apps)
    BY <2>0, <2>1 DEF Stages, Tracking, Clients, Shape
  <2>5. \A id \in DOMAIN apps : /\ apps[id].state \in {"pending", "running"} \cup TERMINAL
                                /\ apps[id].len \in 0..(MaxLog + 1)
    BY <2>1 DEF States, TERMINAL
  <2>6. /\ cli.pc \in {"none", "submit", "poll", "state", "finish", "conclude", "exit"}
        /\ cli.outages \in 0..MaxOutages /\ cli.offset \in 0..NoCursor
        /\ \A l \in Lines : cli.copied[l] \in 0..2
    BY <2>0 DEF Clients, Shape
  <2>7. TypeOK
    BY <2>0, <2>2, <2>3, <2>4, <2>5, <2>6 DEF TypeOK, Stages, Tracking
  <2> QED BY <2>0, <2>7 DEF OneUnlessForgotten, Alone
<1> QED BY <1>1, SparkInvariant, PTL

\* An output is that of this attempt's application, which succeeded, and its
\* output line was among those the client copied (_spark_client.py).
THEOREM OutputsAreReal == Spec => []OutputIsReal
<1>1. SInv => OutputIsReal
  BY DEF SInv, Stages, Clients, Story, OutputIsReal
<1> QED BY <1>1, SparkInvariant, PTL

\* A successful attempt has printed each line of its log once, but for those
\* booth-spark no longer kept and, with a lost cursor, those before the last
\* TailLines or printed before it (_spark_client.py, LogCopy).
THEOREM LogsAreWhole == Spec => []LogOnce
<1>1. SInv => LogOnce
  <2> DEFINE x == apps[cli.id]
  <2> SUFFICES ASSUME SInv, result = "output", NEW l \in 1..x.len
               PROVE  /\ cli.copied[l] = 0 => \/ l + KeptLines <= x.len
                                              \/ cli.offset = NoCursor /\ l > cli.cut /\ l + TailLines <= x.len
                      /\ cli.copied[l] = 2 => cli.offset = NoCursor /\ l <= cli.cut /\ l + TailLines > x.len
    BY DEF LogOnce
  <2>1. /\ Printed(cli, x.len) /\ cli.copied[x.len] > 0 /\ cli.id \in 1..Len(apps)
        /\ cli.offset \in Nat /\ cli.cut \in Nat
    BY SparkAssumption DEF SInv, Stages, Clients, Story, Shape, NoCursor
  <2>2. x.len \in 0..(MaxLog + 1) /\ MaxLog \in Nat /\ KeptLines \in Nat
    BY <2>1, RowFacts, SparkAssumption DEF SInv
  <2>3. l \in Lines /\ x.len \in Lines /\ l <= x.len /\ x.len \in Nat /\ l \in Nat
    BY <2>2 DEF Lines
  <2>4. ASSUME NEW to \in Nat, Once(cli, to, x.len)
        PROVE  cli.copied[l] \in {0, 1} /\ (cli.copied[l] = 0 => l + KeptLines <= x.len)
    <3>1. x.len <= to
      BY <2>1, <2>3, <2>4 DEF Once
    <3>2. l <= to
      BY <2>3, <3>1
    <3>3. cli.copied[l] \in {0, 1} /\ (l + KeptLines > x.len => cli.copied[l] = 1)
      BY <2>3, <2>4, <3>2 DEF Once
    <3> QED BY <2>2, <2>3, <3>3
  <2>5. CASE Copying(cli, x.len)
    <3>1. cli.copied[l] \in {0, 1} /\ (cli.copied[l] = 0 => l + KeptLines <= x.len)
      BY <2>1, <2>4, <2>5 DEF Copying
    <3> QED BY <3>1
  <2>6. CASE Again(cli, x.len)
    BY <2>3, <2>6 DEF Again
  <2> QED BY <2>1, <2>5, <2>6 DEF Printed
<1> QED BY <1>1, SparkInvariant, PTL

=============================================================================
