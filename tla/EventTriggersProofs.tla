------------------------- MODULE EventTriggersProofs -------------------------
(***************************************************************************)
(* Proofs about EventTriggers, for every set of replicas, runs, events and *)
(* settings and every bound.                                               *)
(***************************************************************************)
EXTENDS EventTriggers, TLAPS

-----------------------------------------------------------------------------
(* What the rules do to a row *)

\* A burst in a row s has a timer or is owed a follow-up (BurstHasExit is this
\* of st), and its timer is in its window (TimerInWindow is).
ExitOf(s) == s.events # {} \/ s.missed => s.queued \/ s.fire_at # NoTime

WindowOf(s) ==
    s.fire_at # NoTime =>
        /\ s.pending_since # NoTime
        /\ s.last_fired # NoTime => s.fire_at >= s.last_fired + MinGap
        /\ \E t \in Settings :
              \/ s.fire_at <= s.pending_since + t.max_wait
              \/ s.last_fired # NoTime /\ s.fire_at <= s.last_fired + t.min_gap

RowInv(s) == s \in TriggerRows /\ ExitOf(s) /\ WindowOf(s)

\* The settings' fields.
LEMMA SettingFields ==
    ASSUME NEW t \in Settings
    PROVE  /\ t.enabled \in BOOLEAN /\ t.concurrent \in BOOLEAN
           /\ t.when_running \in {"queue_one", "skip"}
           /\ t.debounce \in Nat /\ t.max_wait \in Nat /\ t.min_gap \in Nat
           /\ MinGap \in Nat /\ t.min_gap >= MinGap
BY SettingsAssumption DEF TriggerSettings

\* A time floored by the gap is a time, and keeps the gap.
LEMMA AfterGapKeeps ==
    ASSUME NEW s \in TriggerRows, NEW t \in Settings, NEW at \in Nat
    PROVE  /\ AfterGap(s, t, at) \in Nat
           /\ AfterGap(s, t, at) >= at
           /\ s.last_fired # NoTime => AfterGap(s, t, at) >= s.last_fired + MinGap
           /\ \/ AfterGap(s, t, at) = at
              \/ s.last_fired # NoTime /\ AfterGap(s, t, at) = s.last_fired + t.min_gap
BY SettingFields, NoTimeAssumption DEF AfterGap, Later, TriggerRows, Times

\* The debounced time of an event, capped by the longest wait of its burst.
LEMMA FireAtKeeps ==
    ASSUME NEW s \in TriggerRows, NEW t \in Settings, NEW since \in Nat, NEW now \in Nat
    PROVE  /\ FireAt(s, t, since, now) \in Nat
           /\ s.last_fired # NoTime => FireAt(s, t, since, now) >= s.last_fired + MinGap
           /\ \/ FireAt(s, t, since, now) <= since + t.max_wait
              \/ s.last_fired # NoTime /\ FireAt(s, t, since, now) = s.last_fired + t.min_gap
<1> DEFINE at == Earlier(now + t.debounce, since + t.max_wait)
<1>1. at \in Nat /\ at <= since + t.max_wait
  BY SettingFields DEF Earlier
<1>2. FireAt(s, t, since, now) = AfterGap(s, t, at)
  BY DEF FireAt
<1> HIDE DEF at
<1> QED BY <1>1, <1>2, AfterGapKeeps

\* What a rule may do to the time of the last fire: two fires keep the gap.
Apart(s, n) ==
    n.last_fired # s.last_fired =>
        /\ n.last_fired # NoTime
        /\ s.last_fired # NoTime => n.last_fired >= s.last_fired + MinGap

\* A row with the same times and flags keeps the promises.
LEMMA SameTimesKeep ==
    ASSUME NEW s, RowInv(s), NEW n \in TriggerRows,
           n.pending_since = s.pending_since, n.fire_at = s.fire_at, n.last_fired = s.last_fired,
           (n.queued <=> s.queued) \/ n.queued,
           (n.events = s.events /\ n.missed = s.missed) \/ n.queued \/ n.fire_at # NoTime
    PROVE  RowInv(n) /\ Apart(s, n)
BY DEF RowInv, ExitOf, WindowOf, Apart

\* So does a row without a timer whose burst is owed a follow-up, or is gone.
LEMMA NoTimerKeeps ==
    ASSUME NEW s, RowInv(s), NEW n \in TriggerRows,
           n.fire_at = NoTime, n.last_fired = s.last_fired,
           n.queued \/ (n.events = {} /\ ~n.missed)
    PROVE  RowInv(n) /\ Apart(s, n)
BY DEF RowInv, ExitOf, WindowOf, Apart

\* An event that arrives keeps the row's promises.
LEMMA IngestKeeps ==
    ASSUME NEW s, RowInv(s), NEW t \in Settings, NEW e \in Events, NEW now \in Nat,
           NEW own \in BOOLEAN, NEW active \in BOOLEAN
    PROVE  /\ RowInv([ingest(s, t, e, now, own, active) EXCEPT !.exists = TRUE])
           /\ Apart(s, [ingest(s, t, e, now, own, active) EXCEPT !.exists = TRUE])
<1> DEFINE since == IF s.pending_since = NoTime THEN now ELSE s.pending_since
           at    == FireAt(s, t, since, now)
           new   == ingest(s, t, e, now, own, active)
           held  == Held(t, active)
<1>1. s \in TriggerRows /\ ExitOf(s) /\ WindowOf(s)
  BY DEF RowInv
<1>2. since \in Nat
  BY <1>1 DEF TriggerRows, Times
<1>3. /\ at \in Nat
      /\ s.last_fired # NoTime => at >= s.last_fired + MinGap
      /\ \/ at <= since + t.max_wait
         \/ s.last_fired # NoTime /\ at = s.last_fired + t.min_gap
  <2> HIDE DEF since
  <2> QED BY <1>1, <1>2, FireAtKeeps
<1>4. /\ own => new = [s EXCEPT !.ignored = @ \cup {e}]
      /\ ~own /\ held /\ t.when_running = "skip" => new = [s EXCEPT !.skipped = @ \cup {e}]
      /\ ~own /\ held /\ t.when_running = "queue_one" =>
           new = [s EXCEPT !.events = @ \cup {e}, !.queued = TRUE]
      /\ ~own /\ ~held =>
           new = [s EXCEPT !.events = @ \cup {e}, !.queued = FALSE, !.pending_since = since,
                           !.fire_at = at]
  <2> HIDE DEF held, at, since
  <2> QED BY SettingFields DEF ingest, held, at, since
<1> SUFFICES RowInv([new EXCEPT !.exists = TRUE]) /\ Apart(s, [new EXCEPT !.exists = TRUE])
  OBVIOUS
<1> HIDE DEF new, since, at, held
<1> DEFINE n == [new EXCEPT !.exists = TRUE]
<1>5. CASE own
  <2>1. /\ n \in TriggerRows /\ n.fire_at = s.fire_at /\ n.pending_since = s.pending_since
        /\ n.last_fired = s.last_fired /\ n.queued = s.queued /\ n.events = s.events
        /\ n.missed = s.missed
    <3>1. new = [s EXCEPT !.ignored = @ \cup {e}]
      BY <1>4, <1>5
    <3> QED BY ONLY <1>1, <3>1 DEF TriggerRows, n
  <2> HIDE DEF n
  <2>2. RowInv(n) /\ Apart(s, n)
    BY <2>1, SameTimesKeep
  <2> QED BY <2>2 DEF n
<1>6. CASE ~own /\ held /\ t.when_running = "skip"
  <2>1. /\ n \in TriggerRows /\ n.fire_at = s.fire_at /\ n.pending_since = s.pending_since
        /\ n.last_fired = s.last_fired /\ n.queued = s.queued /\ n.events = s.events
        /\ n.missed = s.missed
    <3>1. new = [s EXCEPT !.skipped = @ \cup {e}]
      BY <1>4, <1>6
    <3> QED BY ONLY <1>1, <3>1 DEF TriggerRows, n
  <2> HIDE DEF n
  <2>2. RowInv(n) /\ Apart(s, n)
    BY <2>1, SameTimesKeep
  <2> QED BY <2>2 DEF n
<1>7. CASE ~own /\ held /\ t.when_running = "queue_one"
  <2>1. /\ n \in TriggerRows /\ n.fire_at = s.fire_at /\ n.pending_since = s.pending_since
        /\ n.last_fired = s.last_fired /\ n.queued
    <3>1. new = [s EXCEPT !.events = @ \cup {e}, !.queued = TRUE]
      BY <1>4, <1>7
    <3> QED BY ONLY <1>1, <3>1 DEF TriggerRows, n
  <2> HIDE DEF n
  <2>2. RowInv(n) /\ Apart(s, n)
    BY <2>1, SameTimesKeep
  <2> QED BY <2>2 DEF n
<1>8. CASE ~own /\ ~held
  <2>1. /\ n \in TriggerRows /\ n.fire_at = at /\ n.pending_since = since
        /\ n.last_fired = s.last_fired
    <3>1. new = [s EXCEPT !.events = @ \cup {e}, !.queued = FALSE, !.pending_since = since,
                          !.fire_at = at]
      BY <1>4, <1>8
    <3>2. at \in Times /\ since \in Times
      BY <1>2, <1>3 DEF Times
    <3> QED BY ONLY <1>1, <3>1, <3>2 DEF TriggerRows, n
  <2> HIDE DEF n
  <2>2. ExitOf(n) /\ WindowOf(n) /\ Apart(s, n)
    BY <1>2, <1>3, <2>1, SettingFields, NoTimeAssumption DEF ExitOf, WindowOf, Apart
  <2> QED BY <2>1, <2>2 DEF RowInv, n
<1> QED BY <1>5, <1>6, <1>7, <1>8, SettingFields

\* A gap of the bus keeps them.
LEMMA MissedKeeps ==
    ASSUME NEW s, RowInv(s), NEW t \in Settings, NEW now \in Nat
    PROVE  /\ RowInv([on_missed_events(s, t, now) EXCEPT !.exists = TRUE])
           /\ Apart(s, [on_missed_events(s, t, now) EXCEPT !.exists = TRUE])
<1> DEFINE at == AfterGap(s, t, now)
           n  == [on_missed_events(s, t, now) EXCEPT !.exists = TRUE]
<1>1. s \in TriggerRows /\ ExitOf(s) /\ WindowOf(s)
  BY DEF RowInv
<1>2. /\ at \in Nat
      /\ s.last_fired # NoTime => at >= s.last_fired + MinGap
      /\ at = now \/ (s.last_fired # NoTime /\ at = s.last_fired + t.min_gap)
  BY <1>1, AfterGapKeeps
<1>3. n = IF s.queued \/ s.fire_at # NoTime
          THEN [[s EXCEPT !.missed = TRUE] EXCEPT !.exists = TRUE]
          ELSE [[s EXCEPT !.missed = TRUE, !.pending_since = now, !.fire_at = at] EXCEPT !.exists = TRUE]
  BY DEF on_missed_events
<1> SUFFICES RowInv(n) /\ Apart(s, n)
  OBVIOUS
<1> HIDE DEF at, n
<1>4. CASE s.queued \/ s.fire_at # NoTime
  <2>1. /\ n \in TriggerRows /\ n.fire_at = s.fire_at /\ n.pending_since = s.pending_since
        /\ n.last_fired = s.last_fired /\ n.queued = s.queued
    BY <1>1, <1>3, <1>4 DEF TriggerRows
  <2> QED BY <1>4, <2>1, SameTimesKeep
<1>5. CASE ~(s.queued \/ s.fire_at # NoTime)
  <2>1. n \in TriggerRows /\ n.fire_at = at /\ n.pending_since = now /\ n.last_fired = s.last_fired
    BY <1>1, <1>2, <1>3, <1>5 DEF TriggerRows, Times
  <2>2. ExitOf(n) /\ WindowOf(n) /\ Apart(s, n)
    BY <1>2, <2>1, SettingFields, NoTimeAssumption DEF ExitOf, WindowOf, Apart
  <2> QED BY <2>1, <2>2 DEF RowInv
<1> QED BY <1>4, <1>5

\* The release of a follow-up keeps them; it needs no timer to be in the row.
LEMMA ReleaseKeeps ==
    ASSUME NEW s, RowInv(s), NEW t \in Settings, NEW now \in Nat
    PROVE  RowInv(on_run_finished(s, t, now)) /\ on_run_finished(s, t, now).last_fired = s.last_fired
<1> DEFINE at == AfterGap(s, t, now)
           n  == on_run_finished(s, t, now)
<1>1. s \in TriggerRows /\ ExitOf(s) /\ WindowOf(s)
  BY DEF RowInv
<1>2. /\ at \in Nat
      /\ s.last_fired # NoTime => at >= s.last_fired + MinGap
      /\ at = now \/ (s.last_fired # NoTime /\ at = s.last_fired + t.min_gap)
  BY <1>1, AfterGapKeeps
<1>3. n = IF s.queued THEN [s EXCEPT !.queued = FALSE, !.pending_since = now, !.fire_at = at]
                      ELSE s
  BY DEF on_run_finished
<1> SUFFICES RowInv(n) /\ n.last_fired = s.last_fired
  OBVIOUS
<1> HIDE DEF at, n
<1>4. CASE ~s.queued
  BY <1>1, <1>3, <1>4 DEF RowInv
<1>5. CASE s.queued
  <2>1. n \in TriggerRows /\ n.fire_at = at /\ n.pending_since = now /\ n.last_fired = s.last_fired
    BY <1>1, <1>2, <1>3, <1>5 DEF TriggerRows, Times
  <2>2. ExitOf(n) /\ WindowOf(n)
    BY <1>2, <2>1, SettingFields, NoTimeAssumption DEF ExitOf, WindowOf
  <2> QED BY <2>1, <2>2 DEF RowInv
<1> QED BY <1>4, <1>5

\* A timer that is due keeps them, and fires no sooner than the gap.
LEMMA DueKeeps ==
    ASSUME NEW s, RowInv(s), NEW t \in Settings, NEW now \in Nat, NEW active \in BOOLEAN,
           s.fire_at # NoTime, s.fire_at <= now
    PROVE  RowInv(on_due(s, t, now, active)) /\ Apart(s, on_due(s, t, now, active))
<1> DEFINE n == on_due(s, t, now, active)
           held == Held(t, active)
<1>1. s \in TriggerRows /\ ExitOf(s) /\ WindowOf(s)
  BY DEF RowInv
<1>2. /\ ~held => n = [s EXCEPT !.pending_since = NoTime, !.fire_at = NoTime, !.queued = FALSE,
                                !.events = {}, !.missed = FALSE, !.last_fired = now]
      /\ held /\ t.when_running = "queue_one" =>
            n = [s EXCEPT !.pending_since = NoTime, !.fire_at = NoTime, !.queued = TRUE]
      /\ held /\ t.when_running = "skip" =>
            n = [s EXCEPT !.pending_since = NoTime, !.fire_at = NoTime,
                          !.skipped = @ \cup s.events, !.events = {}, !.missed = FALSE]
  <2> HIDE DEF held
  <2> QED BY <1>1 DEF on_due, reset_pending, held, TriggerRows
<1> SUFFICES RowInv(n) /\ Apart(s, n)
  OBVIOUS
<1> HIDE DEF n, held
<1>3. CASE ~held
  <2>1. n \in TriggerRows /\ n.fire_at = NoTime /\ n.last_fired = now /\ n.events = {} /\ ~n.missed
    BY <1>1, <1>2, <1>3 DEF TriggerRows, Times
  <2>2. s.last_fired # NoTime => s.fire_at >= s.last_fired + MinGap
    BY <1>1 DEF WindowOf
  <2>3. s.fire_at \in Nat /\ (s.last_fired # NoTime => s.last_fired \in Nat)
    BY <1>1 DEF TriggerRows, Times
  <2>4. ExitOf(n) /\ WindowOf(n) /\ Apart(s, n)
    BY <2>1, <2>2, <2>3, SettingsAssumption, NoTimeAssumption DEF ExitOf, WindowOf, Apart
  <2> QED BY <2>1, <2>4 DEF RowInv
<1>4. CASE held /\ t.when_running = "queue_one"
  <2>1. n \in TriggerRows /\ n.fire_at = NoTime /\ n.last_fired = s.last_fired /\ n.queued
    BY <1>1, <1>2, <1>4 DEF TriggerRows, Times
  <2> QED BY <2>1, NoTimerKeeps
<1>5. CASE held /\ t.when_running = "skip"
  <2>1. /\ n \in TriggerRows /\ n.fire_at = NoTime /\ n.last_fired = s.last_fired
        /\ n.events = {} /\ ~n.missed
    <3>1. n = [s EXCEPT !.pending_since = NoTime, !.fire_at = NoTime,
                        !.skipped = @ \cup s.events, !.events = {}, !.missed = FALSE]
      BY <1>2, <1>5
    <3>2. NoTime \in Times
      BY DEF Times
    <3> QED BY ONLY <1>1, <3>1, <3>2 DEF TriggerRows
  <2> QED BY <2>1, NoTimerKeeps
<1> QED BY <1>3, <1>4, <1>5, SettingFields

\* Giving a fire back keeps them.
LEMMA RequeueKeeps ==
    ASSUME NEW s, RowInv(s), NEW t \in Settings, NEW fired \in SUBSET Events, NEW missed \in BOOLEAN
    PROVE  RowInv(requeue(s, t, fired, missed)) /\ requeue(s, t, fired, missed).last_fired = s.last_fired
<1>1. s \in TriggerRows /\ ExitOf(s) /\ WindowOf(s)
  BY DEF RowInv
<1>2. CASE t.when_running = "skip"
  BY <1>1, <1>2 DEF requeue, RowInv, TriggerRows, ExitOf, WindowOf
<1>3. CASE t.when_running # "skip"
  <2> DEFINE n == requeue(s, t, fired, missed)
  <2>1. n = [s EXCEPT !.events = @ \cup fired, !.missed = @ \/ missed,
                    !.queued = TRUE, !.pending_since = NoTime, !.fire_at = NoTime]
    BY <1>3 DEF requeue
  <2> SUFFICES RowInv(n) /\ n.last_fired = s.last_fired
    OBVIOUS
  <2> HIDE DEF n
  <2> QED BY <1>1, <2>1 DEF RowInv, TriggerRows, Times, ExitOf, WindowOf
<1> QED BY <1>2, <1>3

\* Emptying the row keeps them.
LEMMA ResetKeeps ==
    ASSUME NEW s, RowInv(s)
    PROVE  RowInv(reset_pending(s)) /\ reset_pending(s).last_fired = s.last_fired
BY DEF RowInv, reset_pending, TriggerRows, Times, ExitOf, WindowOf

-----------------------------------------------------------------------------
(* Type correctness and the row's promises *)

\* Open ingests are of events not yet recorded, and of different ones; a gap of
\* the bus never reaches triggers.ingest.
IngestsAreFresh ==
    \A r \in Replicas :
        /\ ing[r].pc = "decided" => ing[r].ev # Gap
        /\ ing[r].pc # "idle" /\ ing[r].ev # Gap =>
              /\ ing[r].ev \notin seen
              /\ \A q \in Replicas : ing[q].pc # "idle" /\ ing[q].ev = ing[r].ev => q = r

TInv == TypeOK /\ RowInv(st) /\ IngestsAreFresh

\* Setting the idle record of a process is a step within its type.
LEMMA IdleRecords ==
    ASSUME TypeOK
    PROVE  /\ IdleIngest \in IngestTxn /\ IdleTick \in TickTxn /\ Reindex \in TickTxn
           /\ IdleFin \in FinTxn /\ IdleSched \in [pc : {"idle", "saving"}, t : Settings]
<1>1. AnyTrigger \in Settings
  BY DEF TypeOK, AnyTrigger
<1> QED BY <1>1 DEF IdleIngest, IdleTick, Reindex, IdleFin, IdleSched, IngestTxn, TickTxn, TickPc, FinTxn

\* A clock reading is a natural number.
LEMMA NowIsTime ==
    ASSUME TypeOK, NEW now \in Now
    PROVE  now \in Nat
BY DEF TypeOK, Now

\* The initial state.
LEMMA InitKeeps ==
    ASSUME Init
    PROVE  TInv
<1>1. NoRow \in TriggerRows /\ ExitOf(NoRow) /\ WindowOf(NoRow)
  BY DEF NoRow, TriggerRows, Times, ExitOf, WindowOf
<1>2. AnyTrigger \in Settings
  BY DEF Init, AnyTrigger
<1>3. TypeOK
  BY <1>1, <1>2 DEF Init, TypeOK, IdleIngest, IdleTick, IdleFin, IdleSched, IngestTxn, TickTxn,
                    TickPc, FinTxn, RunStatus, Times, Starters, StLocks
<1>4. IngestsAreFresh
  BY DEF Init, IngestsAreFresh, IdleIngest
<1> QED BY <1>1, <1>3, <1>4 DEF Init, TInv, RowInv

\* Ingests stay fresh: the lock of a sequence number is the row that records it.
LEMMA FreshSteps ==
    ASSUME TypeOK, IngestsAreFresh, [Next]_vars
    PROVE  IngestsAreFresh'
<1>0. ing \in [Replicas -> IngestTxn] /\ seen \subseteq Events
  BY DEF TypeOK
<1>1. ASSUME NEW r \in Replicas, NEW e \in Events, IngestLock(r, e) PROVE IngestsAreFresh'
  <2>1. CASE pipe.enabled
    <3>1. PICK now \in Now : ing' = [ing EXCEPT ![r] = [pc |-> "locked", ev |-> e, now |-> now,
                                                        t |-> pipe, active |-> FALSE]]
      BY <1>1, <2>1 DEF IngestLock
    <3>2. \A q \in Replicas : /\ q # r => ing'[q] = ing[q]
                              /\ q = r => ing'[q].ev = e /\ ing'[q].pc = "locked"
      BY <1>0, <3>1
    <3>3. seen' = seen /\ e \notin seen /\ \A q \in Replicas : ing[q].pc # "idle" => ing[q].ev # e
      BY <1>1, <2>1 DEF IngestLock
    <3> QED BY <3>2, <3>3 DEF IngestsAreFresh
  <2>2. CASE ~pipe.enabled
    BY <1>1, <2>2 DEF IngestLock, IngestsAreFresh
  <2> QED BY <2>1, <2>2
<1>2. ASSUME NEW r \in Replicas, IngestActive(r) PROVE IngestsAreFresh'
  <2>1. \A q \in Replicas : /\ q # r => ing'[q] = ing[q]
                            /\ ing'[r].ev = ing[r].ev /\ ing[r].ev # Gap /\ ing[r].pc = "locked"
    BY <1>0, <1>2 DEF IngestActive, IngestTxn
  <2>2. seen' = seen
    BY <1>2 DEF IngestActive
  <2> QED BY <2>1, <2>2 DEF IngestsAreFresh
<1>3. ASSUME NEW r \in Replicas, IngestCommit(r) PROVE IngestsAreFresh'
  <2>1. \A q \in Replicas : /\ q # r => ing'[q] = ing[q]
                            /\ ing'[r].pc = "idle" /\ ing[r].pc = "decided"
    BY <1>0, <1>3 DEF IngestCommit, IngestTxn, IdleIngest
  <2>2. seen' = seen \cup {ing[r].ev}
    BY <1>3 DEF IngestCommit
  <2> QED BY <2>1, <2>2 DEF IngestsAreFresh
<1>4. ASSUME NEW r \in Replicas, MissedLock(r) PROVE IngestsAreFresh'
  <2>1. PICK now \in Now : ing' = [ing EXCEPT ![r] = [pc |-> "locked", ev |-> Gap, now |-> now,
                                                      t |-> pipe, active |-> FALSE]]
    BY <1>4 DEF MissedLock
  <2>2. \A q \in Replicas : /\ q # r => ing'[q] = ing[q]
                            /\ q = r => ing'[q].ev = Gap /\ ing'[q].pc = "locked"
    BY <1>0, <2>1
  <2> QED BY <1>4, <2>2 DEF MissedLock, IngestsAreFresh
<1>5. ASSUME NEW r \in Replicas, MissedCommit(r) \/ IngestFail(r) PROVE IngestsAreFresh'
  <2>1. \A q \in Replicas : /\ q # r => ing'[q] = ing[q]
                            /\ ing'[r].pc = "idle"
    BY <1>0, <1>5 DEF MissedCommit, IngestFail, IdleIngest
  <2> QED BY <1>5, <2>1 DEF MissedCommit, IngestFail, IngestsAreFresh
<1>6. ASSUME UNCHANGED <<ing, seen>> PROVE IngestsAreFresh'
  BY <1>6 DEF IngestsAreFresh
<1>7. \/ \E r \in Replicas : IngestStep(r)
      \/ UNCHANGED <<ing, seen>>
  BY DEF Next, vars, TickStep, CreateStep, FinishStep, RefreshIndex, TickBegin, ClaimSelect,
         ClaimNothing, ClaimActive, ClaimCommit, RequeueLock, RequeueActive, RequeueCommit, TickFail,
         CreateExclusive, CreateConcurrent, CreateBusy, CreateCommit, FinishSelect, FinishCommit,
         PruneRun, RunNow, SaveBegin, SaveCommit, ClockTick
<1> QED BY <1>1, <1>2, <1>3, <1>4, <1>5, <1>6, <1>7 DEF IngestStep

\* Moving on in a transaction, and keeping what a statement of it has read.
LEMMA MovesOn ==
    ASSUME TypeOK
    PROVE  /\ \A r \in Replicas, pc \in {"idle", "locked", "decided"}, a \in BOOLEAN :
                 [ing EXCEPT ![r].pc = pc, ![r].active = a] \in [Replicas -> IngestTxn]
           /\ \A s \in Starters, pc \in TickPc, a \in BOOLEAN :
                 [tick EXCEPT ![s].pc = pc, ![s].active = a] \in [Starters -> TickTxn]
           /\ \A s \in Starters, pc \in TickPc, now \in Nat :
                 [tick EXCEPT ![s].pc = pc, ![s].now = now] \in [Starters -> TickTxn]
           /\ \A s \in Starters, pc \in TickPc, t \in Settings :
                 [tick EXCEPT ![s].pc = pc, ![s].t = t] \in [Starters -> TickTxn]
           /\ \A s \in Starters, pc \in TickPc, t \in Settings, now \in Nat :
                 [tick EXCEPT ![s].pc = pc, ![s].t = t, ![s].now = now] \in [Starters -> TickTxn]
<1>1. ing \in [Replicas -> IngestTxn] /\ tick \in [Starters -> TickTxn]
  BY DEF TypeOK
<1>2. ASSUME NEW r \in Replicas, NEW pc \in {"idle", "locked", "decided"}, NEW a \in BOOLEAN
      PROVE  [ing EXCEPT ![r].pc = pc, ![r].active = a] \in [Replicas -> IngestTxn]
  BY ONLY <1>1 DEF IngestTxn
<1>3. ASSUME NEW s \in Starters, NEW pc \in TickPc, NEW a \in BOOLEAN
      PROVE  [tick EXCEPT ![s].pc = pc, ![s].active = a] \in [Starters -> TickTxn]
  BY ONLY <1>1 DEF TickTxn
<1>4. ASSUME NEW s \in Starters, NEW pc \in TickPc, NEW now \in Nat
      PROVE  [tick EXCEPT ![s].pc = pc, ![s].now = now] \in [Starters -> TickTxn]
  BY ONLY <1>1 DEF TickTxn
<1>5. ASSUME NEW s \in Starters, NEW pc \in TickPc, NEW t \in Settings
      PROVE  [tick EXCEPT ![s].pc = pc, ![s].t = t] \in [Starters -> TickTxn]
  BY ONLY <1>1 DEF TickTxn
<1>6. ASSUME NEW s \in Starters, NEW pc \in TickPc, NEW t \in Settings, NEW now \in Nat
      PROVE  [tick EXCEPT ![s].pc = pc, ![s].t = t, ![s].now = now] \in [Starters -> TickTxn]
  BY ONLY <1>1 DEF TickTxn
<1> QED BY <1>2, <1>3, <1>4, <1>5, <1>6

\* A step that leaves the row alone keeps the types.
LEMMA QuietSteps ==
    ASSUME TypeOK
    PROVE  /\ \A r \in Replicas :
                 (\/ \E e \in Events : IngestLock(r, e)
                  \/ IngestActive(r) \/ MissedLock(r) \/ IngestFail(r) \/ RefreshIndex(r)
                  \/ TickBegin(r) \/ ClaimSelect(r) \/ ClaimNothing(r) \/ ClaimActive(r)
                  \/ RequeueLock(r) \/ RequeueActive(r) \/ TickFail(r)) => TypeOK'
           /\ \A s \in Starters : CreateStep(s) => TypeOK'
           /\ \A x \in Runs : FinishSelect(x) \/ PruneRun(x) => TypeOK'
<1>0. Replicas \subseteq Starters /\ pipe \in Settings
  BY DEF Starters, TypeOK
<1>1. ASSUME NEW r \in Replicas, NEW e \in Events, IngestLock(r, e) PROVE TypeOK'
  <2>1. CASE pipe.enabled
    <3>1. PICK now \in Now : ing' = [ing EXCEPT ![r] = [pc |-> "locked", ev |-> e, now |-> now,
                                                        t |-> pipe, active |-> FALSE]]
      BY <1>1, <2>1 DEF IngestLock
    <3>2. ing' \in [Replicas -> IngestTxn]
      BY <3>1, NowIsTime DEF IngestTxn, TypeOK
    <3> QED BY <1>1, <2>1, <3>2 DEF TypeOK, IngestLock, StLocks
  <2>2. CASE ~pipe.enabled
    BY <1>1, <2>2 DEF TypeOK, IngestLock
  <2> QED BY <2>1, <2>2
<1>2. ASSUME NEW r \in Replicas, IngestActive(r) PROVE TypeOK'
  <2>1. ing' \in [Replicas -> IngestTxn]
    BY <1>2, MovesOn DEF IngestActive, TickPc, Active
  <2> QED BY <1>2, <2>1 DEF TypeOK, IngestActive, ghosts
<1>3. ASSUME NEW r \in Replicas, MissedLock(r) PROVE TypeOK'
  BY <1>3, NowIsTime DEF TypeOK, MissedLock, IngestTxn, StLocks
<1>4. ASSUME NEW r \in Replicas, IngestFail(r) PROVE TypeOK'
  BY <1>4, IdleRecords DEF TypeOK, IngestFail, StLocks
<1>5. ASSUME NEW r \in Replicas, RefreshIndex(r) PROVE TypeOK'
  BY <1>5, IdleRecords DEF TypeOK, RefreshIndex, NextKnownFire, Times, TriggerRows, Starters, ghosts
<1>6. ASSUME NEW r \in Replicas, TickBegin(r) PROVE TypeOK'
  <2>1. tick' \in [Starters -> TickTxn]
    <3>1. PICK now \in Now : tick' = [tick EXCEPT ![r].pc = "claim", ![r].now = now]
      BY <1>6 DEF TickBegin
    <3>2. r \in Starters /\ "claim" \in TickPc /\ now \in Nat
      BY <1>0, NowIsTime DEF TickPc
    <3>3. [tick EXCEPT ![r].pc = "claim", ![r].now = now] \in [Starters -> TickTxn]
      BY <3>2, MovesOn, Zenon
    <3> QED BY <3>1, <3>3
  <2> QED BY <1>6, <2>1 DEF TypeOK, TickBegin, ghosts
<1>7. ASSUME NEW r \in Replicas, ClaimSelect(r) PROVE TypeOK'
  <2>1. tick' \in [Starters -> TickTxn]
    <3>1. r \in Starters /\ "locked" \in TickPc /\ pipe \in Settings
      BY <1>0 DEF TickPc
    <3>2. [tick EXCEPT ![r].pc = "locked", ![r].t = pipe] \in [Starters -> TickTxn]
      BY <3>1, MovesOn, Zenon
    <3> QED BY <1>7, <3>2 DEF ClaimSelect
  <2> QED BY <1>7, <2>1 DEF TypeOK, ClaimSelect, StLocks, ghosts
<1>8. ASSUME NEW r \in Replicas, ClaimNothing(r) PROVE TypeOK'
  BY <1>8, IdleRecords DEF TypeOK, ClaimNothing, Starters, ghosts
<1>9. ASSUME NEW r \in Replicas, ClaimActive(r) PROVE TypeOK'
  <2>1. tick' \in [Starters -> TickTxn]
    BY <1>9, MovesOn DEF ClaimActive, TickPc, Starters, Active
  <2> QED BY <1>9, <2>1 DEF TypeOK, ClaimActive, ghosts
<1>10. ASSUME NEW r \in Replicas, RequeueLock(r) PROVE TypeOK'
  <2>1. CASE pipe.enabled
    <3>1. PICK now \in Now : tick' = [tick EXCEPT ![r].pc = "relocked", ![r].t = pipe, ![r].now = now]
      BY <1>10, <2>1 DEF RequeueLock
    <3>2. tick' \in [Starters -> TickTxn]
      <4>1. now \in Nat /\ "relocked" \in TickPc
        BY NowIsTime DEF TickPc
      <4>2. [tick EXCEPT ![r].pc = "relocked", ![r].t = pipe, ![r].now = now] \in [Starters -> TickTxn]
        BY <1>0, <4>1, MovesOn, Zenon
      <4> QED BY <3>1, <4>2, Zenon
    <3> QED BY <1>10, <2>1, <3>2 DEF TypeOK, RequeueLock, StLocks
  <2>2. CASE ~pipe.enabled
    BY <1>10, <2>2, IdleRecords DEF TypeOK, RequeueLock, TickTxn, Starters
  <2> QED BY <2>1, <2>2
<1>11. ASSUME NEW r \in Replicas, RequeueActive(r) PROVE TypeOK'
  <2>1. tick' \in [Starters -> TickTxn]
    BY <1>11, MovesOn DEF RequeueActive, TickPc, Starters, Active
  <2> QED BY <1>11, <2>1 DEF TypeOK, RequeueActive, ghosts
<1>12. ASSUME NEW r \in Replicas, TickFail(r) PROVE TypeOK'
  BY <1>12, IdleRecords DEF TypeOK, TickFail, Times, TickTxn, Starters, StLocks, Unlock
<1>13. ASSUME NEW s \in Starters, CreateExclusive(s) PROVE TypeOK'
  <2>1. tick' \in [Starters -> TickTxn]
    BY <1>13, MovesOn DEF CreateExclusive, TickPc, Active
  <2> QED BY <1>13, <2>1 DEF TypeOK, CreateExclusive, ghosts
<1>14. ASSUME NEW s \in Starters, CreateConcurrent(s) PROVE TypeOK'
  <2>1. tick' \in [Starters -> TickTxn]
    BY <1>14, MovesOn DEF CreateConcurrent, TickPc
  <2> QED BY <1>14, <2>1 DEF TypeOK, CreateConcurrent, ghosts
<1>15. ASSUME NEW s \in Starters, CreateBusy(s) PROVE TypeOK'
  BY <1>15, IdleRecords DEF TypeOK, CreateBusy, TickTxn, TickPc, Unlock, ghosts
<1>16. ASSUME NEW s \in Starters, NEW x \in Runs, CreateCommit(s, x) PROVE TypeOK'
  BY <1>16, IdleRecords DEF TypeOK, CreateCommit, TickTxn, RunStatus, Unlock, ghosts
<1>17. ASSUME NEW x \in Runs, FinishSelect(x) PROVE TypeOK'
  <2>1. fin' \in [Runs -> FinTxn]
    BY <1>17, NowIsTime DEF TypeOK, FinishSelect, FinTxn
  <2>2. stLock' \in StLocks \cup {Nobody}
    BY <1>17 DEF TypeOK, FinishSelect, StLocks
  <2> QED BY <1>17, <2>1, <2>2 DEF TypeOK, FinishSelect, ghosts
<1>18. ASSUME NEW x \in Runs, PruneRun(x) PROVE TypeOK'
  BY <1>18 DEF TypeOK, PruneRun, RunStatus
<1> QED BY <1>1, <1>2, <1>3, <1>4, <1>5, <1>6, <1>7, <1>8, <1>9, <1>10, <1>11, <1>12, <1>13, <1>14, <1>15, <1>16, <1>17, <1>18 DEF CreateStep

\* So do the requests that are not in any of its loops.
LEMMA QuietRequests ==
    ASSUME TypeOK
    PROVE  /\ RunNow => TypeOK'
           /\ \A t \in Settings : SaveBegin(t) => TypeOK'
           /\ ClockTick => TypeOK'
<1>1. ASSUME RunNow PROVE TypeOK'
  <2>1. Api \in Starters /\ "start" \in TickPc /\ pipe \in Settings
    BY DEF Starters, TickPc, TypeOK
  <2>2. tick' \in [Starters -> TickTxn]
    BY <1>1, <2>1, MovesOn DEF RunNow
  <2> QED BY <1>1, <2>2 DEF TypeOK, RunNow
<1>2. ASSUME NEW t \in Settings, SaveBegin(t) PROVE TypeOK'
  BY <1>2 DEF TypeOK, SaveBegin, ghosts
<1>3. ASSUME ClockTick PROVE TypeOK'
  BY <1>3 DEF TypeOK, ClockTick, ghosts
<1> QED BY <1>1, <1>2, <1>3

\* A step that writes the row keeps the types and the row's promises.
LEMMA RowSteps ==
    ASSUME TInv
    PROVE  /\ \A r \in Replicas :
                 IngestCommit(r) \/ MissedCommit(r) \/ ClaimCommit(r) \/ RequeueCommit(r) =>
                     TypeOK' /\ RowInv(st') /\ Apart(st, st')
           /\ \A x \in Runs : FinishCommit(x) => TypeOK' /\ RowInv(st') /\ Apart(st, st')
           /\ SaveCommit => TypeOK' /\ RowInv(st') /\ Apart(st, st')
<1>0. /\ TypeOK /\ RowInv(st) /\ IngestsAreFresh /\ Replicas \subseteq Starters
      /\ \A r \in Replicas : ing[r] \in IngestTxn /\ tick[r] \in TickTxn
      /\ \A x \in Runs : fin[x] \in FinTxn
  BY DEF TInv, TypeOK, Starters
<1>1. ASSUME NEW r \in Replicas, IngestCommit(r) PROVE TypeOK' /\ RowInv(st') /\ Apart(st, st')
  <2>1. /\ ing[r].t \in Settings /\ ing[r].now \in Nat /\ ing[r].active \in BOOLEAN
        /\ ing[r].ev \in Events /\ (ing[r].ev \in OwnEvents) \in BOOLEAN
    BY <1>0, <1>1 DEF IngestTxn, IngestCommit, IngestsAreFresh
  <2>2. RowInv(st') /\ Apart(st, st')
    BY <1>0, <1>1, <2>1, IngestKeeps DEF IngestCommit
  <2>3. TypeOK'
    BY <1>0, <1>1, <2>1, <2>2, IdleRecords DEF IngestCommit, TypeOK, RowInv, ghosts
  <2> QED BY <2>2, <2>3
<1>2. ASSUME NEW r \in Replicas, MissedCommit(r) PROVE TypeOK' /\ RowInv(st') /\ Apart(st, st')
  <2>1. ing[r].t \in Settings /\ ing[r].now \in Nat
    BY <1>0 DEF IngestTxn
  <2>2. RowInv(st') /\ Apart(st, st')
    BY <1>0, <1>2, <2>1, MissedKeeps DEF MissedCommit
  <2>3. TypeOK'
    BY <1>0, <1>2, <2>2, IdleRecords DEF MissedCommit, TypeOK, RowInv, ghosts
  <2> QED BY <2>2, <2>3
<1>3. ASSUME NEW r \in Replicas, ClaimCommit(r) PROVE TypeOK' /\ RowInv(st') /\ Apart(st, st')
  <2> DEFINE x      == tick[r]
             row    == Released(st, x)
             notYet == row.fire_at = NoTime \/ row.fire_at > x.now
  <2>1. x.t \in Settings /\ x.now \in Nat /\ x.active \in BOOLEAN
    BY <1>0 DEF TickTxn
  <2>2. RowInv(row) /\ row.last_fired = st.last_fired
    BY <1>0, <2>1, ReleaseKeeps DEF Released
  <2>3. st' = IF notYet THEN row ELSE on_due(row, x.t, x.now, x.active)
    BY <1>3 DEF ClaimCommit
  <2>4. RowInv(st') /\ Apart(row, st')
    <3> HIDE DEF x, row
    <3>1. CASE notYet
      BY <2>2, <2>3, <3>1 DEF Apart
    <3>2. CASE ~notYet
      <4>1. row.fire_at # NoTime /\ row.fire_at <= x.now
        BY <2>1, <2>2, <3>2 DEF RowInv, TriggerRows, Times
      <4>2. st' = on_due(row, x.t, x.now, x.active)
        BY <2>3, <3>2
      <4> HIDE DEF notYet
      <4> QED BY <2>1, <2>2, <4>1, <4>2, DueKeeps
    <3> QED BY <3>1, <3>2
  <2>5. Apart(st, st')
    BY <2>2, <2>4 DEF Apart
  <2>6. tick' \in [Starters -> TickTxn]
    <3>1. st.events \in SUBSET Events /\ st.missed \in BOOLEAN
      BY <1>0 DEF RowInv, TriggerRows
    <3>2. [tick[r] EXCEPT !.pc = "start", !.fired = st.events, !.missed = st.missed] \in TickTxn
      BY <1>0, <3>1 DEF TickTxn, TickPc
    <3>3. Reindex \in TickTxn /\ tick \in [Starters -> TickTxn] /\ r \in Starters
      BY <1>0, IdleRecords DEF TypeOK
    <3>4. PICK n \in TickTxn : tick' = [tick EXCEPT ![r] = n]
      BY <1>3, <3>2, <3>3 DEF ClaimCommit
    <3> QED BY <3>3, <3>4
  <2>7. st' \in TriggerRows
    BY <2>4 DEF RowInv
  <2>8. TypeOK'
    BY <1>0, <1>3, <2>6, <2>7 DEF ClaimCommit, TypeOK, ghosts
  <2> QED BY <2>4, <2>5, <2>8
<1>4. ASSUME NEW r \in Replicas, RequeueCommit(r) PROVE TypeOK' /\ RowInv(st') /\ Apart(st, st')
  <2> DEFINE x   == tick[r]
             row == requeue(st, x.t, x.fired, x.missed)
  <2>1. x.t \in Settings /\ x.now \in Nat /\ x.fired \in SUBSET Events /\ x.missed \in BOOLEAN
    BY <1>0 DEF TickTxn
  <2>2. RowInv(row) /\ row.last_fired = st.last_fired
    BY <1>0, <2>1, RequeueKeeps
  <2>3. st' = IF x.active THEN row ELSE on_run_finished(row, x.t, x.now)
    BY <1>4 DEF RequeueCommit
  <2>4. RowInv(st') /\ st'.last_fired = row.last_fired
    <3> HIDE DEF x, row
    <3> QED BY <2>1, <2>2, <2>3, ReleaseKeeps
  <2>5. Apart(st, st')
    BY <2>2, <2>4 DEF Apart
  <2>6. st' \in TriggerRows
    BY <2>4 DEF RowInv
  <2>7. TypeOK'
    BY <1>0, <1>4, <2>6, IdleRecords DEF RequeueCommit, TypeOK, ghosts
  <2> QED BY <2>4, <2>5, <2>7
<1>5. ASSUME NEW x \in Runs, FinishCommit(x) PROVE TypeOK' /\ RowInv(st') /\ Apart(st, st')
  <2>1. fin[x].t \in Settings /\ fin[x].now \in Nat
    BY <1>0 DEF FinTxn
  <2>2. st' = st \/ st' = on_run_finished(st, fin[x].t, fin[x].now)
    BY <1>5 DEF FinishCommit
  <2>3. RowInv(st') /\ st'.last_fired = st.last_fired
    BY <1>0, <2>1, <2>2, ReleaseKeeps
  <2>4. st' \in TriggerRows /\ Apart(st, st')
    BY <2>3 DEF RowInv, Apart
  <2>5. TypeOK'
    BY <1>0, <1>5, <2>4, IdleRecords DEF FinishCommit, TypeOK, RunStatus, ghosts
  <2> QED BY <2>3, <2>4, <2>5
<1>6. ASSUME SaveCommit PROVE TypeOK' /\ RowInv(st') /\ Apart(st, st')
  <2>1. st' = st \/ st' = reset_pending(st)
    BY <1>6 DEF SaveCommit
  <2>2. RowInv(st') /\ st'.last_fired = st.last_fired
    BY <1>0, <2>1, ResetKeeps
  <2>3. st' \in TriggerRows /\ Apart(st, st')
    BY <2>2 DEF RowInv, Apart
  <2>4. st.events \subseteq Events
    BY <1>0 DEF RowInv, TriggerRows
  <2>5. TypeOK'
    BY <1>0, <1>6, <2>3, <2>4, IdleRecords DEF SaveCommit, TypeOK
  <2> QED BY <2>2, <2>3, <2>5
<1> QED BY <1>1, <1>2, <1>3, <1>4, <1>5, <1>6

\* Every step keeps the types and the row's promises, and keeps two fires apart.
LEMMA TriggerStep ==
    ASSUME TInv, [Next]_vars
    PROVE  TInv' /\ Apart(st, st')
<1>1. TypeOK /\ RowInv(st) /\ IngestsAreFresh
  BY DEF TInv
<1>2. IngestsAreFresh'
  BY <1>1, FreshSteps
<1>3. ASSUME TypeOK', st' = st PROVE TInv' /\ Apart(st, st')
  BY <1>1, <1>2, <1>3 DEF TInv, RowInv, ExitOf, WindowOf, Apart
<1>4. ASSUME TypeOK', RowInv(st'), Apart(st, st') PROVE TInv' /\ Apart(st, st')
  BY <1>2, <1>4 DEF TInv, RowInv, ExitOf, WindowOf
<1>5. ASSUME NEW r \in Replicas, IngestStep(r) PROVE TInv' /\ Apart(st, st')
  <2>1. CASE IngestCommit(r) \/ MissedCommit(r)
    BY <1>4, <2>1, RowSteps
  <2>2. CASE (\E e \in Events : IngestLock(r, e)) \/ IngestActive(r) \/ MissedLock(r) \/ IngestFail(r)
    <3>1. TypeOK'
      BY <1>1, <2>2, QuietSteps
    <3>2. st' = st
      BY <2>2 DEF IngestLock, IngestActive, MissedLock, IngestFail
    <3> QED BY <1>3, <3>1, <3>2
  <2> QED BY <1>5, <2>1, <2>2 DEF IngestStep
<1>6. ASSUME NEW r \in Replicas, TickStep(r) PROVE TInv' /\ Apart(st, st')
  <2>1. CASE ClaimCommit(r) \/ RequeueCommit(r)
    BY <1>4, <2>1, RowSteps
  <2>2. CASE \/ RefreshIndex(r) \/ TickBegin(r) \/ ClaimSelect(r) \/ ClaimNothing(r) \/ ClaimActive(r)
             \/ RequeueLock(r) \/ RequeueActive(r) \/ TickFail(r)
    <3>1. TypeOK'
      BY <1>1, <2>2, QuietSteps
    <3>2. st' = st
      BY <2>2 DEF RefreshIndex, TickBegin, ClaimSelect, ClaimNothing, ClaimActive, RequeueLock,
                  RequeueActive, TickFail
    <3> QED BY <1>3, <3>1, <3>2
  <2> QED BY <1>6, <2>1, <2>2 DEF TickStep
<1>7. ASSUME NEW s \in Starters, CreateStep(s) PROVE TInv' /\ Apart(st, st')
  <2>1. TypeOK'
    BY <1>1, <1>7, QuietSteps DEF CreateStep
  <2>2. st' = st
    BY <1>7 DEF CreateStep, CreateExclusive, CreateConcurrent, CreateBusy, CreateCommit
  <2> QED BY <1>3, <2>1, <2>2
<1>8. ASSUME NEW x \in Runs, FinishStep(x) PROVE TInv' /\ Apart(st, st')
  <2>1. CASE FinishCommit(x)
    BY <1>4, <2>1, RowSteps
  <2>2. CASE FinishSelect(x) \/ PruneRun(x)
    <3>1. TypeOK'
      BY <1>1, <2>2, QuietSteps
    <3>2. st' = st
      BY <2>2 DEF FinishSelect, PruneRun
    <3> QED BY <1>3, <3>1, <3>2
  <2> QED BY <1>8, <2>1, <2>2 DEF FinishStep
<1>9. ASSUME RunNow \/ (\E t \in Settings : SaveBegin(t)) \/ ClockTick PROVE TInv' /\ Apart(st, st')
  <2>1. TypeOK'
    BY <1>1, <1>9, QuietRequests
  <2>2. st' = st
    BY <1>9 DEF RunNow, SaveBegin, ClockTick
  <2> QED BY <1>3, <2>1, <2>2
<1>10. ASSUME SaveCommit PROVE TInv' /\ Apart(st, st')
  BY <1>4, <1>10, RowSteps
<1>11. ASSUME UNCHANGED vars PROVE TInv' /\ Apart(st, st')
  <2>1. TypeOK' /\ st' = st
    BY <1>1, <1>11 DEF vars, TypeOK
  <2> QED BY <1>3, <2>1
<1> QED BY <1>5, <1>6, <1>7, <1>8, <1>9, <1>10, <1>11 DEF Next

\* Rows, locks and transactions keep their types.
THEOREM TriggerTypeCorrect == Spec => []TypeOK
<1>1. Init => TInv
  BY InitKeeps
<1>2. TInv /\ [Next]_vars => TInv'
  BY TriggerStep
<1>3. TInv => TypeOK
  BY DEF TInv
<1> QED BY <1>1, <1>2, <1>3, PTL DEF Spec

\* A burst is never stranded, through every requeue, release and change of settings.
THEOREM BurstsHaveExits == Spec => []BurstHasExit
<1>1. Init => TInv
  BY InitKeeps
<1>2. TInv /\ [Next]_vars => TInv'
  BY TriggerStep
<1>3. TInv => BurstHasExit
  BY DEF TInv, RowInv, ExitOf, BurstHasExit
<1> QED BY <1>1, <1>2, <1>3, PTL DEF Spec

\* A timer respects the gap and the longest wait, whatever stale clock reading or
\* settings the transaction that set it had.
THEOREM TimersInWindow == Spec => []TimerInWindow
<1>1. Init => TInv
  BY InitKeeps
<1>2. TInv /\ [Next]_vars => TInv'
  BY TriggerStep
<1>3. TInv => TimerInWindow
  BY DEF TInv, RowInv, WindowOf, TimerInWindow
<1> QED BY <1>1, <1>2, <1>3, PTL DEF Spec

\* Two fires are at least the smallest configured gap apart.
THEOREM FiresApart == Spec => FiresKeepTheirDistance
<1>1. Init => TInv
  BY InitKeeps
<1>2. TInv /\ [Next]_vars => TInv'
  BY TriggerStep
<1>3. TInv /\ [Next]_vars =>
        [st'.last_fired # st.last_fired =>
           /\ st'.last_fired # NoTime
           /\ st.last_fired # NoTime => st'.last_fired >= st.last_fired + MinGap]_st
  BY TriggerStep DEF Apart
<1> QED BY <1>1, <1>2, <1>3, PTL DEF Spec, FiresKeepTheirDistance

-----------------------------------------------------------------------------
(* The books: where every recorded event is *)

\* The events rec that were recorded are each in exactly one place: the row, one
\* hand, one run, or closed.
Books(row, hand, ran, closed, rec) ==
    \A e \in Events :
        /\ e \in rec <=> \/ e \in row \/ e \in closed
                         \/ \E s \in Starters : e \in hand[s]
                         \/ \E x \in Runs : e \in ran[x]
        /\ \A q, s \in Starters : e \in hand[q] /\ e \in hand[s] => q = s
        /\ \A x, y \in Runs : e \in ran[x] /\ e \in ran[y] => x = y
        /\ e \in row => e \notin closed
        /\ \A s \in Starters : e \in hand[s] => e \notin row /\ e \notin closed
        /\ \A x \in Runs : e \in ran[x] => /\ e \notin row /\ e \notin closed
                                           /\ \A s \in Starters : e \notin hand[s]

Hand == [s \in Starters |-> tick[s].fired]
Ran  == [x \in Runs |-> run[x].events]

\* A new event enters the books once, and every other rule moves a whole set of
\* events from one place to another.
LEMMA BooksKept ==
    ASSUME NEW row, NEW closed, NEW rec,
           NEW hand \in [Starters -> SUBSET Events], NEW ran \in [Runs -> SUBSET Events],
           Books(row, hand, ran, closed, rec)
    PROVE  /\ \A e \in Events \ rec : /\ Books(row \cup {e}, hand, ran, closed, rec \cup {e})
                                      /\ Books(row, hand, ran, closed \cup {e}, rec \cup {e})
           /\ Books({}, hand, ran, closed \cup row, rec)
           /\ \A s \in Starters :
                 /\ hand[s] = {} => Books({}, [hand EXCEPT ![s] = row], ran, closed, rec)
                 /\ Books(row \cup hand[s], [hand EXCEPT ![s] = {}], ran, closed, rec)
                 /\ Books(row, [hand EXCEPT ![s] = {}], ran, closed \cup hand[s], rec)
                 /\ \A x \in Runs : ran[x] = {} =>
                       Books(row, [hand EXCEPT ![s] = {}], [ran EXCEPT ![x] = hand[s]], closed, rec)
           /\ \A x \in Runs : Books(row, hand, [ran EXCEPT ![x] = {}], closed \cup ran[x], rec)
<1>1. ASSUME NEW e \in Events \ rec PROVE Books(row \cup {e}, hand, ran, closed, rec \cup {e})
  BY <1>1 DEF Books
<1>2. ASSUME NEW e \in Events \ rec PROVE Books(row, hand, ran, closed \cup {e}, rec \cup {e})
  BY <1>2 DEF Books
<1>3. Books({}, hand, ran, closed \cup row, rec)
  BY DEF Books
<1>4. ASSUME NEW s \in Starters, hand[s] = {} PROVE Books({}, [hand EXCEPT ![s] = row], ran, closed, rec)
  BY <1>4 DEF Books
<1>5. ASSUME NEW s \in Starters PROVE Books(row \cup hand[s], [hand EXCEPT ![s] = {}], ran, closed, rec)
  BY <1>5 DEF Books
<1>6. ASSUME NEW s \in Starters PROVE Books(row, [hand EXCEPT ![s] = {}], ran, closed \cup hand[s], rec)
  BY <1>6 DEF Books
<1>7. ASSUME NEW s \in Starters, NEW x \in Runs, ran[x] = {}
      PROVE  Books(row, [hand EXCEPT ![s] = {}], [ran EXCEPT ![x] = hand[s]], closed, rec)
  BY <1>7 DEF Books
<1>8. ASSUME NEW x \in Runs PROVE Books(row, hand, [ran EXCEPT ![x] = {}], closed \cup ran[x], rec)
  BY <1>8 DEF Books
<1> QED BY <1>1, <1>2, <1>3, <1>4, <1>5, <1>6, <1>7, <1>8

\* What the rules do to the events of a row.
LEMMA RowBooks ==
    ASSUME NEW s \in TriggerRows, NEW t \in Settings, NEW now \in Nat
    PROVE  /\ \A e \in Events, own \in BOOLEAN, active \in BOOLEAN :
                 LET n == ingest(s, t, e, now, own, active)
                 IN  \/ /\ n.events = s.events \cup {e}
                        /\ n.skipped \cup n.ignored = s.skipped \cup s.ignored
                     \/ /\ n.events = s.events
                        /\ n.skipped \cup n.ignored = s.skipped \cup s.ignored \cup {e}
           /\ LET n == on_missed_events(s, t, now)
              IN  n.events = s.events /\ n.skipped = s.skipped /\ n.ignored = s.ignored
           /\ LET n == on_run_finished(s, t, now)
              IN  n.events = s.events /\ n.skipped = s.skipped /\ n.ignored = s.ignored
           /\ \A active \in BOOLEAN :
                 LET n == on_due(s, t, now, active)
                 IN  /\ n.ignored = s.ignored
                     /\ ~Held(t, active) => n.events = {} /\ n.skipped = s.skipped
                     /\ Held(t, active) =>
                          \/ n.events = s.events /\ n.skipped = s.skipped
                          \/ n.events = {} /\ n.skipped = s.skipped \cup s.events
           /\ \A fired \in SUBSET Events, missed \in BOOLEAN :
                 LET n == requeue(s, t, fired, missed)
                 IN  /\ n.ignored = s.ignored
                     /\ \/ n.events = s.events \cup fired /\ n.skipped = s.skipped
                        \/ n.events = s.events /\ n.skipped = s.skipped \cup fired
           /\ LET n == reset_pending(s)
              IN  n.events = {} /\ n.skipped = s.skipped /\ n.ignored = s.ignored
<1>1. ASSUME NEW e \in Events, NEW own \in BOOLEAN, NEW active \in BOOLEAN
      PROVE  LET n == ingest(s, t, e, now, own, active)
             IN  \/ /\ n.events = s.events \cup {e}
                    /\ n.skipped \cup n.ignored = s.skipped \cup s.ignored
                 \/ /\ n.events = s.events
                    /\ n.skipped \cup n.ignored = s.skipped \cup s.ignored \cup {e}
  BY SettingFields DEF ingest, TriggerRows
<1>2. LET n == on_missed_events(s, t, now)
      IN  n.events = s.events /\ n.skipped = s.skipped /\ n.ignored = s.ignored
  BY DEF on_missed_events, TriggerRows
<1>3. LET n == on_run_finished(s, t, now)
      IN  n.events = s.events /\ n.skipped = s.skipped /\ n.ignored = s.ignored
  BY DEF on_run_finished, TriggerRows
<1>4. ASSUME NEW active \in BOOLEAN
      PROVE  LET n == on_due(s, t, now, active)
             IN  /\ n.ignored = s.ignored
                 /\ ~Held(t, active) => n.events = {} /\ n.skipped = s.skipped
                 /\ Held(t, active) =>
                      \/ n.events = s.events /\ n.skipped = s.skipped
                      \/ n.events = {} /\ n.skipped = s.skipped \cup s.events
  BY SettingFields DEF on_due, reset_pending, TriggerRows
<1>5. ASSUME NEW fired \in SUBSET Events, NEW missed \in BOOLEAN
      PROVE  LET n == requeue(s, t, fired, missed)
             IN  /\ n.ignored = s.ignored
                 /\ \/ n.events = s.events \cup fired /\ n.skipped = s.skipped
                    \/ n.events = s.events /\ n.skipped = s.skipped \cup fired
  BY DEF requeue, TriggerRows
<1>6. LET n == reset_pending(s)
      IN  n.events = {} /\ n.skipped = s.skipped /\ n.ignored = s.ignored
  BY DEF reset_pending, TriggerRows
<1> QED BY <1>1, <1>2, <1>3, <1>4, <1>5, <1>6

\* A tick holds events only from its claim until they are in a run, in the row or
\* given up; a run started by hand carries none; an unused id has none.
HandsOpen ==
    /\ \A s \in Starters :
          s = Api \/ tick[s].pc \in {"idle", "claim", "locked", "decided", "reindex"} =>
              tick[s].fired = {}
    /\ \A x \in Runs : run[x].status = "none" => run[x].events = {}

BInv == TInv /\ HandsOpen /\ Books(st.events, Hand, Ran, Closed, seen)

\* A tick that moves on without handing events over.
LEMMA SameHands ==
    ASSUME TypeOK, HandsOpen,
           \/ \E r \in Replicas :
                 \/ RefreshIndex(r) \/ TickBegin(r) \/ ClaimSelect(r) \/ ClaimNothing(r)
                 \/ ClaimActive(r) \/ RequeueActive(r) \/ (RequeueLock(r) /\ pipe.enabled)
           \/ \E s \in Starters : CreateExclusive(s) \/ CreateConcurrent(s) \/ CreateBusy(s)
           \/ RunNow
    PROVE  HandsOpen' /\ Hand' = Hand
<1>0. tick \in [Starters -> TickTxn] /\ Replicas \subseteq Starters /\ Api \in Starters /\ Api \notin Replicas
  BY NamesAssumption DEF TypeOK, Starters
<1>1. run' = run
  BY DEF RefreshIndex, TickBegin, ClaimSelect, ClaimNothing, ClaimActive, RequeueActive, RequeueLock,
         CreateExclusive, CreateConcurrent, CreateBusy, RunNow
<1>2. ASSUME NEW s \in Starters, \A q \in Starters \ {s} : tick'[q] = tick[q],
             tick'[s].fired = tick[s].fired,
             tick'[s].pc \in {"idle", "claim", "locked", "decided", "reindex"} => tick[s].fired = {}
      PROVE  HandsOpen' /\ Hand' = Hand
  <2>1. \A q \in Starters : tick'[q].fired = tick[q].fired
    BY <1>2
  <2>2. Hand' = Hand
    BY <2>1 DEF Hand
  <2>3. HandsOpen'
    BY <1>1, <1>2, <2>1 DEF HandsOpen
  <2> QED BY <2>2, <2>3
<1>3. ASSUME NEW r \in Replicas, RefreshIndex(r) PROVE HandsOpen' /\ Hand' = Hand
  BY <1>0, <1>2, <1>3 DEF RefreshIndex, IdleTick, HandsOpen
<1>4. ASSUME NEW r \in Replicas, TickBegin(r) PROVE HandsOpen' /\ Hand' = Hand
  <2>1. tick[r].fired = {}
    BY <1>0, <1>4 DEF TickBegin, HandsOpen
  <2>2. tick'[r].fired = tick[r].fired /\ \A q \in Starters \ {r} : tick'[q] = tick[q]
    BY <1>0, <1>4 DEF TickBegin, TickTxn
  <2> QED BY <1>0, <1>2, <2>1, <2>2
<1>5. ASSUME NEW r \in Replicas, ClaimSelect(r) PROVE HandsOpen' /\ Hand' = Hand
  <2>1. tick[r].fired = {}
    BY <1>0, <1>5 DEF ClaimSelect, HandsOpen
  <2>2. tick'[r].fired = tick[r].fired /\ \A q \in Starters \ {r} : tick'[q] = tick[q]
    BY <1>0, <1>5 DEF ClaimSelect, TickTxn
  <2> QED BY <1>0, <1>2, <2>1, <2>2
<1>6. ASSUME NEW r \in Replicas, ClaimNothing(r) PROVE HandsOpen' /\ Hand' = Hand
  BY <1>0, <1>2, <1>6 DEF ClaimNothing, Reindex, IdleTick, HandsOpen
<1>7. ASSUME NEW r \in Replicas, ClaimActive(r) PROVE HandsOpen' /\ Hand' = Hand
  <2>1. tick[r].fired = {}
    BY <1>0, <1>7 DEF ClaimActive, HandsOpen
  <2>2. tick'[r].fired = tick[r].fired /\ \A q \in Starters \ {r} : tick'[q] = tick[q]
    BY <1>0, <1>7 DEF ClaimActive, TickTxn
  <2> QED BY <1>0, <1>2, <2>1, <2>2
<1>8. ASSUME NEW r \in Replicas, RequeueActive(r) PROVE HandsOpen' /\ Hand' = Hand
  <2>1. tick'[r].fired = tick[r].fired /\ tick'[r].pc = "redecided"
    BY <1>0, <1>8 DEF RequeueActive, TickTxn
  <2>2. \A q \in Starters \ {r} : tick'[q] = tick[q]
    BY <1>0, <1>8 DEF RequeueActive, TickTxn
  <2> QED BY <1>0, <1>2, <2>1, <2>2
<1>9. ASSUME NEW r \in Replicas, RequeueLock(r), pipe.enabled PROVE HandsOpen' /\ Hand' = Hand
  <2>1. PICK now \in Now : tick' = [tick EXCEPT ![r].pc = "relocked", ![r].t = pipe, ![r].now = now]
    BY <1>9 DEF RequeueLock
  <2>2. tick'[r].fired = tick[r].fired /\ tick'[r].pc = "relocked"
    BY <1>0, <2>1 DEF TickTxn
  <2>3. \A q \in Starters \ {r} : tick'[q] = tick[q]
    BY <1>0, <2>1 DEF TickTxn
  <2> QED BY <1>0, <1>2, <2>2, <2>3
<1>10. ASSUME NEW s \in Starters, CreateExclusive(s) \/ CreateConcurrent(s) PROVE HandsOpen' /\ Hand' = Hand
  <2>1. tick'[s].fired = tick[s].fired /\ tick'[s].pc = "insert"
    BY <1>0, <1>10 DEF CreateExclusive, CreateConcurrent, TickTxn
  <2>2. \A q \in Starters \ {s} : tick'[q] = tick[q]
    BY <1>0, <1>10 DEF CreateExclusive, CreateConcurrent, TickTxn
  <2> QED BY <1>2, <2>1, <2>2
<1>11. ASSUME NEW s \in Starters, CreateBusy(s) PROVE HandsOpen' /\ Hand' = Hand
  <2>1. \A q \in Starters \ {s} : tick'[q] = tick[q]
    BY <1>0, <1>11 DEF CreateBusy
  <2>2. CASE s = Api
    BY <1>0, <1>2, <1>11, <2>1, <2>2 DEF CreateBusy, IdleTick, HandsOpen
  <2>3. CASE s # Api
    <3>1. tick'[s].fired = tick[s].fired /\ tick'[s].pc = "busy"
      BY <1>0, <1>11, <2>3 DEF CreateBusy, TickTxn
    <3> QED BY <1>2, <2>1, <3>1
  <2> QED BY <2>2, <2>3
<1>12. ASSUME RunNow PROVE HandsOpen' /\ Hand' = Hand
  <2>1. tick'[Api].fired = tick[Api].fired /\ tick'[Api].pc = "start"
    BY <1>0, <1>12 DEF RunNow, TickTxn
  <2>2. \A q \in Starters \ {Api} : tick'[q] = tick[q]
    BY <1>0, <1>12 DEF RunNow, TickTxn
  <2> QED BY <1>0, <1>2, <2>1, <2>2
<1> QED BY <1>3, <1>4, <1>5, <1>6, <1>7, <1>8, <1>9, <1>10, <1>11, <1>12

\* A transaction of an ingest, a finish, a save or retention moves whole sets of events.
LEMMA BookSteps ==
    ASSUME BInv
    PROVE  /\ \A r \in Replicas : IngestStep(r) => HandsOpen' /\ Books(st.events, Hand, Ran, Closed, seen)'
           /\ \A x \in Runs : FinishStep(x) => HandsOpen' /\ Books(st.events, Hand, Ran, Closed, seen)'
           /\ SaveCommit => HandsOpen' /\ Books(st.events, Hand, Ran, Closed, seen)'
<1> DEFINE Kept == HandsOpen' /\ Books(st.events, Hand, Ran, Closed, seen)'
<1>0. /\ TypeOK /\ HandsOpen /\ IngestsAreFresh /\ Books(st.events, Hand, Ran, Closed, seen)
      /\ st \in TriggerRows /\ run \in [Runs -> [status : RunStatus, events : SUBSET Events]]
      /\ \A r \in Replicas : ing[r] \in IngestTxn
      /\ \A x \in Runs : fin[x] \in FinTxn
  BY DEF BInv, TInv, TypeOK
<1>1. Hand \in [Starters -> SUBSET Events] /\ Ran \in [Runs -> SUBSET Events]
  BY <1>0 DEF Hand, Ran, TypeOK, TickTxn
<1>2. ASSUME UNCHANGED <<tick, run>>
      PROVE  HandsOpen' /\ Hand' = Hand /\ Ran' = Ran
  BY <1>0, <1>2 DEF HandsOpen, Hand, Ran
<1>3. ASSUME UNCHANGED <<tick, run, seen>>, st'.events = st.events, Closed' = Closed
      PROVE  Kept
  BY <1>0, <1>2, <1>3
<1>4. ASSUME NEW r \in Replicas, NEW e \in Events, IngestLock(r, e) PROVE Kept
  <2>1. CASE pipe.enabled
    BY <1>3, <1>4, <2>1 DEF IngestLock, Closed
  <2>2. CASE ~pipe.enabled
    <3>1. /\ UNCHANGED <<tick, run, st>> /\ Closed' = Closed \cup {e}
          /\ seen' = seen \cup {e} /\ e \notin seen
      BY <1>4, <2>2 DEF IngestLock, Closed
    <3> QED BY <1>0, <1>1, <1>2, <3>1, BooksKept
  <2> QED BY <2>1, <2>2
<1>5. ASSUME NEW r \in Replicas, IngestActive(r) \/ MissedLock(r) \/ IngestFail(r) PROVE Kept
  BY <1>3, <1>5 DEF IngestActive, MissedLock, IngestFail, ghosts, Closed
<1>6. ASSUME NEW r \in Replicas, IngestCommit(r) PROVE Kept
  <2> DEFINE x == ing[r]
             own == x.ev \in OwnEvents
             n == ingest(st, x.t, x.ev, x.now, own, x.active)
  <2>1. /\ x.t \in Settings /\ x.now \in Nat /\ x.active \in BOOLEAN
        /\ x.ev \in Events \ seen /\ own \in BOOLEAN
    BY <1>0, <1>6 DEF IngestTxn, IngestCommit, IngestsAreFresh
  <2>2. \/ /\ n.events = st.events \cup {x.ev}
           /\ n.skipped \cup n.ignored = st.skipped \cup st.ignored
        \/ /\ n.events = st.events
           /\ n.skipped \cup n.ignored = st.skipped \cup st.ignored \cup {x.ev}
    <3> HIDE DEF x, own
    <3> QED BY <1>0, <2>1, RowBooks
  <2>3. n \in TriggerRows
    <3> QED BY <1>0, <2>1, FireAtKeeps, SettingFields DEF ingest, TriggerRows, Times
  <2>4. /\ st'.events = n.events /\ st'.skipped = n.skipped /\ st'.ignored = n.ignored
        /\ UNCHANGED <<tick, run, pruned, dropped, lost>> /\ seen' = seen \cup {x.ev}
    BY <1>6, <2>3 DEF IngestCommit, ghosts, TriggerRows
  <2> HIDE DEF x, n
  <2>5. \/ st'.events = st.events \cup {x.ev} /\ Closed' = Closed
        \/ st'.events = st.events /\ Closed' = Closed \cup {x.ev}
    BY <2>2, <2>4 DEF Closed
  <2>6. /\ Books(st.events \cup {x.ev}, Hand, Ran, Closed, seen \cup {x.ev})
        /\ Books(st.events, Hand, Ran, Closed \cup {x.ev}, seen \cup {x.ev})
    BY <1>0, <1>1, <2>1, BooksKept
  <2> QED BY <1>2, <2>4, <2>5, <2>6
<1>7. ASSUME NEW r \in Replicas, MissedCommit(r) PROVE Kept
  <2> DEFINE n == on_missed_events(st, ing[r].t, ing[r].now)
  <2>1. ing[r].t \in Settings /\ ing[r].now \in Nat
    BY <1>0 DEF IngestTxn
  <2>2. n.events = st.events /\ n.skipped = st.skipped /\ n.ignored = st.ignored
    BY <1>0, <2>1, RowBooks
  <2>3. /\ st'.events = n.events /\ st'.skipped = n.skipped /\ st'.ignored = n.ignored
        /\ UNCHANGED <<tick, run, seen, pruned, dropped, lost>>
    BY <1>0, <1>7 DEF MissedCommit, ghosts, TriggerRows, on_missed_events
  <2> QED BY <1>3, <2>2, <2>3 DEF Closed
<1>8. ASSUME NEW x \in Runs, FinishSelect(x) PROVE Kept
  BY <1>3, <1>8 DEF FinishSelect, ghosts, Closed
<1>9. ASSUME NEW x \in Runs, FinishCommit(x) PROVE Kept
  <2>1. fin[x].t \in Settings /\ fin[x].now \in Nat
    BY <1>0 DEF FinTxn
  <2>2. st'.events = st.events /\ st'.skipped = st.skipped /\ st'.ignored = st.ignored
    BY <1>0, <1>9, <2>1, RowBooks DEF FinishCommit
  <2>3. /\ UNCHANGED <<tick, seen, pruned, dropped, lost>>
        /\ \A y \in Runs : /\ run'[y].events = run[y].events
                           /\ run'[y].status = "none" => run[y].status = "none"
    BY <1>0, <1>9 DEF FinishCommit, ghosts
  <2>4. Closed' = Closed /\ Hand' = Hand /\ Ran' = Ran /\ HandsOpen'
    BY <1>0, <2>2, <2>3 DEF Closed, Hand, Ran, HandsOpen
  <2> QED BY <1>0, <2>2, <2>3, <2>4
<1>10. ASSUME NEW x \in Runs, PruneRun(x) PROVE Kept
  <2>1. /\ UNCHANGED <<tick, seen, st, dropped, lost>> /\ pruned' = pruned \cup run[x].events
        /\ run' = [run EXCEPT ![x] = [status |-> "none", events |-> {}]]
    BY <1>10 DEF PruneRun
  <2>2. /\ Hand' = Hand /\ Ran' = [Ran EXCEPT ![x] = {}] /\ HandsOpen'
        /\ Closed' = Closed \cup Ran[x]
    BY <1>0, <2>1 DEF Closed, Hand, Ran, HandsOpen
  <2> QED BY <1>0, <1>1, <2>1, <2>2, BooksKept
<1>11. ASSUME SaveCommit PROVE Kept
  <2>1. CASE ~sched.t.enabled /\ st.exists
    <3>1. /\ st' = reset_pending(st) /\ dropped' = dropped \cup st.events
          /\ UNCHANGED <<tick, run, seen, pruned, lost>>
      BY <1>11, <2>1 DEF SaveCommit
    <3>2. st'.events = {} /\ st'.skipped = st.skipped /\ st'.ignored = st.ignored
      BY <1>0, <3>1 DEF reset_pending, TriggerRows
    <3>3. Closed' = Closed \cup st.events
      BY <3>1, <3>2 DEF Closed
    <3>4. Books({}, Hand, Ran, Closed \cup st.events, seen)
      BY <1>0, <1>1, BooksKept
    <3> QED BY <1>2, <3>1, <3>2, <3>3, <3>4
  <2>2. CASE ~(~sched.t.enabled /\ st.exists)
    BY <1>3, <1>11, <2>2 DEF SaveCommit, Closed
  <2> QED BY <2>1, <2>2
<1> QED BY <1>4, <1>5, <1>6, <1>7, <1>8, <1>9, <1>10, <1>11 DEF IngestStep, FinishStep

\* So does a tick: its claim takes the burst out of the row, its run, its requeue,
\* a switched-off trigger or its death takes it out of its hands.
LEMMA BookTicks ==
    ASSUME BInv
    PROVE  /\ \A r \in Replicas : TickStep(r) => HandsOpen' /\ Books(st.events, Hand, Ran, Closed, seen)'
           /\ \A s \in Starters : CreateStep(s) => HandsOpen' /\ Books(st.events, Hand, Ran, Closed, seen)'
           /\ RunNow => HandsOpen' /\ Books(st.events, Hand, Ran, Closed, seen)'
<1> DEFINE Kept == HandsOpen' /\ Books(st.events, Hand, Ran, Closed, seen)'
<1>0. /\ TypeOK /\ HandsOpen /\ Books(st.events, Hand, Ran, Closed, seen)
      /\ st \in TriggerRows /\ tick \in [Starters -> TickTxn]
      /\ run \in [Runs -> [status : RunStatus, events : SUBSET Events]]
      /\ Replicas \subseteq Starters
  BY DEF BInv, TInv, TypeOK, Starters
<1>1. Hand \in [Starters -> SUBSET Events] /\ Ran \in [Runs -> SUBSET Events]
  BY <1>0 DEF Hand, Ran, TickTxn
<1>2. ASSUME UNCHANGED <<st, run, seen, pruned, dropped, lost>>, HandsOpen', Hand' = Hand
      PROVE  Kept
  <2>1. Closed' = Closed /\ Ran' = Ran
    BY <1>2 DEF Closed, Ran
  <2> QED BY <1>0, <1>2, <2>1
<1>3. ASSUME NEW s \in Starters, NEW n \in TickTxn, tick' = [tick EXCEPT ![s] = n],
             s = Api \/ n.pc \in {"idle", "claim", "locked", "decided", "reindex"} => n.fired = {}
      PROVE  /\ Hand' = [Hand EXCEPT ![s] = n.fired]
             /\ run' = run => HandsOpen'
  BY <1>0, <1>3 DEF Hand, HandsOpen
<1>4. /\ IdleTick \in TickTxn /\ IdleTick.fired = {}
      /\ Reindex \in TickTxn /\ Reindex.fired = {}
  BY <1>0, IdleRecords DEF IdleTick, Reindex
<1>5. ASSUME NEW r \in Replicas,
             \/ RefreshIndex(r) \/ TickBegin(r) \/ ClaimSelect(r) \/ ClaimNothing(r)
             \/ ClaimActive(r) \/ RequeueActive(r) \/ (RequeueLock(r) /\ pipe.enabled)
      PROVE  Kept
  <2>1. HandsOpen' /\ Hand' = Hand
    BY <1>0, <1>5, SameHands
  <2>2. UNCHANGED <<st, run, seen, pruned, dropped, lost>>
    BY <1>5 DEF RefreshIndex, TickBegin, ClaimSelect, ClaimNothing, ClaimActive, RequeueActive,
                RequeueLock, ghosts
  <2> QED BY <1>2, <2>1, <2>2
<1>6. ASSUME NEW s \in Starters, CreateExclusive(s) \/ CreateConcurrent(s) \/ CreateBusy(s) PROVE Kept
  <2>1. HandsOpen' /\ Hand' = Hand
    BY <1>0, <1>6, SameHands
  <2>2. UNCHANGED <<st, run, seen, pruned, dropped, lost>>
    BY <1>6 DEF CreateExclusive, CreateConcurrent, CreateBusy, ghosts
  <2> QED BY <1>2, <2>1, <2>2
<1>7. ASSUME RunNow PROVE Kept
  <2>1. HandsOpen' /\ Hand' = Hand
    BY <1>0, <1>7, SameHands
  <2>2. UNCHANGED <<st, run, seen, pruned, dropped, lost>>
    BY <1>7 DEF RunNow
  <2> QED BY <1>2, <2>1, <2>2
<1>8. ASSUME NEW r \in Replicas, ClaimCommit(r) PROVE Kept
  <2> DEFINE x      == tick[r]
             row    == Released(st, x)
             notYet == row.fire_at = NoTime \/ row.fire_at > x.now
             held   == Held(x.t, x.active)
             n      == IF ~notYet /\ ~held
                       THEN [x EXCEPT !.pc = "start", !.fired = st.events, !.missed = st.missed]
                       ELSE Reindex
  <2>1. x \in TickTxn /\ x.t \in Settings /\ x.now \in Nat /\ x.active \in BOOLEAN /\ r \in Starters
    BY <1>0 DEF TickTxn
  <2>2. /\ row \in TriggerRows
        /\ row.events = st.events /\ row.skipped = st.skipped /\ row.ignored = st.ignored
    <3>1. RowInv(st)
      BY DEF BInv, TInv
    <3> HIDE DEF x
    <3> QED BY <1>0, <2>1, <3>1, RowBooks, ReleaseKeeps DEF Released, RowInv
  <2>3. /\ st' = IF notYet THEN row ELSE on_due(row, x.t, x.now, x.active)
        /\ tick' = [tick EXCEPT ![r] = n]
        /\ UNCHANGED <<run, seen, pruned, dropped, lost>>
    BY <1>8 DEF ClaimCommit, ghosts
  <2>4. Hand[r] = {}
    BY <1>0, <1>8, <2>1 DEF ClaimCommit, HandsOpen, Hand
  <2>5. n \in TickTxn /\ n.fired = IF ~notYet /\ ~held THEN st.events ELSE {}
    BY <1>0, <1>4, <2>1 DEF TickTxn, TickPc, TriggerRows
  <2>6. r = Api \/ n.pc \in {"idle", "claim", "locked", "decided", "reindex"} => n.fired = {}
    BY <1>0, <1>4, <2>1, NamesAssumption DEF TickTxn
  <2> HIDE DEF x, row, notYet, held, n
  <2>7. HandsOpen' /\ Hand' = [Hand EXCEPT ![r] = n.fired] /\ Ran' = Ran
    BY <1>3, <2>1, <2>3, <2>5, <2>6 DEF Ran
  <2>8. CASE ~notYet /\ ~held
    <3>1. st'.events = {} /\ Closed' = Closed
      BY <2>1, <2>2, <2>3, <2>8, RowBooks DEF held, Closed
    <3>2. Books({}, [Hand EXCEPT ![r] = st.events], Ran, Closed, seen)
      BY <1>0, <1>1, <2>1, <2>4, BooksKept
    <3> QED BY <2>3, <2>5, <2>7, <2>8, <3>1, <3>2
  <2>9. CASE notYet \/ held
    <3>1. Hand' = Hand
      BY <1>1, <2>4, <2>5, <2>7, <2>9
    <3>2. \/ st'.events = st.events /\ Closed' = Closed
          \/ st'.events = {} /\ Closed' = Closed \cup st.events
      BY <2>1, <2>2, <2>3, <2>9, RowBooks DEF held, Closed
    <3>3. Books({}, Hand, Ran, Closed \cup st.events, seen)
      BY <1>0, <1>1, BooksKept
    <3> QED BY <1>0, <2>3, <2>7, <3>1, <3>2, <3>3
  <2> QED BY <2>8, <2>9
<1>9. ASSUME NEW r \in Replicas, RequeueLock(r), ~pipe.enabled PROVE Kept
  <2>1. /\ tick' = [tick EXCEPT ![r] = Reindex] /\ dropped' = dropped \cup tick[r].fired
        /\ UNCHANGED <<st, run, seen, pruned, lost>>
    BY <1>9 DEF RequeueLock
  <2>2. HandsOpen' /\ Hand' = [Hand EXCEPT ![r] = {}] /\ Ran' = Ran
    BY <1>0, <1>3, <1>4, <2>1 DEF Ran
  <2>3. Closed' = Closed \cup Hand[r]
    BY <1>0, <2>1 DEF Closed, Hand
  <2>4. Books(st.events, [Hand EXCEPT ![r] = {}], Ran, Closed \cup Hand[r], seen)
    BY <1>0, <1>1, BooksKept
  <2> QED BY <2>1, <2>2, <2>3, <2>4
<1>10. ASSUME NEW r \in Replicas, RequeueCommit(r) PROVE Kept
  <2> DEFINE x   == tick[r]
             row == requeue(st, x.t, x.fired, x.missed)
  <2>1. /\ x.t \in Settings /\ x.now \in Nat /\ x.fired \in SUBSET Events /\ x.missed \in BOOLEAN
        /\ r \in Starters /\ Hand[r] = x.fired
    BY <1>0 DEF TickTxn, Hand
  <2>2. /\ row \in TriggerRows /\ row.ignored = st.ignored
        /\ \/ row.events = st.events \cup x.fired /\ row.skipped = st.skipped
           \/ row.events = st.events /\ row.skipped = st.skipped \cup x.fired
    <3>1. RowInv(st)
      BY DEF BInv, TInv
    <3> HIDE DEF x
    <3>2. row \in TriggerRows
      BY <2>1, <3>1, RequeueKeeps DEF RowInv
    <3> QED BY <1>0, <2>1, <3>2 DEF requeue, TriggerRows
  <2>3. /\ st' = IF x.active THEN row ELSE on_run_finished(row, x.t, x.now)
        /\ tick' = [tick EXCEPT ![r] = Reindex]
        /\ UNCHANGED <<run, seen, pruned, dropped, lost>>
    BY <1>10 DEF RequeueCommit, ghosts
  <2>4. HandsOpen' /\ Hand' = [Hand EXCEPT ![r] = {}] /\ Ran' = Ran
    BY <1>3, <1>4, <2>1, <2>3 DEF Ran
  <2> HIDE DEF x, row
  <2>5. st'.events = row.events /\ st'.skipped = row.skipped /\ st'.ignored = row.ignored
    BY <2>1, <2>2, <2>3, RowBooks
  <2>6. \/ st'.events = st.events \cup Hand[r] /\ Closed' = Closed
        \/ st'.events = st.events /\ Closed' = Closed \cup Hand[r]
    BY <2>1, <2>2, <2>3, <2>5 DEF Closed
  <2>7. /\ Books(st.events, [Hand EXCEPT ![r] = {}], Ran, Closed \cup Hand[r], seen)
        /\ Books(st.events \cup Hand[r], [Hand EXCEPT ![r] = {}], Ran, Closed, seen)
    BY <1>0, <1>1, <2>1, BooksKept
  <2> QED BY <2>3, <2>4, <2>6, <2>7
<1>11. ASSUME NEW r \in Replicas, TickFail(r) PROVE Kept
  <2>1. /\ tick' = [tick EXCEPT ![r] = IdleTick] /\ lost' = lost \cup tick[r].fired
        /\ UNCHANGED <<st, run, seen, pruned, dropped>>
    BY <1>11 DEF TickFail
  <2>2. HandsOpen' /\ Hand' = [Hand EXCEPT ![r] = {}] /\ Ran' = Ran
    BY <1>0, <1>3, <1>4, <2>1 DEF Ran
  <2>3. Closed' = Closed \cup Hand[r]
    BY <1>0, <2>1 DEF Closed, Hand
  <2>4. Books(st.events, [Hand EXCEPT ![r] = {}], Ran, Closed \cup Hand[r], seen)
    BY <1>0, <1>1, BooksKept
  <2> QED BY <2>1, <2>2, <2>3, <2>4
<1>12. ASSUME NEW s \in Starters, NEW x \in Runs, CreateCommit(s, x) PROVE Kept
  <2>1. /\ run' = [run EXCEPT ![x] = [status |-> "active", events |-> tick[s].fired]]
        /\ run[x].status = "none" /\ UNCHANGED <<st, seen, pruned, dropped, lost>>
    BY <1>12 DEF CreateCommit, ghosts
  <2>2. PICK n \in {IdleTick, Reindex} : tick' = [tick EXCEPT ![s] = n]
    BY <1>12 DEF CreateCommit
  <2>3. n \in TickTxn /\ n.fired = {}
    BY <1>4
  <2>4. Hand' = [Hand EXCEPT ![s] = {}] /\ Closed' = Closed
    BY <1>3, <2>1, <2>2, <2>3 DEF Closed
  <2>5. Ran' = [Ran EXCEPT ![x] = Hand[s]] /\ Ran[x] = {}
    BY <1>0, <2>1 DEF Ran, Hand, HandsOpen
  <2>6. HandsOpen'
    BY <1>0, <2>1, <2>2, <2>3 DEF HandsOpen
  <2>7. Books(st.events, [Hand EXCEPT ![s] = {}], [Ran EXCEPT ![x] = Hand[s]], Closed, seen)
    BY <1>0, <1>1, <2>5, BooksKept
  <2> QED BY <2>1, <2>4, <2>5, <2>6, <2>7
<1> QED BY <1>5, <1>6, <1>7, <1>8, <1>9, <1>10, <1>11, <1>12 DEF TickStep, CreateStep

\* The books are kept by every step.
LEMMA BooksStep ==
    ASSUME BInv, [Next]_vars
    PROVE  BInv'
<1>1. TInv'
  BY TriggerStep DEF BInv
<1>2. ASSUME UNCHANGED <<st, tick, run, seen, pruned, dropped, lost>>
      PROVE  HandsOpen' /\ Books(st.events, Hand, Ran, Closed, seen)'
  <2>1. Hand' = Hand /\ Ran' = Ran /\ Closed' = Closed /\ st' = st /\ seen' = seen
    BY <1>2 DEF Hand, Ran, Closed
  <2>2. HandsOpen'
    BY <1>2 DEF BInv, HandsOpen
  <2> QED BY <2>1, <2>2 DEF BInv
<1>3. ASSUME (\E t \in Settings : SaveBegin(t)) \/ ClockTick \/ UNCHANGED vars
      PROVE  UNCHANGED <<st, tick, run, seen, pruned, dropped, lost>>
  BY <1>3 DEF SaveBegin, ClockTick, vars, ghosts
<1>4. HandsOpen' /\ Books(st.events, Hand, Ran, Closed, seen)'
  BY <1>2, <1>3, BookSteps, BookTicks DEF Next
<1> QED BY <1>1, <1>4 DEF BInv

\* They are empty at the start.
LEMMA BooksInit ==
    ASSUME Init
    PROVE  BInv
<1>1. TInv
  BY InitKeeps
<1>2. HandsOpen
  BY DEF Init, HandsOpen, IdleTick
<1>3. /\ st.events = {} /\ Closed = {} /\ seen = {}
      /\ \A s \in Starters : Hand[s] = {}
      /\ \A x \in Runs : Ran[x] = {}
  BY DEF Init, NoRow, Closed, Hand, Ran, IdleTick
<1>4. Books(st.events, Hand, Ran, Closed, seen)
  BY <1>3 DEF Books
<1> QED BY <1>1, <1>2, <1>4 DEF BInv

\* What the books say in terms of InHand and InRuns.
LEMMA BooksBalance ==
    ASSUME BInv
    PROVE  NeverTwice /\ NothingVanishes
<1>0. /\ TypeOK /\ HandsOpen /\ Books(st.events, Hand, Ran, Closed, seen)
      /\ Replicas \subseteq Starters /\ Starters = Replicas \cup {Api}
      /\ st \in TriggerRows /\ seen \subseteq Events
  BY DEF BInv, TInv, TypeOK, Starters
<1>1. /\ \A s \in Starters : Hand[s] = tick[s].fired
      /\ \A x \in Runs : Ran[x] = run[x].events
  BY DEF Hand, Ran
<1>2. /\ \A s \in Starters : tick[s].fired \subseteq Events
      /\ \A x \in Runs : run[x].events \subseteq Events
      /\ st.events \subseteq Events /\ Closed \subseteq Events
  BY <1>0 DEF TypeOK, TickTxn, TriggerRows, Closed
<1>3. \A e : e \in InHand <=> \E s \in Starters : e \in Hand[s]
  BY <1>0, <1>1 DEF InHand, HandsOpen
<1>4. \A e : e \in InRuns <=> \E x \in Runs : e \in Ran[x]
  BY <1>1 DEF InRuns
<1>5. NothingVanishes
  <2>1. InHand \subseteq Events /\ InRuns \subseteq Events
    BY <1>1, <1>2, <1>3, <1>4
  <2> QED BY <1>0, <1>2, <1>3, <1>4, <2>1 DEF NothingVanishes, Books
<1>6. NeverTwice
  <2>1. \A q, r \in Replicas : q # r => tick[q].fired \cap tick[r].fired = {}
    BY <1>0, <1>1, <1>2 DEF Books
  <2>2. \A x, y \in Runs : x # y => run[x].events \cap run[y].events = {}
    BY <1>0, <1>1, <1>2 DEF Books
  <2>3. st.events \cap (InHand \cup InRuns \cup Closed) = {}
    BY <1>0, <1>2, <1>3, <1>4 DEF Books
  <2>4. InHand \cap (InRuns \cup Closed) = {}
    BY <1>0, <1>1, <1>2, <1>3, <1>4 DEF Books
  <2>5. InRuns \cap Closed = {}
    BY <1>0, <1>2, <1>4 DEF Books
  <2> QED BY <2>1, <2>2, <2>3, <2>4, <2>5 DEF NeverTwice
<1> QED BY <1>5, <1>6

\* No event is ever in two places: none starts, or is counted by, two runs, with
\* any number of replicas, crashes, requeues and redeliveries.
THEOREM EventsNeverTwice == Spec => []NeverTwice
<1>1. Init => BInv
  BY BooksInit
<1>2. BInv /\ [Next]_vars => BInv'
  BY BooksStep
<1>3. BInv => NeverTwice
  BY BooksBalance
<1> QED BY <1>1, <1>2, <1>3, PTL DEF Spec

\* Every event recorded as seen is in the row, in a tick's hands, in a run, or was
\* given up for a reason the code names.
THEOREM EventsNeverVanish == Spec => []NothingVanishes
<1>1. Init => BInv
  BY BooksInit
<1>2. BInv /\ [Next]_vars => BInv'
  BY BooksStep
<1>3. BInv => NothingVanishes
  BY BooksBalance
<1> QED BY <1>1, <1>2, <1>3, PTL DEF Spec

\* The two with the types, for every mode of the trigger.
THEOREM EventsAccounted == Spec => []Accounted
<1>1. Init => BInv
  BY BooksInit
<1>2. BInv /\ [Next]_vars => BInv'
  BY BooksStep
<1>3. BInv => Accounted
  BY BooksBalance DEF BInv, TInv, Accounted
<1> QED BY <1>1, <1>2, <1>3, PTL DEF Spec

-----------------------------------------------------------------------------
(* One active run *)

\* Whoever inserts an exclusive run holds the pipeline row, as the save does; and
\* with no concurrent setting what it counted under that lock is still so.
RowHeld ==
    /\ sched.pc = "saving" => pipeLock = Saver
    /\ \A s \in Starters : tick[s].pc = "insert" /\ ~tick[s].t.concurrent => pipeLock = s

AllExclusive == \A t \in Settings : ~t.concurrent

CountHolds ==
    AllExclusive => \A s \in Starters : tick[s].pc = "insert" /\ ~tick[s].active => ~Active

OInv == TInv /\ RowHeld /\ CountHolds /\ OneActiveRun

\* A step in which no transaction reaches its INSERT, and which activates no run.
LEMMA NoNewInsert ==
    ASSUME OInv, TInv',
           UNCHANGED <<sched, pipeLock>>,
           \A x \in Runs : run'[x].status = "active" => run[x].status = "active",
           \A s \in Starters : tick'[s].pc # "insert" \/ tick'[s] = tick[s]
    PROVE  OInv'
<1>1. RowHeld'
  BY DEF OInv, RowHeld
<1>2. Active' => Active
  BY DEF Active
<1>3. CountHolds'
  BY <1>2 DEF OInv, CountHolds
<1>4. OneActiveRun'
  BY DEF OInv, OneActiveRun
<1> QED BY <1>1, <1>3, <1>4 DEF OInv

\* Every step keeps the pipeline row's lock and what was counted under it.
LEMMA OneRunStep ==
    ASSUME OInv, [Next]_vars
    PROVE  OInv'
<1>0. /\ TInv' /\ TypeOK /\ RowHeld /\ CountHolds /\ OneActiveRun
      /\ tick \in [Starters -> TickTxn] /\ Replicas \subseteq Starters /\ Api \in Starters
      /\ run \in [Runs -> [status : RunStatus, events : SUBSET Events]]
      /\ Saver \notin Starters /\ Nobody \notin Starters /\ Nobody # Saver
      /\ \A s \in Starters : tick[s] \in TickTxn
  BY TriggerStep, NamesAssumption DEF OInv, TInv, TypeOK, Starters
<1>1. ASSUME NEW r \in Replicas, IngestStep(r) PROVE OInv'
  <2>1. UNCHANGED <<sched, pipeLock, run, tick>>
    BY <1>1 DEF IngestStep, IngestLock, IngestActive, IngestCommit, MissedLock, MissedCommit, IngestFail
  <2> QED BY <1>0, <2>1, NoNewInsert
<1>2. ASSUME NEW r \in Replicas, TickStep(r), ~TickFail(r) PROVE OInv'
  <2>1. UNCHANGED <<sched, pipeLock, run>>
    BY <1>2 DEF TickStep, RefreshIndex, TickBegin, ClaimSelect, ClaimNothing, ClaimActive, ClaimCommit,
                RequeueLock, RequeueActive, RequeueCommit
  <2>2. \A s \in Starters \ {r} : tick'[s] = tick[s]
    BY <1>0, <1>2 DEF TickStep, RefreshIndex, TickBegin, ClaimSelect, ClaimNothing, ClaimActive,
                      ClaimCommit, RequeueLock, RequeueActive, RequeueCommit
  <2>3. tick'[r].pc # "insert"
    <3>1. CASE RefreshIndex(r) \/ ClaimNothing(r) \/ RequeueCommit(r)
      BY <1>0, <3>1 DEF RefreshIndex, ClaimNothing, RequeueCommit, Reindex, IdleTick
    <3>2. CASE TickBegin(r) \/ ClaimSelect(r)
      BY <1>0, <3>2 DEF TickBegin, ClaimSelect, TickTxn
    <3>3. CASE ClaimActive(r) \/ RequeueActive(r)
      BY <1>0, <3>3 DEF ClaimActive, RequeueActive, TickTxn
    <3>4. CASE ClaimCommit(r)
      BY <1>0, <3>4 DEF ClaimCommit, Reindex, IdleTick, TickTxn
    <3>5. CASE RequeueLock(r)
      <4>1. CASE pipe.enabled
        <5>1. PICK now \in Now : tick' = [tick EXCEPT ![r].pc = "relocked", ![r].t = pipe, ![r].now = now]
          BY <3>5, <4>1 DEF RequeueLock
        <5> QED BY <1>0, <5>1 DEF TickTxn
      <4>2. CASE ~pipe.enabled
        BY <1>0, <3>5, <4>2 DEF RequeueLock, Reindex, IdleTick
      <4> QED BY <4>1, <4>2
    <3> QED BY <1>2, <3>1, <3>2, <3>3, <3>4, <3>5 DEF TickStep
  <2> QED BY <1>0, <2>1, <2>2, <2>3, NoNewInsert
<1>3. ASSUME NEW r \in Replicas, TickFail(r) PROVE OInv'
  <2>1. /\ \A s \in Starters \ {r} : tick'[s] = tick[s]
        /\ tick'[r].pc = "idle" /\ UNCHANGED <<sched, run>>
        /\ pipeLock' = IF pipeLock = r THEN Nobody ELSE pipeLock
    BY <1>0, <1>3 DEF TickFail, Unlock, IdleTick
  <2>2. RowHeld'
    BY <1>0, <2>1 DEF RowHeld
  <2>3. CountHolds' /\ OneActiveRun'
    BY <1>0, <2>1 DEF CountHolds, OneActiveRun, Active
  <2> QED BY <1>0, <2>2, <2>3 DEF OInv
<1>4. ASSUME NEW s \in Starters, CreateExclusive(s) PROVE OInv'
  <2>1. /\ \A q \in Starters \ {s} : tick'[q] = tick[q]
        /\ UNCHANGED <<sched, run>> /\ pipeLock = Nobody /\ pipeLock' = s
    BY <1>0, <1>4 DEF CreateExclusive
  <2>2. tick'[s].active = Active
    BY <1>0, <1>4 DEF CreateExclusive, TickTxn
  <2>3. RowHeld'
    BY <1>0, <2>1 DEF RowHeld
  <2>4. Active' <=> Active
    BY <2>1 DEF Active
  <2>5. CountHolds' /\ OneActiveRun'
    BY <1>0, <2>1, <2>2, <2>4 DEF CountHolds, OneActiveRun
  <2> QED BY <1>0, <2>3, <2>5 DEF OInv
<1>5. ASSUME NEW s \in Starters, CreateConcurrent(s) PROVE OInv'
  <2>1. /\ \A q \in Starters \ {s} : tick'[q] = tick[q]
        /\ UNCHANGED <<sched, run, pipeLock>> /\ tick[s].t.concurrent
    BY <1>0, <1>5 DEF CreateConcurrent
  <2>2. tick'[s].t = tick[s].t /\ tick[s].t \in Settings
    BY <1>0, <1>5 DEF CreateConcurrent, TickTxn
  <2>3. RowHeld'
    BY <1>0, <2>1, <2>2 DEF RowHeld
  <2>4. CountHolds' /\ OneActiveRun'
    BY <1>0, <2>1, <2>2 DEF CountHolds, OneActiveRun, AllExclusive
  <2> QED BY <1>0, <2>3, <2>4 DEF OInv
<1>6. ASSUME NEW s \in Starters, CreateBusy(s) PROVE OInv'
  <2>1. /\ \A q \in Starters \ {s} : tick'[q] = tick[q]
        /\ UNCHANGED <<sched, run>> /\ pipeLock' = IF pipeLock = s THEN Nobody ELSE pipeLock
    BY <1>0, <1>6 DEF CreateBusy, Unlock
  <2>2. tick'[s].pc # "insert"
    BY <1>0, <1>6 DEF CreateBusy, IdleTick, TickTxn
  <2>3. RowHeld'
    BY <1>0, <2>1, <2>2 DEF RowHeld
  <2>4. CountHolds' /\ OneActiveRun'
    BY <1>0, <2>1, <2>2 DEF CountHolds, OneActiveRun, Active
  <2> QED BY <1>0, <2>3, <2>4 DEF OInv
<1>7. ASSUME NEW s \in Starters, NEW x \in Runs, CreateCommit(s, x) PROVE OInv'
  <2>1. /\ \A q \in Starters \ {s} : tick'[q] = tick[q]
        /\ sched' = sched /\ pipeLock' = IF pipeLock = s THEN Nobody ELSE pipeLock
        /\ tick[s].pc = "insert" /\ ~tick[s].active
        /\ \A y \in Runs \ {x} : run'[y] = run[y]
    BY <1>0, <1>7 DEF CreateCommit, Unlock
  <2>2. tick'[s].pc # "insert"
    BY <1>0, <1>7 DEF CreateCommit, IdleTick, Reindex
  <2>3. RowHeld'
    BY <1>0, <2>1, <2>2 DEF RowHeld
  <2>4. ASSUME AllExclusive
        PROVE  /\ \A q \in Starters : tick'[q].pc # "insert"
               /\ \A y, z \in Runs : run'[y].status = "active" /\ run'[z].status = "active" => y = z
    <3>1. \A q \in Starters : ~tick[q].t.concurrent
      BY <1>0, <2>4 DEF AllExclusive, TickTxn
    <3>2. pipeLock = s
      BY <1>0, <2>1, <3>1 DEF RowHeld
    <3>3. \A q \in Starters : tick'[q].pc # "insert"
      BY <1>0, <2>1, <2>2, <3>1, <3>2 DEF RowHeld
    <3>4. \A y \in Runs : run[y].status # "active"
      BY <1>0, <2>1, <2>4 DEF CountHolds, Active
    <3> QED BY <2>1, <3>3, <3>4
  <2>5. CountHolds' /\ OneActiveRun'
    BY <2>4 DEF CountHolds, OneActiveRun, AllExclusive
  <2> QED BY <1>0, <2>3, <2>5 DEF OInv
<1>8. ASSUME NEW x \in Runs, FinishStep(x) PROVE OInv'
  <2>1. /\ UNCHANGED <<sched, pipeLock, tick>>
        /\ \A y \in Runs : run'[y].status = "active" => run[y].status = "active"
    BY <1>0, <1>8 DEF FinishStep, FinishSelect, FinishCommit, PruneRun
  <2> QED BY <1>0, <2>1, NoNewInsert
<1>9. ASSUME RunNow PROVE OInv'
  <2>1. \A s \in Starters \ {Api} : tick'[s] = tick[s]
    BY <1>0, <1>9 DEF RunNow
  <2>2. UNCHANGED <<sched, pipeLock, run>> /\ tick'[Api].pc # "insert"
    BY <1>0, <1>9 DEF RunNow, TickTxn
  <2> QED BY <1>0, <2>1, <2>2, NoNewInsert
<1>10. ASSUME NEW t \in Settings, SaveBegin(t) PROVE OInv'
  <2>1. pipeLock = Nobody /\ pipeLock' = Saver /\ UNCHANGED <<tick, run>>
    BY <1>10 DEF SaveBegin
  <2>2. RowHeld' /\ CountHolds' /\ OneActiveRun'
    BY <1>0, <2>1 DEF RowHeld, CountHolds, OneActiveRun, Active
  <2> QED BY <1>0, <2>2 DEF OInv
<1>11. ASSUME SaveCommit PROVE OInv'
  <2>1. pipeLock = Saver /\ pipeLock' = Nobody /\ UNCHANGED <<tick, run>> /\ sched'.pc = "idle"
    BY <1>0, <1>11 DEF SaveCommit, RowHeld, IdleSched
  <2>2. RowHeld' /\ CountHolds' /\ OneActiveRun'
    BY <1>0, <2>1 DEF RowHeld, CountHolds, OneActiveRun, Active
  <2> QED BY <1>0, <2>2 DEF OInv
<1>12. ASSUME ClockTick \/ UNCHANGED vars PROVE OInv'
  <2>1. UNCHANGED <<sched, pipeLock, run, tick>>
    BY <1>12 DEF ClockTick, vars
  <2> QED BY <1>0, <2>1, NoNewInsert
<1> QED BY <1>1, <1>2, <1>3, <1>4, <1>5, <1>6, <1>7, <1>8, <1>9, <1>10, <1>11, <1>12 DEF Next, CreateStep

\* A pipeline that never allows concurrent runs never has two active ones, however
\* its event trigger, its saves and runs by hand race on any number of replicas.
THEOREM OneRunAtATime == Spec => []OneActiveRun
<1>1. Init => OInv
  BY InitKeeps DEF Init, OInv, RowHeld, CountHolds, OneActiveRun, Active, IdleTick, IdleSched
<1>2. OInv /\ [Next]_vars => OInv'
  BY OneRunStep
<1>3. OInv => OneActiveRun
  BY DEF OInv
<1> QED BY <1>1, <1>2, <1>3, PTL DEF Spec
=============================================================================
