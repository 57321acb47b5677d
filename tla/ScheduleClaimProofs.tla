------------------------- MODULE ScheduleClaimProofs -------------------------
(***************************************************************************)
(* Proofs about ScheduleClaim, for every set of schedules, replicas and    *)
(* requests and every bound.                                               *)
(***************************************************************************)
EXTENDS ScheduleClaim, TLAPS

\* The instants a tick or a request computes with are inside the clock's bound,
\* where every schedule has a next fire.
ClockInv == clock <= MaxClock /\ \A r \in Replicas : tick[r].now <= clock

\* The next fire is strictly later than the instant it is computed from.
LEMMA NextFireLater ==
    ASSUME NEW t \in Schedules, NEW now \in Nat, now <= MaxClock
    PROVE  next_fire_trigger(t, now) \in Nat /\ next_fire_trigger(t, now) > now
<1>1. t \in ScheduleTypes
  BY ScheduleAssumption
<1>2. CASE t.type = "cron"
  <2>1. now \in 0..MaxClock + Second
    BY ScheduleAssumption, SecondAssumption
  <2>2. \E s \in t.slots : s > now /\ \A x \in t.slots : x > now => s <= x
    BY <1>2, <2>1, ScheduleAssumption
  <2>3. NextSlot(t.slots, now) \in t.slots /\ NextSlot(t.slots, now) > now
    BY <2>2 DEF NextSlot
  <2> QED BY <1>1, <1>2, <2>3 DEF next_fire_trigger, ScheduleTypes
<1>3. CASE t.type # "cron"
  BY <1>1, <1>3 DEF next_fire_trigger, ScheduleTypes
<1> QED BY <1>2, <1>3

\* What a saved schedule is armed with.
LEMMA ArmedType ==
    ASSUME NEW t \in Schedules, NEW now \in Nat, now <= MaxClock
    PROVE  Armed(t, now) \in Times
BY NextFireLater DEF Armed, Times

\* Whole intervals up to an instant: the last one ends within one interval of it.
LEMMA WholeIntervals ==
    ASSUME NEW a \in Nat, NEW d \in Nat \ {0}
    PROVE  /\ (a \div d) * d \in Nat
           /\ (a \div d) * d <= a
           /\ a < (a \div d) * d + d
<1>1. a = d * (a \div d) + (a % d) /\ a % d \in 0..(d - 1) /\ a \div d \in Nat
  OBVIOUS
<1>2. d * (a \div d) = (a \div d) * d
  BY <1>1
<1> QED BY <1>1, <1>2

\* The slot a fire claimed at now is for, against what it is meant to be.
LEMMA LatestSlotIsLatest ==
    ASSUME NEW t \in Schedules, NEW first \in Nat, NEW now \in Nat,
           first <= now, now <= MaxClock, t.type = "cron" => first \in t.slots
    PROVE  LET slot == latest_slot(t, first, now) IN
           /\ slot \in Nat /\ first <= slot /\ slot < now + Second
           /\ t.type = "cron" => slot \in t.slots /\ \A s \in t.slots : s <= now => s <= slot
           /\ t.type = "interval" => slot <= now /\ now < slot + t.every
<1>1. t \in ScheduleTypes /\ Second \in Nat \ {0} /\ MaxClock \in Nat
  BY ScheduleAssumption, SecondAssumption
<1>2. CASE first = now
  BY <1>1, <1>2 DEF latest_slot, ScheduleTypes
<1>3. CASE first < now /\ t.type = "interval"
  <2>1. latest_slot(t, first, now) = first + ((now - first) \div t.every) * t.every
    BY <1>3 DEF latest_slot
  <2>2. now - first \in Nat /\ t.every \in Nat \ {0}
    BY <1>1, <1>3 DEF ScheduleTypes
  <2> QED BY <1>1, <1>3, <2>1, <2>2, WholeIntervals
<1>4. CASE first < now /\ t.type = "cron"
  <2> DEFINE end == now + Second
             prev == PrevSlot(t.slots, end)
  <2>1. end \in 0..MaxClock + Second /\ first < end
    BY <1>1, <1>4
  <2>2. \E s \in t.slots : s < end /\ \A x \in t.slots : x < end => x <= s
    BY <1>4, <2>1, ScheduleAssumption
  <2>3. prev \in t.slots /\ prev < end /\ \A x \in t.slots : x < end => x <= prev
    BY <2>2 DEF PrevSlot
  <2>4. t.slots \subseteq Nat
    BY <1>1 DEF ScheduleTypes
  <2>5. latest_slot(t, first, now) = IF prev > first THEN prev ELSE first
    BY <1>4, <2>1 DEF latest_slot
  <2> HIDE DEF prev
  <2> QED BY <1>1, <1>4, <2>1, <2>3, <2>4, <2>5
<1> QED BY <1>1, <1>2, <1>3, <1>4 DEF ScheduleTypes

-----------------------------------------------------------------------------
(* Types *)

\* A tick holds a claim.
Holds(r) == tick[r].pc \in {"start", "insert", "dropped"}

\* A copy of the row, however old, pairs a schedule with a fire time of that schedule.
Paired(p) == p.sched.type = "cron" /\ p.next # NoTime => p.next \in p.sched.slots

PairInv ==
    /\ Paired(pipe)
    /\ \A u \in Editors : Paired(edit[u].p)
    /\ \A r \in Replicas : Paired(tick[r].p)

\* A claimed fire was due when it was claimed.
HoldInv == \A r \in Replicas : Holds(r) => tick[r].p.next \in Nat /\ tick[r].p.next <= tick[r].now

BaseInv == TypeOK /\ ClockInv /\ PairInv /\ HoldInv

\* Unused records have their types.
LEMMA IdleTypes ==
    ASSUME Schedules # {}
    PROVE  /\ IdleTick \in Ticks /\ Reindex \in Ticks /\ IdleEdit \in Edits
           /\ Paired(IdleTick.p) /\ Paired(Reindex.p) /\ Paired(IdleEdit.p)
<1>1. AnySchedule \in Schedules
  BY DEF AnySchedule
<1>2. Unused \in Pipelines /\ Unused.next = NoTime
  BY <1>1 DEF Unused, Pipelines, Times
<1> QED BY <1>2 DEF IdleTick, Reindex, IdleEdit, Ticks, Edits, Paired

\* A tick that goes back to its index, or moves on with the claim it has.
LEMMA TickMoves ==
    ASSUME BaseInv, NEW r \in Replicas, UNCHANGED <<clock, pipe, edit>>,
           NEW x \in Ticks, tick' = [tick EXCEPT ![r] = x], x.now <= clock,
           Paired(x.p), x.pc \in {"start", "insert", "dropped"} => x.p.next \in Nat /\ x.p.next <= x.now
    PROVE  tick' \in [Replicas -> Ticks] /\ ClockInv' /\ PairInv' /\ HoldInv'
<1>1. tick \in [Replicas -> Ticks]
  BY DEF BaseInv, TypeOK
<1>2. \A q \in Replicas : tick'[q] = IF q = r THEN x ELSE tick[q]
  BY <1>1
<1>3. tick' \in [Replicas -> Ticks]
  BY <1>1
<1>4. ClockInv'
  BY <1>2 DEF BaseInv, ClockInv
<1>5. PairInv'
  <2>1. \A q \in Replicas : Paired(tick'[q].p)
    BY <1>2 DEF BaseInv, PairInv
  <2> QED BY <2>1 DEF BaseInv, PairInv, Paired
<1>6. HoldInv'
  BY <1>2 DEF BaseInv, HoldInv, Holds
<1> QED BY <1>3, <1>4, <1>5, <1>6

\* Every step of a tick keeps the types and what its copies say.
LEMMA TickStepBase ==
    ASSUME BaseInv, NEW r \in Replicas, TickStep(r)
    PROVE  BaseInv'
<1> DEFINE t == tick[r]
<1>1. t \in Ticks /\ pipe \in Pipelines /\ clock \in Nat /\ clock <= MaxClock /\ t.now <= clock
  BY DEF BaseInv, TypeOK, ClockInv
<1>2. Schedules # {}
  BY <1>1 DEF Pipelines
<1>3. /\ IdleTick \in Ticks /\ Reindex \in Ticks /\ Paired(IdleTick.p) /\ Paired(Reindex.p)
      /\ IdleTick.now = 0 /\ Reindex.now = 0 /\ IdleTick.pc = "idle" /\ Reindex.pc = "reindex"
  BY <1>2, IdleTypes DEF IdleTick, Reindex
<1>4. Paired(t.p) /\ Paired(pipe) /\ (Holds(r) => t.p.next \in Nat /\ t.p.next <= t.now)
  BY DEF BaseInv, PairInv, HoldInv
<1>idles. ASSUME NEW x \in {IdleTick, Reindex}, tick' = [tick EXCEPT ![r] = x], UNCHANGED <<clock, pipe, edit>>
       PROVE  tick' \in [Replicas -> Ticks] /\ ClockInv' /\ PairInv' /\ HoldInv'
  <2>1. x \in Ticks /\ x.now <= clock /\ Paired(x.p) /\ x.pc \notin {"start", "insert", "dropped"}
    BY <1>1, <1>3
  <2> QED BY <1>idles, <2>1, TickMoves
<1>5. CASE RefreshIndex(r)
  <2>1. tick' \in [Replicas -> Ticks] /\ ClockInv' /\ PairInv' /\ HoldInv'
    BY <1>5, <1>idles DEF RefreshIndex
  <2> QED BY <1>1, <1>5, <2>1 DEF RefreshIndex, BaseInv, TypeOK, Pipelines, Times
<1>6. CASE TickBegin(r)
  <2> DEFINE x == [t EXCEPT !.pc = "claim", !.now = clock]
  <2>1. x \in Ticks /\ x.now = clock /\ x.p = t.p /\ x.pc = "claim"
    BY <1>1 DEF Ticks
  <2>2. tick' = [tick EXCEPT ![r] = x]
    BY <1>6 DEF TickBegin, BaseInv, TypeOK, Ticks
  <2>3. UNCHANGED <<clock, pipe, edit>> /\ x.now <= clock /\ Paired(x.p)
    BY <1>1, <1>4, <1>6, <2>1 DEF TickBegin
  <2> HIDE DEF x
  <2>4. tick' \in [Replicas -> Ticks] /\ ClockInv' /\ PairInv' /\ HoldInv'
    BY <2>1, <2>2, <2>3, TickMoves
  <2> QED BY <1>6, <2>4 DEF TickBegin, BaseInv, TypeOK
<1>7. CASE ClaimNothing(r)
  <2>1. tick' \in [Replicas -> Ticks] /\ ClockInv' /\ PairInv' /\ HoldInv'
    BY <1>7, <1>idles DEF ClaimNothing
  <2> QED BY <1>7, <2>1 DEF ClaimNothing, BaseInv, TypeOK
<1>8. CASE ClaimSlot(r)
  <2> DEFINE x == [t EXCEPT !.pc = "start", !.n = claims + 1, !.p = pipe]
             later == next_fire_trigger(pipe.sched, t.now)
  <2>1. x \in Ticks /\ x.now = t.now /\ x.p = pipe
    <3>1. claims + 1 \in Nat
      BY DEF BaseInv, TypeOK
    <3> QED BY <1>1, <3>1 DEF Ticks
  <2>2. tick' = [tick EXCEPT ![r] = x]
    BY <1>8 DEF ClaimSlot, BaseInv, TypeOK, Ticks
  <2>3. pipe.next \in Nat /\ pipe.next <= t.now
    BY <1>1, <1>8 DEF ClaimSlot, Due, Pipelines, Times
  <2>4. pipe.sched \in Schedules /\ t.now \in Nat /\ t.now <= MaxClock
    BY <1>1, ScheduleAssumption DEF Pipelines, Ticks
  <2>5. later \in Nat
    BY <2>4, NextFireLater
  <2>6. pipe.sched.type = "cron" => later \in pipe.sched.slots
    <3>1. t.now \in 0..MaxClock + Second
      BY <2>4, SecondAssumption, ScheduleAssumption
    <3>2. pipe.sched.type = "cron" =>
            \E s \in pipe.sched.slots : s > t.now /\ \A y \in pipe.sched.slots : y > t.now => s <= y
      BY <2>4, <3>1, ScheduleAssumption
    <3> QED BY <3>2 DEF next_fire_trigger, NextSlot
  <2> HIDE DEF later
  <2>7. pipe' = [pipe EXCEPT !.next = later]
    BY <1>8 DEF ClaimSlot, later
  <2>8. pipe' \in Pipelines /\ Paired(pipe')
    BY <1>1, <2>5, <2>6, <2>7 DEF Pipelines, Times, Paired
  <2>9. \A q \in Replicas : tick'[q] = IF q = r THEN x ELSE tick[q]
    BY <2>2 DEF BaseInv, TypeOK
  <2>10. tick' \in [Replicas -> Ticks]
    BY <2>1, <2>2 DEF BaseInv, TypeOK
  <2>11. ClockInv'
    BY <1>1, <1>8, <2>1, <2>9 DEF ClaimSlot, BaseInv, ClockInv
  <2>12. PairInv'
    <3>1. \A q \in Replicas : Paired(tick'[q].p)
      BY <1>4, <2>1, <2>9 DEF BaseInv, PairInv
    <3>2. \A u \in Editors : Paired(edit'[u].p)
      BY <1>8 DEF ClaimSlot, BaseInv, PairInv
    <3> QED BY <2>8, <3>1, <3>2 DEF PairInv, Paired
  <2>13. HoldInv'
    BY <2>1, <2>3, <2>9 DEF BaseInv, HoldInv, Holds
  <2> QED BY <1>8, <2>8, <2>10, <2>11, <2>12, <2>13 DEF ClaimSlot, BaseInv, TypeOK
<1>9. ASSUME CreateLock(r) \/ CreateUnlocked(r) PROVE BaseInv'
  <2> DEFINE Moved(b) == [t EXCEPT !.pc = "insert", !.active = b]
  <2>1. PICK b \in BOOLEAN : tick' = [tick EXCEPT ![r] = Moved(b)]
    BY <1>9 DEF CreateLock, CreateUnlocked, Active, BaseInv, TypeOK, Ticks
  <2>2. Moved(b) \in Ticks /\ Moved(b).now = t.now /\ Moved(b).p = t.p
    BY <1>1 DEF Ticks
  <2>3. Holds(r)
    BY <1>9 DEF CreateLock, CreateUnlocked, Holds
  <2>4. tick' \in [Replicas -> Ticks] /\ ClockInv' /\ PairInv' /\ HoldInv'
    BY <1>1, <1>4, <1>9, <2>1, <2>2, <2>3, TickMoves DEF CreateLock, CreateUnlocked
  <2> QED BY <1>9, <2>4 DEF CreateLock, CreateUnlocked, BaseInv, TypeOK
<1>10. ASSUME Holds(r), NEW status \in {"active", "skipped"}
       PROVE  ScheduledRun(r, status) \in RunRows
  <2>1. t.p \in Pipelines /\ t.p.sched \in Schedules /\ t.now \in Nat /\ t.n \in Nat
    BY <1>1 DEF Ticks, Pipelines
  <2>2. t.p.next \in Nat /\ t.p.next <= t.now /\ t.now <= MaxClock
    BY <1>1, <1>4, <1>10, <2>1, ScheduleAssumption
  <2>3. t.p.sched.type = "cron" => t.p.next \in t.p.sched.slots
    BY <1>4, <2>2, SecondAssumption DEF Paired
  <2>4. latest_slot(t.p.sched, t.p.next, t.now) \in Nat
    BY <2>1, <2>2, <2>3, LatestSlotIsLatest
  <2> QED BY <2>1, <2>2, <2>4 DEF ScheduledRun, RunRows, Times
<1>11. ASSUME CreateCommit(r) \/ RecordDropped(r) PROVE BaseInv'
  <2>1. tick' \in [Replicas -> Ticks] /\ ClockInv' /\ PairInv' /\ HoldInv'
    BY <1>11, <1>idles DEF CreateCommit, RecordDropped
  <2>2. Holds(r)
    BY <1>11 DEF CreateCommit, RecordDropped, Holds
  <2>3. rows' \subseteq RunRows
    BY <1>10, <1>11, <2>2 DEF CreateCommit, RecordDropped, BaseInv, TypeOK
  <2> QED BY <1>11, <2>1, <2>3 DEF CreateCommit, RecordDropped, Unlock, BaseInv, TypeOK
<1>12. CASE CreateBusy(r)
  <2> DEFINE x == [t EXCEPT !.pc = "dropped", !.active = FALSE]
  <2>1. x \in Ticks /\ x.now = t.now /\ x.p = t.p
    BY <1>1 DEF Ticks
  <2>2. tick' = [tick EXCEPT ![r] = x]
    BY <1>12 DEF CreateBusy, BaseInv, TypeOK, Ticks
  <2>3. Holds(r)
    BY <1>12 DEF CreateBusy, Holds
  <2>4. UNCHANGED <<clock, pipe, edit>> /\ x.now <= clock /\ Paired(x.p) /\ x.p.next \in Nat /\ x.p.next <= x.now
    BY <1>1, <1>4, <1>12, <2>1, <2>3 DEF CreateBusy
  <2> HIDE DEF x
  <2>5. tick' \in [Replicas -> Ticks] /\ ClockInv' /\ PairInv' /\ HoldInv'
    BY <2>1, <2>2, <2>4, TickMoves
  <2> QED BY <1>12, <2>5 DEF CreateBusy, Unlock, BaseInv, TypeOK
<1>13. CASE TickFail(r)
  <2>1. tick' \in [Replicas -> Ticks] /\ ClockInv' /\ PairInv' /\ HoldInv'
    BY <1>13, <1>idles DEF TickFail
  <2>2. t.n \in Nat
    BY <1>1 DEF Ticks
  <2>3. lost \subseteq Nat /\ failures \in Nat /\ pipeLock \in Replicas \cup {Nobody}
    BY DEF BaseInv, TypeOK
  <2>4. lost' \subseteq Nat
    <3>1. lost' = lost \/ lost' = lost \cup {t.n}
      BY <1>13 DEF TickFail
    <3> QED BY <2>2, <2>3, <3>1
  <2>5. failures' \in Nat
    BY <1>13, <2>3 DEF TickFail
  <2>6. pipeLock' \in Replicas \cup {Nobody}
    BY <1>13, <2>3 DEF TickFail, Unlock
  <2> QED BY <1>13, <2>1, <2>4, <2>5, <2>6 DEF TickFail, BaseInv, TypeOK
<1> QED
  BY <1>5, <1>6, <1>7, <1>8, <1>9, <1>11, <1>12, <1>13 DEF TickStep

\* A request copies the row, or arms a new schedule, and later writes its copy.
LEMMA EditStepBase ==
    ASSUME BaseInv, NEW u \in Editors, EditStep(u)
    PROVE  BaseInv'
<1>1. pipe \in Pipelines /\ clock \in Nat /\ clock <= MaxClock /\ edit \in [Editors -> Edits]
  BY DEF BaseInv, TypeOK, ClockInv
<1>2. ASSUME NEW p \in Pipelines, Paired(p), EditBegin(u, p) PROVE BaseInv'
  <2>1. \A v \in Editors : edit'[v].p = IF v = u THEN p ELSE edit[v].p
    BY <1>1, <1>2 DEF EditBegin, Edits
  <2>2. edit' \in [Editors -> Edits]
    BY <1>1, <1>2 DEF EditBegin, Edits
  <2>3. PairInv'
    <3>1. \A v \in Editors : Paired(edit'[v].p)
      BY <1>2, <2>1 DEF BaseInv, PairInv
    <3> QED BY <1>2, <3>1 DEF EditBegin, BaseInv, PairInv, Paired
  <2>4. ClockInv' /\ HoldInv'
    BY <1>2 DEF EditBegin, BaseInv, ClockInv, HoldInv, Holds
  <2> QED BY <1>2, <2>2, <2>3, <2>4 DEF EditBegin, BaseInv, TypeOK
<1>3. ASSUME NEW t \in Schedules, NEW c \in BOOLEAN, SaveSchedule(u, t, c) PROVE BaseInv'
  <2> DEFINE next == Armed(t, clock)
             p == [sched |-> t, concurrent |-> c, next |-> next]
  <2>1. next \in Times
    BY <1>1, ArmedType
  <2>2. t.type = "cron" /\ next # NoTime => next \in t.slots
    <3>1. clock \in 0..MaxClock + Second
      BY <1>1, SecondAssumption, ScheduleAssumption
    <3>2. t.type = "cron" =>
            \E s \in t.slots : s > clock /\ \A y \in t.slots : y > clock => s <= y
      BY <1>1, <3>1, ScheduleAssumption
    <3> QED BY <3>2 DEF Armed, next_fire_trigger, NextSlot
  <2> HIDE DEF next
  <2>3. p \in Pipelines /\ Paired(p)
    BY <2>1, <2>2 DEF Pipelines, Paired
  <2>4. EditBegin(u, p)
    BY <1>3 DEF SaveSchedule, next
  <2> QED BY <1>2, <2>3, <2>4
<1>4. CASE SetOwner(u)
  BY <1>1, <1>2, <1>4 DEF SetOwner, BaseInv, PairInv
<1>5. CASE EditCommit(u)
  <2>1. edit[u].p \in Pipelines /\ Paired(edit[u].p)
    BY <1>1 DEF Edits, BaseInv, PairInv
  <2>2. IdleEdit \in Edits /\ Paired(IdleEdit.p)
    BY <1>1, IdleTypes DEF Pipelines
  <2>3. edit' \in [Editors -> Edits] /\ \A v \in Editors : edit'[v] = IF v = u THEN IdleEdit ELSE edit[v]
    BY <1>1, <1>5, <2>2 DEF EditCommit
  <2>4. PairInv'
    <3>1. \A v \in Editors : Paired(edit'[v].p)
      BY <2>2, <2>3 DEF BaseInv, PairInv
    <3>2. Paired(pipe') /\ \A r \in Replicas : Paired(tick'[r].p)
      BY <1>5, <2>1 DEF EditCommit, BaseInv, PairInv
    <3> QED BY <3>1, <3>2 DEF PairInv, Paired
  <2>5. ClockInv' /\ HoldInv'
    BY <1>5 DEF EditCommit, BaseInv, ClockInv, HoldInv, Holds
  <2> QED BY <1>5, <2>1, <2>3, <2>4, <2>5 DEF EditCommit, BaseInv, TypeOK
<1> QED BY <1>3, <1>4, <1>5 DEF EditStep

\* The base invariant is inductive.
LEMMA BaseInvHolds == Spec => []BaseInv
<1>1. Init => BaseInv
  <2> SUFFICES ASSUME Init PROVE BaseInv
    OBVIOUS
  <2>1. PICK t \in Schedules, c \in BOOLEAN : pipe = [sched |-> t, concurrent |-> c, next |-> Armed(t, 0)]
    BY DEF Init
  <2>2. MaxClock \in Nat /\ 0 <= MaxClock
    BY ScheduleAssumption
  <2>3. pipe \in Pipelines
    BY <2>1, <2>2, ArmedType DEF Pipelines
  <2>4. Paired(pipe)
    <3>1. 0 \in 0..MaxClock + Second
      BY <2>2, SecondAssumption
    <3>2. t.type = "cron" => \E s \in t.slots : s > 0 /\ \A y \in t.slots : y > 0 => s <= y
      BY <2>2, <3>1, ScheduleAssumption
    <3> QED BY <2>1, <3>2 DEF Paired, Armed, next_fire_trigger, NextSlot
  <2>5. /\ IdleTick \in Ticks /\ IdleEdit \in Edits /\ Paired(IdleTick.p) /\ Paired(IdleEdit.p)
        /\ IdleTick.now = 0 /\ IdleTick.pc = "idle"
    BY <2>1, IdleTypes DEF IdleTick
  <2>6. TypeOK
    BY <2>3, <2>5 DEF Init, TypeOK, Times
  <2>7. ClockInv /\ PairInv /\ HoldInv
    BY <2>2, <2>4, <2>5 DEF Init, ClockInv, PairInv, HoldInv, Holds
  <2> QED BY <2>6, <2>7 DEF BaseInv
<1>2. BaseInv /\ [Next]_vars => BaseInv'
  <2> SUFFICES ASSUME BaseInv, [Next]_vars PROVE BaseInv'
    OBVIOUS
  <2>1. ASSUME UNCHANGED <<pipe, tick, edit>>, clock' \in Nat, clock <= clock', clock' <= MaxClock
        PROVE  ClockInv' /\ PairInv' /\ HoldInv'
    <3>1. ClockInv'
      <4>1. \A r \in Replicas : tick[r].now \in Nat /\ tick[r].now <= clock
        BY DEF BaseInv, TypeOK, Ticks, ClockInv
      <4> QED BY <2>1, <4>1 DEF BaseInv, TypeOK, ClockInv
    <3>2. PairInv' /\ HoldInv'
      BY <2>1 DEF BaseInv, PairInv, Paired, HoldInv, Holds
    <3> QED BY <3>1, <3>2
  <2>2. clock \in Nat /\ clock <= MaxClock /\ MaxClock \in Nat
    BY ScheduleAssumption DEF BaseInv, TypeOK, ClockInv
  <2>3. ASSUME NEW x \in rows, RunEnds(x) PROVE BaseInv'
    <3>1. [x EXCEPT !.status = "ended"] \in RunRows
      BY DEF BaseInv, TypeOK, RunRows
    <3> QED BY <2>1, <2>2, <2>3, <3>1 DEF RunEnds, BaseInv, TypeOK
  <2>4. CASE RunNow
    <3>1. AnySchedule \in Schedules
      BY DEF AnySchedule, BaseInv, TypeOK, Pipelines
    <3>2. rows' \subseteq RunRows /\ manual' \in Nat
      BY <2>4, <3>1 DEF RunNow, BaseInv, TypeOK, RunRows, Times
    <3> QED BY <2>1, <2>2, <2>4, <3>2 DEF RunNow, BaseInv, TypeOK
  <2>5. CASE ClockTick
    BY <2>1, <2>2, <2>5 DEF ClockTick, BaseInv, TypeOK
  <2>6. CASE UNCHANGED vars
    BY <2>1, <2>2, <2>6 DEF vars, BaseInv, TypeOK
  <2> QED
    BY <2>3, <2>4, <2>5, <2>6, TickStepBase, EditStepBase DEF Next
<1> QED
  BY <1>1, <1>2, PTL DEF Spec

\* Rows, copies and runs keep their types, whatever ticks and requests do.
THEOREM ScheduleTypeCorrect == Spec => []TypeOK
<1>1. BaseInv => TypeOK
  BY DEF BaseInv
<1> QED BY <1>1, BaseInvHolds, PTL

-----------------------------------------------------------------------------
(* Which slot a run is for *)

\* SlotIsLatest says of every run what this says of one.
RowIsLatest(x) ==
    /\ x.first <= x.slot /\ x.slot < x.at + Second
    /\ x.sched.type = "cron" =>
          x.slot \in x.sched.slots /\ \A s \in x.sched.slots : s <= x.at => s <= x.slot
    /\ x.sched.type = "interval" => x.slot <= x.at /\ x.at < x.slot + x.sched.every

\* The run of a claim is for the latest slot.
LEMMA ScheduledRunIsLatest ==
    ASSUME BaseInv, NEW r \in Replicas, Holds(r), NEW status
    PROVE  RowIsLatest(ScheduledRun(r, status))
<1> DEFINE t == tick[r]
           w == ScheduledRun(r, status)
           slot == latest_slot(t.p.sched, t.p.next, t.now)
<1>1. t \in Ticks /\ clock \in Nat /\ clock <= MaxClock /\ t.now <= clock
  BY DEF BaseInv, TypeOK, ClockInv
<1>2. t.p.sched \in Schedules /\ t.now \in Nat /\ t.now <= MaxClock
  BY <1>1, ScheduleAssumption DEF Ticks, Pipelines
<1>3. t.p.next \in Nat /\ t.p.next <= t.now
  BY DEF BaseInv, HoldInv
<1>4. t.p.sched.type = "cron" => t.p.next \in t.p.sched.slots
  BY <1>3, SecondAssumption DEF BaseInv, PairInv, Paired
<1>5. w.first = t.p.next /\ w.slot = slot /\ w.at = t.now /\ w.sched = t.p.sched
  BY DEF ScheduledRun
<1>6. /\ t.p.next <= slot /\ slot < t.now + Second
      /\ t.p.sched.type = "cron" =>
           slot \in t.p.sched.slots /\ \A s \in t.p.sched.slots : s <= t.now => s <= slot
      /\ t.p.sched.type = "interval" => slot <= t.now /\ t.now < slot + t.p.sched.every
  BY <1>2, <1>3, <1>4, LatestSlotIsLatest
<1> HIDE DEF t, w, slot
<1>7. RowIsLatest(w)
  BY <1>5, <1>6 DEF RowIsLatest
<1> QED BY <1>7 DEF w

\* A late run is for the latest slot due when it was claimed, whoever claims it and
\* however old the copy of the pipeline that was claimed (schedule.latest_slot).
THEOREM SlotsAreLatest == Spec => []SlotIsLatest
<1> DEFINE Inv == \A x \in rows : x.trigger = "schedule" => RowIsLatest(x)
<1>1. Init => Inv
  BY DEF Init
<1>2. BaseInv /\ Inv /\ [Next]_vars => Inv'
  <2> SUFFICES ASSUME BaseInv, Inv, [Next]_vars PROVE Inv'
    OBVIOUS
  <2>1. ASSUME UNCHANGED rows PROVE Inv'
    BY <2>1 DEF RowIsLatest
  <2>2. ASSUME NEW r \in Replicas, CreateCommit(r) \/ RecordDropped(r) PROVE Inv'
    <3>1. Holds(r)
      BY <2>2 DEF CreateCommit, RecordDropped, Holds
    <3>2. PICK status : rows' = rows \cup {ScheduledRun(r, status)}
      BY <2>2 DEF CreateCommit, RecordDropped
    <3>3. RowIsLatest(ScheduledRun(r, status))
      BY <3>1, ScheduledRunIsLatest
    <3> QED BY <3>2, <3>3 DEF RowIsLatest
  <2>3. ASSUME NEW x \in rows, RunEnds(x) PROVE Inv'
    <3> DEFINE y == [x EXCEPT !.status = "ended"]
    <3>1. x \in RunRows
      BY DEF BaseInv, TypeOK
    <3>2. /\ y.trigger = x.trigger /\ y.first = x.first /\ y.slot = x.slot
          /\ y.at = x.at /\ y.sched = x.sched
      BY <3>1 DEF RunRows
    <3>3. rows' = (rows \ {x}) \cup {y}
      BY <2>3 DEF RunEnds
    <3> HIDE DEF y
    <3> QED BY <3>2, <3>3 DEF RowIsLatest
  <2>4. CASE RunNow
    BY <2>4 DEF RunNow, RowIsLatest
  <2>5. ASSUME NEW r \in Replicas, TickStep(r) PROVE Inv'
    BY <2>1, <2>2, <2>5 DEF TickStep, RefreshIndex, TickBegin, ClaimSlot, ClaimNothing,
       CreateLock, CreateUnlocked, CreateBusy, TickFail
  <2>6. ASSUME NEW u \in Editors, EditStep(u) PROVE Inv'
    BY <2>1, <2>6 DEF EditStep, SaveSchedule, SetOwner, EditBegin, EditCommit
  <2>7. CASE ClockTick \/ UNCHANGED vars
    BY <2>1, <2>7 DEF ClockTick, vars
  <2> QED BY <2>3, <2>4, <2>5, <2>6, <2>7 DEF Next
<1>3. Inv => SlotIsLatest
  BY DEF SlotIsLatest, RowIsLatest
<1> QED BY <1>1, <1>2, <1>3, BaseInvHolds, PTL DEF Spec

-----------------------------------------------------------------------------
(* Missed slots coalesce *)

\* Two fires, each claimed at one instant for the slots since another: one was
\* claimed before the other's slots begin.
Apart(f1, a1, f2, a2) == f1 > a2 \/ f2 > a1

\* No request changes the pipeline.
NoEdits == \A u \in Editors : edit[u].pc = "idle"

\* The slot that is next is after every fire claimed so far, in hand or a run.
NextIsLater ==
    /\ \A x \in rows : x.trigger = "schedule" => pipe.next \in Nat /\ x.at < pipe.next
    /\ \A r \in Replicas : Holds(r) => pipe.next \in Nat /\ tick[r].now < pipe.next

\* Fires, in hand or runs, are apart from each other.
HandsApart ==
    \A q, r \in Replicas : q # r /\ Holds(q) /\ Holds(r) =>
        Apart(tick[q].p.next, tick[q].now, tick[r].p.next, tick[r].now)
HandsRowsApart ==
    \A r \in Replicas, x \in rows : Holds(r) /\ x.trigger = "schedule" =>
        Apart(tick[r].p.next, tick[r].now, x.first, x.at)
RowsApart ==
    \A x, y \in rows : x.trigger = "schedule" /\ y.trigger = "schedule" /\ x # y =>
        Apart(x.first, x.at, y.first, y.at)

CoalesceInv == edits = 0 => NoEdits /\ NextIsLater /\ HandsApart /\ HandsRowsApart /\ RowsApart

\* Steps that claim nothing and start no run keep the fires as they are.
LEMMA FiresStay ==
    ASSUME CoalesceInv, UNCHANGED <<pipe, rows, edit, edits>>,
           \A q \in Replicas : Holds(q)' =>
               Holds(q) /\ tick'[q].p = tick[q].p /\ tick'[q].now = tick[q].now
    PROVE  CoalesceInv'
<1> SUFFICES ASSUME edits = 0
             PROVE  NoEdits' /\ NextIsLater' /\ HandsApart' /\ HandsRowsApart' /\ RowsApart'
  BY DEF CoalesceInv
<1>1. NoEdits'
  BY DEF CoalesceInv, NoEdits
<1>2. NextIsLater'
  BY DEF CoalesceInv, NextIsLater
<1>3. HandsApart'
  BY DEF CoalesceInv, HandsApart, Apart
<1>4. HandsRowsApart'
  BY DEF CoalesceInv, HandsRowsApart, Apart
<1>5. RowsApart'
  BY DEF CoalesceInv, RowsApart, Apart
<1> QED BY <1>1, <1>2, <1>3, <1>4, <1>5

\* A claim begins at the next slot, which was after every earlier fire, and makes
\* the next slot later than now.
LEMMA ClaimIsApart ==
    ASSUME BaseInv, CoalesceInv, NEW r \in Replicas, ClaimSlot(r)
    PROVE  CoalesceInv'
<1> SUFFICES ASSUME edits = 0
             PROVE  NoEdits' /\ NextIsLater' /\ HandsApart' /\ HandsRowsApart' /\ RowsApart'
  BY DEF CoalesceInv, ClaimSlot
<1> DEFINE now == tick[r].now
           later == next_fire_trigger(pipe.sched, now)
<1>1. NoEdits /\ NextIsLater /\ HandsApart /\ HandsRowsApart /\ RowsApart
  BY DEF CoalesceInv
<1>2. tick \in [Replicas -> Ticks] /\ rows \subseteq RunRows /\ pipe \in Pipelines
  BY DEF BaseInv, TypeOK
<1>3. pipe.next \in Nat /\ pipe.next <= now /\ now \in Nat /\ now <= MaxClock
  <2>1. now \in Nat /\ now <= clock /\ clock \in Nat /\ clock <= MaxClock /\ MaxClock \in Nat
    BY <1>2, ScheduleAssumption DEF BaseInv, TypeOK, ClockInv, Ticks
  <2> QED BY <1>2, <2>1 DEF ClaimSlot, Due, Pipelines, Times
<1>4. later \in Nat /\ later > now
  BY <1>2, <1>3, NextFireLater DEF Pipelines
<1>5. pipe'.next = later
  BY <1>2 DEF ClaimSlot, Pipelines
<1>6. \A q \in Replicas : tick[q].now \in Nat
  BY <1>2 DEF Ticks
<1>7. \A x \in rows : x.at \in Nat
  BY <1>2 DEF RunRows
<1>8. /\ tick'[r].now = now /\ tick'[r].p = pipe
      /\ \A q \in Replicas : q # r => tick'[q] = tick[q]
  BY <1>2 DEF ClaimSlot, Ticks
<1>9. rows' = rows /\ edit' = edit
  BY DEF ClaimSlot
<1> HIDE DEF now, later
<1>10. NoEdits'
  BY <1>1, <1>9 DEF NoEdits
<1>11. NextIsLater'
  <2>1. \A x \in rows' : x.trigger = "schedule" => pipe'.next \in Nat /\ x.at < pipe'.next
    BY <1>1, <1>3, <1>4, <1>5, <1>7, <1>9 DEF NextIsLater
  <2>2. \A q \in Replicas : Holds(q)' => pipe'.next \in Nat /\ tick'[q].now < pipe'.next
    BY <1>1, <1>3, <1>4, <1>5, <1>6, <1>8 DEF NextIsLater, Holds
  <2> QED BY <2>1, <2>2 DEF NextIsLater
<1>12. HandsApart'
  <2>1. ASSUME NEW q \in Replicas, q # r, Holds(q)' PROVE tick'[r].p.next > tick'[q].now
    BY <1>1, <1>3, <1>6, <1>8, <2>1 DEF NextIsLater, Holds
  <2> QED BY <1>1, <1>8, <2>1 DEF HandsApart, Apart, Holds
<1>13. HandsRowsApart'
  <2>1. \A x \in rows : x.trigger = "schedule" => tick'[r].p.next > x.at
    BY <1>1, <1>3, <1>7, <1>8 DEF NextIsLater
  <2> QED BY <1>1, <1>8, <1>9, <2>1 DEF HandsRowsApart, Apart, Holds
<1>14. RowsApart'
  BY <1>1, <1>9 DEF RowsApart
<1> QED BY <1>10, <1>11, <1>12, <1>13, <1>14

\* The run of a claim takes over the claim's instants.
LEMMA RunTakesOver ==
    ASSUME BaseInv, CoalesceInv, NEW r \in Replicas, CreateCommit(r) \/ RecordDropped(r)
    PROVE  CoalesceInv'
<1> SUFFICES ASSUME edits = 0
             PROVE  NoEdits' /\ NextIsLater' /\ HandsApart' /\ HandsRowsApart' /\ RowsApart'
  BY DEF CoalesceInv, CreateCommit, RecordDropped
<1>1. NoEdits /\ NextIsLater /\ HandsApart /\ HandsRowsApart /\ RowsApart
  BY DEF CoalesceInv
<1>2. tick \in [Replicas -> Ticks] /\ Holds(r)
  BY DEF BaseInv, TypeOK, CreateCommit, RecordDropped, Holds
<1>3. PICK status : rows' = rows \cup {ScheduledRun(r, status)}
  BY DEF CreateCommit, RecordDropped
<1> DEFINE w == ScheduledRun(r, status)
<1>4. w.trigger = "schedule" /\ w.first = tick[r].p.next /\ w.at = tick[r].now
  BY DEF ScheduledRun
<1>5. rows' = rows \cup {w}
  BY <1>3
<1>6. ~Holds(r)' /\ \A q \in Replicas : q # r => tick'[q] = tick[q]
  BY <1>2 DEF CreateCommit, RecordDropped, Reindex, Holds
<1>7. pipe' = pipe /\ edit' = edit
  BY DEF CreateCommit, RecordDropped
<1> HIDE DEF w
<1>8. NoEdits'
  BY <1>1, <1>7 DEF NoEdits
<1>9. NextIsLater'
  <2>1. pipe.next \in Nat /\ w.at < pipe.next
    BY <1>1, <1>2, <1>4 DEF NextIsLater
  <2>2. \A x \in rows' : x.trigger = "schedule" => pipe'.next \in Nat /\ x.at < pipe'.next
    BY <1>1, <1>5, <1>7, <2>1 DEF NextIsLater
  <2>3. \A q \in Replicas : Holds(q)' => pipe'.next \in Nat /\ tick'[q].now < pipe'.next
    BY <1>1, <1>6, <1>7 DEF NextIsLater, Holds
  <2> QED BY <2>2, <2>3 DEF NextIsLater
<1>10. HandsApart'
  BY <1>1, <1>6 DEF HandsApart, Apart, Holds
<1>11. HandsRowsApart'
  <2>1. \A q \in Replicas : Holds(q)' => q # r /\ Holds(q) /\ tick'[q] = tick[q]
    BY <1>6 DEF Holds
  <2>2. \A q \in Replicas : Holds(q)' => Apart(tick'[q].p.next, tick'[q].now, w.first, w.at)
    BY <1>1, <1>2, <1>4, <2>1 DEF HandsApart
  <2> QED BY <1>1, <1>5, <2>1, <2>2 DEF HandsRowsApart, Apart
<1>12. RowsApart'
  <2>1. \A x \in rows : x.trigger = "schedule" =>
            Apart(w.first, w.at, x.first, x.at) /\ Apart(x.first, x.at, w.first, w.at)
    BY <1>1, <1>2, <1>4 DEF HandsRowsApart, Apart
  <2> QED BY <1>1, <1>5, <2>1 DEF RowsApart, Apart
<1> QED BY <1>8, <1>9, <1>10, <1>11, <1>12

\* A run that ends keeps its instants.
LEMMA EndedKeepsFire ==
    ASSUME BaseInv, CoalesceInv, NEW x \in rows, RunEnds(x)
    PROVE  CoalesceInv'
<1> SUFFICES ASSUME edits = 0
             PROVE  NoEdits' /\ NextIsLater' /\ HandsApart' /\ HandsRowsApart' /\ RowsApart'
  BY DEF CoalesceInv, RunEnds
<1> DEFINE y == [x EXCEPT !.status = "ended"]
<1>1. NoEdits /\ NextIsLater /\ HandsApart /\ HandsRowsApart /\ RowsApart
  BY DEF CoalesceInv
<1>2. x \in RunRows
  BY DEF BaseInv, TypeOK
<1>3. y.trigger = x.trigger /\ y.first = x.first /\ y.at = x.at
  BY <1>2 DEF RunRows
<1>4. rows' = (rows \ {x}) \cup {y} /\ tick' = tick /\ pipe' = pipe /\ edit' = edit
  BY DEF RunEnds
<1> HIDE DEF y
<1>5. NoEdits' /\ HandsApart'
  BY <1>1, <1>4 DEF NoEdits, HandsApart, Apart, Holds
<1>6. NextIsLater'
  BY <1>1, <1>3, <1>4 DEF NextIsLater, Holds
<1>7. HandsRowsApart'
  BY <1>1, <1>3, <1>4 DEF HandsRowsApart, Apart, Holds
<1>8. RowsApart'
  BY <1>1, <1>3, <1>4 DEF RowsApart, Apart
<1> QED BY <1>5, <1>6, <1>7, <1>8

\* "Missed fires still coalesce" (scheduler.py): for every number of replicas and
\* every schedule, no slot is claimed twice and no slot that was past at a claim
\* gets a run of its own, until the pipeline is edited.
THEOREM FiresCoalesce == Spec => []MissedSlotsCoalesce
<1>1. Init => CoalesceInv
  BY DEF Init, CoalesceInv, NoEdits, NextIsLater, HandsApart, HandsRowsApart, RowsApart,
         Holds, IdleTick, IdleEdit
<1>2. BaseInv /\ CoalesceInv /\ [Next]_vars => CoalesceInv'
  <2> SUFFICES ASSUME BaseInv, CoalesceInv, [Next]_vars PROVE CoalesceInv'
    OBVIOUS
  <2>1. tick \in [Replicas -> Ticks] /\ edits \in Nat
    BY DEF BaseInv, TypeOK
  <2>2. ASSUME NEW r \in Replicas, TickStep(r) PROVE CoalesceInv'
    <3>1. ASSUME NEW x, tick' = [tick EXCEPT ![r] = x], UNCHANGED <<pipe, rows, edit, edits>>,
                 x.pc \in {"start", "insert", "dropped"} =>
                    Holds(r) /\ x.p = tick[r].p /\ x.now = tick[r].now
          PROVE  CoalesceInv'
      <4>1. \A q \in Replicas : tick'[q] = IF q = r THEN x ELSE tick[q]
        BY <2>1, <3>1
      <4>2. \A q \in Replicas : Holds(q)' =>
                Holds(q) /\ tick'[q].p = tick[q].p /\ tick'[q].now = tick[q].now
        BY <3>1, <4>1 DEF Holds
      <4> QED BY <3>1, <4>2, FiresStay
    <3>2. tick[r] \in Ticks
      BY <2>1
    <3>3. CASE RefreshIndex(r)
      BY <3>1, <3>3 DEF RefreshIndex, IdleTick
    <3>4. CASE ClaimNothing(r) \/ TickFail(r)
      BY <3>1, <3>4 DEF ClaimNothing, TickFail, Reindex
    <3>5. CASE TickBegin(r)
      <4> DEFINE x == [tick[r] EXCEPT !.pc = "claim", !.now = clock]
      <4>1. tick' = [tick EXCEPT ![r] = x] /\ x.pc = "claim"
        BY <2>1, <3>2, <3>5 DEF TickBegin, Ticks
      <4>2. UNCHANGED <<pipe, rows, edit, edits>>
        BY <3>5 DEF TickBegin
      <4> HIDE DEF x
      <4> QED BY <3>1, <4>1, <4>2
    <3>6. CASE CreateLock(r) \/ CreateUnlocked(r)
      <4> DEFINE Moved(b) == [tick[r] EXCEPT !.pc = "insert", !.active = b]
      <4>1. PICK b \in BOOLEAN : tick' = [tick EXCEPT ![r] = Moved(b)]
        BY <2>1, <3>2, <3>6 DEF CreateLock, CreateUnlocked, Active, Ticks
      <4>2. Moved(b).p = tick[r].p /\ Moved(b).now = tick[r].now /\ Holds(r)
        BY <3>2, <3>6 DEF CreateLock, CreateUnlocked, Ticks, Holds
      <4>3. UNCHANGED <<pipe, rows, edit, edits>>
        BY <3>6 DEF CreateLock, CreateUnlocked
      <4> HIDE DEF Moved
      <4> QED BY <3>1, <4>1, <4>2, <4>3
    <3>7. CASE CreateBusy(r)
      <4> DEFINE x == [tick[r] EXCEPT !.pc = "dropped", !.active = FALSE]
      <4>1. tick' = [tick EXCEPT ![r] = x]
        BY <2>1, <3>2, <3>7 DEF CreateBusy, Ticks
      <4>2. x.p = tick[r].p /\ x.now = tick[r].now /\ Holds(r)
        BY <3>2, <3>7 DEF CreateBusy, Ticks, Holds
      <4>3. UNCHANGED <<pipe, rows, edit, edits>>
        BY <3>7 DEF CreateBusy
      <4> HIDE DEF x
      <4> QED BY <3>1, <4>1, <4>2, <4>3
    <3> QED
      BY <2>2, <3>3, <3>4, <3>5, <3>6, <3>7, ClaimIsApart, RunTakesOver DEF TickStep
  <2>3. ASSUME NEW u \in Editors, EditStep(u) PROVE CoalesceInv'
    <3>1. ASSUME NEW p, EditBegin(u, p) PROVE CoalesceInv'
      <4>1. edits' # 0
        BY <2>1, <3>1 DEF EditBegin
      <4> QED BY <4>1 DEF CoalesceInv
    <3>2. CASE EditCommit(u)
      <4>1. edits' # 0
        BY <3>2 DEF EditCommit, CoalesceInv, NoEdits
      <4> QED BY <4>1 DEF CoalesceInv
    <3> QED BY <2>3, <3>1, <3>2 DEF EditStep, SaveSchedule, SetOwner
  <2>4. CASE RunNow
    <3> DEFINE w == [trigger |-> "manual", n |-> manual + 1, sched |-> AnySchedule,
                     first |-> NoTime, slot |-> NoTime, at |-> 0, status |-> "active"]
    <3>1. rows' = rows \cup {w} /\ w.trigger = "manual"
      BY <2>4 DEF RunNow
    <3> HIDE DEF w
    <3>2. UNCHANGED <<pipe, tick, edit, edits>>
      BY <2>4 DEF RunNow
    <3> QED
      BY <3>1, <3>2 DEF CoalesceInv, NoEdits, NextIsLater, HandsApart, HandsRowsApart, RowsApart,
                        Apart, Holds
  <2>5. CASE ClockTick \/ UNCHANGED vars
    <3>1. UNCHANGED <<pipe, rows, edit, edits, tick>>
      BY <2>5 DEF ClockTick, vars
    <3> QED BY <3>1, FiresStay DEF Holds
  <2> QED BY <2>2, <2>3, <2>4, <2>5, EndedKeepsFire DEF Next
<1>3. CoalesceInv => MissedSlotsCoalesce
  BY DEF CoalesceInv, RowsApart, Apart, MissedSlotsCoalesce
<1> QED BY <1>1, <1>2, <1>3, BaseInvHolds, PTL DEF Spec
-----------------------------------------------------------------------------
(* Claims and their numbers *)

\* A tick has a claim's number exactly while it holds the claim.
Numbered == \A r \in Replicas : Holds(r) <=> tick[r].n # 0

NumberInv == Numbered /\ EveryClaimShows

\* What one tick's step does to the claims in hand: nothing, one less or one more.
LEMMA HandMoves ==
    ASSUME BaseInv, NumberInv, NEW r \in Replicas, NEW x,
           tick' = [tick EXCEPT ![r] = x], x.pc \in {"start", "insert", "dropped"} <=> x.n # 0
    PROVE  /\ Numbered'
           /\ x.n = tick[r].n => InHand' = InHand
           /\ x.n = 0 /\ tick[r].n # 0 => InHand' = InHand \ {tick[r].n} /\ tick[r].n \in InHand
           /\ tick[r].n = 0 /\ x.n # 0 => InHand' = InHand \cup {x.n}
<1>1. tick \in [Replicas -> Ticks]
  BY DEF BaseInv, TypeOK
<1>2. \A q \in Replicas : tick'[q] = IF q = r THEN x ELSE tick[q]
  BY <1>1
<1>3. \A n : n \in InHand <=> n # 0 /\ \E q \in Replicas : tick[q].n = n
  BY DEF InHand, NumberInv, Numbered, Holds
<1>4. Numbered'
  BY <1>2 DEF NumberInv, Numbered, Holds
<1>5. \A n : n \in InHand' <=> n # 0 /\ \E q \in Replicas : tick'[q].n = n
  BY <1>4 DEF InHand, Numbered, Holds
<1>6. \A q \in Replicas : q # r /\ tick[q].n = tick[r].n => tick[r].n = 0
  BY DEF NumberInv, EveryClaimShows
<1>7. \A n : n \in InHand' <=> n # 0 /\ (n = x.n \/ \E q \in Replicas : q # r /\ tick[q].n = n)
  BY <1>2, <1>5
<1>8. \A n : n \in InHand <=> n # 0 /\ (n = tick[r].n \/ \E q \in Replicas : q # r /\ tick[q].n = n)
  BY <1>3
<1>9. x.n = tick[r].n => InHand' = InHand
  BY <1>7, <1>8
<1>10. x.n = 0 /\ tick[r].n # 0 => InHand' = InHand \ {tick[r].n} /\ tick[r].n \in InHand
  BY <1>6, <1>7, <1>8
<1>11. tick[r].n = 0 /\ x.n # 0 => InHand' = InHand \cup {x.n}
  BY <1>7, <1>8
<1> QED BY <1>4, <1>9, <1>10, <1>11

\* A step that moves a tick on with the number it has leaves the books alone.
LEMMA NumberStays ==
    ASSUME BaseInv, NumberInv, NEW r \in Replicas, NEW x,
           tick' = [tick EXCEPT ![r] = x], UNCHANGED <<rows, claims, lost>>,
           x.pc \in {"start", "insert", "dropped"} <=> x.n # 0, x.n = tick[r].n
    PROVE  NumberInv'
<1>1. \A q \in Replicas : tick'[q].n = tick[q].n
  BY DEF BaseInv, TypeOK
<1>2. Numbered' /\ InHand' = InHand
  BY HandMoves
<1>3. Shown' = Shown
  BY DEF Shown
<1> QED BY <1>1, <1>2, <1>3 DEF NumberInv, EveryClaimShows

\* A claim gets the next number, which nothing has yet.
LEMMA ClaimIsNumbered ==
    ASSUME BaseInv, NumberInv, NEW r \in Replicas, ClaimSlot(r)
    PROVE  NumberInv'
<1> DEFINE y == [tick[r] EXCEPT !.pc = "start", !.n = claims + 1, !.p = pipe]
<1>1. tick \in [Replicas -> Ticks] /\ claims \in Nat
  BY DEF BaseInv, TypeOK
<1>2. tick' = [tick EXCEPT ![r] = y] /\ y.pc = "start" /\ y.n = claims + 1
  BY <1>1 DEF ClaimSlot, Ticks
<1>3. PICK x : tick' = [tick EXCEPT ![r] = x] /\ x.pc = "start" /\ x.n = claims + 1
  BY <1>2
<1>4. tick[r].n = 0 /\ x.n # 0
  BY <1>1, <1>3 DEF NumberInv, Numbered, Holds, ClaimSlot
<1>5. Numbered' /\ InHand' = InHand \cup {claims + 1}
  BY <1>3, <1>4, HandMoves
<1>6. claims' = claims + 1 /\ Shown' = Shown /\ lost' = lost /\ rows' = rows
  BY DEF ClaimSlot, Shown
<1>7. 1..claims' = 1..claims \cup {claims + 1} /\ claims + 1 \notin 1..claims
  BY <1>1, <1>6
<1>8. 1..claims = InHand \cup Shown \cup lost
  BY DEF NumberInv, EveryClaimShows
<1>9. \A q \in Replicas : tick[q].n # 0 => tick[q].n # claims + 1
  <2>1. \A q \in Replicas : tick[q].n # 0 => tick[q].n \in InHand
    BY DEF NumberInv, Numbered, Holds, InHand
  <2> QED BY <1>7, <1>8, <2>1
<1>10. \A p, q \in Replicas : p # q /\ tick'[p].n = tick'[q].n => tick'[p].n = 0
  <2>1. \A q \in Replicas : tick'[q].n = IF q = r THEN claims + 1 ELSE tick[q].n
    BY <1>1, <1>3
  <2>2. claims + 1 # 0
    BY <1>1
  <2>3. \A p, q \in Replicas : p # q /\ tick[p].n = tick[q].n => tick[p].n = 0
    BY DEF NumberInv, EveryClaimShows
  <2> QED BY <1>9, <2>1, <2>2, <2>3
<1>11. /\ 1..claims' = InHand' \cup Shown' \cup lost'
       /\ Shown' \cap (InHand' \cup lost') = {} /\ InHand' \cap lost' = {}
  <2>1. Shown \cap (InHand \cup lost) = {} /\ InHand \cap lost = {}
    BY DEF NumberInv, EveryClaimShows
  <2> QED BY <1>5, <1>6, <1>7, <1>8, <2>1
<1> QED BY <1>5, <1>6, <1>10, <1>11 DEF NumberInv, EveryClaimShows

\* A tick that lets go of its claim leaves it as a run, or to the lost ones.
LEMMA ClaimLetGo ==
    ASSUME BaseInv, NumberInv, NEW r \in Replicas, Holds(r), claims' = claims,
           tick' = [tick EXCEPT ![r] = Reindex],
           \/ /\ lost' = lost
              /\ \E s : rows' = rows \cup {ScheduledRun(r, s)}
           \/ lost' = lost \cup {tick[r].n} /\ rows' = rows
    PROVE  NumberInv'
<1> DEFINE n == tick[r].n
<1>1. tick \in [Replicas -> Ticks]
  BY DEF BaseInv, TypeOK
<1>2. n # 0 /\ Reindex.n = 0 /\ Reindex.pc = "reindex"
  BY DEF NumberInv, Numbered, Reindex
<1>3. Numbered' /\ InHand' = InHand \ {n} /\ n \in InHand
  BY <1>2, HandMoves
<1>4. \A p, q \in Replicas : p # q /\ tick'[p].n = tick'[q].n => tick'[p].n = 0
  <2>1. \A q \in Replicas : tick'[q].n = IF q = r THEN 0 ELSE tick[q].n
    BY <1>1, <1>2
  <2> QED BY <2>1 DEF NumberInv, EveryClaimShows
<1>5. /\ 1..claims = InHand \cup Shown \cup lost
      /\ Shown \cap (InHand \cup lost) = {} /\ InHand \cap lost = {}
      /\ \A x, y \in rows : x.trigger = "schedule" /\ y.trigger = "schedule" /\ x.n = y.n => x = y
  BY DEF NumberInv, EveryClaimShows
<1> HIDE DEF n
<1>6. CASE lost' = lost \cup {n} /\ rows' = rows
  <2>1. Shown' = Shown
    BY <1>6 DEF Shown
  <2>2. /\ 1..claims' = InHand' \cup Shown' \cup lost'
        /\ Shown' \cap (InHand' \cup lost') = {} /\ InHand' \cap lost' = {}
    BY <1>3, <1>5, <1>6, <2>1
  <2> QED BY <1>3, <1>4, <1>5, <1>6, <2>2 DEF NumberInv, EveryClaimShows
<1>7. CASE lost' = lost /\ \E s : rows' = rows \cup {ScheduledRun(r, s)}
  <2>1. PICK s : rows' = rows \cup {ScheduledRun(r, s)}
    BY <1>7
  <2>2. ScheduledRun(r, s).trigger = "schedule" /\ ScheduledRun(r, s).n = n
    BY DEF ScheduledRun, n
  <2>3. PICK w : rows' = rows \cup {w} /\ w.trigger = "schedule" /\ w.n = n
    BY <2>1, <2>2
  <2>4. Shown' = Shown \cup {n}
    BY <2>3 DEF Shown
  <2>5. \A x \in rows : x.trigger = "schedule" => x.n # n
    BY <1>3, <1>5 DEF Shown
  <2>6. \A x, y \in rows' : x.trigger = "schedule" /\ y.trigger = "schedule" /\ x.n = y.n => x = y
    BY <1>5, <2>3, <2>5
  <2>7. /\ 1..claims' = InHand' \cup Shown' \cup lost'
        /\ Shown' \cap (InHand' \cup lost') = {} /\ InHand' \cap lost' = {}
    BY <1>3, <1>5, <1>7, <2>4
  <2> QED BY <1>3, <1>4, <2>6, <2>7 DEF NumberInv, EveryClaimShows
<1> QED BY <1>6, <1>7 DEF n

\* Runs that begin by hand or end change no claim's run.
LEMMA ClaimsKeepRuns ==
    ASSUME BaseInv, NumberInv, RunNow \/ \E x \in rows : RunEnds(x)
    PROVE  NumberInv'
<1>1. UNCHANGED <<tick, claims, lost>>
  BY DEF RunNow, RunEnds
<1>2. Numbered' /\ InHand' = InHand
  BY <1>1 DEF NumberInv, Numbered, Holds, InHand
<1>3. /\ 1..claims = InHand \cup Shown \cup lost
      /\ Shown \cap (InHand \cup lost) = {} /\ InHand \cap lost = {}
      /\ \A p, q \in Replicas : p # q /\ tick[p].n = tick[q].n => tick[p].n = 0
      /\ \A x, y \in rows : x.trigger = "schedule" /\ y.trigger = "schedule" /\ x.n = y.n => x = y
  BY DEF NumberInv, EveryClaimShows
<1>4. CASE RunNow
  <2> DEFINE v == [trigger |-> "manual", n |-> manual + 1, sched |-> AnySchedule,
                   first |-> NoTime, slot |-> NoTime, at |-> 0, status |-> "active"]
  <2>1. rows' = rows \cup {v} /\ v.trigger = "manual"
    BY <1>4 DEF RunNow
  <2>2. PICK w : rows' = rows \cup {w} /\ w.trigger = "manual"
    BY <2>1
  <2>3. Shown' = Shown
    BY <2>2 DEF Shown
  <2>4. \A x, y \in rows' : x.trigger = "schedule" /\ y.trigger = "schedule" /\ x.n = y.n => x = y
    BY <1>3, <2>2
  <2> QED BY <1>1, <1>2, <1>3, <2>3, <2>4 DEF NumberInv, EveryClaimShows
<1>5. CASE \E x \in rows : RunEnds(x)
  <2>1. PICK x \in rows : RunEnds(x)
    BY <1>5
  <2>2. x \in RunRows
    BY DEF BaseInv, TypeOK
  <2> DEFINE v == [x EXCEPT !.status = "ended"]
  <2>3. rows' = (rows \ {x}) \cup {v} /\ v.trigger = x.trigger /\ v.n = x.n
    BY <2>1, <2>2 DEF RunEnds, RunRows
  <2>4. PICK w : rows' = (rows \ {x}) \cup {w} /\ w.trigger = x.trigger /\ w.n = x.n
    BY <2>3
  <2>5. Shown' = Shown
    BY <2>4 DEF Shown
  <2>6. \A y, z \in rows' : y.trigger = "schedule" /\ z.trigger = "schedule" /\ y.n = z.n => y = z
    BY <1>3, <2>4
  <2> QED BY <1>1, <1>2, <1>3, <2>5, <2>6 DEF NumberInv, EveryClaimShows
<1> QED BY <1>4, <1>5

\* Every claimed slot becomes exactly one run, started or recorded as skipped,
\* unless the tick that holds it fails (start_scheduled, _record_dropped_fire),
\* whatever the other replicas, the requests and the runs of the pipeline do.
THEOREM ClaimsShow == Spec => []EveryClaimShows
<1>1. Init => NumberInv
  <2> SUFFICES ASSUME Init PROVE NumberInv
    OBVIOUS
  <2>1. Numbered
    BY DEF Init, Numbered, Holds, IdleTick
  <2>2. InHand = {} /\ Shown = {} /\ lost = {}
    BY DEF Init, InHand, Shown, IdleTick
  <2>3. claims = 0 /\ rows = {} /\ \A r \in Replicas : tick[r].n = 0
    BY DEF Init, IdleTick
  <2> QED BY <2>1, <2>2, <2>3 DEF NumberInv, EveryClaimShows
<1>2. BaseInv /\ NumberInv /\ [Next]_vars => NumberInv'
  <2> SUFFICES ASSUME BaseInv, NumberInv, [Next]_vars PROVE NumberInv'
    OBVIOUS
  <2>1. tick \in [Replicas -> Ticks]
    BY DEF BaseInv, TypeOK
  <2>2. ASSUME NEW r \in Replicas, TickStep(r) PROVE NumberInv'
    <3>1. tick[r] \in Ticks /\ (Holds(r) <=> tick[r].n # 0)
      BY <2>1 DEF NumberInv, Numbered
    <3>2. CASE RefreshIndex(r)
      <4>1. IdleTick.n = 0 /\ IdleTick.pc = "idle" /\ tick[r].n = 0
        BY <3>1, <3>2 DEF IdleTick, RefreshIndex, Holds
      <4> QED BY <3>2, <4>1, NumberStays DEF RefreshIndex
    <3>3. CASE ClaimNothing(r) \/ (TickFail(r) /\ tick[r].pc = "claim")
      <4>1. Reindex.n = 0 /\ Reindex.pc = "reindex" /\ tick[r].n = 0
        BY <3>1, <3>3 DEF Reindex, ClaimNothing, Holds
      <4>2. tick' = [tick EXCEPT ![r] = Reindex] /\ UNCHANGED <<rows, claims, lost>>
        BY <3>3 DEF ClaimNothing, TickFail
      <4> QED BY <4>1, <4>2, NumberStays
    <3>4. CASE TickFail(r) /\ tick[r].pc # "claim"
      <4>1. Holds(r)
        BY <3>1, <3>4 DEF TickFail, Holds, Ticks
      <4> QED BY <3>4, <4>1, ClaimLetGo DEF TickFail
    <3>5. CASE TickBegin(r)
      <4> DEFINE y == [tick[r] EXCEPT !.pc = "claim", !.now = clock]
      <4>1. tick' = [tick EXCEPT ![r] = y] /\ y.pc = "claim" /\ y.n = tick[r].n
        BY <2>1, <3>1, <3>5 DEF TickBegin, Ticks
      <4>2. PICK x : tick' = [tick EXCEPT ![r] = x] /\ x.pc = "claim" /\ x.n = tick[r].n
        BY <4>1
      <4>3. tick[r].n = 0 /\ UNCHANGED <<rows, claims, lost>>
        BY <3>1, <3>5 DEF TickBegin, Holds
      <4> QED BY <4>2, <4>3, NumberStays
    <3>6. CASE CreateLock(r) \/ CreateUnlocked(r) \/ CreateBusy(r)
      <4>1. PICK x : /\ tick' = [tick EXCEPT ![r] = x]
                     /\ x.pc \in {"insert", "dropped"} /\ x.n = tick[r].n
        BY <2>1, <3>1, <3>6 DEF CreateLock, CreateUnlocked, CreateBusy, Ticks
      <4>2. Holds(r) /\ UNCHANGED <<rows, claims, lost>>
        BY <3>6 DEF CreateLock, CreateUnlocked, CreateBusy, Holds
      <4> QED BY <3>1, <4>1, <4>2, NumberStays
    <3>7. CASE CreateCommit(r) \/ RecordDropped(r)
      <4>1. Holds(r)
        BY <3>7 DEF CreateCommit, RecordDropped, Holds
      <4> QED BY <3>7, <4>1, ClaimLetGo DEF CreateCommit, RecordDropped
    <3> QED BY <2>2, <3>2, <3>3, <3>4, <3>5, <3>6, <3>7, ClaimIsNumbered DEF TickStep
  <2>3. CASE UNCHANGED <<tick, rows, claims, lost>>
    BY <2>3 DEF NumberInv, Numbered, Holds, EveryClaimShows, InHand, Shown
  <2>4. (\E u \in Editors : EditStep(u)) \/ ClockTick \/ UNCHANGED vars
           => UNCHANGED <<tick, rows, claims, lost>>
    BY DEF EditStep, SaveSchedule, SetOwner, EditBegin, EditCommit, ClockTick, vars
  <2> QED BY <2>2, <2>3, <2>4, ClaimsKeepRuns DEF Next
<1>3. NumberInv => EveryClaimShows
  BY DEF NumberInv
<1> QED BY <1>1, <1>2, <1>3, BaseInvHolds, PTL DEF Spec
=============================================================================
