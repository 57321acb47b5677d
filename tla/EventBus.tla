------------------------------ MODULE EventBus ------------------------------
(***************************************************************************)
(* The replicas' side of the event bus (event_bus.py): sessions on one     *)
(* shared durable consumer, the trigger_bus row with the last contact, and *)
(* the seen sequences that make a redelivery do nothing.  JetStream itself *)
(* is external: it keeps an event for MaxAge, delivers to any reader what  *)
(* is unacknowledged, again and again, and may lose the consumer.          *)
(*                                                                         *)
(*   clock     the time, in units of a day or so; a session is set up, and *)
(*             a fetched event handled, within one unit (Prompt)           *)
(*   events    what was published: when, whether it parses, and (history)  *)
(*             whether a first contact had been recorded by then           *)
(*   consumer  NoConsumer, or its first sequence and the acknowledged ones *)
(*   row       trigger_bus.last_contact_at, Never before the first contact *)
(*   seen      recorded sequences and when; prune drops the old ones       *)
(*   rep       each replica's session: its stage, the `now` and the row it *)
(*             read, the event in its hands                                *)
(*   counted   (history) how often each event was ingested                 *)
(*   heard     (history) events during whose life a contact was recorded   *)
(*   stale     (history) events a contact has left more than the margin    *)
(*             behind                                                      *)
(*   noticed   (history) the last time missed events were announced        *)
(***************************************************************************)
EXTENDS Integers, Sequences, FiniteSets, FiniteSetsExt

CONSTANTS Replicas,
          MaxAge,     \* how long the stream keeps an event
          SeenKeep,   \* how long a seen sequence is kept (8 days to the stream's 7)
          Margin,     \* REPLAY_MARGIN
          MaxClock, MaxEvents, MaxLosses, \* bounds: time, events, lost consumers
          NoConsumer, Never

ASSUME AgesAssumption == MaxAge \in Nat \ {0} /\ SeenKeep \in Nat /\ SeenKeep > MaxAge /\ Margin \in Nat
ASSUME BoundsAssumption == {MaxClock, MaxEvents, MaxLosses} \subseteq Nat
ASSUME NeverAssumption == Never \notin Int  \* NULL is no time

VARIABLES clock, cred, events, consumer, row, seen, rep, losses,
          counted, heard, stale, noticed

vars == <<clock, cred, events, consumer, row, seen, rep, losses,
          counted, heard, stale, noticed>>
history == <<counted, heard, stale, noticed>>

Times == 0..MaxClock
Seqs  == 1..Len(events)

Stages == {"off", "bus", "info", "add", "record", "bind", "reading"}
Off    == [stage |-> "off", now |-> 0, bus |-> Never, msg |-> 0, since |-> 0]

TypeOK ==
  /\ clock \in Times /\ cred \in BOOLEAN /\ losses \in 0..MaxLosses
  /\ \A s \in Seqs : events[s].at \in Times /\ events[s].good \in BOOLEAN
  /\ row \in Times \cup {Never}
  /\ consumer # NoConsumer => consumer.start \in 1..(MaxEvents + 1) /\ consumer.acked \subseteq Seqs
  /\ seen \subseteq [seq : Seqs, at : Times]
  /\ \A r \in Replicas : rep[r].stage \in Stages /\ rep[r].msg \in 0..Len(events)
  /\ counted \in [Seqs -> 0..2]
  /\ heard \subseteq Seqs /\ stale \subseteq Seqs

Init ==
  /\ clock = 0 /\ cred \in BOOLEAN /\ events = <<>> /\ consumer = NoConsumer
  /\ row = Never /\ seen = {} /\ losses = 0
  /\ rep = [r \in Replicas |-> Off]
  /\ counted = <<>> /\ heard = {} /\ stale = {} /\ noticed = Never

Expired(s) == clock - events[s].at > MaxAge

-----------------------------------------------------------------------------
(* The world (external).                                                    *)

\* Setting a session up, or handling a fetched event, sees the clock tick at
\* most once; a session that reads records a contact in every unit.
Prompt == \A r \in Replicas :
            /\ rep[r].stage \notin {"off", "reading"} \/ rep[r].msg # 0 => clock = rep[r].since
            /\ rep[r].stage = "reading" => row = clock

Tick ==
  /\ clock < MaxClock /\ Prompt
  /\ clock' = clock + 1
  /\ UNCHANGED <<cred, events, consumer, row, seen, rep, losses, history>>

\* What a publisher may have written: on which subject, whether the body is an
\* envelope, whether it names the subject's workspace and type, and whether
\* the required texts and the optional numbers of its data are there.
Messages == [subject : {"ours", "not ours"}, envelope : BOOLEAN, workspace : {"same", "another"},
             type : {"same", "another"}, texts : {"there", "missing", "empty"}, numbers : {"there", "missing", "no integer"}]

\* triggers.parse_event: the subject is authoritative.
parse_event(m) ==
  /\ m.subject = "ours"
  /\ m.envelope
  /\ m.workspace = "same" /\ m.type = "same"
  /\ m.texts = "there"
  /\ m.numbers \in {"there", "missing"}

Parsed == {parse_event(m) : m \in Messages}

Publish ==
  /\ Len(events) < MaxEvents
  /\ \E good \in Parsed : events' = Append(events, [at |-> clock, good |-> good, known |-> row # Never])
  /\ counted' = Append(counted, 0)
  /\ UNCHANGED <<clock, cred, consumer, row, seen, rep, losses, heard, stale, noticed>>

\* Core writes the Secret with the credential after the pod has started.
CredArrives ==
  /\ ~cred /\ cred' = TRUE
  /\ UNCHANGED <<clock, events, consumer, row, seen, rep, losses, history>>

ConsumerLost ==
  /\ consumer # NoConsumer /\ losses < MaxLosses
  /\ consumer' = NoConsumer /\ losses' = losses + 1
  /\ UNCHANGED <<clock, cred, events, row, seen, rep, history>>

-----------------------------------------------------------------------------
(* One session.                                                             *)

End(r)     == rep' = [rep EXCEPT ![r] = Off]
Reading(r) == rep' = [rep EXCEPT ![r] = [Off EXCEPT !.stage = "reading"]]

\* _main begins a session once a bus URL is mounted; _ensure_consumer asks for
\* the stream and takes the time.
Connect(r) ==
  /\ cred /\ rep[r].stage = "off"
  /\ rep' = [rep EXCEPT ![r] = [Off EXCEPT !.stage = "bus", !.now = clock, !.since = clock]]
  /\ UNCHANGED <<clock, cred, events, consumer, row, seen, losses, history>>

\* Fault: a silence of just over the stream's age does not count.
Fault_Silent(now, bus) == bus # Never /\ now - bus > MaxAge + 1

\* Nobody read for longer than the stream keeps events.
Silent(now, bus) == bus # Never /\ now - bus > MaxAge

\* Reads the row; event_triggers_missed_events commits before anything else
\* the session does.
TriggerBus(r) ==
  /\ rep[r].stage = "bus"
  /\ rep' = [rep EXCEPT ![r].bus = row, ![r].stage = "info"]
  /\ noticed' = IF Silent(rep[r].now, row) THEN clock ELSE noticed
  /\ UNCHANGED <<clock, cred, events, consumer, row, seen, losses, counted, heard, stale>>

ConsumerInfo(r) ==
  /\ rep[r].stage = "info"
  /\ rep' = [rep EXCEPT ![r].stage = IF consumer = NoConsumer THEN "add" ELSE "record",
                        ![r].bus = IF consumer = NoConsumer THEN @ ELSE Never]
  /\ UNCHANGED <<clock, cred, events, consumer, row, seen, losses, history>>

\* The first consumer gets only new events; a later one those since a little
\* before the last contact.
StartAt(bus) ==
  IF bus = Never THEN Len(events) + 1
  ELSE Min({s \in Seqs : events[s].at >= bus - Margin} \cup {Len(events) + 1})

\* add_consumer: with another configuration than the existing one's it raises.
AddConsumer(r) ==
  /\ rep[r].stage = "add"
  /\ LET new == [start |-> StartAt(rep[r].bus), acked |-> {}, bus |-> rep[r].bus]
         added == rep' = [rep EXCEPT ![r].stage = "record", ![r].bus = Never]
     IN  \/ consumer = NoConsumer /\ consumer' = new /\ added
         \/ consumer # NoConsumer /\ UNCHANGED consumer
              /\ IF consumer.bus = new.bus THEN added ELSE End(r)
  /\ UNCHANGED <<clock, cred, events, row, seen, losses, history>>

\* record_trigger_bus_contact: GREATEST of the two.
Record(time) ==
  /\ row' = IF row = Never \/ row < time THEN time ELSE row
  /\ heard' = heard \cup {s \in Seqs : events[s].at <= time /\ time - events[s].at <= MaxAge}
  /\ stale' = stale \cup {s \in Seqs : events[s].at < time - Margin}

RecordContact(r) ==
  /\ rep[r].stage = "record"
  /\ Record(rep[r].now)
  /\ rep' = [rep EXCEPT ![r].stage = "bind", ![r].now = 0]
  /\ UNCHANGED <<clock, cred, events, consumer, seen, losses, counted, noticed>>

\* The durable is looked up again: it may be gone.
Bind(r) ==
  /\ rep[r].stage = "bind"
  /\ IF consumer = NoConsumer THEN End(r) ELSE Reading(r)
  /\ UNCHANGED <<clock, cred, events, consumer, row, seen, losses, history>>

\* Every CONTACT_SECONDS of reading.
Contact(r) ==
  /\ rep[r].stage = "reading" /\ rep[r].msg = 0 /\ row # clock
  /\ Record(clock)
  /\ UNCHANGED <<clock, cred, events, consumer, seen, rep, losses, counted, noticed>>

\* Fault: a day less than the stream keeps its events.
Fault_prune(r) ==
  /\ rep[r].stage = "reading" /\ rep[r].msg = 0
  /\ seen' = {x \in seen : x.at >= clock - (MaxAge - 1)}
  /\ seen' # seen
  /\ UNCHANGED <<clock, cred, events, consumer, row, rep, losses, history>>

_prune(r) ==
  /\ rep[r].stage = "reading" /\ rep[r].msg = 0
  /\ seen' = {x \in seen : x.at >= clock - SeenKeep}
  /\ seen' # seen
  /\ UNCHANGED <<clock, cred, events, consumer, row, rep, losses, history>>

\* What JetStream may hand out: unacknowledged, not expired, and again to a
\* second replica when the first one's ack is late.
Deliverable(s) == /\ consumer # NoConsumer
                  /\ s >= consumer.start /\ s \notin consumer.acked /\ ~Expired(s)

Fetch(r) ==
  /\ rep[r].stage = "reading" /\ rep[r].msg = 0
  /\ \E s \in Seqs : /\ Deliverable(s)
                     /\ rep' = [rep EXCEPT ![r].msg = s, ![r].since = clock]
  /\ UNCHANGED <<clock, cred, events, consumer, row, seen, losses, history>>

Seen(s) == \E x \in seen : x.seq = s

Ack(s) == IF consumer = NoConsumer THEN consumer
          ELSE [consumer EXCEPT !.acked = @ \cup {s}]

\* TriggerIngest.handle commits and the message is acknowledged; or the
\* session ends in between and the message comes back.  A malformed event is
\* dropped, a seen one left alone.
Handle(r) ==
  /\ rep[r].stage = "reading" /\ rep[r].msg > 0
  /\ LET s == rep[r].msg
         fresh == events[s].good /\ ~Seen(s)
     IN  /\ seen' = IF fresh THEN seen \cup {[seq |-> s, at |-> clock]} ELSE seen
         /\ counted' = IF fresh THEN [counted EXCEPT ![s] = @ + 1] ELSE counted
         /\ \/ consumer' = Ack(s) /\ Reading(r)
            \/ UNCHANGED consumer /\ End(r)
  /\ UNCHANGED <<clock, cred, events, row, losses, heard, stale, noticed>>

\* Fault: acknowledged all the same.
Fault_Nak(r) ==
  /\ rep[r].stage = "reading" /\ rep[r].msg > 0
  /\ Reading(r) /\ consumer' = Ack(rep[r].msg)
  /\ UNCHANGED <<clock, cred, events, row, seen, losses, history>>

\* The store fails: the message is handed back.
Nak(r) ==
  /\ rep[r].stage = "reading" /\ rep[r].msg > 0
  /\ Reading(r)
  /\ UNCHANGED <<clock, cred, events, consumer, row, seen, losses, history>>

\* Any exception, a lost connection, or the death of the replica.
SessionEnds(r) ==
  /\ rep[r].stage # "off"
  /\ End(r)
  /\ UNCHANGED <<clock, cred, events, consumer, row, seen, losses, history>>

-----------------------------------------------------------------------------
Setup(r) == Connect(r) \/ TriggerBus(r) \/ ConsumerInfo(r)
              \/ AddConsumer(r) \/ RecordContact(r) \/ Bind(r)

Next ==
  \/ Tick \/ Publish \/ CredArrives \/ ConsumerLost
  \/ \E r \in Replicas : \/ Setup(r) \/ Contact(r) \/ _prune(r) \/ Fetch(r)
                         \/ Handle(r) \/ Nak(r) \/ SessionEnds(r)

\* Database and bus answer, but for what the consumer's own state refuses.
Answered == \A r \in Replicas : Setup(r) \/ ~(Nak(r) \/ (rep[r].stage # "off" /\ End(r)))

\* The Secret comes, the loops go on, and outages, deaths and refusals by the
\* database end at some time.
Fairness ==
  /\ WF_vars(CredArrives) /\ <>[][Answered]_vars
  /\ \A r \in Replicas : WF_vars(Setup(r) \/ Fetch(r) \/ Handle(r))

Spec == Init /\ [][Next]_vars /\ Fairness

-----------------------------------------------------------------------------
(* Properties.                                                              *)

\* No event is ingested twice, however often JetStream delivers it: not after
\* a replica died between commit and ack, not to two replicas at once, not
\* after the consumer was recreated and not after its seen row was pruned.
HandledOnce == TypeOK /\ \A s \in Seqs : counted[s] <= 1

\* An event the stream dropped while nobody read it is made up for: if its
\* whole life passed between two contacts, then once the later contact is
\* recorded the triggers have been told that events were missed.
LossNoticed ==
  \A s \in Seqs : /\ events[s].known /\ s \notin heard
                  /\ row > events[s].at + MaxAge
                  => noticed # Never /\ noticed > events[s].at + MaxAge

\* A recreated consumer skips only what a contact had left more than the
\* margin behind: everything later and still unhandled it delivers.
SkippedOnlyIfOld ==
  consumer # NoConsumer /\ consumer.bus # Never =>
    \A s \in Seqs : events[s].known /\ counted[s] = 0 /\ s < consumer.start => s \in stale

\* So the gap of an outage is closed: what the bus still has is replayed, and
\* what it has dropped is announced to the triggers (event_bus._ensure_consumer).
GapsKnown == LossNoticed /\ SkippedOnlyIfOld

\* An event that parses and that the consumer would deliver is ingested in
\* the end, whatever sessions end on the way, unless it expires or the
\* consumer is lost first.
EventuallyHandled ==
  \A s \in 1..MaxEvents :
    (s \in Seqs /\ events[s].good /\ Deliverable(s))
      ~> (s \in Seqs /\ (counted[s] > 0 \/ Expired(s) \/ consumer = NoConsumer))
=============================================================================
