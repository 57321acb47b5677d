--------------------------- MODULE EventBusProofs ---------------------------
(***************************************************************************)
(* Proofs about EventBus, for any number of replicas, events and losses of *)
(* the consumer, and every age, retention and margin.                      *)
(***************************************************************************)
EXTENDS EventBus, FiniteSetTheorems, TLAPS

-----------------------------------------------------------------------------
(* Numbers *)

\* Every non-empty set of naturals has a least member.
LEMMA LeastMember ==
    ASSUME NEW T \in SUBSET Nat, T # {}
    PROVE  \E m \in T : \A k \in T : m <= k
<1> DEFINE R == OpToRel(<, Nat)
<1>1. IsWellFoundedOn(R, Nat)
  BY NatLessThanWellFounded
<1>2. \A k, m \in Nat : k < m => <<k, m>> \in R
  BY DEF OpToRel
<1> HIDE DEF R
<1>3. PICK m \in T : \A k \in T : ~(<<k, m>> \in R)
  BY <1>1, WFMin
<1>4. ASSUME NEW k \in T PROVE m <= k
  <2>1. k \in Nat /\ m \in Nat /\ <<k, m>> \notin R
    BY <1>3
  <2>2. ~(k < m)
    BY <1>2, <2>1
  <2> QED BY <2>1, <2>2
<1> QED BY <1>4

-----------------------------------------------------------------------------
(* Types *)

Event   == [at : Times, good : BOOLEAN, known : BOOLEAN]
Session == [stage : Stages, now : Times, bus : Times \cup {Never}, msg : Nat, since : Times]

Types ==
    /\ clock \in Times /\ cred \in BOOLEAN /\ losses \in 0..MaxLosses
    /\ events \in Seq(Event) /\ Len(events) <= MaxEvents
    /\ row \in Times \cup {Never} /\ noticed \in Times \cup {Never}
    /\ rep \in [Replicas -> Session] /\ \A r \in Replicas : rep[r].msg <= Len(events)
    /\ seen \subseteq [seq : Seqs, at : Times]
    /\ counted \in Seq(Nat) /\ Len(counted) = Len(events)
    /\ heard \subseteq Seqs /\ stale \subseteq Seqs
    /\ consumer # NoConsumer =>
          consumer \in [start : 1..(Len(events) + 1), acked : SUBSET Seqs, bus : Times \cup {Never}]

\* What one session did to the replica's record.
Is(x, stage, now, bus, msg, since) ==
    x = [stage |-> stage, now |-> now, bus |-> bus, msg |-> msg, since |-> since]

Changed(r, stage, now, bus, msg, since) ==
    /\ Is(rep'[r], stage, now, bus, msg, since)
    /\ DOMAIN rep' = Replicas
    /\ \A q \in Replicas \ {r} : rep'[q] = rep[q]

\* The record of the replica after each step that writes it.
LEMMA SessionMoves ==
    ASSUME Types, NEW r \in Replicas
    PROVE  /\ End(r) => Changed(r, "off", 0, Never, 0, 0)
           /\ Reading(r) => Changed(r, "reading", 0, Never, 0, 0)
           /\ Connect(r) => Changed(r, "bus", clock, Never, 0, clock)
           /\ TriggerBus(r) => Changed(r, "info", rep[r].now, row, rep[r].msg, rep[r].since)
           /\ ConsumerInfo(r) =>
                IF consumer = NoConsumer
                THEN Changed(r, "add", rep[r].now, rep[r].bus, rep[r].msg, rep[r].since)
                ELSE Changed(r, "record", rep[r].now, Never, rep[r].msg, rep[r].since)
           /\ AddConsumer(r) => \/ Changed(r, "record", rep[r].now, Never, rep[r].msg, rep[r].since)
                                \/ End(r)
           /\ RecordContact(r) => Changed(r, "bind", 0, rep[r].bus, rep[r].msg, rep[r].since)
           /\ \A s : rep' = [rep EXCEPT ![r].msg = s, ![r].since = clock] =>
                Changed(r, rep[r].stage, rep[r].now, rep[r].bus, s, clock)
<1> DEFINE S == rep[r]
<1>1. S \in Session /\ rep \in [Replicas -> Session]
  BY DEF Types
<1>2. S = [stage |-> S.stage, now |-> S.now, bus |-> S.bus, msg |-> S.msg, since |-> S.since]
  BY <1>1 DEF Session
<1>3. End(r) => Changed(r, "off", 0, Never, 0, 0)
  BY <1>1 DEF End, Off, Changed, Is
<1>4. Reading(r) => Changed(r, "reading", 0, Never, 0, 0)
  BY <1>1 DEF Reading, Off, Changed, Is
<1>5. Connect(r) => Changed(r, "bus", clock, Never, 0, clock)
  BY <1>1 DEF Connect, Off, Changed, Is
<1>6. TriggerBus(r) => Changed(r, "info", rep[r].now, row, rep[r].msg, rep[r].since)
  BY <1>1, <1>2 DEF TriggerBus, Changed, Is
<1>7. ConsumerInfo(r) =>
        IF consumer = NoConsumer
        THEN Changed(r, "add", rep[r].now, rep[r].bus, rep[r].msg, rep[r].since)
        ELSE Changed(r, "record", rep[r].now, Never, rep[r].msg, rep[r].since)
  BY <1>1, <1>2 DEF ConsumerInfo, Changed, Is
<1>8. AddConsumer(r) => \/ Changed(r, "record", rep[r].now, Never, rep[r].msg, rep[r].since)
                        \/ End(r)
  BY <1>1, <1>2 DEF AddConsumer, Changed, Is
<1>9. RecordContact(r) => Changed(r, "bind", 0, rep[r].bus, rep[r].msg, rep[r].since)
  BY <1>1, <1>2 DEF RecordContact, Changed, Is
<1>10. ASSUME NEW s, rep' = [rep EXCEPT ![r].msg = s, ![r].since = clock]
       PROVE  Changed(r, rep[r].stage, rep[r].now, rep[r].bus, s, clock)
  BY <1>1, <1>2, <1>10 DEF Changed, Is
<1> QED BY <1>3, <1>4, <1>5, <1>6, <1>7, <1>8, <1>9, <1>10

\* What the other variables are after a step: what Types says of them.
LEMMA ParsedBoolean == Parsed \subseteq BOOLEAN
<1>1. \A m \in Messages : parse_event(m) \in BOOLEAN
  BY Zenon DEF parse_event
<1> QED BY <1>1 DEF Parsed

\* The replicas' records stay typed when one of them is written.
LEMMA SessionsTyped ==
    ASSUME Types, NEW r \in Replicas, NEW stage \in Stages, NEW now \in Times,
           NEW bus \in Times \cup {Never}, NEW since \in Times, NEW msg \in 0..Len(events),
           Changed(r, stage, now, bus, msg, since), Len(events') = Len(events),
           rep' = [q \in Replicas |-> rep'[q]]
    PROVE  rep' \in [Replicas -> Session] /\ \A q \in Replicas : rep'[q].msg <= Len(events')
<1>1. \A q \in Replicas : rep[q] \in Session /\ rep[q].msg <= Len(events)
  BY DEF Types
<1>2. rep'[r] \in Session /\ rep'[r].msg = msg
  BY DEF Changed, Is, Session
<1>3. Len(events) \in Nat
  BY DEF Types
<1> QED BY <1>1, <1>2, <1>3 DEF Changed

\* A lone assignment to the replicas' records gives a function again.
LEMMA SessionsFunction ==
    ASSUME Types, NEW r \in Replicas
    PROVE  (\/ End(r) \/ Reading(r) \/ Setup(r) \/ Fetch(r)) => rep' = [q \in Replicas |-> rep'[q]]
<1>1. rep = [q \in Replicas |-> rep[q]]
  BY DEF Types
<1> QED BY <1>1 DEF End, Reading, Setup, Fetch, Connect, TriggerBus, ConsumerInfo, AddConsumer, RecordContact, Bind

\* What is known of one event.
LEMMA EventsTyped ==
    ASSUME Types
    PROVE  /\ Len(events) \in Nat /\ Seqs \subseteq Nat
           /\ \A s \in Seqs : events[s] \in Event /\ events[s].at \in Times /\ events[s].at \in Int
<1>1. \A s \in Seqs : events[s] \in Event
  BY DEF Seqs, Types
<1>2. \A x \in Event : x.at \in Times /\ x.at \in Int
  BY BoundsAssumption DEF Event, Times
<1> QED BY <1>1, <1>2 DEF Types, Seqs

\* StartAt picks a sequence at most one past the last.
LEMMA StartAtBounds ==
    ASSUME Types, NEW bus \in Times \cup {Never}
    PROVE  /\ StartAt(bus) \in 1..(Len(events) + 1)
           /\ bus # Never => \A s \in Seqs : s < StartAt(bus) => events[s].at < bus - Margin
<1> DEFINE T == {s \in Seqs : events[s].at >= bus - Margin} \cup {Len(events) + 1}
<1>1. Len(events) \in Nat
  BY DEF Types
<1>2. CASE bus = Never
  BY <1>1, <1>2 DEF StartAt
<1>3. CASE bus # Never
  <2>1. T \in SUBSET Nat /\ T # {} /\ T \subseteq 1..(Len(events) + 1)
    BY <1>1 DEF Seqs
  <2>2. StartAt(bus) = Min(T)
    BY <1>3 DEF StartAt
  <2>3. \A s \in Seqs : s \notin T => events[s].at < bus - Margin
    <3>1. \A s \in Seqs : events[s].at \in Int
      BY EventsTyped
    <3>2. bus - Margin \in Int
      BY <1>3, AgesAssumption, BoundsAssumption DEF Times
    <3> QED BY <3>1, <3>2
  <2> HIDE DEF T
  <2>4. \E m \in T : \A k \in T : m <= k
    BY <2>1, LeastMember
  <2>5. Min(T) \in T /\ \A k \in T : Min(T) <= k
    BY <2>4 DEF Min
  <2>6. \A s \in Seqs : s < Min(T) => s \notin T
    <3>1. Min(T) \in Nat /\ \A s \in Seqs : s \in Nat
      BY <2>1, <2>5, EventsTyped
    <3> QED BY <2>5, <3>1
  <2> QED BY <2>1, <2>2, <2>3, <2>5, <2>6
<1> QED BY <1>2, <1>3

\* Which sequences there are is untouched by a step that publishes nothing.
LEMMA TypesStep ==
    ASSUME Types, [Next]_vars
    PROVE  Types'
<1>1. Len(events) \in Nat /\ 0 \in Times /\ clock \in Times /\ Len(counted) = Len(events)
  BY BoundsAssumption DEF Types, Times
<1>2. CASE UNCHANGED vars
  BY <1>2 DEF vars, Types, Seqs, history
<1>3. CASE Tick
  <2>1. clock' \in Times
    BY <1>3, BoundsAssumption DEF Tick, Times, Types
  <2> QED BY <1>3, <2>1 DEF Tick, Types, Seqs, history
<1>4. CASE Publish
  <2>1. PICK e \in Event : events' = Append(events, e)
    <3>1. PICK good \in Parsed : events' = Append(events, [at |-> clock, good |-> good, known |-> row # Never])
      BY <1>4 DEF Publish
    <3>2. [at |-> clock, good |-> good, known |-> row # Never] \in Event
      BY <1>1, ParsedBoolean, Zenon DEF Event
    <3> QED BY <3>1, <3>2
  <2>2. events' \in Seq(Event) /\ Len(events') = Len(events) + 1 /\ Len(events') <= MaxEvents
    BY <1>1, <1>4, <2>1, BoundsAssumption DEF Publish, Types
  <2>3. counted' \in Seq(Nat) /\ Len(counted') = Len(events) + 1
    BY <1>4 DEF Publish, Types
  <2>4. Seqs \subseteq Seqs' /\ 1..(Len(events) + 1) \subseteq 1..(Len(events') + 1)
    BY <1>1, <2>2 DEF Seqs
  <2>5. consumer' # NoConsumer =>
          consumer' \in [start : 1..(Len(events') + 1), acked : SUBSET Seqs', bus : Times \cup {Never}]
    BY <1>4, <2>4 DEF Publish, Types
  <2>6. \A r \in Replicas : rep'[r].msg <= Len(events')
    <3>1. \A r \in Replicas : rep[r].msg \in Nat /\ rep[r].msg <= Len(events)
      BY DEF Types, Session
    <3> QED BY <1>1, <1>4, <2>2, <3>1 DEF Publish
  <2>7. seen' \subseteq [seq : Seqs', at : Times] /\ heard' \subseteq Seqs' /\ stale' \subseteq Seqs'
    BY <1>4, <2>4 DEF Publish, Types
  <2> QED BY <1>4, <2>2, <2>3, <2>5, <2>6, <2>7 DEF Publish, Types
<1>5. CASE CredArrives
  BY <1>5 DEF CredArrives, Types, Seqs, history
<1>6. CASE ConsumerLost
  <2>1. losses' \in 0..MaxLosses
    BY <1>6, BoundsAssumption DEF ConsumerLost, Types
  <2> QED BY <1>6, <2>1 DEF ConsumerLost, Types, Seqs, history
<1>7. ASSUME NEW r \in Replicas, Setup(r) \/ Contact(r) \/ _prune(r) \/ Fetch(r) \/ Handle(r) \/ Nak(r) \/ SessionEnds(r)
      PROVE  Types'
  <2>1. /\ rep[r] \in Session /\ rep[r].stage \in Stages /\ rep[r].now \in Times /\ rep[r].since \in Times
        /\ rep[r].bus \in Times \cup {Never} /\ rep[r].msg \in 0..Len(events)
    <3>1. rep[r] \in Session /\ rep[r].msg <= Len(events)
      BY DEF Types
    <3>2. \A x \in Session : /\ x.stage \in Stages /\ x.now \in Times /\ x.since \in Times
                             /\ x.bus \in Times \cup {Never} /\ x.msg \in Nat
      BY DEF Session
    <3> QED BY <1>1, <3>1, <3>2
  <2>2. UNCHANGED <<clock, cred, events, losses>> /\ Seqs' = Seqs /\ clock' = clock /\ events' = events
    BY <1>7 DEF Setup, Connect, TriggerBus, ConsumerInfo, AddConsumer, RecordContact, Bind, Contact, _prune,
                Fetch, Handle, Nak, SessionEnds, history, Seqs
  <2>3. \/ UNCHANGED rep
        \/ \E stage \in Stages, now \in Times, bus \in Times \cup {Never}, since \in Times, msg \in 0..Len(events) :
              Changed(r, stage, now, bus, msg, since) /\ rep' = [q \in Replicas |-> rep'[q]]
    <3> DEFINE Goal == \E stage \in Stages, now \in Times, bus \in Times \cup {Never}, since \in Times, msg \in 0..Len(events) :
              Changed(r, stage, now, bus, msg, since) /\ rep' = [q \in Replicas |-> rep'[q]]
    <3>1. {"off", "bus", "info", "add", "record", "bind", "reading"} \subseteq Stages /\ 0 \in 0..Len(events)
          /\ row \in Times \cup {Never} /\ Never \in Times \cup {Never}
      BY <1>1 DEF Stages, Types
    <3>2. End(r) \/ Reading(r) => Goal
      BY <1>1, <3>1, SessionMoves, SessionsFunction
    <3>3. Setup(r) => Goal
      <4>1. Connect(r) => Goal
        BY <1>1, <3>1, SessionMoves, SessionsFunction DEF Setup
      <4>2. TriggerBus(r) => Goal
        BY <2>1, <3>1, SessionMoves, SessionsFunction DEF Setup
      <4>3. ConsumerInfo(r) => Goal
        BY <2>1, <3>1, SessionMoves, SessionsFunction DEF Setup
      <4>4. AddConsumer(r) => Goal
        BY <2>1, <3>1, <3>2, SessionMoves, SessionsFunction DEF Setup
      <4>5. RecordContact(r) => Goal
        BY <1>1, <2>1, <3>1, SessionMoves, SessionsFunction DEF Setup
      <4>6. Bind(r) => Goal
        BY <3>2 DEF Bind
      <4> QED BY <4>1, <4>2, <4>3, <4>4, <4>5, <4>6 DEF Setup
    <3>4. Fetch(r) => Goal
      <4> SUFFICES ASSUME Fetch(r) PROVE Goal
        OBVIOUS
      <4>1. PICK s \in Seqs : rep' = [rep EXCEPT ![r].msg = s, ![r].since = clock]
        BY DEF Fetch
      <4>2. s \in 0..Len(events)
        BY <1>1 DEF Seqs
      <4>3. Changed(r, rep[r].stage, rep[r].now, rep[r].bus, s, clock) /\ rep' = [q \in Replicas |-> rep'[q]]
        BY <4>1, SessionMoves, SessionsFunction
      <4> QED BY <1>1, <2>1, <4>2, <4>3
    <3>5. Handle(r) \/ Nak(r) \/ SessionEnds(r) => Goal
      BY <3>2 DEF Handle, Nak, SessionEnds
    <3>6. Contact(r) \/ _prune(r) => UNCHANGED rep
      BY DEF Contact, _prune
    <3> QED BY <1>7, <3>3, <3>4, <3>5, <3>6
  <2>4. rep' \in [Replicas -> Session] /\ \A q \in Replicas : rep'[q].msg <= Len(events')
    <3>1. CASE UNCHANGED rep
      BY <2>2, <3>1 DEF Types
    <3>2. CASE ~UNCHANGED rep
      BY <2>2, <2>3, <3>2, SessionsTyped
    <3> QED BY <3>1, <3>2
  <2>5. /\ row' \in Times \cup {Never} /\ heard' \subseteq Seqs /\ stale' \subseteq Seqs
    <3>1. \A time \in Times : Record(time) => /\ row' \in Times \cup {Never} /\ heard' \subseteq Seqs /\ stale' \subseteq Seqs
      BY DEF Record, Types
    <3>2. RecordContact(r) => /\ row' \in Times \cup {Never} /\ heard' \subseteq Seqs /\ stale' \subseteq Seqs
      BY <2>1, <3>1 DEF RecordContact
    <3>3. Contact(r) => /\ row' \in Times \cup {Never} /\ heard' \subseteq Seqs /\ stale' \subseteq Seqs
      BY <1>1, <3>1 DEF Contact
    <3>4. ~RecordContact(r) /\ ~Contact(r) => UNCHANGED <<row, heard, stale>>
      BY <1>7 DEF Setup, Connect, TriggerBus, ConsumerInfo, AddConsumer, Bind, _prune, Fetch, Handle, Nak, SessionEnds, history
    <3> QED BY <3>2, <3>3, <3>4 DEF Types
  <2>6. noticed' \in Times \cup {Never}
    BY <1>7 DEF Types, Setup, Connect, TriggerBus, ConsumerInfo, AddConsumer, RecordContact, Bind, Contact, _prune,
                Fetch, Handle, Nak, SessionEnds, history
  <2>7. seen' \subseteq [seq : Seqs, at : Times] /\ counted' \in Seq(Nat) /\ Len(counted') = Len(events)
    <3>1. CASE Handle(r)
      <4>1. rep[r].msg \in Seqs
        BY <1>1, <2>1, <3>1 DEF Handle, Seqs
      <4>2. seen' \subseteq [seq : Seqs, at : Times]
        <5>1. seen' = seen \/ seen' = seen \cup {[seq |-> rep[r].msg, at |-> clock]}
          BY <3>1 DEF Handle
        <5> QED BY <1>1, <4>1, <5>1 DEF Types
      <4>3. counted' = counted \/ counted' = [counted EXCEPT ![rep[r].msg] = counted[rep[r].msg] + 1]
        BY <3>1 DEF Handle
      <4>4. counted \in Seq(Nat) /\ rep[r].msg \in 1..Len(counted)
        BY <1>1, <4>1 DEF Types, Seqs
      <4> QED BY <1>1, <4>2, <4>3, <4>4
    <3>2. CASE ~Handle(r)
      <4>1. counted' = counted /\ seen' \subseteq seen
        BY <1>7, <3>2 DEF Setup, Connect, TriggerBus, ConsumerInfo, AddConsumer, RecordContact, Bind, Contact, _prune,
                Fetch, Nak, SessionEnds, history
      <4> QED BY <1>1, <4>1 DEF Types
    <3> QED BY <3>1, <3>2
  <2>8. consumer' # NoConsumer =>
          consumer' \in [start : 1..(Len(events) + 1), acked : SUBSET Seqs, bus : Times \cup {Never}]
    <3>1. CASE AddConsumer(r)
      <4>1. \/ consumer' = consumer
            \/ consumer' = [start |-> StartAt(rep[r].bus), acked |-> {}, bus |-> rep[r].bus]
        BY <3>1 DEF AddConsumer
      <4> QED BY <2>1, <4>1, StartAtBounds DEF Types
    <3>2. CASE Handle(r)
      <4>1. rep[r].msg \in Seqs
        BY <1>1, <2>1, <3>2 DEF Handle, Seqs
      <4>2. \/ consumer' = consumer
            \/ consumer # NoConsumer /\ consumer' = [consumer EXCEPT !.acked = @ \cup {rep[r].msg}]
        BY <3>2 DEF Handle, Ack
      <4> QED BY <4>1, <4>2 DEF Types
    <3>3. CASE ~AddConsumer(r) /\ ~Handle(r)
      <4>1. consumer' = consumer
        BY <1>7, <3>3 DEF Setup, Connect, TriggerBus, ConsumerInfo, RecordContact, Bind, Contact, _prune,
                Fetch, Nak, SessionEnds, history
      <4> QED BY <4>1 DEF Types
    <3> QED BY <3>1, <3>2, <3>3
  <2> QED BY <2>2, <2>4, <2>5, <2>6, <2>7, <2>8 DEF Types
<1> QED BY <1>2, <1>3, <1>4, <1>5, <1>6, <1>7 DEF Next

-----------------------------------------------------------------------------
(* Nothing is handled twice *)

\* Nothing carries a time that is yet to come, and what a session took the
\* time for, it does before the clock has ticked twice.
Past ==
    /\ \A s \in Seqs : events[s].at <= clock
    /\ row # Never => row <= clock
    /\ noticed # Never => noticed <= clock
    /\ \A r \in Replicas : rep[r].now <= clock /\ rep[r].since <= clock

InTime ==
    \A r \in Replicas :
       rep[r].stage \notin {"off", "reading"} \/ rep[r].msg # 0 => clock <= rep[r].since + 1

\* An event in hand had not expired when it was fetched.
InHand ==
    \A r \in Replicas : rep[r].msg # 0 => rep[r].since - events[rep[r].msg].at <= MaxAge

\* The row that marks an event as seen is younger than the event, and gone only
\* when the stream has long dropped the event.
Marked ==
    /\ \A x \in seen : x.at >= events[x.seq].at
    /\ \A s \in Seqs : counted[s] <= 1
    /\ \A s \in Seqs : counted[s] # 0 => Seen(s) \/ clock - events[s].at > SeenKeep

HInv == Types /\ Past /\ InTime /\ InHand /\ Marked

\* The numbers in a typed state.
LEMMA Numbers ==
    ASSUME Types
    PROVE  /\ Times \subseteq Int /\ clock \in Int /\ MaxAge \in Int /\ SeenKeep \in Int /\ Margin \in Int
           /\ \A r \in Replicas : /\ rep[r].now \in Int /\ rep[r].since \in Int /\ rep[r].msg \in Nat
                                  /\ rep[r].msg # 0 => rep[r].msg \in Seqs
                                  /\ rep[r].bus # Never => rep[r].bus \in Int
           /\ \A s \in Seqs : events[s].at \in Int /\ counted[s] \in Nat
           /\ \A x \in seen : x.seq \in Seqs /\ x.at \in Int
           /\ row # Never => row \in Int
           /\ noticed # Never => noticed \in Int
<1>1. Times \subseteq Int /\ clock \in Times
  BY BoundsAssumption DEF Times, Types
<1>2. MaxAge \in Int /\ SeenKeep \in Int /\ Margin \in Int
  BY AgesAssumption
<1>3. \A r \in Replicas : /\ rep[r] \in Session /\ rep[r].msg <= Len(events)
  BY DEF Types
<1>4. \A x \in Session : x.now \in Times /\ x.since \in Times /\ x.msg \in Nat /\ x.bus \in Times \cup {Never}
  BY DEF Session
<1>5. \A m \in Nat : m # 0 /\ m <= Len(events) => m \in Seqs
  BY EventsTyped DEF Seqs
<1>6. \A s \in Seqs : events[s].at \in Int /\ counted[s] \in Nat
  <2>1. \A s \in Seqs : counted[s] \in Nat
    BY DEF Types, Seqs
  <2> QED BY <2>1, EventsTyped
<1>7. \A x \in seen : x.seq \in Seqs /\ x.at \in Times
  BY DEF Types
<1>8. (row # Never => row \in Times) /\ (noticed # Never => noticed \in Times)
  BY DEF Types
<1>9. \A r \in Replicas : rep[r].now \in Times /\ rep[r].since \in Times /\ rep[r].msg \in Nat /\ rep[r].bus \in Times \cup {Never}
  BY <1>3, <1>4
<1>10. \A r \in Replicas : rep[r].msg # 0 => rep[r].msg \in Seqs
  BY <1>3, <1>5, <1>9
<1> QED BY <1>1, <1>2, <1>6, <1>7, <1>8, <1>9, <1>10

\* The steps of a replica, and what each leaves alone.
Calm(r) == Setup(r) \/ Contact(r) \/ Fetch(r) \/ Nak(r) \/ SessionEnds(r)

\* Only handling, marking and the bus itself move the clock, the events or what was seen.
LEMMA CalmStep ==
    ASSUME NEW r \in Replicas, Calm(r)
    PROVE  UNCHANGED <<clock, events, seen, counted>>
BY DEF Calm, Setup, Connect, TriggerBus, ConsumerInfo, AddConsumer, RecordContact, Bind, Contact,
       Fetch, Nak, SessionEnds, history

\* The clock of the session after a step of its replica: what was taken from
\* the clock in this step is not late.
LEMMA SessionInTime ==
    ASSUME HInv, NEW r \in Replicas,
           Calm(r) \/ _prune(r) \/ Handle(r)
    PROVE  \A q \in Replicas :
              /\ rep'[q].now <= clock /\ rep'[q].since <= clock
              /\ (rep'[q].stage \notin {"off", "reading"} \/ rep'[q].msg # 0) => clock <= rep'[q].since + 1
              /\ rep'[q].msg # 0 => rep'[q].msg \in Seqs /\ rep'[q].since - events[rep'[q].msg].at <= MaxAge
<1> DEFINE Good(x) == /\ x.now <= clock /\ x.since <= clock
                      /\ (x.stage \notin {"off", "reading"} \/ x.msg # 0) => clock <= x.since + 1
                      /\ x.msg # 0 => x.msg \in Seqs /\ x.since - events[x.msg].at <= MaxAge
<1> USE DEF HInv
<1>1. \A q \in Replicas : Good(rep[q])
  BY Numbers DEF Past, InTime, InHand
<1>2. 0 <= clock /\ clock \in Int
  BY BoundsAssumption DEF Types, Times
<1>3. ASSUME NEW stage, NEW now, NEW bus, NEW msg, NEW since, Changed(r, stage, now, bus, msg, since),
             now <= clock /\ since <= clock,
             (stage \notin {"off", "reading"} \/ msg # 0) => clock <= since + 1,
             msg # 0 => msg \in Seqs /\ since - events[msg].at <= MaxAge
      PROVE  \A q \in Replicas : Good(rep'[q])
  BY <1>1, <1>3 DEF Changed, Is
<1>4. CASE End(r) \/ Reading(r)
  BY <1>2, <1>3, <1>4, SessionMoves
<1>5. CASE Connect(r)
  BY <1>2, <1>3, <1>5, SessionMoves
<1>6. CASE TriggerBus(r)
  <2>1. Good(rep[r]) /\ rep[r].stage = "bus"
    BY <1>1, <1>6 DEF TriggerBus
  <2> QED BY <1>3, <1>6, <2>1, SessionMoves
<1>7. CASE ConsumerInfo(r)
  <2>1. Good(rep[r]) /\ rep[r].stage = "info"
    BY <1>1, <1>7 DEF ConsumerInfo
  <2> QED BY <1>3, <1>7, <2>1, SessionMoves
<1>8. CASE AddConsumer(r)
  <2>1. Good(rep[r]) /\ rep[r].stage = "add"
    BY <1>1, <1>8 DEF AddConsumer
  <2> QED BY <1>3, <1>4, <1>8, <2>1, SessionMoves
<1>9. CASE RecordContact(r)
  <2>1. Good(rep[r]) /\ rep[r].stage = "record"
    BY <1>1, <1>9 DEF RecordContact
  <2> QED BY <1>2, <1>3, <1>9, <2>1, SessionMoves
<1>10. CASE Fetch(r)
  <2>1. PICK s \in Seqs : Deliverable(s) /\ rep' = [rep EXCEPT ![r].msg = s, ![r].since = clock]
    BY <1>10 DEF Fetch
  <2>2. Good(rep[r]) /\ clock - events[s].at <= MaxAge
    BY <1>1, <2>1, Numbers DEF Deliverable, Expired
  <2>3. Changed(r, rep[r].stage, rep[r].now, rep[r].bus, s, clock)
    BY <2>1, SessionMoves
  <2> QED BY <1>2, <1>3, <2>2, <2>3
<1>11. CASE Contact(r) \/ _prune(r)
  BY <1>1, <1>11 DEF Contact, _prune
<1>12. CASE Bind(r) \/ Handle(r) \/ Nak(r) \/ SessionEnds(r)
  BY <1>4, <1>12 DEF Bind, Handle, Nak, SessionEnds
<1>13. \A q \in Replicas : Good(rep'[q])
  BY <1>5, <1>6, <1>7, <1>8, <1>9, <1>10, <1>11, <1>12 DEF Calm, Setup
<1> QED BY <1>13

\* No step puts a time in the future or a message in hand that was not taken.
LEMMA PastStep ==
    ASSUME HInv, [Next]_vars, Types'
    PROVE  Past' /\ InTime' /\ InHand'
<1> USE DEF HInv
<1>1. 0 <= clock /\ clock \in Int
  BY BoundsAssumption DEF Types, Times
<1>2. CASE UNCHANGED vars \/ CredArrives \/ ConsumerLost
  BY <1>2 DEF vars, CredArrives, ConsumerLost, history, Past, InTime, InHand, Seqs
<1>3. CASE Tick
  <2>1. clock' = clock + 1 /\ UNCHANGED <<events, row, rep, noticed>> /\ Prompt
    BY <1>3 DEF Tick, history
  <2>2. \A r \in Replicas : rep[r].stage \notin {"off", "reading"} \/ rep[r].msg # 0 => clock = rep[r].since
    BY <2>1 DEF Prompt
  <2>3. Past'
    BY <1>1, <2>1, Numbers DEF Past, Seqs
  <2>4. InTime'
    BY <1>1, <2>1, <2>2, Numbers DEF InTime
  <2> QED BY <2>1, <2>3, <2>4 DEF InHand
<1>4. CASE Publish
  <2>1. PICK good \in Parsed : events' = Append(events, [at |-> clock, good |-> good, known |-> row # Never])
    BY <1>4 DEF Publish
  <2>2. UNCHANGED <<clock, row, rep, noticed>>
    BY <1>4 DEF Publish
  <2>3. /\ Seqs' = Seqs \cup {Len(events) + 1} /\ events'[Len(events) + 1].at = clock
        /\ \A s \in Seqs : events'[s] = events[s]
    BY <2>1 DEF Types, Seqs
  <2>4. Past'
    BY <1>1, <2>2, <2>3 DEF Past
  <2>5. InHand'
    BY <2>2, <2>3, Numbers DEF InHand
  <2> QED BY <2>2, <2>4, <2>5 DEF InTime
<1>5. ASSUME NEW r \in Replicas, Calm(r) \/ _prune(r) \/ Handle(r)
      PROVE  Past' /\ InTime' /\ InHand'
  <2>1. UNCHANGED <<clock, events>> /\ Seqs' = Seqs
    BY <1>5, CalmStep DEF _prune, Handle, Seqs
  <2>2. /\ row' = row \/ row' = clock \/ row' = rep[r].now
        /\ noticed' = noticed \/ noticed' = clock
    BY <1>5 DEF Calm, Setup, Connect, TriggerBus, ConsumerInfo, AddConsumer, RecordContact, Bind, Contact,
       Fetch, Nak, SessionEnds, history, Record, _prune, Handle
  <2>3. rep[r].now <= clock
    BY DEF Past
  <2>4. InTime' /\ InHand'
    BY <1>5, <2>1, SessionInTime DEF InTime, InHand
  <2>5. \A q \in Replicas : rep'[q].now <= clock /\ rep'[q].since <= clock
    BY <1>5, SessionInTime
  <2>6. Past'
    BY <1>1, <2>1, <2>2, <2>3, <2>5 DEF Past
  <2> QED BY <2>4, <2>6
<1> QED BY <1>2, <1>3, <1>4, <1>5 DEF Next, Calm

\* What was counted stays marked as long as it could be delivered again.
LEMMA MarkedStep ==
    ASSUME HInv, [Next]_vars, Types'
    PROVE  Marked'
<1> USE DEF HInv
<1>1. CASE UNCHANGED vars \/ CredArrives \/ ConsumerLost
  BY <1>1 DEF vars, CredArrives, ConsumerLost, history, Marked, Seqs, Seen
<1>2. CASE Tick
  <2>1. clock' = clock + 1 /\ UNCHANGED <<events, seen, counted>>
    BY <1>2 DEF Tick, history
  <2> QED BY <2>1, Numbers DEF Marked, Seqs, Seen
<1>3. CASE Publish
  <2>1. PICK good \in Parsed : events' = Append(events, [at |-> clock, good |-> good, known |-> row # Never])
    BY <1>3 DEF Publish
  <2>2. UNCHANGED <<clock, seen>> /\ counted' = Append(counted, 0)
    BY <1>3 DEF Publish
  <2>3. /\ Seqs' = Seqs \cup {Len(events) + 1} /\ counted'[Len(events) + 1] = 0
        /\ \A s \in Seqs : events'[s] = events[s] /\ counted'[s] = counted[s]
    BY <2>1, <2>2 DEF Types, Seqs
  <2>4. \A x \in seen' : x.at >= events'[x.seq].at
    BY <2>2, <2>3, Numbers DEF Marked
  <2>5. \A q \in Seqs' : counted'[q] <= 1 /\ (counted'[q] # 0 => Seen(q)' \/ clock' - events'[q].at > SeenKeep)
    <3>1. \A q \in Seqs : Seen(q)' <=> Seen(q)
      BY <2>2 DEF Seen
    <3>2. \A q \in Seqs : counted'[q] <= 1 /\ (counted'[q] # 0 => Seen(q)' \/ clock' - events'[q].at > SeenKeep)
      BY <2>2, <2>3, <3>1 DEF Marked
    <3> QED BY <2>3, <3>2
  <2> QED BY <2>4, <2>5 DEF Marked
<1>4. ASSUME NEW r \in Replicas, Calm(r)
      PROVE  Marked'
  BY <1>4, CalmStep DEF Marked, Seqs, Seen
<1>5. ASSUME NEW r \in Replicas, _prune(r)
      PROVE  Marked'
  <2>1. UNCHANGED <<clock, events, counted>> /\ seen' = {x \in seen : x.at >= clock - SeenKeep}
    BY <1>5 DEF _prune, history
  <2>2. ASSUME NEW s \in Seqs, counted[s] # 0
        PROVE  Seen(s)' \/ clock - events[s].at > SeenKeep
    <3>1. CASE Seen(s)
      <4>1. PICK x \in seen : x.seq = s
        BY <3>1 DEF Seen
      <4>2. x.at >= events[s].at /\ x.at \in Int /\ events[s].at \in Int
        BY <4>1, Numbers DEF Marked
      <4>3. CASE x.at >= clock - SeenKeep
        BY <2>1, <4>1, <4>3 DEF Seen
      <4>4. CASE ~(x.at >= clock - SeenKeep)
        BY <4>2, <4>4, Numbers
      <4> QED BY <4>3, <4>4
    <3>2. CASE ~Seen(s)
      BY <2>2, <3>2 DEF Marked
    <3> QED BY <3>1, <3>2
  <2> QED BY <2>1, <2>2 DEF Marked, Seqs
<1>6. ASSUME NEW r \in Replicas, Handle(r)
      PROVE  Marked'
  <2>0. PICK s \in Nat : s = rep[r].msg
    BY Numbers
  <2>1. UNCHANGED <<clock, events>> /\ s # 0
    BY <1>6, <2>0 DEF Handle
  <2>2. s \in Seqs /\ s \in 1..Len(counted) /\ counted \in Seq(Nat)
    BY <2>0, <2>1, Numbers DEF Seqs, Types
  <2>3. CASE seen' = seen /\ counted' = counted
    BY <2>1, <2>3 DEF Marked, Seqs, Seen
  <2>4. CASE ~Seen(s) /\ seen' = seen \cup {[seq |-> s, at |-> clock]} /\ counted' = [counted EXCEPT ![s] = @ + 1]
    <3>1. clock - events[s].at <= SeenKeep
      <4>1. clock <= rep[r].since + 1 /\ rep[r].since - events[s].at <= MaxAge
        BY <2>0, <2>1 DEF InTime, InHand
      <4>2. clock \in Int /\ rep[r].since \in Int /\ events[s].at \in Int /\ MaxAge \in Int /\ SeenKeep \in Int
        BY <2>2, Numbers
      <4> QED BY <4>1, <4>2, AgesAssumption
    <3>2. counted[s] = 0
      BY <2>2, <2>4, <3>1, Numbers DEF Marked
    <3>3. counted'[s] = 1 /\ \A q \in Seqs \ {s} : counted'[q] = counted[q]
      BY <2>2, <2>4, <3>2 DEF Types, Seqs
    <3>4. Seen(s)' /\ \A q \in Seqs : Seen(q) => Seen(q)'
      <4>1. [seq |-> s, at |-> clock] \in seen' /\ [seq |-> s, at |-> clock].seq = s /\ seen \subseteq seen'
        BY <2>4
      <4> QED BY <4>1 DEF Seen
    <3>5. clock >= events[s].at
      BY <2>2, Numbers DEF Past
    <3>6. \A x \in seen' : x.at >= events[x.seq].at
      BY <2>4, <3>5 DEF Marked
    <3> QED BY <2>1, <3>3, <3>4, <3>6 DEF Marked, Seqs
  <2> QED BY <1>6, <2>0, <2>3, <2>4 DEF Handle
<1> QED BY <1>1, <1>2, <1>3, <1>4, <1>5, <1>6 DEF Next, Calm

\* The first invariant holds at first.
LEMMA HInvInit == Init => HInv
<1> SUFFICES ASSUME Init PROVE HInv
  OBVIOUS
<1>1. 0 \in Times /\ 0 \in 0..MaxLosses
  BY BoundsAssumption DEF Times
<1>2. Off \in Session /\ Off.msg = 0 /\ Off.stage = "off" /\ Off.now = 0 /\ Off.since = 0
  BY <1>1 DEF Off, Session, Stages
<1>3. Seqs = {} /\ Len(events) = 0
  BY DEF Init, Seqs
<1>4. Types
  BY <1>1, <1>2, <1>3, BoundsAssumption DEF Init, Types
<1> QED BY <1>2, <1>3, <1>4 DEF Init, HInv, Past, InTime, InHand, Marked

\* And in every reachable state.
LEMMA HInvInductive == Spec => []HInv
<1>1. Init => HInv
  BY HInvInit
<1>2. HInv /\ [Next]_vars => HInv'
  BY TypesStep, PastStep, MarkedStep DEF HInv
<1> QED BY <1>1, <1>2, PTL DEF Spec

\* However often JetStream delivers an event, after a death between commit and
\* ack, to two replicas at once, after the consumer was recreated or its seen row
\* pruned, TriggerIngest.handle counts it at most once (HandledOnce).
THEOREM EventsHandledOnce == Spec => []HandledOnce
<1>1. HInv => HandledOnce
  <2> SUFFICES ASSUME HInv PROVE HandledOnce
    OBVIOUS
  <2>1. Types /\ \A s \in Seqs : counted[s] <= 1
    BY DEF HInv, Marked
  <2>2. counted \in [Seqs -> 0..2]
    <3>1. counted \in Seq(Nat) /\ Len(counted) = Len(events) /\ DOMAIN counted = Seqs
      BY <2>1 DEF Types, Seqs
    <3>2. \A s \in Seqs : counted[s] \in 0..2
      BY <2>1, <3>1, Numbers
    <3> QED BY <3>1, <3>2
  <2>3. \A s \in Seqs : events[s].at \in Times /\ events[s].good \in BOOLEAN
    <3>1. \A x \in Event : x.at \in Times /\ x.good \in BOOLEAN
      BY DEF Event
    <3> QED BY <2>1, <3>1, EventsTyped
  <2>4. \A r \in Replicas : rep[r].stage \in Stages /\ rep[r].msg \in 0..Len(events)
    <3>1. \A x \in Session : x.stage \in Stages
      BY DEF Session
    <3> QED BY <2>1, <3>1, Numbers, EventsTyped DEF Types
  <2>5. consumer # NoConsumer => consumer.start \in 1..(MaxEvents + 1) /\ consumer.acked \subseteq Seqs
    <3> SUFFICES ASSUME consumer # NoConsumer PROVE consumer.start \in 1..(MaxEvents + 1) /\ consumer.acked \subseteq Seqs
      OBVIOUS
    <3>1. consumer.start \in 1..(Len(events) + 1) /\ consumer.acked \subseteq Seqs /\ Len(events) <= MaxEvents
      BY <2>1 DEF Types
    <3> QED BY <2>1, <3>1, EventsTyped, BoundsAssumption
  <2> QED BY <2>1, <2>2, <2>3, <2>4, <2>5 DEF HandledOnce, TypeOK, Types
<1> QED BY <1>1, HInvInductive, PTL

-----------------------------------------------------------------------------
(* The gap of an outage is closed *)

\* The triggers have been told of a loss after time t.
Told(t) == noticed # Never /\ noticed > t

\* What the trigger_bus row says of an event: known ones came after the first
\* contact, a contact in an event's life heard of it, one more than the margin
\* later left it behind.
RowTells ==
    \A s \in Seqs :
       /\ events[s].known => row # Never
       /\ row # Never /\ events[s].at < row /\ row <= events[s].at + MaxAge => s \in heard
       /\ row # Never /\ events[s].at < row - Margin => s \in stale

\* Where a session stands to the row: it reads no later one than there is, it
\* has recorded its own contact before it binds, and while it reads the row is
\* at most one unit old.
SessionsHold ==
    \A r \in Replicas :
       /\ rep[r].stage \in {"bus", "info", "add", "record"} => rep[r].now = rep[r].since
       /\ rep[r].stage = "bind" => row # Never /\ row >= rep[r].since
       /\ rep[r].stage = "reading" => row # Never /\ row >= clock - 1
       /\ rep[r].bus # Never => row # Never /\ rep[r].bus <= row

\* Before a session records its `now`, it has told of all that would be lost by then.
ToldBefore ==
    \A r \in Replicas : rep[r].stage \in {"info", "add", "record"} =>
       \A s \in Seqs : events[s].known /\ s \notin heard /\ rep[r].now > events[s].at + MaxAge =>
          Told(events[s].at + MaxAge)

\* A recreated consumer skips nothing but what is stale.
SkipsStale ==
    consumer # NoConsumer /\ consumer.bus # Never => \A s \in Seqs : s < consumer.start => s \in stale

GInv == HInv /\ RowTells /\ SessionsHold /\ ToldBefore /\ LossNoticed /\ SkipsStale

\* A recorded contact: the row grows, and still tells; what was told stays told.
LEMMA RecordTells ==
    ASSUME GInv, NEW time \in Times, time <= clock, Record(time), UNCHANGED <<clock, events, noticed>>,
           \A s \in Seqs : events[s].known /\ s \notin heard /\ row <= events[s].at + MaxAge /\ time > events[s].at + MaxAge
               => Told(events[s].at + MaxAge)
    PROVE  /\ row' # Never /\ row' \in Int /\ row' >= time /\ (row # Never => row <= row')
           /\ heard \subseteq heard' /\ stale \subseteq stale' /\ Seqs' = Seqs
           /\ RowTells' /\ LossNoticed'
<1>1. Types /\ time \in Int /\ time # Never /\ Seqs' = Seqs
  BY Numbers, NeverAssumption DEF GInv, HInv, Seqs
<1>2. row # Never => row \in Int
  BY <1>1, Numbers
<1>3. row' # Never /\ row' \in Int /\ row' >= time /\ (row # Never => row <= row') /\ (row' = row \/ row' = time)
  BY <1>1, <1>2 DEF Record
<1>4. /\ heard' = heard \cup {s \in Seqs : events[s].at <= time /\ time - events[s].at <= MaxAge}
      /\ stale' = stale \cup {s \in Seqs : events[s].at < time - Margin}
  BY DEF Record
<1>5. ASSUME NEW s \in Seqs
      PROVE  /\ events[s].at < row' /\ row' <= events[s].at + MaxAge => s \in heard'
             /\ events[s].at < row' - Margin => s \in stale'
             /\ events[s].known /\ s \notin heard' /\ row' > events[s].at + MaxAge => Told(events[s].at + MaxAge)
  <2>1. events[s].at \in Int /\ MaxAge \in Int /\ Margin \in Int
    BY <1>1, Numbers
  <2>2. CASE row # Never /\ row' = row
    BY <1>4, <2>2 DEF GInv, RowTells, LossNoticed, Told
  <2>3. CASE row' = time
    <3>1. events[s].at < row' /\ row' <= events[s].at + MaxAge => s \in heard'
      BY <1>1, <1>4, <2>1, <2>3
    <3>2. events[s].at < row' - Margin => s \in stale'
      BY <1>4, <2>3
    <3>3. ASSUME events[s].known, s \notin heard', row' > events[s].at + MaxAge
          PROVE  Told(events[s].at + MaxAge)
      <4>1. row # Never /\ row \in Int /\ s \notin heard
        BY <1>2, <1>4, <3>3 DEF GInv, RowTells
      <4>2. CASE row <= events[s].at + MaxAge
        BY <2>3, <3>3, <4>1, <4>2
      <4>3. CASE ~(row <= events[s].at + MaxAge)
        BY <2>1, <3>3, <4>1, <4>3 DEF GInv, LossNoticed, Told
      <4> QED BY <4>2, <4>3
    <3> QED BY <3>1, <3>2, <3>3
  <2> QED BY <1>3, <2>2, <2>3
<1>6. RowTells'
  BY <1>1, <1>3, <1>5 DEF RowTells
<1>7. LossNoticed'
  BY <1>1, <1>5 DEF LossNoticed, Told
<1> QED BY <1>1, <1>3, <1>4, <1>6, <1>7

\* Contact while reading: the row is one unit old at most, so that no event's whole
\* life lies between.
LEMMA ContactTells ==
    ASSUME GInv, NEW r \in Replicas, rep[r].stage = "reading"
    PROVE  \A s \in Seqs : events[s].known /\ s \notin heard /\ row <= events[s].at + MaxAge /\ clock > events[s].at + MaxAge
               => Told(events[s].at + MaxAge)
<1> SUFFICES ASSUME NEW s \in Seqs, events[s].known, s \notin heard, row <= events[s].at + MaxAge,
                    clock > events[s].at + MaxAge
             PROVE  FALSE
  OBVIOUS
<1>1. row # Never /\ row >= clock - 1
  BY DEF GInv, SessionsHold
<1>2. row \in Int /\ clock \in Int /\ events[s].at \in Int /\ MaxAge \in Int /\ MaxAge >= 1
  BY <1>1, Numbers, AgesAssumption DEF GInv, HInv
<1>3. events[s].at < row
  BY <1>1, <1>2
<1> QED BY <1>1, <1>3 DEF GInv, RowTells

\* What a session's record must hold after a step, in the state it leads to.
Holds(x) ==
    /\ x.stage \in {"bus", "info", "add", "record"} => x.now = x.since
    /\ x.stage = "bind" => row' # Never /\ row' >= x.since
    /\ x.stage = "reading" => row' # Never /\ row' >= clock' - 1
    /\ x.bus # Never => row' # Never /\ x.bus <= row'
    /\ x.stage \in {"info", "add", "record"} =>
          \A s \in Seqs' : events'[s].known /\ s \notin heard' /\ x.now > events'[s].at + MaxAge =>
             Told(events[s].at + MaxAge)'

\* The row may only have grown, and what was told stays told.
Grown ==
    /\ UNCHANGED <<clock, events>>
    /\ row # Never => row' # Never /\ row' \in Int /\ row <= row'
    /\ heard \subseteq heard'
    /\ \A t \in Int : Told(t) => Told(t)'

\* The other replicas' sessions are none the worse for it.
LEMMA OthersHold ==
    ASSUME GInv, Grown
    PROVE  \A q \in Replicas : Holds(rep[q])
<1> SUFFICES ASSUME NEW q \in Replicas PROVE Holds(rep[q])
  OBVIOUS
<1>1. /\ rep[q].since \in Int /\ rep[q].now \in Int /\ clock \in Int /\ MaxAge \in Int
      /\ rep[q].bus # Never => rep[q].bus \in Int
      /\ row # Never => row \in Int
      /\ \A s \in Seqs : events[s].at \in Int
  BY Numbers DEF GInv, HInv
<1>2. Seqs' = Seqs
  BY DEF Grown, Seqs
<1>3. /\ rep[q].stage \in {"bus", "info", "add", "record"} => rep[q].now = rep[q].since
      /\ rep[q].stage = "bind" => row' # Never /\ row' >= rep[q].since
      /\ rep[q].stage = "reading" => row' # Never /\ row' >= clock' - 1
      /\ rep[q].bus # Never => row' # Never /\ rep[q].bus <= row'
  BY <1>1 DEF GInv, SessionsHold, Grown
<1>4. rep[q].stage \in {"info", "add", "record"} =>
          \A s \in Seqs' : events'[s].known /\ s \notin heard' /\ rep[q].now > events'[s].at + MaxAge =>
             Told(events[s].at + MaxAge)'
  <2> SUFFICES ASSUME rep[q].stage \in {"info", "add", "record"}, NEW s \in Seqs, events[s].known,
                      s \notin heard', rep[q].now > events[s].at + MaxAge
               PROVE  Told(events[s].at + MaxAge)'
    BY <1>2 DEF Grown
  <2>1. Told(events[s].at + MaxAge)
    BY DEF Grown, GInv, ToldBefore
  <2>2. PICK t \in Int : t = events[s].at + MaxAge
    BY <1>1
  <2>3. Told(t)'
    BY <2>1, <2>2 DEF Grown
  <2>4. events'[s].at + MaxAge = t
    BY <2>2 DEF Grown
  <2> QED BY <2>3, <2>4 DEF Told
<1> QED BY <1>3, <1>4 DEF Holds

\* A step of one replica that leaves its own session right leaves all of them right.
LEMMA SessionsKept ==
    ASSUME GInv, Grown, NEW r \in Replicas, Holds(rep'[r]), \A q \in Replicas \ {r} : rep'[q] = rep[q]
    PROVE  SessionsHold' /\ ToldBefore'
<1>1. \A q \in Replicas : Holds(rep'[q])
  BY OthersHold
<1> QED BY <1>1 DEF Holds, SessionsHold, ToldBefore

\* The row, the events and the announcements are left alone.
Quiet == UNCHANGED <<clock, events, row, heard, stale, noticed>>

\* Then the row, and what was noticed of losses, say what they said.
LEMMA QuietKeeps ==
    ASSUME GInv, Quiet
    PROVE  Grown /\ RowTells' /\ LossNoticed' /\ Seqs' = Seqs
<1>1. Grown
  BY Numbers DEF Quiet, Grown, Told, GInv, HInv
<1> QED BY <1>1 DEF GInv, Quiet, RowTells, LossNoticed, Seqs

\* A session that is back at the start, or has its consumer bound.
LEMMA EndHolds ==
    ASSUME Types, NEW r \in Replicas
    PROVE  /\ End(r) => Holds(rep'[r]) /\ \A q \in Replicas \ {r} : rep'[q] = rep[q]
           /\ Reading(r) /\ row' # Never /\ row' >= clock' - 1 =>
                Holds(rep'[r]) /\ \A q \in Replicas \ {r} : rep'[q] = rep[q]
<1>1. ASSUME End(r) PROVE Holds(rep'[r]) /\ \A q \in Replicas \ {r} : rep'[q] = rep[q]
  <2>1. Changed(r, "off", 0, Never, 0, 0)
    BY <1>1, SessionMoves
  <2>2. rep'[r].stage = "off" /\ rep'[r].bus = Never
    BY <2>1 DEF Changed, Is
  <2> QED BY <2>1, <2>2 DEF Holds, Changed
<1>2. ASSUME Reading(r), row' # Never, row' >= clock' - 1
      PROVE  Holds(rep'[r]) /\ \A q \in Replicas \ {r} : rep'[q] = rep[q]
  <2>1. Changed(r, "reading", 0, Never, 0, 0)
    BY <1>2, SessionMoves
  <2>2. rep'[r].stage = "reading" /\ rep'[r].bus = Never
    BY <2>1 DEF Changed, Is
  <2> QED BY <1>2, <2>1, <2>2 DEF Holds, Changed
<1> QED BY <1>1, <1>2

\* The setup of a session up to the consumer, and its ends.
LEMMA SetupKeeps ==
    ASSUME GInv, NEW r \in Replicas,
           Connect(r) \/ ConsumerInfo(r) \/ AddConsumer(r) \/ Bind(r) \/ Fetch(r) \/ Handle(r) \/ Nak(r) \/ SessionEnds(r)
    PROVE  RowTells' /\ SessionsHold' /\ ToldBefore' /\ LossNoticed'
<1>0. Types /\ rep[r] \in Session
  BY DEF GInv, HInv, Types
<1>1. Quiet
  BY DEF Quiet, Connect, ConsumerInfo, AddConsumer, Bind, Fetch, Handle, Nak, SessionEnds, history
<1>2. Grown /\ RowTells' /\ LossNoticed' /\ UNCHANGED <<row, clock>>
  BY <1>1, QuietKeeps DEF Quiet
<1>3. Holds(rep[r])
  BY <1>2, OthersHold
<1>4. CASE Connect(r)
  <2>1. Changed(r, "bus", clock, Never, 0, clock)
    BY <1>0, <1>4, SessionMoves
  <2>2. rep'[r].stage = "bus" /\ rep'[r].now = clock /\ rep'[r].since = clock /\ rep'[r].bus = Never
    BY <2>1 DEF Changed, Is
  <2>3. Holds(rep'[r])
    BY <2>2 DEF Holds
  <2> QED BY <1>2, <2>1, <2>3, SessionsKept DEF Changed
<1>5. CASE ConsumerInfo(r)
  <2>1. \/ Changed(r, "add", rep[r].now, rep[r].bus, rep[r].msg, rep[r].since)
        \/ Changed(r, "record", rep[r].now, Never, rep[r].msg, rep[r].since)
    BY <1>0, <1>5, SessionMoves
  <2>2. /\ rep'[r].stage \in {"add", "record"} /\ rep'[r].now = rep[r].now /\ rep'[r].since = rep[r].since
        /\ rep'[r].bus \in {rep[r].bus, Never} /\ \A q \in Replicas \ {r} : rep'[q] = rep[q]
    BY <2>1 DEF Changed, Is
  <2>3. rep[r].stage = "info"
    BY <1>5 DEF ConsumerInfo
  <2>4. Holds(rep'[r])
    BY <1>3, <2>2, <2>3 DEF Holds
  <2> QED BY <1>2, <2>2, <2>4, SessionsKept
<1>6. CASE End(r)
  BY <1>0, <1>2, <1>6, EndHolds, SessionsKept
<1>7. CASE AddConsumer(r) /\ ~End(r)
  <2>1. Changed(r, "record", rep[r].now, Never, rep[r].msg, rep[r].since)
    BY <1>0, <1>7, SessionMoves
  <2>2. /\ rep'[r].stage = "record" /\ rep'[r].now = rep[r].now /\ rep'[r].since = rep[r].since
        /\ rep'[r].bus = Never /\ \A q \in Replicas \ {r} : rep'[q] = rep[q]
    BY <2>1 DEF Changed, Is
  <2>3. rep[r].stage = "add"
    BY <1>7 DEF AddConsumer
  <2>4. Holds(rep'[r])
    BY <1>3, <2>2, <2>3 DEF Holds
  <2> QED BY <1>2, <2>2, <2>4, SessionsKept
<1>8. CASE Fetch(r)
  <2>1. PICK s \in Seqs : rep' = [rep EXCEPT ![r].msg = s, ![r].since = clock]
    BY <1>8 DEF Fetch
  <2>2. Changed(r, rep[r].stage, rep[r].now, rep[r].bus, s, clock)
    BY <1>0, <2>1, SessionMoves
  <2>3. /\ rep'[r].stage = "reading" /\ rep[r].stage = "reading" /\ rep'[r].bus = rep[r].bus
        /\ \A q \in Replicas \ {r} : rep'[q] = rep[q]
    BY <1>8, <2>2 DEF Changed, Is, Fetch
  <2>4. Holds(rep'[r])
    BY <1>3, <2>3 DEF Holds
  <2> QED BY <1>2, <2>3, <2>4, SessionsKept
<1>9. CASE Bind(r) /\ Reading(r)
  <2>1. rep[r].stage = "bind" /\ row # Never /\ row >= rep[r].since /\ clock <= rep[r].since + 1
    BY <1>9 DEF Bind, GInv, SessionsHold, HInv, InTime
  <2>2. row \in Int /\ clock \in Int /\ rep[r].since \in Int
    BY <1>0, <2>1, Numbers
  <2>3. row' # Never /\ row' >= clock' - 1
    BY <1>2, <2>1, <2>2
  <2> QED BY <1>0, <1>2, <1>9, <2>3, EndHolds, SessionsKept
<1>10. CASE (Handle(r) \/ Nak(r)) /\ Reading(r)
  <2>1. rep[r].stage = "reading"
    BY <1>10 DEF Handle, Nak
  <2>2. row' # Never /\ row' >= clock' - 1
    BY <1>2, <2>1 DEF GInv, SessionsHold
  <2> QED BY <1>0, <1>2, <1>10, <2>2, EndHolds, SessionsKept
<1> QED BY <1>4, <1>5, <1>6, <1>7, <1>8, <1>9, <1>10 DEF Bind, Handle, Nak, SessionEnds

\* A session learns how long the silence was, and announces it before all else.
LEMMA TriggerBusKeeps ==
    ASSUME GInv, NEW r \in Replicas, TriggerBus(r)
    PROVE  RowTells' /\ SessionsHold' /\ ToldBefore' /\ LossNoticed'
<1>0. /\ Types /\ rep[r].now \in Int /\ clock \in Int /\ MaxAge \in Int /\ MaxAge >= 1
      /\ (row # Never => row \in Int) /\ (noticed # Never => noticed \in Int) /\ clock # Never
      /\ rep[r].now <= clock /\ (noticed # Never => noticed <= clock)
      /\ \A s \in Seqs : events[s].at \in Int
  BY Numbers, AgesAssumption, NeverAssumption DEF GInv, HInv, Past
<1>1. /\ UNCHANGED <<clock, events, row, heard, stale>> /\ rep[r].stage = "bus"
      /\ noticed' = IF Silent(rep[r].now, row) THEN clock ELSE noticed
  BY DEF TriggerBus
<1>2. Seqs' = Seqs
  BY <1>1 DEF Seqs
<1>3. \A t \in Int : Told(t) => Told(t)'
  BY <1>0, <1>1 DEF Told
<1>4. Grown
  BY <1>0, <1>1, <1>3 DEF Grown
<1>5. LossNoticed'
  <2>1. ASSUME NEW s \in Seqs, events[s].known, s \notin heard, row > events[s].at + MaxAge
        PROVE  Told(events[s].at + MaxAge)'
    <3>1. Told(events[s].at + MaxAge)
      BY <2>1 DEF GInv, LossNoticed, Told
    <3>2. PICK t \in Int : t = events[s].at + MaxAge
      BY <1>0
    <3>3. Told(t)' /\ events'[s].at + MaxAge = t
      BY <1>1, <1>3, <3>1, <3>2
    <3> QED BY <3>3 DEF Told
  <2> QED BY <1>1, <1>2, <2>1 DEF LossNoticed, Told
<1>6. ASSUME NEW s \in Seqs, events[s].known, s \notin heard, rep[r].now > events[s].at + MaxAge
      PROVE  noticed' # Never /\ noticed' > events[s].at + MaxAge
  <2>1. row # Never /\ row \in Int
    BY <1>0, <1>6 DEF GInv, RowTells
  <2>2. CASE row > events[s].at + MaxAge
    <3>1. Told(events[s].at + MaxAge)
      BY <1>6, <2>2 DEF GInv, LossNoticed, Told
    <3> QED BY <1>0, <1>1, <3>1 DEF Told
  <2>3. CASE ~(row > events[s].at + MaxAge)
    <3>1. ~(events[s].at < row)
      BY <1>0, <1>6, <2>1, <2>3 DEF GInv, RowTells
    <3>2. Silent(rep[r].now, row)
      BY <1>0, <1>6, <2>1, <3>1 DEF Silent
    <3> QED BY <1>0, <1>1, <1>6, <3>2
  <2> QED BY <2>2, <2>3
<1>7. Changed(r, "info", rep[r].now, row, rep[r].msg, rep[r].since)
  BY <1>0, SessionMoves
<1>8. /\ rep'[r].stage = "info" /\ rep'[r].now = rep[r].now /\ rep'[r].since = rep[r].since /\ rep'[r].bus = row
      /\ \A q \in Replicas \ {r} : rep'[q] = rep[q]
  BY <1>7 DEF Changed, Is
<1>9. rep[r].now = rep[r].since
  BY <1>1 DEF GInv, SessionsHold
<1>10. Holds(rep'[r])
  <2>1. \A s \in Seqs' : events'[s].known /\ s \notin heard' /\ rep'[r].now > events'[s].at + MaxAge =>
             Told(events[s].at + MaxAge)'
    BY <1>1, <1>2, <1>6, <1>8 DEF Told
  <2> QED BY <1>0, <1>1, <1>8, <1>9, <2>1 DEF Holds
<1> QED BY <1>1, <1>2, <1>4, <1>5, <1>8, <1>10, SessionsKept DEF RowTells, GInv

\* A contact is recorded, by the setup of a session or by one that reads.
LEMMA ContactKeeps ==
    ASSUME GInv, NEW r \in Replicas, RecordContact(r) \/ Contact(r)
    PROVE  RowTells' /\ SessionsHold' /\ ToldBefore' /\ LossNoticed' /\ stale \subseteq stale'
<1>0. /\ Types /\ rep[r] \in Session /\ clock \in Times /\ clock \in Int /\ rep[r].now \in Times
      /\ rep[r].since \in Int /\ rep[r].now <= clock
  <2>1. rep[r] \in Session /\ Types /\ rep[r].now <= clock /\ clock \in Times
    BY DEF GInv, HInv, Types, Past
  <2>2. \A x \in Session : x.now \in Times
    BY DEF Session
  <2> QED BY <2>1, <2>2, Numbers
<1>1. UNCHANGED <<clock, events, noticed>>
  BY DEF RecordContact, Contact
<1>2. CASE Contact(r)
  <2>1. Record(clock) /\ rep[r].stage = "reading" /\ UNCHANGED rep
    BY <1>2 DEF Contact
  <2>2. /\ row' # Never /\ row' \in Int /\ row' >= clock /\ (row # Never => row <= row')
        /\ heard \subseteq heard' /\ stale \subseteq stale' /\ RowTells' /\ LossNoticed'
    BY <1>0, <1>1, <2>1, ContactTells, RecordTells
  <2>3. Grown
    BY <1>1, <2>2 DEF Grown, Told
  <2>4. Holds(rep[r])
    BY <2>3, OthersHold
  <2> QED BY <2>1, <2>2, <2>3, <2>4, SessionsKept
<1>3. CASE RecordContact(r)
  <2>1. Record(rep[r].now) /\ rep[r].stage = "record"
    BY <1>3 DEF RecordContact
  <2>2. \A s \in Seqs : events[s].known /\ s \notin heard /\ rep[r].now > events[s].at + MaxAge => Told(events[s].at + MaxAge)
    BY <2>1 DEF GInv, ToldBefore
  <2>3. PICK time \in Times : time = rep[r].now
    BY <1>0
  <2>4. /\ row' # Never /\ row' \in Int /\ row' >= time /\ (row # Never => row <= row')
        /\ heard \subseteq heard' /\ stale \subseteq stale' /\ RowTells' /\ LossNoticed'
    <3>1. Record(time) /\ time <= clock
      BY <1>0, <2>1, <2>3
    <3> QED BY <1>1, <2>2, <2>3, <3>1, RecordTells
  <2>5. Grown
    BY <1>1, <2>4 DEF Grown, Told
  <2>6. Changed(r, "bind", 0, rep[r].bus, rep[r].msg, rep[r].since)
    BY <1>0, <1>3, SessionMoves
  <2>7. /\ rep'[r].stage = "bind" /\ rep'[r].bus = rep[r].bus /\ rep'[r].since = rep[r].since
        /\ \A q \in Replicas \ {r} : rep'[q] = rep[q]
    BY <2>6 DEF Changed, Is
  <2>8. rep[r].now = rep[r].since
    BY <2>1 DEF GInv, SessionsHold
  <2>9. Holds(rep[r])
    BY <2>5, OthersHold
  <2>10. Holds(rep'[r])
    BY <1>0, <2>3, <2>4, <2>7, <2>8, <2>9 DEF Holds
  <2> QED BY <2>4, <2>5, <2>7, <2>10, SessionsKept
<1> QED BY <1>2, <1>3

\* The clock ticks: a session that reads has recorded a contact just now.
LEMMA TickKeeps ==
    ASSUME GInv, Tick
    PROVE  RowTells' /\ SessionsHold' /\ ToldBefore' /\ LossNoticed'
<1>1. UNCHANGED <<events, row, heard, stale, noticed, rep>> /\ clock' = clock + 1 /\ clock \in Int
  BY Numbers DEF Tick, history, GInv, HInv
<1>2. \A r \in Replicas : rep[r].stage = "reading" => row = clock
  BY DEF Tick, Prompt
<1>3. Seqs' = Seqs
  BY <1>1 DEF Seqs
<1>4. SessionsHold'
  BY <1>1, <1>2 DEF GInv, SessionsHold
<1>5. ToldBefore'
  BY <1>1, <1>3 DEF GInv, ToldBefore, Told
<1> QED BY <1>1, <1>3, <1>4, <1>5 DEF GInv, RowTells, LossNoticed

\* A new event is younger than the row and than every session's `now`.
LEMMA PublishKeeps ==
    ASSUME GInv, Publish
    PROVE  RowTells' /\ SessionsHold' /\ ToldBefore' /\ LossNoticed' /\ SkipsStale'
<1>0. /\ Types /\ clock \in Int /\ MaxAge \in Int /\ MaxAge >= 1 /\ Margin \in Int /\ Margin >= 0
      /\ (row # Never => row \in Int /\ row <= clock)
      /\ \A r \in Replicas : rep[r].now <= clock /\ rep[r].now \in Int
  BY Numbers, AgesAssumption DEF GInv, HInv, Past
<1>1. PICK good \in Parsed : events' = Append(events, [at |-> clock, good |-> good, known |-> row # Never])
  BY DEF Publish
<1>2. UNCHANGED <<clock, row, heard, stale, noticed, rep, consumer>>
  BY DEF Publish
<1>3. PICK n \in Nat : n = Len(events) + 1
  BY <1>0, EventsTyped
<1>4. /\ Seqs' = Seqs \cup {n} /\ events'[n] = [at |-> clock, good |-> good, known |-> row # Never]
      /\ \A s \in Seqs : events'[s] = events[s]
  BY <1>0, <1>1, <1>3 DEF Types, Seqs
<1>5. events'[n].at = clock /\ (events'[n].known => row # Never)
  <2>1. events'[n].at = clock
    BY <1>4
  <2>2. PICK k : k = (row # Never)
    OBVIOUS
  <2>3. events'[n] = [at |-> clock, good |-> good, known |-> k]
    BY <1>4, <2>2, Zenon
  <2>4. events'[n].known = k
    BY <2>3
  <2>5. events'[n].known => row # Never
    BY <2>2, <2>4, Zenon
  <2> QED BY <2>1, <2>5
<1>6. ~(row # Never /\ events'[n].at < row)
  BY <1>0, <1>5
<1>7. RowTells'
  <2>1. \A s \in Seqs :
          /\ events'[s].known => row # Never
          /\ row # Never /\ events'[s].at < row /\ row <= events'[s].at + MaxAge => s \in heard
          /\ row # Never /\ events'[s].at < row - Margin => s \in stale
    BY <1>4 DEF GInv, RowTells
  <2>2. ~(row # Never /\ events'[n].at < row - Margin)
    BY <1>0, <1>5
  <2> QED BY <1>2, <1>4, <1>5, <1>6, <2>1, <2>2 DEF RowTells
<1>8. LossNoticed'
  <2>1. \A s \in Seqs : events'[s].known /\ s \notin heard /\ row > events'[s].at + MaxAge =>
            noticed # Never /\ noticed > events'[s].at + MaxAge
    BY <1>4 DEF GInv, LossNoticed
  <2>2. ~(events'[n].known /\ row > events'[n].at + MaxAge)
    BY <1>0, <1>5
  <2> QED BY <1>2, <1>4, <2>1, <2>2 DEF LossNoticed
<1>9. ToldBefore'
  <2>1. \A r \in Replicas : rep[r].stage \in {"info", "add", "record"} =>
          \A s \in Seqs : events'[s].known /\ s \notin heard /\ rep[r].now > events'[s].at + MaxAge =>
            noticed # Never /\ noticed > events'[s].at + MaxAge
    BY <1>4 DEF GInv, ToldBefore, Told
  <2>2. \A r \in Replicas : ~(rep[r].now > events'[n].at + MaxAge)
    BY <1>0, <1>5
  <2> QED BY <1>2, <1>4, <2>1, <2>2 DEF ToldBefore, Told
<1>10. SessionsHold'
  BY <1>2 DEF GInv, SessionsHold
<1>11. SkipsStale'
  <2> SUFFICES ASSUME consumer # NoConsumer, consumer.bus # Never, NEW s \in Seqs', s < consumer.start
               PROVE  s \in stale
    BY <1>2 DEF SkipsStale
  <2>1. consumer.start \in 1..n
    BY <1>0, <1>3 DEF Types
  <2>2. s # n
    BY <1>3, <2>1
  <2> QED BY <1>4, <2>2 DEF GInv, SkipsStale
<1> QED BY <1>7, <1>8, <1>9, <1>10, <1>11

\* A consumer is added where the row said, and the row marks the stale.
LEMMA SkipsKept ==
    ASSUME GInv, Types', NEW r \in Replicas, Calm(r) \/ _prune(r) \/ Handle(r), stale \subseteq stale'
    PROVE  SkipsStale'
<1>0. Types /\ rep[r].bus \in Times \cup {Never}
  <2>1. Types /\ rep[r] \in Session
    BY DEF GInv, HInv, Types
  <2> QED BY <2>1 DEF Session
<1>1. events' = events /\ Seqs' = Seqs
  BY CalmStep DEF _prune, Handle, Seqs
<1>2. CASE AddConsumer(r) /\ consumer = NoConsumer
  <2>1. consumer' = [start |-> StartAt(rep[r].bus), acked |-> {}, bus |-> rep[r].bus]
    BY <1>2 DEF AddConsumer
  <2>2. ASSUME rep[r].bus # Never, NEW s \in Seqs, s < StartAt(rep[r].bus)
        PROVE  s \in stale
    <3>1. events[s].at < rep[r].bus - Margin /\ rep[r].bus \in Int /\ events[s].at \in Int /\ Margin \in Int
      BY <1>0, <2>2, StartAtBounds, Numbers
    <3>2. row # Never /\ rep[r].bus <= row /\ row \in Int
      BY <1>0, <2>2, Numbers DEF GInv, SessionsHold
    <3>3. events[s].at < row - Margin
      BY <3>1, <3>2
    <3> QED BY <3>2, <3>3 DEF GInv, RowTells
  <2> QED BY <1>1, <2>1, <2>2 DEF SkipsStale
<1>3. CASE ~(AddConsumer(r) /\ consumer = NoConsumer)
  <2>1. \/ consumer' = consumer
        \/ consumer # NoConsumer /\ consumer' = [consumer EXCEPT !.acked = @ \cup {rep[r].msg}]
    BY <1>3 DEF Calm, Setup, Connect, TriggerBus, ConsumerInfo, AddConsumer, RecordContact, Bind, Contact,
       Fetch, Nak, SessionEnds, history, _prune, Handle, Ack
  <2>2. consumer # NoConsumer /\ consumer' # NoConsumer => consumer'.start = consumer.start /\ consumer'.bus = consumer.bus
    BY <1>0, <2>1 DEF Types
  <2>3. consumer' # NoConsumer => consumer # NoConsumer
    BY <2>1
  <2> QED BY <1>1, <2>2, <2>3 DEF GInv, SkipsStale
<1> QED BY <1>2, <1>3

\* The second invariant holds in every reachable state.
LEMMA GInvInductive == Spec => []GInv
<1>1. Init => RowTells /\ SessionsHold /\ ToldBefore /\ LossNoticed /\ SkipsStale
  <2> SUFFICES ASSUME Init PROVE RowTells /\ SessionsHold /\ ToldBefore /\ LossNoticed /\ SkipsStale
    OBVIOUS
  <2>1. Seqs = {}
    BY DEF Init, Seqs
  <2>2. \A r \in Replicas : rep[r].stage = "off" /\ rep[r].bus = Never
    BY DEF Init, Off
  <2> QED BY <2>1, <2>2 DEF Init, RowTells, SessionsHold, ToldBefore, LossNoticed, SkipsStale
<1>2. HInv' /\ GInv /\ [Next]_vars => GInv'
  <2> SUFFICES ASSUME HInv', GInv, [Next]_vars
               PROVE  RowTells' /\ SessionsHold' /\ ToldBefore' /\ LossNoticed' /\ SkipsStale'
    BY DEF GInv
  <2>1. CASE UNCHANGED vars \/ CredArrives \/ ConsumerLost
    <3>1. Quiet /\ UNCHANGED rep /\ (consumer' = consumer \/ consumer' = NoConsumer)
      BY <2>1 DEF vars, CredArrives, ConsumerLost, history, Quiet
    <3>2. SessionsHold' /\ ToldBefore' /\ SkipsStale'
      BY <3>1 DEF GInv, SessionsHold, ToldBefore, SkipsStale, Told, Quiet, Seqs
    <3> QED BY <3>1, <3>2, QuietKeeps
  <2>2. CASE Tick
    <3>1. SkipsStale'
      BY <2>2 DEF Tick, history, GInv, SkipsStale, Seqs
    <3> QED BY <2>2, <3>1, TickKeeps
  <2>3. CASE Publish
    BY <2>3, PublishKeeps
  <2>4. ASSUME NEW r \in Replicas, Calm(r) \/ _prune(r) \/ Handle(r)
        PROVE  RowTells' /\ SessionsHold' /\ ToldBefore' /\ LossNoticed' /\ SkipsStale'
    <3>1. CASE RecordContact(r) \/ Contact(r)
      BY <2>4, <3>1, ContactKeeps, SkipsKept DEF HInv
    <3>2. CASE ~(RecordContact(r) \/ Contact(r))
      <4>1. stale' = stale
        BY <2>4, <3>2 DEF Calm, Setup, Connect, TriggerBus, ConsumerInfo, AddConsumer, Bind,
             Fetch, Nak, SessionEnds, history, _prune, Handle
      <4>2. SkipsStale'
        BY <2>4, <4>1, SkipsKept DEF HInv
      <4>3. CASE _prune(r)
        <5>1. Quiet /\ UNCHANGED rep
          BY <4>3 DEF _prune, Quiet, history
        <5> QED BY <4>2, <5>1, QuietKeeps DEF GInv, SessionsHold, ToldBefore, Told, Quiet, Seqs
      <4>4. CASE ~_prune(r)
        BY <2>4, <3>2, <4>2, <4>4, SetupKeeps, TriggerBusKeeps DEF Calm, Setup
      <4> QED BY <4>3, <4>4
    <3> QED BY <3>1, <3>2
  <2> QED BY <2>1, <2>2, <2>3, <2>4 DEF Next, Calm
<1>3. Init => HInv
  BY HInvInit
<1>4. Init => GInv
  BY <1>1, <1>3 DEF GInv
<1> QED BY <1>2, <1>4, HInvInductive, PTL DEF Spec

\* The gap of an outage is closed: events the stream dropped while nobody read
\* them are announced to the triggers before the next contact is on record, and
\* a consumer that is created again skips only what a contact had left more
\* than REPLAY_MARGIN behind (GapsKnown, event_bus._ensure_consumer).
THEOREM OutagesKnown == Spec => []GapsKnown
<1>1. GInv => GapsKnown
  BY DEF GInv, GapsKnown, SkipsStale, SkippedOnlyIfOld
<1> QED BY <1>1, GInvInductive, PTL

=============================================================================
