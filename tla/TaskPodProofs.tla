--------------------------- MODULE TaskPodProofs ----------------------------
(***************************************************************************)
(* Proofs about TaskPod, for any set of attempts, any number of slots, and *)
(* every Job template, configuration, registry and set of images.          *)
(***************************************************************************)
EXTENDS TaskPod, FiniteSetTheorems, TLAPS

-----------------------------------------------------------------------------
(* One attempt *)

Queues == {<<>>, <<"end">>, <<"output", "end">>, <<"skipped", "end">>, <<"failed", "end">>, <<"canceled", "end">>}
Wires  == {<<>>, <<"output">>, <<"skipped">>, <<"failed">>}

Service(s) ==
    /\ DOMAIN s = {"gen", "exit", "started", "cancel", "work", "proc", "token", "shared", "put", "events", "wire"}
    /\ s.gen \in {"none", "on", "over"}
    /\ s.work \in {"none", "setup", "waiting", "running", "over"}
    /\ s.proc \in {"none", "running", "ok", "skip", "error", "empty", "killed"}
    /\ s.exit \in BOOLEAN /\ s.started \in BOOLEAN /\ s.cancel \in BOOLEAN
    /\ s.token \in BOOLEAN /\ s.shared \in BOOLEAN /\ s.put \in BOOLEAN
    /\ s.events \in Queues /\ s.wire \in Wires

\* The cluster's objects of one attempt; what the pod is made of is left open.
Objects(k) ==
    /\ DOMAIN k = {"job", "secret", "phase", "pod"}
    /\ k.job \in {"none", "present", "deleted", "leaked", "orphan"} /\ k.secret \in BOOLEAN
    /\ k.phase \in {"none", "pending", "ready", "ended"}

\* What an event says is so of the process, which has ended by then.
Says(ev, s) == /\ ev = "output" => s.proc = "ok"
               /\ ev = "skipped" => s.proc = "skip"
               /\ ev = "canceled" => s.cancel

\* The service: the process starts after the work thread and ends before it, the
\* queue is filled when the work is over, and only a hang-up cancels.
Sound(s, l) ==
    /\ Service(s)
    /\ s.gen = "none" => s.work = "none"
    /\ s.work \in {"none", "setup", "waiting"} => s.proc = "none"
    /\ s.work # "over" => s.events = <<>> /\ s.wire = <<>>
    /\ s.work = "over" => s.proc # "running"
    /\ s.events # <<>> => Says(Head(s.events), s)
    /\ s.wire # <<>> => Says(Head(s.wire), s)
    /\ s.cancel => l = "closed"

\* Every way the pod's side moves, as a change of its record.
LEMMA DeadSound ==
    ASSUME NEW s, NEW l, Sound(s, l)
    PROVE  Sound(Dead(s), l) /\ (s.proc # "running" => Dead(s).proc = s.proc)
<1> DEFINE d == Dead(s)
<1>1. Service(s)
  BY DEF Sound
<1>2. /\ d.proc = IF s.proc = "running" THEN "killed" ELSE s.proc
      /\ d.work = IF s.work = "none" THEN "none" ELSE "over"
      /\ d.gen = IF s.gen = "none" THEN "none" ELSE "over"
      /\ d.events = <<>> /\ d.wire = s.wire /\ d.cancel = s.cancel
      /\ d.token = FALSE /\ d.shared = FALSE /\ d.put = FALSE /\ d.exit = TRUE /\ d.started = s.started
      /\ DOMAIN d = DOMAIN s
  BY <1>1 DEF Dead, Service
<1> HIDE DEF d
<1>3. <<>> \in Queues
  BY DEF Queues
<1>4. Service(d)
  BY <1>1, <1>2, <1>3 DEF Service
<1>5. Sound(d, l)
  BY <1>2, <1>4 DEF Sound, Says
<1> QED BY <1>2, <1>5 DEF d

\* A service that has not begun is sound.
LEMMA NoServiceSound == Sound(NoService, "none") /\ NoService.gen = "none"
<1>1. Service(NoService)
  BY DEF NoService, Service, Queues, Wires
<1> QED BY <1>1 DEF NoService, Sound

\* The work ends and says how.
LEMMA SaySound ==
    ASSUME NEW s, NEW l, Sound(s, l), s.work # "over", s.work # "none", s.proc # "running",
           NEW ev \in Ends, Says(ev, s)
    PROVE  Sound(Say(s, ev), l) /\ Say(s, ev).proc = s.proc /\ Say(s, ev).wire = s.wire
<1> DEFINE d == Say(s, ev)
<1>1. Service(s)
  BY DEF Sound
<1>2. /\ d.work = "over" /\ d.events = <<ev, "end">> /\ d.token = FALSE /\ d.shared = FALSE
      /\ d.proc = s.proc /\ d.gen = s.gen /\ d.wire = s.wire /\ d.cancel = s.cancel /\ d.put = s.put
      /\ d.exit = s.exit /\ d.started = s.started /\ DOMAIN d = DOMAIN s
  BY <1>1 DEF Say, Service
<1> HIDE DEF d
<1>3. <<ev, "end">> \in Queues /\ Head(<<ev, "end">>) = ev
  BY DEF Queues, Ends
<1>4. Service(d)
  BY <1>1, <1>2, <1>3 DEF Service
<1>5. Says(Head(d.events), d)
  BY <1>2, <1>3 DEF Says
<1>6. d.wire = <<>>
  BY <1>2 DEF Sound
<1>7. s.gen # "none"
  BY DEF Sound
<1>8. s.cancel => l = "closed"
  BY DEF Sound
<1>9. Sound(d, l)
  BY <1>2, <1>4, <1>5, <1>6, <1>7, <1>8 DEF Sound
<1> QED BY <1>2, <1>9 DEF d

\* The process is killed, and the work says so.
LEMMA KilledSound ==
    ASSUME NEW s, NEW l, Sound(s, l), s.work = "running", s.proc = "running",
           NEW ev \in {"failed", "canceled"}, ev = "canceled" => s.cancel
    PROVE  Sound(Say([s EXCEPT !.proc = "killed"], ev), l)
<1> DEFINE k == [s EXCEPT !.proc = "killed"]
<1>1. Service(s)
  BY DEF Sound
<1>2. /\ k.proc = "killed" /\ k.work = s.work /\ k.events = s.events /\ k.gen = s.gen /\ k.wire = s.wire
      /\ k.cancel = s.cancel /\ k.put = s.put /\ k.token = s.token /\ k.shared = s.shared
      /\ k.exit = s.exit /\ k.started = s.started /\ DOMAIN k = DOMAIN s
  BY <1>1 DEF Service
<1> HIDE DEF k
<1>3. Service(k)
  BY <1>1, <1>2 DEF Service
<1>4. Sound(k, l)
  BY <1>2, <1>3 DEF Sound, Says
<1>5. Says(ev, k) /\ ev \in Ends
  BY <1>2 DEF Says, Ends
<1>6. Sound(Say(k, ev), l)
  BY <1>2, <1>4, <1>5, SaySound
<1> QED BY <1>6 DEF k

\* A queue holds an outcome and its end, in that order.
LEMMA QueueParts ==
    ASSUME NEW q \in Queues, q # <<>>
    PROVE  Head(q) \in Ends \cup {"end"} /\ Tail(q) \in {<<>>, <<"end">>} /\ Head(<<"end">>) = "end"
<1>1. \A e \in Ends : Tail(<<e, "end">>) = <<"end">> /\ Head(<<e, "end">>) = e
  <2> SUFFICES ASSUME NEW e \in Ends PROVE Tail(<<e, "end">>) = <<"end">> /\ Head(<<e, "end">>) = e
    OBVIOUS
  <2>1. e \in Ends \cup {"end"} /\ "end" \in Ends \cup {"end"}
    OBVIOUS
  <2>2. <<e, "end">> \in Seq(Ends \cup {"end"}) /\ Len(<<e, "end">>) = 2
    BY <2>1
  <2>3. /\ Tail(<<e, "end">>) \in Seq(Ends \cup {"end"}) /\ Len(Tail(<<e, "end">>)) = 1
        /\ Tail(<<e, "end">>)[1] = "end"
    BY <2>1, <2>2
  <2> QED BY <2>1, <2>3
<1>2. Tail(<<"end">>) = <<>> /\ Head(<<"end">>) = "end"
  OBVIOUS
<1>3. q = <<"end">> \/ \E e \in Ends : q = <<e, "end">>
  BY DEF Queues, Ends
<1> QED BY <1>1, <1>2, <1>3

\* The generator hands on the next event.
Streamed(s, l) ==
    [s EXCEPT !.events = Tail(@),
              !.wire = IF Head(s.events) # "end" /\ l = "open" THEN <<Head(s.events)>> ELSE @,
              !.gen  = IF Head(s.events) = "end" THEN "over" ELSE @,
              !.exit = Head(s.events) = "end"]

\* Streaming an event keeps the service sound.
LEMMA StreamSound ==
    ASSUME NEW s, NEW l, Sound(s, l), s.events # <<>>, s.gen = "on"
    PROVE  Sound(Streamed(s, l), l) /\ Streamed(s, l).proc = s.proc
<1> DEFINE d == Streamed(s, l)
           h == Head(s.events)
           x == (h = "end")
<1>1. Service(s) /\ s.events \in Queues /\ Says(h, s) /\ s.work = "over"
  BY DEF Sound, Service
<1>2. h \in Ends \cup {"end"} /\ Tail(s.events) \in Queues /\ (Tail(s.events) # <<>> => Head(Tail(s.events)) = "end")
  BY <1>1, QueueParts DEF Queues
<1>3. x \in BOOLEAN
  BY Zenon
<1>4. d = [s EXCEPT !.events = Tail(@), !.wire = IF h # "end" /\ l = "open" THEN <<h>> ELSE @,
                    !.gen  = IF h = "end" THEN "over" ELSE @, !.exit = x]
  BY DEF Streamed
<1> HIDE DEF x, h
<1>5. d.exit = x
  BY <1>1, <1>4, Zenon DEF Service
<1>6. /\ d.events = Tail(s.events) /\ d.wire = (IF h # "end" /\ l = "open" THEN <<h>> ELSE s.wire)
      /\ d.gen = (IF h = "end" THEN "over" ELSE s.gen) /\ d.proc = s.proc /\ d.work = s.work
      /\ d.cancel = s.cancel /\ d.put = s.put /\ d.token = s.token /\ d.shared = s.shared
      /\ d.started = s.started /\ DOMAIN d = DOMAIN s
  BY <1>1, <1>4 DEF Service
<1> HIDE DEF d
<1>7. h = "canceled" => l = "closed"
  BY <1>1 DEF Says, Sound
<1>8. d.wire \in Wires /\ (d.wire # <<>> => Says(Head(d.wire), d))
  <2>1. CASE h # "end" /\ l = "open"
    <3>1. h \in {"output", "skipped", "failed"} /\ d.wire = <<h>> /\ Head(<<h>>) = h
      BY <1>2, <1>6, <1>7, <2>1 DEF Ends
    <3> QED BY <1>1, <1>6, <3>1 DEF Wires, Says
  <2>2. CASE ~(h # "end" /\ l = "open")
    <3>1. s.wire \in Wires /\ (s.wire # <<>> => Says(Head(s.wire), s)) /\ d.wire = s.wire
      BY <1>1, <1>6, <2>2 DEF Sound, Service
    <3> QED BY <1>6, <3>1 DEF Says
  <2> QED BY <2>1, <2>2
<1>9. Service(d)
  <2>1. d.exit \in BOOLEAN
    BY <1>3, <1>5
  <2> QED BY <1>1, <1>2, <1>6, <1>8, <2>1 DEF Service
<1>10. Sound(d, l)
  <2>1. d.events # <<>> => Says(Head(d.events), d)
    BY <1>2, <1>6 DEF Says
  <2> QED BY <1>1, <1>6, <1>8, <1>9, <2>1 DEF Sound
<1> QED BY <1>6, <1>10 DEF d

\* d is s but for the flags and tokens; the process and what is said of it are the same.
Alike(d, s) ==
    /\ DOMAIN d = DOMAIN s /\ d.events = s.events /\ d.wire = s.wire
    /\ d.exit \in BOOLEAN /\ d.started \in BOOLEAN /\ d.token \in BOOLEAN /\ d.shared \in BOOLEAN /\ d.put \in BOOLEAN
    /\ d.cancel \in BOOLEAN

\* So does a step of the task's process that leaves the events alone.
LEMMA AlikeSound ==
    ASSUME NEW s, NEW d, NEW l, NEW m, Sound(s, l), Alike(d, s), d.cancel => m = "closed", s.cancel => d.cancel,
           \/ d.gen = s.gen /\ d.work = s.work /\ d.proc = s.proc
           \/ s.gen = "none" /\ d.gen = "on" /\ d.work = "setup" /\ d.proc = s.proc
           \/ s.work = "setup" /\ d.gen = s.gen /\ d.work = "waiting" /\ d.proc = s.proc
           \/ s.work = "waiting" /\ d.gen = s.gen /\ d.work = "running" /\ d.proc = "running"
           \/ s.proc = "running" /\ d.gen = s.gen /\ d.work = s.work /\ d.proc \in {"ok", "skip", "error", "empty"}
           \/ d.gen = "over" /\ s.gen = "on" /\ d.work = s.work /\ d.proc = s.proc
    PROVE  Sound(d, m)
<1>1. Service(s)
  BY DEF Sound
<1>2. Service(d)
  BY <1>1 DEF Service, Alike
<1>3. s.proc = "running" => s.work = "running"
  BY <1>1 DEF Sound, Service
<1>4. s.gen = "none" => s.work = "none"
  BY DEF Sound
<1>5. /\ d.gen = "none" => d.work = "none"
      /\ d.work \in {"none", "setup", "waiting"} => d.proc = "none"
      /\ d.work # "over" => d.events = <<>> /\ d.wire = <<>>
      /\ d.work = "over" => d.proc # "running"
  BY <1>1, <1>3, <1>4 DEF Sound, Alike, Service
<1>6. d.events # <<>> \/ d.wire # <<>> => d.proc = s.proc
  BY <1>3 DEF Sound, Alike
<1>7. /\ d.events # <<>> => Says(Head(d.events), d)
      /\ d.wire # <<>> => Says(Head(d.wire), d)
  BY <1>6 DEF Sound, Alike, Says
<1> QED BY <1>2, <1>5, <1>7 DEF Sound

-----------------------------------------------------------------------------
(* The API pod's side of the attempt, its Job, and what the engine is told *)

Caller(c) ==
    /\ DOMAIN c = {"stage", "cancel", "watch", "box", "outcome"}
    /\ c.stage \in Stages /\ c.cancel \in BOOLEAN /\ c.watch \in {"off", "on"} /\ c.box \in BOOLEAN
    /\ c.outcome \in Ends \cup {None}

\* The stages in which the attempt has a slot, and of them those in which a Job may be there.
Held   == {"start", "secret", "wait", "connect", "posting", "reading", "delete", "release"}
Active == {"secret", "wait", "connect", "posting", "reading", "delete"}

\* No Job before it is created, none left at the end.
Tidy(c, k) ==
    /\ c.stage \in {"idle", "acquire", "start"} => k.job = "none" /\ ~k.secret
    /\ c.stage \in {"release", "done"} => k.job # "present" /\ (k.secret => k.job = "leaked")

\* What the engine is told is so.
Truthful(c, s) ==
    /\ c.outcome = "output" => s.proc = "ok"
    /\ c.outcome = "skipped" => s.proc = "skip"
    /\ c.outcome = "canceled" => c.cancel

\* The connection is opened once, by Connect.
Unopened == {"idle", "acquire", "start", "secret", "wait", "connect"}

Fine(c, k, l, s) ==
    /\ c.stage \in Unopened => l = "none"
    /\ Caller(c) /\ Objects(k) /\ l \in {"none", "sent", "open", "closed"}
    /\ Sound(s, l) /\ Tidy(c, k) /\ Truthful(c, s)

\* A process that has ended well is left as it is.
Keeps(d, s) == s.proc \in {"ok", "skip"} => d.proc = s.proc

\* The pod moves on its own.
LEMMA PodMoves ==
    ASSUME NEW c, NEW k, NEW l, NEW s, Fine(c, k, l, s), NEW d, NEW m \in {"none", "sent", "open", "closed"},
           Sound(d, m), Keeps(d, s), l = "none" => m = "none"
    PROVE  Fine(c, k, m, d)
BY DEF Fine, Truthful, Keeps

\* An invocation made from a configuration that could be saved.
Saved(i) == \E c : /\ i = Invocation(c) /\ TaskConfig(c) /\ Savable(c)
                   /\ _spark_always_has_platform_access(c) = c

\* The attempt has its invocation wherever it is used.
Given(c, i, l, s) ==
    /\ i # NoInv => Saved(i)
    /\ c.stage \notin {"idle", "done", "gone"} \/ l # "none" \/ s.gen # "none" => Saved(i)

Functions == DOMAIN cl = Attempts /\ DOMAIN kb = Attempts /\ DOMAIN link = Attempts /\ DOMAIN sv = Attempts
             /\ DOMAIN inv = Attempts

AInv ==
    /\ Functions
    /\ \A a \in Attempts : Fine(cl[a], kb[a], link[a], sv[a]) /\ Given(cl[a], inv[a], link[a], sv[a])

\* Only attempt a has moved.
Alone(a) ==
    /\ Functions'
    /\ \A b \in Attempts \ {a} : /\ cl'[b] = cl[b] /\ kb'[b] = kb[b] /\ link'[b] = link[b]
                                 /\ sv'[b] = sv[b] /\ inv'[b] = inv[b]

\* A step of one attempt that leaves it fine leaves all of them fine.
LEMMA AloneKeeps ==
    ASSUME AInv, NEW a \in Attempts, Alone(a), Fine(cl'[a], kb'[a], link'[a], sv'[a]),
           Given(cl'[a], inv'[a], link'[a], sv'[a])
    PROVE  AInv'
BY DEF AInv, Alone

\* The access of an invocation is a flag.
LEMMA SavedAccess ==
    ASSUME NEW i, Saved(i)
    PROVE  i.access \in BOOLEAN
<1>1. PICK c : i = Invocation(c) /\ TaskConfig(c)
  BY DEF Saved
<1>2. i.access = c.access
  BY <1>1 DEF Invocation
<1>3. c.access \in BOOLEAN
  BY <1>1 DEF TaskConfig
<1> QED BY <1>2, <1>3

\* A step of the pod's own side, with what the rest of the attempt sees of it.
LEMMA PodStep ==
    ASSUME AInv, NEW a \in Attempts, UNCHANGED <<cl, kb, inv>>, NEW d,
           sv' = [sv EXCEPT ![a] = d], Sound(d, link'[a]), Keeps(d, sv[a]), sv[a].gen = "none" => d.gen = "none" \/ link[a] # "none",
           \/ link' = link
           \/ \E m \in {"none", "sent", "open", "closed"} : link' = [link EXCEPT ![a] = m] /\ link[a] # "none"
    PROVE  AInv'
<1>1. Alone(a) /\ sv'[a] = d /\ cl'[a] = cl[a] /\ kb'[a] = kb[a] /\ inv'[a] = inv[a]
  BY DEF AInv, Functions, Alone
<1>2. link'[a] \in {"none", "sent", "open", "closed"} /\ (link[a] = "none" => link'[a] = "none")
  BY DEF AInv, Functions, Fine
<1>3. Fine(cl[a], kb[a], link'[a], d)
  BY <1>2, PodMoves DEF AInv
<1>4. Given(cl[a], inv[a], link'[a], d)
  BY <1>2 DEF AInv, Given
<1> QED BY <1>1, <1>3, <1>4, AloneKeeps

\* The steps of the service and the process in the pod.
LEMMA ServiceSteps ==
    ASSUME AInv, NEW a \in Attempts,
           \/ Accept(a) \/ Setup(a) \/ Popen(a) \/ ProcExit(a) \/ Reap(a) \/ Kill(a) \/ Timeout(a)
           \/ Stream(a) \/ Disconnected(a) \/ PutToken(a) \/ WriteToken(a) \/ IdleExit(a)
    PROVE  AInv'
<1> DEFINE s == sv[a]
<1>0. /\ Sound(s, link[a]) /\ Service(s) /\ link[a] \in {"none", "sent", "open", "closed"}
      /\ DOMAIN sv = Attempts /\ DOMAIN link = Attempts
  BY DEF AInv, Fine, Sound, Functions
<1>1. UNCHANGED <<cl, kb, inv>>
  BY DEF Accept, Setup, Popen, ProcExit, Reap, Kill, Timeout, Stream, Disconnected, PutToken, WriteToken, IdleExit, podvars
<1>2. CASE Accept(a)
  <2> DEFINE d == [s EXCEPT !.started = TRUE, !.gen = "on", !.work = "setup"]
             m == IF link[a] = "sent" THEN "open" ELSE link[a]
  <2>1. sv' = [sv EXCEPT ![a] = d] /\ link' = [link EXCEPT ![a] = m] /\ link[a] # "none" /\ s.gen = "none"
    BY <1>0, <1>2 DEF Accept
  <2>2. Alike(d, s) /\ d.gen = "on" /\ d.work = "setup" /\ d.proc = s.proc /\ d.cancel = s.cancel
    BY <1>0 DEF Alike, Service
  <2>3. m \in {"none", "sent", "open", "closed"} /\ (link[a] = "closed" => m = "closed") /\ link'[a] = m
    BY <1>0, <2>1
  <2> HIDE DEF d, m
  <2>4. Sound(d, m)
    BY <1>0, <2>1, <2>2, <2>3, AlikeSound DEF Sound
  <2> QED BY <1>1, <2>1, <2>2, <2>3, <2>4, PodStep DEF Keeps
<1>3. CASE Setup(a)
  <2>1. link' = link /\ s.work = "setup" /\ s.gen # "none"
    BY <1>0, <1>3 DEF Setup, Sound
  <2>2. inv[a].access \in BOOLEAN
    BY <2>1, SavedAccess DEF AInv, Given
  <2>3. s.proc # "running"
    BY <1>0, <2>1 DEF Sound
  <2>4. CASE s.cancel
    <3>1. sv' = [sv EXCEPT ![a] = Say(s, "canceled")]
      BY <1>3, <2>4 DEF Setup
    <3>2. Says("canceled", s) /\ "canceled" \in Ends
      BY <2>4 DEF Says, Ends
    <3>3. Sound(Say(s, "canceled"), link[a]) /\ Say(s, "canceled").proc = s.proc
      BY <1>0, <2>1, <2>3, <3>2, SaySound
    <3> QED BY <1>1, <2>1, <3>1, <3>3, PodStep DEF Keeps
  <2>5. CASE ~s.cancel /\ ~_report_install(inv[a], Main(kb[a].pod), kb[a].pod)
    <3>1. sv' = [sv EXCEPT ![a] = Say(s, "failed")]
      BY <1>3, <2>5 DEF Setup
    <3>2. Says("failed", s) /\ "failed" \in Ends
      BY DEF Says, Ends
    <3>3. Sound(Say(s, "failed"), link[a]) /\ Say(s, "failed").proc = s.proc
      BY <1>0, <2>1, <2>3, <3>2, SaySound
    <3> QED BY <1>1, <2>1, <3>1, <3>3, PodStep DEF Keeps
  <2>6. CASE ~s.cancel /\ _report_install(inv[a], Main(kb[a].pod), kb[a].pod)
    <3>1. PICK u : u = (inv[a].access /\ Main(kb[a].pod).shared_token_file)
      OBVIOUS
    <3>2. u \in BOOLEAN
      BY <3>1, Zenon
    <3>3. PICK d : d = [s EXCEPT !.work = "waiting", !.token = inv[a].access, !.shared = u]
      OBVIOUS
    <3>4. sv' = [sv EXCEPT ![a] = d]
      BY <1>3, <2>6, <3>1, <3>3 DEF Setup
    <3>5. Alike(d, s) /\ d.gen = s.gen /\ d.work = "waiting" /\ d.proc = s.proc /\ d.cancel = s.cancel
      BY <1>0, <2>2, <3>2, <3>3 DEF Alike, Service
    <3>6. Sound(d, link[a])
      BY <1>0, <2>1, <3>5, AlikeSound DEF Sound
    <3> QED BY <1>1, <2>1, <3>4, <3>5, <3>6, PodStep DEF Keeps
  <2> QED BY <2>4, <2>5, <2>6
<1>4. CASE Popen(a)
  <2>1. PICK d : d = [s EXCEPT !.work = "running", !.proc = "running"]
    OBVIOUS
  <2>2. sv' = [sv EXCEPT ![a] = d] /\ link' = link /\ s.work = "waiting"
    BY <1>0, <1>4, <2>1 DEF Popen
  <2>3. Alike(d, s) /\ d.gen = s.gen /\ d.work = "running" /\ d.proc = "running" /\ d.cancel = s.cancel
    BY <1>0, <2>1 DEF Alike, Service
  <2>4. Sound(d, link[a]) /\ s.proc = "none"
    BY <1>0, <2>2, <2>3, AlikeSound DEF Sound
  <2> QED BY <1>1, <2>2, <2>3, <2>4, PodStep DEF Keeps
<1>5. CASE ProcExit(a)
  <2>1. PICK end \in Endings : sv' = [sv EXCEPT ![a].proc = harness_main(end)]
    BY <1>5 DEF ProcExit
  <2>2. PICK d : d = [s EXCEPT !.proc = harness_main(end)]
    OBVIOUS
  <2>3. sv' = [sv EXCEPT ![a] = d] /\ link' = link /\ s.proc = "running"
    BY <1>0, <1>5, <2>1, <2>2 DEF ProcExit
  <2>4. harness_main(end) \in {"ok", "skip", "error", "empty"}
    BY DEF harness_main
  <2>5. Alike(d, s) /\ d.gen = s.gen /\ d.work = s.work /\ d.proc = harness_main(end) /\ d.cancel = s.cancel
    BY <1>0, <2>2 DEF Alike, Service
  <2>6. Sound(d, link[a])
    BY <1>0, <2>3, <2>4, <2>5, AlikeSound DEF Sound
  <2> QED BY <1>1, <2>3, <2>5, <2>6, PodStep DEF Keeps
<1>6. CASE Reap(a)
  <2>1. sv' = [sv EXCEPT ![a] = Say(s, Result(s.proc))] /\ link' = link /\ s.work = "running" /\ s.proc # "running"
    BY <1>6 DEF Reap
  <2>2. Result(s.proc) \in Ends /\ Says(Result(s.proc), s)
    BY DEF Result, Ends, Says
  <2>3. Sound(Say(s, Result(s.proc)), link[a]) /\ Say(s, Result(s.proc)).proc = s.proc
    BY <1>0, <2>1, <2>2, SaySound
  <2>4. s.gen # "none"
    BY <1>0, <2>1 DEF Sound
  <2> QED BY <1>1, <2>1, <2>3, <2>4, PodStep DEF Keeps
<1>7. CASE Kill(a)
  <2>1. /\ sv' = [sv EXCEPT ![a] = Say([s EXCEPT !.proc = "killed"], "canceled")] /\ link' = link
        /\ s.work = "running" /\ s.proc = "running" /\ s.cancel
    BY <1>7 DEF Kill
  <2>2. Sound(Say([s EXCEPT !.proc = "killed"], "canceled"), link[a])
    BY <1>0, <2>1, KilledSound
  <2>3. s.gen # "none"
    BY <1>0, <2>1 DEF Sound
  <2> QED BY <1>1, <2>1, <2>2, <2>3, PodStep DEF Keeps
<1>8. CASE Timeout(a)
  <2>1. /\ sv' = [sv EXCEPT ![a] = Say([s EXCEPT !.proc = "killed"], "failed")] /\ link' = link
        /\ s.work = "running" /\ s.proc = "running"
    BY <1>8 DEF Timeout
  <2>2. Sound(Say([s EXCEPT !.proc = "killed"], "failed"), link[a])
    BY <1>0, <2>1, KilledSound
  <2>3. s.gen # "none"
    BY <1>0, <2>1 DEF Sound
  <2> QED BY <1>1, <2>1, <2>2, <2>3, PodStep DEF Keeps
<1>9. CASE Stream(a)
  <2>1. s.gen = "on" /\ s.events # <<>> /\ link' = link
    BY <1>9 DEF Stream
  <2>2. sv' = [sv EXCEPT ![a] = Streamed(s, link[a])]
    BY <1>0, <1>9 DEF Stream, Streamed
  <2>3. Sound(Streamed(s, link[a]), link[a]) /\ Streamed(s, link[a]).proc = s.proc
    BY <1>0, <2>1, StreamSound
  <2> QED BY <1>1, <2>1, <2>2, <2>3, PodStep DEF Keeps
<1>10. CASE Disconnected(a)
  <2>1. PICK d : d = [s EXCEPT !.gen = "over", !.cancel = TRUE, !.exit = TRUE]
    OBVIOUS
  <2>2. sv' = [sv EXCEPT ![a] = d] /\ link' = link /\ s.gen = "on" /\ link[a] = "closed"
    BY <1>0, <1>10, <2>1 DEF Disconnected
  <2>3. Alike(d, s) /\ d.gen = "over" /\ d.work = s.work /\ d.proc = s.proc /\ d.cancel = TRUE
    BY <1>0, <2>1 DEF Alike, Service
  <2>4. Sound(d, link[a])
    BY <1>0, <2>2, <2>3, AlikeSound
  <2> QED BY <1>1, <2>2, <2>3, <2>4, PodStep DEF Keeps
<1>11. CASE PutToken(a) \/ IdleExit(a)
  <2>1. PICK d : (d = [s EXCEPT !.put = TRUE] \/ d = [s EXCEPT !.exit = TRUE]) /\ sv' = [sv EXCEPT ![a] = d]
    BY <1>0, <1>11 DEF PutToken, IdleExit
  <2>2. sv' = [sv EXCEPT ![a] = d] /\ link' = link
    BY <1>11, <2>1 DEF PutToken, IdleExit
  <2>3. Alike(d, s) /\ d.gen = s.gen /\ d.work = s.work /\ d.proc = s.proc /\ d.cancel = s.cancel
    BY <1>0, <2>1 DEF Alike, Service
  <2>4. Sound(d, link[a])
    BY <1>0, <2>3, AlikeSound DEF Sound
  <2> QED BY <1>1, <2>2, <2>3, <2>4, PodStep DEF Keeps
<1>12. CASE WriteToken(a)
  <2>1. PICK u \in BOOLEAN : sv' = [sv EXCEPT ![a].put = FALSE, ![a].shared = u]
    <3>1. (s.shared \/ (s.token /\ Main(kb[a].pod).shared_token_file)) \in BOOLEAN
      BY Zenon
    <3>2. Main(kb[a].pod).shared_token_file \in BOOLEAN
      BY DEF Main
    <3>3. \/ sv' = [sv EXCEPT ![a].put = FALSE,
                            ![a].shared = s.shared \/ (s.token /\ Main(kb[a].pod).shared_token_file)]
          \/ sv' = [sv EXCEPT ![a].put = FALSE, ![a].shared = Main(kb[a].pod).shared_token_file]
      BY <1>0, <1>12 DEF WriteToken
    <3> QED BY <3>1, <3>2, <3>3, Zenon
  <2>2. PICK d : d = [s EXCEPT !.put = FALSE, !.shared = u]
    OBVIOUS
  <2>3. sv' = [sv EXCEPT ![a] = d] /\ link' = link
    BY <1>0, <1>12, <2>1, <2>2 DEF WriteToken
  <2>4. Alike(d, s) /\ d.gen = s.gen /\ d.work = s.work /\ d.proc = s.proc /\ d.cancel = s.cancel
    BY <1>0, <2>2 DEF Alike, Service
  <2>5. Sound(d, link[a])
    BY <1>0, <2>4, AlikeSound DEF Sound
  <2> QED BY <1>1, <2>3, <2>4, <2>5, PodStep DEF Keeps
<1> QED BY <1>2, <1>3, <1>4, <1>5, <1>6, <1>7, <1>8, <1>9, <1>10, <1>11, <1>12

\* The record of the API pod's side after a step.
LEMMA ToMoves ==
    ASSUME NEW c, Caller(c), NEW x \in Stages, NEW e, e = [c EXCEPT !.stage = x]
    PROVE  Caller(e) /\ e.stage = x /\ e.cancel = c.cancel /\ e.outcome = c.outcome
<1>1. /\ e.stage = x /\ e.cancel = c.cancel /\ e.outcome = c.outcome /\ e.watch = c.watch /\ e.box = c.box
      /\ DOMAIN e = DOMAIN c
  BY DEF Caller
<1> QED BY <1>1 DEF Caller

Left(c, x, end) == [c EXCEPT !.stage = x, !.outcome = end, !.watch = "off", !.box = FALSE]

\* The caller leaves with an outcome.
LEMMA LeaveMoves ==
    ASSUME NEW c, Caller(c), NEW x \in Stages, NEW end \in Ends, NEW e, e = Left(c, x, end)
    PROVE  Caller(e) /\ e.stage = x /\ e.outcome = end /\ e.cancel = c.cancel
<1>1. e.stage = x /\ e.outcome = end /\ e.cancel = c.cancel /\ e.watch = "off" /\ e.box = FALSE /\ DOMAIN e = DOMAIN c
  BY DEF Caller, Left
<1> QED BY <1>1 DEF Caller

\* A step that moves only the API pod's side, perhaps with the connection.
LEMMA CallStep ==
    ASSUME AInv, NEW a \in Attempts, NEW e, cl' = [cl EXCEPT ![a] = e], UNCHANGED <<kb, sv, inv>>,
           NEW m \in {"none", "sent", "open", "closed"},
           link' = [link EXCEPT ![a] = m] \/ (link' = link /\ m = link[a]),
           Caller(e), Tidy(e, kb[a]), Truthful(e, sv[a]), sv[a].cancel => m = "closed",
           e.stage \in Unopened => m = "none",
           e.stage \notin {"idle", "done", "gone"} \/ m # "none" \/ sv[a].gen # "none" => Saved(inv[a])
    PROVE  AInv'
<1>1. Alone(a) /\ cl'[a] = e /\ link'[a] = m /\ sv'[a] = sv[a] /\ kb'[a] = kb[a] /\ inv'[a] = inv[a]
  BY DEF AInv, Functions, Alone
<1>2. Sound(sv[a], m)
  BY DEF AInv, Fine, Sound
<1>3. Fine(e, kb[a], m, sv[a])
  BY <1>2 DEF AInv, Fine
<1>4. Given(e, inv[a], m, sv[a])
  BY DEF AInv, Given
<1> QED BY <1>1, <1>3, <1>4, AloneKeeps

\* The same with the connection left alone.
LEMMA QuietCallStep ==
    ASSUME AInv, NEW a \in Attempts, NEW e, cl' = [cl EXCEPT ![a] = e], UNCHANGED <<kb, sv, inv, link>>,
           Caller(e), Tidy(e, kb[a]), Truthful(e, sv[a]),
           e.stage \in {"idle", "done", "gone"} \/ cl[a].stage \notin {"idle", "done", "gone"},
           e.stage \in Unopened => cl[a].stage \in Unopened
    PROVE  AInv'
<1>1. link[a] \in {"none", "sent", "open", "closed"} /\ (sv[a].cancel => link[a] = "closed")
  BY DEF AInv, Functions, Fine, Sound
<1>2. e.stage \notin {"idle", "done", "gone"} \/ link[a] # "none" \/ sv[a].gen # "none" => Saved(inv[a])
  BY DEF AInv, Given
<1>3. e.stage \in Unopened => link[a] = "none"
  BY DEF AInv, Fine
<1> QED BY <1>1, <1>2, <1>3, CallStep

\* Invocations that Run may draw are saved ones.
LEMMA DrawnSaved ==
    ASSUME NEW a \in Attempts, NEW i \in Invocations(a)
    PROVE  Saved(i)
<1>1. PICK x \in Configs[a] : Savable(x) /\ i = Invocation(_spark_always_has_platform_access(x))
  BY DEF Invocations
<1>2. PICK c : c = _spark_always_has_platform_access(x)
  OBVIOUS
<1>3. TaskConfig(x)
  BY ConfigsAssumption
<1>4. PICK v : v = (x.access \/ x.runner = SPARK_RUNNER)
  OBVIOUS
<1>5. v \in BOOLEAN
  BY <1>4, Zenon
<1>6. c = [x EXCEPT !.access = v]
  BY <1>2, <1>4 DEF _spark_always_has_platform_access
<1>7. /\ DOMAIN c = DOMAIN x /\ c.access = v /\ c.runner = x.runner /\ c.spark = x.spark
      /\ c.secrets = x.secrets /\ c.modules = x.modules
  BY <1>3, <1>6 DEF TaskConfig
<1>8. TaskConfig(c)
  BY <1>3, <1>5, <1>7 DEF TaskConfig
<1>9. (c.access \/ c.runner = SPARK_RUNNER) = v
  BY <1>4, <1>5, <1>7, Zenon
<1>10. [c EXCEPT !.access = v] = c
  BY <1>3, <1>6 DEF TaskConfig
<1>11. _spark_always_has_platform_access(c) = c
  BY <1>9, <1>10, Zenon DEF _spark_always_has_platform_access
<1>12. Savable(c)
  BY <1>1, <1>2, <1>11 DEF Savable
<1> QED BY <1>1, <1>2, <1>8, <1>11, <1>12 DEF Saved

\* The API pod's own steps, up to the end of the connection.
LEMMA CallerSteps ==
    ASSUME AInv, NEW a \in Attempts,
           \/ Cancel(a) \/ _acquire(a) \/ _wait_ready(a) \/ Connect(a) \/ Headers(a) \/ watch_cancel(a)
           \/ Receive(a) \/ LostConnection(a) \/ ReadTimeout(a)
    PROVE  AInv'
<1> DEFINE c == cl[a]
<1>0. /\ Caller(c) /\ Tidy(c, kb[a]) /\ Truthful(c, sv[a]) /\ Given(c, inv[a], link[a], sv[a])
      /\ link[a] \in {"none", "sent", "open", "closed"} /\ DOMAIN cl = Attempts /\ DOMAIN link = Attempts
      /\ c.cancel \in BOOLEAN /\ Sound(sv[a], link[a])
  BY DEF AInv, Fine, Functions, Caller
<1>1. UNCHANGED <<kb, sv, inv>>
  BY DEF Cancel, _acquire, _wait_ready, Connect, Headers, watch_cancel, Receive, LostConnection, ReadTimeout, podvars
<1>2. CASE Cancel(a)
  <2>1. PICK e : e = [c EXCEPT !.cancel = TRUE]
    OBVIOUS
  <2>2. cl' = [cl EXCEPT ![a] = e] /\ link' = link
    BY <1>0, <1>2, <2>1 DEF Cancel
  <2>3. /\ e.cancel = TRUE /\ e.stage = c.stage /\ e.outcome = c.outcome /\ e.watch = c.watch /\ e.box = c.box
        /\ DOMAIN e = DOMAIN c
    BY <1>0, <2>1 DEF Caller
  <2>4. Caller(e) /\ Tidy(e, kb[a]) /\ Truthful(e, sv[a])
    BY <1>0, <2>3 DEF Caller, Tidy, Truthful
  <2> QED BY <1>1, <2>2, <2>3, <2>4, QuietCallStep
<1>3. ASSUME NEW x \in {"start", "connect"}, To(a, x), link' = link, c.stage \in {"acquire", "wait"}, x = "start" => c.stage = "acquire"
      PROVE  AInv'
  <2>1. PICK e : e = [c EXCEPT !.stage = x]
    OBVIOUS
  <2>2. cl' = [cl EXCEPT ![a] = e] /\ x \in Stages
    BY <1>0, <1>3, <2>1 DEF To, Stages
  <2>3. Caller(e) /\ e.stage = x /\ e.cancel = c.cancel /\ e.outcome = c.outcome
    BY <1>0, <2>1, <2>2, ToMoves
  <2>4. Tidy(e, kb[a]) /\ Truthful(e, sv[a])
    BY <1>0, <1>3, <2>3 DEF Tidy, Truthful
  <2> QED BY <1>1, <1>3, <2>2, <2>3, <2>4, QuietCallStep DEF Unopened
<1>4. ASSUME NEW x \in {"done", "delete"}, NEW end \in {"canceled", "failed"}, Leave(a, x, end), end = "canceled" => c.cancel,
             x = "delete" => c.stage \in {"wait", "connect"}, x = "done" => c.stage = "acquire", link' = link
      PROVE  AInv'
  <2>1. PICK e : e = Left(c, x, end)
    OBVIOUS
  <2>2. cl' = [cl EXCEPT ![a] = e] /\ x \in Stages /\ end \in Ends
    BY <1>0, <1>4, <2>1 DEF Leave, Left, Stages, Ends
  <2>3. Caller(e) /\ e.stage = x /\ e.outcome = end /\ e.cancel = c.cancel
    BY <1>0, <2>1, <2>2, LeaveMoves
  <2>4. Tidy(e, kb[a]) /\ Truthful(e, sv[a])
    BY <1>0, <1>4, <2>3 DEF Tidy, Truthful
  <2> QED BY <1>1, <1>4, <2>2, <2>3, <2>4, QuietCallStep DEF Unopened
<1>5. CASE _acquire(a)
  <2>1. c.stage = "acquire" /\ link' = link /\ (To(a, "start") \/ (Leave(a, "done", "canceled") /\ c.cancel))
    BY <1>5 DEF _acquire, At
  <2> QED BY <1>3, <1>4, <2>1
<1>6. CASE _wait_ready(a)
  <2>1. c.stage = "wait" /\ link' = link
        /\ (To(a, "connect") \/ (Leave(a, "delete", "canceled") /\ c.cancel) \/ Leave(a, "delete", "failed"))
    BY <1>6 DEF _wait_ready, At
  <2> QED BY <1>3, <1>4, <2>1
<1>7. CASE Connect(a)
  <2>1. CASE (Leave(a, "delete", "canceled") /\ c.cancel /\ link' = link) \/ (Leave(a, "delete", "failed") /\ link' = link)
    BY <1>4, <1>7, <2>1 DEF Connect, At
  <2>2. CASE cl' = [cl EXCEPT ![a].stage = "posting", ![a].watch = "on"] /\ link' = [link EXCEPT ![a] = "sent"] /\ c.stage = "connect"
             /\ ~sv[a].cancel
    <3>1. PICK e : e = [c EXCEPT !.stage = "posting", !.watch = "on"]
      OBVIOUS
    <3>2. cl' = [cl EXCEPT ![a] = e]
      BY <1>0, <2>2, <3>1
    <3>3. e.stage = "posting" /\ e.watch = "on" /\ e.cancel = c.cancel /\ e.outcome = c.outcome /\ e.box = c.box /\ DOMAIN e = DOMAIN c
      BY <1>0, <3>1 DEF Caller
    <3>4. Caller(e) /\ Tidy(e, kb[a]) /\ Truthful(e, sv[a])
      BY <1>0, <3>3 DEF Caller, Tidy, Truthful, Stages
    <3>5. Saved(inv[a])
      BY <1>0, <2>2 DEF Given
    <3>6. e.stage \notin Unopened
      BY <3>3 DEF Unopened
    <3> QED BY <1>1, <2>2, <3>2, <3>4, <3>5, <3>6, CallStep
  <2>3. c.stage = "connect" /\ ~sv[a].cancel
    <3>1. c.stage = "connect" /\ c.stage \in Unopened
      BY <1>7 DEF Connect, At, Unopened
    <3> QED BY <3>1 DEF AInv, Fine, Sound
  <2> QED BY <1>7, <2>1, <2>2, <2>3 DEF Connect
<1>8. CASE Headers(a)
  <2>1. PICK e : e = [c EXCEPT !.stage = "reading", !.box = TRUE]
    OBVIOUS
  <2>2. cl' = [cl EXCEPT ![a] = e] /\ link' = link /\ c.stage = "posting"
    BY <1>0, <1>8, <2>1 DEF Headers, At
  <2>3. /\ e.cancel = c.cancel /\ e.stage = "reading" /\ e.outcome = c.outcome /\ e.watch = c.watch /\ e.box = TRUE
        /\ DOMAIN e = DOMAIN c
    BY <1>0, <2>1 DEF Caller
  <2>4. Caller(e) /\ Tidy(e, kb[a]) /\ Truthful(e, sv[a])
    BY <1>0, <2>3 DEF Caller, Tidy, Truthful, Stages
  <2> QED BY <1>1, <2>2, <2>3, <2>4, QuietCallStep DEF Unopened
<1>9. CASE watch_cancel(a)
  <2>1. PICK e : e = [c EXCEPT !.watch = "off"]
    OBVIOUS
  <2>2. /\ cl' = [cl EXCEPT ![a] = e] /\ c.stage \in {"posting", "reading"}
        /\ (link' = [link EXCEPT ![a] = "closed"] \/ link' = link)
    BY <1>0, <1>9, <2>1 DEF watch_cancel, Unheard
  <2>3. /\ e.cancel = c.cancel /\ e.stage = c.stage /\ e.outcome = c.outcome /\ e.watch = "off" /\ e.box = c.box
        /\ DOMAIN e = DOMAIN c
    BY <1>0, <2>1 DEF Caller
  <2>4. Caller(e) /\ Tidy(e, kb[a]) /\ Truthful(e, sv[a])
    BY <1>0, <2>3 DEF Caller, Tidy, Truthful
  <2>5. Saved(inv[a])
    BY <1>0, <2>2 DEF Given
  <2>6. e.stage \notin Unopened /\ e.stage \notin {"idle", "done", "gone"} /\ (sv[a].cancel => link[a] = "closed")
    BY <1>0, <2>2, <2>3 DEF Unopened, Sound
  <2> QED BY <1>0, <1>1, <2>2, <2>4, <2>5, <2>6, CallStep
<1>10. ASSUME NEW end \in Ends, Leave(a, "delete", end), link' = [link EXCEPT ![a] = "closed"],
              c.stage \in {"posting", "reading"},
              end = "output" => sv[a].proc = "ok", end = "skipped" => sv[a].proc = "skip", end = "canceled" => c.cancel
       PROVE  AInv'
  <2>1. PICK e : e = Left(c, "delete", end)
    OBVIOUS
  <2>2. cl' = [cl EXCEPT ![a] = e] /\ "delete" \in Stages
    BY <1>0, <1>10, <2>1 DEF Leave, Left, Stages
  <2>3. Caller(e) /\ e.stage = "delete" /\ e.outcome = end /\ e.cancel = c.cancel
    BY <1>0, <2>1, <2>2, LeaveMoves
  <2>4. Tidy(e, kb[a]) /\ Truthful(e, sv[a])
    BY <1>0, <1>10, <2>3 DEF Tidy, Truthful
  <2>5. Saved(inv[a]) /\ e.stage \notin Unopened
    BY <1>0, <1>10, <2>3 DEF Given, Unopened
  <2> QED BY <1>1, <1>10, <2>2, <2>3, <2>4, <2>5, CallStep
<1>11. CASE Receive(a)
  <2>1. c.stage = "reading" /\ sv[a].wire # <<>> /\ Leave(a, "delete", Head(sv[a].wire)) /\ link' = [link EXCEPT ![a] = "closed"]
    BY <1>11 DEF Receive, At
  <2>2. Says(Head(sv[a].wire), sv[a]) /\ sv[a].wire \in Wires
    BY <1>0, <2>1 DEF Sound, Service
  <2>3. Head(sv[a].wire) \in {"output", "skipped", "failed"}
    BY <2>1, <2>2 DEF Wires
  <2>4. Head(sv[a].wire) \in Ends /\ Head(sv[a].wire) # "canceled"
    BY <2>3 DEF Ends
  <2> QED BY <1>10, <2>1, <2>2, <2>4 DEF Says
<1>12. CASE LostConnection(a) \/ ReadTimeout(a)
  <2>1. c.stage \in {"posting", "reading"} /\ Leave(a, "delete", Lost(a)) /\ link' = [link EXCEPT ![a] = "closed"]
    BY <1>12 DEF LostConnection, ReadTimeout, At
  <2>2. Lost(a) \in Ends /\ Lost(a) # "output" /\ Lost(a) # "skipped" /\ (Lost(a) = "canceled" => c.cancel)
    BY DEF Lost, Ends
  <2> QED BY <1>10, <2>1, <2>2
<1> QED BY <1>2, <1>5, <1>6, <1>7, <1>8, <1>9, <1>11, <1>12

\* The call begins, with an invocation that could be saved.
LEMMA RunStep ==
    ASSUME AInv, NEW a \in Attempts, Run(a)
    PROVE  AInv'
<1>0. /\ Caller(cl[a]) /\ Fine(cl[a], kb[a], link[a], sv[a]) /\ DOMAIN cl = Attempts /\ DOMAIN inv = Attempts
      /\ cl[a].stage = "idle"
  BY DEF AInv, Fine, Functions, Run, At
<1>1. PICK i \in Invocations(a) : inv' = [inv EXCEPT ![a] = i]
  BY DEF Run
<1>2. Saved(i) /\ inv'[a] = i
  BY <1>0, <1>1, DrawnSaved
<1>3. PICK e : e = IF cl[a].cancel THEN Left(cl[a], "done", "canceled") ELSE [cl[a] EXCEPT !.stage = "acquire"]
  OBVIOUS
<1>4. cl' = [cl EXCEPT ![a] = e]
  BY <1>0, <1>3 DEF Run, Leave, To, Left
<1>5. {"done", "acquire"} \subseteq Stages /\ "canceled" \in Ends
  BY DEF Stages, Ends
<1>6. Caller(e) /\ e.stage \in {"done", "acquire"} /\ e.cancel = cl[a].cancel
      /\ (e.outcome = cl[a].outcome \/ (e.outcome = "canceled" /\ e.cancel))
  BY <1>0, <1>3, <1>5, LeaveMoves, ToMoves
<1>7. /\ Alone(a) /\ cl'[a] = e /\ kb'[a] = kb[a] /\ link'[a] = link[a] /\ sv'[a] = sv[a]
  BY <1>0, <1>1, <1>4 DEF Alone, AInv, Functions, Run
<1>8. Fine(e, kb[a], link[a], sv[a])
  BY <1>0, <1>6 DEF Fine, Tidy, Truthful, Unopened
<1>9. Given(e, i, link[a], sv[a])
  BY <1>2 DEF Given
<1> QED BY <1>2, <1>7, <1>8, <1>9, AloneKeeps

\* A step on the cluster's objects, perhaps with a step of the pod.
LEMMA ObjectStep ==
    ASSUME AInv, NEW a \in Attempts, Functions', UNCHANGED <<link, inv>>,
           NEW e, NEW k, NEW d, cl'[a] = e, kb'[a] = k, sv'[a] = d,
           \A b \in Attempts \ {a} : cl'[b] = cl[b] /\ kb'[b] = kb[b] /\ sv'[b] = sv[b],
           Caller(e), Objects(k), Sound(d, link[a]), Tidy(e, k), Truthful(e, d),
           d.gen = "none" \/ sv[a].gen # "none",
           e.stage \in {"idle", "done", "gone"} \/ cl[a].stage \notin {"idle", "done", "gone"},
           e.stage \in Unopened => cl[a].stage \in Unopened
    PROVE  AInv'
<1>1. Alone(a) /\ link'[a] = link[a] /\ inv'[a] = inv[a]
  BY DEF Alone
<1>2. Fine(e, k, link[a], d)
  BY DEF AInv, Fine
<1>3. Given(e, inv[a], link[a], d)
  BY DEF AInv, Given
<1> QED BY <1>1, <1>2, <1>3, AloneKeeps

\* The pod ends, with everything in it.
LEMMA EndPodStep ==
    ASSUME AInv, NEW a \in Attempts, EndPod(a), UNCHANGED <<cl, link, inv>>
    PROVE  AInv'
<1>0. /\ Fine(cl[a], kb[a], link[a], sv[a]) /\ DOMAIN kb = Attempts /\ DOMAIN sv = Attempts
      /\ Sound(sv[a], link[a]) /\ Objects(kb[a]) /\ Service(sv[a])
  BY DEF AInv, Functions, Fine, Sound
<1>1. PICK k : k = [kb[a] EXCEPT !.phase = "ended"]
  OBVIOUS
<1>2. /\ Functions' /\ kb'[a] = k /\ sv'[a] = Dead(sv[a])
      /\ \A b \in Attempts \ {a} : cl'[b] = cl[b] /\ kb'[b] = kb[b] /\ sv'[b] = sv[b]
  BY <1>0, <1>1 DEF EndPod, AInv, Functions
<1>3. k.job = kb[a].job /\ k.secret = kb[a].secret /\ k.phase = "ended" /\ DOMAIN k = DOMAIN kb[a]
  BY <1>0, <1>1 DEF Objects
<1>4. Objects(k)
  BY <1>0, <1>3 DEF Objects
<1>5. Sound(Dead(sv[a]), link[a]) /\ (sv[a].proc # "running" => Dead(sv[a]).proc = sv[a].proc)
  BY <1>0, DeadSound
<1>6. Dead(sv[a]).gen = "none" \/ sv[a].gen # "none"
  BY <1>0 DEF Dead, Service
<1>7. Tidy(cl[a], k) /\ Truthful(cl[a], Dead(sv[a])) /\ Caller(cl[a])
  BY <1>0, <1>3, <1>5 DEF Fine, Tidy, Truthful
<1>8. cl'[a] = cl[a]
  OBVIOUS
<1>9. cl[a].stage \in {"idle", "done", "gone"} \/ cl[a].stage \notin {"idle", "done", "gone"}
  OBVIOUS
<1> QED BY <1>2, <1>4, <1>5, <1>6, <1>7, <1>8, <1>9, ObjectStep

\* The cluster starts a pod or ends it.
LEMMA ClusterSteps ==
    ASSUME AInv, NEW a \in Attempts, PodReady(a) \/ InstallFails(a) \/ PodLost(a) \/ ServerExit(a)
    PROVE  AInv'
<1>1. CASE InstallFails(a) \/ PodLost(a) \/ ServerExit(a)
  BY <1>1, EndPodStep DEF InstallFails, PodLost, ServerExit, podvars
<1>2. CASE PodReady(a)
  <2>0. /\ Fine(cl[a], kb[a], link[a], sv[a]) /\ DOMAIN kb = Attempts /\ Objects(kb[a])
        /\ Sound(sv[a], link[a])
    BY DEF AInv, Functions, Fine
  <2>1. PICK v : kb' = [kb EXCEPT ![a].phase = "ready", ![a].pod.packages = v]
    BY <1>2 DEF PodReady
  <2>2. PICK k : k = [kb[a] EXCEPT !.phase = "ready", !.pod = [kb[a].pod EXCEPT !.packages = v]]
    OBVIOUS
  <2>3. /\ Functions' /\ kb'[a] = k
        /\ \A b \in Attempts \ {a} : cl'[b] = cl[b] /\ kb'[b] = kb[b] /\ sv'[b] = sv[b]
        /\ UNCHANGED <<cl, link, sv, inv>>
    BY <1>2, <2>0, <2>1, <2>2 DEF PodReady, podvars, AInv, Functions, Objects
  <2>4. k.job = kb[a].job /\ k.secret = kb[a].secret /\ k.phase = "ready" /\ DOMAIN k = DOMAIN kb[a]
    BY <2>0, <2>2 DEF Objects
  <2>5. Objects(k) /\ Tidy(cl[a], k)
    BY <2>0, <2>4 DEF Objects, Tidy, Fine
  <2>6. cl'[a] = cl[a] /\ sv'[a] = sv[a] /\ Caller(cl[a]) /\ Truthful(cl[a], sv[a])
    BY <2>0, <2>3 DEF Fine
  <2> QED BY <2>0, <2>3, <2>5, <2>6, ObjectStep
<1> QED BY <1>1, <1>2

\* The Job, its Secret, and their deletion.
LEMMA JobSteps ==
    ASSUME AInv, NEW a \in Attempts, CreateJob(a) \/ CreateSecret(a) \/ DeleteJob(a)
    PROVE  AInv'
<1>0. /\ Fine(cl[a], kb[a], link[a], sv[a]) /\ Objects(kb[a]) /\ Sound(sv[a], link[a]) /\ Caller(cl[a])
      /\ Tidy(cl[a], kb[a]) /\ Truthful(cl[a], sv[a]) /\ Service(sv[a])
      /\ DOMAIN kb = Attempts /\ DOMAIN cl = Attempts /\ DOMAIN sv = Attempts
  BY DEF AInv, Functions, Fine, Sound
<1>1. UNCHANGED <<link, inv>> /\ cl[a].stage \notin {"idle", "done", "gone"}
  BY DEF CreateJob, CreateSecret, DeleteJob, podvars, At
<1>2. {"release", "secret", "wait", "delete"} \subseteq Stages /\ "failed" \in Ends
  BY DEF Stages, Ends
<1>3. ASSUME NEW x \in {"release", "delete"}, Leave(a, x, "failed"), UNCHANGED <<kb, sv>>,
             cl[a].stage \in {"start", "secret"}, x = "release" => cl[a].stage = "start"
      PROVE  AInv'
  <2>1. PICK e : e = Left(cl[a], x, "failed")
    OBVIOUS
  <2>2. cl' = [cl EXCEPT ![a] = e]
    BY <1>0, <1>3, <2>1 DEF Leave, Left
  <2>3. Caller(e) /\ e.stage = x /\ e.outcome = "failed" /\ e.cancel = cl[a].cancel
    BY <1>0, <1>2, <2>1, LeaveMoves
  <2>4. Tidy(e, kb[a]) /\ Truthful(e, sv[a])
    BY <1>0, <1>3, <2>3 DEF Tidy, Truthful
  <2> QED BY <1>1, <1>3, <2>2, <2>3, <2>4, QuietCallStep DEF Unopened
<1>4. ASSUME NEW x \in {"secret", "wait", "delete", "release"}, To(a, x) \/ Leave(a, x, "failed"), NEW k, kb' = [kb EXCEPT ![a] = k], Objects(k),
             NEW d, sv'[a] = d, DOMAIN sv' = Attempts, \A b \in Attempts \ {a} : sv'[b] = sv[b],
             Sound(d, link[a]), Keeps(d, sv[a]), d.gen = "none" \/ sv[a].gen # "none",
             x = "release" => k.job # "present" /\ (k.secret => k.job = "leaked"),
             x \in {"secret", "wait"} => cl[a].stage \in {"start", "secret"}
      PROVE  AInv'
  <2>1. PICK e : (e = [cl[a] EXCEPT !.stage = x] \/ e = Left(cl[a], x, "failed")) /\ cl' = [cl EXCEPT ![a] = e]
    <3>1. CASE To(a, x)
      <4>1. PICK e : e = [cl[a] EXCEPT !.stage = x]
        OBVIOUS
      <4>2. cl' = [cl EXCEPT ![a] = e]
        BY <1>0, <3>1, <4>1 DEF To
      <4> QED BY <4>1, <4>2
    <3>2. CASE Leave(a, x, "failed")
      <4>1. PICK e : e = Left(cl[a], x, "failed")
        OBVIOUS
      <4>2. cl' = [cl EXCEPT ![a] = e]
        BY <1>0, <3>2, <4>1 DEF Leave, Left
      <4> QED BY <4>1, <4>2
    <3> QED BY <1>4, <3>1, <3>2
  <2>2. cl' = [cl EXCEPT ![a] = e]
    BY <2>1
  <2>3. Caller(e) /\ e.stage = x /\ e.cancel = cl[a].cancel /\ e.outcome \in {cl[a].outcome, "failed"}
    <3>1. x \in Stages
      BY <1>2
    <3>2. CASE e = [cl[a] EXCEPT !.stage = x]
      BY <1>0, <3>1, <3>2, ToMoves
    <3>3. CASE e = Left(cl[a], x, "failed")
      BY <1>0, <1>2, <3>1, <3>3, LeaveMoves
    <3> QED BY <2>1, <3>2, <3>3
  <2>4. Tidy(e, k) /\ Truthful(e, d)
    BY <1>0, <1>4, <2>3 DEF Tidy, Truthful, Keeps
  <2>5. /\ Functions' /\ cl'[a] = e /\ kb'[a] = k
        /\ \A b \in Attempts \ {a} : cl'[b] = cl[b] /\ kb'[b] = kb[b] /\ sv'[b] = sv[b]
    BY <1>0, <1>1, <1>4, <2>2 DEF AInv, Functions
  <2>6. e.stage \in Unopened => cl[a].stage \in Unopened
    BY <1>4, <2>3 DEF Unopened
  <2> QED BY <1>1, <1>4, <2>3, <2>4, <2>5, <2>6, ObjectStep
<1>5. CASE CreateJob(a)
  <2>1. cl[a].stage = "start" /\ UNCHANGED sv
    BY <1>5 DEF CreateJob, At
  <2>2. CASE Leave(a, "release", "failed") /\ UNCHANGED kb
    BY <1>3, <2>1, <2>2
  <2>3. CASE ~(Leave(a, "release", "failed") /\ UNCHANGED kb)
    <3>1. PICK w, job : /\ kb' = [kb EXCEPT ![a] = [job |-> job, secret |-> FALSE, phase |-> "pending",
                                                    pod |-> _job(template, inv[a], w)]]
                        /\ \/ job = "present" /\ To(a, "secret")
                           \/ job = "orphan" /\ Leave(a, "release", "failed")
      BY <1>5, <2>3 DEF CreateJob
    <3>2. PICK p : p = _job(template, inv[a], w)
      OBVIOUS
    <3>3. PICK k : k = [job |-> job, secret |-> FALSE, phase |-> "pending", pod |-> p]
      OBVIOUS
    <3>4. Objects(k) /\ kb' = [kb EXCEPT ![a] = k] /\ k.job = job /\ ~k.secret
      BY <3>1, <3>2, <3>3 DEF Objects
    <3>5. sv'[a] = sv[a] /\ DOMAIN sv' = Attempts /\ (\A b \in Attempts \ {a} : sv'[b] = sv[b]) /\ Keeps(sv[a], sv[a])
          /\ (sv[a].gen = "none" \/ sv[a].gen # "none")
      BY <1>0, <2>1 DEF Keeps
    <3>6. CASE job = "present" /\ To(a, "secret")
      BY <1>0, <1>4, <2>1, <3>4, <3>5, <3>6
    <3>7. CASE job = "orphan" /\ Leave(a, "release", "failed")
      BY <1>0, <1>4, <2>1, <3>4, <3>5, <3>7
    <3> QED BY <3>1, <3>6, <3>7
  <2> QED BY <1>5, <2>2, <2>3 DEF CreateJob
<1>6. CASE CreateSecret(a)
  <2>1. cl[a].stage = "secret" /\ UNCHANGED sv
    BY <1>6 DEF CreateSecret, At
  <2>2. CASE Leave(a, "delete", "failed") /\ UNCHANGED kb
    BY <1>3, <2>1, <2>2
  <2>3. CASE (To(a, "wait") \/ Leave(a, "delete", "failed")) /\ kb' = [kb EXCEPT ![a].secret = TRUE]
    <3>1. PICK k : k = [kb[a] EXCEPT !.secret = TRUE]
      OBVIOUS
    <3>2. kb' = [kb EXCEPT ![a] = k]
      BY <1>0, <2>3, <3>1
    <3>3. k.job = kb[a].job /\ k.secret = TRUE /\ k.phase = kb[a].phase /\ DOMAIN k = DOMAIN kb[a]
      BY <1>0, <3>1 DEF Objects
    <3>4. Objects(k)
      BY <1>0, <3>3 DEF Objects
    <3> QED BY <1>0, <1>4, <2>1, <2>3, <3>2, <3>4 DEF Keeps
  <2> QED BY <1>6, <2>2, <2>3 DEF CreateSecret
<1>7. CASE DeleteJob(a)
  <2>1. To(a, "release")
    BY <1>7 DEF DeleteJob
  <2>2. CASE kb' = [kb EXCEPT ![a].job = "deleted", ![a].secret = FALSE, ![a].phase = "ended"]
             /\ sv' = [sv EXCEPT ![a] = Dead(sv[a])]
    <3>1. PICK k : k = [kb[a] EXCEPT !.job = "deleted", !.secret = FALSE, !.phase = "ended"]
      OBVIOUS
    <3>2. kb' = [kb EXCEPT ![a] = k]
      BY <1>0, <2>2, <3>1
    <3>3. k.job = "deleted" /\ k.secret = FALSE /\ k.phase = "ended" /\ DOMAIN k = DOMAIN kb[a]
      BY <1>0, <3>1 DEF Objects
    <3>4. Objects(k)
      BY <1>0, <3>3 DEF Objects
    <3>5. Sound(Dead(sv[a]), link[a]) /\ Keeps(Dead(sv[a]), sv[a])
      BY <1>0, DeadSound DEF Keeps
    <3>6. Dead(sv[a]).gen = "none" \/ sv[a].gen # "none"
      BY <1>0 DEF Dead, Service
    <3>7. sv'[a] = Dead(sv[a]) /\ DOMAIN sv' = Attempts /\ \A b \in Attempts \ {a} : sv'[b] = sv[b]
      BY <1>0, <2>2
    <3> QED BY <1>4, <2>1, <3>2, <3>3, <3>4, <3>5, <3>6, <3>7
  <2>3. CASE kb' = [kb EXCEPT ![a].job = "leaked"] /\ UNCHANGED sv
    <3>1. PICK k : k = [kb[a] EXCEPT !.job = "leaked"]
      OBVIOUS
    <3>2. kb' = [kb EXCEPT ![a] = k]
      BY <1>0, <2>3, <3>1
    <3>3. k.job = "leaked" /\ k.secret = kb[a].secret /\ k.phase = kb[a].phase /\ DOMAIN k = DOMAIN kb[a]
      BY <1>0, <3>1 DEF Objects
    <3>4. Objects(k)
      BY <1>0, <3>3 DEF Objects
    <3> QED BY <1>0, <1>4, <2>1, <2>3, <3>2, <3>3, <3>4 DEF Keeps
  <2> QED BY <1>7, <2>2, <2>3 DEF DeleteJob
<1> QED BY <1>5, <1>6, <1>7

\* The attempt is over.
LEMMA ReleaseStep ==
    ASSUME AInv, NEW a \in Attempts, Release(a)
    PROVE  AInv'
<1>0. /\ Fine(cl[a], kb[a], link[a], sv[a]) /\ Objects(kb[a]) /\ Sound(sv[a], link[a]) /\ Tidy(cl[a], kb[a])
      /\ Given(cl[a], inv[a], link[a], sv[a]) /\ cl[a].stage = "release"
      /\ link[a] \in {"none", "sent", "open", "closed"} /\ Functions
  BY DEF AInv, Fine, Release, At
<1>1. PICK e : e = [NoCall EXCEPT !.stage = "done"]
  OBVIOUS
<1>2. cl' = [cl EXCEPT ![a] = e]
  BY <1>1 DEF Release
<1>3. e.stage = "done" /\ e.cancel = FALSE /\ e.watch = "off" /\ e.box = FALSE /\ e.outcome = None
      /\ DOMAIN e = {"stage", "cancel", "watch", "box", "outcome"}
  BY <1>1 DEF NoCall
<1>4. Caller(e)
  BY <1>3 DEF Caller, Stages
<1>5. None \notin Ends
  BY DEF None, Ends
<1>6. \A s : Truthful(e, s)
  BY <1>3, <1>5 DEF Truthful, Ends
<1>7. CASE kb[a].job \in LeftOver
  <2>1. UNCHANGED <<inv, kb, link, sv>>
    BY <1>7 DEF Release
  <2>2. Tidy(e, kb[a]) /\ e.stage \notin Unopened
    BY <1>0, <1>3, <1>7 DEF Tidy, Unopened
  <2> QED BY <1>2, <1>3, <1>4, <1>6, <2>1, <2>2, QuietCallStep
<1>8. CASE kb[a].job \notin LeftOver
  <2>1. PICK k : k = [kb[a] EXCEPT !.pod = NoPod]
    OBVIOUS
  <2>2. /\ inv' = [inv EXCEPT ![a] = NoInv] /\ kb' = [kb EXCEPT ![a] = k]
        /\ link' = [link EXCEPT ![a] = "none"] /\ sv' = [sv EXCEPT ![a] = NoService]
    BY <1>0, <1>8, <2>1 DEF Release, Functions
  <2>3. k.job = kb[a].job /\ k.secret = kb[a].secret /\ k.phase = kb[a].phase /\ DOMAIN k = DOMAIN kb[a]
    BY <1>0, <2>1 DEF Objects
  <2>4. Objects(k) /\ Tidy(e, k)
    BY <1>0, <1>3, <2>3 DEF Objects, Tidy
  <2>5. Sound(NoService, "none") /\ NoService.gen = "none"
    BY NoServiceSound
  <2>6. Fine(e, k, "none", NoService)
    BY <1>4, <1>6, <2>4, <2>5 DEF Fine
  <2>7. Given(e, NoInv, "none", NoService)
    BY <1>3, <2>5 DEF Given
  <2>8. /\ Alone(a) /\ cl'[a] = e /\ kb'[a] = k /\ link'[a] = "none" /\ sv'[a] = NoService /\ inv'[a] = NoInv
    BY <1>0, <1>2, <2>2 DEF Alone, Functions
  <2> QED BY <2>6, <2>7, <2>8, AloneKeeps
<1> QED BY <1>7, <1>8

\* The API pod dies: its threads are gone and its connections closed.
LEMMA CrashStep ==
    ASSUME AInv, Crash
    PROVE  AInv'
<1>1. UNCHANGED <<inv, kb, sv>> /\ Functions
  BY DEF Crash, AInv
<1>2. ASSUME NEW a \in Attempts
      PROVE  Fine(cl'[a], kb[a], link'[a], sv[a]) /\ Given(cl'[a], inv[a], link'[a], sv[a])
  <2> DEFINE c == cl[a]
  <2>0. /\ Fine(c, kb[a], link[a], sv[a]) /\ Caller(c) /\ Objects(kb[a]) /\ Sound(sv[a], link[a]) /\ Tidy(c, kb[a])
        /\ Truthful(c, sv[a]) /\ Given(c, inv[a], link[a], sv[a]) /\ link[a] \in {"none", "sent", "open", "closed"}
    BY DEF AInv, Fine
  <2>1. PICK e : e = IF c.stage \in {"idle", "done"} THEN c ELSE [c EXCEPT !.stage = "gone", !.watch = "off", !.box = FALSE]
    OBVIOUS
  <2>2. cl'[a] = e /\ link'[a] = IF link[a] = "none" THEN "none" ELSE "closed"
    BY <2>1 DEF Crash
  <2>3. /\ e.cancel = c.cancel /\ e.outcome = c.outcome /\ DOMAIN e = DOMAIN c /\ e.watch \in {"off", "on"}
        /\ e.box \in BOOLEAN /\ (e.stage = c.stage \/ e.stage = "gone")
        /\ (e.stage = c.stage => e.stage \in {"idle", "done", "gone"})
    BY <2>0, <2>1 DEF Caller
  <2>4. Caller(e) /\ Tidy(e, kb[a]) /\ Truthful(e, sv[a])
    BY <2>0, <2>3 DEF Caller, Tidy, Truthful, Stages
  <2>5. Sound(sv[a], link'[a])
    BY <2>0, <2>2 DEF Sound
  <2>6. Fine(e, kb[a], link'[a], sv[a])
    BY <2>0, <2>2, <2>3, <2>4, <2>5 DEF Fine, Unopened
  <2>7. Given(e, inv[a], link'[a], sv[a])
    BY <2>0, <2>2, <2>3 DEF Given
  <2> QED BY <2>2, <2>6, <2>7
<1>3. Functions'
  BY <1>1 DEF Functions, Crash
<1> QED BY <1>1, <1>2, <1>3 DEF AInv

\* Every step keeps the invariant of the attempts.
LEMMA AInvStep ==
    ASSUME AInv, [Next]_vars
    PROVE  AInv'
<1>1. CASE UNCHANGED vars
  BY <1>1 DEF vars, AInv, Functions
<1>2. CASE Crash
  BY <1>2, CrashStep
<1>3. ASSUME NEW a \in Attempts, Step(a)
      PROVE  AInv'
  BY <1>3, RunStep, CallerSteps, JobSteps, ReleaseStep, ClusterSteps, ServiceSteps DEF Step
<1> QED BY <1>1, <1>2, <1>3 DEF Next

\* It holds at first.
LEMMA AInvInit == Init => AInv
<1> SUFFICES ASSUME Init, NEW a \in Attempts
             PROVE  Fine(cl[a], kb[a], link[a], sv[a]) /\ Given(cl[a], inv[a], link[a], sv[a])
  BY DEF AInv, Init, Functions
<1>1. cl[a] = NoCall /\ link[a] = "none" /\ sv[a] = NoService /\ inv[a] = NoInv
      /\ kb[a] = [job |-> "none", secret |-> FALSE, phase |-> "none", pod |-> NoPod]
  BY DEF Init
<1>2. Sound(NoService, "none") /\ NoService.gen = "none"
  BY NoServiceSound
<1>3. Caller(NoCall) /\ NoCall.stage = "idle" /\ NoCall.outcome = None /\ \A s : Truthful(NoCall, s)
  BY DEF Caller, NoCall, Stages, Truthful, None
<1>4. Objects(kb[a]) /\ kb[a].job = "none" /\ kb[a].secret = FALSE
  BY <1>1 DEF Objects
<1>5. Tidy(NoCall, kb[a])
  BY <1>3, <1>4 DEF Tidy
<1>6. Given(NoCall, NoInv, "none", NoService)
  BY <1>2, <1>3 DEF Given
<1> QED BY <1>1, <1>2, <1>3, <1>4, <1>5, <1>6 DEF Fine

-----------------------------------------------------------------------------
(* The slots *)

Holders == {a \in Attempts : cl[a].stage \in Held}

\* Every slot is free or held by one attempt, while the API pod is up; a Job is
\* there only for an attempt at work or for one whose API pod died.
SlotInv ==
    /\ template \in Templates /\ up \in {"refused", "up", "down"} /\ slots \in 0..MaxConcurrent
    /\ up = "up" => /\ IsFiniteSet(Holders) /\ Cardinality(Holders) + slots = MaxConcurrent
                    /\ \A a \in Attempts : cl[a].stage # "gone"
    /\ \A a \in Attempts : kb[a].job = "present" => cl[a].stage \in Active \cup {"gone"}

\* The stage a step leads to, of a typed record.
LEMMA StageOf ==
    ASSUME AInv, NEW a \in Attempts
    PROVE  /\ \A x : To(a, x) => cl'[a].stage = x /\ \A b \in Attempts \ {a} : cl'[b] = cl[b]
           /\ \A x, end : Leave(a, x, end) => cl'[a].stage = x /\ \A b \in Attempts \ {a} : cl'[b] = cl[b]
           /\ cl' = [cl EXCEPT ![a].stage = "posting", ![a].watch = "on"] =>
                 cl'[a].stage = "posting" /\ \A b \in Attempts \ {a} : cl'[b] = cl[b]
           /\ cl' = [cl EXCEPT ![a].stage = "reading", ![a].box = TRUE] =>
                 cl'[a].stage = "reading" /\ \A b \in Attempts \ {a} : cl'[b] = cl[b]
           /\ (cl' = [cl EXCEPT ![a].cancel = TRUE] \/ Unheard(a)) =>
                 cl'[a].stage = cl[a].stage /\ \A b \in Attempts \ {a} : cl'[b] = cl[b]
<1>1. DOMAIN cl = Attempts /\ DOMAIN cl[a] = {"stage", "cancel", "watch", "box", "outcome"}
  BY DEF AInv, Functions, Fine, Caller
<1>2. ASSUME NEW x, To(a, x) PROVE cl'[a].stage = x /\ \A b \in Attempts \ {a} : cl'[b] = cl[b]
  BY <1>1, <1>2 DEF To
<1>3. ASSUME NEW x, NEW end, Leave(a, x, end) PROVE cl'[a].stage = x /\ \A b \in Attempts \ {a} : cl'[b] = cl[b]
  BY <1>1, <1>3 DEF Leave
<1>4. cl' = [cl EXCEPT ![a].stage = "posting", ![a].watch = "on"] =>
         cl'[a].stage = "posting" /\ \A b \in Attempts \ {a} : cl'[b] = cl[b]
  BY <1>1
<1>5. cl' = [cl EXCEPT ![a].stage = "reading", ![a].box = TRUE] =>
         cl'[a].stage = "reading" /\ \A b \in Attempts \ {a} : cl'[b] = cl[b]
  BY <1>1
<1>6. (cl' = [cl EXCEPT ![a].cancel = TRUE] \/ Unheard(a)) =>
         cl'[a].stage = cl[a].stage /\ \A b \in Attempts \ {a} : cl'[b] = cl[b]
  BY <1>1 DEF Unheard
<1> QED BY <1>2, <1>3, <1>4, <1>5, <1>6

\* Which stages follow which; the slot is taken and given back at its two ends.
LEMMA StageMoves ==
    ASSUME AInv, NEW a \in Attempts, Step(a)
    PROVE  /\ \A b \in Attempts \ {a} : cl'[b] = cl[b]
           /\ \/ slots' = slots /\ (cl'[a].stage \in Held <=> cl[a].stage \in Held)
              \/ slots > 0 /\ slots' = slots - 1 /\ cl[a].stage \notin Held /\ cl'[a].stage \in Held
              \/ slots' = slots + 1 /\ cl[a].stage \in Held /\ cl'[a].stage \notin Held /\ up = "up"
           /\ cl'[a].stage # "gone" \/ cl[a].stage = "gone"
           /\ cl[a].stage \in Active => cl'[a].stage \in Active \/ kb'[a].job # "present"
           /\ UNCHANGED <<template, up>>
<1>0. DOMAIN cl = Attempts /\ DOMAIN kb = Attempts
  BY DEF AInv, Functions
<1> USE DEF Held, Active
<1>1. CASE Run(a)
  <2>1. cl[a].stage = "idle" /\ (\A b \in Attempts \ {a} : cl'[b] = cl[b]) /\ (cl'[a].stage = "done" \/ cl'[a].stage = "acquire")
    BY <1>1, StageOf, Zenon DEF Run, At
  <2>2. slots' = slots /\ UNCHANGED <<template, up>>
    BY <1>1 DEF Run, At
  <2> QED BY <2>1, <2>2
<1>2. CASE _acquire(a)
  <2>1. /\ cl[a].stage = "acquire" /\ (\A b \in Attempts \ {a} : cl'[b] = cl[b])
        /\ IF slots > 0 THEN cl'[a].stage = "start" /\ slots' = slots - 1 ELSE cl'[a].stage = "done" /\ slots' = slots
    BY <1>2, StageOf, Zenon DEF _acquire, At
  <2>2. UNCHANGED <<template, up>>
    BY <1>2 DEF _acquire
  <2> QED BY <2>1, <2>2
<1>3. CASE CreateJob(a)
  <2>1. cl[a].stage = "start" /\ (\A b \in Attempts \ {a} : cl'[b] = cl[b]) /\ (cl'[a].stage = "release" \/ cl'[a].stage = "secret")
    BY <1>3, StageOf, Zenon DEF CreateJob, At, podvars
  <2>2. slots' = slots /\ UNCHANGED <<template, up>>
    BY <1>3 DEF CreateJob, At, podvars
  <2> QED BY <2>1, <2>2
<1>4. CASE CreateSecret(a)
  <2>1. cl[a].stage = "secret" /\ (\A b \in Attempts \ {a} : cl'[b] = cl[b]) /\ (cl'[a].stage = "wait" \/ cl'[a].stage = "delete")
    BY <1>4, StageOf, Zenon DEF CreateSecret, At, podvars
  <2>2. slots' = slots /\ UNCHANGED <<template, up>>
    BY <1>4 DEF CreateSecret, At, podvars
  <2> QED BY <2>1, <2>2
<1>5. CASE _wait_ready(a)
  <2>1. cl[a].stage = "wait" /\ (\A b \in Attempts \ {a} : cl'[b] = cl[b]) /\ (cl'[a].stage = "connect" \/ cl'[a].stage = "delete")
    BY <1>5, StageOf, Zenon DEF _wait_ready, At, podvars
  <2>2. slots' = slots /\ UNCHANGED <<template, up>>
    BY <1>5 DEF _wait_ready, At, podvars
  <2> QED BY <2>1, <2>2
<1>6. CASE Connect(a)
  <2>1. cl[a].stage = "connect" /\ (\A b \in Attempts \ {a} : cl'[b] = cl[b]) /\ (cl'[a].stage = "posting" \/ cl'[a].stage = "delete")
    BY <1>6, StageOf, Zenon DEF Connect, At, podvars
  <2>2. slots' = slots /\ UNCHANGED <<template, up>>
    BY <1>6 DEF Connect, At, podvars
  <2> QED BY <2>1, <2>2
<1>7. CASE Headers(a)
  <2>1. cl[a].stage = "posting" /\ (\A b \in Attempts \ {a} : cl'[b] = cl[b]) /\ cl'[a].stage = "reading"
    BY <1>7, StageOf, Zenon DEF Headers, At, podvars
  <2>2. slots' = slots /\ UNCHANGED <<template, up>>
    BY <1>7 DEF Headers, At, podvars
  <2> QED BY <2>1, <2>2
<1>8. CASE Cancel(a) \/ watch_cancel(a)
  <2>1. cl[a].stage = cl[a].stage /\ (\A b \in Attempts \ {a} : cl'[b] = cl[b]) /\ cl'[a].stage = cl[a].stage
    BY <1>8, StageOf, Zenon DEF Cancel, watch_cancel, podvars
  <2>2. slots' = slots /\ UNCHANGED <<template, up>>
    BY <1>8 DEF Cancel, watch_cancel, podvars
  <2> QED BY <2>1, <2>2
<1>9. CASE Receive(a) \/ LostConnection(a) \/ ReadTimeout(a)
  <2>1. cl[a].stage \in {"posting", "reading"} /\ (\A b \in Attempts \ {a} : cl'[b] = cl[b]) /\ cl'[a].stage = "delete"
    BY <1>9, StageOf, Zenon DEF Receive, LostConnection, ReadTimeout, At, podvars
  <2>2. slots' = slots /\ UNCHANGED <<template, up>>
    BY <1>9 DEF Receive, LostConnection, ReadTimeout, At, podvars
  <2> QED BY <2>1, <2>2
<1>10. CASE DeleteJob(a)
  <2>1. Objects(kb[a])
    BY DEF AInv, Fine
  <2>2. kb'[a].job \in {"deleted", "leaked"}
    BY <1>0, <1>10, <2>1 DEF DeleteJob, Objects
  <2>3. cl[a].stage = "delete" /\ (\A b \in Attempts \ {a} : cl'[b] = cl[b]) /\ cl'[a].stage = "release"
    BY <1>10, StageOf, Zenon DEF DeleteJob, At
  <2>4. slots' = slots /\ UNCHANGED <<template, up>>
    BY <1>10 DEF DeleteJob, podvars
  <2> QED BY <2>2, <2>3, <2>4
<1>11. CASE Release(a)
  <2>1. cl'[a].stage = "done" /\ \A b \in Attempts \ {a} : cl'[b] = cl[b]
    BY <1>0, <1>11 DEF Release, NoCall
  <2> QED BY <1>11, <2>1 DEF Release, At
<1>12. CASE UNCHANGED <<podvars, cl>>
  BY <1>12 DEF podvars
<1> QED BY <1>1, <1>2, <1>3, <1>4, <1>5, <1>6, <1>7, <1>8, <1>9, <1>10, <1>11, <1>12
        DEF Step, PodReady, InstallFails, PodLost, Accept, Setup, Popen, ProcExit, Reap, Kill, Timeout, Stream,
            Disconnected, PutToken, WriteToken, IdleExit, ServerExit

\* A step of one attempt leaves the Jobs of the others alone.
LEMMA OthersKept ==
    ASSUME AInv, NEW a \in Attempts, Step(a)
    PROVE  \A b \in Attempts \ {a} : kb'[b] = kb[b]
<1>1. DOMAIN kb = Attempts
  BY DEF AInv, Functions
<1> QED BY <1>1 DEF Step, Run, Cancel, _acquire, CreateJob, CreateSecret, _wait_ready, Connect, Headers, watch_cancel,
       Receive, LostConnection, ReadTimeout, DeleteJob, Release, PodReady, InstallFails, PodLost, Accept, Setup, Popen,
       ProcExit, Reap, Kill, Timeout, Stream, Disconnected, PutToken, WriteToken, IdleExit, ServerExit, EndPod

\* Every step keeps the count of slots.
LEMMA SlotStep ==
    ASSUME AInv, SlotInv, [Next]_vars
    PROVE  SlotInv'
<1>0. MaxConcurrent \in Nat /\ slots \in Int
  BY SlotsAssumption DEF SlotInv
<1>1. CASE UNCHANGED vars
  <2>1. Holders' = Holders
    BY <1>1 DEF vars, Holders
  <2> QED BY <1>1, <2>1 DEF vars, SlotInv
<1>2. CASE Crash
  <2>1. up' = "down" /\ UNCHANGED <<template, slots, kb>>
    BY <1>2 DEF Crash
  <2>2. \A a \in Attempts : cl[a].stage \in Active \cup {"gone"} => cl'[a].stage \in Active \cup {"gone"}
    <3> SUFFICES ASSUME NEW a \in Attempts, cl[a].stage \in Active \cup {"gone"}
                 PROVE  cl'[a].stage = "gone"
      OBVIOUS
    <3>1. Caller(cl[a]) /\ cl[a].stage \notin {"idle", "done"}
      BY DEF AInv, Fine, Active
    <3>2. cl'[a] = [cl[a] EXCEPT !.stage = "gone", !.watch = "off", !.box = FALSE]
      BY <1>2, <3>1 DEF Crash
    <3> QED BY <3>1, <3>2 DEF Caller
  <2> QED BY <2>1, <2>2 DEF SlotInv
<1>3. ASSUME NEW a \in Attempts, Step(a)
      PROVE  SlotInv'
  <2>1. /\ \A b \in Attempts \ {a} : cl'[b] = cl[b]
        /\ cl'[a].stage # "gone" \/ cl[a].stage = "gone"
        /\ cl[a].stage \in Active => cl'[a].stage \in Active \/ kb'[a].job # "present"
        /\ UNCHANGED <<template, up>>
    BY <1>3, StageMoves
  <2>2. \A b \in Attempts : kb'[b].job = "present" => cl'[b].stage \in Active \cup {"gone"}
    <3>1. AInv'
      BY <1>3, AInvStep DEF Next
    <3>2. ASSUME NEW b \in Attempts \ {a}, kb'[b].job = "present"
          PROVE  cl'[b].stage \in Active \cup {"gone"}
      <4>1. kb'[b] = kb[b]
        BY <1>3, <3>2, OthersKept
      <4> QED BY <2>1, <3>2, <4>1 DEF SlotInv
    <3>3. ASSUME kb'[a].job = "present" PROVE cl'[a].stage \in Active \cup {"gone"}
      <4>1. Tidy(cl'[a], kb'[a]) /\ Caller(cl'[a])
        BY <3>1 DEF AInv, Fine
      <4>2. cl'[a].stage \notin {"idle", "acquire", "start", "release", "done"}
        BY <3>3, <4>1 DEF Tidy
      <4> QED BY <4>1, <4>2 DEF Caller, Stages, Active
    <3> QED BY <3>2, <3>3
  <2>3. CASE slots' = slots /\ (cl'[a].stage \in Held <=> cl[a].stage \in Held)
    <3>1. Holders' = Holders
      BY <2>1, <2>3 DEF Holders
    <3> QED BY <2>1, <2>2, <2>3, <3>1 DEF SlotInv
  <2>4. CASE slots > 0 /\ slots' = slots - 1 /\ cl[a].stage \notin Held /\ cl'[a].stage \in Held
    <3>1. Holders' = Holders \cup {a} /\ a \notin Holders
      BY <2>1, <2>4 DEF Holders
    <3>2. slots' \in 0..MaxConcurrent
      BY <1>0, <2>4 DEF SlotInv
    <3>3. up = "up" => IsFiniteSet(Holders') /\ Cardinality(Holders') + slots' = MaxConcurrent
      <4> SUFFICES ASSUME up = "up" PROVE IsFiniteSet(Holders') /\ Cardinality(Holders') + slots' = MaxConcurrent
        OBVIOUS
      <4>1. IsFiniteSet(Holders) /\ Cardinality(Holders) + slots = MaxConcurrent
        BY DEF SlotInv
      <4>2. IsFiniteSet(Holders') /\ Cardinality(Holders') = Cardinality(Holders) + 1 /\ Cardinality(Holders) \in Nat
        BY <3>1, <4>1, FS_AddElement, FS_CardinalityType
      <4> QED BY <1>0, <2>4, <4>1, <4>2
    <3> QED BY <2>1, <2>2, <3>2, <3>3 DEF SlotInv
  <2>5. CASE slots' = slots + 1 /\ cl[a].stage \in Held /\ cl'[a].stage \notin Held /\ up = "up"
    <3>1. Holders' = Holders \ {a} /\ a \in Holders
      BY <2>1, <2>5 DEF Holders
    <3>2. IsFiniteSet(Holders) /\ Cardinality(Holders) + slots = MaxConcurrent
      BY <2>5 DEF SlotInv
    <3>3. IsFiniteSet(Holders') /\ Cardinality(Holders') = Cardinality(Holders) - 1
          /\ Cardinality(Holders) \in Nat /\ Cardinality(Holders') \in Nat
      BY <3>1, <3>2, FS_RemoveElement, FS_CardinalityType
    <3>4. Cardinality(Holders') + slots' = MaxConcurrent /\ slots' \in 0..MaxConcurrent
      BY <1>0, <2>5, <3>2, <3>3 DEF SlotInv
    <3> QED BY <2>1, <2>2, <3>3, <3>4 DEF SlotInv
  <2> QED BY <1>3, <2>3, <2>4, <2>5, StageMoves
<1> QED BY <1>1, <1>2, <1>3 DEF Next

\* It is right at first.
LEMMA SlotInit == Init => SlotInv
<1> SUFFICES ASSUME Init PROVE SlotInv
  OBVIOUS
<1>1. \A a \in Attempts : cl[a].stage = "idle" /\ kb[a].job = "none"
  BY DEF Init, NoCall
<1>2. Holders = {}
  BY <1>1 DEF Holders, Held
<1>3. IsFiniteSet(Holders) /\ Cardinality(Holders) = 0
  BY <1>2, FS_EmptySet
<1>4. slots = MaxConcurrent /\ slots \in 0..MaxConcurrent /\ template \in Templates /\ up \in {"refused", "up", "down"}
  BY SlotsAssumption DEF Init
<1> QED BY <1>1, <1>3, <1>4, SlotsAssumption DEF SlotInv

\* Both hold in every reachable state.
LEMMA PodInvariant == Spec => [](AInv /\ SlotInv)
<1>1. Init => AInv /\ SlotInv
  BY AInvInit, SlotInit
<1>2. AInv /\ SlotInv /\ [Next]_vars => (AInv /\ SlotInv)'
  BY AInvStep, SlotStep
<1> QED BY <1>1, <1>2, PTL DEF Spec

-----------------------------------------------------------------------------
(* Jobs whose creation was never answered *)

\* A Job whose creation was never answered has no Secret, so its pod does not
\* start; and a service is called only over a connection.
Forgotten(c, k, l, s) ==
    /\ l = "none" => s.gen = "none"
    /\ k.job = "orphan" => /\ c.stage \in {"release", "done", "gone"}
                           /\ ~k.secret /\ k.phase \in {"pending", "ended"} /\ s.proc = "none"

OrphanInv == \A a \in Attempts : Forgotten(cl[a], kb[a], link[a], sv[a])

\* The API pod's own steps, the Job and the Secret.
LEMMA CallerForgets ==
    ASSUME AInv, OrphanInv, NEW a \in Attempts,
           \/ Run(a) \/ Cancel(a) \/ _acquire(a) \/ CreateJob(a) \/ CreateSecret(a)
           \/ _wait_ready(a) \/ Connect(a) \/ Headers(a) \/ watch_cancel(a)
           \/ Receive(a) \/ LostConnection(a) \/ ReadTimeout(a) \/ DeleteJob(a) \/ Release(a)
    PROVE  Forgotten(cl'[a], kb'[a], link'[a], sv'[a])
<1>0. /\ Functions /\ Objects(kb[a]) /\ Fine(cl[a], kb[a], link[a], sv[a]) /\ Sound(sv[a], link[a]) /\ Service(sv[a])
      /\ Forgotten(cl[a], kb[a], link[a], sv[a])
  BY DEF AInv, Fine, OrphanInv, Sound
<1>1. CASE Run(a) \/ _acquire(a) \/ _wait_ready(a) \/ Connect(a) \/ Headers(a)
           \/ Receive(a) \/ LostConnection(a) \/ ReadTimeout(a)
  <2>1. cl[a].stage \in {"idle", "acquire", "wait", "connect", "posting", "reading"}
    BY <1>1 DEF Run, _acquire, _wait_ready, Connect, Headers, Receive, LostConnection, ReadTimeout, At
  <2>2. UNCHANGED <<kb, sv>>
    BY <1>1 DEF Run, _acquire, _wait_ready, Connect, Headers, Receive, LostConnection, ReadTimeout, podvars
  <2>3. \/ link' = link
        \/ link' = [link EXCEPT ![a] = "sent"]
        \/ link' = [link EXCEPT ![a] = "closed"]
    BY <1>1 DEF Run, _acquire, _wait_ready, Connect, Headers, Receive, LostConnection, ReadTimeout, podvars
  <2>4. link'[a] = link[a] \/ link'[a] # "none"
    BY <1>0, <2>3 DEF Functions
  <2> QED BY <1>0, <2>1, <2>2, <2>4 DEF Forgotten
<1>2. CASE Cancel(a) \/ watch_cancel(a)
  <2>1. UNCHANGED <<kb, sv>> /\ (link' = link \/ link' = [link EXCEPT ![a] = "closed"])
    BY <1>2 DEF Cancel, watch_cancel, podvars
  <2>2. cl'[a].stage = cl[a].stage
    BY <1>2, StageOf, Zenon DEF Cancel, watch_cancel
  <2>3. link'[a] = link[a] \/ link'[a] # "none"
    BY <1>0, <2>1 DEF Functions
  <2> QED BY <1>0, <2>1, <2>2, <2>3 DEF Forgotten
<1>3. CASE CreateJob(a)
  <2>1. cl[a].stage = "start" /\ UNCHANGED <<link, sv>>
    BY <1>3 DEF CreateJob, At
  <2>2. link[a] = "none" /\ sv[a].gen = "none"
    BY <1>0, <2>1 DEF Fine, Unopened, Forgotten
  <2>3. sv[a].proc = "none"
    BY <1>0, <2>2 DEF Sound
  <2>4. CASE UNCHANGED kb
    BY <1>0, <2>1, <2>4 DEF Forgotten
  <2>5. CASE ~UNCHANGED kb
    <3>1. PICK w, job : /\ kb' = [kb EXCEPT ![a] = [job |-> job, secret |-> FALSE, phase |-> "pending",
                                                    pod |-> _job(template, inv[a], w)]]
                        /\ job = "present" \/ (job = "orphan" /\ Leave(a, "release", "failed"))
      BY <1>3, <2>5 DEF CreateJob
    <3>2. kb'[a].job = job /\ ~kb'[a].secret /\ kb'[a].phase = "pending"
      BY <1>0, <3>1 DEF Functions
    <3>3. job = "orphan" => cl'[a].stage = "release"
      BY <3>1, StageOf, Zenon
    <3>4. job # "orphan" \/ cl'[a].stage = "release"
      BY <3>3
    <3> QED BY <2>1, <2>2, <2>3, <3>2, <3>4 DEF Forgotten
  <2> QED BY <2>4, <2>5
<1>4. CASE CreateSecret(a)
  <2>1. cl[a].stage = "secret" /\ UNCHANGED <<link, sv>> /\ (kb' = kb \/ kb' = [kb EXCEPT ![a].secret = TRUE])
    BY <1>4 DEF CreateSecret, At
  <2>2. kb'[a].job = kb[a].job
    BY <1>0, <2>1 DEF Functions, Objects
  <2> QED BY <1>0, <2>1, <2>2 DEF Forgotten
<1>5. CASE DeleteJob(a)
  <2>1. /\ cl[a].stage = "delete" /\ link' = link
        /\ \/ kb' = [kb EXCEPT ![a].job = "deleted", ![a].secret = FALSE, ![a].phase = "ended"]
           \/ kb' = [kb EXCEPT ![a].job = "leaked"]
        /\ sv' = sv \/ sv' = [sv EXCEPT ![a] = Dead(sv[a])]
    BY <1>0, <1>5 DEF DeleteJob, At, Functions
  <2>2. kb'[a].job # "orphan"
    BY <1>0, <2>1 DEF Functions, Objects
  <2>3. sv[a].gen = "none" => Dead(sv[a]).gen = "none"
    BY <1>0 DEF Dead, Service
  <2>4. sv'[a] = sv[a] \/ sv'[a] = Dead(sv[a])
    BY <1>0, <2>1 DEF Functions
  <2> QED BY <1>0, <2>1, <2>2, <2>3, <2>4 DEF Forgotten
<1>6. CASE Release(a)
  <2>1. cl'[a].stage = "done"
    BY <1>0, <1>6 DEF Release, Functions, NoCall
  <2>2. CASE kb[a].job \in LeftOver
    <3>1. UNCHANGED <<kb, link, sv>>
      BY <1>6, <2>2 DEF Release
    <3> QED BY <1>0, <2>1, <3>1 DEF Forgotten
  <2>3. CASE kb[a].job \notin LeftOver
    <3>1. kb' = [kb EXCEPT ![a].pod = NoPod] /\ sv' = [sv EXCEPT ![a] = NoService]
      BY <1>6, <2>3 DEF Release
    <3>2. kb'[a].job = kb[a].job /\ sv'[a] = NoService
      BY <1>0, <3>1 DEF Functions, Objects
    <3>3. kb'[a].job # "orphan"
      BY <2>3, <3>2 DEF LeftOver
    <3> QED BY <3>2, <3>3, NoServiceSound DEF Forgotten
  <2> QED BY <2>2, <2>3
<1> QED BY <1>1, <1>2, <1>3, <1>4, <1>5, <1>6

\* The cluster and the pod.
LEMMA PodForgets ==
    ASSUME AInv, OrphanInv, NEW a \in Attempts,
           \/ PodReady(a) \/ InstallFails(a) \/ PodLost(a) \/ ServerExit(a)
           \/ Accept(a) \/ Setup(a) \/ Popen(a) \/ ProcExit(a) \/ Reap(a) \/ Kill(a) \/ Timeout(a)
           \/ Stream(a) \/ Disconnected(a) \/ PutToken(a) \/ WriteToken(a) \/ IdleExit(a)
    PROVE  Forgotten(cl'[a], kb'[a], link'[a], sv'[a])
<1>0. /\ Functions /\ Objects(kb[a]) /\ Service(sv[a]) /\ Forgotten(cl[a], kb[a], link[a], sv[a])
  BY DEF AInv, Fine, OrphanInv, Sound
<1>1. CASE PodReady(a)
  <2>1. kb[a].secret /\ UNCHANGED <<cl, link, sv>>
    BY <1>1 DEF PodReady
  <2>2. kb'[a].job = kb[a].job
    <3>1. PICK v : kb' = [kb EXCEPT ![a].phase = "ready", ![a].pod.packages = v]
      BY <1>1 DEF PodReady
    <3> QED BY <1>0, <3>1 DEF Functions, Objects
  <2> QED BY <1>0, <2>1, <2>2 DEF Forgotten
<1>2. CASE EndPod(a) /\ UNCHANGED <<cl, link>>
  <2>1. kb' = [kb EXCEPT ![a].phase = "ended"] /\ sv' = [sv EXCEPT ![a] = Dead(sv[a])]
    BY <1>0, <1>2 DEF EndPod, Functions
  <2>2. kb'[a].job = kb[a].job /\ kb'[a].secret = kb[a].secret /\ kb'[a].phase = "ended" /\ sv'[a] = Dead(sv[a])
    BY <1>0, <2>1 DEF Functions, Objects
  <2>3. /\ sv[a].gen = "none" => Dead(sv[a]).gen = "none"
        /\ sv[a].proc = "none" => Dead(sv[a]).proc = "none"
    BY <1>0 DEF Dead, Service
  <2> QED BY <1>0, <1>2, <2>2, <2>3 DEF Forgotten
<1>3. CASE \/ Accept(a) \/ Setup(a) \/ Popen(a) \/ ProcExit(a) \/ Reap(a) \/ Kill(a) \/ Timeout(a)
           \/ Stream(a) \/ Disconnected(a) \/ PutToken(a) \/ WriteToken(a) \/ IdleExit(a)
  <2>1. kb[a].phase = "ready" \/ sv[a].proc = "running"
    BY <1>3 DEF Accept, Setup, Popen, ProcExit, Reap, Kill, Timeout, Stream, Disconnected, PutToken, WriteToken, IdleExit, InPod
  <2>2. UNCHANGED kb
    BY <1>3 DEF Accept, Setup, Popen, ProcExit, Reap, Kill, Timeout, Stream, Disconnected, PutToken, WriteToken, IdleExit
  <2>3. kb[a].job # "orphan"
    BY <1>0, <2>1 DEF Forgotten
  <2>4. link'[a] = "none" => sv'[a].gen = "none"
    <3>1. CASE Accept(a)
      <4>1. link' = [link EXCEPT ![a] = IF link[a] = "sent" THEN "open" ELSE link[a]] /\ link[a] # "none"
        BY <1>0, <3>1 DEF Accept, Functions
      <4> QED BY <1>0, <4>1 DEF Functions
    <3>2. CASE Stream(a) \/ Disconnected(a)
      <4>1. link' = link /\ sv[a].gen = "on"
        BY <3>2 DEF Stream, Disconnected
      <4> QED BY <1>0, <4>1 DEF Forgotten
    <3>3. CASE \/ Setup(a) \/ Popen(a) \/ ProcExit(a) \/ Reap(a) \/ Kill(a) \/ Timeout(a)
               \/ PutToken(a) \/ WriteToken(a) \/ IdleExit(a)
      <4>1. link' = link
        BY <3>3 DEF Setup, Popen, ProcExit, Reap, Kill, Timeout, PutToken, WriteToken, IdleExit
      <4>2. sv'[a].gen = sv[a].gen
        <5>1. CASE Setup(a)
          <6>1. PICK d : d = [sv[a] EXCEPT !.work = "waiting", !.token = inv[a].access,
                               !.shared = inv[a].access /\ Main(kb[a].pod).shared_token_file]
            OBVIOUS
          <6>2. sv'[a] \in {Say(sv[a], "canceled"), Say(sv[a], "failed"), d}
            BY <1>0, <5>1, <6>1 DEF Setup, Functions
          <6>3. d.gen = sv[a].gen /\ \A e : Say(sv[a], e).gen = sv[a].gen
            BY <1>0, <6>1 DEF Say, Service
          <6> QED BY <6>2, <6>3
        <5>2. CASE Reap(a)
          <6>1. sv'[a] = Say(sv[a], Result(sv[a].proc))
            BY <1>0, <5>2 DEF Reap, Functions
          <6> QED BY <1>0, <6>1 DEF Say, Service
        <5>3. CASE Kill(a) \/ Timeout(a)
          <6>1. PICK k : k = [sv[a] EXCEPT !.proc = "killed"]
            OBVIOUS
          <6>2. DOMAIN k = DOMAIN sv[a] /\ k.gen = sv[a].gen
            BY <1>0, <6>1 DEF Service
          <6>3. sv'[a] \in {Say(k, "canceled"), Say(k, "failed")}
            BY <1>0, <5>3, <6>1 DEF Kill, Timeout, Functions
          <6>4. \A e : Say(k, e).gen = k.gen
            BY <1>0, <6>2 DEF Say, Service
          <6> QED BY <6>2, <6>3, <6>4
        <5>4. CASE Popen(a)
          BY <1>0, <5>4 DEF Popen, Functions, Service
        <5>5. CASE ProcExit(a) \/ PutToken(a) \/ IdleExit(a)
          BY <1>0, <5>5 DEF ProcExit, PutToken, IdleExit, Functions, Service
        <5>6. CASE WriteToken(a)
          <6>1. PICK y : sv' = [sv EXCEPT ![a].put = FALSE, ![a].shared = y]
            BY <5>6 DEF WriteToken
          <6> QED BY <1>0, <6>1 DEF Functions, Service
        <5> QED BY <3>3, <5>1, <5>2, <5>3, <5>4, <5>5, <5>6
      <4> QED BY <1>0, <4>1, <4>2 DEF Forgotten
    <3> QED BY <1>3, <3>1, <3>2, <3>3
  <2> QED BY <2>2, <2>3, <2>4 DEF Forgotten
<1>4. CASE InstallFails(a) \/ PodLost(a) \/ ServerExit(a)
  BY <1>2, <1>4 DEF InstallFails, PodLost, ServerExit
<1> QED BY <1>1, <1>3, <1>4

\* Every step leaves them where they are.
LEMMA OrphanStep ==
    ASSUME AInv, OrphanInv, [Next]_vars
    PROVE  OrphanInv'
<1>1. CASE UNCHANGED vars
  BY <1>1 DEF vars, OrphanInv
<1>2. CASE Crash
  <2> SUFFICES ASSUME NEW a \in Attempts PROVE Forgotten(cl'[a], kb'[a], link'[a], sv'[a])
    BY DEF OrphanInv
  <2>1. UNCHANGED <<kb, sv>> /\ (link'[a] = "none" <=> link[a] = "none")
    BY <1>2 DEF Crash
  <2>2. Caller(cl[a]) /\ Forgotten(cl[a], kb[a], link[a], sv[a])
    BY DEF AInv, Fine, OrphanInv
  <2>3. cl'[a].stage \in {cl[a].stage, "gone"}
    BY <1>2, <2>2 DEF Crash, Caller
  <2> QED BY <2>1, <2>2, <2>3 DEF Forgotten
<1>3. ASSUME NEW a \in Attempts, Step(a)
      PROVE  OrphanInv'
  <2>1. Forgotten(cl'[a], kb'[a], link'[a], sv'[a])
    BY <1>3, CallerForgets, PodForgets DEF Step
  <2>2. \A b \in Attempts \ {a} : cl'[b] = cl[b] /\ kb'[b] = kb[b]
    BY <1>3, StageMoves, OthersKept
  <2>3. \A b \in Attempts \ {a} : link'[b] = link[b] /\ sv'[b] = sv[b]
    <3>1. DOMAIN link = Attempts /\ DOMAIN sv = Attempts
      BY DEF AInv, Functions
    <3> QED BY <1>3, <3>1 DEF Step, Run, Cancel, _acquire, CreateJob, CreateSecret, _wait_ready, Connect, Headers,
         watch_cancel, Receive, LostConnection, ReadTimeout, DeleteJob, Release, PodReady, InstallFails, PodLost, Accept,
         Setup, Popen, ProcExit, Reap, Kill, Timeout, Stream, Disconnected, PutToken, WriteToken, IdleExit, ServerExit,
         EndPod
  <2> QED BY <2>1, <2>2, <2>3 DEF OrphanInv
<1> QED BY <1>1, <1>2, <1>3 DEF Next

\* There are none at first.
LEMMA OrphanInit == Init => OrphanInv
<1> SUFFICES ASSUME Init, NEW a \in Attempts PROVE Forgotten(cl[a], kb[a], link[a], sv[a])
  BY DEF OrphanInv
<1>1. sv[a] = NoService /\ kb[a].job = "none"
  BY DEF Init
<1> QED BY <1>1, NoServiceSound DEF Forgotten

-----------------------------------------------------------------------------
(* Theorems *)

\* An attempt that is over leaves no Job and no Secret, whichever way it left
\* _run_in_job, but for a Job the API server refused to delete and one whose
\* creation it never answered, which nothing can run in; and so, apart from
\* those, runner.maxConcurrent bounds the Jobs outstanding (NothingLeftBehind).
THEOREM PodsAreCleanedUp == Spec => []NothingLeftBehind
<1>1. AInv /\ SlotInv /\ OrphanInv => NothingLeftBehind
  <2> SUFFICES ASSUME AInv, SlotInv, OrphanInv PROVE NothingLeftBehind
    OBVIOUS
  <2>0. \A a \in Attempts : kb[a].job = "orphan" =>
           ~kb[a].secret /\ kb[a].phase \in {"pending", "ended"} /\ sv[a].proc = "none"
    BY DEF OrphanInv, Forgotten
  <2>1. \A a \in Attempts : cl[a].stage \in {"release", "done"} =>
           kb[a].job # "present" /\ (kb[a].secret => kb[a].job = "leaked")
    BY DEF AInv, Fine, Tidy
  <2>2. ASSUME up = "up"
        PROVE  Cardinality({a \in Attempts : kb[a].job = "present"}) <= MaxConcurrent
    <3> DEFINE P == {a \in Attempts : kb[a].job = "present"}
    <3>1. P \subseteq Holders
      BY <2>2 DEF SlotInv, Holders, Active, Held
    <3>2. IsFiniteSet(Holders) /\ Cardinality(Holders) + slots = MaxConcurrent /\ slots \in 0..MaxConcurrent
      BY <2>2 DEF SlotInv
    <3>3. IsFiniteSet(P) /\ Cardinality(P) <= Cardinality(Holders)
      BY <3>1, <3>2, FS_Subset
    <3>4. Cardinality(P) \in Nat /\ Cardinality(Holders) \in Nat
      BY <3>2, <3>3, FS_CardinalityType
    <3> HIDE DEF P
    <3>5. Cardinality(P) <= MaxConcurrent
      BY <3>2, <3>3, <3>4, SlotsAssumption
    <3> QED BY <3>5 DEF P
  <2> QED BY <2>0, <2>1, <2>2 DEF NothingLeftBehind
<1>2. Init => AInv /\ SlotInv /\ OrphanInv
  BY AInvInit, SlotInit, OrphanInit
<1>3. AInv /\ SlotInv /\ OrphanInv /\ [Next]_vars => (AInv /\ SlotInv /\ OrphanInv)'
  BY AInvStep, SlotStep, OrphanStep
<1> QED BY <1>1, <1>2, <1>3, PTL DEF Spec

\* What the engine is told is what happened in the pod, however the hang-up, the
\* result on the wire and the end of the pod fall (OutcomeIsTheTasks).
THEOREM OutcomesAreTrue == Spec => []OutcomeIsTheTasks
<1>1. AInv /\ SlotInv => OutcomeIsTheTasks
  <2> SUFFICES ASSUME AInv, SlotInv PROVE OutcomeIsTheTasks
    OBVIOUS
  <2>1. \A a \in Attempts : inv[a] # NoInv => inv[a] = Invocation(inv[a].of) /\ Savable(inv[a].of)
    <3> SUFFICES ASSUME NEW a \in Attempts, inv[a] # NoInv
                 PROVE  inv[a] = Invocation(inv[a].of) /\ Savable(inv[a].of)
      OBVIOUS
    <3>1. PICK c : inv[a] = Invocation(c) /\ Savable(c)
      BY DEF AInv, Given, Saved
    <3>2. inv[a].of = c
      BY <3>1 DEF Invocation
    <3> QED BY <3>1, <3>2
  <2>2. ASSUME NEW a \in Attempts
        PROVE  /\ cl[a].stage \in Stages
               /\ cl[a].cancel \in BOOLEAN /\ cl[a].box \in BOOLEAN
               /\ cl[a].watch \in {"off", "on"}
               /\ cl[a].outcome \in Ends \cup {None}
               /\ kb[a].job \in {"none", "present", "deleted"} \cup LeftOver
               /\ kb[a].secret \in BOOLEAN
               /\ kb[a].phase \in {"none", "pending", "ready", "ended"}
               /\ link[a] \in {"none", "sent", "open", "closed"}
    BY <2>2 DEF AInv, Fine, Caller, Objects, LeftOver
  <2>3. ASSUME NEW a \in Attempts PROVE Service(sv[a])
    BY <2>3 DEF AInv, Fine, Sound
  <2>4. (\A q \in Queues : Len(q) <= 2) /\ (\A w \in Wires : Len(w) <= 1)
    BY DEF Queues, Wires
  <2>5. TypeOK
    BY <2>1, <2>2, <2>3, <2>4 DEF TypeOK, SlotInv, Service
  <2>6. \A a \in Attempts : Truthful(cl[a], sv[a])
    BY DEF AInv, Fine
  <2> QED BY <2>5, <2>6 DEF OutcomeIsTheTasks, Truthful
<1> QED BY <1>1, PodInvariant, PTL

-----------------------------------------------------------------------------
(* What a saved configuration gives its process *)

\* With distinct keys a dict holds every pair it is filled from.
LEMMA DictHolds ==
    ASSUME NEW f, DOMAIN f \subseteq Nat, \A i, j \in DOMAIN f : i # j => f[i][1] # f[j][1]
    PROVE  /\ DOMAIN Dict(f) = {f[i][1] : i \in DOMAIN f}
           /\ \A i \in DOMAIN f : Dict(f)[f[i][1]] = f[i][2]
<1>1. DOMAIN Dict(f) = {f[i][1] : i \in DOMAIN f}
  BY DEF Dict
<1>2. ASSUME NEW i \in DOMAIN f PROVE Dict(f)[f[i][1]] = f[i][2]
  <2> DEFINE k == f[i][1]
             M == {j \in DOMAIN f : f[j][1] = k}
  <2>1. M = {i}
    OBVIOUS
  <2>2. i >= i
    OBVIOUS
  <2> HIDE DEF M
  <2>3. Max(M) = i
    BY <2>1, <2>2 DEF Max
  <2>4. Dict(f)[k] = f[Max(M)][2]
    BY DEF Dict, M
  <2> QED BY <2>3, <2>4
<1> QED BY <1>1, <1>2

\* The secrets of a saved configuration, in the variables they name and in no
\* variable that the runner sets.
LEMMA SecretsListed ==
    ASSUME NEW c, TaskConfig(c), validate_task_config(c, Runners, SavedImages), NEW i, i = Invocation(c)
    PROVE  /\ \A j \in DOMAIN c.secrets : /\ c.secrets[j].env \in DOMAIN i.env
                                          /\ i.env[c.secrets[j].env] = c.secrets[j].name
                                          /\ c.secrets[j].env \notin RESERVED_ENV
           /\ \A n \in DOMAIN i.env : \E j \in DOMAIN c.secrets : n = c.secrets[j].env
<1> DEFINE f == [j \in DOMAIN c.secrets |-> <<c.secrets[j].env, c.secrets[j].name>>]
<1>1. i.env = Dict(f)
  BY DEF Invocation
<1>2. DOMAIN f = DOMAIN c.secrets /\ DOMAIN f \subseteq Nat
  BY DEF TaskConfig
<1>3. \A j \in DOMAIN c.secrets : f[j][1] = c.secrets[j].env /\ f[j][2] = c.secrets[j].name
  OBVIOUS
<1>4. ASSUME NEW j \in DOMAIN c.secrets PROVE check_task_secrets(c)
  <2>1. c.secrets # <<>>
    BY <1>4
  <2> QED BY <2>1 DEF validate_task_config
<1>5. \A j, k \in DOMAIN c.secrets : j # k => c.secrets[j].env # c.secrets[k].env
  BY <1>4 DEF check_task_secrets, Distinct
<1>6. \A j \in DOMAIN c.secrets : c.secrets[j].env \notin RESERVED_ENV
  BY <1>4 DEF check_task_secrets
<1> HIDE DEF f
<1>7. \A j, k \in DOMAIN f : j # k => f[j][1] # f[k][1]
  BY <1>2, <1>3, <1>5
<1>8. /\ DOMAIN Dict(f) = {f[j][1] : j \in DOMAIN f}
      /\ \A j \in DOMAIN f : Dict(f)[f[j][1]] = f[j][2]
  BY <1>2, <1>7, DictHolds
<1> QED BY <1>1, <1>2, <1>3, <1>6, <1>8

\* Its modules, under names that hide nothing.
LEMMA ModulesListed ==
    ASSUME NEW c, TaskConfig(c), validate_task_config(c, Runners, SavedImages), NEW i, i = Invocation(c)
    PROVE  /\ \A j \in DOMAIN c.modules : /\ c.modules[j].name \in DOMAIN i.modules
                                          /\ i.modules[c.modules[j].name] = c.modules[j].entry
                                          /\ c.modules[j].name \notin Shadowing
           /\ \A n \in DOMAIN i.modules : \E j \in DOMAIN c.modules : n = c.modules[j].name
<1> DEFINE f == [j \in DOMAIN c.modules |-> <<c.modules[j].name, c.modules[j].entry>>]
<1>1. i.modules = Dict(f)
  BY DEF Invocation
<1>2. DOMAIN f = DOMAIN c.modules /\ DOMAIN f \subseteq Nat
  BY DEF TaskConfig
<1>3. \A j \in DOMAIN c.modules : f[j][1] = c.modules[j].name /\ f[j][2] = c.modules[j].entry
  OBVIOUS
<1>4. ASSUME NEW j \in DOMAIN c.modules PROVE check_modules(c)
  <2>1. c.modules # <<>>
    BY <1>4
  <2> QED BY <2>1 DEF validate_task_config
<1>5. \A j, k \in DOMAIN c.modules : j # k => c.modules[j].name # c.modules[k].name
  BY <1>4 DEF check_modules, Distinct
<1>6. \A j \in DOMAIN c.modules : c.modules[j].name \notin Shadowing
  BY <1>4 DEF check_modules
<1> HIDE DEF f
<1>7. \A j, k \in DOMAIN f : j # k => f[j][1] # f[k][1]
  BY <1>2, <1>3, <1>5
<1>8. /\ DOMAIN Dict(f) = {f[j][1] : j \in DOMAIN f}
      /\ \A j \in DOMAIN f : Dict(f)[f[j][1]] = f[j][2]
  BY <1>2, <1>7, DictHolds
<1> QED BY <1>1, <1>2, <1>3, <1>6, <1>8

\* A process has what its configuration lists: every secret in its variable,
\* every module under its name, and nothing that the runner sets or Python
\* needs is hidden (GivenAsListed: validate_task_config, _env, _harness.main).
THEOREM TasksGetWhatTheyList == Spec => []GivenAsListed
<1>1. AInv => GivenAsListed
  <2> SUFFICES ASSUME AInv, NEW a \in Attempts, sv[a].proc = "running"
               PROVE  LET c   == inv[a].of
                          m   == Main(kb[a].pod)
                          env == _env(inv[a], m)
                      IN  /\ \A j \in DOMAIN c.secrets : env[c.secrets[j].env] = c.secrets[j].name
                          /\ \A j \in DOMAIN c.modules : Imports(inv[a], c.modules[j].name) = c.modules[j].entry
                          /\ \A n \in Shadowing \ {"task"} : Imports(inv[a], n) = "image"
                          /\ \A n \in m.task_env \cup {"HOME"} : env[n] = "runner"
                          /\ c.spark => c.access /\ inv[a].requirements = FALSE
    BY DEF GivenAsListed
  <2>1. sv[a].gen # "none"
    BY DEF AInv, Fine, Sound, Service
  <2>2. PICK c : /\ inv[a] = Invocation(c) /\ TaskConfig(c) /\ Savable(c)
                 /\ _spark_always_has_platform_access(c) = c
    BY <2>1 DEF AInv, Given, Saved
  <2>3. inv[a].of = c
    BY <2>2 DEF Invocation
  <2>4. validate_task_config(c, Runners, SavedImages)
    BY <2>2 DEF Savable
  <2>5. PICK i : i = inv[a]
    OBVIOUS
  <2>6. PICK m : m = Main(kb[a].pod)
    OBVIOUS
  <2> DEFINE runner == m.task_env
                  \cup (IF i.requirements /\ m.site_dir THEN {"PYTHONPATH"} ELSE {})
                  \cup (IF i.access THEN {"BOOTH_TOKEN_FILE"} ELSE {})
                  \cup {"HOME"}
             env == _env(i, m)
  <2>7. m.task_env \subseteq {DATABASE, AWS}
    BY <2>6 DEF Main
  <2>8. runner \subseteq RESERVED_ENV
    BY <2>7 DEF RESERVED_ENV, DATABASE, AWS
  <2>9. env = [n \in runner \cup DOMAIN i.env |-> IF n \in runner THEN "runner" ELSE i.env[n]]
    BY DEF _env
  <2>10. m.task_env \cup {"HOME"} \subseteq runner
    OBVIOUS
  <2> HIDE DEF runner, env
  <2>11. \A j \in DOMAIN c.secrets : env[c.secrets[j].env] = c.secrets[j].name
    <3>1. \A j \in DOMAIN c.secrets : /\ c.secrets[j].env \in DOMAIN i.env
                                      /\ i.env[c.secrets[j].env] = c.secrets[j].name
                                      /\ c.secrets[j].env \notin RESERVED_ENV
      BY <2>2, <2>4, <2>5, SecretsListed
    <3> QED BY <2>8, <2>9, <3>1
  <2>12. /\ \A j \in DOMAIN c.modules : /\ c.modules[j].name \in DOMAIN i.modules
                                        /\ i.modules[c.modules[j].name] = c.modules[j].entry
                                        /\ c.modules[j].name \notin Shadowing
         /\ \A n \in DOMAIN i.modules : \E j \in DOMAIN c.modules : n = c.modules[j].name
    BY <2>2, <2>4, <2>5, ModulesListed
  <2>13. \A j \in DOMAIN c.modules : Imports(i, c.modules[j].name) = c.modules[j].entry
    BY <2>12 DEF Imports, Shadowing
  <2>14. \A n \in Shadowing \ {"task"} : Imports(i, n) = "image"
    BY <2>12 DEF Imports
  <2>15. \A n \in m.task_env \cup {"HOME"} : env[n] = "runner"
    BY <2>9, <2>10
  <2>16. c.spark => c.access /\ i.requirements = FALSE
    <3> SUFFICES ASSUME c.spark PROVE c.access /\ i.requirements = FALSE
      OBVIOUS
    <3>1. c.runner = SPARK_RUNNER /\ validate_spark_task(c)
      BY <2>4 DEF validate_task_config
    <3>2. c.requirements = <<>>
      BY <3>1 DEF validate_spark_task
    <3>3. i.requirements = (c.requirements # <<>>)
      BY <2>2, <2>5 DEF Invocation
    <3>4. [c EXCEPT !.access = (c.access \/ c.runner = SPARK_RUNNER)].access = (c.access \/ c.runner = SPARK_RUNNER)
      BY <2>2 DEF TaskConfig
    <3>5. c.access = (c.access \/ c.runner = SPARK_RUNNER)
      BY <2>2, <3>4 DEF _spark_always_has_platform_access
    <3>6. c.access
      BY <3>1, <3>5
    <3> QED BY <3>2, <3>3, <3>6
  <2> QED BY <2>3, <2>5, <2>6, <2>11, <2>13, <2>14, <2>15, <2>16 DEF env
<1> QED BY <1>1, PodInvariant, PTL


-----------------------------------------------------------------------------
(* What a task's pod is made of *)

\* Every non-empty set of naturals has a least member.
LEMMA LeastMember ==
    ASSUME NEW T \in SUBSET Nat, T # {}
    PROVE  \E m \in T : \A k \in T : m <= k
<1> DEFINE R == OpToRel(<, Nat)
<1>1. IsWellFoundedOn(R, Nat)
  BY NatLessThanWellFounded
<1>2. \A k, m \in Nat : k < m => <<k, m>> \in R
  BY DEF OpToRel
<1> HIDE DEF R
<1>3. PICK m \in T : \A k \in T : ~(<<k, m>> \in R)
  BY <1>1, WFMin
<1>4. ASSUME NEW k \in T PROVE m <= k
  <2>1. k \in Nat /\ m \in Nat /\ <<k, m>> \notin R
    BY <1>3
  <2>2. ~(k < m)
    BY <1>2, <2>1
  <2> QED BY <2>1, <2>2
<1> QED BY <1>4

\* The containers kept up to the i-th: the table that Only builds.
OnlyTo(kept, init, names, N) ==
    kept = [i \in 0..N |-> IF i = 0 THEN <<>>
                           ELSE IF init[i].name \in names THEN kept[i - 1] \o <<init[i]>> ELSE kept[i - 1]]

LEMMA OnlyExists ==
    ASSUME NEW init, NEW names, NEW N \in Nat
    PROVE  \E kept : OnlyTo(kept, init, names, N)
<1> DEFINE Bad == {n \in Nat : ~\E kept : OnlyTo(kept, init, names, n)}
<1>1. ASSUME Bad # {} PROVE FALSE
  <2>1. PICK n \in Bad : \A k \in Bad : n <= k
    BY <1>1, LeastMember
  <2>2. n \in Nat /\ ~\E kept : OnlyTo(kept, init, names, n)
    BY <2>1
  <2>3. CASE n = 0
    <3>1. PICK f : f = [k \in 0..0 |-> <<>>]
      OBVIOUS
    <3>2. \A k \in 0..0 : k = 0
      OBVIOUS
    <3>3. OnlyTo(f, init, names, 0)
      BY <3>1, <3>2 DEF OnlyTo
    <3> QED BY <2>2, <2>3, <3>3
  <2>4. CASE n # 0
    <3>1. n - 1 \in Nat /\ n - 1 \notin Bad
      BY <2>1, <2>2, <2>4
    <3>2. PICK r : OnlyTo(r, init, names, n - 1)
      BY <3>1
    <3>3. PICK last : last = IF init[n].name \in names THEN r[n - 1] \o <<init[n]>> ELSE r[n - 1]
      OBVIOUS
    <3>4. PICK f : f = [k \in 0..n |-> IF k = n THEN last ELSE r[k]]
      OBVIOUS
    <3>5. \A k \in 0..(n - 1) : k \in 0..n /\ k # n /\ f[k] = r[k]
      BY <2>2, <3>4
    <3>6. ASSUME NEW k \in 0..n
          PROVE  f[k] = IF k = 0 THEN <<>>
                        ELSE IF init[k].name \in names THEN f[k - 1] \o <<init[k]>> ELSE f[k - 1]
      <4>1. k # 0 => k - 1 \in 0..(n - 1)
        BY <2>2
      <4>2. k # 0 => f[k - 1] = r[k - 1]
        BY <3>5, <4>1
      <4>3. CASE k = n
        BY <2>4, <3>3, <3>4, <4>2, <4>3
      <4>4. CASE k # n
        <5>1. k \in 0..(n - 1) /\ f[k] = r[k]
          BY <2>2, <3>5, <4>4
        <5>2. r[k] = IF k = 0 THEN <<>>
                     ELSE IF init[k].name \in names THEN r[k - 1] \o <<init[k]>> ELSE r[k - 1]
          BY <3>2, <5>1 DEF OnlyTo
        <5> QED BY <4>2, <5>1, <5>2
      <4> QED BY <4>3, <4>4
    <3>7. f = [k \in 0..n |-> f[k]]
      BY <3>4
    <3>8. OnlyTo(f, init, names, n)
      BY <3>6, <3>7 DEF OnlyTo
    <3> QED BY <2>2, <3>8
  <2> QED BY <2>3, <2>4
<1> QED BY <1>1

\* Only keeps the containers with these names, and the first one first.
LEMMA OnlyKeeps ==
    ASSUME NEW T, NEW init \in Seq(T), NEW names
    PROVE  /\ Only(init, names) \in Seq(T)
           /\ Names(Only(init, names)) = Names(init) \cap names
           /\ init # <<>> /\ init[1].name \in names => Only(init, names)[1] = init[1]
<1>1. PICK N \in Nat : N = Len(init) /\ DOMAIN init = 1..N
  OBVIOUS
<1>2. PICK f : OnlyTo(f, init, names, N)
  BY OnlyExists
<1>3. PICK kept : kept = CHOOSE r : OnlyTo(r, init, names, N)
  OBVIOUS
<1>4. OnlyTo(kept, init, names, N)
  BY <1>2, <1>3
<1>5. Only(init, names) = kept[N]
  BY <1>1, <1>3 DEF Only, OnlyTo
<1>6. \A i \in 0..N : kept[i] = IF i = 0 THEN <<>>
                                ELSE IF init[i].name \in names THEN kept[i - 1] \o <<init[i]>> ELSE kept[i - 1]
  BY <1>4 DEF OnlyTo
<1> DEFINE Right(n) == /\ kept[n] \in Seq(T)
                       /\ \A i \in 1..Len(kept[n]) : kept[n][i].name \in names /\ kept[n][i].name \in Names(init)
                       /\ \A j \in 1..n : init[j].name \in names => \E i \in 1..Len(kept[n]) : kept[n][i].name = init[j].name
                       /\ n >= 1 /\ init[1].name \in names => Len(kept[n]) >= 1 /\ kept[n][1] = init[1]
           Bad == {n \in Nat : n <= N /\ ~Right(n)}
<1>7. ASSUME Bad # {} PROVE FALSE
  <2>1. PICK n \in Bad : \A k \in Bad : n <= k
    BY <1>7, LeastMember
  <2>2. n \in 0..N /\ n \in Nat /\ ~Right(n) /\ \A k \in Nat : k < n => Right(k)
    BY <1>1, <2>1
  <2>3. CASE n = 0
    <3>1. kept[0] = <<>> /\ Len(<<>>) = 0
      BY <1>6, <2>2, <2>3
    <3> QED BY <2>2, <2>3, <3>1
  <2>4. CASE n # 0
    <3>1. n - 1 \in Nat /\ n - 1 < n /\ n \in 1..N
      BY <2>2, <2>4
    <3>2. PICK r : r = kept[n - 1]
      OBVIOUS
    <3>3. /\ r \in Seq(T)
          /\ \A i \in 1..Len(r) : r[i].name \in names /\ r[i].name \in Names(init)
          /\ \A j \in 1..(n - 1) : init[j].name \in names => \E i \in 1..Len(r) : r[i].name = init[j].name
          /\ n - 1 >= 1 /\ init[1].name \in names => Len(r) >= 1 /\ r[1] = init[1]
      BY <2>2, <3>1, <3>2
    <3>4. PICK c \in T : c = init[n]
      BY <1>1, <3>1
    <3>5. \A j \in 1..n : j = n \/ j \in 1..(n - 1)
      BY <3>1
    <3>6. n = 1 \/ n - 1 >= 1
      BY <3>1
    <3>7. CASE c.name \notin names
      <4>1. kept[n] = r
        BY <1>6, <2>2, <2>4, <3>2, <3>4, <3>7
      <4>2. Right(n)
        BY <3>3, <3>4, <3>5, <3>6, <3>7, <4>1
      <4> QED BY <2>2, <4>2
    <3>8. CASE c.name \in names
      <4>1. PICK q : q = r \o <<c>>
        OBVIOUS
      <4>2. kept[n] = q
        BY <1>6, <2>2, <2>4, <3>2, <3>4, <3>8, <4>1
      <4>3. PICK L \in Nat : L = Len(r)
        BY <3>3
      <4>4. q \in Seq(T) /\ Len(q) = L + 1 /\ q[L + 1] = c /\ \A i \in 1..L : q[i] = r[i]
        BY <3>3, <4>1, <4>3
      <4>5. c.name \in Names(init)
        BY <1>1, <3>1, <3>4 DEF Names
      <4>6. \A i \in 1..(L + 1) : i = L + 1 \/ i \in 1..L
        OBVIOUS
      <4>7. \A i \in 1..(L + 1) : q[i].name \in names /\ q[i].name \in Names(init)
        BY <3>3, <3>8, <4>3, <4>4, <4>5, <4>6
      <4>8. ASSUME NEW j \in 1..n, init[j].name \in names
            PROVE  \E i \in 1..(L + 1) : q[i].name = init[j].name
        <5>1. CASE j = n
          <6>1. L + 1 \in 1..(L + 1)
            OBVIOUS
          <6> QED BY <3>4, <4>4, <5>1, <6>1
        <5>2. CASE j # n
          <6>1. PICK i \in 1..L : r[i].name = init[j].name
            BY <3>3, <3>5, <4>3, <4>8, <5>2
          <6>2. i \in 1..(L + 1)
            OBVIOUS
          <6> QED BY <4>4, <6>1, <6>2
        <5> QED BY <5>1, <5>2
      <4>9. ASSUME init[1].name \in names PROVE L + 1 >= 1 /\ q[1] = init[1]
        <5>1. CASE n = 1
          <6>1. kept[0] = <<>>
            <7>1. 0 \in 0..N
              BY <1>1
            <7> QED BY <1>6, <7>1
          <6>2. L = 0
            BY <3>2, <4>3, <5>1, <6>1
          <6> QED BY <3>4, <4>4, <5>1, <6>2
        <5>2. CASE n # 1
          <6>1. L >= 1 /\ r[1] = init[1]
            BY <3>3, <3>6, <4>3, <4>9, <5>2
          <6>2. 1 \in 1..L
            BY <6>1
          <6> QED BY <4>4, <6>1, <6>2
        <5> QED BY <5>1, <5>2
      <4>10. Right(n)
        BY <4>2, <4>4, <4>7, <4>8, <4>9
      <4> QED BY <2>2, <4>10
    <3> QED BY <3>7, <3>8
  <2> QED BY <2>3, <2>4
<1>8. Right(N)
  BY <1>1, <1>7
<1>9. DOMAIN kept[N] = 1..Len(kept[N])
  BY <1>8
<1>10. Names(kept[N]) = Names(init) \cap names
  <2>1. Names(kept[N]) = {kept[N][i].name : i \in 1..Len(kept[N])} /\ Names(init) = {init[j].name : j \in 1..N}
    BY <1>1, <1>9 DEF Names
  <2>2. \A x \in Names(kept[N]) : x \in Names(init) /\ x \in names
    BY <1>8, <2>1
  <2>3. ASSUME NEW x \in Names(init), x \in names PROVE x \in Names(kept[N])
    <3>1. PICK j \in 1..N : x = init[j].name
      BY <2>1, <2>3
    <3>2. PICK i \in 1..Len(kept[N]) : kept[N][i].name = init[j].name
      BY <1>8, <2>3, <3>1
    <3> QED BY <2>1, <3>1, <3>2
  <2> QED BY <2>2, <2>3
<1>11. init # <<>> => N >= 1
  BY <1>1
<1> QED BY <1>5, <1>8, <1>10, <1>11

\* A pod that suits an invocation: its packages are to be installed there iff it
\* has requirements, and the runner waits for exactly the sidecars that serve it.
Suits(pod, i) ==
    LET held == Names(pod.init) \cap Sidecars
    IN  /\ i.requirements <=> PIP \in Names(pod.init)
        /\ PIP \in Names(pod.init) => pod.init[1].name = PIP /\ SITE \in pod.env /\ pod.site
        /\ held # {} => i.access /\ ~i.spark /\ COMMON \in pod.env
        /\ pod.healthz = held /\ (HEALTHZ \in pod.env <=> held # {})
        /\ DATABASE \in pod.env <=> POSTGRES \in held
        /\ AWS \in pod.env <=> S3 \in held

Flags(i) == i.requirements \in BOOLEAN /\ i.access \in BOOLEAN /\ i.spark \in BOOLEAN

\* The installer stays, first and with its volume, or goes with every trace.
LEMMA PipFits ==
    ASSUME NEW t \in [init : Seq(InitContainers), auth : BOOLEAN, automount : BOOLEAN], _check_template(t),
           NEW i, Flags(i), i.requirements => PIP \in Names(t.init), NEW pod, pod = _personalize_pip(Pod(t), i)
    PROVE  /\ DOMAIN pod = {"init", "env", "healthz", "site", "packages"}
           /\ pod.init \in Seq(InitContainers)
           /\ i.requirements <=> PIP \in Names(pod.init)
           /\ PIP \in Names(pod.init) => pod.init[1].name = PIP /\ SITE \in pod.env /\ pod.site
           /\ Names(pod.init) \cap Sidecars = Names(t.init) \cap Sidecars
           /\ S3 \in Names(t.init) <=> AWS \in pod.env
           /\ Names(t.init) \cap Sidecars # {} => COMMON \in pod.env
           /\ DATABASE \notin pod.env
<1> USE DEF PIP, POSTGRES, S3, Sidecars, SITE, DATABASE, AWS, COMMON, HEALTHZ
<1>1. PICK p : p = Pod(t)
  OBVIOUS
<1>2. /\ p.init = t.init /\ p.env = TemplateEnv(t) /\ p.site = (PIP \in Names(t.init))
      /\ DOMAIN p = {"init", "env", "healthz", "site", "packages"}
  BY <1>1 DEF Pod
<1>3. t.init \in Seq(InitContainers)
  OBVIOUS
<1>4. /\ SITE \in TemplateEnv(t) <=> PIP \in Names(t.init)
      /\ AWS \in TemplateEnv(t) <=> S3 \in Names(t.init)
      /\ Names(t.init) \cap Sidecars # {} => COMMON \in TemplateEnv(t)
      /\ DATABASE \notin TemplateEnv(t)
  BY DEF TemplateEnv
<1>5. PIP \in Names(t.init) => t.init[1].name = PIP
  <2> SUFFICES ASSUME PIP \in Names(t.init) PROVE t.init[1].name = PIP
    OBVIOUS
  <2>1. PICK j \in DOMAIN t.init : t.init[j].name = PIP
    BY DEF Names
  <2>2. j = 1
    BY <2>1 DEF _check_template, _check_pip
  <2> QED BY <2>1, <2>2
<1>6. CASE i.requirements
  <2>1. pod = p
    BY <1>1, <1>2, <1>6 DEF _personalize_pip
  <2> QED BY <1>2, <1>3, <1>4, <1>5, <1>6, <2>1
<1>7. CASE ~i.requirements
  <2>1. PICK kept : kept = Only(t.init, Names(t.init) \ {PIP})
    OBVIOUS
  <2>2. pod = [p EXCEPT !.init = kept, !.site = FALSE, !.env = p.env \ {SITE}]
    BY <1>1, <1>2, <1>7, <2>1 DEF _personalize_pip
  <2>3. pod.init = kept /\ pod.env = TemplateEnv(t) \ {SITE} /\ DOMAIN pod = DOMAIN p
    BY <1>2, <2>2
  <2>4. kept \in Seq(InitContainers) /\ Names(kept) = Names(t.init) \ {PIP}
    BY <1>3, <2>1, OnlyKeeps
  <2>5. "pip" \notin Names(kept)
    BY <2>4
  <2>6. Names(kept) \cap Sidecars = Names(t.init) \cap Sidecars
    BY <2>4
  <2> QED BY <1>2, <1>4, <1>7, <2>3, <2>4, <2>5, <2>6
<1> QED BY <1>6, <1>7 DEF Flags

\* The pod _job makes for an invocation that is not refused suits it.
LEMMA JobSuits ==
    ASSUME NEW t \in [init : Seq(InitContainers), auth : BOOLEAN, automount : BOOLEAN], _check_template(t),
           NEW i, Flags(i), i.requirements => PIP \in Names(t.init), NEW w \in BOOLEAN
    PROVE  Suits(_job(t, i, w), i) /\ DOMAIN _job(t, i, w) = {"init", "env", "healthz", "site", "packages"}
<1> USE DEF PIP, POSTGRES, S3, Sidecars, SITE, DATABASE, AWS, COMMON, HEALTHZ
<1>1. PICK p : p = _personalize_pip(Pod(t), i)
  OBVIOUS
<1>2. /\ DOMAIN p = {"init", "env", "healthz", "site", "packages"}
      /\ p.init \in Seq(InitContainers)
      /\ i.requirements <=> PIP \in Names(p.init)
      /\ PIP \in Names(p.init) => p.init[1].name = PIP /\ SITE \in p.env /\ p.site
      /\ Names(p.init) \cap Sidecars = Names(t.init) \cap Sidecars
      /\ S3 \in Names(t.init) <=> AWS \in p.env
      /\ Names(t.init) \cap Sidecars # {} => COMMON \in p.env
      /\ DATABASE \notin p.env
  BY <1>1, PipFits
<1>3. PICK S : S = {n \in Names(p.init) : Serves(n, i, w)}
  OBVIOUS
<1>4. PICK kept : kept = Only(p.init, S)
  OBVIOUS
<1>5. Names(kept) = S
  <2>1. Names(kept) = Names(p.init) \cap S
    BY <1>2, <1>4, OnlyKeeps
  <2> QED BY <1>3, <2>1
<1>6. /\ \A n \in Names(p.init) : n \in S <=> Serves(n, i, w)
      /\ S \subseteq Names(p.init)
  BY <1>3
<1>7. PIP \in S <=> PIP \in Names(p.init)
  BY <1>6 DEF Serves
<1>8. PIP \in S => kept[1].name = PIP
  <2> SUFFICES ASSUME PIP \in S PROVE kept[1].name = PIP
    OBVIOUS
  <2>1. p.init[1].name = PIP /\ p.init # <<>>
    BY <1>2, <1>7 DEF Names
  <2>2. kept[1] = p.init[1]
    BY <1>2, <1>4, <2>1, OnlyKeeps
  <2> QED BY <2>1, <2>2
<1>9. PICK held : held = Names(kept) \cap Sidecars
  OBVIOUS
<1>10. held \subseteq Sidecars /\ (held # {} => i.access /\ ~i.spark)
  BY <1>5, <1>6, <1>9 DEF Serves
<1> DEFINE dropped == (Names(p.init) \cap Sidecars) \ held
           drop    == (IF POSTGRES \in dropped THEN {DATABASE} ELSE {})
                        \cup (IF S3 \in dropped THEN {AWS} ELSE {})
                        \cup (IF held = {} THEN {COMMON} ELSE {})
           added   == (IF POSTGRES \in held THEN {DATABASE} ELSE {})
                        \cup (IF held # {} THEN {HEALTHZ} ELSE {})
           env     == ((p.env \ {HEALTHZ}) \ drop) \cup added
<1>11. _job(t, i, w) = [p EXCEPT !.init = kept, !.healthz = held, !.env = env]
  BY <1>1, <1>3, <1>4, <1>9, Zenon DEF _job, _personalize_sidecars
<1>12. SITE \in env <=> SITE \in p.env
  OBVIOUS
<1>13. HEALTHZ \in env <=> held # {}
  OBVIOUS
<1>14. DATABASE \in env <=> POSTGRES \in held
  BY <1>2
<1>15. AWS \in env <=> S3 \in held
  <2>1. S3 \in held => S3 \in Names(p.init)
    BY <1>5, <1>6, <1>9
  <2>2. S3 \in Names(p.init) <=> S3 \in Names(t.init)
    BY <1>2
  <2> QED BY <1>2, <2>1, <2>2
<1>16. held # {} => COMMON \in env
  <2>1. held # {} => Names(t.init) \cap Sidecars # {}
    BY <1>2, <1>5, <1>6, <1>9
  <2> QED BY <1>2, <2>1
<1> HIDE DEF env
<1>17. PICK pod : pod = _job(t, i, w)
  OBVIOUS
<1>18. pod.init = kept /\ pod.healthz = held /\ pod.env = env /\ pod.site = p.site /\ DOMAIN pod = DOMAIN p
  BY <1>2, <1>11, <1>17
<1>19. Suits(pod, i)
  BY <1>2, <1>5, <1>7, <1>8, <1>9, <1>10, <1>12, <1>13, <1>14, <1>15, <1>16, <1>18 DEF Suits
<1> QED BY <1>2, <1>17, <1>18, <1>19

\* The pod of an attempt suits its invocation from its creation to its end, work
\* goes on only while the pod is ready, and then with the tokens it needs.
Assembled(k, i, s) ==
    /\ k.job \in {"none", "deleted"} => k.phase \notin {"pending", "ready"}
    /\ k.phase \in {"pending", "ready"} =>
          Suits(k.pod, i) /\ DOMAIN k.pod = {"init", "env", "healthz", "site", "packages"}
    /\ k.phase = "ready" => k.pod.packages = (PIP \in Names(k.pod.init))
    /\ s.work \in {"setup", "waiting", "running"} => k.phase = "ready"
    /\ s.work \in {"waiting", "running"} =>
          s.token = i.access /\ (i.access /\ COMMON \in k.pod.env => s.shared = TRUE)

PodInv ==
    /\ up # "refused" => _check_template(template)
    /\ \A a \in Attempts : Assembled(kb[a], inv[a], sv[a])

\* A step that moves one attempt only.
LEMMA PodInvKept ==
    ASSUME PodInv, NEW a \in Attempts, UNCHANGED <<template, up>>, Assembled(kb'[a], inv'[a], sv'[a]),
           \A b \in Attempts \ {a} : kb'[b] = kb[b] /\ sv'[b] = sv[b] /\ inv'[b] = inv[b]
    PROVE  PodInv'
BY DEF PodInv

\* What a saved configuration's invocation says of it are flags.
LEMMA SavedFlags ==
    ASSUME NEW i, Saved(i)
    PROVE  Flags(i)
<1>1. PICK c : i = Invocation(c) /\ TaskConfig(c)
  BY DEF Saved
<1>2. i.access = c.access /\ i.spark = c.spark /\ i.requirements = (c.requirements # <<>>)
  BY <1>1 DEF Invocation
<1>3. c.access \in BOOLEAN /\ c.spark \in BOOLEAN
  BY <1>1 DEF TaskConfig
<1> QED BY <1>2, <1>3 DEF Flags

\* Steps of the API pod: the Job is made from a checked template.
LEMMA ApiFits ==
    ASSUME AInv, SlotInv, PodInv, NEW a \in Attempts,
           \/ Run(a) \/ Cancel(a) \/ _acquire(a) \/ CreateJob(a) \/ CreateSecret(a)
           \/ _wait_ready(a) \/ Connect(a) \/ Headers(a) \/ watch_cancel(a)
           \/ Receive(a) \/ LostConnection(a) \/ ReadTimeout(a) \/ DeleteJob(a) \/ Release(a)
    PROVE  PodInv'
<1>0. /\ Functions /\ Objects(kb[a]) /\ Tidy(cl[a], kb[a]) /\ Assembled(kb[a], inv[a], sv[a]) /\ Service(sv[a])
      /\ Given(cl[a], inv[a], link[a], sv[a])
  BY DEF AInv, Fine, PodInv, Sound
<1>1. CASE Cancel(a) \/ _acquire(a) \/ _wait_ready(a) \/ Connect(a) \/ Headers(a) \/ watch_cancel(a)
           \/ Receive(a) \/ LostConnection(a) \/ ReadTimeout(a)
  <2>1. UNCHANGED <<template, up, kb, inv, sv>>
    BY <1>1 DEF Cancel, _acquire, _wait_ready, Connect, Headers, watch_cancel, Receive, LostConnection, ReadTimeout, podvars
  <2> QED BY <1>0, <2>1, PodInvKept
<1>2. CASE Run(a)
  <2>1. PICK i : inv' = [inv EXCEPT ![a] = i]
    BY <1>2 DEF Run
  <2>2. UNCHANGED <<template, up, kb, sv>> /\ cl[a].stage = "idle"
    BY <1>2 DEF Run, At
  <2>3. kb[a].phase \notin {"pending", "ready"} /\ sv[a].work \notin {"setup", "waiting", "running"}
    BY <1>0, <2>2 DEF Tidy, Assembled
  <2>4. Assembled(kb[a], i, sv[a])
    BY <1>0, <2>3 DEF Assembled
  <2>5. inv'[a] = i /\ \A b \in Attempts \ {a} : inv'[b] = inv[b]
    BY <1>0, <2>1 DEF Functions
  <2> QED BY <2>2, <2>4, <2>5, PodInvKept
<1>3. CASE CreateJob(a)
  <2>1. cl[a].stage = "start" /\ up = "up" /\ UNCHANGED <<template, up, inv, sv>>
    BY <1>3 DEF CreateJob, At, podvars
  <2>2. CASE UNCHANGED kb
    BY <1>0, <2>1, <2>2, PodInvKept
  <2>3. ASSUME ~UNCHANGED kb PROVE PodInv'
    <3>1. PICK w \in _warehouse(template, inv[a]), job \in {"present", "orphan"} :
            kb' = [kb EXCEPT ![a] = [job |-> job, secret |-> FALSE, phase |-> "pending",
                                     pod |-> _job(template, inv[a], w)]]
      BY <1>3, <2>3 DEF CreateJob
    <3>2. ~Refused(template, inv[a], PipRoute, Images)
      BY <1>3, <2>3 DEF CreateJob
    <3>3. w \in BOOLEAN
      BY <3>1 DEF _warehouse
    <3>4. Saved(inv[a])
      BY <1>0, <2>1 DEF Given
    <3>5. Flags(inv[a])
      BY <3>4, SavedFlags
    <3>6. inv[a].requirements => PIP \in Names(template.init)
      BY <3>2 DEF Refused
    <3>7. template \in [init : Seq(InitContainers), auth : BOOLEAN, automount : BOOLEAN]
      BY TemplatesAssumption DEF SlotInv
    <3>8. _check_template(template)
      BY <2>1 DEF PodInv
    <3>9. PICK pod : pod = _job(template, inv[a], w)
      OBVIOUS
    <3>10. Suits(pod, inv[a]) /\ DOMAIN pod = {"init", "env", "healthz", "site", "packages"}
      BY <3>3, <3>5, <3>6, <3>7, <3>8, <3>9, JobSuits
    <3>11. PICK k : k = [job |-> job, secret |-> FALSE, phase |-> "pending", pod |-> pod]
      OBVIOUS
    <3>12. kb'[a] = k /\ \A b \in Attempts \ {a} : kb'[b] = kb[b]
      BY <1>0, <3>1, <3>9, <3>11 DEF Functions
    <3>13. sv[a].work \notin {"setup", "waiting", "running"}
      BY <1>0, <2>1 DEF Tidy, Assembled
    <3>14. k.job = job /\ job \notin {"none", "deleted"} /\ k.phase = "pending" /\ k.pod = pod
      BY <3>1, <3>11
    <3>15. Assembled(k, inv[a], sv[a])
      BY <3>10, <3>13, <3>14 DEF Assembled
    <3> QED BY <2>1, <3>12, <3>15, PodInvKept
  <2> QED BY <2>2, <2>3
<1>4. ASSUME NEW k, kb' = [kb EXCEPT ![a] = k], k.phase = kb[a].phase, k.pod = kb[a].pod,
             k.job \in {"none", "deleted"} => kb[a].job \in {"none", "deleted"}, UNCHANGED <<template, up, inv, sv>>
      PROVE  PodInv'
  <2>1. kb'[a] = k /\ \A b \in Attempts \ {a} : kb'[b] = kb[b]
    BY <1>0, <1>4 DEF Functions
  <2>2. Assembled(k, inv[a], sv[a])
    BY <1>0, <1>4 DEF Assembled
  <2> QED BY <1>4, <2>1, <2>2, PodInvKept
<1>5. CASE CreateSecret(a)
  <2>1. UNCHANGED <<template, up, inv, sv>>
    BY <1>5 DEF CreateSecret, podvars
  <2>2. CASE UNCHANGED kb
    BY <1>0, <2>1, <2>2, PodInvKept
  <2>3. ASSUME kb' = [kb EXCEPT ![a].secret = TRUE] PROVE PodInv'
    <3>1. PICK k : k = [kb[a] EXCEPT !.secret = TRUE]
      OBVIOUS
    <3>2. kb' = [kb EXCEPT ![a] = k] /\ k.phase = kb[a].phase /\ k.pod = kb[a].pod /\ k.job = kb[a].job
      BY <1>0, <2>3, <3>1 DEF Functions, Objects
    <3> QED BY <1>4, <2>1, <3>2
  <2> QED BY <1>5, <2>2, <2>3 DEF CreateSecret
<1>6. CASE DeleteJob(a)
  <2>1. UNCHANGED <<template, up, inv>>
    BY <1>6 DEF DeleteJob, podvars
  <2>2. CASE kb' = [kb EXCEPT ![a].job = "leaked"] /\ UNCHANGED sv
    <3>1. PICK k : k = [kb[a] EXCEPT !.job = "leaked"]
      OBVIOUS
    <3>2. kb' = [kb EXCEPT ![a] = k] /\ k.phase = kb[a].phase /\ k.pod = kb[a].pod /\ k.job = "leaked"
      BY <1>0, <2>2, <3>1 DEF Functions, Objects
    <3> QED BY <1>4, <2>1, <2>2, <3>2
  <2>3. CASE /\ kb' = [kb EXCEPT ![a].job = "deleted", ![a].secret = FALSE, ![a].phase = "ended"]
             /\ sv' = [sv EXCEPT ![a] = Dead(@)]
    <3>1. PICK k : k = [kb[a] EXCEPT !.job = "deleted", !.secret = FALSE, !.phase = "ended"]
      OBVIOUS
    <3>2. PICK d : d = Dead(sv[a])
      OBVIOUS
    <3>3. kb' = [kb EXCEPT ![a] = k] /\ k.phase = "ended"
      BY <1>0, <2>3, <3>1 DEF Functions, Objects
    <3>4. d.work \in {"none", "over"}
      BY <1>0, <3>2 DEF Dead, Service
    <3>5. Assembled(k, inv[a], d)
      BY <3>3, <3>4 DEF Assembled
    <3>6. kb'[a] = k /\ sv'[a] = d /\ \A b \in Attempts \ {a} : kb'[b] = kb[b] /\ sv'[b] = sv[b]
      BY <1>0, <2>3, <3>2, <3>3 DEF Functions
    <3> QED BY <2>1, <3>5, <3>6, PodInvKept
  <2> QED BY <1>6, <2>2, <2>3 DEF DeleteJob
<1>7. CASE Release(a)
  <2>1. UNCHANGED <<template, up>> /\ cl[a].stage = "release"
    BY <1>7 DEF Release, At
  <2>2. CASE kb[a].job \in LeftOver
    <3>1. UNCHANGED <<inv, kb, sv>>
      BY <1>7, <2>2 DEF Release
    <3> QED BY <1>0, <2>1, <3>1, PodInvKept
  <2>3. CASE kb[a].job \notin LeftOver
    <3>1. PICK k : k = [kb[a] EXCEPT !.pod = NoPod]
      OBVIOUS
    <3>2. kb' = [kb EXCEPT ![a] = k] /\ sv' = [sv EXCEPT ![a] = NoService] /\ inv' = [inv EXCEPT ![a] = NoInv]
      BY <1>0, <1>7, <2>3, <3>1 DEF Release, Functions
    <3>3. k.job = kb[a].job /\ k.phase = kb[a].phase /\ kb[a].job \in {"none", "deleted"}
      BY <1>0, <2>1, <2>3, <3>1 DEF Objects, Tidy, LeftOver
    <3>4. NoService.work = "none"
      BY DEF NoService
    <3>5. Assembled(k, NoInv, NoService)
      BY <1>0, <3>3, <3>4 DEF Assembled
    <3>6. kb'[a] = k /\ sv'[a] = NoService /\ inv'[a] = NoInv
          /\ \A b \in Attempts \ {a} : kb'[b] = kb[b] /\ sv'[b] = sv[b] /\ inv'[b] = inv[b]
      BY <1>0, <3>2 DEF Functions
    <3> QED BY <2>1, <3>5, <3>6, PodInvKept
  <2> QED BY <2>2, <2>3
<1> QED BY <1>1, <1>2, <1>3, <1>5, <1>6, <1>7

\* Steps of the cluster: the packages are there once the pod is ready, and no
\* work outlives its pod.
LEMMA ClusterFits ==
    ASSUME AInv, PodInv, NEW a \in Attempts, PodReady(a) \/ InstallFails(a) \/ PodLost(a) \/ ServerExit(a)
    PROVE  PodInv'
<1>0. Functions /\ Objects(kb[a]) /\ Assembled(kb[a], inv[a], sv[a]) /\ Service(sv[a])
  BY DEF AInv, Fine, PodInv, Sound
<1>1. UNCHANGED <<template, up, inv>>
  BY DEF PodReady, InstallFails, PodLost, ServerExit, podvars
<1>2. CASE EndPod(a)
  <2>1. PICK k : k = [kb[a] EXCEPT !.phase = "ended"]
    OBVIOUS
  <2>2. PICK d : d = Dead(sv[a])
    OBVIOUS
  <2>3. kb' = [kb EXCEPT ![a] = k] /\ sv' = [sv EXCEPT ![a] = d] /\ k.phase = "ended"
    BY <1>0, <1>2, <2>1, <2>2 DEF EndPod, Functions, Objects
  <2>4. d.work \in {"none", "over"}
    BY <1>0, <2>2 DEF Dead, Service
  <2>5. Assembled(k, inv[a], d)
    BY <2>3, <2>4 DEF Assembled
  <2>6. kb'[a] = k /\ sv'[a] = d /\ \A b \in Attempts \ {a} : kb'[b] = kb[b] /\ sv'[b] = sv[b]
    BY <1>0, <2>3 DEF Functions
  <2> QED BY <1>1, <2>5, <2>6, PodInvKept
<1>3. CASE PodReady(a)
  <2>1. PICK x : x = (PIP \in Names(kb[a].pod.init))
    OBVIOUS
  <2>2. kb' = [kb EXCEPT ![a].phase = "ready", ![a].pod.packages = x] /\ UNCHANGED sv
        /\ kb[a].phase = "pending" /\ kb[a].job # "deleted"
    BY <1>3, <2>1 DEF PodReady
  <2>3. kb[a].job # "none" /\ Suits(kb[a].pod, inv[a]) /\ DOMAIN kb[a].pod = {"init", "env", "healthz", "site", "packages"}
    BY <1>0, <2>2 DEF Assembled
  <2>4. PICK p : p = [kb[a].pod EXCEPT !.packages = x]
    OBVIOUS
  <2>5. PICK k : k = [kb[a] EXCEPT !.phase = "ready", !.pod = p]
    OBVIOUS
  <2>6. kb' = [kb EXCEPT ![a] = k]
    BY <1>0, <2>2, <2>4, <2>5 DEF Functions, Objects
  <2>7. p.init = kb[a].pod.init /\ p.env = kb[a].pod.env /\ p.healthz = kb[a].pod.healthz /\ p.site = kb[a].pod.site
        /\ p.packages = x /\ DOMAIN p = DOMAIN kb[a].pod
    BY <2>3, <2>4
  <2>8. k.phase = "ready" /\ k.pod = p /\ k.job = kb[a].job
    BY <1>0, <2>5 DEF Objects
  <2>9. Suits(p, inv[a])
    BY <2>3, <2>7 DEF Suits
  <2>10. sv[a].work \notin {"setup", "waiting", "running"}
    BY <1>0, <2>2 DEF Assembled
  <2>11. Assembled(k, inv[a], sv[a])
    BY <2>1, <2>2, <2>3, <2>7, <2>8, <2>9, <2>10 DEF Assembled
  <2>12. kb'[a] = k /\ \A b \in Attempts \ {a} : kb'[b] = kb[b]
    BY <1>0, <2>6 DEF Functions
  <2> QED BY <1>1, <2>2, <2>11, <2>12, PodInvKept
<1> QED BY <1>2, <1>3 DEF InstallFails, PodLost, ServerExit

\* Steps of the pod: the tokens are written before the process is started, and
\* removed only when the work is over.
LEMMA ServiceFits ==
    ASSUME AInv, PodInv, NEW a \in Attempts,
           \/ Accept(a) \/ Setup(a) \/ Popen(a) \/ ProcExit(a) \/ Reap(a) \/ Kill(a) \/ Timeout(a)
           \/ Stream(a) \/ Disconnected(a) \/ PutToken(a) \/ WriteToken(a) \/ IdleExit(a)
    PROVE  PodInv'
<1>0. Functions /\ Objects(kb[a]) /\ Assembled(kb[a], inv[a], sv[a]) /\ Service(sv[a]) /\ Sound(sv[a], link[a])
  BY DEF AInv, Fine, PodInv, Sound
<1>1. UNCHANGED <<template, up, inv, kb>>
  BY DEF Accept, Setup, Popen, ProcExit, Reap, Kill, Timeout, Stream, Disconnected, PutToken, WriteToken, IdleExit, podvars
<1>2. ASSUME NEW d, sv' = [sv EXCEPT ![a] = d], Assembled(kb[a], inv[a], d)
      PROVE  PodInv'
  <2>1. sv'[a] = d /\ \A b \in Attempts \ {a} : sv'[b] = sv[b]
    BY <1>0, <1>2 DEF Functions
  <2> QED BY <1>1, <1>2, <2>1, PodInvKept
<1>3. ASSUME NEW d, sv' = [sv EXCEPT ![a] = d], d.work = "over" PROVE PodInv'
  <2>1. Assembled(kb[a], inv[a], d)
    BY <1>0, <1>3 DEF Assembled
  <2> QED BY <1>2, <1>3, <2>1
<1>4. ASSUME NEW d, sv' = [sv EXCEPT ![a] = d], d.work = sv[a].work, d.token = sv[a].token,
             d.shared = sv[a].shared \/ d.shared = TRUE
      PROVE  PodInv'
  <2>1. Assembled(kb[a], inv[a], d)
    BY <1>0, <1>4 DEF Assembled
  <2> QED BY <1>2, <1>4, <2>1
<1>5. CASE Accept(a)
  <2>1. PICK d : d = [sv[a] EXCEPT !.started = TRUE, !.gen = "on", !.work = "setup"]
    OBVIOUS
  <2>2. sv' = [sv EXCEPT ![a] = d] /\ d.work = "setup" /\ kb[a].phase = "ready"
    BY <1>0, <1>5, <2>1 DEF Accept, InPod, Functions, Service
  <2>3. Assembled(kb[a], inv[a], d)
    BY <1>0, <2>2 DEF Assembled
  <2> QED BY <1>2, <2>2, <2>3
<1>6. CASE Setup(a)
  <2>1. PICK m : m = Main(kb[a].pod)
    OBVIOUS
  <2>2. PICK g : g = [sv[a] EXCEPT !.work = "waiting", !.token = inv[a].access,
                                   !.shared = inv[a].access /\ m.shared_token_file]
    OBVIOUS
  <2>3. PICK d : d = IF sv[a].cancel THEN Say(sv[a], "canceled")
                     ELSE IF ~_report_install(inv[a], m, kb[a].pod) THEN Say(sv[a], "failed") ELSE g
    OBVIOUS
  <2>4. sv' = [sv EXCEPT ![a] = d] /\ kb[a].phase = "ready"
    BY <1>0, <1>6, <2>1, <2>2, <2>3 DEF Setup, InPod, Functions
  <2>5. d = g \/ d.work = "over"
    BY <1>0, <2>3 DEF Say, Service
  <2>6. CASE d = g
    <3>1. m.shared_token_file = (COMMON \in kb[a].pod.env)
      BY <2>1 DEF Main
    <3>2. g.work = "waiting" /\ g.token = inv[a].access /\ g.shared = (inv[a].access /\ m.shared_token_file)
      BY <1>0, <2>2 DEF Service
    <3>3. inv[a].access /\ COMMON \in kb[a].pod.env => g.shared = TRUE
      BY <3>1, <3>2
    <3>4. Assembled(kb[a], inv[a], g)
      BY <1>0, <2>4, <3>2, <3>3 DEF Assembled
    <3> QED BY <1>2, <2>4, <2>6, <3>4
  <2> QED BY <1>3, <2>4, <2>5, <2>6
<1>7. CASE Popen(a)
  <2>1. PICK d : d = [sv[a] EXCEPT !.work = "running", !.proc = "running"]
    OBVIOUS
  <2>2. sv' = [sv EXCEPT ![a] = d] /\ d.work = "running" /\ d.token = sv[a].token /\ d.shared = sv[a].shared
        /\ sv[a].work = "waiting"
    BY <1>0, <1>7, <2>1 DEF Popen, Functions, Service
  <2>3. Assembled(kb[a], inv[a], d)
    BY <1>0, <2>2 DEF Assembled
  <2> QED BY <1>2, <2>2, <2>3
<1>8. CASE ProcExit(a)
  <2>1. PICK x : sv' = [sv EXCEPT ![a].proc = x]
    BY <1>8 DEF ProcExit
  <2>2. PICK d : d = [sv[a] EXCEPT !.proc = x]
    OBVIOUS
  <2>3. sv' = [sv EXCEPT ![a] = d] /\ d.work = sv[a].work /\ d.token = sv[a].token /\ d.shared = sv[a].shared
    BY <1>0, <2>1, <2>2 DEF Functions, Service
  <2> QED BY <1>4, <2>3
<1>9. CASE Reap(a)
  <2>1. PICK d : d = Say(sv[a], Result(sv[a].proc))
    OBVIOUS
  <2>2. sv' = [sv EXCEPT ![a] = d] /\ d.work = "over"
    BY <1>0, <1>9, <2>1 DEF Reap, Say, Functions, Service
  <2> QED BY <1>3, <2>2
<1>10. CASE Kill(a) \/ Timeout(a)
  <2>1. PICK k : k = [sv[a] EXCEPT !.proc = "killed"]
    OBVIOUS
  <2>2. DOMAIN k = DOMAIN sv[a]
    BY <2>1
  <2>3. sv' = [sv EXCEPT ![a] = Say(k, "canceled")] \/ sv' = [sv EXCEPT ![a] = Say(k, "failed")]
    BY <1>0, <1>10, <2>1 DEF Kill, Timeout, Functions
  <2>4. \A e : Say(k, e).work = "over"
    BY <1>0, <2>2 DEF Say, Service
  <2> QED BY <1>3, <2>3, <2>4
<1>11. CASE Stream(a)
  <2>1. PICK d : d = [sv[a] EXCEPT !.events = Tail(@),
                         !.wire = IF Head(sv[a].events) # "end" /\ link[a] = "open"
                                  THEN <<Head(sv[a].events)>> ELSE @,
                         !.gen  = IF Head(sv[a].events) = "end" THEN "over" ELSE @,
                         !.exit = Head(sv[a].events) = "end"]
    OBVIOUS
  <2>2. sv' = [sv EXCEPT ![a] = d]
    BY <1>0, <1>11, <2>1 DEF Stream, Functions
  <2>3. d.work = sv[a].work /\ d.token = sv[a].token /\ d.shared = sv[a].shared
    BY <1>0, <2>1 DEF Service
  <2> QED BY <1>4, <2>2, <2>3
<1>12. CASE Disconnected(a)
  <2>1. PICK d : d = [sv[a] EXCEPT !.gen = "over", !.cancel = TRUE, !.exit = TRUE]
    OBVIOUS
  <2>2. sv' = [sv EXCEPT ![a] = d] /\ d.work = sv[a].work /\ d.token = sv[a].token /\ d.shared = sv[a].shared
    BY <1>0, <1>12, <2>1 DEF Disconnected, Functions, Service
  <2> QED BY <1>4, <2>2
<1>13. CASE PutToken(a) \/ IdleExit(a)
  <2>1. PICK d \in {[sv[a] EXCEPT !.put = TRUE], [sv[a] EXCEPT !.exit = TRUE]} : sv' = [sv EXCEPT ![a] = d]
    BY <1>0, <1>13 DEF PutToken, IdleExit, Functions
  <2>2. d.work = sv[a].work /\ d.token = sv[a].token /\ d.shared = sv[a].shared
    BY <1>0, <2>1 DEF Service
  <2> QED BY <1>4, <2>1, <2>2
<1>14. CASE WriteToken(a)
  <2>1. PICK y : y = Main(kb[a].pod).shared_token_file
    OBVIOUS
  <2>2. CASE sv' = [sv EXCEPT ![a].put = FALSE, ![a].shared = @ \/ (sv[a].token /\ y)]
    <3>1. PICK z : z = (sv[a].shared \/ (sv[a].token /\ y))
      OBVIOUS
    <3>2. PICK d : d = [sv[a] EXCEPT !.put = FALSE, !.shared = z]
      OBVIOUS
    <3>3. sv' = [sv EXCEPT ![a] = d]
      BY <1>0, <2>2, <3>1, <3>2 DEF Functions
    <3>4. d.work = sv[a].work /\ d.token = sv[a].token /\ d.shared = z
      BY <1>0, <3>2 DEF Service
    <3>5. sv[a].shared = TRUE => z = TRUE
      BY <3>1
    <3>6. Assembled(kb[a], inv[a], d)
      BY <1>0, <3>4, <3>5 DEF Assembled
    <3> QED BY <1>2, <3>3, <3>6
  <2>3. CASE sv[a].work = "over" /\ sv' = [sv EXCEPT ![a].put = FALSE, ![a].shared = y]
    <3>1. PICK d : d = [sv[a] EXCEPT !.put = FALSE, !.shared = y]
      OBVIOUS
    <3>2. sv' = [sv EXCEPT ![a] = d] /\ d.work = "over"
      BY <1>0, <2>3, <3>1 DEF Functions, Service
    <3> QED BY <1>3, <3>2
  <2> QED BY <1>14, <2>1, <2>2, <2>3 DEF WriteToken
<1> QED BY <1>5, <1>6, <1>7, <1>8, <1>9, <1>10, <1>11, <1>12, <1>13, <1>14

\* Every step leaves the pods assembled.
LEMMA PodInvStep ==
    ASSUME AInv, SlotInv, PodInv, [Next]_vars
    PROVE  PodInv'
<1>1. CASE UNCHANGED vars
  <2>1. UNCHANGED <<template, up, inv, kb, sv>>
    BY <1>1 DEF vars
  <2> QED BY <2>1 DEF PodInv
<1>2. CASE Crash
  <2>1. UNCHANGED <<template, inv, kb, sv>> /\ up # "refused"
    BY <1>2 DEF Crash
  <2> QED BY <2>1 DEF PodInv
<1>3. ASSUME NEW a \in Attempts, Step(a) PROVE PodInv'
  BY <1>3, ApiFits, ClusterFits, ServiceFits DEF Step
<1> QED BY <1>1, <1>2, <1>3 DEF Next

\* There is no pod at first.
LEMMA PodInvInit == Init => PodInv
<1> SUFFICES ASSUME Init PROVE PodInv
  OBVIOUS
<1>1. up # "refused" => _check_template(template)
  BY DEF Init
<1>2. \A a \in Attempts : kb[a].phase = "none" /\ sv[a].work = "none"
  BY DEF Init, NoService
<1> QED BY <1>1, <1>2 DEF PodInv, Assembled

\* The pod of a running process is the one its task needs: the installer's
\* packages are there iff it has requirements, exactly the sidecars that serve
\* it are, the runner waited for those, and both token files are in place,
\* whichever template the chart renders (PodFits: _check_template, _job, main).
THEOREM PodsFit == Spec => []PodFits
<1>1. AInv /\ PodInv => PodFits
  <2> SUFFICES ASSUME AInv, PodInv, NEW a \in Attempts, sv[a].proc = "running"
               PROVE  LET pod  == kb[a].pod
                          m    == Main(pod)
                          held == Names(pod.init) \cap Sidecars
                      IN  /\ inv[a].requirements <=> PIP \in Names(pod.init)
                          /\ PIP \in Names(pod.init) => pod.init[1].name = PIP /\ m.site_dir /\ pod.site /\ pod.packages
                          /\ held # {} => inv[a].access /\ ~inv[a].spark
                          /\ pod.healthz = held /\ (m.before_start <=> held # {})
                          /\ DATABASE \in m.task_env <=> POSTGRES \in held
                          /\ AWS \in m.task_env <=> S3 \in held
                          /\ inv[a].access => sv[a].token /\ (held # {} => sv[a].shared)
    BY DEF PodFits
  <2>1. sv[a].work = "running"
    BY DEF AInv, Fine, Sound, Service
  <2>2. PICK pod : pod = kb[a].pod
    OBVIOUS
  <2>3. PICK m : m = Main(pod)
    OBVIOUS
  <2>4. Assembled(kb[a], inv[a], sv[a])
    BY DEF PodInv
  <2>5. /\ Suits(pod, inv[a]) /\ pod.packages = (PIP \in Names(pod.init))
        /\ sv[a].token = inv[a].access /\ (inv[a].access /\ COMMON \in pod.env => sv[a].shared = TRUE)
    BY <2>1, <2>2, <2>4 DEF Assembled
  <2>6. m.site_dir = (SITE \in pod.env) /\ m.before_start = (HEALTHZ \in pod.env)
        /\ m.task_env = pod.env \cap {DATABASE, AWS}
    BY <2>3 DEF Main
  <2> QED BY <2>2, <2>3, <2>5, <2>6 DEF Suits
<1>2. Init => AInv /\ SlotInv /\ PodInv
  BY AInvInit, SlotInit, PodInvInit
<1>3. AInv /\ SlotInv /\ PodInv /\ [Next]_vars => (AInv /\ SlotInv /\ PodInv)'
  BY AInvStep, SlotStep, PodInvStep
<1> QED BY <1>1, <1>2, <1>3, PTL DEF Spec

=============================================================================
