-------------------------- MODULE StoredTextProofs --------------------------
(***************************************************************************)
(* Proofs about what a run stores: its log (RunLog), for any number of     *)
(* readers and lines, every cap, batch size and page size; and the task    *)
(* secrets kept out of it (TaskSecrets), for any replicas, keys, tasks,    *)
(* names and values.                                                       *)
(***************************************************************************)
EXTENDS RunLog, TaskSecrets, FiniteSetTheorems, TLAPS

-----------------------------------------------------------------------------
(* Numbers *)

\* Every non-empty set of naturals has a least member.
LEMMA LeastMember ==
    ASSUME NEW T \in SUBSET Nat, T # {}
    PROVE  \E m \in T : \A k \in T : m <= k
<1> DEFINE R == OpToRel(<, Nat)
<1>1. IsWellFoundedOn(R, Nat)
  BY NatLessThanWellFounded
<1>2. \A k, m \in Nat : k < m => <<k, m>> \in R
  BY DEF OpToRel
<1> HIDE DEF R
<1>3. PICK m \in T : \A k \in T : ~(<<k, m>> \in R)
  BY <1>1, WFMin
<1>4. ASSUME NEW k \in T PROVE m <= k
  <2>1. k \in Nat /\ m \in Nat /\ <<k, m>> \notin R
    BY <1>3
  <2>2. ~(k < m)
    BY <1>2, <2>1
  <2> QED BY <2>1, <2>2
<1> QED BY <1>4

\* A bounded one has a greatest member, which is what Max picks.
LEMMA MaxOfBounded ==
    ASSUME NEW S \in SUBSET Nat, S # {}, NEW n \in Nat, \A x \in S : x <= n
    PROVE  Max(S) \in S /\ \A x \in S : x <= Max(S)
<1> DEFINE T == {m \in Nat : \A x \in S : x <= m}
<1>1. T \in SUBSET Nat /\ T # {}
  OBVIOUS
<1>2. PICK m \in T : \A k \in T : m <= k
  BY <1>1, LeastMember
<1>3. m \in S
  <2> SUFFICES ASSUME m \notin S PROVE FALSE
    OBVIOUS
  <2>1. \A x \in S : x <= m - 1 /\ x \in Nat
    BY <1>2
  <2>2. PICK y \in S : TRUE
    OBVIOUS
  <2>3. m - 1 \in Nat
    BY <1>2, <2>1, <2>2
  <2>4. m - 1 \in T
    BY <2>1, <2>3
  <2> QED BY <1>2, <2>3, <2>4
<1>4. \E y \in S : \A x \in S : y >= x
  BY <1>2, <1>3
<1>5. Max(S) \in S /\ \A x \in S : Max(S) >= x
  BY <1>4 DEF Max
<1> QED BY <1>5

-----------------------------------------------------------------------------
(* The ledger: where every numbered line is *)

\* Of the numbered lines all, each is in exactly one place: the buffer, the batch
\* of one thread, lost, stored, or displaced by a sweep's row with its number.
SweepLine(n) == [seq |-> n, by |-> "sweep"]

Ledger(buf, bat, gone, stored, all) ==
    /\ \A l, m \in all : l.seq = m.seq => l = m
    /\ \A l \in all : l.by # "sweep"
    /\ \A x \in stored : x \in all \/ x = SweepLine(x.seq)
    /\ \A x, y \in stored : x.seq = y.seq => x = y
    /\ buf \subseteq all /\ gone \subseteq all /\ \A t \in Threads : bat[t] \subseteq all
    /\ \A l \in all :
          /\ l \in buf => l \notin gone /\ l \notin stored /\ \A t \in Threads : l \notin bat[t]
          /\ l \in gone => l \notin stored /\ \A t \in Threads : l \notin bat[t]
          /\ l \in stored => \A t \in Threads : l \notin bat[t]
          /\ \A t, u \in Threads : l \in bat[t] /\ l \in bat[u] => t = u
          /\ \/ l \in buf \/ l \in gone \/ l \in stored
             \/ \E t \in Threads : l \in bat[t]
             \/ SweepLine(l.seq) \in stored

\* The rows that an INSERT ... ON CONFLICT DO NOTHING of lines adds.
Fresh(lines, stored) == {l \in lines : \A x \in stored : x.seq # l.seq}

InBatches(bat) == UNION {bat[t] : t \in Threads}
NoBatches == [t \in Threads |-> {}]

\* Emitting, taking, storing, losing and sweeping move lines without losing count.
LEMMA LedgerKept ==
    ASSUME NEW buf, NEW gone, NEW stored, NEW all, NEW bat \in [Threads -> SUBSET Lines],
           Ledger(buf, bat, gone, stored, all)
    PROVE  /\ \A line : (line.by # "sweep" /\ \A l \in all : l.seq # line.seq) =>
                 Ledger(buf \cup {line}, bat, gone, stored, all \cup {line})
           /\ \A t \in Threads : bat[t] = {} => Ledger({}, [bat EXCEPT ![t] = buf], gone, stored, all)
           /\ \A t \in Threads :
                 /\ Ledger(buf, [bat EXCEPT ![t] = {}], gone, stored \cup Fresh(bat[t], stored), all)
                 /\ Ledger(buf, [bat EXCEPT ![t] = {}], gone \cup bat[t], stored, all)
           /\ Ledger({}, NoBatches, gone \cup buf \cup InBatches(bat), stored, all)
           /\ \A n \in Nat : Ledger(buf, bat, gone, stored \cup Fresh({SweepLine(n)}, stored), all)
<1>1. ASSUME NEW line, line.by # "sweep", \A l \in all : l.seq # line.seq
      PROVE  Ledger(buf \cup {line}, bat, gone, stored, all \cup {line})
  <2>1. line \notin all /\ line \notin stored
    BY <1>1 DEF Ledger, SweepLine
  <2> QED BY <1>1, <2>1 DEF Ledger
<1>2. ASSUME NEW t \in Threads, bat[t] = {}
      PROVE  Ledger({}, [bat EXCEPT ![t] = buf], gone, stored, all)
  BY <1>2 DEF Ledger
<1>3. ASSUME NEW t \in Threads
      PROVE  Ledger(buf, [bat EXCEPT ![t] = {}], gone, stored \cup Fresh(bat[t], stored), all)
  <2> DEFINE new == Fresh(bat[t], stored)
             b   == [bat EXCEPT ![t] = {}]
  <2>1. /\ new \subseteq bat[t] /\ \A l \in new : \A x \in stored : x.seq # l.seq
        /\ \A l \in bat[t] \ new : \E x \in stored : x.seq = l.seq
    BY DEF Fresh
  <2>2. b[t] = {} /\ \A u \in Threads \ {t} : b[u] = bat[u]
    OBVIOUS
  <2> SUFFICES Ledger(buf, b, gone, stored \cup new, all)
    OBVIOUS
  <2> HIDE DEF new, b
  <2>3. \A l \in bat[t] \ new : SweepLine(l.seq) \in stored
    BY <2>1 DEF Ledger
  <2>4. \A l, m \in all : l.seq = m.seq => l = m
    BY DEF Ledger
  <2>5. \A x \in stored \cup new : x \in all \/ x = SweepLine(x.seq)
    BY <2>1 DEF Ledger
  <2>6. \A x, y \in stored \cup new : x.seq = y.seq => x = y
    BY <2>1 DEF Ledger
  <2>7. buf \subseteq all /\ gone \subseteq all /\ (\A u \in Threads : b[u] \subseteq all) /\ \A l \in all : l.by # "sweep"
    BY <2>2 DEF Ledger
  <2>8. ASSUME NEW l \in all
        PROVE  /\ l \in buf => l \notin gone /\ l \notin stored \cup new /\ \A u \in Threads : l \notin b[u]
               /\ l \in gone => l \notin stored \cup new /\ \A u \in Threads : l \notin b[u]
               /\ l \in stored \cup new => \A u \in Threads : l \notin b[u]
               /\ \A v, u \in Threads : l \in b[v] /\ l \in b[u] => v = u
    BY <2>1, <2>2 DEF Ledger
  <2>9. ASSUME NEW l \in all
        PROVE  \/ l \in buf \/ l \in gone \/ l \in stored \cup new
               \/ \E u \in Threads : l \in b[u]
               \/ SweepLine(l.seq) \in stored \cup new
    BY <2>1, <2>2, <2>3 DEF Ledger
  <2> QED BY <2>4, <2>5, <2>6, <2>7, <2>8, <2>9 DEF Ledger
<1>4. ASSUME NEW t \in Threads
      PROVE  Ledger(buf, [bat EXCEPT ![t] = {}], gone \cup bat[t], stored, all)
  BY <1>4 DEF Ledger
<1>5. Ledger({}, NoBatches, gone \cup buf \cup InBatches(bat), stored, all)
  <2> DEFINE g == gone \cup buf \cup InBatches(bat)
             b == NoBatches
  <2>1. /\ \A l : l \in g <=> l \in gone \/ l \in buf \/ \E t \in Threads : l \in bat[t]
        /\ \A t \in Threads : b[t] = {}
    BY DEF InBatches, NoBatches
  <2> SUFFICES Ledger({}, b, g, stored, all)
    OBVIOUS
  <2> HIDE DEF g, b
  <2> QED BY <2>1 DEF Ledger
<1>6. ASSUME NEW n \in Nat
      PROVE  Ledger(buf, bat, gone, stored \cup Fresh({SweepLine(n)}, stored), all)
  <2> DEFINE new == Fresh({SweepLine(n)}, stored)
  <2>1. /\ \A l \in new : l = SweepLine(n) /\ l.seq = n /\ l.by = "sweep" /\ \A x \in stored : x.seq # n
    BY DEF Fresh, SweepLine
  <2> HIDE DEF new
  <2>2. \A l \in new : l \notin all
    BY <2>1 DEF Ledger
  <2>3. Ledger(buf, bat, gone, stored \cup new, all)
    BY <2>1, <2>2 DEF Ledger
  <2> QED BY <2>3 DEF new
<1> QED BY <1>1, <1>2, <1>3, <1>4, <1>5, <1>6

-----------------------------------------------------------------------------
(* Types, numbers and the ledger *)

Types ==
    /\ rec \in [seq : Nat, buf : SUBSET Lines, noted : BOOLEAN]
    /\ out \in [Readers -> 0..MaxOut]
    /\ batch \in [Threads -> SUBSET Lines]
    /\ stage \in Stages /\ rows \subseteq Lines
    /\ status \in {"running", "worker", "swept"}
    /\ sweep \in [stage : {"idle", "tail", "append", "over"}, seq : Nat]
    /\ follower \in [stage : {"status", "lines", "done"}, ended : BOOLEAN, after : Nat, got : SUBSET Lines]
    /\ made \subseteq Lines /\ lost \subseteq Lines /\ late \subseteq Lines /\ hidden \subseteq Lines
    /\ slow \in BOOLEAN

\* Numbers start at one, the recorder's are at most its last, and the rows' are bounded.
Numbers ==
    /\ \A l \in made : 1 <= l.seq /\ l.seq <= rec.seq
    /\ \A x \in rows : 1 <= x.seq
    /\ \E n \in Nat : \A x \in rows : x.seq <= n
    /\ sweep.stage = "append" => sweep.seq >= 1
    /\ IsFiniteSet(made) /\ IsFiniteSet(rows)
    /\ follower.got \subseteq rows

LInv == Types /\ Numbers /\ Ledger(rec.buf, batch, lost, rows, made)

\* The first line.
LEMMA InitLedger ==
    ASSUME Init
    PROVE  LInv
<1> DEFINE first == [seq |-> 1, by |-> "system"]
<1>1. /\ rec = [seq |-> 1, buf |-> {first}, noted |-> FALSE] /\ made = {first}
      /\ rows = {} /\ lost = {} /\ batch = [t \in Threads |-> {}] /\ late = {} /\ hidden = {}
      /\ first \in Lines /\ first.seq = 1 /\ first.by = "system"
  BY DEF Init, Lines
<1> HIDE DEF first
<1>2. Types
  <2>1. /\ rec \in [seq : Nat, buf : SUBSET Lines, noted : BOOLEAN] /\ batch \in [Threads -> SUBSET Lines]
        /\ rows \subseteq Lines /\ made \subseteq Lines /\ lost \subseteq Lines /\ late \subseteq Lines
        /\ hidden \subseteq Lines
    BY <1>1
  <2>2. /\ out \in [Readers -> 0..MaxOut] /\ stage \in Stages /\ slow \in BOOLEAN
        /\ status \in {"running", "worker", "swept"}
    <3>1. out = [r \in Readers |-> 0] /\ stage = "engine" /\ status = "running" /\ slow = FALSE
      BY DEF Init
    <3>2. out \in [Readers -> 0..MaxOut]
      BY <3>1, SizesAssumption
    <3> QED BY <3>1, <3>2, Zenon DEF Stages
  <2>3. /\ sweep \in [stage : {"idle", "tail", "append", "over"}, seq : Nat]
        /\ follower \in [stage : {"status", "lines", "done"}, ended : BOOLEAN, after : Nat, got : SUBSET Lines]
    BY DEF Init
  <2> QED BY <2>1, <2>2, <2>3 DEF Types
<1>3. IsFiniteSet(made) /\ IsFiniteSet(rows)
  BY <1>1, FS_Singleton, FS_EmptySet
<1>4. Numbers
  BY <1>1, <1>3 DEF Init, Numbers
<1>5. Ledger(rec.buf, batch, lost, rows, made)
  BY <1>1 DEF Ledger
<1> QED BY <1>2, <1>4, <1>5 DEF LInv

\* What _emit does: nothing, or one new line into the buffer, which its writer may take.
LEMMA EmitMoves ==
    ASSUME LInv, NEW t \in Threads, NEW by \in {"task", "system"}, _emit(t, by)
    PROVE  \/ UNCHANGED <<rec, batch, made, late>>
           \/ \E line \in Lines :
                 /\ line.seq = rec.seq + 1 /\ line.by # "sweep"
                 /\ made' = made \cup {line}
                 /\ late' = IF stage = "engine" THEN late ELSE late \cup {line}
                 /\ rec' \in [seq : Nat, buf : SUBSET Lines, noted : BOOLEAN]
                 /\ rec'.seq = rec.seq + 1
                 /\ \/ rec'.buf = rec.buf \cup {line} /\ batch' = batch
                    \/ /\ batch[t] = {} /\ rec'.buf = {}
                       /\ batch' = [batch EXCEPT ![t] = rec.buf \cup {line}]
<1> DEFINE over == by = "task" /\ rec.seq >= MaxLines
           line == [seq |-> rec.seq + 1, by |-> IF over THEN "note" ELSE by]
           noting == ~over \/ ~rec.noted
           next == [rec EXCEPT !.seq = @ + 1, !.noted = @ \/ over]
           buf  == rec.buf \cup {line}
<1>0. rec \in [seq : Nat, buf : SUBSET Lines, noted : BOOLEAN]
  BY DEF LInv, Types
<1>1. line \in Lines /\ line.seq = rec.seq + 1 /\ line.by # "sweep"
  BY <1>0 DEF Lines
<1>2. /\ next \in [seq : Nat, buf : SUBSET Lines, noted : BOOLEAN]
      /\ next.seq = rec.seq + 1
  <2> DEFINE noted == rec.noted \/ over
  <2>1. noted \in BOOLEAN
    OBVIOUS
  <2>2. next = [rec EXCEPT !.seq = @ + 1, !.noted = noted]
    BY <1>0
  <2> HIDE DEF noted, next
  <2>3. rec.seq + 1 \in Nat
    BY <1>0
  <2> QED BY ONLY <1>0, <2>1, <2>2, <2>3
<1>3. /\ batch[t] = {}
      /\ IF ~noting THEN UNCHANGED <<rec, batch, made, late>>
         ELSE /\ made' = made \cup {line}
              /\ late' = IF stage = "engine" THEN late ELSE late \cup {line}
              /\ IF ~over /\ Cardinality(buf) >= FLUSH_BATCH
                 THEN Taken(t, next, buf)
                 ELSE rec' = [next EXCEPT !.buf = buf] /\ UNCHANGED batch
  BY DEF _emit
<1>4. buf \in SUBSET Lines
  BY <1>0, <1>1
<1> HIDE DEF over, line, next
<1>5. CASE ~noting
  BY <1>3, <1>5
<1>6. CASE noting /\ ~over /\ Cardinality(buf) >= FLUSH_BATCH
  <2>1. /\ made' = made \cup {line}
        /\ late' = IF stage = "engine" THEN late ELSE late \cup {line}
        /\ rec' = [next EXCEPT !.buf = {}] /\ batch' = [batch EXCEPT ![t] = buf]
    BY <1>3, <1>6 DEF Taken
  <2>2. rec' \in [seq : Nat, buf : SUBSET Lines, noted : BOOLEAN] /\ rec'.seq = rec.seq + 1 /\ rec'.buf = {}
    BY <1>2, <2>1
  <2> QED BY <1>1, <1>3, <2>1, <2>2
<1>7. CASE noting /\ ~(~over /\ Cardinality(buf) >= FLUSH_BATCH)
  <2>1. /\ made' = made \cup {line}
        /\ late' = IF stage = "engine" THEN late ELSE late \cup {line}
        /\ rec' = [next EXCEPT !.buf = buf] /\ batch' = batch
    BY <1>3, <1>7
  <2>2. rec' \in [seq : Nat, buf : SUBSET Lines, noted : BOOLEAN] /\ rec'.seq = rec.seq + 1 /\ rec'.buf = buf
    BY <1>2, <1>4, <2>1
  <2> QED BY <1>1, <2>1, <2>2
<1> QED BY <1>5, <1>6, <1>7

\* A step that emits keeps the invariant.
LEMMA EmitKeeps ==
    ASSUME LInv, NEW t \in Threads, NEW by \in {"task", "system"}, _emit(t, by),
           UNCHANGED <<rows, status, sweep, follower, lost, hidden, slow>>,
           out' \in [Readers -> 0..MaxOut], stage' \in Stages
    PROVE  LInv'
<1>0. Types /\ Numbers /\ Ledger(rec.buf, batch, lost, rows, made) /\ batch \in [Threads -> SUBSET Lines]
  BY DEF LInv, Types
<1>1. CASE UNCHANGED <<rec, batch, made, late>>
  <2>1. Types'
    BY <1>0, <1>1 DEF Types
  <2>2. Numbers'
    BY <1>0, <1>1 DEF Numbers
  <2>3. Ledger(rec.buf, batch, lost, rows, made)'
    BY <1>0, <1>1
  <2> QED BY <2>1, <2>2, <2>3 DEF LInv
<1>2. ASSUME NEW line \in Lines,
             line.seq = rec.seq + 1, line.by # "sweep",
             made' = made \cup {line},
             late' = IF stage = "engine" THEN late ELSE late \cup {line},
             rec' \in [seq : Nat, buf : SUBSET Lines, noted : BOOLEAN],
             rec'.seq = rec.seq + 1,
             \/ rec'.buf = rec.buf \cup {line} /\ batch' = batch
             \/ /\ batch[t] = {} /\ rec'.buf = {}
                /\ batch' = [batch EXCEPT ![t] = rec.buf \cup {line}]
      PROVE  LInv'
  <2>0. rec.seq \in Nat /\ rec.buf \subseteq Lines
    BY <1>0 DEF Types
  <2>1. Types'
    <3>1. batch' \in [Threads -> SUBSET Lines]
      BY <1>0, <1>2, <2>0
    <3>2. made' \subseteq Lines /\ late' \subseteq Lines
      BY <1>0, <1>2 DEF Types
    <3> QED BY <1>0, <1>2, <3>1, <3>2 DEF Types
  <2>2. Numbers'
    <3>1. IsFiniteSet(made')
      BY <1>0, <1>2, FS_AddElement DEF Numbers
    <3>2. \A l \in made' : 1 <= l.seq /\ l.seq <= rec'.seq
      BY <1>0, <1>2, <2>0 DEF Numbers, Types, Lines
    <3> QED BY <1>0, <1>2, <3>1, <3>2 DEF Numbers
  <2>3. \A l \in made : l.seq # line.seq
    BY <1>0, <1>2, <2>0 DEF Numbers, Types, Lines
  <2>4. Ledger(rec.buf \cup {line}, batch, lost, rows, made')
    BY <1>0, <1>2, <2>3, LedgerKept
  <2>5. batch[t] = {} => Ledger({}, [batch EXCEPT ![t] = rec.buf \cup {line}], lost, rows, made')
    BY <1>0, <2>4, LedgerKept
  <2>6. Ledger(rec.buf, batch, lost, rows, made)'
    BY <1>2, <2>4, <2>5
  <2> QED BY <2>1, <2>2, <2>6 DEF LInv
<1> QED BY <1>1, <1>2, EmitMoves

\* Storing lines keeps the numbers of the rows bounded and the rows finite.
LEMMA AppendKeeps ==
    ASSUME LInv, NEW lines \in SUBSET Lines, IsFiniteSet(lines),
           NEW n \in Nat, \A l \in lines : 1 <= l.seq /\ l.seq <= n, append_logs(lines)
    PROVE  /\ rows' = rows \cup Fresh(lines, rows)
           /\ rows' \subseteq Lines /\ hidden' \subseteq Lines
           /\ IsFiniteSet(rows') /\ \A x \in rows' : 1 <= x.seq
           /\ \E k \in Nat : \A x \in rows' : x.seq <= k
<1> DEFINE new == Fresh(lines, rows)
<1>0. rows \subseteq Lines /\ hidden \subseteq Lines /\ IsFiniteSet(rows) /\ \A x \in rows : 1 <= x.seq
  BY DEF LInv, Types, Numbers
<1>1. rows' = rows \cup new /\ new \subseteq lines /\ hidden' \subseteq hidden \cup new
  BY DEF append_logs, Fresh
<1>2. IsFiniteSet(new)
  BY <1>1, FS_Subset
<1> HIDE DEF new
<1>3. IsFiniteSet(rows')
  BY <1>0, <1>1, <1>2, FS_Union
<1>4. PICK m \in Nat : \A x \in rows : x.seq <= m
  BY DEF LInv, Numbers
<1>5. m + n \in Nat /\ \A x \in rows' : x.seq <= m + n
  BY <1>0, <1>1, <1>4 DEF Lines
<1> QED BY <1>0, <1>1, <1>3, <1>5 DEF new

\* The next number to use after the last row, and after the page.
LEMMA MaxAfter ==
    ASSUME LInv, NEW a \in Nat, NEW S \in SUBSET rows
    PROVE  LET m == Max({a} \cup {x.seq : x \in S})
           IN  /\ m \in Nat /\ a <= m /\ \A x \in S : x.seq <= m
               /\ m = a \/ \E x \in S : x.seq = m
<1> DEFINE T == {a} \cup {x.seq : x \in S}
<1>1. PICK n \in Nat : \A x \in rows : x.seq <= n
  BY DEF LInv, Numbers
<1>2. rows \subseteq Lines
  BY DEF LInv, Types
<1>3. T \in SUBSET Nat /\ T # {} /\ a \in T /\ (\A x \in S : x.seq \in T)
  BY <1>2 DEF Lines
<1>4. \A k \in T : k <= n + a
  BY <1>1, <1>2 DEF Lines
<1>5. \A k \in T : k = a \/ \E x \in S : x.seq = k
  OBVIOUS
<1> HIDE DEF T
<1>6. Max(T) \in T /\ \A k \in T : k <= Max(T)
  BY <1>3, <1>4, MaxOfBounded
<1>7. /\ Max(T) \in Nat /\ a <= Max(T) /\ \A x \in S : x.seq <= Max(T)
      /\ Max(T) = a \/ \E x \in S : x.seq = Max(T)
  BY <1>3, <1>5, <1>6
<1> QED BY <1>7 DEF T

\* Every step keeps the ledger.
LEMMA LedgerStep ==
    ASSUME LInv, [Next]_vars
    PROVE  LInv'
<1>0. /\ Types /\ Numbers /\ Ledger(rec.buf, batch, lost, rows, made)
      /\ batch \in [Threads -> SUBSET Lines] /\ rec.buf \subseteq made
      /\ \A t \in Threads : batch[t] \subseteq made
      /\ rec \in [seq : Nat, buf : SUBSET Lines, noted : BOOLEAN] /\ "main" \in Threads /\ "flusher" \in Threads
  BY DEF LInv, Types, Ledger, Threads
<1>1. ASSUME NEW r \in Readers, Line(r) PROVE LInv'
  <2>1. out' \in [Readers -> 0..MaxOut]
    BY <1>0, <1>1, SizesAssumption DEF Types, Line
  <2>2. /\ stage' \in Stages /\ _emit(r, "task")
        /\ UNCHANGED <<rows, status, sweep, follower, lost, hidden, slow>> /\ r \in Threads
    BY <1>0, <1>1 DEF Types, Line, Threads
  <2> QED BY <2>1, <2>2, EmitKeeps
<1>2. ASSUME EngineEnds PROVE LInv'
  <2>1. /\ out' \in [Readers -> 0..MaxOut] /\ stage' \in Stages /\ _emit("main", "system")
        /\ UNCHANGED <<rows, status, sweep, follower, lost, hidden, slow>>
    BY <1>0, <1>2 DEF Types, EngineEnds, Stages
  <2> QED BY <1>0, <2>1, EmitKeeps
<1>3. ASSUME NEW t \in Threads, Stored(t) PROVE LInv'
  <2>1. /\ append_logs(batch[t]) /\ batch' = [batch EXCEPT ![t] = {}]
        /\ UNCHANGED <<rec, out, stage, status, sweep, follower, made, lost, late, slow>>
    BY <1>3 DEF Stored
  <2>2. IsFiniteSet(batch[t])
    BY <1>0, FS_Subset DEF Numbers
  <2>3. batch[t] \in SUBSET Lines /\ rec.seq \in Nat /\ \A l \in batch[t] : 1 <= l.seq /\ l.seq <= rec.seq
    BY <1>0 DEF Numbers
  <2>4. /\ rows' = rows \cup Fresh(batch[t], rows)
        /\ rows' \subseteq Lines /\ hidden' \subseteq Lines
        /\ IsFiniteSet(rows') /\ \A x \in rows' : 1 <= x.seq
        /\ \E k \in Nat : \A x \in rows' : x.seq <= k
    BY <2>1, <2>2, <2>3, AppendKeeps
  <2>5. Types'
    BY <1>0, <2>1, <2>4 DEF Types
  <2>6. Numbers'
    BY <1>0, <2>1, <2>4 DEF Numbers
  <2>7. Ledger(rec.buf, [batch EXCEPT ![t] = {}], lost, rows \cup Fresh(batch[t], rows), made)
    BY <1>0, LedgerKept
  <2> QED BY <2>1, <2>4, <2>5, <2>6, <2>7 DEF LInv
<1>4. ASSUME NEW t \in Threads, NotStored(t) PROVE LInv'
  <2>1. /\ lost' = lost \cup batch[t] /\ batch' = [batch EXCEPT ![t] = {}]
        /\ UNCHANGED <<rec, out, stage, rows, status, sweep, follower, made, late, hidden, slow>>
    BY <1>4 DEF NotStored
  <2>2. Types'
    BY <1>0, <2>1 DEF Types
  <2>3. Numbers'
    BY <1>0, <2>1 DEF Numbers
  <2>4. Ledger(rec.buf, [batch EXCEPT ![t] = {}], lost \cup batch[t], rows, made)
    BY <1>0, LedgerKept
  <2> QED BY <2>1, <2>2, <2>3, <2>4 DEF LInv
<1>5. ASSUME NEW t \in Threads, Flush(t), stage' \in Stages, slow' \in BOOLEAN,
             UNCHANGED <<out, rows, status, sweep, follower, made, lost, late, hidden>>
      PROVE  LInv'
  <2>1. /\ batch[t] = {} /\ rec' = [rec EXCEPT !.buf = {}] /\ batch' = [batch EXCEPT ![t] = rec.buf]
    BY <1>5 DEF Flush, Taken
  <2>2. rec' \in [seq : Nat, buf : SUBSET Lines, noted : BOOLEAN] /\ rec'.buf = {} /\ rec'.seq = rec.seq
    BY <1>0, <2>1
  <2>3. batch' \in [Threads -> SUBSET Lines]
    BY <1>0, <2>1
  <2>4. Types'
    BY <1>0, <1>5, <2>2, <2>3 DEF Types
  <2>5. Numbers'
    BY <1>0, <1>5, <2>2 DEF Numbers
  <2>6. Ledger({}, [batch EXCEPT ![t] = rec.buf], lost, rows, made)
    BY <1>0, <2>1, LedgerKept
  <2> QED BY <1>5, <2>1, <2>2, <2>4, <2>5, <2>6 DEF LInv
<1>6. ASSUME FlushLoop PROVE LInv'
  BY <1>0, <1>5, <1>6 DEF FlushLoop, history, Types
<1>7. ASSUME UNCHANGED <<rec, out, batch, rows, follower, made, lost, late, hidden>>, slow' \in BOOLEAN,
             stage' \in Stages, status' \in {"running", "worker", "swept"},
             sweep' \in [stage : {"idle", "tail", "append", "over"}, seq : Nat],
             sweep'.stage = "append" => sweep'.seq >= 1
      PROVE  LInv'
  <2>1. Types'
    BY <1>0, <1>7 DEF Types
  <2>2. Numbers'
    BY <1>0, <1>7 DEF Numbers
  <2> QED BY <1>0, <1>7, <2>1, <2>2 DEF LInv
<1>8. ASSUME Close \/ Finish PROVE LInv'
  BY <1>0, <1>7, <1>8 DEF Close, Finish, history, Types, Stages, Numbers
<1>9. ASSUME CloseFlush PROVE LInv'
  <2>1. /\ stage' \in Stages /\ slow' \in BOOLEAN
        /\ UNCHANGED <<out, rows, status, sweep, follower, made, lost, late, hidden>>
        /\ IF rec.buf = {} THEN UNCHANGED <<rec, batch>> ELSE Flush("main")
    BY <1>9 DEF CloseFlush, Stages
  <2>2. CASE rec.buf = {}
    BY <1>0, <1>7, <2>1, <2>2 DEF Types, Numbers
  <2>3. CASE rec.buf # {}
    BY <1>0, <1>5, <2>1, <2>3
  <2> QED BY <2>2, <2>3
<1>10. ASSUME Crash PROVE LInv'
  <2>1. /\ lost' = lost \cup rec.buf \cup InBatches(batch)
        /\ rec' = [rec EXCEPT !.buf = {}] /\ batch' = NoBatches /\ stage' \in Stages
        /\ UNCHANGED <<out, rows, status, sweep, follower, made, late, hidden, slow>>
    BY <1>10 DEF Crash, Stages, InBatches, NoBatches
  <2>2. rec' \in [seq : Nat, buf : SUBSET Lines, noted : BOOLEAN] /\ rec'.buf = {} /\ rec'.seq = rec.seq
    BY <1>0, <2>1
  <2>3. lost' \subseteq Lines /\ batch' \in [Threads -> SUBSET Lines]
    BY <1>0, <2>1 DEF Types, InBatches, NoBatches
  <2>4. Types'
    BY <1>0, <2>1, <2>2, <2>3 DEF Types
  <2>5. Numbers'
    BY <1>0, <2>1, <2>2 DEF Numbers
  <2>6. Ledger({}, NoBatches, lost \cup rec.buf \cup InBatches(batch), rows, made)
    BY <1>0, LedgerKept
  <2> QED BY <2>1, <2>2, <2>4, <2>5, <2>6 DEF LInv
<1>11. ASSUME Sweep PROVE LInv'
  BY <1>0, <1>7, <1>11 DEF Sweep, worker, history, Types
<1>12. ASSUME _next_seq PROVE LInv'
  <2>1. Max({0} \cup {x.seq : x \in rows}) \in Nat
    BY MaxAfter
  <2>2. sweep' \in [stage : {"idle", "tail", "append", "over"}, seq : Nat] /\ sweep'.seq >= 1
    BY <1>12, <2>1 DEF _next_seq
  <2> QED BY <1>0, <1>7, <1>12, <2>2 DEF _next_seq, worker, history, Types
<1>13. ASSUME SweepAppend PROVE LInv'
  <2> DEFINE line == SweepLine(sweep.seq)
  <2>1. /\ append_logs({line}) /\ sweep' = [stage |-> "over", seq |-> 0] /\ sweep.stage = "append"
        /\ UNCHANGED <<rec, out, batch, stage, status, follower, made, lost, late, slow>>
    BY <1>13 DEF SweepAppend, worker, SweepLine
  <2>2. sweep.seq \in Nat /\ sweep.seq >= 1
    BY <1>0, <2>1 DEF Types, Numbers
  <2>3. {line} \in SUBSET Lines /\ IsFiniteSet({line}) /\ \A l \in {line} : 1 <= l.seq /\ l.seq <= sweep.seq
    <3>1. line \in Lines /\ line.seq = sweep.seq
      BY <2>2 DEF SweepLine, Lines
    <3> HIDE DEF line
    <3>2. IsFiniteSet({line})
      BY FS_Singleton
    <3> QED BY <2>2, <3>1, <3>2
  <2> HIDE DEF line
  <2>4. /\ rows' = rows \cup Fresh({line}, rows)
        /\ rows' \subseteq Lines /\ hidden' \subseteq Lines
        /\ IsFiniteSet(rows') /\ \A x \in rows' : 1 <= x.seq
        /\ \E k \in Nat : \A x \in rows' : x.seq <= k
    BY <2>1, <2>2, <2>3, AppendKeeps
  <2>5. Types'
    BY <1>0, <2>1, <2>4 DEF Types
  <2>6. Numbers'
    BY <1>0, <2>1, <2>4 DEF Numbers
  <2>7. Ledger(rec.buf, batch, lost, rows \cup Fresh({line}, rows), made)
    BY <1>0, <2>2, LedgerKept DEF line
  <2> QED BY <2>1, <2>4, <2>5, <2>6, <2>7 DEF LInv
<1>14. ASSUME UNCHANGED <<rec, out, batch, stage, rows, status, sweep, made, lost, late, hidden, slow>>,
              follower' \in [stage : {"status", "lines", "done"}, ended : BOOLEAN, after : Nat, got : SUBSET Lines],
              follower'.got \subseteq rows
       PROVE  LInv'
  <2>1. Types'
    BY <1>0, <1>14 DEF Types
  <2>2. Numbers'
    BY <1>0, <1>14 DEF Numbers
  <2> QED BY <1>0, <1>14, <2>1, <2>2 DEF LInv
<1>15. ASSUME ReadStatus PROVE LInv'
  <2>1. /\ follower' = [follower EXCEPT !.stage = "lines", !.ended = status # "running"]
        /\ UNCHANGED <<rec, out, batch, stage, rows, status, sweep, made, lost, late, hidden, slow>>
    BY <1>15 DEF ReadStatus, worker, history
  <2>2. /\ follower' \in [stage : {"status", "lines", "done"}, ended : BOOLEAN, after : Nat, got : SUBSET Lines]
        /\ follower'.got = follower.got
    BY <1>0, <2>1 DEF Types
  <2> QED BY <1>0, <1>14, <2>1, <2>2 DEF Numbers
<1>16. ASSUME ReadLines PROVE LInv'
  <2> DEFINE page == list_logs(follower.after)
             done == follower.ended /\ Cardinality(page) < Page
             top  == Max({follower.after} \cup {x.seq : x \in page})
  <2>1. page \in SUBSET rows /\ follower.after \in Nat /\ rows \subseteq Lines /\ follower.got \subseteq rows
    BY <1>0 DEF list_logs, Types, Numbers
  <2>2. top \in Nat
    <3> HIDE DEF page
    <3> QED BY <2>1, MaxAfter
  <2>3. /\ follower' = [stage |-> IF done THEN "done" ELSE "status", ended |-> FALSE,
                        after |-> top, got |-> follower.got \cup page]
        /\ UNCHANGED <<rec, out, batch, stage, rows, status, sweep, made, lost, late, hidden, slow>>
    BY <1>16 DEF ReadLines, worker, history
  <2> HIDE DEF page, done, top
  <2>4. /\ follower' \in [stage : {"status", "lines", "done"}, ended : BOOLEAN, after : Nat, got : SUBSET Lines]
        /\ follower'.got \subseteq rows
    BY <2>1, <2>2, <2>3
  <2> QED BY <1>14, <2>3, <2>4
<1>17. ASSUME UNCHANGED vars PROVE LInv'
  BY <1>0, <1>7, <1>17 DEF vars, Types, Numbers
<1> QED BY <1>1, <1>2, <1>3, <1>4, <1>6, <1>8, <1>9, <1>10, <1>11, <1>12, <1>13, <1>15, <1>16, <1>17 DEF Next

\* The ledger says so in the words of LinesAccounted.
LEMMA LedgerBalances ==
    ASSUME LInv
    PROVE  LinesAccounted
<1> DEFINE landed == rows \cap made
           displaced == {l \in made \ (rec.buf \cup lost) :
                            \A t \in Threads : l \notin batch[t] /\ SweepLine(l.seq) \in rows}
           places == {rec.buf, landed, lost, displaced}
<1>0. Types /\ Numbers /\ Ledger(rec.buf, batch, lost, rows, made) /\ "main" \in Threads
  BY DEF LInv, Threads
<1>1. TypeOK
  BY <1>0 DEF Types, Numbers, TypeOK
<1>2. ASSUME NEW l \in made
      PROVE  Cardinality({p \in places : l \in p}) + Cardinality({t \in Threads : l \in batch[t]}) = 1
  <2> DEFINE P == {p \in places : l \in p}
             B == {t \in Threads : l \in batch[t]}
  <2>1. SweepLine(l.seq) \in rows => l \notin rows
    <3>1. SweepLine(l.seq).seq = l.seq /\ SweepLine(l.seq).by = "sweep" /\ l.by # "sweep"
      BY <1>0 DEF SweepLine, Ledger
    <3> QED BY <1>0, <3>1 DEF Ledger
  <2>2. /\ l \in displaced <=> /\ l \notin rec.buf /\ l \notin lost /\ SweepLine(l.seq) \in rows
                               /\ \A t \in Threads : l \notin batch[t]
        /\ l \in landed <=> l \in rows
    BY <1>0
  <2> HIDE DEF landed, displaced
  <2>3. CASE \E t \in Threads : l \in batch[t]
    <3>1. PICK t \in Threads : l \in batch[t]
      BY <2>3
    <3>2. B = {t}
      BY <1>0, <3>1 DEF Ledger
    <3>3. P = {}
      BY <1>0, <2>2, <3>1 DEF Ledger
    <3> HIDE DEF P, B
    <3>4. Cardinality(B) = 1 /\ Cardinality(P) = 0
      BY <3>2, <3>3, FS_Singleton, FS_EmptySet
    <3> QED BY <3>4 DEF P, B
  <2>4. CASE ~\E t \in Threads : l \in batch[t]
    <3>1. B = {}
      BY <2>4
    <3>2. \E p : P = {p}
      <4>1. CASE l \in rec.buf
        <5>1. P = {rec.buf}
          BY <1>0, <2>2, <4>1 DEF Ledger
        <5> QED BY <5>1
      <4>2. CASE l \in lost
        <5>1. P = {lost}
          BY <1>0, <2>2, <4>2 DEF Ledger
        <5> QED BY <5>1
      <4>3. CASE l \in rows
        <5>1. P = {landed}
          BY <1>0, <2>1, <2>2, <4>3 DEF Ledger
        <5> QED BY <5>1
      <4>4. CASE l \notin rec.buf /\ l \notin lost /\ l \notin rows
        <5>1. SweepLine(l.seq) \in rows
          BY <1>0, <2>4, <4>4 DEF Ledger
        <5>2. P = {displaced}
          BY <2>2, <2>4, <4>4, <5>1
        <5> QED BY <5>2
      <4> QED BY <4>1, <4>2, <4>3, <4>4
    <3> HIDE DEF P, B
    <3>3. Cardinality(P) = 1 /\ Cardinality(B) = 0
      BY <3>1, <3>2, FS_Singleton, FS_EmptySet
    <3> QED BY <3>3 DEF P, B
  <2> QED BY <2>3, <2>4
<1>3. \A x, y \in rows : x.seq = y.seq => x = y
  BY <1>0 DEF Ledger
<1> QED BY <1>1, <1>2, <1>3 DEF LinesAccounted, SweepLine

\* Every numbered line is in exactly one place, whichever threads flush at once,
\* with any number of readers and whatever fails.
THEOREM LinesAreAccounted == Spec => []LinesAccounted
<1>1. Init => LInv
  BY InitLedger
<1>2. LInv /\ [Next]_vars => LInv'
  BY LedgerStep
<1>3. LInv => LinesAccounted
  BY LedgerBalances
<1> QED BY <1>1, <1>2, <1>3, PTL DEF Spec

-----------------------------------------------------------------------------
(* The end of the log *)

\* Only a sweep writes sweep rows; after close has flushed in time, what was
\* written before the end is stored, lost or with the run's thread, and once the
\* worker has finished the run it is stored or lost.
EndInv ==
    /\ sweep.stage # "idle" => status = "swept"
    /\ status # "swept" => rows \subseteq made
    /\ status = "worker" => stage = "over"
    /\ stage \in {"flushing", "over"} /\ ~slow /\ status # "swept" =>
          \A l \in made \ late : l \in rows \cup lost \cup batch["main"]
    /\ DoneIsComplete

\* Every step keeps it.
LEMMA EndStep ==
    ASSUME LInv, EndInv, [Next]_vars
    PROVE  EndInv'
<1>0. /\ Types /\ Ledger(rec.buf, batch, lost, rows, made) /\ batch \in [Threads -> SUBSET Lines]
      /\ sweep \in [stage : {"idle", "tail", "append", "over"}, seq : Nat]
      /\ "main" \in Threads /\ "flusher" \in Threads
  BY DEF LInv, Types, Threads
<1>1. ASSUME NEW t \in Threads, NEW by \in {"task", "system"}, _emit(t, by), stage # "dead",
             UNCHANGED <<rows, status, sweep, lost, slow>>,
             stage' = stage \/ (stage = "engine" /\ stage' = "ended")
      PROVE  EndInv'
  <2>1. CASE UNCHANGED <<rec, batch, made, late>>
    BY <1>1, <2>1 DEF EndInv, DoneIsComplete
  <2>2. CASE ~UNCHANGED <<rec, batch, made, late>>
    <3>1. PICK line \in Lines :
             /\ made' = made \cup {line}
             /\ late' = IF stage = "engine" THEN late ELSE late \cup {line}
             /\ \/ batch' = batch
                \/ batch[t] = {} /\ batch' = [batch EXCEPT ![t] = rec.buf \cup {line}]
      BY <1>1, <2>2, EmitMoves
    <3>2. batch["main"] \subseteq batch'["main"]
      BY <1>0, <3>1
    <3> QED BY <1>1, <3>1, <3>2 DEF EndInv, DoneIsComplete
  <2> QED BY <2>1, <2>2
<1>2. ASSUME NEW r \in Readers, Line(r) PROVE EndInv'
  BY <1>1, <1>2 DEF Line, Threads
<1>3. ASSUME EngineEnds PROVE EndInv'
  BY <1>0, <1>1, <1>3 DEF EngineEnds
<1>4. ASSUME NEW t \in Threads, Stored(t) PROVE EndInv'
  <2>1. /\ rows' = rows \cup Fresh(batch[t], rows) /\ batch' = [batch EXCEPT ![t] = {}]
        /\ UNCHANGED <<stage, status, sweep, made, lost, late, slow>>
    BY <1>4 DEF Stored, append_logs, Fresh
  <2>2. batch[t] \subseteq made
    BY <1>0 DEF Ledger
  <2>3. rows \subseteq made => batch[t] \subseteq rows'
    BY <1>0, <2>1, <2>2 DEF Ledger, Fresh
  <2>4. rows \subseteq rows' /\ rows' \subseteq rows \cup made
    BY <2>1, <2>2 DEF Fresh
  <2>5. batch'["main"] = IF t = "main" THEN {} ELSE batch["main"]
    BY <1>0, <2>1
  <2> QED BY <2>1, <2>3, <2>4, <2>5 DEF EndInv, DoneIsComplete
<1>5. ASSUME NEW t \in Threads, NotStored(t) PROVE EndInv'
  <2>1. /\ lost' = lost \cup batch[t] /\ batch' = [batch EXCEPT ![t] = {}]
        /\ UNCHANGED <<stage, rows, status, sweep, made, late, slow>>
    BY <1>5 DEF NotStored
  <2>2. batch'["main"] = IF t = "main" THEN {} ELSE batch["main"]
    BY <1>0, <2>1
  <2> QED BY <2>1, <2>2 DEF EndInv, DoneIsComplete
<1>6. ASSUME FlushLoop \/ Close PROVE EndInv'
  <2>1. /\ stage' \notin {"flushing", "over"} /\ stage # "over"
        /\ UNCHANGED <<rows, status, sweep, made, lost, late, slow>>
    BY <1>6 DEF FlushLoop, Close, history
  <2> QED BY <2>1 DEF EndInv, DoneIsComplete
<1>7. ASSUME CloseFlush PROVE EndInv'
  <2>1. /\ stage' = "flushing" /\ stage = "joining"
        /\ UNCHANGED <<rows, status, sweep, made, lost, late>>
        /\ slow' = (\E t \in Threads : batch[t] # {})
        /\ IF rec.buf = {} THEN UNCHANGED <<rec, batch>> ELSE Flush("main")
    BY <1>7 DEF CloseFlush
  <2>2. rec.buf \subseteq batch'["main"]
    BY <1>0, <2>1 DEF Flush, Taken
  <2>3. ASSUME ~slow', status # "swept", NEW l \in made PROVE l \in rows \cup lost \cup batch'["main"]
    <3>1. \A t \in Threads : l \notin batch[t]
      BY <2>1, <2>3
    <3>2. SweepLine(l.seq) \notin rows
      <4>1. SweepLine(l.seq).by = "sweep"
        BY DEF SweepLine
      <4> QED BY <1>0, <2>3, <4>1 DEF Ledger, EndInv
    <3> QED BY <1>0, <2>2, <3>1, <3>2 DEF Ledger
  <2>4. status # "worker"
    BY <2>1 DEF EndInv
  <2> QED BY <2>1, <2>3, <2>4 DEF EndInv, DoneIsComplete
<1>8. ASSUME Finish PROVE EndInv'
  BY <1>8 DEF Finish, history, EndInv, DoneIsComplete
<1>9. ASSUME Crash PROVE EndInv'
  <2>1. /\ stage # "over" /\ stage' = "dead" /\ UNCHANGED <<rows, status, sweep, made, late, slow>>
    BY <1>9 DEF Crash
  <2> QED BY <2>1 DEF EndInv, DoneIsComplete
<1>10. ASSUME Sweep \/ _next_seq PROVE EndInv'
  <2>1. /\ status' = "swept" /\ UNCHANGED <<stage, rows, batch, made, lost, late, slow>>
    BY <1>10 DEF Sweep, _next_seq, worker, history, EndInv
  <2> QED BY <2>1 DEF EndInv, DoneIsComplete
<1>11. ASSUME SweepAppend PROVE EndInv'
  <2>1. /\ status' = "swept" /\ UNCHANGED <<stage, batch, made, lost, late, slow>>
    BY <1>11 DEF SweepAppend, worker, EndInv
  <2> QED BY <2>1 DEF EndInv, DoneIsComplete
<1>12. ASSUME ReadStatus \/ ReadLines \/ UNCHANGED vars PROVE EndInv'
  <2>1. UNCHANGED <<stage, batch, rows, status, sweep, made, lost, late, slow>>
    BY <1>12 DEF ReadStatus, ReadLines, vars, worker, history
  <2> QED BY <2>1 DEF EndInv, DoneIsComplete
<1> QED BY <1>2, <1>3, <1>4, <1>5, <1>6, <1>7, <1>8, <1>9, <1>10, <1>11, <1>12 DEF Next

\* When the worker's terminal status shows, every line written before the end is
\* stored or was lost with its batch, unless close gave up on a slow batch.
THEOREM EndsComplete == Spec => []DoneIsComplete
<1>1. Init => LInv /\ EndInv
  <2>1. Init => EndInv
    BY DEF Init, EndInv, DoneIsComplete
  <2> QED BY <2>1, InitLedger
<1>2. LInv /\ EndInv /\ [Next]_vars => LInv' /\ EndInv'
  BY LedgerStep, EndStep
<1>3. LInv /\ EndInv => DoneIsComplete
  BY DEF EndInv
<1> QED BY <1>1, <1>2, <1>3, PTL DEF Spec

-----------------------------------------------------------------------------
(* The follower *)

\* The follower's number is that of a row it has seen (or none): whatever is at or
\* below it was read, or was stored below it afterwards; "ended" was read of a run
\* that had ended.
FollowInv ==
    /\ \A x \in rows : x.seq <= follower.after => x \in follower.got \cup hidden
    /\ follower.after = 0 \/ \E x \in rows : x.seq = follower.after
    /\ follower.ended \/ follower.stage = "done" => status # "running"
    /\ FollowerHasAll

\* A page holds everything up to its last line; a short page holds everything.
LEMMA PageIsPrefix ==
    ASSUME LInv, NEW a \in Nat
    PROVE  /\ list_logs(a) \subseteq rows
           /\ \A x \in list_logs(a), y \in rows : y.seq > a /\ y.seq <= x.seq => y \in list_logs(a)
           /\ Cardinality(list_logs(a)) < Page => \A y \in rows : y.seq > a => y \in list_logs(a)
<1> DEFINE more == {x \in rows : x.seq > a}
           below(x) == {y \in more : y.seq < x.seq}
           page == list_logs(a)
<1>0. rows \subseteq Lines /\ IsFiniteSet(rows) /\ \A x \in rows : x.seq \in Nat
  BY DEF LInv, Types, Numbers, Lines
<1>1. page = {x \in more : Cardinality(below(x)) < Page}
  BY DEF list_logs
<1>2. IsFiniteSet(more) /\ \A x \in more : IsFiniteSet(below(x)) /\ Cardinality(below(x)) \in Nat
  BY <1>0, FS_Subset, FS_CardinalityType
<1>3. page \subseteq more /\ IsFiniteSet(page) /\ Cardinality(page) \in Nat
  <2>1. page \subseteq more
    BY <1>1
  <2> HIDE DEF page, more
  <2> QED BY <1>2, <2>1, FS_Subset, FS_CardinalityType
<1>4. ASSUME NEW x \in page, NEW y \in rows, y.seq > a, y.seq <= x.seq PROVE y \in page
  <2>1. x \in more /\ y \in more /\ Cardinality(below(x)) < Page
    BY <1>1, <1>4
  <2>2. below(y) \subseteq below(x)
    BY <1>0, <1>4, <2>1
  <2>3. Cardinality(below(y)) <= Cardinality(below(x))
    <3> HIDE DEF below, more, page
    <3> QED BY <1>2, <2>1, <2>2, FS_Subset
  <2>4. Cardinality(below(y)) < Page
    <3> HIDE DEF below, more, page
    <3> QED BY <1>2, <2>1, <2>3, SizesAssumption
  <2> QED BY <1>1, <2>1, <2>4
<1>5. ASSUME Cardinality(page) < Page, NEW y \in more, y \notin page PROVE FALSE
  <2> DEFINE T == {x.seq : x \in more \ page}
  <2>1. T \in SUBSET Nat /\ T # {}
    BY <1>0, <1>5
  <2>2. PICK m \in T : \A k \in T : m <= k
    <3> HIDE DEF T
    <3> QED BY <2>1, LeastMember
  <2>3. PICK x \in more \ page : x.seq = m
    BY <2>2
  <2>4. below(x) \subseteq page
    BY <1>0, <2>1, <2>2, <2>3
  <2>5. Cardinality(below(x)) < Page
    <3> HIDE DEF below, more, page
    <3>1. Cardinality(below(x)) <= Cardinality(page)
      BY <1>3, <2>4, FS_Subset
    <3> QED BY <1>2, <1>3, <1>5, <2>3, <3>1, SizesAssumption
  <2> QED BY <1>1, <2>3, <2>5
<1> QED BY <1>1, <1>4, <1>5

\* Rows that are added below the follower's number, or once it is done, are hidden.
LEMMA AppendFollows ==
    ASSUME LInv, FollowInv, NEW lines \in SUBSET Lines, \A l \in lines : 1 <= l.seq, append_logs(lines),
           UNCHANGED <<status, follower>>
    PROVE  FollowInv'
<1> DEFINE new == Fresh(lines, rows)
<1>0. /\ rows \subseteq Lines /\ follower.after \in Nat /\ \A x \in rows : x.seq \in Nat
      /\ \A l \in lines : l.seq \in Nat
  BY DEF LInv, Types, Lines
<1>1. /\ rows' = rows \cup new /\ new \subseteq lines
      /\ \A l \in new, x \in rows : x.seq # l.seq
      /\ hidden' = hidden \cup {l \in new : status # "running" \/ \E x \in rows : x.seq > l.seq}
  BY DEF append_logs, Fresh
<1> HIDE DEF new
<1>2. \A l \in new : l.seq <= follower.after => l \in hidden'
  BY <1>0, <1>1 DEF FollowInv
<1>3. follower.stage = "done" => \A l \in new : l \in hidden'
  BY <1>1 DEF FollowInv
<1>4. \A x \in rows' : x.seq <= follower.after => x \in follower.got \cup hidden'
  BY <1>1, <1>2 DEF FollowInv
<1>5. FollowerHasAll'
  BY <1>1, <1>3 DEF FollowInv, FollowerHasAll
<1> QED BY <1>1, <1>4, <1>5 DEF FollowInv

\* Every step keeps the follower's place.
LEMMA FollowStep ==
    ASSUME LInv, FollowInv, [Next]_vars
    PROVE  FollowInv'
<1>0. /\ Types /\ Numbers /\ Ledger(rec.buf, batch, lost, rows, made)
      /\ rows \subseteq Lines /\ follower.after \in Nat /\ \A x \in rows : x.seq \in Nat
      /\ follower \in [stage : {"status", "lines", "done"}, ended : BOOLEAN, after : Nat, got : SUBSET Lines]
  BY DEF LInv, Types, Lines
<1>1. ASSUME NEW t \in Threads, Stored(t) PROVE FollowInv'
  <2>1. /\ append_logs(batch[t]) /\ UNCHANGED <<status, follower>>
        /\ batch[t] \in SUBSET Lines /\ \A l \in batch[t] : 1 <= l.seq
    BY <1>0, <1>1 DEF Stored, Types, Numbers, Ledger
  <2> QED BY <2>1, AppendFollows
<1>2. ASSUME SweepAppend PROVE FollowInv'
  <2> DEFINE line == SweepLine(sweep.seq)
  <2>1. append_logs({line}) /\ UNCHANGED <<status, follower>> /\ sweep.seq \in Nat /\ sweep.seq >= 1
    BY <1>0, <1>2 DEF SweepAppend, SweepLine, Types, Numbers
  <2>2. line \in Lines /\ line.seq = sweep.seq
    BY <2>1 DEF SweepLine, Lines
  <2> HIDE DEF line
  <2>3. {line} \in SUBSET Lines /\ \A l \in {line} : 1 <= l.seq
    BY <2>1, <2>2
  <2> QED BY <2>1, <2>3, AppendFollows
<1>3. ASSUME UNCHANGED <<rows, hidden, follower>>, status # "running" => status' # "running" PROVE FollowInv'
  BY <1>3 DEF FollowInv, FollowerHasAll
<1>4. ASSUME \/ \E r \in Readers : Line(r)
             \/ \E t \in Threads : NotStored(t)
             \/ FlushLoop \/ EngineEnds \/ Close \/ CloseFlush \/ Finish \/ Crash \/ Sweep \/ _next_seq
             \/ UNCHANGED vars
      PROVE  FollowInv'
  <2>1. UNCHANGED <<rows, hidden, follower>> /\ (status # "running" => status' # "running")
    BY <1>4 DEF Line, NotStored, FlushLoop, EngineEnds, Close, CloseFlush, Finish, Crash, Sweep, _next_seq,
                worker, history, vars
  <2> QED BY <1>3, <2>1
<1>5. ASSUME ReadStatus PROVE FollowInv'
  <2>1. /\ follower' = [follower EXCEPT !.stage = "lines", !.ended = status # "running"]
        /\ UNCHANGED <<rows, status, hidden>>
    BY <1>5 DEF ReadStatus, worker, history
  <2>2. /\ follower'.stage = "lines" /\ (follower'.ended => status # "running")
        /\ follower'.after = follower.after /\ follower'.got = follower.got
    BY <1>0, <2>1
  <2> QED BY <2>1, <2>2 DEF FollowInv, FollowerHasAll
<1>6. ASSUME ReadLines PROVE FollowInv'
  <2> DEFINE page == list_logs(follower.after)
             done == follower.ended /\ Cardinality(page) < Page
             top  == Max({follower.after} \cup {x.seq : x \in page})
  <2>1. /\ page \in SUBSET rows
        /\ \A x \in page, y \in rows : y.seq > follower.after /\ y.seq <= x.seq => y \in page
        /\ Cardinality(page) < Page => \A y \in rows : y.seq > follower.after => y \in page
    BY <1>0, PageIsPrefix
  <2>2. /\ top \in Nat /\ follower.after <= top /\ \A x \in page : x.seq <= top
        /\ top = follower.after \/ \E x \in page : x.seq = top
    <3> HIDE DEF page
    <3> QED BY <1>0, <2>1, MaxAfter
  <2>3. /\ follower' = [stage |-> IF done THEN "done" ELSE "status", ended |-> FALSE,
                        after |-> top, got |-> follower.got \cup page]
        /\ UNCHANGED <<rows, status, hidden>>
    BY <1>6 DEF ReadLines, worker, history
  <2> HIDE DEF page, top
  <2>4. /\ follower'.stage = "done" <=> done
        /\ follower'.ended = FALSE /\ follower'.after = top /\ follower'.got = follower.got \cup page
    BY <2>3
  <2>5. \A x \in rows : x.seq <= top => x \in follower.got \cup page \cup hidden
    BY <1>0, <2>1, <2>2 DEF FollowInv
  <2>6. done => \A x \in rows : x \in follower.got \cup page \cup hidden
    BY <1>0, <2>1 DEF FollowInv
  <2>7. done => status # "running"
    BY DEF FollowInv
  <2>8. top = 0 \/ \E x \in rows : x.seq = top
    BY <2>1, <2>2 DEF FollowInv
  <2> HIDE DEF done
  <2> QED BY <2>3, <2>4, <2>5, <2>6, <2>7, <2>8 DEF FollowInv, FollowerHasAll
<1> QED BY <1>1, <1>2, <1>4, <1>5, <1>6 DEF Next

\* A follower that was told "done" has every row, but those stored after a higher
\* number was or after the run had ended: for every page size and number of polls.
THEOREM FollowersHaveAll == Spec => []FollowerHasAll
<1>1. Init => LInv /\ FollowInv
  <2>1. Init => FollowInv
    BY DEF Init, FollowInv, FollowerHasAll
  <2> QED BY <2>1, InitLedger
<1>2. LInv /\ FollowInv /\ [Next]_vars => LInv' /\ FollowInv'
  BY LedgerStep, FollowStep
<1>3. LInv /\ FollowInv => FollowerHasAll
  BY DEF FollowInv
<1> QED BY <1>1, <1>2, <1>3, PTL DEF Spec

-----------------------------------------------------------------------------
(* Task secrets: the keys that seal the rows *)

Attempted(a) ==
  /\ DOMAIN a = {"stage", "attempt", "need", "got"}
  /\ a.stage \in {"idle", "opening", "running", "done"} /\ a.need \subseteq Names
  /\ IsFiniteSet(DOMAIN a.got) /\ \A n \in DOMAIN a.got : n \in Names /\ a.got[n] \in Secrets

\* A run redacts every value it has handed out, each under one name.
Redacts ==
  /\ IsFiniteSet(DOMAIN byValue) /\ DOMAIN byValue \subseteq Secrets
  /\ \A v \in DOMAIN byValue : byValue[v] \in Names
  /\ handed \subseteq DOMAIN byValue

\* Replica r is going to seal row n again before it serves: it has yet to read
\* the rows, or has read this one and not come to it.
WillReseal(r, n) ==
  \/ phase[r] \in {"down", "loaded"}
  \/ phase[r] = "reseal" /\ \E s \in todo[r] : s.name = n

\* A row is under the key of some replica, unless one that has no keys yet or
\* is going to seal it again answers for it.
Answered ==
  \A n \in Names \ unsealed : row[n] # NONE =>
    \E r \in Replicas : box[r] = NONE \/ WillReseal(r, n) \/ box[r].current = row[n].key

SecretsInv ==
  /\ SecretsTypeOK
  /\ row \in [Names -> Rows \cup {NONE}] /\ \A n \in Names : row[n] # NONE => row[n].name = n
  /\ \A r \in Replicas : phase[r] \in {"loaded", "reseal"} => box[r] # NONE
  /\ DOMAIN task = Tasks /\ \A t \in Tasks : Attempted(task[t])
  /\ Redacts

LEMMA FirstSecrets == SecretsInit => SecretsInv /\ Answered
<1> SUFFICES ASSUME SecretsInit PROVE SecretsInv /\ Answered
  OBVIOUS
<1>1. Attempted(Unstarted)
  BY FS_EmptySet DEF Attempted, Unstarted
<1>2. DOMAIN byValue = {} /\ DOMAIN task = Tasks /\ \A t \in Tasks : task[t] = Unstarted
  BY DEF SecretsInit
<1>3. Redacts
  BY <1>2, FS_EmptySet DEF Redacts, SecretsInit
<1>4. \A t \in Tasks : Unstarted.stage = "idle"
  BY DEF Unstarted
<1>5. SecretsTypeOK
  BY <1>2, <1>4, CapsAssumption DEF SecretsInit, SecretsTypeOK
<1> QED BY <1>1, <1>2, <1>3, <1>5 DEF SecretsInit, SecretsInv, Answered

\* What a replica loads: nothing, or keys of which one is current.
LEMMA LoadsBox == ASSUME SecretsTypeOK, ~SecretsError PROVE from_dir \in Box \cup {NONE}
<1>1. CASE mount = {}
  BY <1>1 DEF from_dir
<1>2. CASE mount # {}
  <2>1. PICK k : k = IF keyId = NONE THEN CHOOSE j \in mount : TRUE ELSE keyId
    OBVIOUS
  <2>2. k \in mount /\ mount \subseteq KeyIds
    BY <1>2, <2>1 DEF SecretsError, SecretsTypeOK
  <2>3. from_dir = [keys |-> mount, current |-> k]
    BY <1>2, <2>1 DEF from_dir
  <2> QED BY <2>2, <2>3 DEF Box
<1> QED BY <1>1, <1>2

\* Sealing under a replica's key makes a row of the table.
LEMMA SealsRow ==
  ASSUME NEW b \in Box, NEW n \in Names, NEW v \in Secrets
  PROVE  seal(b, n, v) \in Rows /\ seal(b, n, v).name = n /\ seal(b, n, v).key = b.current
BY DEF Box, seal, Rows

\* Adding values keeps the names of those that were there.
LEMMA AddsValues ==
  ASSUME NEW seen, NEW g, IsFiniteSet(DOMAIN seen), IsFiniteSet(DOMAIN g),
         DOMAIN seen \subseteq Secrets, \A v \in DOMAIN seen : seen[v] \in Names,
         \A n \in DOMAIN g : n \in Names /\ g[n] \in Secrets
  PROVE  /\ IsFiniteSet(DOMAIN add(seen, g)) /\ DOMAIN add(seen, g) \subseteq Secrets
         /\ DOMAIN add(seen, g) = DOMAIN seen \cup {g[n] : n \in DOMAIN g}
         /\ \A v \in DOMAIN add(seen, g) : add(seen, g)[v] \in Names
<1>1. DOMAIN add(seen, g) = DOMAIN seen \cup {g[n] : n \in DOMAIN g}
  BY DEF add
<1>2. IsFiniteSet({g[n] : n \in DOMAIN g})
  <2>1. PICK f : f = [n \in DOMAIN g |-> g[n]]
    OBVIOUS
  <2>2. f \in Surjection(DOMAIN g, {g[n] : n \in DOMAIN g})
    BY <2>1 DEF Surjection
  <2> QED BY <2>2, FS_Surjection
<1>3. IsFiniteSet(DOMAIN add(seen, g))
  BY <1>1, <1>2, FS_Union
<1>4. ASSUME NEW v \in DOMAIN add(seen, g)
      PROVE  add(seen, g)[v] \in Names /\ v \in Secrets
  <2>1. add(seen, g)[v] = IF v \in DOMAIN seen THEN seen[v] ELSE CHOOSE n \in DOMAIN g : g[n] = v
    BY <1>4 DEF add
  <2>2. CASE v \in DOMAIN seen
    BY <2>1, <2>2
  <2>3. CASE v \notin DOMAIN seen
    <3>1. \E n \in DOMAIN g : g[n] = v
      BY <1>1, <2>3
    <3> QED BY <2>1, <2>3, <3>1
  <2> QED BY <2>2, <2>3
<1> QED BY <1>1, <1>3, <1>4

\* Starting, re-sealing and stopping a replica, and owners' requests to it.
LEMMA KeysStep ==
  ASSUME SecretsInv, Answered, NEW r \in Replicas,
         \/ Start(r) \/ ResealReads(r) \/ Reseal(r) \/ ResealEnds(r) \/ ResealFails(r)
         \/ SetSecret(r) \/ DeleteSecret(r)
  PROVE  SecretsInv' /\ Answered'
<1>0. /\ SecretsTypeOK /\ row \in [Names -> Rows \cup {NONE}] /\ \A n \in Names : row[n] # NONE => row[n].name = n
      /\ box \in [Replicas -> Box \cup {NONE}]
      /\ phase \in [Replicas -> {"down", "loaded", "reseal", "up"}] /\ todo \in [Replicas -> SUBSET Rows]
      /\ ops \in 0..MaxOps /\ unsealed \subseteq Names /\ ops + 1 \in Nat
      /\ \A o \in Replicas : phase[o] \in {"loaded", "reseal"} => box[o] # NONE
  BY CapsAssumption DEF SecretsInv, SecretsTypeOK
<1>1. UNCHANGED <<mount, keyId, run, task, byValue, kept, handed>>
  BY DEF Start, ResealReads, Reseal, ResealEnds, ResealFails, SetSecret, DeleteSecret, keys, runState
<1>2. ASSUME row' \in [Names -> Rows \cup {NONE}], \A n \in Names : row'[n] # NONE => row'[n].name = n,
             box' \in [Replicas -> Box \cup {NONE}],
             phase' \in [Replicas -> {"down", "loaded", "reseal", "up"}], todo' \in [Replicas -> SUBSET Rows],
             unsealed' \subseteq Names, ops' \in 0..MaxOps,
             \A o \in Replicas : phase'[o] \in {"loaded", "reseal"} => box'[o] # NONE
      PROVE  SecretsInv'
  <2>1. SecretsTypeOK'
    BY <1>1, <1>2, <1>0 DEF SecretsTypeOK
  <2>2. Redacts' /\ DOMAIN task' = Tasks /\ \A t \in Tasks : Attempted(task'[t])
    BY <1>1 DEF SecretsInv, Redacts
  <2> QED BY <1>2, <2>1, <2>2 DEF SecretsInv
<1>3. CASE Start(r)
  <2>1. /\ box' = [box EXCEPT ![r] = from_dir] /\ UNCHANGED <<row, todo, unsealed, ops>>
        /\ phase' = [phase EXCEPT ![r] = IF from_dir = NONE THEN "up" ELSE "loaded"]
    BY <1>3 DEF Start
  <2>2. from_dir \in Box \cup {NONE}
    BY <1>0, <1>3, LoadsBox DEF Start
  <2>3. SecretsInv'
    BY <1>0, <1>2, <2>1, <2>2
  <2>4. box'[r] = NONE \/ phase'[r] = "loaded"
    BY <1>0, <2>1
  <2> QED BY <2>3, <2>4 DEF Answered, WillReseal
<1>4. CASE ResealReads(r)
  <2>1. PICK k : k = box[r].current
    OBVIOUS
  <2>2. /\ todo' = [todo EXCEPT ![r] = sealed_with_other_keys(k)] /\ phase' = [phase EXCEPT ![r] = "reseal"]
        /\ UNCHANGED <<box, row, unsealed, ops>> /\ phase[r] = "loaded"
    BY <1>4, <2>1 DEF ResealReads
  <2>3. sealed_with_other_keys(k) \subseteq Rows
    BY <1>0 DEF sealed_with_other_keys
  <2>4. SecretsInv'
    BY <1>0, <1>2, <2>2, <2>3
  <2>5. ASSUME NEW n \in Names, row[n] # NONE, row[n].key # k
        PROVE  WillReseal(r, n)'
    <3>1. row[n] \in todo'[r] /\ phase'[r] = "reseal" /\ row[n].name = n
      BY <1>0, <2>2, <2>5 DEF sealed_with_other_keys
    <3> QED BY <3>1 DEF WillReseal
  <2>6. Answered'
    BY <2>1, <2>2, <2>5 DEF Answered
  <2> QED BY <2>4, <2>6
<1>5. ASSUME NEW s \in Rows, row' = [row EXCEPT ![s.name] = s], s.key = box[r].current,
             UNCHANGED <<box, phase>>, unsealed' = unsealed \ {s.name}, ops' \in 0..MaxOps,
             \/ UNCHANGED todo \/ \E old \in todo[r] : old.name = s.name /\ todo' = [todo EXCEPT ![r] = @ \ {old}]
      PROVE  SecretsInv' /\ Answered'
  <2>1. s.name \in Names
    BY DEF Rows
  <2>2. row'[s.name] = s /\ \A n \in Names : n # s.name => row'[n] = row[n]
    BY <1>0, <1>5, <2>1
  <2>3. row' \in [Names -> Rows \cup {NONE}] /\ \A n \in Names : row'[n] # NONE => row'[n].name = n
    BY <1>0, <1>5, <2>1, <2>2
  <2>4. todo' \in [Replicas -> SUBSET Rows] /\ unsealed' \subseteq Names
    BY <1>0, <1>5
  <2>5. SecretsInv'
    BY <1>0, <1>2, <1>5, <2>3, <2>4
  <2>6. ASSUME NEW o \in Replicas, NEW n \in Names, n # s.name, WillReseal(o, n)
        PROVE  WillReseal(o, n)'
    BY <1>0, <1>5, <2>6 DEF WillReseal
  <2>7. ASSUME NEW n \in Names \ unsealed', row'[n] # NONE
        PROVE  \E o \in Replicas : box'[o] = NONE \/ WillReseal(o, n)' \/ box'[o].current = row'[n].key
    <3>1. CASE n = s.name
      BY <1>5, <2>2, <3>1
    <3>2. CASE n # s.name
      <4>1. n \in Names \ unsealed /\ row[n] # NONE /\ row'[n] = row[n]
        BY <1>5, <2>2, <2>7, <3>2
      <4>2. PICK o \in Replicas : box[o] = NONE \/ WillReseal(o, n) \/ box[o].current = row[n].key
        BY <4>1 DEF Answered
      <4> QED BY <1>5, <2>6, <3>2, <4>1, <4>2
    <3> QED BY <3>1, <3>2
  <2> QED BY <2>5, <2>7 DEF Answered
<1>6. CASE Reseal(r)
  <2>1. PICK s \in todo[r] :
          /\ todo' = [todo EXCEPT ![r] = @ \ {s}]
          /\ IF can_open(box[r], s.key)
             THEN put_task_secret(seal(box[r], s.name, s.value)) /\ unsealed' = unsealed \ {s.name}
             ELSE UNCHANGED row /\ unsealed' = unsealed \cup {s.name}
    BY <1>6 DEF Reseal
  <2>2. UNCHANGED <<box, phase, ops>> /\ s \in Rows /\ s.name \in Names /\ s.value \in Secrets
    BY <1>0, <1>6 DEF Reseal, Rows
  <2>3. CASE can_open(box[r], s.key)
    <3>1. PICK z : z = seal(box[r], s.name, s.value)
      OBVIOUS
    <3>2. box[r] \in Box
      BY <1>0, <1>6 DEF Reseal
    <3>3. z \in Rows /\ z.name = s.name /\ z.key = box[r].current
      BY <2>2, <3>1, <3>2, SealsRow
    <3>4. row' = [row EXCEPT ![z.name] = z] /\ unsealed' = unsealed \ {z.name}
      BY <2>1, <2>3, <3>1, <3>3 DEF put_task_secret
    <3> QED BY <1>0, <1>5, <2>1, <2>2, <3>3, <3>4
  <2>4. CASE ~can_open(box[r], s.key)
    <3>1. UNCHANGED row /\ unsealed' = unsealed \cup {s.name}
      BY <2>1, <2>4
    <3>2. SecretsInv'
      BY <1>0, <1>2, <2>1, <2>2, <3>1
    <3>3. ASSUME NEW o \in Replicas, NEW n \in Names, n # s.name, WillReseal(o, n)
          PROVE  WillReseal(o, n)'
      BY <1>0, <2>1, <2>2, <3>3 DEF WillReseal
    <3> QED BY <2>2, <3>1, <3>2, <3>3 DEF Answered
  <2> QED BY <2>3, <2>4
<1>7. CASE ResealEnds(r)
  <2>1. /\ phase' = [phase EXCEPT ![r] = "up"] /\ UNCHANGED <<box, todo, row, unsealed, ops>>
        /\ phase[r] = "reseal" /\ todo[r] = {}
    BY <1>7 DEF ResealEnds
  <2>2. SecretsInv'
    BY <1>0, <1>2, <2>1
  <2>3. ASSUME NEW o \in Replicas, NEW n \in Names, WillReseal(o, n)
        PROVE  WillReseal(o, n)'
    BY <1>0, <2>1, <2>3 DEF WillReseal
  <2> QED BY <2>1, <2>2, <2>3 DEF Answered
<1>8. CASE ResealFails(r)
  <2>1. /\ phase' = [phase EXCEPT ![r] = "up"] /\ todo' = [todo EXCEPT ![r] = {}] /\ unsealed' = Names
        /\ UNCHANGED <<box, row>> /\ ops' \in 0..MaxOps
    BY <1>0, <1>8, CapsAssumption DEF ResealFails, Count
  <2>2. SecretsInv'
    BY <1>0, <1>2, <2>1
  <2> QED BY <2>1, <2>2 DEF Answered
<1>9. CASE SetSecret(r)
  <2>1. PICK n \in Names, v \in Secrets :
          put_task_secret(seal(box[r], n, v)) /\ unsealed' = unsealed \ {n}
    BY <1>9 DEF SetSecret
  <2>2. UNCHANGED <<box, phase, todo>> /\ ops' \in 0..MaxOps /\ box[r] \in Box
    BY <1>0, <1>9, CapsAssumption DEF SetSecret, Count, boxes
  <2>3. PICK z : z = seal(box[r], n, v)
    OBVIOUS
  <2>4. z \in Rows /\ z.name = n /\ z.key = box[r].current
    BY <2>2, <2>3, SealsRow
  <2>5. row' = [row EXCEPT ![z.name] = z] /\ unsealed' = unsealed \ {z.name}
    BY <2>1, <2>3, <2>4 DEF put_task_secret
  <2> QED BY <1>5, <2>2, <2>4, <2>5
<1>10. CASE DeleteSecret(r)
  <2>1. PICK n \in Names : row' = [row EXCEPT ![n] = NONE] /\ unsealed' = unsealed \ {n}
    BY <1>10 DEF DeleteSecret
  <2>2. UNCHANGED <<box, phase, todo>> /\ ops' \in 0..MaxOps
    BY <1>0, <1>10, CapsAssumption DEF DeleteSecret, Count, boxes
  <2>3. row'[n] = NONE /\ \A m \in Names : m # n => row'[m] = row[m]
    BY <1>0, <2>1
  <2>4. row' \in [Names -> Rows \cup {NONE}]
    BY <1>0, <2>1
  <2>5. SecretsInv'
    BY <1>0, <1>2, <2>1, <2>2, <2>3, <2>4
  <2>6. Answered'
    BY <2>1, <2>2, <2>3 DEF Answered, WillReseal
  <2> QED BY <2>5, <2>6
<1> QED BY <1>3, <1>4, <1>6, <1>7, <1>8, <1>9, <1>10

\* The end of a run, alone or with its process.
LEMMA RunOverStep ==
  ASSUME SecretsInv, RunOver
  PROVE  /\ run' = NONE /\ DOMAIN task' = Tasks /\ \A t \in Tasks : Attempted(task'[t])
         /\ Redacts'
<1>1. Attempted(Unstarted)
  BY FS_EmptySet DEF Attempted, Unstarted
<1>2. run' = NONE /\ DOMAIN byValue' = {} /\ handed' = {} /\ task' = [t \in Tasks |-> Unstarted]
  BY DEF RunOver
<1>3. Redacts'
  BY <1>2, FS_EmptySet DEF Redacts
<1> QED BY <1>1, <1>2, <1>3

\* Changes to the keys' Secret, a process that ends and the steps of a run.
LEMMA RunsStep ==
  ASSUME SecretsInv, Answered,
         \/ EditKeys \/ EndRun
         \/ \E r \in Replicas : Stop(r) \/ StartRun(r)
         \/ \E t \in Tasks : StartAttempt(t) \/ OpenSecret(t) \/ Launch(t) \/ Store(t) \/ EndAttempt(t)
         \/ UNCHANGED secretVars
  PROVE  SecretsInv' /\ Answered'
<1>0. /\ SecretsTypeOK /\ box \in [Replicas -> Box \cup {NONE}]
      /\ phase \in [Replicas -> {"down", "loaded", "reseal", "up"}] /\ todo \in [Replicas -> SUBSET Rows]
      /\ ops \in 0..MaxOps
      /\ DOMAIN task = Tasks /\ (\A t \in Tasks : Attempted(task[t])) /\ Redacts
      /\ \A o \in Replicas : phase[o] \in {"loaded", "reseal"} => box[o] # NONE
  BY DEF SecretsInv, SecretsTypeOK
<1>1. UNCHANGED <<row, unsealed>>
  BY DEF EditKeys, EndRun, Stop, StartRun, StartAttempt, OpenSecret, Launch, Store, EndAttempt, secretVars
<1>2. mount' \subseteq KeyIds /\ keyId' \in KeyIds \cup {NONE}
  BY <1>0 DEF SecretsTypeOK, EditKeys, EndRun, Stop, StartRun, StartAttempt, OpenSecret, Launch, Store, EndAttempt,
              secretVars, keys
<1>3. ops' \in 0..MaxOps
  <2>1. CASE Count
    BY <1>0, <2>1, CapsAssumption DEF Count
  <2>2. CASE UNCHANGED ops
    BY <1>0, <2>2
  <2>3. CASE \E t \in Tasks : StartAttempt(t) \/ OpenSecret(t) \/ Launch(t) \/ Store(t) \/ EndAttempt(t)
    BY <2>2, <2>3 DEF StartAttempt, OpenSecret, Launch, Store, EndAttempt
  <2>4. CASE EditKeys \/ \E r \in Replicas : Stop(r) \/ StartRun(r)
    BY <2>1, <2>4 DEF EditKeys, Stop, StartRun
  <2>5. CASE EndRun \/ UNCHANGED secretVars
    BY <2>2, <2>5 DEF EndRun, secretVars
  <2> QED BY <2>3, <2>4, <2>5
<1>4. ASSUME UNCHANGED boxes, run' \in Replicas \cup {NONE}, DOMAIN task' = Tasks, \A t \in Tasks : Attempted(task'[t]), Redacts'
      PROVE  SecretsInv' /\ Answered'
  <2>1. \A t \in Tasks : task'[t].stage \in {"idle", "opening", "running", "done"}
    BY <1>4 DEF Attempted
  <2>2. UNCHANGED <<box, phase, todo>>
    BY <1>4 DEF boxes
  <2>3. SecretsTypeOK'
    BY <1>0, <1>1, <1>2, <1>3, <1>4, <2>1, <2>2 DEF SecretsTypeOK
  <2>4. SecretsInv'
    BY <1>1, <1>4, <2>2, <2>3 DEF SecretsInv
  <2>5. Answered'
    BY <1>1, <2>2 DEF Answered, WillReseal
  <2> QED BY <2>4, <2>5
<1>5. run \in Replicas \cup {NONE}
  BY <1>0 DEF SecretsTypeOK
<1>6. ASSUME UNCHANGED boxes, UNCHANGED runState
      PROVE  SecretsInv' /\ Answered'
  <2>1. Redacts' /\ UNCHANGED <<run, task>>
    BY <1>0, <1>6 DEF Redacts, runState
  <2> QED BY <1>0, <1>4, <1>5, <1>6, <2>1
<1>7. ASSUME UNCHANGED boxes, RunOver
      PROVE  SecretsInv' /\ Answered'
  BY <1>4, <1>7, RunOverStep
<1>8. ASSUME NEW t \in Tasks, NEW a, UNCHANGED boxes, task' = [task EXCEPT ![t] = a], Attempted(a), UNCHANGED run, Redacts'
      PROVE  SecretsInv' /\ Answered'
  <2>1. \A u \in Tasks : task'[u] = IF u = t THEN a ELSE task[u]
    BY <1>0, <1>8
  <2> QED BY <1>0, <1>4, <1>5, <1>8, <2>1
<1>9. CASE EditKeys \/ UNCHANGED secretVars
  BY <1>6, <1>9 DEF EditKeys, secretVars, boxes, runState
<1>10. CASE EndRun
  BY <1>7, <1>10 DEF EndRun
<1>11. ASSUME NEW r \in Replicas, StartRun(r)
       PROVE  SecretsInv' /\ Answered'
  <2>1. UNCHANGED boxes /\ run' = r /\ UNCHANGED <<task, byValue, handed>>
    BY <1>11 DEF StartRun
  <2>2. Redacts'
    BY <1>0, <2>1 DEF Redacts
  <2> QED BY <1>0, <1>4, <2>1, <2>2
<1>12. ASSUME NEW r \in Replicas, Stop(r)
       PROVE  SecretsInv' /\ Answered'
  <2>1. /\ phase' = [phase EXCEPT ![r] = "down"] /\ box' = [box EXCEPT ![r] = NONE] /\ todo' = [todo EXCEPT ![r] = {}]
        /\ RunOver \/ UNCHANGED runState
    BY <1>12 DEF Stop
  <2>2. run' \in Replicas \cup {NONE} /\ DOMAIN task' = Tasks /\ (\A t \in Tasks : Attempted(task'[t])) /\ Redacts'
    <3>1. CASE RunOver
      BY <3>1, RunOverStep
    <3>2. CASE UNCHANGED runState
      BY <1>0, <1>5, <3>2 DEF runState, Redacts
    <3> QED BY <2>1, <3>1, <3>2
  <2>3. /\ box' \in [Replicas -> Box \cup {NONE}] /\ todo' \in [Replicas -> SUBSET Rows]
        /\ phase' \in [Replicas -> {"down", "loaded", "reseal", "up"}]
        /\ \A o \in Replicas : phase'[o] \in {"loaded", "reseal"} => box'[o] # NONE
        /\ box'[r] = NONE
    BY <1>0, <2>1
  <2>4. \A t \in Tasks : task'[t].stage \in {"idle", "opening", "running", "done"}
    BY <2>2 DEF Attempted
  <2>5. SecretsTypeOK'
    BY <1>0, <1>1, <1>2, <1>3, <2>2, <2>3, <2>4 DEF SecretsTypeOK
  <2>6. SecretsInv'
    BY <1>1, <2>2, <2>3, <2>5 DEF SecretsInv
  <2> QED BY <2>3, <2>6 DEF Answered
<1>13. ASSUME NEW t \in Tasks, StartAttempt(t)
       PROVE  SecretsInv' /\ Answered'
  <2>1. PICK a : a = [stage |-> "opening", attempt |-> task[t].attempt + 1, need |-> Declares[t], got |-> <<>>]
    OBVIOUS
  <2>2. task' = [task EXCEPT ![t] = a] /\ UNCHANGED <<boxes, run, byValue, handed>>
    BY <1>0, <1>13, <2>1 DEF StartAttempt
  <2>3. DOMAIN a.got = {} /\ Declares[t] \subseteq Names
    BY <2>1, DeclaresAssumption
  <2>4. Attempted(a)
    BY <2>1, <2>3, FS_EmptySet DEF Attempted
  <2>5. Redacts'
    BY <1>0, <2>2 DEF Redacts
  <2> QED BY <1>8, <2>2, <2>4, <2>5
<1>14. ASSUME NEW t \in Tasks, OpenSecret(t)
       PROVE  SecretsInv' /\ Answered'
  <2>1. PICK n \in task[t].need :
          \/ /\ Opens(n)
             /\ task' = [task EXCEPT ![t].need = @ \ {n}, ![t].got = Given(task[t].got, n, row[n].value)]
          \/ /\ ~Opens(n)
             /\ task' = [task EXCEPT ![t].stage = "done", ![t].need = {}, ![t].got = <<>>]
    BY <1>14 DEF OpenSecret
  <2>2. UNCHANGED <<boxes, run, byValue, handed>>
    BY <1>14 DEF OpenSecret
  <2>3. Redacts'
    BY <1>0, <2>2 DEF Redacts
  <2>4. Attempted(task[t]) /\ n \in Names
    BY <1>0, <2>1 DEF Attempted
  <2>5. CASE Opens(n)
    <3>1. PICK g : g = Given(task[t].got, n, row[n].value)
      OBVIOUS
    <3>2. PICK a : a = [task[t] EXCEPT !.need = @ \ {n}, !.got = g]
      OBVIOUS
    <3>3. task' = [task EXCEPT ![t] = a]
      BY <1>0, <2>1, <2>5, <3>1, <3>2
    <3>4. row[n].value \in Secrets
      BY <2>4, <2>5 DEF SecretsInv, Opens, Rows
    <3>5. /\ DOMAIN g = DOMAIN task[t].got \cup {n} /\ g[n] = row[n].value
          /\ \A m \in DOMAIN task[t].got : m # n => g[m] = task[t].got[m]
      BY <3>1 DEF Given
    <3>6. IsFiniteSet(DOMAIN g)
      BY <2>4, <3>5, FS_AddElement DEF Attempted
    <3>7. /\ DOMAIN a = DOMAIN task[t] /\ a.stage = task[t].stage /\ a.need = task[t].need \ {n} /\ a.got = g
      BY <2>4, <3>2 DEF Attempted
    <3>8. Attempted(a)
      BY <2>4, <3>4, <3>5, <3>6, <3>7 DEF Attempted
    <3> QED BY <1>8, <2>2, <2>3, <3>3, <3>8
  <2>6. CASE ~Opens(n)
    <3>1. PICK a : a = [task[t] EXCEPT !.stage = "done", !.need = {}, !.got = <<>>]
      OBVIOUS
    <3>2. task' = [task EXCEPT ![t] = a]
      BY <1>0, <2>1, <2>6, <3>1
    <3>3. DOMAIN a = DOMAIN task[t] /\ a.stage = "done" /\ a.need = {} /\ DOMAIN a.got = {}
      BY <2>4, <3>1 DEF Attempted
    <3>4. Attempted(a)
      BY <2>4, <3>3, FS_EmptySet DEF Attempted
    <3> QED BY <1>8, <2>2, <2>3, <3>2, <3>4
  <2> QED BY <2>5, <2>6
<1>15. ASSUME NEW t \in Tasks, Launch(t)
       PROVE  SecretsInv' /\ Answered'
  <2>1. PICK g : g = task[t].got
    OBVIOUS
  <2>2. /\ byValue' = add(byValue, g) /\ handed' = handed \cup {g[n] : n \in DOMAIN g}
        /\ task' = [task EXCEPT ![t].stage = "running"] /\ UNCHANGED <<boxes, run>>
    BY <1>15, <2>1 DEF Launch
  <2>3. PICK a : a = [task[t] EXCEPT !.stage = "running"]
    OBVIOUS
  <2>4. task' = [task EXCEPT ![t] = a]
    BY <1>0, <2>2, <2>3
  <2>5. Attempted(a)
    BY <1>0, <2>3 DEF Attempted
  <2>6. IsFiniteSet(DOMAIN g) /\ \A n \in DOMAIN g : n \in Names /\ g[n] \in Secrets
    BY <1>0, <2>1 DEF Attempted
  <2>7. Redacts'
    BY <1>0, <2>2, <2>6, AddsValues DEF Redacts
  <2> QED BY <1>8, <2>2, <2>4, <2>5, <2>7
<1>16. ASSUME NEW t \in Tasks, Store(t)
       PROVE  SecretsInv' /\ Answered'
  <2>1. UNCHANGED <<boxes, run, task, byValue, handed>>
    BY <1>16 DEF Store
  <2>2. Redacts'
    BY <1>0, <2>1 DEF Redacts
  <2> QED BY <1>0, <1>4, <1>5, <2>1, <2>2
<1>17. ASSUME NEW t \in Tasks, EndAttempt(t)
       PROVE  SecretsInv' /\ Answered'
  <2>1. PICK s \in {"done", "idle"} : task' = [task EXCEPT ![t].stage = s, ![t].got = <<>>]
    BY <1>17 DEF EndAttempt
  <2>2. PICK a : a = [task[t] EXCEPT !.stage = s, !.got = <<>>]
    OBVIOUS
  <2>3. task' = [task EXCEPT ![t] = a] /\ UNCHANGED <<boxes, run, byValue, handed>>
    BY <1>0, <1>17, <2>1, <2>2 DEF EndAttempt
  <2>4. DOMAIN a = DOMAIN task[t] /\ a.stage = s /\ a.need = task[t].need /\ DOMAIN a.got = {}
    BY <1>0, <2>2 DEF Attempted
  <2>5. Attempted(a)
    BY <1>0, <2>1, <2>4, FS_EmptySet DEF Attempted
  <2>6. Redacts'
    BY <1>0, <2>3 DEF Redacts
  <2> QED BY <1>8, <2>3, <2>5, <2>6
<1> QED BY <1>9, <1>10, <1>11, <1>12, <1>13, <1>14, <1>15, <1>16, <1>17

LEMMA SecretsStep == SecretsInv /\ Answered /\ [SecretsNext]_secretVars => SecretsInv' /\ Answered'
BY KeysStep, RunsStep DEF SecretsNext

\* After a key rotation every row that can be is sealed under the new key as
\* soon as every replica runs with it, whatever owners set on replicas that
\* still had the old one: for any numbers of replicas, keys and rows.
THEOREM RotationsComplete == SecretsSpec => []RotationCompletes
<1>1. SecretsInit => SecretsInv /\ Answered
  BY FirstSecrets
<1>2. SecretsInv /\ Answered /\ [SecretsNext]_secretVars => SecretsInv' /\ Answered'
  BY SecretsStep
<1>3. ASSUME SecretsInv, Answered
      PROVE  RotationCompletes
  <2>1. SecretsTypeOK
    BY <1>3 DEF SecretsInv
  <2> QED BY <1>3, <2>1 DEF RotationCompletes, Answered, WillReseal
<1> QED BY <1>1, <1>2, <1>3, PTL DEF SecretsSpec

\* Values may be put in an order, the longest first, in which each occurs.
LEMMA OrderExists ==
  ASSUME NEW D, IsFiniteSet(D), D \subseteq Seq(Chars)
  PROVE  \E o \in [1..Cardinality(D) -> D] :
           /\ \A v \in D : \E i \in DOMAIN o : o[i] = v
           /\ \A i, j \in DOMAIN o : i < j => Len(o[i]) >= Len(o[j])
<1> DEFINE Ordered(S) == \E o \in [1..Cardinality(S) -> S] :
             /\ \A v \in S : \E i \in DOMAIN o : o[i] = v
             /\ \A i, j \in DOMAIN o : i < j => Len(o[i]) >= Len(o[j])
           Bad == {n \in Nat : \E S \in SUBSET D : IsFiniteSet(S) /\ Cardinality(S) = n /\ ~Ordered(S)}
<1>1. ASSUME Bad # {} PROVE FALSE
  <2>1. PICK n \in Bad : \A k \in Bad : n <= k
    BY <1>1, LeastMember
  <2>2. PICK S \in SUBSET D : IsFiniteSet(S) /\ Cardinality(S) = n /\ ~Ordered(S)
    BY <2>1
  <2>3. S # {}
    <3>1. ASSUME S = {} PROVE FALSE
      <4>1. Cardinality(S) = 0
        BY <3>1, FS_EmptySet
      <4>2. PICK o : o = [i \in 1..0 |-> i]
        OBVIOUS
      <4>3. o \in [1..0 -> S] /\ DOMAIN o = {}
        BY <4>2
      <4>4. Ordered(S)
        BY <3>1, <4>1, <4>3
      <4> QED BY <2>2, <4>4
    <3> QED BY <3>1
  <2>4. PICK w \in S : \A u \in S : Len(w) <= Len(u)
    <3> DEFINE L == {Len(u) : u \in S}
    <3>0. \A u \in S : Len(u) \in Nat
      OBVIOUS
    <3>1. L \subseteq Nat /\ L # {}
      BY <2>3, <3>0
    <3>2. PICK l \in L : \A k \in L : l <= k
      BY <3>1, LeastMember
    <3> QED BY <3>2
  <2> DEFINE R == S \ {w}
  <2>5. IsFiniteSet(R) /\ Cardinality(R) = n - 1 /\ n \in Nat /\ n - 1 \in Nat
    <3>1. n \in Nat /\ n # 0
      BY <2>1, <2>2, <2>3, FS_EmptySet
    <3>2. IsFiniteSet(S \ {w}) /\ Cardinality(S \ {w}) = Cardinality(S) - 1
      BY <2>2, <2>4, FS_RemoveElement
    <3> QED BY <2>2, <3>1, <3>2
  <2>6. Ordered(R)
    <3>1. ~(n <= n - 1)
      BY <2>5
    <3>2. n - 1 \notin Bad
      BY <2>1, <3>1
    <3>3. R \in SUBSET D
      OBVIOUS
    <3> HIDE DEF Ordered, R
    <3> QED BY <2>5, <3>2, <3>3
  <2>7. PICK o \in [1..(n - 1) -> R] :
          /\ \A v \in R : \E i \in DOMAIN o : o[i] = v
          /\ \A i, j \in DOMAIN o : i < j => Len(o[i]) >= Len(o[j])
    BY <2>5, <2>6
  <2> HIDE DEF R
  <2>8. R = S \ {w}
    BY DEF R
  <2>9. PICK p : p = [i \in 1..n |-> IF i = n THEN w ELSE o[i]]
    OBVIOUS
  <2>10. /\ DOMAIN p = 1..n /\ DOMAIN o = 1..(n - 1) /\ p[n] = w /\ n \in DOMAIN p
         /\ \A i \in DOMAIN o : i \in DOMAIN p /\ i < n /\ p[i] = o[i] /\ o[i] \in R
         /\ \A i \in DOMAIN p : i = n \/ i \in DOMAIN o
    BY <2>5, <2>7, <2>9
  <2>11. p \in [1..n -> S]
    BY <2>4, <2>8, <2>9, <2>10
  <2>12. \A v \in S : \E i \in DOMAIN p : p[i] = v
    BY <2>7, <2>8, <2>10
  <2>13. ASSUME NEW i \in DOMAIN p, NEW j \in DOMAIN p, i < j
         PROVE  Len(p[i]) >= Len(p[j])
    <3>1. i \in DOMAIN o
      BY <2>5, <2>10, <2>13
    <3>2. CASE j = n
      <4>1. p[i] \in S /\ p[j] = w /\ Len(p[i]) \in Nat /\ Len(w) \in Nat
        BY <2>4, <2>8, <2>10, <3>1, <3>2
      <4> QED BY <2>4, <4>1
    <3>3. CASE j # n
      BY <2>7, <2>10, <2>13, <3>1, <3>3
    <3> QED BY <3>2, <3>3
  <2>14. Ordered(S)
    BY <2>2, <2>11, <2>12, <2>13
  <2> QED BY <2>2, <2>14
<1>2. Ordered(D)
  <2>1. Cardinality(D) \in Nat
    BY FS_CardinalityType
  <2> QED BY <1>1, <2>1
<1> QED BY <1>2

\* Order is such an order.
LEMMA LongestFirst ==
  ASSUME NEW seen, IsFiniteSet(DOMAIN seen), DOMAIN seen \subseteq Secrets
  PROVE  /\ Order(seen) \in Seq(DOMAIN seen)
         /\ \A v \in DOMAIN seen : \E i \in 1..Len(Order(seen)) : Order(seen)[i] = v
         /\ \A i, j \in 1..Len(Order(seen)) : i < j => Len(Order(seen)[i]) >= Len(Order(seen)[j])
<1>1. DOMAIN seen \subseteq Seq(Chars)
  BY ValuesAssumption
<1>2. PICK o : o = Order(seen)
  OBVIOUS
<1>3. /\ o \in [1..Cardinality(DOMAIN seen) -> DOMAIN seen]
      /\ \A v \in DOMAIN seen : \E i \in DOMAIN o : o[i] = v
      /\ \A i, j \in DOMAIN o : i < j => Len(o[i]) >= Len(o[j])
  <2>1. \E q \in [1..Cardinality(DOMAIN seen) -> DOMAIN seen] :
          /\ \A v \in DOMAIN seen : \E i \in DOMAIN q : q[i] = v
          /\ \A i, j \in DOMAIN q : i < j => Len(q[i]) >= Len(q[j])
    BY <1>1, OrderExists
  <2> QED BY <1>2, <2>1, Zenon DEF Order
<1>4. Cardinality(DOMAIN seen) \in Nat
  BY FS_CardinalityType
<1>5. o \in Seq(DOMAIN seen) /\ DOMAIN o = 1..Len(o)
  BY <1>3, <1>4
<1> QED BY <1>2, <1>3, <1>5

\* What the last n characters of s become, up to N: the table Replace builds.
RestTo(rest, s, v, mark, N) ==
  rest = [n \in 0..N |-> IF n = 0 THEN <<>>
                         ELSE IF Begins(s, v, n) THEN <<mark>> \o rest[n - Len(v)]
                         ELSE <<s[Len(s) - n + 1]>> \o rest[n - 1]]

\* There is such a table: an occurrence of v is not empty.
LEMMA RestExists ==
  ASSUME NEW s, NEW v, NEW mark, NEW N \in Nat, Len(v) \in Nat \ {0}
  PROVE  \E rest : RestTo(rest, s, v, mark, N)
<1> DEFINE Bad == {n \in Nat : ~\E rest : RestTo(rest, s, v, mark, n)}
<1>1. ASSUME Bad # {} PROVE FALSE
  <2>1. PICK n \in Bad : \A k \in Bad : n <= k
    BY <1>1, LeastMember
  <2>2. n \in Nat /\ ~\E rest : RestTo(rest, s, v, mark, n)
    BY <2>1
  <2>3. CASE n = 0
    <3>1. PICK f : f = [k \in 0..0 |-> <<>>]
      OBVIOUS
    <3>2. \A k \in 0..0 : k = 0
      OBVIOUS
    <3>3. RestTo(f, s, v, mark, 0)
      BY <3>1, <3>2 DEF RestTo
    <3> QED BY <2>2, <2>3, <3>3
  <2>4. CASE n # 0
    <3>1. n - 1 \in Nat /\ n - 1 \notin Bad
      BY <2>1, <2>2, <2>4
    <3>2. PICK r : RestTo(r, s, v, mark, n - 1)
      BY <3>1
    <3>3. PICK last : last = IF Begins(s, v, n) THEN <<mark>> \o r[n - Len(v)] ELSE <<s[Len(s) - n + 1]>> \o r[n - 1]
      OBVIOUS
    <3>4. PICK f : f = [k \in 0..n |-> IF k = n THEN last ELSE r[k]]
      OBVIOUS
    <3>5. \A k \in 0..(n - 1) : k \in 0..n /\ k # n /\ f[k] = r[k]
      BY <2>2, <3>4
    <3>6. \A k \in 0..n : Begins(s, v, k) => Len(v) <= k
      BY DEF Begins
    <3>7. ASSUME NEW k \in 0..n
          PROVE  f[k] = IF k = 0 THEN <<>> ELSE IF Begins(s, v, k) THEN <<mark>> \o f[k - Len(v)]
                        ELSE <<s[Len(s) - k + 1]>> \o f[k - 1]
      <4>1. k # 0 => k - 1 \in 0..(n - 1)
        BY <2>2
      <4>2. Begins(s, v, k) => k - Len(v) \in 0..(n - 1)
        BY <2>2, <3>6
      <4>3. CASE k = n
        <5>1. f[k] = last
          BY <3>4, <4>3
        <5>2. f[k - 1] = r[k - 1]
          BY <2>4, <3>5, <4>1, <4>3
        <5>3. Begins(s, v, k) => f[k - Len(v)] = r[k - Len(v)]
          BY <3>5, <4>2
        <5> QED BY <2>4, <3>3, <4>3, <5>1, <5>2, <5>3
      <4>4. CASE k # n
        <5>1. k \in 0..(n - 1) /\ f[k] = r[k]
          BY <2>2, <3>5, <4>4
        <5>2. r[k] = IF k = 0 THEN <<>> ELSE IF Begins(s, v, k) THEN <<mark>> \o r[k - Len(v)]
                     ELSE <<s[Len(s) - k + 1]>> \o r[k - 1]
          BY <3>2, <5>1 DEF RestTo
        <5>3. k # 0 => f[k - 1] = r[k - 1]
          BY <3>5, <4>1
        <5>4. Begins(s, v, k) => f[k - Len(v)] = r[k - Len(v)]
          BY <3>5, <4>2
        <5> QED BY <5>1, <5>2, <5>3, <5>4
      <4> QED BY <4>3, <4>4
    <3>8. RestTo(f, s, v, mark, n)
      <4>1. f = [k \in 0..n |-> f[k]]
        BY <3>4
      <4>2. f = [k \in 0..n |-> IF k = 0 THEN <<>> ELSE IF Begins(s, v, k) THEN <<mark>> \o f[k - Len(v)]
                        ELSE <<s[Len(s) - k + 1]>> \o f[k - 1]]
        BY <3>7, <4>1
      <4> QED BY <4>2 DEF RestTo
    <3> QED BY <2>2, <3>8
  <2> QED BY <2>3, <2>4
<1> QED BY <1>1

LEMMA ReplaceTable ==
  ASSUME NEW s, NEW v, NEW mark, Len(s) \in Nat, Len(v) \in Nat \ {0}
  PROVE  \E rest : RestTo(rest, s, v, mark, Len(s)) /\ Replace(s, v, mark) = rest[Len(s)]
<1>1. PICK f : RestTo(f, s, v, mark, Len(s))
  BY RestExists
<1>2. PICK rest : rest = CHOOSE r : RestTo(r, s, v, mark, Len(s))
  OBVIOUS
<1>3. RestTo(rest, s, v, mark, Len(s))
  BY <1>1, <1>2
<1>4. Replace(s, v, mark) = rest[Len(s)]
  BY <1>2 DEF Replace, RestTo
<1> QED BY <1>3, <1>4

\* Replacing puts in no character but the mark.
LEMMA ReplaceStays ==
  ASSUME NEW T, NEW s \in Seq(T), NEW v, Len(v) \in Nat \ {0}, NEW mark \in T
  PROVE  Replace(s, v, mark) \in Seq(T)
<1>1. Len(s) \in Nat
  OBVIOUS
<1>2. PICK rest : RestTo(rest, s, v, mark, Len(s)) /\ Replace(s, v, mark) = rest[Len(s)]
  BY <1>1, ReplaceTable
<1> DEFINE Bad == {n \in Nat : n <= Len(s) /\ rest[n] \notin Seq(T)}
<1>3. ASSUME Bad # {} PROVE FALSE
  <2>1. PICK n \in Bad : \A k \in Bad : n <= k
    BY <1>3, LeastMember
  <2>2. n \in Nat /\ n \in 0..Len(s) /\ rest[n] \notin Seq(T) /\ \A k \in Nat : k < n => rest[k] \in Seq(T)
    BY <1>1, <2>1
  <2>3. rest[n] = IF n = 0 THEN <<>> ELSE IF Begins(s, v, n) THEN <<mark>> \o rest[n - Len(v)]
                  ELSE <<s[Len(s) - n + 1]>> \o rest[n - 1]
    BY <1>2, <2>2 DEF RestTo
  <2>4. CASE n = 0
    BY <2>2, <2>3, <2>4
  <2>5. CASE n # 0 /\ Begins(s, v, n)
    <3>1. n - Len(v) \in Nat /\ n - Len(v) < n
      BY <2>2, <2>5 DEF Begins
    <3>2. rest[n - Len(v)] \in Seq(T) /\ <<mark>> \in Seq(T)
      BY <2>2, <3>1
    <3>3. <<mark>> \o rest[n - Len(v)] \in Seq(T)
      BY <3>2
    <3> QED BY <2>2, <2>3, <2>5, <3>3
  <2>6. CASE n # 0 /\ ~Begins(s, v, n)
    <3>1. n - 1 \in Nat /\ n - 1 < n /\ Len(s) - n + 1 \in 1..Len(s)
      BY <1>1, <2>2, <2>6
    <3>2. rest[n - 1] \in Seq(T) /\ <<s[Len(s) - n + 1]>> \in Seq(T)
      BY <2>2, <3>1
    <3>3. <<s[Len(s) - n + 1]>> \o rest[n - 1] \in Seq(T)
      BY <3>2
    <3> QED BY <2>2, <2>3, <2>6, <3>3
  <2> QED BY <2>4, <2>5, <2>6
<1> QED BY <1>1, <1>2, <1>3

\* A value that does not occur changes nothing.
LEMMA ReplaceNothing ==
  ASSUME NEW T, NEW s \in Seq(T), NEW v, Len(v) \in Nat \ {0}, NEW mark,
         \A n \in 0..Len(s) : ~Begins(s, v, n)
  PROVE  Replace(s, v, mark) = s
<1>1. Len(s) \in Nat
  OBVIOUS
<1>2. PICK rest : RestTo(rest, s, v, mark, Len(s)) /\ Replace(s, v, mark) = rest[Len(s)]
  BY <1>1, ReplaceTable
<1> DEFINE Unchanged(n) == rest[n] \in Seq(T) /\ Len(rest[n]) = n /\ \A i \in 1..n : rest[n][i] = s[Len(s) - n + i]
           Bad == {n \in Nat : n <= Len(s) /\ ~Unchanged(n)}
<1>3. ASSUME Bad # {} PROVE FALSE
  <2>1. PICK n \in Bad : \A k \in Bad : n <= k
    BY <1>3, LeastMember
  <2>2. n \in Nat /\ n \in 0..Len(s) /\ ~Unchanged(n) /\ \A k \in Nat : k < n => Unchanged(k)
    BY <1>1, <2>1
  <2>3. rest[n] = IF n = 0 THEN <<>> ELSE <<s[Len(s) - n + 1]>> \o rest[n - 1]
    BY <1>2, <2>2 DEF RestTo
  <2>4. CASE n = 0
    BY <2>2, <2>3, <2>4
  <2>5. CASE n # 0
    <3>1. n - 1 \in Nat /\ n - 1 < n /\ Len(s) - n + 1 \in 1..Len(s)
      BY <1>1, <2>2, <2>5
    <3>2. PICK a : a = rest[n - 1]
      OBVIOUS
    <3>3. a \in Seq(T) /\ Len(a) = n - 1 /\ \A i \in 1..(n - 1) : a[i] = s[Len(s) - (n - 1) + i]
      BY <2>2, <3>1, <3>2
    <3>4. PICK c \in T : c = s[Len(s) - n + 1]
      BY <3>1
    <3>5. rest[n] = <<c>> \o a
      BY <2>3, <2>5, <3>2, <3>4
    <3>6. <<c>> \o a \in Seq(T) /\ Len(<<c>> \o a) = n
      BY <2>2, <3>3
    <3>7. ASSUME NEW i \in 1..n PROVE rest[n][i] = s[Len(s) - n + i]
      <4>1. CASE i = 1
        <5>1. (<<c>> \o a)[1] = c
          BY <3>3
        <5> QED BY <3>4, <3>5, <4>1, <5>1
      <4>2. CASE i # 1
        <5>1. i - 1 \in 1..(n - 1) /\ Len(s) - (n - 1) + (i - 1) = Len(s) - n + i
          BY <1>1, <2>2, <4>2
        <5>2. (<<c>> \o a)[i] = a[i - 1]
          BY <3>3, <4>2
        <5>3. a[i - 1] = s[Len(s) - (n - 1) + (i - 1)]
          BY <3>3, <5>1
        <5> QED BY <3>5, <5>1, <5>2, <5>3
      <4> QED BY <4>1, <4>2
    <3>8. Unchanged(n)
      BY <3>5, <3>6, <3>7
    <3> QED BY <2>2, <3>8
  <2> QED BY <2>4, <2>5
<1>4. Unchanged(Len(s))
  BY <1>1, <1>3
<1>5. \A i \in 1..Len(s) : Len(s) - Len(s) + i = i
  BY <1>1
<1>6. \A i \in 1..Len(s) : rest[Len(s)][i] = s[i]
  BY <1>4, <1>5
<1>7. rest[Len(s)] = s
  BY <1>4, <1>6
<1> QED BY <1>2, <1>7

\* Text that holds a value: the value between two other characters.
Around(v) == <<"x">> \o v \o <<"x">>

LEMMA AroundHolds ==
  ASSUME NEW v \in Seq(Chars)
  PROVE  /\ Around(v) \in Seq(Chars \cup {"x"}) /\ Len(Around(v)) = Len(v) + 2 /\ Len(v) \in Nat
         /\ Around(v)[1] = "x" /\ Around(v)[Len(v) + 2] = "x"
         /\ \A i \in 1..Len(v) : Around(v)[i + 1] = v[i]
<1>1. PICK a : a = <<"x">> \o v
  OBVIOUS
<1>2. v \in Seq(Chars \cup {"x"}) /\ <<"x">> \in Seq(Chars \cup {"x"}) /\ Len(<<"x">>) = 1 /\ Len(v) \in Nat
  OBVIOUS
<1>3. a \in Seq(Chars \cup {"x"}) /\ Len(a) = Len(v) + 1 /\ a[1] = "x" /\ \A i \in 1..Len(v) : a[i + 1] = v[i]
  <2>1. a \in Seq(Chars \cup {"x"}) /\ Len(a) = Len(v) + 1
    BY <1>1, <1>2
  <2>2. a[1] = "x"
    BY <1>1, <1>2
  <2>3. ASSUME NEW i \in 1..Len(v) PROVE a[i + 1] = v[i]
    BY <1>1, <1>2
  <2> QED BY <2>1, <2>2, <2>3
<1>4. PICK w : w = a \o <<"x">>
  OBVIOUS
<1>5. Around(v) = w
  BY <1>1, <1>4 DEF Around
<1>6. w \in Seq(Chars \cup {"x"}) /\ Len(w) = Len(v) + 2
  BY <1>2, <1>3, <1>4
<1>7. w[Len(v) + 2] = "x"
  BY <1>2, <1>3, <1>4
<1>8. \A i \in 1..(Len(v) + 1) : w[i] = a[i]
  BY <1>2, <1>3, <1>4
<1>9. w[1] = "x" /\ \A i \in 1..Len(v) : w[i + 1] = v[i]
  BY <1>2, <1>3, <1>8
<1> QED BY <1>2, <1>5, <1>6, <1>7, <1>9

\* No other value as long or longer occurs in it.
LEMMA NoLonger ==
  ASSUME NEW v \in Seq(Chars), NEW u \in Seq(Chars), u # v, u # <<>>, Len(u) >= Len(v), NEW n \in 0..Len(Around(v))
  PROVE  ~Begins(Around(v), u, n)
<1> SUFFICES ASSUME Begins(Around(v), u, n) PROVE FALSE
  OBVIOUS
<1>1. PICK s : s = Around(v)
  OBVIOUS
<1>2. PICK L : L = Len(v)
  OBVIOUS
<1>3. PICK M : M = Len(u)
  OBVIOUS
<1>4. L \in Nat /\ M \in Nat /\ M >= L /\ M # 0 /\ DOMAIN u = 1..M /\ n \in 0..(L + 2)
  BY <1>1, <1>2, <1>3, AroundHolds
<1>5. Len(s) = L + 2 /\ s[1] = "x" /\ s[L + 2] = "x" /\ \A i \in 1..L : s[i + 1] = v[i]
  BY <1>1, <1>2, AroundHolds
<1>6. M <= n /\ \A i \in 1..M : s[(L + 2) - n + i] = u[i]
  <2>1. Begins(s, u, n) /\ Len(u) = M /\ Len(s) = L + 2 /\ DOMAIN u = 1..M
    BY <1>1, <1>3, <1>4, <1>5
  <2> QED BY <2>1 DEF Begins
<1>7. \A i \in 1..M : u[i] # "x"
  BY <1>3, TextAssumption
<1>8. CASE n = L + 2
  <2>1. 1 \in 1..M /\ (L + 2) - n + 1 = 1
    BY <1>4, <1>8
  <2> QED BY <1>5, <1>6, <1>7, <2>1
<1>9. CASE n # L + 2 /\ M = n
  <2>1. M \in 1..M /\ (L + 2) - n + M = L + 2
    BY <1>4, <1>9
  <2> QED BY <1>5, <1>6, <1>7, <2>1
<1>10. CASE n # L + 2 /\ M # n
  <2>1. M = L /\ n = L + 1
    BY <1>4, <1>6, <1>10
  <2>2. ASSUME NEW i \in 1..L PROVE u[i] = v[i]
    <3>1. (L + 2) - n + i = i + 1
      BY <1>4, <2>1
    <3> QED BY <1>5, <1>6, <2>1, <3>1
  <2>3. Len(u) = Len(v) /\ \A i \in 1..Len(v) : u[i] = v[i]
    BY <1>2, <1>3, <2>1, <2>2
  <2>4. u = v
    BY <2>3
  <2> QED BY <2>4
<1> QED BY <1>8, <1>9, <1>10

\* Replacing the value leaves its mark between the two characters.
LEMMA ReplaceWhole ==
  ASSUME NEW v \in Seq(Chars), v # <<>>, NEW mark
  PROVE  Replace(Around(v), v, mark) = <<"x">> \o (<<mark>> \o (<<"x">> \o <<>>))
<1>1. PICK s : s = Around(v)
  OBVIOUS
<1>2. PICK L : L = Len(v)
  OBVIOUS
<1>3. L \in Nat \ {0} /\ DOMAIN v = 1..L
  BY <1>2
<1>4. Len(s) = L + 2 /\ s[1] = "x" /\ s[L + 2] = "x" /\ \A i \in 1..L : s[i + 1] = v[i]
  BY <1>1, <1>2, AroundHolds
<1>5. PICK rest : RestTo(rest, s, v, mark, L + 2) /\ Replace(s, v, mark) = rest[L + 2]
  BY <1>2, <1>3, <1>4, ReplaceTable
<1>6. \A n \in 0..(L + 2) :
        rest[n] = IF n = 0 THEN <<>> ELSE IF Begins(s, v, n) THEN <<mark>> \o rest[n - Len(v)]
                  ELSE <<s[Len(s) - n + 1]>> \o rest[n - 1]
  BY <1>5 DEF RestTo
<1>7. \A i \in 1..L : v[i] # "x"
  BY <1>2, TextAssumption
<1>8. ~Begins(s, v, 1)
  <2> SUFFICES ASSUME Begins(s, v, 1) PROVE FALSE
    OBVIOUS
  <2>1. L = 1 /\ 1 \in 1..L /\ Len(s) - 1 + 1 = L + 2
    BY <1>2, <1>3, <1>4 DEF Begins
  <2>2. s[Len(s) - 1 + 1] = v[1]
    BY <1>3, <2>1 DEF Begins
  <2> QED BY <1>4, <1>7, <2>1, <2>2
<1>9. Begins(s, v, L + 1)
  <2>1. Len(v) <= L + 1
    BY <1>2, <1>3
  <2>2. ASSUME NEW i \in 1..L PROVE s[Len(s) - (L + 1) + i] = v[i]
    <3>1. Len(s) - (L + 1) + i = i + 1
      BY <1>3, <1>4
    <3> QED BY <1>4, <3>1
  <2> QED BY <1>3, <2>1, <2>2 DEF Begins
<1>10. ~Begins(s, v, L + 2)
  <2> SUFFICES ASSUME Begins(s, v, L + 2) PROVE FALSE
    OBVIOUS
  <2>1. 1 \in 1..L /\ Len(s) - (L + 2) + 1 = 1
    BY <1>3, <1>4
  <2>2. s[Len(s) - (L + 2) + 1] = v[1]
    BY <1>3, <2>1 DEF Begins
  <2> QED BY <1>4, <1>7, <2>1, <2>2
<1>11. rest[0] = <<>>
  <2>1. 0 \in 0..(L + 2)
    BY <1>3
  <2> QED BY <1>6, <2>1
<1>12. rest[1] = <<"x">> \o <<>>
  <2>1. 1 \in 0..(L + 2) /\ Len(s) - 1 + 1 = L + 2 /\ 1 - 1 = 0 /\ 1 # 0
    BY <1>3, <1>4
  <2> QED BY <1>4, <1>6, <1>8, <1>11, <2>1
<1>13. rest[L + 1] = <<mark>> \o rest[1]
  <2>1. L + 1 \in 0..(L + 2) /\ L + 1 # 0 /\ (L + 1) - Len(v) = 1
    BY <1>2, <1>3
  <2> QED BY <1>6, <1>9, <2>1
<1>14. rest[L + 2] = <<"x">> \o rest[L + 1]
  <2>1. L + 2 \in 0..(L + 2) /\ L + 2 # 0 /\ (L + 2) - 1 = L + 1 /\ Len(s) - (L + 2) + 1 = 1
    BY <1>3, <1>4
  <2> QED BY <1>4, <1>6, <1>10, <2>1
<1> QED BY <1>1, <1>5, <1>12, <1>13, <1>14

\* The text after each value in turn, up to the first N: the table text builds.
TextTo(after, seen, s, order, N) ==
  after = [i \in 0..N |-> IF i = 0 THEN s ELSE Replace(after[i - 1], order[i], seen[order[i]])]

LEMMA TextExists ==
  ASSUME NEW seen, NEW s, NEW order, NEW N \in Nat
  PROVE  \E after : TextTo(after, seen, s, order, N)
<1> DEFINE Bad == {n \in Nat : ~\E after : TextTo(after, seen, s, order, n)}
<1>1. ASSUME Bad # {} PROVE FALSE
  <2>1. PICK n \in Bad : \A k \in Bad : n <= k
    BY <1>1, LeastMember
  <2>2. n \in Nat /\ ~\E after : TextTo(after, seen, s, order, n)
    BY <2>1
  <2>3. CASE n = 0
    <3>1. PICK f : f = [k \in 0..0 |-> s]
      OBVIOUS
    <3>2. \A k \in 0..0 : k = 0
      OBVIOUS
    <3>3. TextTo(f, seen, s, order, 0)
      BY <3>1, <3>2 DEF TextTo
    <3> QED BY <2>2, <2>3, <3>3
  <2>4. CASE n # 0
    <3>1. n - 1 \in Nat /\ n - 1 \notin Bad
      BY <2>1, <2>2, <2>4
    <3>2. PICK r : TextTo(r, seen, s, order, n - 1)
      BY <3>1
    <3>3. PICK last : last = Replace(r[n - 1], order[n], seen[order[n]])
      OBVIOUS
    <3>4. PICK f : f = [k \in 0..n |-> IF k = n THEN last ELSE r[k]]
      OBVIOUS
    <3>5. \A k \in 0..(n - 1) : k \in 0..n /\ k # n /\ f[k] = r[k]
      BY <2>2, <3>4
    <3>6. ASSUME NEW k \in 0..n
          PROVE  f[k] = IF k = 0 THEN s ELSE Replace(f[k - 1], order[k], seen[order[k]])
      <4>1. k # 0 => k - 1 \in 0..(n - 1)
        BY <2>2
      <4>2. k # 0 => f[k - 1] = r[k - 1]
        BY <3>5, <4>1
      <4>3. CASE k = n
        BY <2>4, <3>3, <3>4, <4>2, <4>3
      <4>4. CASE k # n
        <5>1. k \in 0..(n - 1) /\ f[k] = r[k]
          BY <2>2, <3>5, <4>4
        <5>2. r[k] = IF k = 0 THEN s ELSE Replace(r[k - 1], order[k], seen[order[k]])
          BY <3>2, <5>1 DEF TextTo
        <5> QED BY <4>2, <5>1, <5>2
      <4> QED BY <4>3, <4>4
    <3>7. f = [k \in 0..n |-> f[k]]
      BY <3>4
    <3>8. TextTo(f, seen, s, order, n)
      BY <3>6, <3>7 DEF TextTo
    <3> QED BY <2>2, <3>8
  <2> QED BY <2>3, <2>4
<1> QED BY <1>1

LEMMA TextTable ==
  ASSUME NEW seen, NEW s, Len(Order(seen)) \in Nat
  PROVE  \E after : /\ TextTo(after, seen, s, Order(seen), Len(Order(seen)))
                   /\ text(seen, s) = after[Len(Order(seen))]
<1>1. PICK f : TextTo(f, seen, s, Order(seen), Len(Order(seen)))
  BY TextExists
<1>2. PICK after : after = CHOOSE r : TextTo(r, seen, s, Order(seen), Len(Order(seen)))
  OBVIOUS
<1>3. TextTo(after, seen, s, Order(seen), Len(Order(seen)))
  BY <1>1, <1>2
<1>4. text(seen, s) = after[Len(Order(seen))]
  BY <1>2 DEF text, TextTo
<1> QED BY <1>3, <1>4

Clean == {"x"} \cup Names

\* What the run stores of a line that holds a value it has handed out.
LEMMA RedactedLine ==
  ASSUME NEW seen, IsFiniteSet(DOMAIN seen), DOMAIN seen \subseteq Secrets,
         \A u \in DOMAIN seen : seen[u] \in Names, NEW v \in DOMAIN seen
  PROVE  text(seen, Around(v)) \in Seq(Clean)
<1>1. PICK order : order = Order(seen)
  OBVIOUS
<1>2. /\ order \in Seq(DOMAIN seen)
      /\ \A u \in DOMAIN seen : \E i \in 1..Len(order) : order[i] = u
      /\ \A i, j \in 1..Len(order) : i < j => Len(order[i]) >= Len(order[j])
  BY <1>1, LongestFirst
<1>3. PICK N : N = Len(order)
  OBVIOUS
<1>4. N \in Nat /\ \A i \in 1..N : order[i] \in DOMAIN seen
  BY <1>2, <1>3
<1>5. PICK after : TextTo(after, seen, Around(v), order, N) /\ text(seen, Around(v)) = after[N]
  BY <1>1, <1>3, <1>4, TextTable
<1>6. \A i \in 0..N : after[i] = IF i = 0 THEN Around(v) ELSE Replace(after[i - 1], order[i], seen[order[i]])
  BY <1>5 DEF TextTo
<1>7. \A u \in DOMAIN seen : u \in Seq(Chars) /\ u # <<>> /\ Len(u) \in Nat \ {0} /\ seen[u] \in Clean
  BY ValuesAssumption DEF Clean
<1>8. PICK p \in 1..N : order[p] = v /\ \A i \in 1..N : i < p => order[i] # v
  <2> DEFINE P == {i \in Nat : i \in 1..N /\ order[i] = v}
  <2>1. P # {}
    BY <1>2, <1>3, <1>4
  <2>2. PICK p \in P : \A i \in P : p <= i
    BY <2>1, LeastMember
  <2>3. \A i \in 1..N : i < p => i \notin P
    BY <2>2
  <2> QED BY <1>4, <2>2, <2>3
<1>9. \A i \in Nat : i < p => after[i] = Around(v)
  <2> DEFINE Bad == {i \in Nat : i < p /\ after[i] # Around(v)}
  <2>1. ASSUME Bad # {} PROVE FALSE
    <3>1. PICK i \in Bad : \A k \in Bad : i <= k
      BY <2>1, LeastMember
    <3>2. i \in Nat /\ i < p /\ after[i] # Around(v)
      BY <3>1
    <3>3. i # 0 /\ i \in 0..N /\ i \in 1..N
      BY <1>4, <1>6, <3>2
    <3>4. i - 1 \in Nat /\ i - 1 < p /\ i - 1 \notin Bad
      BY <3>1, <3>2, <3>3
    <3>5. after[i - 1] = Around(v)
      BY <3>4
    <3>6. after[i] = Replace(Around(v), order[i], seen[order[i]])
      BY <1>6, <3>3, <3>5
    <3>7. PICK u : u = order[i]
      OBVIOUS
    <3>8. u \in Seq(Chars) /\ u # <<>> /\ u # v /\ Len(u) >= Len(v) /\ Len(u) \in Nat \ {0}
      BY <1>2, <1>3, <1>4, <1>7, <1>8, <3>2, <3>3, <3>7
    <3>9. v \in Seq(Chars) /\ Around(v) \in Seq(Chars \cup {"x"})
      BY <1>7, AroundHolds
    <3>10. \A n \in 0..Len(Around(v)) : ~Begins(Around(v), u, n)
      BY <3>8, <3>9, NoLonger
    <3>11. Replace(Around(v), u, seen[u]) = Around(v)
      BY <3>8, <3>9, <3>10, ReplaceNothing
    <3> QED BY <3>2, <3>6, <3>7, <3>11
  <2> QED BY <2>1
<1>10. after[p] \in Seq(Clean)
  <2>1. p - 1 \in Nat /\ p - 1 < p /\ p \in 0..N /\ p # 0
    BY <1>4, <1>8
  <2>2. after[p] = Replace(Around(v), v, seen[v])
    BY <1>6, <1>8, <1>9, <2>1
  <2>3. PICK m \in Clean : m = seen[v]
    BY <1>7
  <2>4. after[p] = <<"x">> \o (<<m>> \o (<<"x">> \o <<>>))
    BY <1>7, <2>2, <2>3, ReplaceWhole
  <2>5. "x" \in Clean
    BY DEF Clean
  <2> QED BY <2>4, <2>5
<1>11. \A i \in Nat : p <= i /\ i <= N => after[i] \in Seq(Clean)
  <2> DEFINE Bad == {i \in Nat : p <= i /\ i <= N /\ after[i] \notin Seq(Clean)}
  <2>1. ASSUME Bad # {} PROVE FALSE
    <3>1. PICK i \in Bad : \A k \in Bad : i <= k
      BY <2>1, LeastMember
    <3>2. i \in Nat /\ p <= i /\ i <= N /\ after[i] \notin Seq(Clean)
      BY <3>1
    <3>3. i # p
      BY <1>10, <3>2
    <3>4. i - 1 \in Nat /\ p <= i - 1 /\ i - 1 <= N /\ i \in 1..N /\ i \in 0..N /\ i # 0 /\ i - 1 \notin Bad
      BY <1>4, <1>8, <3>1, <3>2, <3>3
    <3>5. after[i - 1] \in Seq(Clean)
      BY <3>4
    <3>6. PICK u \in DOMAIN seen : u = order[i]
      BY <1>4, <3>4
    <3>7. Len(u) \in Nat \ {0} /\ seen[u] \in Clean
      BY <1>7
    <3>8. Replace(after[i - 1], u, seen[u]) \in Seq(Clean)
      BY <3>5, <3>7, ReplaceStays
    <3>9. after[i] = Replace(after[i - 1], u, seen[u])
      BY <1>6, <3>4, <3>6
    <3> QED BY <3>2, <3>8, <3>9
  <2> QED BY <2>1
<1>12. N \in Nat /\ p <= N /\ N <= N
  BY <1>4, <1>8
<1> QED BY <1>5, <1>11, <1>12

StoresClean == kept \in Seq(Clean)

\* No character of a value that a run handed to one of its tasks is left in what
\* it stores, whatever other values, longer or shorter, it handed out: for any
\* tasks, names and values, in a line whose other text has no character of theirs.
THEOREM NoValueStored == SecretsSpec => []NothingLeaks
<1>1. SecretsInit => SecretsInv /\ Answered /\ StoresClean
  BY FirstSecrets DEF SecretsInit, StoresClean
<1>2. SecretsInv /\ Answered /\ StoresClean /\ [SecretsNext]_secretVars => SecretsInv' /\ Answered' /\ StoresClean'
  <2> SUFFICES ASSUME SecretsInv, Answered, StoresClean, [SecretsNext]_secretVars
               PROVE  SecretsInv' /\ Answered' /\ StoresClean'
    OBVIOUS
  <2>1. SecretsInv' /\ Answered'
    BY SecretsStep
  <2>2. ASSUME kept' = kept \/ kept' = <<>> PROVE StoresClean'
    <3>1. kept \in Seq({"x"} \cup Names) /\ <<>> \in Seq({"x"} \cup Names)
      BY DEF StoresClean, Clean
    <3>2. kept' \in Seq({"x"} \cup Names)
      BY <2>2, <3>1
    <3> QED BY <3>2 DEF StoresClean, Clean
  <2>3. CASE EditKeys \/ UNCHANGED secretVars
    BY <2>1, <2>2, <2>3 DEF EditKeys, secretVars, runState
  <2>4. CASE EndRun
    BY <2>1, <2>2, <2>4 DEF EndRun, RunOver
  <2>5. ASSUME NEW r \in Replicas,
               \/ Start(r) \/ ResealReads(r) \/ Reseal(r) \/ ResealEnds(r) \/ ResealFails(r)
               \/ SetSecret(r) \/ DeleteSecret(r) \/ StartRun(r)
        PROVE  StoresClean'
    BY <2>2, <2>5 DEF Start, ResealReads, Reseal, ResealEnds, ResealFails, SetSecret, DeleteSecret, StartRun, runState
  <2>6. ASSUME NEW r \in Replicas, Stop(r) PROVE StoresClean'
    BY <2>2, <2>6 DEF Stop, RunOver, runState
  <2>7. ASSUME NEW t \in Tasks, StartAttempt(t) \/ OpenSecret(t) \/ Launch(t) \/ EndAttempt(t) PROVE StoresClean'
    BY <2>2, <2>7 DEF StartAttempt, OpenSecret, Launch, EndAttempt
  <2>8. ASSUME NEW t \in Tasks, Store(t) PROVE StoresClean'
    <3>1. PICK v \in handed : kept' = text(byValue, Around(v))
      BY <2>8 DEF Store, Around
    <3>2. Redacts
      BY DEF SecretsInv
    <3>3. text(byValue, Around(v)) \in Seq(Clean)
      BY <3>1, <3>2, RedactedLine DEF Redacts
    <3> QED BY <3>1, <3>3 DEF StoresClean, Clean
  <2>9. StoresClean'
    BY <2>3, <2>4, <2>5, <2>6, <2>7, <2>8 DEF SecretsNext
  <2> QED BY <2>1, <2>9
<1>3. StoresClean => NothingLeaks
  BY DEF StoresClean, NothingLeaks, Clean
<1> QED BY <1>1, <1>2, <1>3, PTL DEF SecretsSpec

=============================================================================
