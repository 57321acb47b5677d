------------------------------- MODULE RunLog -------------------------------
(***************************************************************************)
(* One run's log: numbered and buffered by StoreRecorder (runs.py),        *)
(* flushed by several threads into run_logs, ended by the worker or by a   *)
(* sweep, and followed page by page through GET /runs/{id}/logs (api.py).  *)
(*                                                                         *)
(*   rec       the recorder under its lock: last seq, buffer, and whether  *)
(*             the truncation was noted                                    *)
(*   batch     the lines each thread took from the buffer and is storing   *)
(*   stage     the run's thread, from the engine to finish_run             *)
(*   rows      the table run_logs: [seq, by]                               *)
(*   status    the run's status, by whom it became terminal                *)
(*   sweep     a sweeping replica: its stage and the seq it will use       *)
(*   follower  an API client that polls with the last seq it saw           *)
(*   made, lost, late, hidden, slow  (history) the lines given a number;   *)
(*             those of a batch whose insert failed or of a dead worker;   *)
(*             those written after the engine ended; the rows stored below *)
(*             a higher one or after the end; whether close gave up on a   *)
(*             batch still on its way                                      *)
(***************************************************************************)
EXTENDS Integers, FiniteSets, FiniteSetsExt

CONSTANTS Readers,          \* threads that pump a task's output into the log
          MaxLines,         \* max_log_lines_per_run
          FLUSH_BATCH, Page, \* lines that make a writer flush; the page size
          MaxOut            \* bound: lines each reader writes

ASSUME SizesAssumption ==
  /\ MaxLines \in Nat \ {0} /\ FLUSH_BATCH \in Nat \ {0} /\ Page \in Nat \ {0}
  /\ MaxOut \in Nat

VARIABLES rec, out, batch, stage, rows, status, sweep, follower,
          made, lost, late, hidden, slow

vars == <<rec, out, batch, stage, rows, status, sweep, follower, made, lost, late, hidden, slow>>
worker  == <<rec, out, batch, stage>>
history == <<made, lost, late, hidden, slow>>

Threads == Readers \cup {"main", "flusher"}
Lines   == [seq : Nat, by : {"task", "system", "note", "sweep"}]
Stages  == {"engine", "ended", "joining", "flushing", "finish", "over", "dead"}

TypeOK ==
  /\ rec.seq \in Nat /\ rec.buf \subseteq Lines /\ rec.noted \in BOOLEAN
  /\ out \in [Readers -> 0..MaxOut]
  /\ \A t \in Threads : batch[t] \subseteq Lines
  /\ stage \in Stages /\ rows \subseteq Lines
  /\ status \in {"running", "worker", "swept"}
  /\ sweep \in [stage : {"idle", "tail", "append", "over"}, seq : Nat]
  /\ follower.after \in Nat /\ follower.got \subseteq rows

\* The first line, "run started", is in the buffer.
Init ==
  /\ rec = [seq |-> 1, buf |-> {[seq |-> 1, by |-> "system"]}, noted |-> FALSE]
  /\ out = [r \in Readers |-> 0]
  /\ batch = [t \in Threads |-> {}]
  /\ stage = "engine" /\ rows = {} /\ status = "running"
  /\ sweep = [stage |-> "idle", seq |-> 0]
  /\ follower = [stage |-> "status", ended |-> FALSE, after |-> 0, got |-> {}]
  /\ made = rec.buf /\ lost = {} /\ late = {} /\ hidden = {} /\ slow = FALSE

-----------------------------------------------------------------------------
(* The recorder.                                                            *)

\* Fault: the batch is copied, the buffer not yet emptied.
Fault_Taken(t, r, buf) ==
  /\ rec' = [r EXCEPT !.buf = buf]
  /\ batch' = [batch EXCEPT ![t] = buf]

\* flush: the batch is taken under the lock, stored outside of it.
Taken(t, r, buf) ==
  /\ rec' = [r EXCEPT !.buf = {}]
  /\ batch' = [batch EXCEPT ![t] = buf]

\* A line after the cap is dropped; the first of them leaves a note.  System
\* lines are always kept.  A line that fills the buffer makes its writer flush.
_emit(t, by) ==
  LET over == by = "task" /\ rec.seq >= MaxLines
      line == [seq |-> rec.seq + 1, by |-> IF over THEN "note" ELSE by]
      kept == ~over \/ ~rec.noted
      next == [rec EXCEPT !.seq = @ + 1, !.noted = @ \/ over]
      buf  == rec.buf \cup {line}
  IN  /\ batch[t] = {}
      /\ IF ~kept THEN UNCHANGED <<rec, batch, made, late>>
         ELSE /\ made' = made \cup {line}
              /\ late' = IF stage = "engine" THEN late ELSE late \cup {line}
              /\ IF ~over /\ Cardinality(buf) >= FLUSH_BATCH
                 THEN Taken(t, next, buf)
                 ELSE rec' = [next EXCEPT !.buf = buf] /\ UNCHANGED batch

\* TaskLog.line from a reader's thread.  The runner waits five seconds for its
\* readers, so one may go on after the engine has ended.
Line(r) ==
  /\ stage # "dead" /\ out[r] < MaxOut
  /\ out' = [out EXCEPT ![r] = @ + 1]
  /\ _emit(r, "task")
  /\ UNCHANGED <<stage, rows, status, sweep, follower, lost, hidden, slow>>

Flush(t) ==
  /\ batch[t] = {} /\ rec.buf # {}
  /\ Taken(t, rec, rec.buf)

\* _flush_loop, until it is told to stop.
FlushLoop ==
  /\ stage \in {"engine", "ended"}
  /\ Flush("flusher")
  /\ UNCHANGED <<out, stage, rows, status, sweep, follower, history>>

\* append_logs: ON CONFLICT DO NOTHING, in one transaction.
append_logs(lines) ==
  LET new == {l \in lines : \A x \in rows : x.seq # l.seq}
  IN  /\ rows' = rows \cup new
      /\ hidden' = hidden \cup {l \in new : status # "running" \/ \E x \in rows : x.seq > l.seq}

Stored(t) ==
  /\ batch[t] # {}
  /\ append_logs(batch[t])
  /\ batch' = [batch EXCEPT ![t] = {}]
  /\ UNCHANGED <<rec, out, stage, status, sweep, follower, made, lost, late, slow>>

\* The exception is logged and the lines are gone.
NotStored(t) ==
  /\ batch[t] # {}
  /\ lost' = lost \cup batch[t]
  /\ batch' = [batch EXCEPT ![t] = {}]
  /\ UNCHANGED <<rec, out, stage, rows, status, sweep, follower, made, late, hidden, slow>>

-----------------------------------------------------------------------------
(* The run's thread: the last line, close, finish_run.                      *)

\* The engine returns once its tasks have: "run succeeded after ...".
EngineEnds ==
  /\ stage = "engine"
  /\ _emit("main", "system")
  /\ late' = late
  /\ stage' = "ended"
  /\ UNCHANGED <<out, rows, status, sweep, follower, lost, hidden, slow>>

\* close: stop the flusher, wait five seconds for it,
Close ==
  /\ stage = "ended" /\ batch["main"] = {}
  /\ stage' = "joining"
  /\ UNCHANGED <<rec, out, batch, rows, status, sweep, follower, history>>

\* Fault: close only waits for the flusher.
Fault_CloseFlush ==
  /\ stage = "joining"
  /\ slow' = (\E t \in Threads : batch[t] # {})
  /\ stage' = "flushing"
  /\ UNCHANGED <<rec, out, batch, rows, status, sweep, follower, made, lost, late, hidden>>

\* ... and flush what is left.  A batch the flusher, or a reader that outlived
\* the runner's wait, is still storing is not waited for any longer.
CloseFlush ==
  /\ stage = "joining"
  /\ slow' = (\E t \in Threads : batch[t] # {})
  /\ stage' = "flushing"
  /\ IF rec.buf = {} THEN UNCHANGED <<rec, batch>> ELSE Flush("main")
  /\ UNCHANGED <<out, rows, status, sweep, follower, made, lost, late, hidden>>

\* finish_run: the first writer wins.
Finish ==
  /\ stage = "flushing" /\ batch["main"] = {}
  /\ stage' = "over"
  /\ status' = IF status = "running" THEN "worker" ELSE status
  /\ UNCHANGED <<rec, out, batch, rows, sweep, follower, history>>

Crash ==
  /\ stage \notin {"over", "dead"}
  /\ stage' = "dead"
  /\ lost' = lost \cup rec.buf \cup UNION {batch[t] : t \in Threads}
  /\ rec' = [rec EXCEPT !.buf = {}]
  /\ batch' = [t \in Threads |-> {}]
  /\ UNCHANGED <<out, rows, status, sweep, follower, made, late, hidden, slow>>

-----------------------------------------------------------------------------
(* A sweep of a run whose heartbeat stopped: its worker is dead, or only     *)
(* slow.                                                                     *)

Sweep ==
  /\ sweep.stage = "idle" /\ status = "running"
  /\ status' = "swept"
  /\ sweep' = [sweep EXCEPT !.stage = "tail"]
  /\ UNCHANGED <<worker, rows, follower, history>>

\* Pages until an empty one: the number after the last row.
_next_seq ==
  /\ sweep.stage = "tail"
  /\ sweep' = [stage |-> "append", seq |-> Max({0} \cup {x.seq : x \in rows}) + 1]
  /\ UNCHANGED <<worker, rows, status, follower, history>>

SweepAppend ==
  /\ sweep.stage = "append"
  /\ append_logs({[seq |-> sweep.seq, by |-> "sweep"]})
  /\ sweep' = [stage |-> "over", seq |-> 0]
  /\ UNCHANGED <<worker, status, follower, made, lost, late, slow>>

-----------------------------------------------------------------------------
(* A follower of the log: each request reads the run, then a page.           *)

\* list_logs: the lines after a number, in order, at most a page.
list_logs(after) ==
  LET more == {x \in rows : x.seq > after}
  IN  {x \in more : Cardinality({y \in more : y.seq < x.seq}) < Page}

ReadStatus ==
  /\ follower.stage = "status"
  /\ follower' = [follower EXCEPT !.stage = "lines", !.ended = status # "running"]
  /\ UNCHANGED <<worker, rows, status, sweep, history>>

\* Fault: done with the status, even on a full page.
Fault_ReadLines ==
  /\ follower.stage = "lines"
  /\ LET page == list_logs(follower.after)
         done == follower.ended
     IN  follower' = [stage |-> IF done THEN "done" ELSE "status", ended |-> FALSE,
                      after |-> Max({follower.after} \cup {x.seq : x \in page}),
                      got   |-> follower.got \cup page]
  /\ UNCHANGED <<worker, rows, status, sweep, history>>

ReadLines ==
  /\ follower.stage = "lines"
  /\ LET page == list_logs(follower.after)
         done == follower.ended /\ Cardinality(page) < Page
     IN  follower' = [stage |-> IF done THEN "done" ELSE "status", ended |-> FALSE,
                      after |-> Max({follower.after} \cup {x.seq : x \in page}),
                      got   |-> follower.got \cup page]
  /\ UNCHANGED <<worker, rows, status, sweep, history>>

-----------------------------------------------------------------------------
Next ==
  \/ \E r \in Readers : Line(r)
  \/ \E t \in Threads : Stored(t) \/ NotStored(t)
  \/ FlushLoop \/ EngineEnds \/ Close \/ CloseFlush \/ Finish \/ Crash
  \/ Sweep \/ _next_seq \/ SweepAppend \/ ReadStatus \/ ReadLines

Spec == Init /\ [][Next]_vars

-----------------------------------------------------------------------------
(* Properties.                                                              *)

\* Every numbered line is in exactly one place, whichever threads flush at
\* once: still buffered, with the one thread that stores it, stored, lost with
\* its batch or worker, or displaced by a sweep that took its number.
LinesAccounted == TypeOK /\
  LET places == {rec.buf, rows \cap made, lost,
                 {l \in made \ (rec.buf \cup lost) :
                    \A t \in Threads : l \notin batch[t] /\ [seq |-> l.seq, by |-> "sweep"] \in rows}}
  IN  /\ \A l \in made :
           Cardinality({p \in places : l \in p}) + Cardinality({t \in Threads : l \in batch[t]}) = 1
      /\ \A x, y \in rows : x.seq = y.seq => x = y

\* When the worker's terminal status shows, every line written before the end
\* is stored (or was lost with its batch), unless close had waited in vain for a
\* thread that was still storing a batch.
DoneIsComplete ==
  status = "worker" /\ ~slow =>
    \A l \in made \ late : l \in rows \cup lost

\* A follower that was told "done" has every row of the log, but those stored
\* after a higher number was or after the run had ended.
FollowerHasAll ==
  follower.stage = "done" => rows \ follower.got \subseteq hidden
=============================================================================
