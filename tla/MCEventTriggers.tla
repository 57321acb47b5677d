--------------------------- MODULE MCEventTriggers ---------------------------
(* Small instances of EventTriggers for TLC. *)
EXTENDS EventTriggers, TLC

CONSTANTS r1, r2, x1, x2, e1, e2, e3

Trigger(on, conc, when, debounce, wait, gap) ==
    [enabled |-> on, concurrent |-> conc, when_running |-> when,
     debounce |-> debounce, max_wait |-> wait, min_gap |-> gap]

\* Untimed instances: the interleavings of transactions are the subject.  Every
\* delay is shorter than one unit of the clock, so a timer is due once it is set.
QueueOne     == {Trigger(TRUE, FALSE, "queue_one", 0, 0, 0)}
QueueOrOff   == QueueOne \cup {Trigger(FALSE, FALSE, "queue_one", 0, 0, 0)}

\* Timed instances: debounce 1, longest wait 2, gap 2 or 3, every mode.
Timed ==
    {Trigger(TRUE, FALSE, "queue_one", 1, 2, 2), Trigger(TRUE, FALSE, "queue_one", 1, 2, 3),
     Trigger(TRUE, FALSE, "skip", 1, 2, 2), Trigger(TRUE, TRUE, "skip", 1, 2, 2)}

Interchangeable == Permutations({r1, r2}) \cup Permutations({x1, x2})
=============================================================================
