--------------------------- MODULE MCScheduleClaim ---------------------------
(* Small instances of ScheduleClaim for TLC. *)
EXTENDS ScheduleClaim, TLC

CONSTANTS r1, r2

\* A unit is half a second, so that readings fall between seconds; slots are
\* seconds apart instead of minutes.
Cron     == [enabled |-> TRUE, type |-> "cron", slots |-> {2, 4, 8}, every |-> 1]
Interval == [enabled |-> TRUE, type |-> "interval", slots |-> {}, every |-> 2]
Off      == [enabled |-> FALSE, type |-> "interval", slots |-> {}, every |-> 2]

CronOrInterval == {Cron, Interval, Off}
CronOnly       == {Cron}

Interchangeable == Permutations({r1, r2})
=============================================================================
