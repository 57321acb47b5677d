--------------------------- MODULE MCRunLifecycle ---------------------------
(* Small instances of RunLifecycle for TLC. *)
EXTENDS RunLifecycle, TLC

CONSTANTS a, b, r1, r2

\* b needs a.
TwoTasks    == [k \in {a, b} |-> IF k = b THEN {a} ELSE {}]

RetryA      == [k \in Tasks |-> IF k = a THEN 1 ELSE 0]
NoRetry     == [k \in Tasks |-> 0]

Replicas    == Permutations({r1, r2})
=============================================================================
