----------------------------- MODULE RunContract -----------------------------
(***************************************************************************)
(* What the rest of the system may rely on about one run (records.py,      *)
(* store/base.py): it is queued, may start once, ends once, and a terminal *)
(* status never changes again.  It succeeds, skips or is canceled only if  *)
(* it started or was canceled first.                                       *)
(***************************************************************************)

Terminal == {"succeeded", "failed", "canceled", "skipped"}
Statuses == {"queued", "running"} \cup Terminal

VARIABLES status,   \* the run's status
          stopping  \* somebody asked it to stop: a cancel request, or its replica shutting down

cvars == <<status, stopping>>

CInit == status = "queued" /\ stopping = FALSE

CStop == /\ stopping' = TRUE
         /\ UNCHANGED status

CStart == /\ status = "queued"
          /\ status' = "running"
          /\ UNCHANGED stopping

CEnd == /\ status \notin Terminal
        /\ status' \in Terminal
        /\ status' \in {"succeeded", "skipped"} => status = "running"
        /\ status' = "canceled" => stopping
        /\ UNCHANGED stopping

CNext == CStop \/ CStart \/ CEnd

CSpec == CInit /\ [][CNext]_cvars
=============================================================================
