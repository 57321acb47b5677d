------------------------------ MODULE Workload ------------------------------
(***************************************************************************)
(* Whether booth-core issues tokens for a run's owner (workload.py), and   *)
(* what RunManager._authorize makes of that before an unattended run.      *)
(***************************************************************************)
EXTENDS Naturals

\* How core may answer a mint request.
Responses == {"no answer", "401", "403", "5xx", "other status", "unreadable", "token"}

mint(response) ==
  CASE response = "token"          -> "granted"
    [] response \in {"401", "403"} -> "refused"
    [] OTHER                       -> "unavailable"

\* A pipeline without a recorded owner has nobody to act for.
_mint(owner, response) == IF owner THEN mint(response) ELSE "refused"

\* Core is asked again while it is unavailable, three times at most; a cancel
\* seen after attempt `canceled` ends it.
authorize(owner, responses, canceled) ==
  LET met  == [i \in 1..3 |-> _mint(owner, responses[i])]
      last == CHOOSE i \in 1..3 :
                /\ met[i] # "unavailable" \/ i = canceled \/ i = 3
                /\ \A j \in 1..(i - 1) : met[j] = "unavailable" /\ j # canceled
  IN  met[last]

\* A run somebody started, and any run where no credential is mounted, goes
\* ahead; another one needs a token now, whatever its tasks need.
_authorize(unattended, configured, owner, responses, canceled) ==
  unattended /\ configured => authorize(owner, responses, canceled) = "granted"

Authorizations ==
  {_authorize(u, c, o, r, x) : u \in BOOLEAN, c \in BOOLEAN, o \in BOOLEAN,
                               r \in [1..3 -> Responses], x \in 1..3}
=============================================================================
