--------------------------- MODULE MCTaskSecrets ---------------------------
(* TaskSecrets for TLC: one value contains the other. *)
EXTENDS TaskSecrets, TLC

CONSTANTS r1, r2, n1, n2, t1

MCSecrets  == {<<"a">>, <<"a", "b">>}
MCDeclares == t1 :> {n1, n2}
MCSymmetry == Permutations(Replicas) \cup Permutations(KeyIds)
=============================================================================
