----------------------------- MODULE MCTaskTree -----------------------------
(***************************************************************************)
(* Instances of TaskTree for TLC: a chain of three tasks and one to come.  *)
(* Only safety would allow symmetry.                                       *)
(***************************************************************************)
EXTENDS TaskTree, TLC

CONSTANTS t1, t2, t3, t4, q1, q2

\* t3 under t2 under t1, until they are moved; t4 is created under any of them.
Chain == t1 :> NoRow @@ t2 :> [NoRow EXCEPT !.parent = t1] @@ t3 :> [NoRow EXCEPT !.parent = t2]

Everything == {"create", "status", "progress", "effort", "dates", "update", "delete", "log", "fail"}
=============================================================================
