---------------------------- MODULE MCPulseWeek ----------------------------
(***************************************************************************)
(* Instances of PulseWeek for TLC: two users, two periods.                 *)
(***************************************************************************)
EXTENDS PulseWeek, TLC

CONSTANTS u1, u2, q1, q2

Everything == {"create", "sync", "submit", "forward", "approve", "reject", "log", "edit", "cron"}

\* Requests are interchangeable, and so are users.
Symmetry == Permutations(Callers) \cup Permutations(Users)
=============================================================================
