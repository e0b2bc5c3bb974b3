----------------------------- MODULE MCCalendar -----------------------------
(***************************************************************************)
(* An instance of Calendar for TLC: weeks of two days and years of five,   *)
(* so that a calendar year is two weeks, a day short of the real one.      *)
(***************************************************************************)
EXTENDS Calendar, TLC

CONSTANTS q1, q2

Everything ==
  {"holiday", "working", "restore", "repeat", "drop", "extend", "update", "move", "delete", "follow"}

\* A full and a half repeated holiday, both, and none.
SomePatterns ==
  {(0 :> "HALF") @@ (1 :> None), (0 :> "FULL") @@ (1 :> "HALF"), (0 :> None) @@ (1 :> None)}

\* Requests are interchangeable.
Symmetry == Permutations(Requests)
=============================================================================
