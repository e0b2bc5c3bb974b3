--------------------------- MODULE MCRegistration ---------------------------
(***************************************************************************)
(* Instances of Registration for TLC.                                      *)
(***************************************************************************)
EXTENDS Registration, TLC

CONSTANTS q1, q2

Everything == {"register", "verify", "complete", "google", "forgot", "reset"}

\* Requests are interchangeable.
Symmetry == Permutations(Requests)
=============================================================================
