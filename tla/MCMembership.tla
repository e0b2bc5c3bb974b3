---------------------------- MODULE MCMembership ----------------------------
(***************************************************************************)
(* Instances of Membership for TLC: two companies with a role each.        *)
(***************************************************************************)
EXTENDS Membership, TLC

CONSTANTS k1, k2, r1, r2, q1, q2, p1

OwnRole == (r1 :> k1) @@ (r2 :> k2)
Everything ==
  {"create", "update", "disable", "delete", "default", "company", "assign", "login", "guard", "warm"}

\* Requests are interchangeable.
Symmetry == Permutations(Requests)
=============================================================================
