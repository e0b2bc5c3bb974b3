------------------------ MODULE MCMeetingConnection ------------------------
(***************************************************************************)
(* An instance of MeetingConnection for TLC: Google, which may rotate, and *)
(* the providers that rotate and whose errors are not classified, of which *)
(* Slack's fetch is a stub.                                                *)
(***************************************************************************)
EXTENDS MeetingConnection, TLC

CONSTANTS q1, q2

Everything == {"connect", "disconnect", "sync", "withdraw"}

AllKinds ==
  {[rotates |-> FALSE, classifies |-> TRUE,  stub |-> FALSE],
   [rotates |-> TRUE,  classifies |-> TRUE,  stub |-> FALSE],
   [rotates |-> TRUE,  classifies |-> FALSE, stub |-> FALSE],
   [rotates |-> TRUE,  classifies |-> FALSE, stub |-> TRUE]}

\* Requests are interchangeable.
Symmetry == Permutations(Requests)
=============================================================================
