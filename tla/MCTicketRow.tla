----------------------------- MODULE MCTicketRow -----------------------------
(***************************************************************************)
(* Instances of TicketRow for TLC: two requests on one ticket.              *)
(***************************************************************************)
EXTENDS TicketRow, TLC

CONSTANTS q1, q2

TwoRequests == {q1, q2}

\* What the users of the ticket do
All == {"status", "field", "save", "participants", "severity", "patch"}

Open == {"To Start", "Processing"}

=============================================================================
