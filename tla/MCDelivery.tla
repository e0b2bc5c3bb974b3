----------------------------- MODULE MCDelivery -----------------------------
(***************************************************************************)
(* Instances of Delivery for TLC: a creator and somebody else, and two     *)
(* rules, one that writes and one that copies.                             *)
(***************************************************************************)
EXTENDS Delivery

CONSTANTS q1, q2, p1, p2

Everything == {"dispatch", "delete", "rules", "create", "update", "read", "readAll", "remove"}

Writes == [channel |-> "both", to |-> {"assignee"}, cc |-> {}, active |-> TRUE]
Copies == [channel |-> "email", to |-> {}, cc |-> {"creator", "participants"}, active |-> TRUE]
TwoRules == {Writes, Copies}

Item(t, p, m) == [type |-> t, assignee |-> p, mail |-> m]
SixStarts ==
  {[item |-> Item("ticket", Nobody, TRUE), state |-> "open", rules |-> {}],
   [item |-> Item("ticket", p2, TRUE), state |-> "open", rules |-> TwoRules],
   [item |-> Item("ticket", p2, FALSE), state |-> "finished", rules |-> {Writes}],
   [item |-> Item("task", p2, TRUE), state |-> "saved", rules |-> {}],
   [item |-> Item("task", p2, TRUE), state |-> "open", rules |-> {}],
   [item |-> Item("task", Nobody, TRUE), state |-> "open", rules |-> {Writes}]}
=============================================================================
