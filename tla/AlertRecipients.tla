-------------------------- MODULE AlertRecipients --------------------------
(***************************************************************************)
(* Who is told of an event of a ticket or a task: by the rules of its      *)
(* space, or, in a space without rules, by a fixed matrix.                 *)
(*                                                                         *)
(* A context x holds whether it is of a ticket or a task, the actor, the   *)
(* creator, the assignee (Nobody when there is none) and the participants, *)
(* of a task its co-assignees and members.  A rule holds its channel, the  *)
(* roles it writes to and copies, and whether it is active and listens to  *)
(* the event.                                                              *)
(***************************************************************************)
EXTENDS Naturals, Sequences, FiniteSets, SequencesExt

CONSTANTS People, Nobody

ASSUME NobodyAssumption == Nobody \notin People

\* Events are "created", "updated", "assigned", "status", "changed" (a comment, or
\* another column than the assignee and the status) and "deleted".
Roles == {"actor", "creator", "assignee", "participants"}

\* The people a role stands for
Of(x, role) ==
  CASE role = "participants" -> x.participants
    [] role = "actor"        -> {x.actor}
    [] role = "creator"      -> {x.creator}
    [] role = "assignee"     -> {x.assignee} \ {Nobody}
OfAll(x, roles) == UNION {Of(x, r) : r \in roles}

\* The matrix: the first role that is somebody gets the mail.  A bug would write
\* to the assignee only.
OrNobody(x) == Of(x, "assignee")
OrCreator(x) == IF x.assignee = Nobody THEN {x.creator} ELSE {x.assignee}

LegacyTo(event, x) ==
  CASE event \in {"created", "updated", "assigned"} -> OrCreator(x)
    [] event \in {"status", "changed"} -> OfAll(x, {"assignee", "creator"})
    [] event = "deleted" -> {x.creator}
\* The others get a copy; of a deletion the assignee of a task only.
TicketCc(event) ==
  CASE event \in {"created", "updated"}  -> {"creator", "participants"}
    [] event = "assigned"                -> {"actor", "creator", "participants"}
    [] event \in {"status", "changed"}   -> {"participants"}
    [] event = "deleted"                 -> {"actor", "participants"}
TaskCc(event) == TicketCc(event) \cup (IF event = "deleted" THEN {"assignee"} ELSE {})
LegacyCc(event, x) ==
  OfAll(x, IF x.type = "task" THEN TaskCc(event) ELSE TicketCc(event)) \ LegacyTo(event, x)

Legacy(event, x) ==
  [to |-> LegacyTo(event, x), cc |-> LegacyCc(event, x),
   told |-> LegacyTo(event, x) \cup LegacyCc(event, x)]

\* The rules: each adds to four sets in the order the database returns them.
Rule == [channel : {"email", "in_app", "both"}, to : SUBSET Roles, cc : SUBSET Roles,
         active : BOOLEAN]
ByMail(r) == r.channel \in {"email", "both"}
InApp(r) == r.channel \in {"in_app", "both"}

MailTo(rules, x) == UNION {OfAll(x, r.to) : r \in {s \in rules : ByMail(s)}}
PushTo(rules, x) == UNION {OfAll(x, r.to) : r \in {s \in rules : InApp(s)}}
PushCc(rules, x) == UNION {OfAll(x, r.cc) : r \in {s \in rules : InApp(s)}}

\* A copy is left out when an earlier rule, or the same, writes to the person;
\* a later one that does is not looked at.
MailCc(order, x) ==
  UNION {OfAll(x, order[i].cc) \ MailTo({order[j] : j \in 1..i}, x) :
           i \in {j \in DOMAIN order : ByMail(order[j])}}

\* When nobody is written to, the actor is told in the application.
Ruled(order, x) ==
  LET rules == {order[i] : i \in DOMAIN order}
      alone == MailTo(rules, x) = {} /\ PushTo(rules, x) = {}
  IN [to |-> MailTo(rules, x), cc |-> MailCc(order, x),
      told |-> PushTo(rules, x) \cup PushCc(rules, x) \cup (IF alone THEN {x.actor} ELSE {})]

\* resolveForEvent and its callers: the answers the order of the rules allows
Resolved(rules, event, x) ==
  LET matching == {r \in rules : r.active}
  IN IF rules = {} THEN {Legacy(event, x)}
     ELSE IF matching = {} THEN {[to |-> {}, cc |-> {}, told |-> {}]}
     ELSE {Ruled(order, x) : order \in SetToSeqs(matching)}
=============================================================================
