------------------------------ MODULE Delivery ------------------------------
(***************************************************************************)
(* E-mails and notifications on their way: rows are saved, jobs for them   *)
(* go through the service bus, and a consumer sends what the row says and  *)
(* marks it.  The bus delivers a message again when it was abandoned, when *)
(* its lock expired or when the consumer died; its receiver takes one      *)
(* message at a time, the default of the SDK.                              *)
(*                                                                         *)
(* Dispatching the alerts of one ticket or task, its deletion, and the     *)
(* requests on e-mails and notifications interleave with the consumers     *)
(* statement by statement.  Both kinds of row share one table here.  That  *)
(* a message is set aside after ten deliveries needs more failures than    *)
(* the one modelled.                                                       *)
(***************************************************************************)
EXTENDS RequestPlans, AlertRecipients

CONSTANTS
  Consumer,      \* the one that also takes the messages of the bus
  Creator,       \* who created the ticket or task
  Participants,  \* its participants
  Starts,        \* how it may be found: as an item, its state, its rules
  Actors,        \* who may change or delete it
  RuleBook       \* the rules the space may have

States == {"saved", "committing", "open", "finished", "gone"}
Items == [type : {"ticket", "task"}, assignee : People \cup {Nobody}, mail : BOOLEAN]

ASSUME RuleBookAssumption == RuleBook \subseteq Rule /\ \A s \in Starts : s.rules \subseteq RuleBook
ASSUME DeliveryAssumption ==
  /\ Creator \in People /\ Participants \subseteq People /\ Actors \subseteq People
  /\ \A s \in Starts : s.item \in Items /\ s.state \in States

VARIABLES
  item,       \* a ticket or a task, its assignee, and whether e-mail is configured
  state,      \* "open", "finished" or "gone"; before that, of a task in the transaction
              \* that creates it, "saved", and "committing" once its alert has started
  rules,      \* the rules of the space
  rows,       \* the rows of email and notification by id
  queue,      \* the messages of the bus: the ids of their rows
  posted,     \* how often each row was sent
  removed     \* the rows deleted by a user, or that told of an item that is gone

tables == <<item, state, rules, rows, removed>>
bus    == <<queue, posted>>
vars   == <<tables, bus, requestVars>>

NoRow == [type |-> "none"]
Row == [type : {"email", "note"}, to : SUBSET People, cc : SUBSET People,
        kind : {"plain", "unfit", "final"}, sent : BOOLEAN, error : BOOLEAN, read : BOOLEAN,
        ref : {"item", "none"}, from : {"matrix", "rules", "user"}]
Ids == DOMAIN rows
Exists(i) == i \in Ids /\ rows[i] # NoRow

Init ==
  /\ \E s \in Starts : item = s.item /\ state = s.state /\ rules = s.rules
  /\ rows = <<>> /\ queue = <<>> /\ posted = <<>> /\ removed = {}
  /\ InitRequests

Stop(c) == End(c) /\ UNCHANGED <<tables, bus>>
Turn(c, p, m) == Continue(c, p \o Tail(plan[c]), m) /\ UNCHANGED failed

Add(r) == rows' = Append(rows, r) /\ posted' = Append(posted, 0)

\* save(entity): the row becomes what was loaded and changed; one that is gone
\* is inserted again.
Save(i, r) == rows' = [rows EXCEPT ![i] = r]

-----------------------------------------------------------------------------
(* Alerts *)

Context(e, a) ==
  [event |-> e, actor |-> a, type |-> item.type, creator |-> Creator, assignee |-> item.assignee,
   participants |-> Participants]

\* A dispatcher is called after what it tells of has committed: it loads the
\* item, and may return when what it compares has not changed.
Dispatch(c, type, event, first) ==
  /\ item.type = type
  /\ \E a \in Actors :
       Arrive(c, [op |-> "dispatch"], [event |-> event, actor |-> a], <<first, "resolve">>)
Alerted(c, type, event, first) ==
  /\ state \in {"open", "finished"}
  /\ Dispatch(c, type, event, first)
  /\ UNCHANGED <<tables, bus>>

TicketCreated(c)  == Alerted(c, "ticket", "created", "loadContext")
TicketUpdated(c)  == Alerted(c, "ticket", "updated", "loadContext")
TicketAssigned(c) == Alerted(c, "ticket", "assigned", "loadChanged")
TicketStatus(c)   == Alerted(c, "ticket", "status", "loadChanged")
TicketSeverity(c) == Alerted(c, "ticket", "changed", "loadChanged")
TicketQueue(c)    == Alerted(c, "ticket", "changed", "loadChanged")
TicketName(c)     == Alerted(c, "ticket", "changed", "loadChanged")
TicketComment(c)  == Alerted(c, "ticket", "changed", "loadContext")
TaskUpdated(c)    == Alerted(c, "task", "updated", "loadContext")
TaskAssigned(c)   == Alerted(c, "task", "assigned", "loadChanged")
TaskStatus(c)     == Alerted(c, "task", "status", "loadChanged")
TaskSeverity(c)   == Alerted(c, "task", "changed", "loadChanged")
TaskName(c)       == Alerted(c, "task", "changed", "loadChanged")
TaskProgress(c)   == Alerted(c, "task", "changed", "loadChanged")
TaskDates(c)      == Alerted(c, "task", "changed", "loadContext")
TaskComment(c)    == Alerted(c, "task", "changed", "loadContext")

\* TmTaskService.create calls it inside its transaction, which then commits or
\* is rolled back.
TaskCreated(c) ==
  /\ state = "saved" /\ state' = "committing"
  /\ Dispatch(c, "task", "created", "loadContext")
  /\ UNCHANGED <<item, rules, rows, removed, bus>>

CommitTask ==
  /\ state = "committing" /\ state' = "open"
  /\ UNCHANGED <<item, rules, rows, removed, bus, requestVars>>

RollBackTask ==
  /\ Faulty /\ ~failed /\ failed' = TRUE
  /\ state = "committing" /\ state' = "gone"
  /\ UNCHANGED <<item, rules, rows, removed, bus, plan, req, mem, served, overlapped>>

\* The alerts of what is deleted go, but for those that tell of the deletion.
Delete(c, type) ==
  /\ item.type = type /\ state \in {"open", "finished"}
  /\ \E a \in Actors :
       Arrive(c, [op |-> "delete"], Context("deleted", a),
              IF state = "finished" THEN <<"cleanUp">> ELSE <<"resolve", "cleanUp">>)
  /\ state' = "gone"
  /\ UNCHANGED <<item, rules, rows, removed, bus>>
DeleteTicket(c) == Delete(c, "ticket")
DeleteTask(c)   == Delete(c, "task")

\* loadContext: what is gone, or not there yet, is skipped, and what is finished
\* unless it was just created or its status changed.
Skipped(c) ==
  \/ state \in {"gone", "committing"}
  \/ state = "finished" /\ mem[c].event \notin {"created", "status"}
LoadContext(c) ==
  /\ At(c, "loadContext") \/ At(c, "loadChanged")
  /\ IF Skipped(c) THEN Stop(c)
     ELSE Proceed(c, Context(mem[c].event, mem[c].actor)) /\ UNCHANGED <<tables, bus>>
LoadTicket(c) == item.type = "ticket" /\ LoadContext(c)
LoadTask(c)   == item.type = "task" /\ LoadContext(c)
NotChanged(c) == At(c, "loadChanged") /\ Stop(c)

\* Without an account to send from there is no e-mail.
Resolve(c) ==
  /\ At(c, "resolve")
  /\ \E who \in Resolved(rules, mem[c].event, mem[c]) :
       Turn(c, (IF who.to = {} \/ ~item.mail THEN <<>> ELSE <<"saveEmail", "enqueue">>)
               \o (IF who.told = {} THEN <<>> ELSE <<"saveNotes", "enqueue">>),
            [who |-> who, from |-> IF rules = {} THEN "matrix" ELSE "rules"])
  /\ UNCHANGED <<tables, bus>>
ResolveTicket(c) == item.type = "ticket" /\ Resolve(c)
ResolveTask(c)   == item.type = "task" /\ Resolve(c)

\* The alert of a deletion refers to nothing, so that it stays.
RefOfAll(op) == "item"
RefOf(op) == IF op = "delete" THEN "none" ELSE "item"
Alert(c, type, to, cc) ==
  [type |-> type, to |-> to, cc |-> cc, sent |-> FALSE, error |-> FALSE,
   kind |-> IF req[c].op = "delete" THEN "final" ELSE "plain", read |-> FALSE,
   ref |-> RefOf(req[c].op), from |-> mem[c].from]

\* What a dispatch has in hand once it has saved a row
Saved(m, type) ==
  [who |-> m.who, from |-> m.from, ids |-> <<Len(rows) + 1>>, type |-> type]

SaveEmail(c) ==
  /\ At(c, "saveEmail")
  /\ Add(Alert(c, "email", mem[c].who.to, mem[c].who.cc))
  /\ Proceed(c, Saved(mem[c], "email"))
  /\ UNCHANGED <<item, state, rules, removed, queue>>

\* The rows of the people told, saved one after the other, are one row here.
SaveNotes(c) ==
  /\ At(c, "saveNotes")
  /\ Add(Alert(c, "note", mem[c].who.told, {}))
  /\ Proceed(c, Saved(mem[c], "note"))
  /\ UNCHANGED <<item, state, rules, removed, queue>>

\* A job is sent after the transaction that saved its row.
Enqueue(c) ==
  /\ At(c, "enqueue")
  /\ queue' = queue \o mem[c].ids
  /\ Done(c)
  /\ UNCHANGED <<tables, posted>>

\* The bus refuses the job of an alert's e-mail: the row is marked, and the
\* dispatch goes on.
EnqueueFails(c) ==
  /\ Faulty /\ ~failed /\ At(c, "enqueue") /\ mem[c].type = "email"
  /\ req[c].op # "create"
  /\ failed' = TRUE
  /\ LET i == Head(mem[c].ids)
     IN Save(i, [Alert(c, "email", mem[c].who.to, mem[c].who.cc) EXCEPT !.error = TRUE])
  /\ Continue(c, Tail(plan[c]), mem[c])
  /\ UNCHANGED <<item, state, rules, removed, bus>>

\* dispatch never rejects: what it could not do is left, and a deletion still
\* cleans up.
DispatchFails(c) ==
  /\ Faulty /\ ~failed /\ req[c].op = "delete" /\ Len(plan[c]) > 1
  /\ Last(plan[c]) = "cleanUp"
  /\ failed' = TRUE
  /\ Continue(c, <<"cleanUp">>, mem[c])
  /\ UNCHANGED <<tables, bus>>

\* cleanupTicketAlerts, one transaction.  A bug would forget the notifications.
MailsOfItem(r) == r # NoRow /\ r.ref = "item" /\ r.type = "email"
OfItem(r) == r # NoRow /\ r.ref = "item"
Cleaned ==
  /\ rows' = [i \in Ids |-> IF OfItem(rows[i]) THEN NoRow ELSE rows[i]]
  /\ removed' = removed \cup {i \in Ids : OfItem(rows[i]) /\ rows[i].kind # "final"}
CleanUp(c) ==
  /\ At(c, "cleanUp")
  /\ Cleaned /\ Done(c)
  /\ UNCHANGED <<item, state, rules, bus>>

\* That of a task is not awaited: it runs beside the alert of the deletion.
CleanUpEarly(c) ==
  /\ item.type = "task" /\ req[c].op = "delete" /\ Len(plan[c]) > 1
  /\ Last(plan[c]) = "cleanUp"
  /\ Cleaned /\ Continue(c, Front(plan[c]), mem[c])
  /\ UNCHANGED <<item, state, rules, bus, failed>>

\* AlertRuleService: a rule is created, removed or switched.  That it is loaded
\* before it is saved is left out.
ChangeRules ==
  /\ \E r \in RuleBook :
       rules' \in {rules \cup {r}, rules \ {r}, (rules \ {r}) \cup {[r EXCEPT !.active = FALSE]}}
  /\ Instant("rules")
  /\ UNCHANGED <<item, state, rows, removed, bus>>

-----------------------------------------------------------------------------
(* Requests on e-mails and notifications *)

\* EmailService.create: any e-mail; that it is unfit, without a recipient or too
\* large, is found out by the consumer.
StartCreate(c) ==
  /\ \E kind \in {"plain", "unfit"} :
       Arrive(c, [op |-> "create", kind |-> kind], <<>>,
              <<"saveOwn", "enqueue">>)
  /\ UNCHANGED <<tables, bus>>

SaveOwn(c) ==
  /\ At(c, "saveOwn")
  /\ Add([type |-> "email", to |-> {Creator}, cc |-> {}, kind |-> req[c].kind, sent |-> FALSE,
           error |-> FALSE, read |-> FALSE, ref |-> "none", from |-> "user"])
  /\ Proceed(c, [ids |-> <<Len(rows) + 1>>, type |-> "email"])
  /\ UNCHANGED <<item, state, rules, removed, queue>>

\* update and markAsRead load the row and save it.  A client that sets isSent
\* itself is left out.
StartUpdate(c) ==
  /\ \E i \in Ids : Exists(i) /\
       Arrive(c, [op |-> IF rows[i].type = "note" THEN "read" ELSE "update", row |-> i],
              IF rows[i].type = "note" THEN [rows[i] EXCEPT !.read = TRUE] ELSE rows[i], <<"saveRow">>)
  /\ UNCHANGED <<tables, bus>>

SaveRow(c) ==
  /\ At(c, "saveRow")
  /\ Save(req[c].row, mem[c])
  /\ Done(c)
  /\ UNCHANGED <<item, state, rules, removed, bus>>

\* markAllAsRead is one UPDATE of the rows of a person, delete one transaction.
ReadAll ==
  /\ Instant("readAll")
  /\ \E p \in People :
       rows' = [i \in Ids |-> IF Exists(i) /\ rows[i].type = "note" /\ p \in rows[i].to
                               THEN [rows[i] EXCEPT !.read = TRUE] ELSE rows[i]]
  /\ UNCHANGED <<item, state, rules, removed, bus>>

RemoveRow ==
  /\ Instant("remove")
  /\ \E i \in Ids : Exists(i) /\ Save(i, NoRow) /\ removed' = removed \cup {i}
  /\ UNCHANGED <<item, state, rules, bus>>

-----------------------------------------------------------------------------
(* The consumer *)

\* The bus hands out its messages one at a time, in their order; one that is not
\* completed is the next again.  A bug would take it off at once.
Taken(q) == Tail(q)
HandedOut(q) == q
Receive(c) ==
  /\ c = Consumer /\ queue # <<>>
  /\ Begin(c, [op |-> "process", row |-> Head(queue)], <<>>, <<"loadRow">>)
  /\ queue' = HandedOut(queue)
  /\ UNCHANGED <<served, tables, posted>>

\* An e-mail that is unfit is an error; a row that is gone is
\* nothing.  A bug would mark a row before it is sent.
MarkFirst == <<"markSent", "send", "settle">>
SendFirst == <<"send", "markSent", "settle">>
Process == SendFirst

LoadRow(c) ==
  /\ At(c, "loadRow")
  /\ LET i == req[c].row  r == rows[i]
     IN IF r = NoRow THEN Turn(c, <<"settle">>, <<>>)
        ELSE IF r.kind = "unfit"
          THEN Turn(c, <<"markError", "settle">>, r)
          ELSE Turn(c, Process, r)
  /\ UNCHANGED <<tables, bus>>

Send(c) ==
  /\ At(c, "send")
  /\ posted' = [posted EXCEPT ![req[c].row] = @ + 1]
  /\ Done(c)
  /\ UNCHANGED <<tables, queue>>

\* The mail service fails: the row is marked and the message abandoned.
SendFails(c) ==
  /\ Faulty /\ ~failed /\ At(c, "send") /\ mem[c].type = "email"
  /\ failed' = TRUE
  /\ Continue(c, <<"markError", "abandon">>, mem[c])
  /\ UNCHANGED <<tables, bus>>

MarkSent(c) ==
  /\ At(c, "markSent")
  /\ Save(req[c].row, [mem[c] EXCEPT !.sent = TRUE,
                                     !.error = IF mem[c].type = "email" THEN FALSE ELSE @])
  /\ Done(c)
  /\ UNCHANGED <<item, state, rules, removed, bus>>

\* What was sent cannot be marked: it is abandoned too.
MarkFails(c) ==
  /\ Faulty /\ ~failed /\ At(c, "markSent")
  /\ failed' = TRUE
  /\ Continue(c, (IF mem[c].type = "email" THEN <<"markError">> ELSE <<>>) \o <<"abandon">>,
              [mem[c] EXCEPT !.sent = TRUE])
  /\ UNCHANGED <<tables, bus>>

MarkError(c) ==
  /\ At(c, "markError")
  /\ Save(req[c].row, [mem[c] EXCEPT !.error = TRUE])
  /\ Done(c)
  /\ UNCHANGED <<item, state, rules, removed, bus>>

\* The message is completed.
Completed(q) == Tail(q)
Settle(c) ==
  /\ At(c, "settle")
  /\ queue' = Completed(queue)
  /\ Done(c)
  /\ UNCHANGED <<tables, posted>>

\* Its lock has run out: it cannot be completed or abandoned any more.
SettleFails(c) == Shrug(c, "settle") /\ UNCHANGED <<tables, bus>>

Abandon(c) ==
  /\ At(c, "abandon")
  /\ Done(c)
  /\ UNCHANGED <<tables, bus>>

\* A statement fails, or the process stops; the bus has its message still.
Fail(c) == Break(c) /\ UNCHANGED <<tables, bus>>

-----------------------------------------------------------------------------
Request(c) ==
  \/ TicketCreated(c) \/ TicketUpdated(c) \/ TicketAssigned(c) \/ TicketStatus(c)
  \/ TicketSeverity(c) \/ TicketQueue(c) \/ TicketName(c) \/ TicketComment(c)
  \/ TaskCreated(c) \/ TaskUpdated(c) \/ TaskAssigned(c) \/ TaskStatus(c)
  \/ TaskSeverity(c) \/ TaskName(c) \/ TaskProgress(c) \/ TaskDates(c) \/ TaskComment(c)
  \/ DeleteTicket(c) \/ DeleteTask(c) \/ ChangeRules \/ StartCreate(c) \/ StartUpdate(c)
  \/ ReadAll \/ RemoveRow

Statement(c) ==
  \/ LoadTicket(c) \/ LoadTask(c) \/ NotChanged(c) \/ ResolveTicket(c) \/ ResolveTask(c)
  \/ SaveEmail(c) \/ SaveNotes(c) \/ Enqueue(c) \/ CleanUp(c) \/ CleanUpEarly(c)
  \/ SaveOwn(c) \/ SaveRow(c)
  \/ LoadRow(c) \/ Send(c) \/ MarkSent(c) \/ MarkError(c) \/ Settle(c) \/ Abandon(c)

Fault(c) ==
  EnqueueFails(c) \/ DispatchFails(c) \/ SendFails(c) \/ MarkFails(c)
  \/ SettleFails(c) \/ Fail(c)

Next ==
  \/ CommitTask \/ RollBackTask
  \/ \E c \in Requests : Request(c) \/ Receive(c) \/ Statement(c) \/ Fault(c)

Spec == Init /\ [][Next]_vars

-----------------------------------------------------------------------------
(* Correctness *)

TypeOK ==
  /\ state \in States /\ item \in Items
  /\ rows \in Seq(Row \cup {NoRow}) /\ posted \in [Ids -> Nat]
  /\ queue \in Seq(Ids) /\ removed \subseteq Ids
  /\ \A c \in Requests : req[c].op = "process" => queue # <<>> /\ req[c].row = Head(queue)
  /\ RequestsOK

\* A row that says it was sent has been sent, whatever has failed and however
\* the requests on it interleaved; as long as nothing fails, nothing is sent
\* twice.
SentOnce ==
  \A i \in Ids :
    /\ Exists(i) /\ rows[i].sent => posted[i] > 0
    /\ ~failed => posted[i] <= 1

\* By the matrix an alert is written to somebody, whoever the item is
\* assigned to ("every event must have at least one TO recipient"), nobody gets it twice,
\* and all of them are told in the application too.
Addressed ==
  \A c \in Requests :
    (At(c, "saveEmail") \/ At(c, "saveNotes")) /\ mem[c].from = "matrix" =>
      LET who == mem[c].who
      IN who.to # {} /\ who.to \cap who.cc = {} /\ who.told = who.to \cup who.cc

\* When all is quiet and nothing has failed, every row that was not removed has
\* been sent or is an error, also the alert that tells of a deletion ("must
\* remain as an audit trail").
AllTold ==
  ~failed /\ Quiet /\ queue = <<>> =>
    \A i \in Ids : i \notin removed =>
      Exists(i) /\ (posted[i] = 1 \/ rows[i].kind = "unfit")

\* A deleted ticket or task leaves no alerts behind, but for those of its
\* deletion, when its requests and the consumers do not overlap.
CleanedUp ==
  Clean /\ Quiet /\ state = "gone" =>
    /\ \A i \in Ids : Exists(i) => rows[i].ref = "none"
    /\ \A i \in removed : ~Exists(i)
=============================================================================
