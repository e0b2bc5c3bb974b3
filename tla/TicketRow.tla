------------------------------ MODULE TicketRow ------------------------------
(***************************************************************************)
(* One row of the table ticket and the requests that change it.            *)
(*                                                                         *)
(* Some handlers of TicketService send one UPDATE of the columns they mean *)
(* to change (status, name, queue, type, impact).  The others load the     *)
(* entity, change it in memory and call TypeORM's save, which reads the    *)
(* row again and updates every column whose value in memory differs from   *)
(* the one it reads, the columns other requests changed since the load     *)
(* included.  No handler locks the row when it loads it.                   *)
(*                                                                         *)
(* A change of status, and the general patch, start refreshSlaDeadlines as *)
(* a detached call on a connection of its own: it reads the SLA time and   *)
(* writes the deadline, at any later moment.                               *)
(*                                                                         *)
(* Triggers keep ticketVersion and append the change of every tracked      *)
(* column to ticket_event.                                                 *)
(*                                                                         *)
(* Response and resolution deadline behave alike: one stands for both.  A  *)
(* deadline counts from createdAt, so it is the SLA time; 0 is NULL.       *)
(***************************************************************************)
EXTENDS Naturals

CONSTANTS
  Requests,       \* requests served at the same time
  NoRequest, NoEntity,
  Handlers,       \* the handlers they call, among those of the actions below
  StartStatuses,  \* the status bases a ticket is created with
  SlaTimes,       \* the SLA times of the severities, 0 for none
  Texts,          \* values of the other tracked columns
  Faulty,         \* requests and refreshes may fail
  MaxServed       \* bound: how many requests are served in all

Statuses == {"To Start", "Processing", "Finished"}

ASSUME TicketAssumption ==
  /\ NoRequest \notin Requests
  /\ MaxServed \in Nat /\ Faulty \in BOOLEAN
  /\ StartStatuses \subseteq Statuses /\ SlaTimes \subseteq Nat /\ 0 \in SlaTimes

VARIABLES
  row,      \* the row as committed
  work,     \* the row as the transaction that updated it sees it, row if none
  locker,   \* the request whose transaction has updated the row
  replay,   \* what the committed events of ticket_event add up to
  pc, op,   \* the step and the handler of each request
  mem,      \* the entity in memory
  cols,     \* the columns save found different
  job,      \* the detached refresh a request has started
  base,     \* the status base it was given
  due,      \* the deadline it computed
  served,   \* requests begun so far
  clean     \* nothing has overlapped or failed yet, and no general patch was sent

tableVars  == <<row, work, locker, replay>>
memoryVars == <<pc, op, mem, cols, served, clean>>
jobVars    == <<job, base, due>>
vars       == <<tableVars, memoryVars, jobVars>>

Tracked == {"status", "sla", "deadline", "text"}
Columns == Tracked \cup {"version"}
Row == [status : Statuses, sla : SlaTimes, deadline : SlaTimes, text : Texts, version : Nat]
Log == [status : Statuses, sla : SlaTimes, deadline : SlaTimes, text : Texts]
PCs == {"idle", "loaded", "writing", "spawning", "committing"}

\* The tracked columns of a row
Content(r) == [status |-> r.status, sla |-> r.sla, deadline |-> r.deadline, text |-> r.text]

\* computeSlaDeadlines: no clock runs for a finished ticket.
DeadlineNeverFrozen(status, sla) == sla
Deadline(status, sla) == IF status = "Finished" THEN 0 ELSE sla

-----------------------------------------------------------------------------
(* The triggers *)

\* The columns on which two versions of the row differ, of those the triggers
\* compare; a column could be missing from their list.
ChangedButSla(old, new) == {k \in Tracked \ {"sla"} : new[k] # old[k]}
Changed(old, new) == {k \in Tracked : new[k] # old[k]}

\* fn_ticket_version_manager (BEFORE): a tracked change gives the next version;
\* otherwise the version in the UPDATE, if any, is stored as it is.
Versioned(old, new) ==
  IF Changed(old, new) # {} THEN [new EXCEPT !.version = old.version + 1] ELSE new

\* fn_ticket_event_logger (AFTER): the new values of the changed columns are
\* added to what was logged before.
LatestDiff(old, new) ==
  IF new.version = old.version THEN replay ELSE [k \in Changed(old, new) |-> new[k]]
Logged(old, new) ==
  IF new.version = old.version THEN replay
  ELSE [k \in Tracked |-> IF k \in Changed(old, new) THEN new[k] ELSE replay[k]]

\* The row with the columns ks taken from new
Overwrite(old, new, ks) == [k \in Columns |-> IF k \in ks THEN new[k] ELSE old[k]]

\* A transaction of one UPDATE; it waits while another has the row.
Update(new) ==
  /\ locker = NoRequest
  /\ row' = Versioned(row, new)
  /\ work' = row'
  /\ replay' = Logged(row, row')
  /\ UNCHANGED locker

-----------------------------------------------------------------------------
\* create computes the deadlines from the SLA time, whatever the status.
Init ==
  /\ row \in {[status |-> s, sla |-> m, deadline |-> m, text |-> t, version |-> 1] :
                s \in StartStatuses, m \in SlaTimes, t \in Texts}
  /\ work = row
  /\ locker = NoRequest
  /\ replay = Content(row)
  /\ pc = [c \in Requests |-> "idle"]
  /\ op = [c \in Requests |-> "none"]
  /\ mem = [c \in Requests |-> NoEntity]
  /\ cols = [c \in Requests |-> {}]
  /\ job = [c \in Requests |-> "none"]
  /\ base = [c \in Requests |-> "none"]
  /\ due = [c \in Requests |-> 0]
  /\ served = 0 /\ clean = TRUE

\* A request arrives; the slot of an earlier one is free when its refresh ended.
Arrive(c, h) ==
  /\ h \in Handlers
  /\ pc[c] = "idle" /\ job[c] = "none"
  /\ served < MaxServed
  /\ served' = served + 1
  /\ clean' = (clean /\ h # "patch" /\ \A d \in Requests : pc[d] = "idle" /\ job[d] = "none")

\* refreshSlaDeadlines is called and not awaited.
StartRefresh(c, s) ==
  /\ job' = [job EXCEPT ![c] = "reading"]
  /\ base' = [base EXCEPT ![c] = s]
  /\ UNCHANGED due

\* patchTicketStatus
PatchStatus(c) ==
  /\ Arrive(c, "status")
  /\ \E s \in Statuses : Update([row EXCEPT !.status = s]) /\ StartRefresh(c, s)
  /\ UNCHANGED <<pc, op, mem, cols>>

\* patchTicketName, patchTicketQueue, patchTicketImpact, patchTicketType
PatchField(c) ==
  /\ Arrive(c, "field")
  /\ \E t \in Texts : Update([row EXCEPT !.text = t])
  /\ UNCHANGED <<pc, op, mem, cols, jobVars>>

\* A handler that saves begins: it loads the row and changes the entity.
Load(c, h, entity) ==
  /\ Arrive(c, h)
  /\ pc' = [pc EXCEPT ![c] = "loaded"]
  /\ op' = [op EXCEPT ![c] = h]
  /\ mem' = [mem EXCEPT ![c] = entity]
  /\ UNCHANGED <<tableVars, cols, jobVars>>

\* patchTicketDescription, patchTicketEffort, patchTicketCompletionDate,
\* patchTicketAssignee
LoadToSave(c) == \E t \in Texts : Load(c, "save", [row EXCEPT !.text = t])

\* patchTicketParticipants: the participants are in a table of their own.
LoadParticipants(c) == Load(c, "participants", row)

\* patchTicketSeverity: the deadline follows the status it has loaded.
LoadSeverity(c) == \E m \in SlaTimes :
  Load(c, "severity", [row EXCEPT !.sla = m, !.deadline = Deadline(row.status, m)])

\* patchTicket with a status and a severity in its DTO (given values may be the
\* ones the ticket has): the deadline is left to the refresh.
LoadPatch(c) == \E s \in Statuses, m \in SlaTimes :
  Load(c, "patch", [row EXCEPT !.status = s, !.sla = m])

\* save reads the row again and compares.
Compare(c) ==
  /\ pc[c] = "loaded"
  /\ cols' = [cols EXCEPT ![c] = {k \in Columns : mem[c][k] # row[k]}]
  /\ pc' = [pc EXCEPT ![c] =
       IF cols'[c] # {} THEN "writing" ELSE IF op[c] = "patch" THEN "spawning" ELSE "committing"]
  /\ UNCHANGED <<tableVars, op, mem, served, clean, jobVars>>

\* save updates the columns that differed, the version among them.
Write(c) ==
  /\ pc[c] = "writing"
  /\ locker = NoRequest
  /\ work' = Versioned(row, Overwrite(row, mem[c], cols[c]))
  /\ locker' = c
  /\ pc' = [pc EXCEPT ![c] = IF op[c] = "patch" THEN "spawning" ELSE "committing"]
  /\ UNCHANGED <<row, replay, op, mem, cols, served, clean, jobVars>>

\* patchTicket starts the refresh before its transaction commits.
Spawn(c) ==
  /\ pc[c] = "spawning"
  /\ StartRefresh(c, IF locker = c THEN work.status ELSE row.status)
  /\ pc' = [pc EXCEPT ![c] = "committing"]
  /\ UNCHANGED <<tableVars, op, mem, cols, served, clean>>

\* The request is answered.
FreeLock(c) == IF locker = c THEN NoRequest ELSE locker
Answer(c) ==
  /\ locker' = FreeLock(c)
  /\ pc' = [pc EXCEPT ![c] = "idle"]
  /\ op' = [op EXCEPT ![c] = "none"]
  /\ mem' = [mem EXCEPT ![c] = NoEntity]
  /\ cols' = [cols EXCEPT ![c] = {}]
  /\ UNCHANGED <<served, jobVars>>

\* The refresh a general patch has started is not awaited ("void"); awaiting it
\* before the commit would be a wait for an update that waits for the row.
Awaited(c) == job[c] = "none"
Detached(c) == TRUE

Commit(c) ==
  /\ pc[c] = "committing" /\ Detached(c)
  /\ row' = IF locker = c THEN work ELSE row
  /\ replay' = IF locker = c THEN Logged(row, work) ELSE replay
  /\ UNCHANGED <<work, clean>>
  /\ Answer(c)

\* A statement fails: the transaction is rolled back, a refresh it has already
\* started goes on.
Fail(c) ==
  /\ Faulty /\ pc[c] # "idle"
  /\ work' = IF locker = c THEN row ELSE work
  /\ clean' = FALSE
  /\ UNCHANGED <<row, replay>>
  /\ Answer(c)

-----------------------------------------------------------------------------
(* refreshSlaDeadlines *)

ReadSla(c) ==
  /\ job[c] = "reading"
  /\ due' = [due EXCEPT ![c] = Deadline(base[c], row.sla)]
  /\ job' = [job EXCEPT ![c] = "writing"]
  /\ UNCHANGED <<tableVars, memoryVars, base>>

EndRefresh(c) ==
  /\ job' = [job EXCEPT ![c] = "none"]
  /\ base' = [base EXCEPT ![c] = "none"]
  /\ due' = [due EXCEPT ![c] = 0]
  /\ UNCHANGED <<pc, op, mem, cols, served>>

WriteDeadline(c) ==
  /\ job[c] = "writing"
  /\ Update([row EXCEPT !.deadline = due[c]])
  /\ EndRefresh(c)
  /\ UNCHANGED clean

\* An error is logged and forgotten; a restart of the process forgets too.
RefreshFails(c) ==
  /\ Faulty /\ job[c] # "none"
  /\ EndRefresh(c)
  /\ clean' = FALSE
  /\ UNCHANGED tableVars

-----------------------------------------------------------------------------
Continue(c) == Compare(c) \/ Write(c) \/ Spawn(c) \/ Commit(c)
Refresh(c)  == ReadSla(c) \/ WriteDeadline(c)

Next == \E c \in Requests :
  \/ PatchStatus(c) \/ PatchField(c)
  \/ LoadToSave(c) \/ LoadParticipants(c) \/ LoadSeverity(c) \/ LoadPatch(c)
  \/ Continue(c) \/ Refresh(c)
  \/ Fail(c) \/ RefreshFails(c)

Spec == Init /\ [][Next]_vars

\* The driver awaits each statement, and the database queues those that wait
\* for the row.
FairSpec == Spec /\ \A c \in Requests : SF_vars(Continue(c)) /\ SF_vars(Refresh(c))

-----------------------------------------------------------------------------
(* Correctness *)

TypeOK ==
  /\ row \in Row /\ work \in Row /\ replay \in Log
  /\ locker \in Requests \cup {NoRequest}
  /\ pc \in [Requests -> PCs]
  /\ op \in [Requests -> {"none", "save", "participants", "severity", "patch"}]
  /\ mem \in [Requests -> Row \cup {NoEntity}] /\ cols \in [Requests -> SUBSET Columns]
  /\ job \in [Requests -> {"none", "reading", "writing"}]
  /\ base \in [Requests -> Statuses \cup {"none"}]
  /\ due \in [Requests -> SlaTimes]
  /\ served \in 0..MaxServed /\ clean \in BOOLEAN

\* The events of a ticket add up to its row: no change escapes the log, in
\* whatever order the requests save ("payload = diff of changed fields").
LogAddsUp == replay = Content(row)

\* Inductive, and why the log adds up: an update that waits for its commit has
\* moved the version if it changed a tracked column, so its event is not skipped.
LogInv ==
  /\ TypeOK
  /\ LogAddsUp
  /\ \A c \in Requests : pc[c] \in {"loaded", "writing"} => mem[c] \in Row
  /\ locker # NoRequest /\ Changed(row, work) # {} => work.version = row.version + 1

\* The version counts the meaningful changes and nothing else moves it
\* ("Managed exclusively by the database").
VersionCounts ==
  [][row'.version = IF Content(row') # Content(row) THEN row.version + 1 ELSE row.version]_row

\* While requests do not overlap, whenever none of them and no refresh is under
\* way the deadline fits the status and the severity ("Freeze SLA deadlines when
\* Finished; restore when moving away from Finished").
Idle == \A c \in Requests : pc[c] = "idle" /\ job[c] = "none"
Settled == clean /\ Idle => row.deadline = IF row.status = "Finished" THEN 0 ELSE row.sla

\* Every request is answered and its refresh ends: no transaction waits for the
\* row for ever, a refresh started inside a transaction included.
AllAnswered ==
  \A c \in Requests :
    pc[c] # "idle" \/ job[c] # "none" ~> pc[c] = "idle" /\ job[c] = "none"
=============================================================================
