---------------------------- MODULE SpaceConfig ----------------------------
(***************************************************************************)
(* The configuration of one space, of projects or of tickets: its          *)
(* statuses, ordered and grouped by their base, in a project space its     *)
(* hierarchy levels, the tasks or tickets that use them with a copy of the *)
(* status name, the rest of the configuration, and the blob Redis keeps of *)
(* it all.  The rest (severities, types, SLAs, impacts, queues, the people *)
(* with their names and skills) is one value: its handlers differ only in  *)
(* what becomes of the blob.  What a handler refuses changes nothing and   *)
(* is left out.                                                            *)
(*                                                                         *)
(* A handler of TaskSpaceService or TicketSpaceService changes the tables  *)
(* and then deletes the blob; some fill it again at once, the others leave *)
(* that to the next reader.  Each action is one statement or one           *)
(* transaction that reads nothing another request may have changed;        *)
(* statements of different requests interleave.  Redis errors are          *)
(* swallowed: a call may do nothing.                                       *)
(***************************************************************************)
EXTENDS RequestPlans, SequencesExt

CONSTANTS
  Names,         \* names of statuses
  LevelNames,
  Masters,       \* the statuses a space may take over: name, base, isPrimaryBase
  Tasks,         \* tasks or tickets
  Rests,         \* what the rest of a configuration may be, 0 at the start
  DefaultLevels, \* the last sequence of a default level, 2 in the code
  NamedLists,    \* the statuses a ticket space may be made with, by name
  NoName,        \* the column is NULL
  Absent         \* a key the cache does not hold

\* To Start, Processing and Finished, as baseOrder numbers them
Bases == 1..3

Status == [name : Names, base : Bases, isPrimaryBase : BOOLEAN]

ASSUME SpaceAssumption ==
  /\ NoName \notin Names /\ Masters \subseteq Status /\ LevelNames # {}
  /\ DefaultLevels \in Nat /\ NamedLists \subseteq Seq(Masters) /\ 0 \in Rests

\* The code's comment: the primary statuses "should be exactly 3".
ASSUME PrimaryAssumption == \A b \in Bases : \E m \in Masters : m.base = b /\ m.isPrimaryBase

VARIABLES
  statuses,    \* the rows of task_space_status_config by id
  levels,      \* the rows of task_space_hierarchy_level_config by id
  issued,      \* the last id given to a status or a level
  tasks,       \* the rows of tm_task, or of ticket
  kind,        \* the space is one of projects or of tickets
  rest,        \* the rest of its configuration
  blob,        \* task_space_config:<id>, ticket_space_config:<id>
  moved,       \* somebody chose the places: with an order, or with the statuses named at first
  elsewhere    \* the rest was changed by a service that does not know of the blob

restVars  == <<kind, rest, elsewhere>>
tableVars == <<statuses, levels, issued, tasks, moved, restVars>>
configVars == <<tableVars, blob, requestVars>>

StatusRow == [name : Names, base : Bases, isPrimaryBase : BOOLEAN, sequence : Int]
LevelRow  == [name : LevelNames, sequence : Nat]

\* The primary statuses in the order of their ids, which is that of their bases:
\* what every space is seeded with.
Defaults == {m \in Masters : m.isPrimaryBase}
Row(m, q) == [name |-> m.name, base |-> m.base, isPrimaryBase |-> m.isPrimaryBase, sequence |-> q]
DefaultStatuses == [i \in {m.base : m \in Defaults} |->
                      Row(CHOOSE m \in Defaults : m.base = i, i - 1)]

\* createTicketSpace: the statuses its caller names (in the order the query returns
\* them), each with its index, and then the default ones all the same.
Created(L) == [i \in 1..(Len(L) + 3) |->
                 IF i <= Len(L) THEN Row(L[i], i - 1) ELSE DefaultStatuses[i - Len(L)]]
Current == [status |-> statuses, hierarchy |-> levels, rest |-> rest]

Without(f, i) == [j \in DOMAIN f \ {i} |-> f[j]]
With(f, i, r) == [j \in DOMAIN f \cup {i} |-> IF j = i THEN r ELSE f[j]]

\* At the start the space is as it was made, perhaps with a second status of base 2
\* added, with a task of the first status, and the process has filled the blob.
ConfigInit ==
  /\ kind \in {"project", "ticket"} /\ rest = 0
  /\ LET last == DefaultStatuses[3]
     IN  \/ /\ statuses = DefaultStatuses /\ moved = FALSE
            /\ issued = [status |-> 3, level |-> DefaultLevels + 1]
         \/ /\ moved = FALSE
            /\ issued = [status |-> 4, level |-> DefaultLevels + 1]
            /\ \E m \in Masters \ Defaults :
                 /\ m.base = 2
                 /\ statuses = With(With(DefaultStatuses, 4, Row(m, 2)),
                                    3, [last EXCEPT !.sequence = 3])
         \/ \E L \in NamedLists :
              /\ kind = "ticket" /\ moved = TRUE
              /\ statuses = Created(L)
              /\ issued = [status |-> Len(L) + 3, level |-> DefaultLevels + 1]
  /\ levels = IF kind = "ticket" THEN <<>>
              ELSE [i \in 0..(DefaultLevels + 1) |->
                      [name |-> CHOOSE n \in LevelNames : TRUE, sequence |-> i]]
  /\ \/ tasks = <<>>
     \/ \E t \in Tasks : tasks = [x \in {t} |->
          [status |-> 1, level |-> 0, statusName |-> statuses[1].name]]
  /\ blob = Current
  /\ elsewhere = FALSE
  /\ InitRequests

Ask(c, r, m, p) == Arrive(c, r, m, p) /\ UNCHANGED <<tableVars, blob>>
Stop(c) == End(c) /\ UNCHANGED <<tableVars, blob>>

StatusUsed(i) == \E t \in DOMAIN tasks : tasks[t].status = i
LevelUsed(i)  == \E t \in DOMAIN tasks : tasks[t].level = i
Linked(n)     == \E i \in DOMAIN statuses : statuses[i].name = n

-----------------------------------------------------------------------------
(* Requests: what they find when they come in, and their statements *)

\* A bug would leave the old blob.
Leave == <<>>
Drop  == <<"dropBlob">>
Fill  == <<"buildBlob", "putBlob">>
DropAndFill == Drop \o Fill

Projects == kind = "project"
Tickets  == kind = "ticket"

AddedStatus(c) == \E n \in Names, b \in Bases :
  /\ ~Linked(n)
  /\ Ask(c, [op |-> "addStatus", row |-> [name |-> n, base |-> b, isPrimaryBase |-> FALSE]],
            <<>>, <<"readOrder", "commitStatus">> \o DropAndFill)
AddStatus(c)       == Projects /\ AddedStatus(c)
AddTicketStatus(c) == Tickets /\ AddedStatus(c)

ExistingStatus(c, after) == \E m \in Masters :
  /\ ~Linked(m.name)
  /\ Ask(c, [op |-> "addExistingStatus", row |-> m],
            <<>>, <<"readOrder", "commitStatus">> \o after)
AddExistingStatus(c)       == Projects /\ ExistingStatus(c, Drop)
AddExistingTicketStatus(c) == Tickets /\ ExistingStatus(c, DropAndFill)

\* updateSpaceStatus with a name, the same or another one: no name is refused.
RenamedStatus(c) == \E i \in DOMAIN statuses, n \in Names :
  Ask(c, [op |-> "updateSpaceStatus", id |-> i, name |-> n],
         <<>>, <<"writeName", "nameTasks">> \o Drop)
UpdateSpaceStatus(c)  == Projects /\ RenamedStatus(c)
UpdateTicketStatus(c) == Tickets /\ RenamedStatus(c)

\* A status in use or of the primary ones is refused.
RemovedStatus(c) == \E i \in DOMAIN statuses :
  /\ ~StatusUsed(i) /\ ~statuses[i].isPrimaryBase
  /\ Ask(c, [op |-> "removeStatus", id |-> i], <<>>, <<"deleteStatus">> \o DropAndFill)
RemoveStatus(c)       == Projects /\ RemovedStatus(c)
RemoveTicketStatus(c) == Tickets /\ RemovedStatus(c)

\* updateStatusSequence: two statuses change places.
Swapped(c, after) == \E i, j \in DOMAIN statuses :
  /\ i < j
  /\ Ask(c, [op |-> "updateStatusSequence",
             places |-> [k \in {i, j} |-> statuses[IF k = i THEN j ELSE i].sequence]],
            <<>>, <<"writeOrder">> \o after)
UpdateStatusSequence(c) == Projects /\ Swapped(c, Drop)
UpdateTicketSequence(c) == Tickets /\ Swapped(c, DropAndFill)

AddHierarchyLevel(c) == \E n \in LevelNames, q \in 0..(DefaultLevels + 1) :
  Projects /\ Ask(c, [op |-> "addHierarchyLevel", row |-> [name |-> n, sequence |-> q]],
         <<>>, <<"insertLevel">> \o DropAndFill)

\* updateHierarchyLevelConfig: the row is loaded, and saved with what was sent.
UpdateHierarchyLevel(c) == \E i \in DOMAIN levels, n \in LevelNames, q \in 0..(DefaultLevels + 1) :
  Ask(c, [op |-> "updateHierarchyLevel", id |-> i], [name |-> n, sequence |-> q],
         <<"saveLevel">> \o Drop)

\* patchHierarchyLevelConfig: another name is refused when tasks have the level.
PatchHierarchyLevel(c) == \E i \in DOMAIN levels, n \in LevelNames :
  Ask(c, [op |-> "patchHierarchyLevel", id |-> i], [levels[i] EXCEPT !.name = n],
         (IF n = levels[i].name THEN <<>> ELSE <<"countLevel">>) \o <<"saveLevel">> \o Drop)

\* saveAllHierarchyLevels, and updateTaskSpace with the ids of master levels
SaveAllHierarchyLevels(c) == \E n \in LevelNames, k \in 0..(DefaultLevels + 1) :
  Projects /\ Ask(c, [op |-> "saveAllHierarchyLevels", names |-> [i \in 1..k |-> n]],
         <<>>, <<"replaceLevels">> \o Drop)

RemoveHierarchyLevel(c) == \E i \in DOMAIN levels :
  /\ levels[i].sequence > DefaultLevels
  /\ Ask(c, [op |-> "removeHierarchyLevel", id |-> i], <<>>,
            <<"countLevel", "deleteLevel">> \o DropAndFill)

\* TmTaskService.create and patchStatus look the status up and copy its name.
CreateTask(c) == \E t \in Tasks, i \in DOMAIN statuses, l \in DOMAIN levels :
  /\ t \notin DOMAIN tasks
  /\ Ask(c, [op |-> "createTask", task |-> t],
            [status |-> i, level |-> l, statusName |-> statuses[i].name], <<"insertTask">>)

CreateTicket(c) == \E t \in Tasks \ DOMAIN tasks, i \in DOMAIN statuses :
  /\ Tickets
  /\ Ask(c, [op |-> "createTask", task |-> t],
            [status |-> i, level |-> 0, statusName |-> statuses[i].name], <<"insertTask">>)

Patched(c) == \E t \in DOMAIN tasks, i \in DOMAIN statuses :
  Ask(c, [op |-> "patchStatus", task |-> t],
         [status |-> i, statusName |-> statuses[i].name], <<"writeStatus">>)
PatchStatus(c)       == Projects /\ Patched(c)
PatchTicketStatus(c) == Tickets /\ Patched(c)

\* Readers that find no blob, or no level in it, read the table and fill the
\* blob if there is something to keep.
GetStatusConfig(c) ==
  /\ Projects /\ blob = Absent
  /\ Ask(c, [op |-> "getStatusConfig"], <<>>, <<"readStatuses">> \o Fill)

LevelsCached == blob # Absent /\ blob.hierarchy # <<>>
GetHierarchyLevelConfig(c) ==
  /\ Projects /\ ~LevelsCached
  /\ Ask(c, [op |-> "getHierarchyLevelConfig"], <<>>, <<"readLevels">> \o Fill)

GetTicketStatusConfig(c) ==
  /\ Tickets /\ blob = Absent
  /\ Ask(c, [op |-> "getStatusConfig"], <<>>, <<"readStatuses">> \o Fill)

\* The readers of the rest.  One that finds nothing to keep does nothing.
Look(c) == blob = Absent /\ Ask(c, [op |-> "look"], <<>>, Fill)
GetSeverityConfig(c)      == Projects /\ Look(c)
GetOwnersConfig(c)        == Projects /\ Look(c)
GetResourcesConfig(c)     == Projects /\ Look(c)
GetConfiguration(c)       == Tickets /\ Look(c)
GetTicketSeverities(c)    == Tickets /\ Look(c)
GetTypesConfig(c)         == Tickets /\ Look(c)
GetSlaConfig(c)           == Tickets /\ Look(c)
GetImpactConfig(c)        == Tickets /\ Look(c)
GetQueueConfig(c)         == Tickets /\ Look(c)
GetMembersConfig(c)       == Tickets /\ Look(c)
GetCreateConfig(c)        == Tickets /\ Look(c)

\* onModuleInit: the process starts.
SeedAll(c)       == Projects /\ Quiet /\ Ask(c, [op |-> "seedAll"], <<>>, Fill)
SeedAllTickets(c) == Tickets /\ Quiet /\ Ask(c, [op |-> "seedAll"], <<>>, Fill)

-----------------------------------------------------------------------------
(* Requests that change the rest *)

Change(c, after) == Ask(c, [op |-> "change"], <<>>, <<"writeRest">> \o after)

\* Of a project space.  What updateSpaceSeverity does to the tasks is what
\* updateSpaceStatus does; toggleIsActive changes nothing the blob shows.
AddSeverity(c)         == Projects /\ Change(c, DropAndFill)
AddExistingSeverity(c) == Projects /\ Change(c, Drop)
UpdateSpaceSeverity(c) == Projects /\ Change(c, Drop)
RemoveSeverity(c)      == Projects /\ Change(c, DropAndFill)
AddResource(c)         == Projects /\ Change(c, DropAndFill)
RemoveResource(c)      == Projects /\ Change(c, DropAndFill)
AddOwner(c)            == Projects /\ Change(c, DropAndFill)
RemoveOwner(c)         == Projects /\ Change(c, DropAndFill)
UpdateTaskSpace(c)     == Projects /\ Change(c, Drop)
ToggleIsActive(c)      == Projects /\ Ask(c, [op |-> "toggle"], <<>>, Drop)

\* Of a ticket space.  An SLA is two columns of a severity.
AddTicketSeverity(c)         == Tickets /\ Change(c, DropAndFill)
AddExistingTicketSeverity(c) == Tickets /\ Change(c, DropAndFill)
UpdateTicketSeverity(c)      == Tickets /\ Change(c, Drop)
RemoveTicketSeverity(c)      == Tickets /\ Change(c, DropAndFill)
AddType(c)                   == Tickets /\ Change(c, DropAndFill)
AddExistingType(c)           == Tickets /\ Change(c, DropAndFill)
UpdateSpaceType(c)           == Tickets /\ Change(c, Drop)
RemoveType(c)                == Tickets /\ Change(c, DropAndFill)
AddSla(c)                    == Tickets /\ Change(c, DropAndFill)
RemoveSla(c)                 == Tickets /\ Change(c, DropAndFill)
AddImpact(c)                 == Tickets /\ Change(c, DropAndFill)
UpdateImpact(c)              == Tickets /\ Change(c, DropAndFill)
RemoveImpact(c)              == Tickets /\ Change(c, DropAndFill)
AddQueue(c)                  == Tickets /\ Change(c, DropAndFill)
RemoveQueue(c)               == Tickets /\ Change(c, DropAndFill)
AddMember(c)                 == Tickets /\ Change(c, DropAndFill)
UpdateMember(c)              == Tickets /\ Change(c, DropAndFill)
RemoveMember(c)              == Tickets /\ Change(c, DropAndFill)
AddMembers(c)                == Tickets /\ Change(c, DropAndFill)
ToggleTicketSpace(c)         == Tickets /\ Ask(c, [op |-> "toggle"], <<>>, Fill)

\* updateTicketSpace loads the space with its statuses and saves them with it.
UpdateTicketSpace(c) ==
  Tickets /\ Ask(c, [op |-> "change"], [own |-> statuses], <<"rereadSpace", "saveSpace">> \o DropAndFill)

\* A resource is updated: one transaction, and the blobs of its spaces are
\* dropped after the answer is sent.
UpdateResource(c) == Projects /\ Change(c, Drop)

\* quickEdit, syncUserData and remove of a resource, and the services of queues
\* and impacts: nothing is dropped.
Unseen(c) == Ask(c, [op |-> "unseen"], <<>>, <<"writeUnseen">>)
QuickEdit(c)     == Projects /\ Unseen(c)
SyncUserData(c)  == Projects /\ Unseen(c)
DeleteResource(c) == Projects /\ Unseen(c)
EditQueue(c)     == Tickets /\ Unseen(c)
DeleteQueue(c)   == Tickets /\ Unseen(c)
EditImpact(c)    == Tickets /\ Unseen(c)
DeleteImpact(c)  == Tickets /\ Unseen(c)

-----------------------------------------------------------------------------
(* Statements on the tables *)

\* SELECT ... ORDER BY sequence: rows of the same sequence come in any order.
Ordered(f) == {L \in SetToSeqs(DOMAIN f) :
  \A x, y \in DOMAIN L : x < y => f[L[x]].sequence <= f[L[y]].sequence}

\* The place of a new status: after the last of its base, else after the last
\* of an earlier base, else in front.  A bug would put it at the end.
AtTheEnd(L, b) == Len(L)
InsertIndex(L, b) ==
  LET Ending(S) == CHOOSE x \in S : \A y \in S : y <= x
      same  == {x \in DOMAIN L : statuses[L[x]].base = b}
      lower == {x \in DOMAIN L : statuses[L[x]].base < b}
  IN  IF same # {} THEN Ending(same) ELSE IF lower # {} THEN Ending(lower) ELSE 0

\* The rows and their bases are read together.
ReadOrder(c) ==
  /\ At(c, "readOrder")
  /\ \E L \in Ordered(statuses) :
       Proceed(c, [order |-> L, index |-> InsertIndex(L, req[c].row.base)])
  /\ UNCHANGED <<tableVars, blob>>

\* INSERT, then an UPDATE for each row that was read: its sequence is its index.
\* A row inserted meanwhile keeps the sequence it has; one that is gone stays so.
NewStatus(r) ==
  [name |-> r.name, base |-> r.base, isPrimaryBase |-> r.isPrimaryBase, sequence |-> -1]
Resequenced(f, L) ==
  [i \in DOMAIN f |->
     IF i \in ToSet(L) THEN [f[i] EXCEPT !.sequence = (CHOOSE x \in DOMAIN L : L[x] = i) - 1]
     ELSE f[i]]

CommitStatus(c) ==
  /\ At(c, "commitStatus")
  /\ LET new == issued.status + 1
     IN  /\ statuses' = Resequenced(With(statuses, new, NewStatus(req[c].row)),
                                    InsertAt(mem[c].order, mem[c].index + 1, new))
         /\ issued' = [issued EXCEPT !.status = new]
  /\ Done(c)
  /\ UNCHANGED <<levels, tasks, moved, blob, restVars>>

\* UPDATE ... RETURNING *: the first element of what the driver returns is the
\* list of the rows, and a list has no name.
Returned(row) == NoName

WriteName(c) ==
  /\ At(c, "writeName")
  /\ IF req[c].id \in DOMAIN statuses
       THEN /\ statuses' = [statuses EXCEPT ![req[c].id].name = req[c].name]
            /\ Proceed(c, Returned(statuses'[req[c].id]))
       ELSE /\ UNCHANGED statuses
            /\ Proceed(c, NoName)
  /\ UNCHANGED <<levels, issued, tasks, moved, blob, restVars>>

NameTasks(c) ==
  /\ At(c, "nameTasks")
  /\ tasks' = [t \in DOMAIN tasks |->
                 IF tasks[t].status = req[c].id THEN [tasks[t] EXCEPT !.statusName = mem[c]]
                 ELSE tasks[t]]
  /\ Done(c)
  /\ UNCHANGED <<statuses, levels, issued, moved, blob, restVars>>

\* The foreign keys of tm_task refuse to let a row go that a task refers to.
DeleteStatus(c) ==
  /\ At(c, "deleteStatus")
  /\ IF StatusUsed(req[c].id)
       THEN Stop(c)
       ELSE /\ statuses' = Without(statuses, req[c].id)
            /\ Done(c)
            /\ UNCHANGED <<levels, issued, tasks, moved, blob, restVars>>

WriteOrder(c) ==
  /\ At(c, "writeOrder")
  /\ statuses' = [i \in DOMAIN statuses |->
                    IF i \in DOMAIN req[c].places
                      THEN [statuses[i] EXCEPT !.sequence = req[c].places[i]] ELSE statuses[i]]
  /\ moved' = TRUE
  /\ Done(c)
  /\ UNCHANGED <<levels, issued, tasks, blob, restVars>>

InsertLevel(c) ==
  /\ At(c, "insertLevel")
  /\ levels' = With(levels, issued.level + 1, req[c].row)
  /\ issued' = [issued EXCEPT !.level = @ + 1]
  /\ Done(c)
  /\ UNCHANGED <<statuses, tasks, moved, blob, restVars>>

\* save: a row that is gone is inserted again.
SaveLevel(c) ==
  /\ At(c, "saveLevel")
  /\ levels' = With(levels, req[c].id, mem[c])
  /\ Done(c)
  /\ UNCHANGED <<statuses, issued, tasks, moved, blob, restVars>>

CountLevel(c) ==
  /\ At(c, "countLevel")
  /\ IF LevelUsed(req[c].id) THEN Stop(c) ELSE Done(c) /\ UNCHANGED <<tableVars, blob>>

DeleteLevel(c) ==
  /\ At(c, "deleteLevel")
  /\ IF LevelUsed(req[c].id)
       THEN Stop(c)
       ELSE /\ levels' = Without(levels, req[c].id)
            /\ Done(c)
            /\ UNCHANGED <<statuses, issued, tasks, moved, blob, restVars>>

\* All go and the new ones come in one transaction, in the order they were sent.
ReplaceLevels(c) ==
  /\ At(c, "replaceLevels")
  /\ IF \E i \in DOMAIN levels : LevelUsed(i)
       THEN Stop(c)
       ELSE LET names == req[c].names
            IN  /\ levels' = [i \in {issued.level + x : x \in DOMAIN names} |->
                                [name |-> names[i - issued.level], sequence |-> i - issued.level - 1]]
                /\ issued' = [issued EXCEPT !.level = @ + Len(names)]
                /\ Done(c)
                /\ UNCHANGED <<statuses, tasks, moved, blob, restVars>>

\* The same foreign keys refuse a task that refers to a row that has gone; without
\* the key on the level only the status would have to be there.
StatusThere(s, l) == s \in DOMAIN statuses
CanRefer(s, l)    == s \in DOMAIN statuses /\ (Projects => l \in DOMAIN levels)

InsertTask(c) ==
  /\ At(c, "insertTask")
  /\ IF CanRefer(mem[c].status, mem[c].level) /\ req[c].task \notin DOMAIN tasks
       THEN /\ tasks' = With(tasks, req[c].task, mem[c])
            /\ Done(c)
            /\ UNCHANGED <<statuses, levels, issued, moved, blob, restVars>>
       ELSE Stop(c)

WriteStatus(c) ==
  /\ At(c, "writeStatus")
  /\ IF CanRefer(mem[c].status, tasks[req[c].task].level)
       THEN /\ tasks' = [tasks EXCEPT ![req[c].task].status = mem[c].status,
                                      ![req[c].task].statusName = mem[c].statusName]
            /\ Done(c)
            /\ UNCHANGED <<statuses, levels, issued, moved, blob, restVars>>
       ELSE Stop(c)

\* save of a space reads its statuses again, ...
RereadSpace(c) ==
  /\ At(c, "rereadSpace")
  /\ Proceed(c, [own |-> mem[c].own, db |-> statuses])
  /\ UNCHANGED <<tableVars, blob>>

\* ... and writes what differs from the rows it loaded: their columns, and the rows
\* that have gone meanwhile, with their ids.  Rows that were added meanwhile would lose
\* their space, a column that may not be NULL: nothing is saved then.
Rewritten(own, db, now) ==
  [now EXCEPT !.name     = IF own.name = db.name THEN @ ELSE own.name,
              !.sequence = IF own.sequence = db.sequence THEN @ ELSE own.sequence]
SavedRows(own, db) ==
  [i \in DOMAIN statuses \cup (DOMAIN own \ DOMAIN db) |->
     IF i \notin DOMAIN own THEN statuses[i]
     ELSE IF i \notin DOMAIN db THEN own[i]
     ELSE Rewritten(own[i], db[i], statuses[i])]
Unsaved(own, db) ==
  \/ (DOMAIN db \ DOMAIN own) \cap DOMAIN statuses # {}
  \/ (DOMAIN own \ DOMAIN db) \cap DOMAIN statuses # {}

SaveSpace(c) ==
  /\ At(c, "saveSpace")
  /\ LET own == mem[c].own
         db  == mem[c].db
     IN  IF Unsaved(own, db)
           THEN Stop(c)
           ELSE /\ statuses' = SavedRows(own, db)
                /\ rest' \in Rests
                /\ Done(c)
                /\ UNCHANGED <<levels, issued, tasks, moved, blob, kind, elsewhere>>

\* Any change: the rest is another value, or what it was.
WriteRest(c) ==
  /\ At(c, "writeRest")
  /\ rest' \in Rests
  /\ Done(c)
  /\ UNCHANGED <<statuses, levels, issued, tasks, moved, blob, kind, elsewhere>>

WriteUnseen(c) ==
  /\ At(c, "writeUnseen")
  /\ rest' \in Rests
  /\ elsewhere' = TRUE
  /\ Done(c)
  /\ UNCHANGED <<statuses, levels, issued, tasks, moved, blob, kind>>

-----------------------------------------------------------------------------
(* Statements on the blob *)

DropBlob(c) ==
  /\ At(c, "dropBlob")
  /\ blob' = Absent
  /\ Done(c)
  /\ UNCHANGED tableVars

ReadRows(c) ==
  /\ \/ At(c, "readStatuses") /\ statuses # <<>>
     \/ At(c, "readLevels") /\ levels # <<>>
  /\ Done(c)
  /\ UNCHANGED <<tableVars, blob>>

ReadNoRows(c) ==
  /\ At(c, "readLevels") /\ levels = <<>>
  /\ Stop(c)

BuildBlob(c) ==
  /\ At(c, "buildBlob")
  /\ Proceed(c, Current)
  /\ UNCHANGED <<tableVars, blob>>

PutBlob(c) ==
  /\ At(c, "putBlob")
  /\ blob' = mem[c]
  /\ Done(c)
  /\ UNCHANGED tableVars

-----------------------------------------------------------------------------
(* Failures *)

RequestFails(c) == Break(c) /\ UNCHANGED <<tableVars, blob>>

\* safeExec: a call to Redis that fails is logged, and the request goes on.
RedisFails(c) ==
  /\ Shrug(c, "dropBlob") \/ Shrug(c, "putBlob")
  /\ UNCHANGED <<tableVars, blob>>

-----------------------------------------------------------------------------
ProjectRequest(c) ==
  \/ AddStatus(c) \/ AddExistingStatus(c) \/ UpdateSpaceStatus(c)
  \/ RemoveStatus(c) \/ UpdateStatusSequence(c)
  \/ AddHierarchyLevel(c) \/ UpdateHierarchyLevel(c) \/ PatchHierarchyLevel(c)
  \/ SaveAllHierarchyLevels(c) \/ RemoveHierarchyLevel(c)
  \/ CreateTask(c) \/ PatchStatus(c)
  \/ GetStatusConfig(c) \/ GetHierarchyLevelConfig(c)
  \/ GetSeverityConfig(c) \/ GetOwnersConfig(c) \/ GetResourcesConfig(c) \/ SeedAll(c)
  \/ AddSeverity(c) \/ AddExistingSeverity(c) \/ UpdateSpaceSeverity(c) \/ RemoveSeverity(c)
  \/ AddResource(c) \/ RemoveResource(c) \/ AddOwner(c) \/ RemoveOwner(c)
  \/ UpdateTaskSpace(c) \/ ToggleIsActive(c)
  \/ UpdateResource(c) \/ QuickEdit(c) \/ SyncUserData(c) \/ DeleteResource(c)

TicketRequest(c) ==
  \/ AddTicketStatus(c) \/ AddExistingTicketStatus(c) \/ UpdateTicketStatus(c)
  \/ RemoveTicketStatus(c) \/ UpdateTicketSequence(c)
  \/ CreateTicket(c) \/ PatchTicketStatus(c)
  \/ GetTicketStatusConfig(c) \/ GetConfiguration(c) \/ GetTicketSeverities(c)
  \/ GetTypesConfig(c) \/ GetSlaConfig(c) \/ GetImpactConfig(c) \/ GetQueueConfig(c)
  \/ GetMembersConfig(c) \/ GetCreateConfig(c) \/ SeedAllTickets(c)
  \/ AddTicketSeverity(c) \/ AddExistingTicketSeverity(c) \/ UpdateTicketSeverity(c)
  \/ RemoveTicketSeverity(c) \/ AddType(c) \/ AddExistingType(c) \/ UpdateSpaceType(c)
  \/ RemoveType(c) \/ AddSla(c) \/ RemoveSla(c)
  \/ AddImpact(c) \/ UpdateImpact(c) \/ RemoveImpact(c) \/ AddQueue(c) \/ RemoveQueue(c)
  \/ AddMember(c) \/ UpdateMember(c) \/ RemoveMember(c) \/ AddMembers(c)
  \/ UpdateTicketSpace(c) \/ ToggleTicketSpace(c)
  \/ EditQueue(c) \/ DeleteQueue(c) \/ EditImpact(c) \/ DeleteImpact(c)

Request(c) == ProjectRequest(c) \/ TicketRequest(c)

Statement(c) ==
  \/ ReadOrder(c) \/ CommitStatus(c) \/ WriteName(c) \/ NameTasks(c)
  \/ DeleteStatus(c) \/ WriteOrder(c)
  \/ InsertLevel(c) \/ SaveLevel(c) \/ CountLevel(c) \/ DeleteLevel(c) \/ ReplaceLevels(c)
  \/ InsertTask(c) \/ WriteStatus(c) \/ RereadSpace(c) \/ SaveSpace(c)
  \/ WriteRest(c) \/ WriteUnseen(c)
  \/ DropBlob(c) \/ ReadRows(c) \/ ReadNoRows(c) \/ BuildBlob(c) \/ PutBlob(c)

ConfigNext == \E c \in Requests : Request(c) \/ Statement(c) \/ RequestFails(c) \/ RedisFails(c)

ConfigSpec == ConfigInit /\ [][ConfigNext]_configVars

-----------------------------------------------------------------------------
(* Correctness *)

Statements ==
  {"readOrder", "commitStatus", "writeName", "nameTasks", "deleteStatus", "writeOrder",
   "insertLevel", "saveLevel", "countLevel", "deleteLevel", "replaceLevels",
   "insertTask", "writeStatus", "rereadSpace", "saveSpace", "writeRest", "writeUnseen", "dropBlob", "readStatuses", "readLevels",
   "buildBlob", "putBlob"}

\* What the columns hold; tasks refer to rows that exist, however a removal and
\* a task that takes the row up interleave.
ConfigTypes ==
  /\ \A i \in DOMAIN statuses : statuses[i] \in StatusRow
  /\ \A i \in DOMAIN levels : levels[i] \in LevelRow
  /\ DOMAIN tasks \subseteq Tasks
  /\ \A t \in DOMAIN tasks :
       /\ tasks[t].status \in DOMAIN statuses
       /\ Projects => tasks[t].level \in DOMAIN levels
       /\ tasks[t].statusName \in Names \cup {NoName}
  /\ DOMAIN statuses \subseteq 1..issued.status /\ DOMAIN levels \subseteq 0..issued.level
  /\ moved \in BOOLEAN /\ rest \in Rests /\ elsewhere \in BOOLEAN
  /\ plan \in [Requests -> Seq(Statements)] /\ RequestsOK

\* While requests follow one another and nothing fails, the blob shows the
\* statuses, the levels and the rest as the tables have them when all is quiet,
\* whichever handler was the last to change them and whoever filled it, as long
\* as the services that know nothing of the blob are left alone.
BlobFresh == Clean /\ Quiet /\ ~elsewhere => blob \in {Absent, Current}

\* As long as nobody chooses the places, by asking for another order or by naming
\* statuses when the space is made, and no two requests overlap, the statuses are
\* listed by base and each has a place of its own: adding keeps what earlier
\* additions and removals have left, and saving the space with the rows it loaded
\* disturbs nothing.
InBaseOrder ==
  ~overlapped /\ ~moved =>
    \A i, j \in DOMAIN statuses : i # j =>
      /\ statuses[i].sequence # statuses[j].sequence
      /\ statuses[i].base < statuses[j].base => statuses[i].sequence < statuses[j].sequence
=============================================================================
