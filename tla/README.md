# A verification project for the Synlio back-end

The repository is the back end of Synlio, a work-management service: a NestJS
application over PostgreSQL (through TypeORM), with a Redis cache, an Azure
Service Bus queue for e-mails, notifications and audit records, and providers of
meetings (Teams, Zoom, Google Meet, Slack). Requests are served concurrently,
by one or several instances; what keeps them apart is the database: transactions
at READ COMMITTED, row locks where the code takes them, and unique indexes where
the migrations create them. The code has few of either, so what can go wrong is
in the interleavings, and that is what the modules here explore.

## 1. Inventory

Paths are under `src/src`. "Hard" names the behaviour a test would hardly reach.

| Component | State | Operations | Hard | Correct when |
|---|---|---|---|---|
| `common/sequence` code allocation | `post_sequence` rows, codes in `ticket` and `tm_task` | draw, peek, give back | row lock, bootstrap without a row, correction against a maximum | no code twice, no number skipped, creates do not fail |
| `ticket-management/ticket` | `ticket` row, `ticket_participants`, event log written by triggers | create, patch of each field, general patch, delete | TypeORM's `save` writes every column that differs from the row it re-reads; the SLA deadlines are refreshed by a detached promise | deadlines agree with status and severity, no patch undoes another, the log adds up to the row, the assignee is no participant |
| `ticket-management/ticket-space` and its configs | spaces, status, severity, type, queue, impact configs, members; Redis blobs | create (many saves, no transaction), config edits, delete | partial failure; caches seeded and invalidated by detached promises | caches agree with tables, deletes leave nothing behind |
| `task-management/task` | `tm_task` tree, members, labels | create, patches, move, delete, roll-up of dates, effort and progress to the parents | roll-up reads children without a lock, level by level, from the parent the client names; moves may close cycles | a parent is the aggregate of its children |
| `task-management/task-space` | spaces, owners, resources, configs; Redis membership caches | as ticket spaces | as ticket spaces | as ticket spaces |
| `work-log`, `pulse` time logging | `work_log`, `actualEffort` | log, patch, delete; sum into the post | read-sum-write without a lock | actual effort is the sum of the logs |
| `pulse`, `schedule` | `pulse_week`, `pulse` | draft (cron), sync, edit, submit, forward, approve, reject, log time | cron against user, read-check-save without a lock | one snapshot a week, submitted work is not lost |
| `alert/email`, `alert/notification`, `common/azure` | `email`, `notification` rows, the queue, unread counts | create, send job, process, retry, read, delete | redelivery, stale save after a send, job before commit | every message sent, not lost, not sent again, read stays read |
| `auth`, `user-management/user` | users, refresh hash, pending registrations, reset tokens | login, refresh, register, verify, reset | attempts counted concurrently, tokens used twice | the attempt cap holds, one account per e-mail |
| `authorization`, `redis`, `user-management/role` | privilege cache in Redis, role tables | guard, invalidate, refill | fill racing an invalidation | a revoked privilege is not granted |
| `meetings-integration` | OAuth connections, meetings, sync state | connect, disconnect, refresh token, sync (cron and user) | two syncs refresh one token; a partial update mixes a disconnection with a sync | disconnected stays disconnected, a live grant is not dropped |
| `comment` | comments, attachments, counters | create, edit, delete | alerts before commit | |
| `link-management` | links between work items | link, unlink | duplicate check without an index | one link per pair |
| `resource-management/calendar` | calendars, `calendar_days` with four flags and a type | create, extend, move, delete; special days, weekly pattern | the weekly pattern is stored only in the flags of the days and read back from them; midnight between check and save; counting what blocks a move, then regenerating | days are in the matrix of states, weeks agree, the past is frozen |
| `resource-management` resources, pools, skills | resources, pools, skills | create, update, disable, delete, profile propagation | detached propagation of names to many tables | denormalised names converge |
| `company-management` | companies, divisions, crm | create, update, delete | several tables, no transaction | |
| `ai` | drafts and mutations of tickets from a chat | resolve, execute | concurrent mutations of one ticket | |
| `dashboard`, `synalytics`, `export`, `filter-template`, `notes`, `checklist`, `severity`, `status`, `user-config` | reads, or one row per request | queries and simple CRUD | none | |
| `migrations`, e-mail builders, DTOs | schema, text | | none of their own; the unique keys and triggers they create are part of the models | |

The components call one another in one process: a ticket or task request calls
the code allocation inside its transaction, and after (sometimes before) its
commit starts an alert, which stores notifications and e-mails and puts jobs on
the queue. Detached calls (`void this.something()`) run on connections of
their own and are not awaited.

## 2. Plan

The order in which the modules were written: what is numbered first is the most
important behaviour of the system.

| Step | Module | Composes, implements | State of it |
|---|---|---|---|
| 1 | `PostSequence` | implements `CodeRegistry` | modelled, checked, proved |
| 2 | `TicketRow` | row, triggers, detached SLA refresh | modelled, checked, proved |
| 3 | `TaskTree` | tree, roll-up, work logs | modelled, checked, proved |
| 4 | `PulseWeek` | cron and requests on the weeks | modelled, checked, proved |
| 5 | `RequestPlans` | the frame of 6 to 11: handlers as lists of statements | |
| 6 | `Membership` | users, roles, companies with the two Redis keys derived from them | modelled, checked, proved |
| 7 | `Registration` | codes, tokens, onboarding, passwords | modelled, checked, proved |
| 8 | `Delivery` over `AlertRecipients` | alerts of tickets and tasks, rows, bus, consumer | modelled, checked, proved |
| 9 | `MeetingConnection` | connection, syncs, token rotation at the provider | modelled, checked, proved |
| 10 | `SpaceConfig` | statuses, levels, items and the cached blob of a space | modelled, checked, proved |
| 11 | `Calendar` | days, weekly pattern, overrides | modelled, checked, proved |
| 12 | `TicketPeople` | assignee column against the join table of participants; the copies of a person's name | left |
| 13 | `ConnectionPool` | requests that need a second connection while they hold one | left |
| 14 | `SpaceAccess` | creation and deletion of spaces, the cached lists of spaces a user may enter | left |

A theorem worth proving beyond those of section 5: that with one connection more
than there are nested requests nobody waits for ever (13, the safety part).
No module that is to be proved about declares a RECURSIVE operator.

## 3. What is modelled

Every module has one action per statement: what runs between two `await`s that
reach the database, the cache, the bus or a provider. Statements of different
requests interleave. Where the code opens a transaction, the module keeps what
is written and not committed apart from what the others see; where it does not
(most handlers), every statement takes effect at once.

### PostSequence, CodeRegistry

`PostSequence` is `PostSequenceService` (`common/sequence/post-sequence.service.ts`)
with the requests that call it: creating tickets (a batch may carry several),
previewing a code, deleting, and forms that send back a code they were shown;
for tasks the same with the two differences of `TmTaskService`: no unique index
on the code and a delete in several transactions. Constants choose the caller.

Each action is one SQL statement. `LockRow` is the `SELECT ... FOR UPDATE`,
`FindNoRow` and `Bootstrap` the path without a row, `ComputeCode` the correction
and the increment, `Insert` and `InsertRefused` the insert against the unique
index, `DeletePost` and `ReduceSequence` the delete and the decrement, `Commit`,
`Fail` and `DeadlockDetected` the three ends of a transaction. READ COMMITTED is
modelled by keeping, next to the committed counter and posts, what the open
transaction has written (`draft`, `made`, `Removed`). `next` is `nextNumber`; a
scope (ticket space, or task space with level and parent) is a member of
`Spaces`. A code is its prefix and number; two spaces may share a prefix.

`CodeRegistry` is the promise: a request issues the next numbers of a space, all
or none, and a delete retires one. `DenseCodes` says that `PostSequence`
implements it when the codes are read off the committed posts.

Left out: renaming a prefix (`updateTicketSpace`), the search for a sibling's
abbreviation in task codes, batches of a client that carry denormalised data.

### TicketRow

One row of `ticket`, with its version and the log the triggers write
(`migrations/sql/ticket-event-logger-function.sql`), and the handlers of
`TicketService` that change it. `PatchStatus` and `PatchField` are the handlers
that send one UPDATE. `LoadToSave`, `LoadParticipants`, `LoadSeverity` and
`LoadPatch` are those that load, change and `save`: the load, the second read of
`save` (`Compare`), its UPDATE (`Write`) and the commit are steps of their own,
and between any two of them other requests run. `Spawn` is the refresh a general
patch starts before it commits; `ReadSla` and `WriteDeadline` are
`refreshSlaDeadlines`, which nothing awaits. TypeORM's `save` is modelled by
what it does: it updates the columns in which the entity in memory differs from
the row it reads then, the version included. The columns are the status base,
the SLA time, the deadline and one text that stands for the other tracked ones;
deadlines count from `createdAt`, so a deadline is its SLA time, 0 is NULL, and
response and resolution are one.

`replay` is what the committed events add up to. It is not a column: it is the
payloads of `ticket_event`, applied in order to the first one.

Left out: alerts (see `Delivery`), attachments, the join table of participants,
list queries, and the columns that no trigger tracks.

### TaskTree

Rows of `tm_task` with their parents, efforts, dates and status, and the sums of
their work logs. `Aggregate` and `Apply` are one level of `rollupParent`: the
UPDATE aggregates what its snapshot shows, waits for the row, writes, and goes
on with the parent until a level does not change. `Create` writes the row and
its whole climb in a transaction (`mine` holds what is not committed, and is the
lock the others wait for); all other handlers send separate statements:
`StartStatus`, `StartProgress`, `StartEffort` and `StartDates` with `WritePatch`,
`LoadTask` and `SaveTask` for `update`, `StartDelete`, `Strip` and `RemoveTask`,
`AddLog`, `ChangeLog` and `DeleteLog` with the three statements of
`syncActualEffortFromLogs`. The key `parentTaskId` is in `SaveTask` and
`RemoveTask`.

A patch of the status or the dates climbs from the parent the client names in
the request, whichever task that is (`Named`); patchStatus takes that of the row
when none is named, patchDates climbs from none. A move may go below any task but
the task itself (`ParentsFor`), which is all the handler refuses, so cycles come
about (`Cyclic`). A climb in a cycle with logs adds to the sums round after round;
`MaxEffort` bounds it, and a climb that would pass the bound stands still.

`typed` is a ghost: the tasks that are not a roll-up of their children because
somebody typed over them, or because a child was patched by a request that named
another parent or none (`Stale`); nothing is said of their sums until the next
roll-up.

### PulseWeek

Rows of `pulse_week` with the hours of their pulses, the nightly cron of
`ScheduleService` (`List`, `StartChunk` with a chunk of users drafted at the
same time, `JobFails`, `EndCron`) and the handlers of `PulseService`: create, sync, edit
of a pulse (`updateSnapShot`), submit, forward, approve, reject and logging of
time. Most load the week, change the entity (`entity`) and save all of it. The
total of a new week is whatever the cron or the client says, apart from the hours
of its pulses; a sync writes over the pulse of the same post, with more hours or
with fewer, and then sums; an edit sums nothing. `loose` is a ghost: the weeks
whose total was last written without summing, or that were edited since.
`waiting` are the users the cron has listed
and not yet drafted for; the query that lists them has no order, so a chunk is any
`ChunkSize` of them, and a smaller one only when no more are left.

### RequestPlans

The frame of the six modules that follow. A request carries its `plan`, the
list of the statements it has still to run, what it was asked (`req`) and what it
has read (`mem`). `Arrive` calls a handler, `Done`, `Proceed` and `Continue`
finish a statement, `End` returns early, `Break` is a statement that fails,
`Shrug` one whose failure is swallowed. `overlapped` and `failed` are ghosts:
`Clean` says that no two requests have overlapped and nothing has failed. A
property under `Clean` is about the sequences of requests; those without it hold
for every interleaving.

### Membership

One account with its companies and default company (`account`), its roles
(`grants`), the privileges of the roles (`granted`), and the Redis keys
`user_privileges:<id>` and `user_companies:<id>` (`privCache`, `compCache`). The
requests are the handlers of `UserService`, `RoleService` and `CompanyService`
that touch any of them, the login, the authorization guard, and the warm-up at
the start of the process; each is the list of its statements, for example
`deleteRoles`, `insertRoles`, `reloadRoles`, `saveUser`, then the refresh. A
`save(User)` writes the loaded companies back. `updateUser` gives roles in the
active company of its caller, whether or not the user belongs to it; `lent` is a
ghost of those it gave where it does not. `deleteUser` loads the user with the
active company only, so no other seems to remain and the account goes in every
case, unless a foreign key without a cascade refuses (`RefuseDelete`): then the
request ends with roles and company gone, which the ghost `stranded` remembers.
Redis calls may do nothing (`CacheFails`).

### Registration

The row of `otp_verifications` of one e-mail address, the codes mailed, the
registration tokens, and the account with the companies made for it. `firms`
holds for each company which of role, grant, division, member and resource exist:
`completeRegistration` makes them one by one. `TakeAttempt` is the one UPDATE
that takes an attempt; `tries` is a ghost that counts the guesses compared with
each code. The Google sign-in and the two ways to change a password are there
because they write the same row of `user`.

### AlertRecipients, Delivery

`AlertRecipients` is pure: who is written to, copied and told of an event, by
the rules of the space in the order the database returns them (`Ruled`) or by the
fixed matrix (`Legacy`), for tickets and for tasks.

`Delivery` is one ticket or task (`item`, `state`), the rules of its space, the
rows of `email` and `notification`, and the service bus. There is one action per
dispatcher of `TicketAlertService` and `TaskAlertService` (`TicketCreated` ...
`TicketComment`, `TaskCreated` ... `TaskComment`); each loads its context, resolves
the recipients, saves rows and sends jobs. A task's first alert starts inside the
transaction that creates the task (`state` is "saved", then "committing"):
`CommitTask` and `RollBackTask` may come before or after the alert loads it. A
message is taken, its row loaded, sent and marked by the consumer; the bus
delivers it again when its lock expires, when it is abandoned or when the
consumer dies. Users create, read and delete rows, and a delete of the item
cleans up its alerts. `posted` counts how often a row was sent, `removed` are the
rows somebody deleted: both are ghosts. The notifications of one alert are one
row; that a client may create a row with `isSent` already set is left out.

### MeetingConnection

One row of `meeting_integration_connection`, and the provider: the refresh token
of each issue is live, spent, withdrawn or none, and the access tokens it accepts
are a set, so a token can die before its advertised expiry. `handleCallback`,
`disconnect` and the sync with its early refresh, its forced refresh and its one
retry are lists of statements that save the connection they loaded. A `save` is
two of them: `Reread` reads the row again, and the save proper updates the
columns in which the loaded connection differs from what was read (`Merged`), so
what somebody else wrote in between stays in the other columns.

The kinds of provider differ in whether they rotate refresh tokens, classify
their errors, and are called at all by the fetch (`stub`: Slack's returns an empty
list). A callback may bring no refresh token (`Exchange`, `Own`). A dead grant is
refused in `Refresh` and `FetchAgain`, a good token in `Denied`: a 403, a wrong
client or scope, which the code takes for a dead grant too. `denied` is a ghost
that remembers such a refusal, `forgotten` one that says that a disconnection was
served alone and no callback came since.

### SpaceConfig

One space of projects or of tickets (`kind`): its statuses and hierarchy levels
with their sequences, the items that use them with their copy of the status
name, everything else in its configuration as one value (`rest`), and the blob
`task_space_config:<id>` or `ticket_space_config:<id>` (`blob`). The requests are
the handlers that add, take over, rename, reorder, toggle and remove, those that
create and patch an item, the readers that fill the blob and the warm-up. `issued`
is the last id given to a status and to a level, so an id is not given out twice.
A space starts as `create` has made it, from one primary master of each base
(`PrimaryAssumption`), perhaps with a second status of base 2 already added. A
ticket space may also have been made with statuses named (`NamedLists`, `Created`):
those get the places 0, 1, ..., and the default ones then 0, 1, 2 again, because the
guard that would leave them out is commented out. `updateTicketSpace` loads the
space with its statuses and saves them with it (`RereadSpace`, `SaveSpace`): the
columns that differ, rows that have gone meanwhile with them; a row added meanwhile
makes the save fail. `moved` (somebody chose the places, by an order of their own or
by naming statuses at first) and `elsewhere` (the rest was changed
by a service that does not drop the blob: quick edit, queues, impacts, the
profile of a user) are ghosts.

### Calendar

One calendar: whether its row exists, its `days` by id (date, start of the
calendar year, the flags as `composeDayFlags` makes them), whether resources
follow it, and `today`. The weekly
pattern is not a variable, since the code has no column for it: `BaseTypes` and
`PatternTypes` read it back from the days, in any order the database may return
them. A request about a day or the pattern loads rows, decides, and saves them
(`AskDay`, `ReadBase`, `AskPattern`, `SaveDays`), the requests about the calendar
extend it, save its row, move its start and delete it, statement by statement. `mixed` is a
ghost: the weekdays whose days in the past, or in another year, an edit of the
pattern has left different.

A save is one step, so the columns two overlapping saves mix in one row are not
there. Left out: the name, `isActive` and the check of the company, and an
extension by any other year than that of the day after the last one, which the
handler refuses.

### MC modules

They give the constants their values: two requests, two users or companies, one
or two spaces, and the sets of what may be asked. `Symmetry` permutes requests;
it is used where only safety is checked.

## 4. What the runs check

| Run | Question | Result |
|---|---|---|
| `ticket_codes` | Batches over two spaces, previews, deletes, failures and deadlocks: is a drawn code free, is the counter ahead, are codes dense (`DenseCodes`, the refinement), is every request answered? | hold |
| `task_codes` | Tasks, no row at the start, peeks, forms sent back and deletes in several transactions: is every request answered? | holds |
| `task_delete_race` | Are task codes distinct when deletes run? | no: a late decrement hands a used number out again |
| `ticket_row` | Two requests of every kind that may fail: does the log add up to the row, does the deadline end up right when requests do not overlap, does every request and every refresh end? | hold |
| `task_tree` | Two requests of every kind on a chain of three tasks and one to come, with moves that close cycles and patches that name any parent: do parents exist, are the roll-ups right when requests do not overlap, does every climb end that is not in a cycle? | hold |
| `pulse_week` | Cron and two requests at a time, three in all: one week per period, totals that stay sums once a sync has summed them, submitted weeks that stay submitted, a cron that covers everybody? | hold, while nothing overlaps |
| `membership` | Two requests of every kind, with deletes that are refused and failing caches: do account, roles and cached keys agree, but for the roles given elsewhere and the deletes that stopped half-way? | hold, in sequence |
| `registration` | Four requests from four stages of a registration: is the cap on guesses kept, does the latest code work once, is a company complete? | hold, the cap under every interleaving |
| `delivery` | Two requests of every kind against the consumer, six starting states: is what is marked sent sent, nothing sent twice or lost, somebody written to, and a deleted item cleaned up? | hold |
| `meeting_connection` | Four requests, tokens that die or are refused, a consent withdrawn, one failure: does a connection that was given up stay without tokens, is the user asked to reconnect only when the grant is dead or was refused, and always when it is dead? | hold, the first under every interleaving of what comes after the disconnection |
| `space_config` | Two requests of every kind on twelve starting states: do tasks refer to rows that exist, does the blob show the tables, do statuses stay in base order where nobody chose the places? | hold |
| `calendar` | Three requests of every kind, two at a time, and midnights: do days stay in the matrix of states (`TypeOK`), do the days of a weekday agree and the years join (`WeeksAgree`), does the past stay as it is and a configured day stay there (`DaysKept`)? | hold, the frozen past under every interleaving |

The one that does not hold is a disagreement of the code with its own comments:
`TmTaskService.delete` removes the task in one statement and gives its number
back in a transaction of its own; a create in between takes the number, and the
late decrement hands it out again.

Some properties have several parts: `SnapshotsRight` is one week per period,
and totals that stay sums once a sync has summed; `AtHome`, roles and default
company inside the companies of the account; `StatusTrue`, an error only when the
grant is dead or was refused, and a connection that is up never with a refresh
token that was replaced.

Several properties name exceptions, each the trace of something the code does and
should perhaps not; the exceptions are exact in the sense that the runs and the
theorems show nothing else to break the property. They are the ghosts `typed`,
`loose`, `lent`, `stranded`, `denied` and `moved`, and `Cyclic` in `RequestEnds`; the
list at the end of section 6 says where in the code each comes from.

**Bounds.** `MaxServed` is how many requests are served in all, `Requests` how
many at once (two: every interleaving hazard listed is one of two actors).

| Run | Requests in all | Distinct states | Why it is enough |
|---|---|---|---|
| `ticket_codes`, `task_codes` | unbounded | 83,545 and 44,713 | ids and `MaxInt` bound them: a number can be drawn, deleted and drawn again, and the end of the integer range is reached |
| `ticket_row` | 2 | 90,229 | a stale save needs two; three SLA times tell a fresh deadline from a stale and from none |
| `task_tree` | 2 | 128,807 | a chain of three and a fourth task: a climb of two levels, with a move, a create or a delete beside it; one move closes a cycle, and a log in it climbs to `MaxEffort` |
| `pulse_week` | 3 | 337,132 | create, sync or submit, and one more in a row, with the cron on two days; a total that is sent differs from the pulses' sum |
| `membership` | 2 | 189,926 | each pair of handlers, from no account and from one with any of its companies |
| `registration` | 4 | 906,126 | with a cap of two, four guesses, or code, guess, token and company |
| `delivery` | 2 | 353,675 | the consumer's work is not counted: two requests, then all deliveries they cause |
| `meeting_connection` | 4 | 1,503,212 | connect, disconnect and two syncs, or connect, withdraw, sync and reconnect; three issues of tokens are a connection and two refreshes |
| `space_config` | 2 | 498,206 | each pair of handlers, from a default space, one with a status more and one made with a status named, with and without an item; the last default level is 0 instead of 2 |
| `calendar` | 3 | 434,746 | a week of two days and a year of five make calendar years of two weeks that are a day short, as 52 weeks are; two days of `today` pass; twelve rows are two years, or one regenerated twice; an override, an edit of the pattern and its removal, or an extension and two edits |

One failure is allowed in a run of the modules over `RequestPlans`, at any
statement. The receiver of the bus takes one message at a time, which is the
default of the SDK the code leaves in place. No run has a state constraint.
Deadlock is not checked where the number of requests is bounded, since the
system then stops; in `PostSequence`, where it is not bounded, it is.

**Fairness.** `FairSpec` of `PostSequence`, `TicketRow` and `TaskTree` asks
strong fairness of the statements of each request that has begun: the driver
awaits every statement, and PostgreSQL queues the transactions that wait for a
row, so none is overtaken for ever although the lock is taken and freed in
between. Nothing is asked of users: no request need arrive, and no failure need
happen. A detached refresh is a promise like any other and gets the same
fairness. The other modules state safety only, and no fairness.

## 5. What is proved

The eight proof modules are checked by TLAPS for any number of requests, spaces,
rows, tasks, users, texts and times, and any bounds.

**PostSequence** (`PostSequenceProofs`), under `TicketRegime`: codes are drawn and
not typed in, every space has its one row, a delete and its decrement commit
together, prefixes differ. `InvariantHolds` is the inductive invariant `IInv`;
from it follow `TypeCorrect`, `DrawnCodesFresh` (`AutoCodeFresh`),
`CounterStaysAhead` (`CounterAhead`) and `CodesAreDense` (`DenseCodes`, step by
step with the refinement `live <- Live`). The types alone are not inductive, nor is
`CounterAhead`: what must be added is that the counter *as its holder sees it*
is above everything the holder sees (`CounterOK`), that uncommitted items lie
under the lock of their space and above all others (`MadeOK`), that the code in
hand is the one the counter has just passed (`CodeInHand`) and continues the
numbering (`DenseOK`), and that no two deletes have the same post
(`RemovalsDistinct`). `CodesStayUnique` (`CodesUnique`) follows from the numbers
being distinct and does not use the unique index. The regime is needed: `task_delete_race` is a delete that
does not commit with its decrement, and codes collide.

**TicketRow** (`TicketRowProofs`), without a regime: `LogInvariant`, `TicketTypes`
and `LogAlwaysAddsUp`. The log adds up although saves overwrite what others wrote,
because every write passes the triggers. The strengthening is that an update
that waits for its commit has moved the version if it changed a tracked column:
the event trigger skips rows whose version did not move, so this is what keeps
an event from being lost. `DirectVersionCounts`: while only the handlers that
send one UPDATE are used, the version counts the changes; with `save` it may go
back to the one that was loaded. `SettledDeadline` (`Settled`): between requests
that follow one another the deadline fits status and severity, provided that no
ticket starts in a finished status, since create does not freeze the clock and
only the patches do. `SettledInv` adds what each phase of a request may assume:
the row fits while nobody works, an entity about to be saved is the row but for
what it changes, and a refresh under way computes from the severity of the row.

**TaskTree** (`TaskTreeProofs`): `TreeInvariant` and `ParentsAlwaysExist`
(`ParentsExist`). What must be added is that the rows a create has not committed
are under tasks that exist too, that only a create has such rows, and that a
patch does not write the column of the parent. The proof shows which statements
carry the property: the key in `SaveTask`, and in `RemoveTask` the wait for the
uncommitted children. `SumsInvariant` and `SumsAlwaysRight` (`SumsRight`) say that
requests that follow one another leave every roll-up right, for any number of
levels. While one of them works, the only tasks that are not rolled up are those
its climb has still to visit (`todo`), those in `typed` (typed over, or passed by
a patch that named another parent) and, between
a log and the write of the total, the task of the log (`Doing`). From this it
follows that a climb may end at the first level that comes out as it was. A write
disturbs only the row itself and its parents, the old one and the new one
(`Elsewhere`). What a sum is does not enter: it is enough that it depends on the
efforts that are summed (`SameAggregates`). `TypesInvariant` and `TreeTypesHold`
(`TypeOK`) do need it. A sum is the recursive fold of the community modules, and
recursion over the subsets of a finite set is done by hand: of the sets that lack
a table of sums, or have two, or one with a sum that is no number, there would be a
smallest (`Smallest`), and that set's table can be made from those of the sets
below it (`TableExists`, `TablesAgree`, `SumNat`). For the dates `GreatestIn` does
the same. The types are inductive only with what `Finds` and `Stored` add: a
request that climbs has a level to climb to, the tables hold finitely many rows,
and an id that is in use, be it in an uncommitted row or in a request that will
save an entity whose row is gone meanwhile, is none that can be given out.

**PulseWeek** (in `MembershipProofs`): `PulseInvariant`, from it `PulseTypesHold`
(`PulseTypes`) and `SnapshotsAlwaysRight` (`SnapshotsRight`), then
`SubmittedAlwaysStays` (`SubmittedStays`) and `CronAlwaysCovers` (`CronCovers`).
`SnapshotsRight` says nothing of a request on its way, so `PulseInv` says what
each one knows until it ends: one that creates a row has found none of that user
and period, and one that writes an old row has found it unsubmitted (`KnowsRow`);
one that changes a week holds the user and period of the stored row and, until it
has summed, all of it (`Changes`); and of the weeks that are not `loose` only one
whose sync has not stored yet has a total that is not the sum (`Summed`).
`SubmittedStays` is an action property and needs the same: a
save may write an old status back only if the entity is stale, and it is not.
The cron is covered by `Covering`: each user has a snapshot, waits, or is being
drafted, and those that wait have none. So no job is refused, as it would be by a
submitted week, and none ends the run early. This needs the hypothesis
`Linked = Users`, that every resource holds the id of its user:
`generateDraftsForDate` joins on that id and lists the others whether or not they
have a week. The run has it too.

The next four are over `RequestPlans`, and their invariants have one form: for
every request, what it has read (`mem`) and what it has still to do (`plan`) fit
the tables (`World`). What others cannot undo is said of every interleaving, the
rest of the one request that runs (`Alone`). Without it an invariant that is only
about requests at rest cannot be carried through the statements of one.

**Membership** (`MembershipProofs`): `MemberInvariant`, from it `MembershipTypes`,
`UsersAtHome` (`AtHome`) and `FreshCaches` (`CachesFresh`). `Knows` says what each
list of statements may rely on: a `save(User)` writes the companies back that it
loaded, so they must be those of the account; what an update has inserted outside
the companies of the account is in `lent` from
the same statement on; between the loss of the company and the delete of the account
the account is not at home, and the last statement removes it or, refused, sets
`stranded`; a key is stale exactly as long as a refresh or an invalidation is
left to run.

**Registration** (`RegistrationProofs`): `RegistrationInvariant` and `CapHolds`
(`AttemptsCapped`) under every interleaving. The guesses made at a code that is
stored are the attempts of its row; a code that is not stored yet belongs to the
one request that generated it, and a code whose row is gone is never stored
again. `KnownInv` gives `RegistrationTypes` (`TypeOK`: a user belongs to companies
that exist, whatever is saved over it) and `LatestCodeAlwaysWorks`
(`LatestCodeWorks`). `OnboardingComplete` (`Onboarded`) needs `Built` besides: a
company that lacks a part is one that some request is still setting up, which
stays true while registrations overlap.

**Delivery** (`DeliveryProofs`): `DeliveryInvariant`, from it `DeliveryTypes`,
`SentAtMostOnce` (`SentOnce`), `AlwaysAddressed` (`Addressed`), `NoneForgotten`
(`AllTold`) and `ItemsCleanedUp` (`CleanedUp`). As long as nothing has failed each
row is owed to the bus by one request, on the bus once, sent, unfit, or removed;
only the head of the bus can have been sent already, when the consumer is past
its send and has not completed the message. `Holds` is what a request that has
loaded a row knows of it whatever the others do: a row that is marked or
cleaned up may be saved over, but a row that was removed is not inserted again
unless its request overlapped the removal. `CleanOK` says that what refers to
an item that is gone will be cleaned up by the one request that runs.

**MeetingConnection** (`MeetingConnectionProofs`): `ConnectionInvariant`, from it
`MeetingTypes` (`TypeOK`), `GivenUpStaysEmpty` (`StaysForgotten`), `StatusAlwaysTrue`
(`StatusTrue`) and `SyncAlwaysTells` (`SyncTells`). Its three parts hold at three
levels of interleaving. `KnownInv`, always: tokens in the row or in memory were
given by the provider, although a save may put columns of two versions together.
`ForgetInv`, always too: after a disconnection that was served alone neither the row
nor any request holds a token, so that no partial update has one to write. It needs
that such a disconnection updates the very row it has read; one that overlaps a sync
does not, and may leave a revoked row with the tokens of the sync. `SerialInv`, while
requests do not overlap: the entity a request saves is the row but for what it
changes; an error in the row, or about to be stored, is of a dead token or of a
refusal that was remembered (`ErrorTrue`), which stays true as a dead token never
comes back to life; between a refresh and its save only the request holds the token
that is not spent; and a request that has had an access token accepted knows that
its connection could be refreshed then.

**Calendar** (`CalendarProofs`): `CalendarInvariant` and `DaysStayInMatrix`
(`TypeOK`), for weeks and years of any length. `Sound` says flag by flag what the
matrix says state by state. The days alone are not inductive, since a save
writes whole rows loaded before: the rows every request holds must be sound too,
and the day a request waits to find the base type of must still accept what was
asked (`BasePlan`). The bound on ids is part of it because a row that is gone is
inserted again. `WeeksInvariant` gives `WeeksAlwaysAgree` (`WeeksAgree`) and
`PastStaysFrozen` (`DaysKept`). The past stays frozen under every interleaving
because rows are checked when they are loaded and never leave their date: what a
request is about to save was not past when it came and is a version, of the same
day, of the stored row and of every other copy (`Timely`). The weeks need what a
request that nothing has overlapped knows at each of its statements (`Knows`): an
extension starts the day after the last one and has the pattern it has just read
from the days, a regeneration has found no locked day, a deletion no follower.
The rows added then continue the years (`ExtendedWhole`, from the arithmetic of
`Quotient`) and agree on each weekday with those that were read (`ExtendedAgree`);
a special day, or one that is restored, still tells the pattern of its weekday
(`SavedAgree`).

**SpaceConfig** (in `CalendarProofs`): `ConfigInvariant`, from it `ConfigTypesHold`
(`ConfigTypes`), `BlobStaysFresh` (`BlobFresh`) and `StaysInBaseOrder`
(`InBaseOrder`). `ConfigTypes` contains that a task refers to a status and a level
that exist, under every interleaving; for it each plan must fit what its request
was asked and has read (`PlanFits`). `BlobFresh` is about quiet spaces; on the way a
blob may be behind, and `BlobOrDrop` says that the plan of the one request that runs
then still drops it, and that a reader about to put a blob holds the tables as they
are. `InBaseOrder` is about spaces where nobody chose the places (`moved`). It is not
inductive either, because a new status takes the place
that was computed from an order read a statement before: `HasRead` says that the
order and the index are those of the table, and from that the shifted sequences
stay distinct and by base. A space that is saved with its statuses has loaded them:
while nothing overlaps, they are the rows of the table still, and the cascade finds
nothing to write (`RereadKeeps`, `SaveSpaceKeeps`). Failures are included, as the sequences are shifted in the
transaction that inserts.

The assumptions are those named in the modules (`SentinelAssumption`,
`ConfigAssumption`, `TicketAssumption`, `TaskTreeAssumption`, `TreeAssumption`,
`RequestAssumption`, `MembershipAssumption`, `AttemptsAssumption`,
`NobodyAssumption`, `RuleBookAssumption`, `DeliveryAssumption`,
`IssueAssumption`, `KindAssumption`, `StatusAssumption`, `CalendarAssumption`,
`YearAssumption`, `PatternAssumption`, `RowsAssumption`,
`PulseAssumption`, `SpaceAssumption`, `PrimaryAssumption`), the regime of
`PostSequence`, the hypothesis of `SettledDeadline` on the statuses a ticket may
start in and that of `CronAlwaysCovers` on the resources; TLC evaluates the former
in the runs. `TreeAssumption` says that the tasks there are at the start are
finitely many and rolled up; there need not be any. `PrimaryAssumption` is what
the code says of its master table, that the primary statuses "should be exactly 3".

**Model-checked only.** All liveness (`RequestEnds`, `AllAnswered`), which is out
of the prover's reach, and `CodesUnique` outside the regime, where it does not
hold. Every other invariant and action property of the runs is a theorem.

## 6. What is not modelled

The table of section 1 is the whole list; `PROJECT.json` gives for each part the
reason. PostgreSQL and TypeORM are modelled by how this code uses them: row
locks, READ COMMITTED, unique indexes, foreign keys, the deadlock detector,
rollback, and `save`'s comparison. Formatting, wording, e-mail bodies, exports and
dashboards are left out for good: nothing in them runs concurrently with
anything. Controllers and DTOs pass requests on; what they refuse never reaches
the models.

**Known and not covered by a property.**

- Properties under `clean` or `Clean` say nothing of overlapping requests, and
  the code has little against overlaps: two roll-ups, two sums of logs, a sync of
  a week beside its submit, two changes of one user, a cache filled beside its
  invalidation may each leave the older value.
- `Settled` excludes the general patch, whose refresh starts before its commit
  and may read the older row; a refresh that fails is only logged.
- A move may close a cycle in the task tree (`task.service.ts:569` refuses only the
  task itself), and with logs on it a roll-up goes round it for ever; the run makes
  such moves, and `RequestEnds` exempts the climbs while there is a cycle (`Cyclic`).
- A patch of status or dates rolls up the parent the client names
  (`task.service.ts:1028`, `1782`), and the real one stays as it was (`typed`).
- The totals of a new week need not be the sum of its pulses: the cron counts an
  item once and writes a pulse per event (`schedule.service.ts:213`, `253`), and a
  client sends what it likes (`pulse.service.ts:736`). The edit of a pulse sums nothing
  (`pulse.service.ts:552`). Both are in `loose`. A sync or an edit changes the hours of
  a week that was submitted or approved, down as well as up; no property forbids it.
- `updateUser` gives roles in a company the user does not belong to
  (`user.service.ts:383`; `lent`).
- `deleteUser` filters the join by the active company (`user.service.ts:953`), so it
  deletes accounts that have other companies, although its comment
  (`user.service.ts:1250`) says that the user belonged to this company only; the code
  that would move the default company never runs. When a row without a cascade
  refuses the delete, account and caches stay half-way (`stranded`).
- A 403, `invalid_client`, `invalid_scope` or a second 401 drop a connection whose
  grant is live (`provider-errors.ts:42`, `120`), against "Only a dead grant justifies
  dropping the connection" (`meetings-integration.service.ts:398`); `StatusTrue` exempts
  them (`denied`). A sync of a disconnected row by name sets it connected without
  tokens when the provider is Slack, or its failure a passing one. A sync and a
  disconnection that overlap leave the row connected without tokens or revoked with
  tokens, since each updates only the columns it finds different.
- A ticket space made with `ticketStatusIds` has places twice and breaks the order of
  the bases from the start: the guard around the seeding is commented out, the
  comment over it is not (`ticket-space.service.ts:914`). `InBaseOrder` exempts it
  (`moved`). An update with `ticketStatusIds` fails on a column that may not be NULL
  and is left out.
- A ticket's assignee is removed from the participants of the request only
  (`ticket.service.ts:490`), and a ticket request needs a second connection while
  its transaction holds one (`ticket.service.ts:623`).
- The check for a duplicate link is not backed by an index
  (`work-item-link.service.ts:61`).
- A rule that copies a person wins over a later one that writes to it, so the
  person gets both (`space-alert-rule.service.ts:266`).
- A role that loses its last privilege leaves the cached keys of its users as
  they are (`authorization.service.ts:93`); `CachesFresh` is about the others.
- The general save of a task sets `statusId` without `statusName`
  (`task.service.ts:473`), and the PUT of a level renames without propagating
  (`task-space.service.ts:1793`).
- A changed profile is copied to tickets by the id of the resource, where the
  column holds the id of a space member (`resource.service.ts:784`).
- The first alert of a task may look for it before it is committed and give up
  (`task.service.ts:401`); both orders are in `Delivery`, no property promises it.
- The services of resources, queues and impacts do not drop the blob of a space
  (`elsewhere` in `SpaceConfig`).
- Renaming a status of a space writes NULL over the name and colour of its
  tasks: an UPDATE of the driver returns rows and count, and
  `task-space.service.ts:307` takes the list of rows for the row (`Returned` in
  `SpaceConfig`).
- A half special holiday on a day whose weekday becomes a repeated holiday later is
  a state the comment over `composeDayFlags` does not list
  (`calendar.service.ts:44`); `TypeOK` allows it.
- An extension may take up a pattern that was removed from today on, since
  `readWeekendPattern` reads past days too (`calendar.service.ts:494`). `buildYearDays`
  never makes 53 weeks, contrary to its comment (`calendar.service.ts:197`), so
  years start earlier each time.
- Two extensions at once insert every date twice, two saves of a day may mix
  their columns, and a day configured between the count and the regeneration is
  lost.
