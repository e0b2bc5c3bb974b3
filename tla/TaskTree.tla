------------------------------ MODULE TaskTree ------------------------------
(***************************************************************************)
(* Tasks, their parents and their work logs.                               *)
(*                                                                         *)
(* The efforts, dates and status of a task with children are rolled up     *)
(* from them.  A request that changes a task calls rollupParent, which     *)
(* climbs: one UPDATE per level, until a level comes out as it was or has  *)
(* no parent.  The UPDATE aggregates what its snapshot shows, then waits   *)
(* for the row if a transaction has it, and writes the aggregates it has.  *)
(* Only create runs in a transaction, its climb included; every other      *)
(* handler sends separate statements.                                      *)
(*                                                                         *)
(* Estimate and actual effort are summed alike, start and due date are     *)
(* extrema alike: one stands for both.  The progress of a rolled-up task   *)
(* follows its status.  The logs of a task are represented by their sum.   *)
(***************************************************************************)
EXTENDS Naturals, Sequences, FiniteSetsExt, Functions

CONSTANTS
  Tasks, NoTask,
  Requests,
  Handlers,      \* the handlers the requests call
  Named,         \* the tasks clients name as the parent in a patch
  Tree,          \* the rows of the tasks that exist at the start
  Efforts, NewBases,  \* what users type in and log, the statuses they set
  Dues,          \* due dates, 0 for none
  MaxServed,     \* bound: how many requests are served in all
  MaxEffort      \* bound: a climb stops where it would write a higher sum

Bases == {"To Start", "Processing", "Finished"}

ASSUME TaskTreeAssumption ==
  /\ NoTask \notin Tasks /\ NewBases \subseteq Bases /\ Efforts \subseteq Nat /\ Dues \subseteq Nat /\ 0 \in Dues
  /\ Named \subseteq Tasks /\ MaxServed \in Nat /\ MaxEffort \in Nat

VARIABLES
  live,      \* the tasks that exist, committed
  unborn,    \* ids not given out yet
  row,       \* parent, status base, effort and due date of each task
  logs,      \* the sum of each task's own work logs
  mine,      \* the rows a create has written and not committed
  pc, op, target,
  mem,       \* the entity in memory, or the new value of a patch
  todo,      \* the roll-ups of the request; the first is climbing
  agg,       \* the aggregates of the level, or the sums read
  served,
  clean,     \* no request has yet met another one, none was cut off
  typed      \* tasks whose values are not a roll-up of their children: typed
             \* over by a user, or not rolled up by the patch of a child

tableVars   == <<live, unborn, row, logs>>
requestVars == <<pc, op, target, mem, todo, agg>>
vars        == <<tableVars, mine, requestVars, served, clean, typed>>

Row == [parent : Tasks \cup {NoTask}, base : Bases, effort : Nat, due : Dues]
NoRow == [parent |-> NoTask, base |-> "To Start", effort |-> 0, due |-> 0]
NoAgg == [base |-> "none", effort |-> 0, due |-> 0]
PCs == {"idle", "patching", "saving", "stripping", "removing", "summing",
        "adding", "writing", "aggregating", "applying", "committing"}
Ops == {"none", "create", "status", "progress", "effort", "dates", "update",
        "delete", "log"}

-----------------------------------------------------------------------------
(* What a statement sees and what it waits for *)

Pending(c) == DOMAIN mine[c]
Locked(c, t) == \E d \in Requests \ {c} : t \in Pending(d)
Committed == [t \in live |-> row[t]]
Over(rs, ss) == [t \in DOMAIN rs \cup DOMAIN ss |-> IF t \in DOMAIN rs THEN rs[t] ELSE ss[t]]
Seen(c) == Over(mine[c], Committed)
ChildrenIn(rs, t) == {k \in DOMAIN rs : rs[k].parent = t}

\* The key parentTaskId has no ON DELETE rule: a parent of a task stays.
NoKey(t) == FALSE
Referenced(t) == ChildrenIn(Committed, t) # {}

-----------------------------------------------------------------------------
(* The roll-up of one level *)

\* The status follows from those of the children.
BaseOf(bs) ==
  IF "Processing" \in bs \/ {"Finished", "To Start"} \subseteq bs THEN "Processing"
  ELSE IF "To Start" \in bs THEN "To Start" ELSE "Finished"

SumOf(rs, ks) == SumFunction([k \in ks |-> rs[k].effort])

\* own is the sum of the task's own logs.
Aggregates(rs, t, own) ==
  LET ks   == ChildrenIn(rs, t)
      dues == {rs[k].due : k \in ks}
  IN  [effort |-> SumOf(rs, ks) + own,
       due    |-> IF ks = {} THEN 0 ELSE Max(dues),
       base   |-> IF ks = {} THEN "none" ELSE BaseOf({rs[k].base : k \in ks})]

\* A row with the aggregates written in: where there is none it keeps its own.
WriteAll(r, a) == [r EXCEPT !.effort = a.effort, !.due = a.due, !.base = a.base]
RolledUp(r, a) ==
  [r EXCEPT !.effort = a.effort,
            !.due = IF a.due = 0 THEN @ ELSE a.due,
            !.base = IF a.base = "none" THEN @ ELSE a.base]

IsRolledUp(rs, t, own) ==
  ChildrenIn(rs, t) # {} => rs[t] = RolledUp(rs[t], Aggregates(rs, t, own))

\* The tree at the start, without logs, may be empty.
ASSUME TreeAssumption ==
  /\ DOMAIN Tree \subseteq Tasks /\ IsFiniteSet(DOMAIN Tree)
  /\ \A t \in DOMAIN Tree :
       Tree[t] \in Row /\ Tree[t].parent \in DOMAIN Tree \cup {NoTask} /\ IsRolledUp(Tree, t, 0)

-----------------------------------------------------------------------------
Init ==
  /\ live = DOMAIN Tree
  /\ unborn = Tasks \ live
  /\ row = [t \in Tasks |-> IF t \in live THEN Tree[t] ELSE NoRow]
  /\ logs = [t \in Tasks |-> 0]
  /\ mine = [c \in Requests |-> <<>>]
  /\ pc = [c \in Requests |-> "idle"]
  /\ op = [c \in Requests |-> "none"]
  /\ target = [c \in Requests |-> NoTask]
  /\ mem = [c \in Requests |-> NoRow]
  /\ todo = [c \in Requests |-> <<>>]
  /\ agg = [c \in Requests |-> NoAgg]
  /\ served = 0 /\ clean = TRUE /\ typed = {}

\* A request about the task t arrives; rs are the roll-ups it will make.
Arrive(c, h, step, t, m, rs) ==
  /\ h \in Handlers /\ pc[c] = "idle" /\ served < MaxServed
  /\ served' = served + 1
  /\ clean' = (clean /\ \A d \in Requests : pc[d] = "idle")
  /\ pc' = [pc EXCEPT ![c] = step]
  /\ op' = [op EXCEPT ![c] = h]
  /\ target' = [target EXCEPT ![c] = t]
  /\ mem' = [mem EXCEPT ![c] = m]
  /\ todo' = [todo EXCEPT ![c] = rs]
  /\ UNCHANGED <<agg, typed>>

Goto(c, step) ==
  /\ pc' = [pc EXCEPT ![c] = step]
  /\ UNCHANGED <<op, target, mem, served, clean>>

\* The request is over.
Finish(c) ==
  /\ pc' = [pc EXCEPT ![c] = "idle"]
  /\ op' = [op EXCEPT ![c] = "none"]
  /\ target' = [target EXCEPT ![c] = NoTask]
  /\ mem' = [mem EXCEPT ![c] = NoRow]
  /\ todo' = [todo EXCEPT ![c] = <<>>]
  /\ agg' = [agg EXCEPT ![c] = NoAgg]
  /\ UNCHANGED served

\* Go on with the roll-ups rs; when there is none left, end, create by a commit.
Climb(c, rs) ==
  IF rs = <<>> /\ op[c] # "create" THEN Finish(c) /\ UNCHANGED clean
  ELSE /\ Goto(c, IF rs = <<>> THEN "committing" ELSE "aggregating")
       /\ todo' = [todo EXCEPT ![c] = rs]
       /\ agg' = [agg EXCEPT ![c] = NoAgg]

\* rollupParent is called with a parent, if there is one.
From(p) == IF p = NoTask THEN <<>> ELSE <<p>>
-----------------------------------------------------------------------------
(* rollupParent *)

\* The aggregates of the level; no row, nothing to do.
Aggregate(c) ==
  /\ pc[c] = "aggregating"
  /\ LET t == Head(todo[c]) IN
       IF t \in DOMAIN Seen(c)
         THEN /\ agg' = [agg EXCEPT ![c] = Aggregates(Seen(c), t, logs[t])]
              /\ Goto(c, "applying")
              /\ UNCHANGED todo
         ELSE Climb(c, Tail(todo[c]))
  /\ UNCHANGED <<tableVars, mine, typed>>

\* The level is written and its parent is next; unchanged, the climb ends.  A
\* bug would end it after one level.
OneLevel(r) == <<>>
NextLevel(r) == From(r.parent)

Apply(c) ==
  /\ pc[c] = "applying"
  /\ LET t == Head(todo[c])
         old == Seen(c)[t]
         new == RolledUp(old, agg[c])
     IN  /\ ~Locked(c, t)
         /\ t \in DOMAIN Seen(c) => new.effort <= MaxEffort
         /\ IF t \notin DOMAIN Seen(c) \/ new = old
              THEN Climb(c, Tail(todo[c])) /\ UNCHANGED <<row, mine>>
              ELSE /\ IF op[c] = "create"
                        THEN mine' = [mine EXCEPT ![c] = Over([k \in {t} |-> new], @)] /\ UNCHANGED row
                        ELSE row' = [row EXCEPT ![t] = new] /\ UNCHANGED mine
                   /\ Climb(c, NextLevel(new) \o Tail(todo[c]))
         /\ typed' = typed \ {t}
  /\ UNCHANGED <<live, unborn, logs>>

-----------------------------------------------------------------------------
(* create: one transaction, with its roll-up *)

NewTask(p, b, e, d) == [parent |-> p, base |-> b, effort |-> e, due |-> d]

\* Any task that exists but the task itself: a move may close a cycle.
ParentsFor(t) == (live \ {t}) \cup {NoTask}

Create(c) ==
  \E t \in unborn, b \in NewBases, e \in Efforts, d \in Dues : \E p \in ParentsFor(t) :
    /\ Arrive(c, "create", IF p = NoTask THEN "committing" ELSE "aggregating", t, NoRow, From(p))
    /\ mine' = [mine EXCEPT ![c] = [k \in {t} |-> NewTask(p, b, e, d)]]
    /\ unborn' = unborn \ {t}
    /\ UNCHANGED <<live, row, logs>>

\* The locks go with the transaction, unless it were left open.
LeakLocks(c) == mine
Released(c) == [mine EXCEPT ![c] = <<>>]

Commit(c) ==
  /\ pc[c] = "committing"
  /\ live' = live \cup Pending(c)
  /\ row' = Over(mine[c], row)
  /\ mine' = Released(c)
  /\ Finish(c)
  /\ UNCHANGED <<unborn, logs, clean, typed>>

-----------------------------------------------------------------------------
(* The patches: a read, then an UPDATE of the columns of the patch *)

\* patchStatus rolls up from the parent the client names, whichever task that
\* is; only when it names none, from the parent of the row.
StartStatus(c) == \E t \in live, b \in NewBases, p \in Named \cup {NoTask} :
  /\ Arrive(c, "status", "patching", t, [row[t] EXCEPT !.base = b],
            From(IF p = NoTask THEN row[t].parent ELSE p))
  /\ UNCHANGED <<tableVars, mine>>

\* patchProgress sets the status that goes with the progress, and rolls up
\* nothing.
StartProgress(c) == \E t \in live, b \in NewBases :
  /\ Arrive(c, "progress", "patching", t, [row[t] EXCEPT !.base = b], <<>>)
  /\ UNCHANGED <<tableVars, mine>>

\* patchEffort types over the sums, those of a parent too.
StartEffort(c) == \E t \in live, e \in Efforts :
  /\ Arrive(c, "effort", "patching", t, [row[t] EXCEPT !.effort = e], From(row[t].parent))
  /\ UNCHANGED <<tableVars, mine>>

\* patchDates rolls up from the parent the client names, or from none.
StartDates(c) == \E t \in live, d \in Dues, p \in Named \cup {NoTask} :
  /\ Arrive(c, "dates", "patching", t, [row[t] EXCEPT !.due = d], From(p))
  /\ UNCHANGED <<tableVars, mine>>

PatchedColumn == [status |-> "base", progress |-> "base", effort |-> "effort", dates |-> "due"]

\* The rolled-up tasks that no longer are when t is changed by hand: t itself,
\* and its parent unless the roll-ups rs begin with it.
Stale(t, rs) ==
  (IF Referenced(t) THEN {t} ELSE {}) \cup
  (IF rs = From(row[t].parent) THEN {} ELSE {row[t].parent} \cap Tasks)

WritePatch(c) ==
  /\ pc[c] = "patching" /\ ~Locked(c, target[c])
  /\ LET t == target[c]
         k == PatchedColumn[op[c]]
     IN  IF t \in live
           THEN /\ row' = [row EXCEPT ![t] = [@ EXCEPT ![k] = mem[c][k]]]
                /\ typed' = typed \cup Stale(t, todo[c])
                /\ Climb(c, todo[c])
           ELSE Finish(c) /\ UNCHANGED <<row, typed, clean>>
  /\ UNCHANGED <<live, unborn, logs, mine>>

-----------------------------------------------------------------------------
(* update: the entity is loaded, changed, and saved with all its columns *)

\* Both parents are rolled up, the new one first.
BothParents(old, new) == From(new) \o (IF old = new THEN <<>> ELSE From(old))

LoadTask(c) ==
  \E t \in live, b \in NewBases : \E p \in ParentsFor(t) :
    /\ Arrive(c, "update", "saving", t, [row[t] EXCEPT !.base = b, !.parent = p],
              BothParents(row[t].parent, p))
    /\ UNCHANGED <<tableVars, mine>>

\* save updates what differs from the row it reads, or inserts the row when
\* there is none; the key refuses a parent that has gone.
SaveTask(c) ==
  /\ pc[c] = "saving" /\ ~Locked(c, target[c])
  /\ LET t == target[c] IN
       IF mem[c].parent \in live \cup {NoTask}
         THEN /\ live' = live \cup {t}
              /\ row' = [row EXCEPT ![t] = mem[c]]
              /\ typed' = typed \cup (IF Referenced(t) THEN {t} ELSE {})
              /\ Climb(c, todo[c])
         ELSE Finish(c) /\ UNCHANGED <<live, row, typed, clean>>
  /\ UNCHANGED <<unborn, logs, mine>>

-----------------------------------------------------------------------------
(* delete: refused while there are children, then statement by statement *)

StartDelete(c) == \E t \in live :
  /\ ~Referenced(t)
  /\ Arrive(c, "delete", "stripping", t, NoRow, From(row[t].parent))
  /\ UNCHANGED <<tableVars, mine>>

\* Co-assignees, members, labels and checklists go first; they are left out.
Strip(c) ==
  /\ pc[c] = "stripping"
  /\ Goto(c, "removing")
  /\ UNCHANGED <<live, unborn, row, logs, mine, todo, agg, typed>>

\* The task itself; the key refuses when a child has appeared, and the request
\* ends there.  An uncommitted child makes it wait.
RemoveTask(c) ==
  /\ pc[c] = "removing" /\ ~Locked(c, target[c])
  /\ LET t == target[c] IN
       /\ \A d \in Requests \ {c} : \A k \in Pending(d) : mine[d][k].parent # t
       /\ IF Referenced(t)
            THEN Finish(c) /\ UNCHANGED <<live, row, clean>>
            ELSE /\ live' = live \ {t}
                 /\ row' = [row EXCEPT ![t] = NoRow]
                 /\ Climb(c, todo[c])
  /\ UNCHANGED <<unborn, logs, mine, typed>>

-----------------------------------------------------------------------------
(* Work logs *)

Log(c, t, sum) ==
  /\ Arrive(c, "log", "summing", t, NoRow, <<>>)
  /\ logs' = [logs EXCEPT ![t] = sum]
  /\ UNCHANGED <<live, unborn, row, mine>>

\* createResourceLog, patchResourceLog, deleteResourceLog: e is the effort of
\* the log, f the new one.
AddLog(c)    == \E t \in live, e \in Efforts : Log(c, t, logs[t] + e)
ChangeLog(c) == \E t \in live, e, f \in Efforts : e <= logs[t] /\ Log(c, t, logs[t] - e + f)
DeleteLog(c) == \E t \in live, e \in Efforts : e <= logs[t] /\ Log(c, t, logs[t] - e)

\* syncActualEffortFromLogs: the sum of the logs, then the task's parent ...
SumLogs(c) ==
  /\ pc[c] = "summing"
  /\ LET t == target[c] IN
       IF t \in live
         THEN /\ agg' = [agg EXCEPT ![c] = [NoAgg EXCEPT !.effort = logs[t]]]
              /\ todo' = [todo EXCEPT ![c] = From(row[t].parent)]
              /\ Goto(c, "adding")
         ELSE Finish(c) /\ UNCHANGED clean
  /\ UNCHANGED <<tableVars, mine, typed>>

\* ... then the sum of the children.
OfChildren(t) == SumOf(Committed, ChildrenIn(Committed, t))

SumChildren(c) ==
  /\ pc[c] = "adding"
  /\ agg' = [agg EXCEPT ![c].effort = OfChildren(target[c]) + @]
  /\ Goto(c, "writing")
  /\ UNCHANGED <<tableVars, mine, todo, typed>>

\* ... and the total is written and rolled up.
WriteActual(c) ==
  /\ pc[c] = "writing" /\ ~Locked(c, target[c])
  /\ row' = IF target[c] \in live THEN [row EXCEPT ![target[c]].effort = agg[c].effort] ELSE row
  /\ Climb(c, todo[c])
  /\ UNCHANGED <<live, unborn, logs, mine, typed>>

-----------------------------------------------------------------------------
\* A statement fails or the connection is lost: what was committed stays.
Fail(c) ==
  /\ pc[c] # "idle" /\ "fail" \in Handlers
  /\ Finish(c)
  /\ mine' = [mine EXCEPT ![c] = <<>>]
  /\ clean' = FALSE
  /\ UNCHANGED <<tableVars, typed>>

Step(c) ==
  \/ Aggregate(c) \/ Apply(c) \/ Commit(c) \/ WritePatch(c) \/ SaveTask(c)
  \/ Strip(c) \/ RemoveTask(c) \/ SumLogs(c) \/ SumChildren(c) \/ WriteActual(c)

Next == \E c \in Requests :
  \/ Create(c) \/ StartStatus(c) \/ StartProgress(c) \/ StartEffort(c) \/ StartDates(c)
  \/ LoadTask(c) \/ StartDelete(c)
  \/ AddLog(c) \/ ChangeLog(c) \/ DeleteLog(c)
  \/ Step(c) \/ Fail(c)

Spec == Init /\ [][Next]_vars

\* The driver awaits each statement, and the database queues the statements
\* that wait for a row.
FairSpec == Spec /\ \A c \in Requests : SF_vars(Step(c))

-----------------------------------------------------------------------------
(* Correctness *)

TypeOK ==
  /\ live \subseteq Tasks /\ unborn \subseteq Tasks \ live
  /\ row \in [Tasks -> Row] /\ logs \in [Tasks -> Nat]
  /\ typed \subseteq Tasks
  /\ \A c \in Requests : Pending(c) \subseteq Tasks /\ \A t \in Pending(c) : mine[c][t] \in Row
  /\ pc \in [Requests -> PCs] /\ op \in [Requests -> Ops]
  /\ target \in [Requests -> Tasks \cup {NoTask}]
  /\ mem \in [Requests -> Row]
  /\ todo \in [Requests -> Seq(Tasks)]
  /\ agg \in [Requests -> [base : Bases \cup {"none"}, effort : Nat, due : Dues]]
  /\ served \in 0..MaxServed /\ clean \in BOOLEAN

\* Every parent exists, however creates, moves, saves and deletes interleave
\* ("Please delete all children first").
ParentsExist == \A t \in live : row[t].parent \in live \cup {NoTask}

Quiet == \A c \in Requests : pc[c] = "idle"

\* Requests that come one after another leave every roll-up right, at every
\* level, although the climb stops at the first level that did not change:
\* sums of the children and the own logs, latest date, status of the children.
\* Exempt are the tasks that a user has typed over, and the parents of tasks
\* whose status or dates were set by a request that named another parent or
\* rolled up none: the code leaves those as they were.
SumsRight ==
  clean /\ Quiet => \A t \in live \ typed : IsRolledUp(Committed, t, logs[t])

\* Some tasks are each below another one of them.
Cyclic == \E ts \in (SUBSET live) \ {{}} : \A t \in ts : row[t].parent \in ts

\* Every request is answered, every climb comes to an end: no two transactions
\* wait for the rows the other has rolled up.  The only climb that may not end
\* is one in a cycle, which moves can make: update refuses nothing but a task
\* as its own parent, and logs on a cycle are added up round after round.
RequestEnds ==
  \A c \in Requests : pc[c] # "idle" ~> (pc[c] = "idle" \/ Cyclic)
=============================================================================
