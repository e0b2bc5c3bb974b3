--------------------------- MODULE TaskTreeProofs ---------------------------
(***************************************************************************)
(* What holds of TaskTree for any tree, any number of tasks and requests,  *)
(* and any bound: the parent of a task exists, and requests one after      *)
(* another leave every roll-up right.  For that, what a sum is does not    *)
(* matter, only that it depends on the efforts that are summed; for the    *)
(* types it does, and the sum of finitely many naturals is shown to be one.*)
(***************************************************************************)
EXTENDS TaskTree, FiniteSetTheorems, WellFoundedInduction, TLAPS

-----------------------------------------------------------------------------
(* The inductive invariant *)

HasParent(r) == "parent" \in DOMAIN r

\* The rows a transaction has written are under tasks that exist, like the
\* committed ones.
Tables ==
  /\ live \subseteq Tasks /\ unborn \subseteq Tasks
  /\ DOMAIN row = Tasks /\ \A t \in Tasks : HasParent(row[t])
  /\ DOMAIN mine = Requests
  /\ \A c \in Requests : \A t \in Pending(c) :
       t \in Tasks /\ HasParent(mine[c][t]) /\ mine[c][t].parent \in live \cup {NoTask}
  /\ ParentsExist

InTransaction == {"aggregating", "applying", "committing"}
Patches == {"status", "progress", "effort", "dates"}

\* Only create has rows of its own, and only while it climbs.
Serves(c) ==
  /\ pc[c] \notin InTransaction => op[c] # "create"
  /\ op[c] # "create" => Pending(c) = {}
  /\ pc[c] = "patching" => op[c] \in Patches
  /\ pc[c] = "saving" => target[c] \in Tasks /\ HasParent(mem[c])

Book ==
  /\ DOMAIN pc = Requests /\ DOMAIN op = Requests
  /\ DOMAIN target = Requests /\ DOMAIN mem = Requests
  /\ \A c \in Requests : Serves(c)

IInv == Tables /\ Book

-----------------------------------------------------------------------------
(* Bookkeeping of the requests *)

\* The rows the other requests have written are theirs.
Apart(c) ==
  /\ DOMAIN mine = Requests /\ DOMAIN mine' = Requests
  /\ \A d \in Requests \ {c} : mine'[d] = mine[d]

LEMMA OthersServe ==
  ASSUME Book, NEW c \in Requests, Apart(c), NEW d \in Requests \ {c},
         pc'[d] = pc[d], op'[d] = op[d], target'[d] = target[d], mem'[d] = mem[d]
  PROVE  Serves(d)'
BY DEF Book, Serves, Apart, Pending

LEMMA ArriveOK ==
  ASSUME IInv, NEW c \in Requests, NEW h, NEW step, NEW t, NEW m, NEW rs,
         Arrive(c, h, step, t, m, rs), Apart(c),
         IF h = "create" THEN step \in InTransaction ELSE mine' = mine,
         step = "patching" => h \in Patches,
         step = "saving" => t \in Tasks /\ HasParent(m)
  PROVE  Book'
<1>1. /\ pc' = [pc EXCEPT ![c] = step] /\ op' = [op EXCEPT ![c] = h]
      /\ target' = [target EXCEPT ![c] = t] /\ mem' = [mem EXCEPT ![c] = m]
      /\ pc[c] = "idle"
  BY DEF Arrive
<1>2. Serves(c)'
  BY <1>1 DEF IInv, Book, Serves, InTransaction, Pending
<1> QED
  BY <1>1, <1>2, OthersServe DEF IInv, Book

LEMMA GotoOK ==
  ASSUME IInv, NEW c \in Requests, NEW step, Goto(c, step), Apart(c),
         step \notin {"patching", "saving"},
         step \in InTransaction \/ op[c] # "create",
         op[c] = "create" \/ mine' = mine
  PROVE  Book'
<1>1. pc' = [pc EXCEPT ![c] = step] /\ UNCHANGED <<op, target, mem>>
  BY DEF Goto
<1>2. Serves(c)'
  BY <1>1 DEF IInv, Book, Serves, Pending
<1> QED
  BY <1>1, <1>2, OthersServe DEF IInv, Book

LEMMA FinishOK ==
  ASSUME IInv, NEW c \in Requests, Finish(c), Apart(c), Pending(c)' = {}
  PROVE  Book'
<1>1. /\ pc' = [pc EXCEPT ![c] = "idle"] /\ op' = [op EXCEPT ![c] = "none"]
      /\ target' = [target EXCEPT ![c] = NoTask] /\ mem' = [mem EXCEPT ![c] = NoRow]
  BY DEF Finish
<1>2. Serves(c)'
  BY <1>1 DEF IInv, Book, Serves, Pending
<1> QED
  BY <1>1, <1>2, OthersServe DEF IInv, Book

LEMMA ClimbOK ==
  ASSUME IInv, NEW c \in Requests, NEW rs, Climb(c, rs), Apart(c),
         op[c] = "create" \/ mine' = mine
  PROVE  Book'
<1>1. CASE rs = <<>> /\ op[c] # "create"
  <2>1. Finish(c) /\ Pending(c)' = {}
    BY <1>1 DEF Climb, IInv, Book, Serves, Pending
  <2> QED
    BY <2>1, FinishOK
<1>2. CASE ~(rs = <<>> /\ op[c] # "create")
  <2>1. Goto(c, "committing") \/ Goto(c, "aggregating")
    BY <1>2 DEF Climb
  <2> QED
    BY <2>1, GotoOK DEF InTransaction
<1> QED
  BY <1>1, <1>2

\* A request that is no create ends without rows of its own.
LEMMA EndOK ==
  ASSUME IInv, NEW c \in Requests, Finish(c), op[c] # "create", mine' = mine
  PROVE  Book'
<1>1. Apart(c) /\ Pending(c)' = {}
  BY DEF Apart, IInv, Tables, Book, Serves, Pending
<1> QED
  BY <1>1, FinishOK

-----------------------------------------------------------------------------
(* Writing rows *)

\* A row changes in a column other than its parent.
LEMMA RowChanged ==
  ASSUME Tables, NEW t \in live, NEW new, row' = [row EXCEPT ![t] = new],
         HasParent(new), new.parent \in live \cup {NoTask}, UNCHANGED <<live, unborn, mine>>
  PROVE  Tables'
BY DEF Tables, ParentsExist, Pending

LEMMA TablesKept ==
  ASSUME Tables, UNCHANGED <<live, row, mine>>, unborn' \subseteq unborn
  PROVE  Tables'
BY DEF Tables, ParentsExist, Pending

LEMMA RollUpKeepsParent ==
  ASSUME NEW r, NEW a, HasParent(r)
  PROVE  HasParent(RolledUp(r, a)) /\ RolledUp(r, a).parent = r.parent
BY DEF RolledUp, HasParent

\* A request arrives at a handler that is no create.
LEMMA ArriveOther ==
  ASSUME IInv, NEW c \in Requests, NEW h, NEW step, NEW t, NEW m, NEW rs,
         Arrive(c, h, step, t, m, rs), h # "create",
         step = "patching" => h \in Patches,
         step = "saving" => t \in Tasks /\ HasParent(m),
         UNCHANGED <<live, unborn, row, mine>>
  PROVE  IInv'
<1>1. Apart(c)
  BY DEF Apart, IInv, Tables
<1>2. Book'
  BY <1>1, ArriveOK
<1> QED
  BY <1>2, TablesKept DEF IInv

\* A statement that changes no row.
LEMMA ReadOnly ==
  ASSUME IInv, NEW c \in Requests, UNCHANGED <<live, unborn, row, mine>>,
         \/ \E step : Goto(c, step) /\ step \notin {"patching", "saving"}
                                   /\ (step \in InTransaction \/ op[c] # "create")
         \/ \E rs : Climb(c, rs)
         \/ Finish(c) /\ op[c] # "create"
  PROVE  IInv'
<1>1. Apart(c)
  BY DEF Apart, IInv, Tables
<1>2. Book'
  BY <1>1, GotoOK, ClimbOK, EndOK
<1> QED
  BY <1>2, TablesKept DEF IInv

-----------------------------------------------------------------------------
(* The statements that write *)

LEMMA CreateOK ==
  ASSUME IInv, NEW c \in Requests, Create(c)
  PROVE  IInv'
<1>0. PICK t \in unborn, b \in NewBases, e \in Efforts, d \in Dues :
        \E p \in ParentsFor(t) :
          /\ Arrive(c, "create", IF p = NoTask THEN "committing" ELSE "aggregating", t, NoRow, From(p))
          /\ mine' = [mine EXCEPT ![c] = [k \in {t} |-> NewTask(p, b, e, d)]]
          /\ unborn' = unborn \ {t}
          /\ UNCHANGED <<live, row, logs>>
  BY DEF Create
<1>1. PICK p \in ParentsFor(t) :
        /\ Arrive(c, "create", IF p = NoTask THEN "committing" ELSE "aggregating", t, NoRow, From(p))
        /\ mine' = [mine EXCEPT ![c] = [k \in {t} |-> NewTask(p, b, e, d)]]
        /\ unborn' = unborn \ {t}
        /\ UNCHANGED <<live, row, logs>>
  BY <1>0
<1>2. /\ HasParent(NewTask(p, b, e, d)) /\ NewTask(p, b, e, d).parent = p
      /\ p \in live \cup {NoTask} /\ t \in Tasks
  BY DEF HasParent, NewTask, ParentsFor, IInv, Tables
<1>3. Apart(c) /\ mine'[c] = [k \in {t} |-> NewTask(p, b, e, d)]
  BY <1>1 DEF Apart, IInv, Tables
<1>4. DOMAIN mine'[c] = {t} /\ mine'[c][t] = NewTask(p, b, e, d)
  BY <1>3
<1>5. Book'
  BY <1>1, <1>3, ArriveOK DEF InTransaction
<1>6. Tables'
  BY <1>1, <1>2, <1>3, <1>4 DEF IInv, Tables, ParentsExist, Pending, Apart
<1> QED
  BY <1>5, <1>6 DEF IInv

LEMMA ApplyOK ==
  ASSUME IInv, NEW c \in Requests, Apply(c)
  PROVE  IInv'
<1> DEFINE t   == Head(todo[c])
           new == RolledUp(Seen(c)[t], agg[c])
<1>1. CASE Climb(c, Tail(todo[c])) /\ UNCHANGED <<row, mine>>
  BY <1>1, ReadOnly DEF Apply
<1>2. CASE /\ t \in DOMAIN Seen(c) /\ Climb(c, NextLevel(new) \o Tail(todo[c]))
           /\ IF op[c] = "create"
                THEN mine' = [mine EXCEPT ![c] = Over([k \in {t} |-> new], @)] /\ UNCHANGED row
                ELSE row' = [row EXCEPT ![t] = new] /\ UNCHANGED mine
  <2>1. UNCHANGED <<live, unborn>>
    BY DEF Apply
  <2>2. DOMAIN Seen(c) = Pending(c) \cup live
    BY DEF Over, Seen, Committed, Pending
  <2>3. /\ t \in Tasks /\ HasParent(Seen(c)[t])
        /\ Seen(c)[t].parent \in live \cup {NoTask}
    BY <1>2, <2>2 DEF Over, Seen, Committed, Pending, IInv, Tables, ParentsExist
  <2>4. HasParent(new) /\ new.parent \in live \cup {NoTask}
    BY <2>3, RollUpKeepsParent
  <2> HIDE DEF new, t
  <2>5. CASE op[c] = "create"
    <3>1. mine' = [mine EXCEPT ![c] = Over([k \in {t} |-> new], @)] /\ UNCHANGED row
      BY <1>2, <2>5
    <3>2. Apart(c) /\ mine'[c] = Over([k \in {t} |-> new], mine[c])
      BY <3>1 DEF Apart, IInv, Tables
    <3>3. /\ DOMAIN mine'[c] = {t} \cup DOMAIN mine[c] /\ mine'[c][t] = new
          /\ \A k \in DOMAIN mine[c] \ {t} : mine'[c][k] = mine[c][k]
      BY <3>2 DEF Over
    <3>4. Tables'
      BY <2>1, <2>3, <2>4, <3>1, <3>2, <3>3 DEF IInv, Tables, ParentsExist, Pending, Apart
    <3>5. Book'
      BY <1>2, <2>5, <3>2, ClimbOK
    <3> QED
      BY <3>4, <3>5 DEF IInv
  <2>6. CASE op[c] # "create"
    <3>1. row' = [row EXCEPT ![t] = new] /\ UNCHANGED mine
      BY <1>2, <2>6
    <3>2. t \in live
      BY <1>2, <2>2, <2>6 DEF IInv, Book, Serves
    <3>3. Tables'
      BY <2>1, <2>4, <3>1, <3>2, RowChanged DEF IInv
    <3>4. Book'
      BY <1>2, <3>1, ClimbOK DEF Apart, IInv, Tables
    <3> QED
      BY <3>3, <3>4 DEF IInv
  <2> QED
    BY <2>5, <2>6
<1> QED
  BY <1>1, <1>2 DEF Apply

LEMMA CommitOK ==
  ASSUME IInv, NEW c \in Requests, Commit(c)
  PROVE  IInv'
<1>1. /\ live' = live \cup Pending(c) /\ row' = Over(mine[c], row) /\ unborn' = unborn
      /\ mine' = [mine EXCEPT ![c] = <<>>] /\ Finish(c)
  BY DEF Commit, Released
<1>2. Apart(c) /\ Pending(c)' = {}
  BY <1>1 DEF Apart, Pending, IInv, Tables
<1>3. /\ DOMAIN row' = Tasks /\ \A t \in Pending(c) : row'[t] = mine[c][t]
      /\ \A t \in Tasks \ Pending(c) : row'[t] = row[t]
  BY <1>1 DEF Over, Pending, IInv, Tables
<1>4. Tables'
  BY <1>1, <1>2, <1>3 DEF IInv, Tables, ParentsExist, Pending, Apart
<1> QED
  BY <1>1, <1>2, <1>4, FinishOK DEF IInv

LEMMA WritePatchOK ==
  ASSUME IInv, NEW c \in Requests, WritePatch(c)
  PROVE  IInv'
<1> DEFINE t == target[c]
           k == PatchedColumn[op[c]]
<1>1. op[c] \in Patches /\ op[c] # "create" /\ UNCHANGED <<live, unborn, mine>>
  BY DEF WritePatch, IInv, Book, Serves, Patches
<1>2. CASE Finish(c) /\ UNCHANGED row
  BY <1>1, <1>2, ReadOnly
<1>3. CASE t \in live /\ row' = [row EXCEPT ![t] = [@ EXCEPT ![k] = mem[c][k]]] /\ Climb(c, todo[c])
  <2>1. k # "parent"
    BY <1>1 DEF PatchedColumn, Patches
  <2> DEFINE new == [row[t] EXCEPT ![k] = mem[c][k]]
  <2>2. row' = [row EXCEPT ![t] = new]
    BY <1>3
  <2>3. HasParent(row[t]) /\ row[t].parent \in live \cup {NoTask}
    BY <1>3 DEF IInv, Tables, ParentsExist
  <2>4. HasParent(new) /\ new.parent = row[t].parent
    BY <2>1, <2>3 DEF HasParent
  <2> HIDE DEF new
  <2>5. Tables'
    BY <1>1, <1>3, <2>2, <2>3, <2>4, RowChanged DEF IInv
  <2>6. Book'
    BY <1>1, <1>3, ClimbOK DEF Apart, IInv, Tables
  <2> QED
    BY <2>5, <2>6 DEF IInv
<1> QED
  BY <1>2, <1>3 DEF WritePatch

\* The key is checked when the save is done, not when the task was loaded.
LEMMA SaveTaskOK ==
  ASSUME IInv, NEW c \in Requests, SaveTask(c)
  PROVE  IInv'
<1> DEFINE t == target[c]
<1>1. /\ op[c] # "create" /\ t \in Tasks /\ HasParent(mem[c])
      /\ UNCHANGED <<unborn, mine>>
  BY DEF SaveTask, IInv, Book, Serves, InTransaction
<1>2. CASE Finish(c) /\ UNCHANGED <<live, row>>
  BY <1>1, <1>2, ReadOnly
<1>3. CASE /\ mem[c].parent \in live \cup {NoTask} /\ live' = live \cup {t}
           /\ row' = [row EXCEPT ![t] = mem[c]] /\ Climb(c, todo[c])
  <2>1. Tables'
    BY <1>1, <1>3 DEF IInv, Tables, ParentsExist, Pending
  <2>2. Book'
    BY <1>1, <1>3, ClimbOK DEF Apart, IInv, Tables
  <2> QED
    BY <2>1, <2>2 DEF IInv
<1> QED
  BY <1>2, <1>3 DEF SaveTask

\* A task is removed when no row refers to it, committed or not.
LEMMA RemoveTaskOK ==
  ASSUME IInv, NEW c \in Requests, RemoveTask(c)
  PROVE  IInv'
<1> DEFINE t == target[c]
<1>1. op[c] # "create" /\ Pending(c) = {} /\ UNCHANGED <<unborn, mine>>
  BY DEF RemoveTask, IInv, Book, Serves, InTransaction
<1>2. CASE Finish(c) /\ UNCHANGED <<live, row>>
  BY <1>1, <1>2, ReadOnly
<1>3. CASE /\ ~Referenced(t) /\ live' = live \ {t}
           /\ row' = [row EXCEPT ![t] = NoRow] /\ Climb(c, todo[c])
  <2>1. \A k \in live : row[k].parent # t
    BY <1>3 DEF Referenced, ChildrenIn, Committed
  <2>2. \A d \in Requests : \A k \in Pending(d) : mine[d][k].parent # t
    BY <1>1 DEF RemoveTask
  <2>3. HasParent(NoRow)
    BY DEF HasParent, NoRow
  <2>4. Tables'
    BY <1>1, <1>3, <2>1, <2>2, <2>3 DEF IInv, Tables, ParentsExist, Pending
  <2>5. Book'
    BY <1>1, <1>3, ClimbOK DEF Apart, IInv, Tables
  <2> QED
    BY <2>4, <2>5 DEF IInv
<1> QED
  BY <1>2, <1>3 DEF RemoveTask

LEMMA WriteActualOK ==
  ASSUME IInv, NEW c \in Requests, WriteActual(c)
  PROVE  IInv'
<1> DEFINE t   == target[c]
           new == [row[t] EXCEPT !.effort = agg[c].effort]
<1>1. op[c] # "create" /\ UNCHANGED <<live, unborn, mine>> /\ Climb(c, todo[c])
  BY DEF WriteActual, IInv, Book, Serves, InTransaction
<1>2. CASE t \in live
  <2>1. row' = [row EXCEPT ![t] = new]
    BY <1>2 DEF WriteActual
  <2>2. HasParent(row[t]) /\ row[t].parent \in live \cup {NoTask}
    BY <1>2 DEF IInv, Tables, ParentsExist
  <2>3. HasParent(new) /\ new.parent = row[t].parent
    BY <2>2 DEF HasParent
  <2> HIDE DEF new
  <2>4. Tables'
    BY <1>1, <1>2, <2>1, <2>2, <2>3, RowChanged DEF IInv
  <2>5. Book'
    BY <1>1, ClimbOK DEF Apart, IInv, Tables
  <2> QED
    BY <2>4, <2>5 DEF IInv
<1>3. CASE t \notin live
  BY <1>1, <1>3, ReadOnly DEF WriteActual
<1> QED
  BY <1>2, <1>3

-----------------------------------------------------------------------------
(* The other steps *)

\* The handlers that are called: all but create write nothing yet.
LEMMA HandlersOK ==
  ASSUME IInv, NEW c \in Requests,
         \/ StartStatus(c) \/ StartProgress(c) \/ StartEffort(c) \/ StartDates(c)
         \/ LoadTask(c) \/ StartDelete(c) \/ AddLog(c) \/ ChangeLog(c) \/ DeleteLog(c)
  PROVE  IInv'
<1>1. CASE StartStatus(c)
  BY <1>1, ArriveOther DEF StartStatus, tableVars, Patches
<1>2. CASE StartProgress(c)
  BY <1>2, ArriveOther DEF StartProgress, tableVars, Patches
<1>3. CASE StartEffort(c)
  BY <1>3, ArriveOther DEF StartEffort, tableVars, Patches
<1>4. CASE StartDates(c)
  BY <1>4, ArriveOther DEF StartDates, tableVars, Patches
<1>5. CASE LoadTask(c)
  <2>1. \E t \in live : \E m, rs : /\ Arrive(c, "update", "saving", t, m, rs) /\ HasParent(m)
                                    /\ UNCHANGED <<tableVars, mine>>
    <3>1. PICK t \in live, b \in NewBases : \E p \in ParentsFor(t) :
            /\ Arrive(c, "update", "saving", t, [row[t] EXCEPT !.base = b, !.parent = p],
                      BothParents(row[t].parent, p))
            /\ UNCHANGED <<tableVars, mine>>
      BY <1>5 DEF LoadTask
    <3>2. \A p : HasParent([row[t] EXCEPT !.base = b, !.parent = p])
      BY DEF IInv, Tables, HasParent
    <3> QED
      BY <3>1, <3>2
  <2> QED
    BY <2>1, ArriveOther DEF tableVars, IInv, Tables
<1>6. CASE StartDelete(c)
  BY <1>6, ArriveOther DEF StartDelete, tableVars
<1>7. CASE \E t, sum : Log(c, t, sum)
  BY <1>7, ArriveOther DEF Log
<1> QED
  BY <1>1, <1>2, <1>3, <1>4, <1>5, <1>6, <1>7 DEF AddLog, ChangeLog, DeleteLog

LEMMA StepsOK ==
  ASSUME IInv, NEW c \in Requests, Step(c)
  PROVE  IInv'
<1>1. pc[c] \notin InTransaction => op[c] # "create"
  BY DEF IInv, Book, Serves
<1>2. CASE Aggregate(c)
  BY <1>2, ReadOnly DEF Aggregate, tableVars, InTransaction
<1>3. CASE Strip(c)
  BY <1>1, <1>3, ReadOnly DEF Strip, InTransaction
<1>4. CASE SumLogs(c)
  BY <1>1, <1>4, ReadOnly DEF SumLogs, tableVars, InTransaction
<1>5. CASE SumChildren(c)
  BY <1>1, <1>5, ReadOnly DEF SumChildren, tableVars, InTransaction
<1> QED
  BY <1>2, <1>3, <1>4, <1>5, ApplyOK, CommitOK, WritePatchOK, SaveTaskOK, RemoveTaskOK,
     WriteActualOK DEF Step

\* The transaction is rolled back: its rows are gone.
LEMMA FailOK ==
  ASSUME IInv, NEW c \in Requests, Fail(c)
  PROVE  IInv'
<1>1. Finish(c) /\ mine' = [mine EXCEPT ![c] = <<>>] /\ UNCHANGED <<live, unborn, row>>
  BY DEF Fail, tableVars
<1>2. Apart(c) /\ Pending(c)' = {}
  BY <1>1 DEF Apart, Pending, IInv, Tables
<1>3. Tables'
  BY <1>1, <1>2 DEF IInv, Tables, ParentsExist, Pending, Apart
<1> QED
  BY <1>1, <1>2, <1>3, FinishOK DEF IInv

-----------------------------------------------------------------------------
(* The theorem *)

LEMMA InitOK == Init => IInv
<1> SUFFICES ASSUME Init PROVE IInv
  OBVIOUS
<1>1. /\ live = DOMAIN Tree /\ live \subseteq Tasks /\ unborn \subseteq Tasks
      /\ \A t \in live : HasParent(Tree[t]) /\ Tree[t].parent \in live \cup {NoTask}
  BY TreeAssumption DEF Init, Row, HasParent
<1>2. /\ DOMAIN row = Tasks /\ \A t \in Tasks : HasParent(row[t])
      /\ \A t \in live : row[t] = Tree[t]
  BY <1>1 DEF Init, HasParent, NoRow
<1>3. DOMAIN mine = Requests /\ \A c \in Requests : Pending(c) = {}
  BY DEF Init, Pending
<1>4. Tables
  BY <1>1, <1>2, <1>3 DEF Tables, ParentsExist
<1>5. Book
  BY <1>3 DEF Init, Book, Serves
<1> QED
  BY <1>4, <1>5 DEF IInv

LEMMA StepOK == IInv /\ [Next]_vars => IInv'
<1> SUFFICES ASSUME IInv, [Next]_vars PROVE IInv'
  OBVIOUS
<1>1. CASE UNCHANGED vars
  BY <1>1 DEF vars, tableVars, requestVars, IInv, Tables, Book, Serves, ParentsExist, Pending
<1>2. CASE Next
  BY <1>2, CreateOK, HandlersOK, StepsOK, FailOK DEF Next
<1> QED
  BY <1>1, <1>2

\* The invariant, from which the property follows: also a row that is not
\* committed is under a task that exists, since a delete waits for it.
THEOREM TreeInvariant == Spec => []IInv
BY InitOK, StepOK, PTL DEF Spec

\* No task is left without the parent it names, although delete counts the
\* children long before it removes the task, update saves a parent it chose
\* long before, and a create stays uncommitted while it climbs.
THEOREM ParentsAlwaysExist == Spec => []ParentsExist
<1>1. IInv => ParentsExist
  BY DEF IInv, Tables
<1> QED
  BY <1>1, TreeInvariant, PTL

-----------------------------------------------------------------------------
(* Roll-ups: what the request that runs has still to put right *)

IsRow(r) == r = [parent |-> r.parent, base |-> r.base, effort |-> r.effort, due |-> r.due]

\* The row r has the dates and the status of the aggregates a, if they have any.
Dated(r, a) ==
  /\ a.due # 0 => r.due = a.due
  /\ a.base # "none" => r.base = a.base

\* IsRolledUp in two halves; the own logs count in one only.
DatesRight(rs, u) == ChildrenIn(rs, u) # {} => Dated(rs[u], Aggregates(rs, u, 0))
EffortRight(rs, u, own) ==
  ChildrenIn(rs, u) # {} => rs[u].effort = SumOf(rs, ChildrenIn(rs, u)) + own
Right(rs, u, own) == DatesRight(rs, u) /\ EffortRight(rs, u, own)

\* All tasks are right but those of us and those known not to be.
AllRight(rs, ls, us) == \A u \in DOMAIN rs \ us : Right(rs, u, ls[u])
RightBut(rs, us) == AllRight(rs, logs, typed \cup us)

Elems(s) == {s[i] : i \in DOMAIN s}

\* What a request may rely on that nobody has met: which tasks are not right are
\* on its way, and its way is as the rows say.
Doing(c) ==
  LET t == target[c] IN
  /\ \A k \in Pending(c) : IsRow(mine[c][k]) /\ k \notin unborn
  /\ pc[c] \in {"patching", "saving", "stripping", "removing"} =>
       t \in live /\ RightBut(Committed, {})
  /\ pc[c] = "patching" => \E p \in Tasks \cup {NoTask} : todo[c] = From(p)
  /\ pc[c] = "saving" => IsRow(mem[c]) /\ todo[c] = BothParents(row[t].parent, mem[c].parent)
  /\ pc[c] \in {"stripping", "removing"} => todo[c] = From(row[t].parent)
  /\ pc[c] \in {"summing", "adding", "writing"} =>
       /\ t \in live /\ RightBut(Committed, {t}) /\ (t \notin typed => DatesRight(Committed, t))
  /\ pc[c] \in {"adding", "writing"} => todo[c] = From(row[t].parent)
  /\ pc[c] = "adding" => agg[c] = [NoAgg EXCEPT !.effort = logs[t]]
  /\ pc[c] = "writing" => agg[c].effort = OfChildren(t) + logs[t]
  /\ pc[c] \in {"aggregating", "applying"} =>
       todo[c] \in Seq(Tasks) /\ todo[c] # <<>> /\ RightBut(Seen(c), Elems(todo[c]))
  /\ pc[c] = "applying" =>
       Head(todo[c]) \in DOMAIN Seen(c) /\ agg[c] = Aggregates(Seen(c), Head(todo[c]), logs[Head(todo[c])])
  /\ pc[c] = "committing" => RightBut(Seen(c), {})

Clear ==
  /\ DOMAIN todo = Requests /\ DOMAIN agg = Requests
  /\ DOMAIN logs = Tasks /\ \A t \in Tasks : IsRow(row[t])
  /\ live \cap unborn = {}
  /\ \A c \in Requests : pc[c] # "idle" =>
       /\ \A d \in Requests \ {c} : pc[d] = "idle"
       /\ Doing(c)
  /\ Quiet => RightBut(Committed, {})

SumsInv == IInv /\ (clean => Clear)

LEMMA AggregatesAre ==
  ASSUME NEW rs, NEW u, NEW own
  PROVE  /\ Aggregates(rs, u, own).effort = SumOf(rs, ChildrenIn(rs, u)) + own
         /\ \A r : Dated(r, Aggregates(rs, u, own)) <=> Dated(r, Aggregates(rs, u, 0))
BY DEF Aggregates, Dated

LEMMA RolledUpIs ==
  ASSUME NEW r, NEW a, IsRow(r)
  PROVE  /\ IsRow(RolledUp(r, a)) /\ RolledUp(r, a).parent = r.parent
         /\ RolledUp(r, a).effort = a.effort /\ Dated(RolledUp(r, a), a)
         /\ r = RolledUp(r, a) <=> r.effort = a.effort /\ Dated(r, a)
<1> DEFINE n == RolledUp(r, a)
<1>1. n = [parent |-> r.parent,
           base   |-> IF a.base = "none" THEN r.base ELSE a.base,
           effort |-> a.effort,
           due    |-> IF a.due = 0 THEN r.due ELSE a.due]
  <2> DEFINE b == IF a.base = "none" THEN r.base ELSE a.base
             d == IF a.due = 0 THEN r.due ELSE a.due
  <2>1. n = [r EXCEPT !.effort = a.effort, !.due = d, !.base = b]
    BY DEF RolledUp, IsRow
  <2> HIDE DEF n, b, d
  <2>2. n = [parent |-> r.parent, base |-> b, effort |-> a.effort, due |-> d]
    BY <2>1 DEF IsRow
  <2> QED
    BY <2>2 DEF b, d
<1> HIDE DEF n
<1>2. IsRow(n) /\ n.parent = r.parent /\ n.effort = a.effort /\ Dated(n, a)
  BY <1>1 DEF IsRow, Dated
<1>3. r = n => r.effort = a.effort /\ Dated(r, a)
  BY <1>2
<1>4. r.effort = a.effort /\ Dated(r, a) => r = n
  BY <1>1 DEF IsRow, Dated
<1> QED
  BY <1>2, <1>3, <1>4 DEF n

LEMMA RightIs ==
  ASSUME NEW rs, NEW u, NEW own, IsRow(rs[u])
  PROVE  Right(rs, u, own) <=> IsRolledUp(rs, u, own)
BY AggregatesAre, RolledUpIs DEF Right, DatesRight, EffortRight, IsRolledUp

\* The aggregates of u depend on its children only.
LEMMA SameAggregates ==
  ASSUME NEW rs, NEW ss, NEW u, ChildrenIn(ss, u) = ChildrenIn(rs, u),
         \A k \in ChildrenIn(rs, u) : ss[k] = rs[k]
  PROVE  /\ SumOf(ss, ChildrenIn(ss, u)) = SumOf(rs, ChildrenIn(rs, u))
         /\ \A own : Aggregates(ss, u, own) = Aggregates(rs, u, own)
<1> DEFINE ks == ChildrenIn(rs, u)
<1>1. /\ [k \in ks |-> ss[k].effort] = [k \in ks |-> rs[k].effort]
      /\ {ss[k].due : k \in ks} = {rs[k].due : k \in ks}
      /\ {ss[k].base : k \in ks} = {rs[k].base : k \in ks}
  OBVIOUS
<1>2. SumOf(ss, ks) = SumOf(rs, ks)
  BY <1>1, Zenon DEF SumOf
<1> QED
  BY <1>1, <1>2 DEF Aggregates

\* One row changes, appears or goes: only it and its parents can be wrong now.
LEMMA Elsewhere ==
  ASSUME NEW rs, NEW ss, NEW t, NEW ls, NEW us, NEW vs, AllRight(rs, ls, us),
         DOMAIN ss \ {t} = DOMAIN rs \ {t}, \A k \in DOMAIN rs \ {t} : ss[k] = rs[k],
         t \in DOMAIN ss \ vs => Right(ss, t, ls[t]),
         us \cap (DOMAIN ss \ {t}) \subseteq vs,
         t \in DOMAIN rs => {rs[t].parent} \cap (DOMAIN ss \ {t}) \subseteq vs,
         t \in DOMAIN ss => {ss[t].parent} \cap (DOMAIN ss \ {t}) \subseteq vs
  PROVE  AllRight(ss, ls, vs)
<1> SUFFICES ASSUME NEW u \in DOMAIN ss \ vs, u # t PROVE Right(ss, u, ls[u])
  BY DEF AllRight
<1>1. u \in DOMAIN rs \ us /\ ss[u] = rs[u]
  OBVIOUS
<1>2. t \notin ChildrenIn(rs, u) /\ t \notin ChildrenIn(ss, u)
  BY DEF ChildrenIn
<1>3. ChildrenIn(ss, u) = ChildrenIn(rs, u) /\ \A k \in ChildrenIn(rs, u) : ss[k] = rs[k]
  BY <1>2 DEF ChildrenIn
<1>4. Right(rs, u, ls[u])
  BY <1>1 DEF AllRight
<1> QED
  BY <1>1, <1>3, <1>4, SameAggregates DEF Right, DatesRight, EffortRight

LEMMA Way ==
  ASSUME NEW p \in Tasks \cup {NoTask}
  PROVE  /\ From(p) \in Seq(Tasks) /\ Elems(From(p)) = {p} \ {NoTask}
         /\ <<>> \in Seq(Tasks) /\ Elems(<<>>) = {}
<1>1. NoTask \notin Tasks
  BY TaskTreeAssumption
<1>2. CASE p = NoTask
  BY <1>2 DEF From, Elems
<1>3. CASE p # NoTask
  BY <1>1, <1>3 DEF From, Elems
<1> QED
  BY <1>2, <1>3 DEF Elems

LEMMA WayBefore ==
  ASSUME NEW a \in Seq(Tasks), NEW b \in Seq(Tasks)
  PROVE  a \o b \in Seq(Tasks) /\ Elems(a \o b) = Elems(a) \cup Elems(b)
<1>1. /\ a \o b \in Seq(Tasks) /\ Len(a \o b) = Len(a) + Len(b)
      /\ \A i \in 1..Len(a) : (a \o b)[i] = a[i]
      /\ \A i \in 1..Len(b) : (a \o b)[Len(a) + i] = b[i]
  OBVIOUS
<1>2. \A i \in 1..(Len(a) + Len(b)) : i \in 1..Len(a) \/ \E j \in 1..Len(b) : i = Len(a) + j
  <2> TAKE i \in 1..(Len(a) + Len(b))
  <2>1. i \notin 1..Len(a) => i - Len(a) \in 1..Len(b) /\ i = Len(a) + (i - Len(a))
    OBVIOUS
  <2> QED
    BY <2>1
<1>3. \A j \in 1..Len(b) : Len(a) + j \in 1..(Len(a) + Len(b))
  OBVIOUS
<1>4. /\ DOMAIN a = 1..Len(a) /\ DOMAIN b = 1..Len(b)
      /\ DOMAIN (a \o b) = 1..(Len(a) + Len(b))
  BY <1>1
<1>5. 1..Len(a) \subseteq 1..(Len(a) + Len(b))
  OBVIOUS
<1>6. ASSUME NEW i \in DOMAIN (a \o b) PROVE (a \o b)[i] \in Elems(a) \cup Elems(b)
  BY SMTT(60), <1>1, <1>2, <1>4 DEF Elems
<1>7. ASSUME NEW i \in DOMAIN a PROVE a[i] \in Elems(a \o b)
  <2>1. i \in DOMAIN (a \o b) /\ (a \o b)[i] = a[i]
    BY <1>1, <1>4, <1>5
  <2> QED
    BY <2>1 DEF Elems
<1>8. ASSUME NEW i \in DOMAIN b PROVE b[i] \in Elems(a \o b)
  <2>1. Len(a) + i \in DOMAIN (a \o b) /\ (a \o b)[Len(a) + i] = b[i]
    BY <1>1, <1>3, <1>4
  <2> QED
    BY <2>1 DEF Elems
<1>9. Elems(a) \cup Elems(b) \subseteq Elems(a \o b)
  BY <1>7, <1>8 DEF Elems
<1>10. Elems(a \o b) \subseteq Elems(a) \cup Elems(b)
  BY <1>6 DEF Elems
<1> QED
  BY <1>1, <1>9, <1>10

LEMMA WayOfBoth ==
  ASSUME NEW p \in Tasks \cup {NoTask}, NEW q \in Tasks \cup {NoTask}
  PROVE  BothParents(p, q) \in Seq(Tasks) /\ Elems(BothParents(p, q)) = {p, q} \ {NoTask}
<1>1. BothParents(p, q) = From(q) \o (IF p = q THEN <<>> ELSE From(p))
  BY DEF BothParents
<1>2. CASE p = q
  <2>1. From(q) \o <<>> = From(q)
    BY Way
  <2> QED
    BY <1>1, <1>2, <2>1, Way
<1>3. CASE p # q
  <2>1. Elems(From(q) \o From(p)) = Elems(From(q)) \cup Elems(From(p))
        /\ From(q) \o From(p) \in Seq(Tasks)
    BY Way, WayBefore
  <2> QED
    BY <1>1, <1>3, <2>1, Way
<1> QED
  BY <1>2, <1>3

\* A way is its first level and the rest.
LEMMA WayOn ==
  ASSUME NEW s \in Seq(Tasks), s # <<>>
  PROVE  Head(s) \in Tasks /\ Tail(s) \in Seq(Tasks) /\ Elems(s) = {Head(s)} \cup Elems(Tail(s))
<1>1. /\ Head(s) \in Tasks /\ Tail(s) \in Seq(Tasks) /\ Len(s) \in Nat \ {0}
      /\ DOMAIN s = 1..Len(s) /\ DOMAIN Tail(s) = 1..(Len(s) - 1)
      /\ Head(s) = s[1] /\ \A i \in 1..(Len(s) - 1) : Tail(s)[i] = s[i + 1]
  OBVIOUS
<1>2. \A i \in 1..Len(s) : i = 1 \/ \E j \in 1..(Len(s) - 1) : i = j + 1
  <2> TAKE i \in 1..Len(s)
  <2>1. i # 1 => i - 1 \in 1..(Len(s) - 1) /\ i = (i - 1) + 1
    BY <1>1
  <2> QED
    BY <2>1
<1>3. 1 \in 1..Len(s) /\ \A j \in 1..(Len(s) - 1) : j + 1 \in 1..Len(s)
  BY <1>1
<1>4. Head(s) \in Elems(s) /\ Elems(Tail(s)) \subseteq Elems(s)
  <2>1. Head(s) \in Elems(s)
    BY <1>1, <1>3 DEF Elems
  <2>2. ASSUME NEW j \in DOMAIN Tail(s) PROVE Tail(s)[j] \in Elems(s)
    <3>1. j + 1 \in DOMAIN s /\ Tail(s)[j] = s[j + 1]
      BY <1>1, <1>3
    <3> QED
      BY <3>1 DEF Elems
  <2> QED
    BY <2>1, <2>2 DEF Elems
<1>5. ASSUME NEW i \in DOMAIN s PROVE s[i] \in {Head(s)} \cup Elems(Tail(s))
  <2>1. CASE i = 1
    BY <1>1, <2>1
  <2>2. CASE i # 1
    <3>1. PICK j \in 1..(Len(s) - 1) : i = j + 1
      BY <1>1, <1>2, <2>2
    <3>2. j \in DOMAIN Tail(s) /\ Tail(s)[j] = s[i]
      BY <1>1, <3>1
    <3> QED
      BY <3>2 DEF Elems
  <2> QED
    BY <2>1, <2>2
<1> QED
  BY <1>1, <1>4, <1>5 DEF Elems

-----------------------------------------------------------------------------
(* The steps of requests that nobody meets *)

LEMMA SeenIs ==
  ASSUME NEW c \in Requests
  PROVE  /\ DOMAIN Committed = live /\ \A k \in live : Committed[k] = row[k]
         /\ DOMAIN Seen(c) = live \cup Pending(c)
         /\ \A k \in Pending(c) : Seen(c)[k] = mine[c][k]
         /\ \A k \in live \ Pending(c) : Seen(c)[k] = row[k]
         /\ Pending(c) = {} => Seen(c) = Committed
BY DEF Committed, Seen, Over, Pending

\* A request arrives where all is quiet.
LEMMA ArriveClear ==
  ASSUME SumsInv, NEW c \in Requests, NEW h, NEW step, NEW t, NEW m, NEW rs,
         Arrive(c, h, step, t, m, rs), clean', step # "idle",
         DOMAIN logs' = Tasks, \A k \in Tasks : IsRow(row'[k]), live' \cap unborn' = {},
         Doing(c)'
  PROVE  Clear'
<1>1. /\ pc' = [pc EXCEPT ![c] = step] /\ clean /\ \A d \in Requests : pc[d] = "idle"
  BY DEF Arrive
<1>2. DOMAIN pc = Requests
  BY DEF SumsInv, IInv, Book
<1>3. pc'[c] = step /\ \A d \in Requests \ {c} : pc'[d] = "idle"
  BY <1>1, <1>2
<1>4. ~Quiet'
  BY <1>3 DEF Quiet
<1>5. DOMAIN todo' = Requests /\ DOMAIN agg' = Requests
  BY <1>1 DEF Arrive, SumsInv, Clear
<1> QED
  BY <1>3, <1>4, <1>5 DEF Clear

\* What is known when a request arrives.
LEMMA AllQuiet ==
  ASSUME SumsInv, NEW c \in Requests, NEW h, NEW step, NEW t, NEW m, NEW rs,
         Arrive(c, h, step, t, m, rs), clean'
  PROVE  /\ AllRight(Committed, logs, typed) /\ Clear
         /\ \A d \in Requests : Pending(d) = {}
         /\ pc'[c] = step /\ op'[c] = h /\ target'[c] = t /\ mem'[c] = m /\ todo'[c] = rs
         /\ UNCHANGED <<agg, typed>>
<1>1. clean /\ \A d \in Requests : pc[d] = "idle"
  BY DEF Arrive
<1>2. Quiet /\ Clear
  BY <1>1 DEF Quiet, SumsInv
<1>3. RightBut(Committed, {})
  BY <1>2 DEF Clear
<1>4. typed \cup {} = typed
  OBVIOUS
<1>5. AllRight(Committed, logs, typed)
  BY <1>3, <1>4 DEF RightBut
<1>6. \A d \in Requests : Pending(d) = {}
  BY <1>1 DEF SumsInv, IInv, Book, Serves, InTransaction
<1> QED
  BY <1>1, <1>2, <1>5, <1>6 DEF Arrive, SumsInv, IInv, Book, Clear

\* A request goes on, or ends.
LEMMA StepClear ==
  ASSUME SumsInv, NEW c \in Requests, pc[c] # "idle", clean, NEW step,
         pc' = [pc EXCEPT ![c] = step], DOMAIN todo' = Requests, DOMAIN agg' = Requests,
         DOMAIN logs' = Tasks, \A k \in Tasks : IsRow(row'[k]), live' \cap unborn' = {},
         step # "idle" => Doing(c)',
         step = "idle" => RightBut(Committed, {})'
  PROVE  Clear'
<1>1. DOMAIN pc = Requests /\ \A d \in Requests \ {c} : pc[d] = "idle"
  BY DEF SumsInv, IInv, Book, Clear
<1>2. pc'[c] = step /\ \A d \in Requests \ {c} : pc'[d] = "idle"
  BY <1>1
<1>3. Quiet' => step = "idle"
  BY <1>2 DEF Quiet
<1> QED
  BY <1>2, <1>3 DEF Clear

LEMMA FinishClear ==
  ASSUME SumsInv, NEW c \in Requests, pc[c] # "idle", clean, Finish(c),
         DOMAIN logs' = Tasks, \A k \in Tasks : IsRow(row'[k]), live' \cap unborn' = {},
         AllRight(Committed', logs', typed')
  PROVE  Clear'
<1>1. pc' = [pc EXCEPT ![c] = "idle"]
  BY DEF Finish
<1>2. typed' \cup {} = typed'
  OBVIOUS
<1>3. RightBut(Committed, {})'
  BY <1>2 DEF RightBut
<1>4. DOMAIN todo' = Requests /\ DOMAIN agg' = Requests
  BY DEF Finish, SumsInv, Clear
<1> QED
  BY <1>1, <1>3, <1>4, StepClear

\* A request goes on to the levels rs.
LEMMA ClimbClear ==
  ASSUME SumsInv, NEW c \in Requests, pc[c] # "idle", clean,
         NEW rs \in Seq(Tasks), Climb(c, rs),
         DOMAIN logs' = Tasks, \A k \in Tasks : IsRow(row'[k]), live' \cap unborn' = {},
         \A k \in Pending(c)' : IsRow(mine'[c][k]) /\ k \notin unborn', op[c] # "create" => Pending(c)' = {},
         AllRight(Seen(c)', logs', typed' \cup Elems(rs))
  PROVE  Clear'
<1>1. CASE rs = <<>> /\ op[c] # "create"
  <2>1. Finish(c) /\ Pending(c)' = {}
    BY <1>1 DEF Climb
  <2>2. Seen(c)' = Committed'
    BY <2>1 DEF Seen, Over, Committed, Pending
  <2>3. typed' \cup Elems(rs) = typed'
    BY <1>1 DEF Elems
  <2> QED
    BY <2>1, <2>2, <2>3, FinishClear
<1>2. CASE ~(rs = <<>> /\ op[c] # "create")
  <2> DEFINE step == IF rs = <<>> THEN "committing" ELSE "aggregating"
  <2>1. pc' = [pc EXCEPT ![c] = step] /\ todo' = [todo EXCEPT ![c] = rs]
        /\ agg' = [agg EXCEPT ![c] = NoAgg]
    BY <1>2 DEF Climb, Goto
  <2>2. pc'[c] = step /\ todo'[c] = rs /\ DOMAIN todo' = Requests /\ DOMAIN agg' = Requests
    BY <2>1 DEF SumsInv, IInv, Book, Clear
  <2>3. CASE rs = <<>>
    <3>1. typed' \cup Elems(rs) = typed' \cup {}
      BY <2>3 DEF Elems
    <3>2. RightBut(Seen(c), {})'
      BY <3>1 DEF RightBut
    <3>3. Doing(c)'
      BY <2>2, <2>3, <3>2 DEF Doing
    <3> QED
      BY <2>1, <2>2, <2>3, <3>3, StepClear
  <2>4. CASE rs # <<>>
    <3>1. RightBut(Seen(c), Elems(todo[c]))'
      BY <2>2 DEF RightBut
    <3>2. Doing(c)'
      BY <2>2, <2>4, <3>1 DEF Doing
    <3> QED
      BY <2>1, <2>2, <2>4, <3>2, StepClear
  <2> QED
    BY <2>3, <2>4
<1> QED
  BY <1>1, <1>2

LEMMA CreateClear ==
  ASSUME SumsInv, NEW c \in Requests, Create(c), clean'
  PROVE  Clear'
<1>0. PICK t \in unborn, b \in NewBases, e \in Efforts, d \in Dues :
        \E p \in ParentsFor(t) :
          /\ Arrive(c, "create", IF p = NoTask THEN "committing" ELSE "aggregating", t, NoRow, From(p))
          /\ mine' = [mine EXCEPT ![c] = [k \in {t} |-> NewTask(p, b, e, d)]]
          /\ unborn' = unborn \ {t}
          /\ UNCHANGED <<live, row, logs>>
  BY DEF Create
<1>1. PICK p \in ParentsFor(t) :
        /\ Arrive(c, "create", IF p = NoTask THEN "committing" ELSE "aggregating", t, NoRow, From(p))
        /\ mine' = [mine EXCEPT ![c] = [k \in {t} |-> NewTask(p, b, e, d)]]
        /\ unborn' = unborn \ {t}
        /\ UNCHANGED <<live, row, logs>>
  BY <1>0
<1> DEFINE n    == NewTask(p, b, e, d)
           step == IF p = NoTask THEN "committing" ELSE "aggregating"
<1>2. /\ AllRight(Committed, logs, typed) /\ Clear /\ \A q \in Requests : Pending(q) = {}
      /\ pc'[c] = step /\ todo'[c] = From(p) /\ typed' = typed
  BY <1>1, AllQuiet
<1>3. /\ t \in Tasks /\ t \notin live /\ t # NoTask /\ p \in live \cup {NoTask} /\ p # t
      /\ p \in Tasks \cup {NoTask} /\ NoTask \notin live
  BY <1>2, TaskTreeAssumption DEF SumsInv, IInv, Tables, Clear, ParentsFor
<1>4. mine'[c] = [k \in {t} |-> n] /\ Pending(c)' = {t} /\ mine'[c][t] = n
  BY <1>1 DEF SumsInv, IInv, Tables, Pending
<1>5. IsRow(n) /\ n.parent = p
  BY DEF IsRow, NewTask
<1>6. Committed' = Committed
  BY <1>1 DEF Committed
<1>7. /\ DOMAIN Seen(c)' = live \cup {t} /\ Seen(c)'[t] = n
      /\ \A k \in live : Seen(c)'[k] = Committed[k]
  BY <1>3, <1>4, <1>6 DEF Seen, Over, Committed
<1> HIDE DEF n
<1>8. ChildrenIn(Seen(c)', t) = {}
  <2>1. \A k \in live : row[k].parent \in live \cup {NoTask}
    BY DEF SumsInv, IInv, Tables, ParentsExist
  <2>2. \A k \in live : Committed[k].parent # t
    BY <1>3, <2>1 DEF Committed
  <2> QED
    BY <1>3, <1>5, <1>7, <2>2 DEF ChildrenIn
<1>9. AllRight(Seen(c)', logs, typed \cup ({p} \ {NoTask}))
  <2> DEFINE rs == Committed
             ss == Seen(c)'
             vs == typed \cup ({p} \ {NoTask})
  <2>1. /\ DOMAIN ss \ {t} = DOMAIN rs \ {t} /\ \A k \in DOMAIN rs \ {t} : ss[k] = rs[k]
        /\ t \notin DOMAIN rs /\ ss[t].parent = p /\ DOMAIN ss \subseteq Tasks
    BY <1>3, <1>5, <1>7, SeenIs DEF SumsInv, IInv, Tables
  <2>2. Right(ss, t, logs[t])
    BY <1>8 DEF Right, DatesRight, EffortRight
  <2>3. AllRight(rs, logs, typed)
    BY <1>2
  <2>4. NoTask \notin Tasks
    BY TaskTreeAssumption
  <2> HIDE DEF rs, ss
  <2>5. /\ typed \cap (DOMAIN ss \ {t}) \subseteq vs
        /\ {ss[t].parent} \cap (DOMAIN ss \ {t}) \subseteq vs
    BY <2>1, <2>4
  <2> HIDE DEF vs
  <2>6. AllRight(ss, logs, vs)
    BY <2>1, <2>2, <2>3, <2>5, Elsewhere
  <2> QED
    BY <2>6 DEF ss, vs
<1>10. /\ DOMAIN logs' = Tasks /\ \A k \in Tasks : IsRow(row'[k])
       /\ live' \cap unborn' = {} /\ t \notin unborn'
  BY <1>1, <1>2 DEF Clear
<1>11. Doing(c)'
  <2>1. \A k \in Pending(c)' : IsRow(mine'[c][k]) /\ k \notin unborn'
    BY <1>4, <1>5, <1>10
  <2>2. Elems(From(p)) = {p} \ {NoTask} /\ From(p) \in Seq(Tasks)
    BY <1>3, Way
  <2>3. AllRight(Seen(c)', logs', typed' \cup Elems(From(p)))
    BY <1>1, <1>2, <1>9, <2>2
  <2>4. CASE p = NoTask
    <3>1. typed' \cup Elems(From(p)) = typed' \cup {}
      BY <2>2, <2>4
    <3>2. RightBut(Seen(c), {})'
      BY <2>3, <3>1 DEF RightBut
    <3> QED
      BY <1>2, <2>1, <2>4, <3>2 DEF Doing
  <2>5. CASE p # NoTask
    <3>1. RightBut(Seen(c), Elems(todo[c]))'
      BY <1>2, <2>3 DEF RightBut
    <3>2. From(p) # <<>>
      BY <2>5 DEF From
    <3> QED
      BY <1>2, <2>1, <2>2, <2>5, <3>1, <3>2 DEF Doing
  <2> QED
    BY <2>4, <2>5
<1> QED
  BY <1>1, <1>10, <1>11, ArriveClear

\* A handler that has read the task it is about, and written nothing.
LEMMA ReadClear ==
  ASSUME SumsInv, NEW c \in Requests, NEW h, NEW step \in {"patching", "saving", "stripping"},
         NEW t \in live, NEW m, NEW rs, Arrive(c, h, step, t, m, rs), clean',
         UNCHANGED <<tableVars, mine>>,
         step = "patching" => \E p \in Tasks \cup {NoTask} : rs = From(p),
         step = "saving" => IsRow(m) /\ rs = BothParents(row[t].parent, m.parent),
         step = "stripping" => rs = From(row[t].parent)
  PROVE  Clear'
<1>1. /\ AllRight(Committed, logs, typed) /\ Clear /\ Pending(c) = {}
      /\ pc'[c] = step /\ target'[c] = t /\ mem'[c] = m /\ todo'[c] = rs /\ typed' = typed
  BY AllQuiet
<1>2. Committed' = Committed /\ Pending(c)' = {} /\ row' = row /\ logs' = logs /\ live' = live
  BY <1>1 DEF tableVars, Committed, Pending
<1>3. RightBut(Committed, {})'
  BY <1>1, <1>2 DEF RightBut
<1>4. Doing(c)'
  BY <1>1, <1>2, <1>3 DEF Doing
<1> QED
  BY <1>1, <1>4, ArriveClear DEF Clear, tableVars

LEMMA LogClear ==
  ASSUME SumsInv, NEW c \in Requests, NEW t \in live, NEW sum, Log(c, t, sum), clean'
  PROVE  Clear'
<1>1. /\ Arrive(c, "log", "summing", t, NoRow, <<>>) /\ logs' = [logs EXCEPT ![t] = sum]
      /\ UNCHANGED <<live, unborn, row, mine>>
  BY DEF Log
<1>2. /\ AllRight(Committed, logs, typed) /\ Clear /\ Pending(c) = {}
      /\ pc'[c] = "summing" /\ target'[c] = t /\ typed' = typed
  BY <1>1, AllQuiet
<1>3. Committed' = Committed /\ Pending(c)' = {} /\ DOMAIN Committed = live
  BY <1>1, <1>2 DEF Committed, Pending
<1>4. DOMAIN logs' = Tasks /\ \A u \in Tasks \ {t} : logs'[u] = logs[u]
  BY <1>1, <1>2 DEF Clear
<1>5. AllRight(Committed, logs', typed \cup {t})
  <2>1. \A u \in live \ (typed \cup {t}) : Right(Committed, u, logs[u]) /\ logs'[u] = logs[u]
    BY <1>2, <1>3, <1>4 DEF AllRight, SumsInv, IInv, Tables
  <2> QED
    BY <1>3, <2>1 DEF AllRight
<1>6. t \notin typed => DatesRight(Committed, t)
  BY <1>2, <1>3 DEF AllRight, Right
<1>7. RightBut(Committed, {t})'
  BY <1>2, <1>3, <1>5 DEF RightBut
<1>8. t \notin typed' => DatesRight(Committed, t)'
  BY <1>2, <1>3, <1>6
<1>9. Doing(c)'
  BY <1>1, <1>2, <1>3, <1>7, <1>8 DEF Doing
<1> QED
  BY <1>1, <1>2, <1>4, <1>9, ArriveClear DEF Clear

LEMMA HandlersClear ==
  ASSUME SumsInv, NEW c \in Requests, clean',
         \/ StartStatus(c) \/ StartProgress(c) \/ StartEffort(c) \/ StartDates(c)
         \/ LoadTask(c) \/ StartDelete(c) \/ AddLog(c) \/ ChangeLog(c) \/ DeleteLog(c)
  PROVE  Clear'
<1>0. /\ From(NoTask) = <<>> /\ Named \subseteq Tasks
      /\ \A t \in live : row[t].parent \in Tasks \cup {NoTask}
  BY TaskTreeAssumption DEF From, SumsInv, IInv, Tables, ParentsExist
<1>1. CASE StartStatus(c)
  <2>1. PICK t \in live, b \in NewBases, p \in Named \cup {NoTask} :
          /\ Arrive(c, "status", "patching", t, [row[t] EXCEPT !.base = b],
                    From(IF p = NoTask THEN row[t].parent ELSE p))
          /\ UNCHANGED <<tableVars, mine>>
    BY <1>1 DEF StartStatus
  <2> DEFINE q == IF p = NoTask THEN row[t].parent ELSE p
  <2>2. q \in Tasks \cup {NoTask}
    BY <1>0
  <2> HIDE DEF q
  <2> QED
    BY <2>1, <2>2, ReadClear DEF q
<1>2. CASE StartProgress(c)
  BY <1>0, <1>2, ReadClear DEF StartProgress
<1>3. CASE StartEffort(c)
  BY <1>0, <1>3, ReadClear DEF StartEffort
<1>4. CASE StartDates(c)
  BY <1>0, <1>4, ReadClear DEF StartDates
<1>5. CASE LoadTask(c)
  <2>0. PICK t \in live, b \in NewBases : \E p \in ParentsFor(t) :
          /\ Arrive(c, "update", "saving", t, [row[t] EXCEPT !.base = b, !.parent = p],
                    BothParents(row[t].parent, p))
          /\ UNCHANGED <<tableVars, mine>>
    BY <1>5 DEF LoadTask
  <2>1. PICK p \in ParentsFor(t) :
          /\ Arrive(c, "update", "saving", t, [row[t] EXCEPT !.base = b, !.parent = p],
                    BothParents(row[t].parent, p))
          /\ UNCHANGED <<tableVars, mine>>
    BY <2>0
  <2> DEFINE m == [row[t] EXCEPT !.base = b, !.parent = p]
  <2>2. IsRow(row[t])
    BY <2>1, AllQuiet DEF Clear, SumsInv, IInv, Tables
  <2>3. IsRow(m) /\ m.parent = p
    <3> DEFINE r == row[t]
    <3>1. IsRow(r) /\ m = [r EXCEPT !.base = b, !.parent = p]
      BY <2>2
    <3> HIDE DEF m, r
    <3>2. m = [parent |-> p, base |-> b, effort |-> r.effort, due |-> r.due]
      BY <3>1 DEF IsRow
    <3> QED
      BY <3>2 DEF IsRow
  <2> QED
    BY <2>1, <2>3, ReadClear
<1>6. CASE StartDelete(c)
  BY <1>6, ReadClear DEF StartDelete
<1>7. CASE \E t \in live : \E sum : Log(c, t, sum)
  BY <1>7, LogClear
<1> QED
  BY <1>1, <1>2, <1>3, <1>4, <1>5, <1>6, <1>7 DEF AddLog, ChangeLog, DeleteLog

\* Only create has rows of its own, and the others see what is committed.
LEMMA OnlyCreate ==
  ASSUME SumsInv, NEW c \in Requests
  PROVE  /\ op[c] # "create" => Pending(c) = {} /\ Seen(c) = Committed
         /\ pc[c] \notin InTransaction => op[c] # "create"
         /\ \A t \in live : row[t].parent \in Tasks \cup {NoTask}
         /\ NoTask \notin Tasks /\ live \subseteq Tasks /\ DOMAIN row = Tasks
         /\ DOMAIN mine = Requests
BY SeenIs, TaskTreeAssumption DEF SumsInv, IInv, Book, Serves, Tables, ParentsExist

\* A request that is no create has written the row t, and rolls its parents up.
LEMMA WriteClear ==
  ASSUME SumsInv, clean, NEW c \in Requests, pc[c] # "idle", op[c] # "create",
         NEW t \in Tasks, NEW us, NEW way \in Seq(Tasks),
         AllRight(Committed, logs, us), UNCHANGED <<unborn, logs, mine>>, Climb(c, way),
         \A k \in Tasks \ {t} : row'[k] = row[k], IsRow(row'[t]), t \notin unborn,
         live' \ {t} = live \ {t}, live' \subseteq Tasks,
         t \in live' \ (typed' \cup Elems(way)) => Right(Committed', t, logs[t]),
         us \ {t} \subseteq typed' \cup Elems(way),
         t \in live => {row[t].parent} \ {NoTask, t} \subseteq typed' \cup Elems(way),
         t \in live' => {row'[t].parent} \ {NoTask, t} \subseteq typed' \cup Elems(way)
  PROVE  Clear'
<1> DEFINE rs == Committed
           ss == Committed'
           vs == typed' \cup Elems(way)
<1>1. /\ NoTask \notin Tasks /\ Pending(c)' = {} /\ live \subseteq Tasks
      /\ DOMAIN rs = live /\ \A k \in live : rs[k] = row[k]
      /\ DOMAIN ss = live' /\ \A k \in live' : ss[k] = row'[k]
  BY OnlyCreate DEF Committed, Pending
<1>2. /\ us \cap (DOMAIN ss \ {t}) \subseteq vs
      /\ t \in DOMAIN rs => {rs[t].parent} \cap (DOMAIN ss \ {t}) \subseteq vs
      /\ t \in DOMAIN ss => {ss[t].parent} \cap (DOMAIN ss \ {t}) \subseteq vs
  BY <1>1
<1>3. /\ DOMAIN ss \ {t} = DOMAIN rs \ {t}
      /\ \A k \in DOMAIN rs \ {t} : ss[k] = rs[k]
      /\ t \in DOMAIN ss \ vs => Right(ss, t, logs[t])
  BY <1>1
<1>4. AllRight(rs, logs, us)
  OBVIOUS
<1>5. AllRight(ss, logs, vs)
  <2>1. DOMAIN ss \ {t} = DOMAIN rs \ {t} /\ \A k \in DOMAIN rs \ {t} : ss[k] = rs[k]
    BY <1>3
  <2> HIDE DEF vs
  <2> QED
    BY <1>2, <1>3, <1>4, <2>1, Elsewhere
<1>6. Seen(c)' = Committed'
  BY <1>1 DEF Seen, Over, Committed, Pending
<1>7. /\ DOMAIN logs' = Tasks /\ \A k \in Tasks : IsRow(row'[k])
      /\ live' \cap unborn' = {}
  BY DEF SumsInv, Clear
<1> QED
  BY <1>1, <1>5, <1>6, <1>7, ClimbClear DEF ss, vs

LEMMA AggregateClear ==
  ASSUME SumsInv, clean, NEW c \in Requests, Aggregate(c)
  PROVE  Clear'
<1> DEFINE t == Head(todo[c])
<1>1. /\ pc[c] = "aggregating" /\ Clear /\ Doing(c) /\ UNCHANGED <<tableVars, mine, typed>>
  BY DEF Aggregate, SumsInv, Clear
<1>2. /\ todo[c] \in Seq(Tasks) /\ todo[c] # <<>>
      /\ AllRight(Seen(c), logs, typed \cup Elems(todo[c]))
      /\ \A k \in Pending(c) : IsRow(mine[c][k]) /\ k \notin unborn
  BY <1>1 DEF Doing, RightBut
<1>3. /\ Seen(c)' = Seen(c) /\ Pending(c)' = Pending(c) /\ mine' = mine /\ logs' = logs
      /\ live' = live /\ row' = row /\ unborn' = unborn
  BY <1>1 DEF Seen, Pending, Committed, tableVars
<1>4. /\ DOMAIN logs' = Tasks /\ live' \cap unborn' = {}
      /\ \A k \in Tasks : IsRow(row'[k])
      /\ \A k \in Pending(c)' : IsRow(mine'[c][k]) /\ k \notin unborn'
  BY <1>1, <1>2, <1>3 DEF Clear
<1>5. CASE t \in DOMAIN Seen(c)
  <2>1. /\ agg' = [agg EXCEPT ![c] = Aggregates(Seen(c), t, logs[t])]
        /\ pc' = [pc EXCEPT ![c] = "applying"] /\ todo' = todo
    BY <1>5 DEF Aggregate, Goto
  <2>2. /\ agg'[c] = Aggregates(Seen(c), t, logs[t]) /\ pc'[c] = "applying"
        /\ DOMAIN agg' = Requests /\ DOMAIN todo' = Requests
    BY <1>1, <2>1 DEF Clear, SumsInv, IInv, Book
  <2>3. RightBut(Seen(c), Elems(todo[c]))'
    BY <1>1, <1>2, <1>3, <2>1 DEF RightBut
  <2>4. Doing(c)'
    BY <1>2, <1>3, <1>4, <1>5, <2>1, <2>2, <2>3 DEF Doing
  <2> QED
    BY <1>1, <1>4, <2>1, <2>2, <2>4, StepClear
<1>6. CASE t \notin DOMAIN Seen(c)
  <2>1. Climb(c, Tail(todo[c])) /\ Tail(todo[c]) \in Seq(Tasks)
    BY <1>2, <1>6, WayOn DEF Aggregate
  <2>2. AllRight(Seen(c), logs, typed \cup Elems(Tail(todo[c])))
    BY <1>2, <1>6, WayOn DEF AllRight
  <2>3. op[c] # "create" => Pending(c)' = {}
    BY <1>3, OnlyCreate
  <2> QED
    BY <1>1, <1>3, <1>4, <2>1, <2>2, <2>3, ClimbClear
<1> QED
  BY <1>5, <1>6

LEMMA ApplyClear ==
  ASSUME SumsInv, clean, NEW c \in Requests, Apply(c)
  PROVE  Clear'
<1> DEFINE t   == Head(todo[c])
           old == Seen(c)[t]
           a   == agg[c]
           new == RolledUp(old, a)
           way == NextLevel(new) \o Tail(todo[c])
<1>1. /\ pc[c] = "applying" /\ Clear /\ Doing(c) /\ UNCHANGED <<live, unborn, logs>>
      /\ typed' = typed \ {t}
  BY DEF Apply, SumsInv, Clear
<1>2. /\ todo[c] \in Seq(Tasks) /\ todo[c] # <<>> /\ t \in DOMAIN Seen(c)
      /\ a = Aggregates(Seen(c), t, logs[t])
      /\ AllRight(Seen(c), logs, typed \cup Elems(todo[c]))
      /\ \A k \in Pending(c) : IsRow(mine[c][k]) /\ k \notin unborn
  BY <1>1 DEF Doing, RightBut
<1>3. /\ t \in Tasks /\ Tail(todo[c]) \in Seq(Tasks)
      /\ Elems(todo[c]) = {t} \cup Elems(Tail(todo[c]))
  BY <1>2, WayOn
<1>4. IsRow(old) /\ old.parent \in Tasks \cup {NoTask}
  <2>1. CASE t \in Pending(c)
    BY ZenonT(60), <1>2, <2>1, SeenIs DEF SumsInv, IInv, Tables
  <2>2. CASE t \notin Pending(c)
    BY ZenonT(60), <1>1, <1>2, <1>3, <2>2, SeenIs, OnlyCreate DEF Clear
  <2> QED
    BY <2>1, <2>2
<1>5. /\ IsRow(new) /\ new.parent = old.parent /\ new.effort = a.effort /\ Dated(new, a)
      /\ old = new <=> old.effort = a.effort /\ Dated(old, a)
  BY <1>4, RolledUpIs
<1>6. CASE Climb(c, Tail(todo[c])) /\ UNCHANGED <<row, mine>> /\ new = old
  <2>1. Seen(c)' = Seen(c) /\ Pending(c)' = Pending(c)
    BY <1>1, <1>6 DEF Seen, Committed, Pending
  <2>2. Right(Seen(c), t, logs[t])
    BY <1>2, <1>5, <1>6, AggregatesAre DEF Right, DatesRight, EffortRight
  <2>3. AllRight(Seen(c), logs, typed' \cup Elems(Tail(todo[c])))
    BY <1>1, <1>2, <1>3, <2>2 DEF AllRight
  <2>4. op[c] # "create" => Pending(c)' = {}
    BY <2>1, OnlyCreate
  <2> QED
    BY <1>1, <1>2, <1>3, <1>6, <2>1, <2>3, <2>4, ClimbClear DEF Clear
<1>7. CASE /\ Climb(c, way)
           /\ IF op[c] = "create"
                THEN mine' = [mine EXCEPT ![c] = Over([k \in {t} |-> new], @)] /\ UNCHANGED row
                ELSE row' = [row EXCEPT ![t] = new] /\ UNCHANGED mine
  <2> DEFINE rs == Seen(c)
             ss == Seen(c)'
             us == typed \cup Elems(todo[c])
             vs == typed' \cup Elems(way)
  <2>1. way \in Seq(Tasks) /\ Elems(way) = ({old.parent} \ {NoTask}) \cup Elems(Tail(todo[c]))
    <3>1. NextLevel(new) = From(old.parent)
      BY <1>5 DEF NextLevel
    <3>2. From(old.parent) \in Seq(Tasks) /\ Elems(From(old.parent)) = {old.parent} \ {NoTask}
      BY <1>4, Way
    <3> HIDE DEF old, new
    <3> QED
      BY <1>3, <3>1, <3>2, WayBefore
  <2> HIDE DEF new, way
  <2>2. /\ DOMAIN ss = DOMAIN rs /\ ss[t] = new /\ \A k \in DOMAIN rs \ {t} : ss[k] = rs[k]
        /\ \A k \in Pending(c)' : IsRow(mine'[c][k]) /\ k \notin unborn'
        /\ op[c] # "create" => Pending(c)' = {}
        /\ \A k \in Tasks : IsRow(row'[k])
    <3>1. CASE op[c] = "create"
      <4>1. /\ mine'[c] = Over([k \in {t} |-> new], mine[c]) /\ row' = row
            /\ Committed' = Committed
        BY <1>1, <1>7, <3>1, OnlyCreate DEF Committed
      <4>2. /\ Pending(c)' = {t} \cup Pending(c) /\ mine'[c][t] = new
            /\ \A k \in Pending(c) \ {t} : mine'[c][k] = mine[c][k]
        BY <4>1 DEF Over, Pending
      <4>3. /\ DOMAIN ss = live \cup {t} \cup Pending(c) /\ ss[t] = new
            /\ \A k \in (live \cup Pending(c)) \ {t} : ss[k] = rs[k]
        BY <4>1, <4>2 DEF Seen, Over, Pending, Committed
      <4>4. t \notin unborn
        BY <1>1, <1>2, SeenIs DEF Clear
      <4>5. DOMAIN ss = DOMAIN rs /\ \A k \in DOMAIN rs \ {t} : ss[k] = rs[k]
        BY <1>2, <4>3, SeenIs
      <4>6. \A k \in Pending(c)' : IsRow(mine'[c][k]) /\ k \notin unborn'
        BY <1>1, <1>2, <1>5, <4>2, <4>4 DEF new
      <4> QED
        BY <1>1, <3>1, <4>1, <4>3, <4>5, <4>6 DEF Clear
    <3>2. CASE op[c] # "create"
      <4>1. row' = [row EXCEPT ![t] = new] /\ mine' = mine /\ Pending(c) = {} /\ Pending(c)' = {}
        BY <1>7, <3>2, OnlyCreate DEF Pending
      <4>2. t \in live /\ rs = Committed /\ ss = Committed'
        BY <1>2, <4>1, SeenIs, OnlyCreate, <3>2 DEF Seen, Over, Pending, Committed
      <4>3. DOMAIN row = Tasks /\ row'[t] = new /\ \A k \in Tasks \ {t} : row'[k] = row[k]
        BY <1>3, <4>1, OnlyCreate
      <4>4. /\ DOMAIN ss = live /\ \A k \in live : ss[k] = row'[k]
            /\ DOMAIN rs = live /\ \A k \in live : rs[k] = row[k]
        BY <1>1, <4>2 DEF Committed
      <4>5. \A k \in Tasks : IsRow(row'[k])
        BY <1>1, <1>5, <4>3 DEF Clear, new
      <4> QED
        BY <4>1, <4>2, <4>3, <4>4, <4>5, OnlyCreate
    <3> QED
      BY <3>1, <3>2
  <2>3. ASSUME t \notin vs PROVE Right(ss, t, logs[t])
    <3>1. new.parent # t /\ rs[t].parent # t
      BY <1>3, <1>4, <1>5, <2>1, <2>3, OnlyCreate DEF new
    <3>2. ChildrenIn(ss, t) = ChildrenIn(rs, t) /\ \A k \in ChildrenIn(rs, t) : ss[k] = rs[k]
      BY <2>2, <3>1 DEF ChildrenIn
    <3>3. /\ SumOf(ss, ChildrenIn(ss, t)) = SumOf(rs, ChildrenIn(rs, t))
          /\ \A own : Aggregates(ss, t, own) = Aggregates(rs, t, own)
      BY <3>2, SameAggregates
    <3>4. ss[t] = new /\ new.effort = a.effort /\ Dated(new, a)
      BY <1>5, <2>2 DEF new
    <3> QED
      BY <1>2, <3>3, <3>4, AggregatesAre DEF Right, DatesRight, EffortRight
  <2>4. /\ us \cap (DOMAIN ss \ {t}) \subseteq vs
        /\ {rs[t].parent} \cap (DOMAIN ss \ {t}) \subseteq vs
        /\ {ss[t].parent} \cap (DOMAIN ss \ {t}) \subseteq vs
    <3>1. NoTask \notin DOMAIN ss
      BY ZenonT(60), <1>2, <2>2, SeenIs, OnlyCreate DEF SumsInv, IInv, Tables
    <3>2. new.parent = rs[t].parent
      BY <1>5 DEF new
    <3> QED
      BY <1>1, <1>3, <2>1, <2>2, <3>1, <3>2
  <2>5. AllRight(rs, logs, us)
    BY <1>2
  <2> HIDE DEF rs, ss, us, vs
  <2>6. AllRight(ss, logs, vs)
    BY <2>2, <2>3, <2>4, <2>5, Elsewhere
  <2> QED
    BY <1>1, <1>7, <2>1, <2>2, <2>6, ClimbClear DEF ss, vs, Clear
<1> QED
  BY <1>2, <1>6, <1>7 DEF Apply

LEMMA CommitClear ==
  ASSUME SumsInv, clean, NEW c \in Requests, Commit(c)
  PROVE  Clear'
<1>1. /\ pc[c] = "committing" /\ Clear /\ Doing(c) /\ UNCHANGED <<unborn, logs, typed>>
      /\ live' = live \cup Pending(c) /\ row' = Over(mine[c], row) /\ Finish(c)
  BY DEF Commit, SumsInv, Clear
<1>2. /\ DOMAIN row = Tasks /\ Pending(c) \subseteq Tasks /\ live \subseteq Tasks
  BY DEF SumsInv, IInv, Tables
<1>3. /\ \A k \in Pending(c) : row'[k] = mine[c][k]
      /\ \A k \in Tasks \ Pending(c) : row'[k] = row[k]
  BY <1>1, <1>2 DEF Over, Pending
<1>4. /\ DOMAIN logs' = Tasks /\ live' \cap unborn' = {}
      /\ \A k \in Tasks : IsRow(row'[k])
  BY <1>1, <1>3 DEF Clear, Doing
<1>5. Committed' = Seen(c)
  BY <1>1, <1>2, <1>3 DEF Committed, Seen, Over, Pending
<1>6. AllRight(Seen(c), logs, typed)
  <2>1. typed \cup {} = typed
    OBVIOUS
  <2> QED
    BY <1>1, <2>1 DEF Doing, RightBut
<1> QED
  BY <1>1, <1>4, <1>5, <1>6, FinishClear

LEMMA WritePatchClear ==
  ASSUME SumsInv, clean, NEW c \in Requests, WritePatch(c)
  PROVE  Clear'
<1> DEFINE t   == target[c]
           k   == PatchedColumn[op[c]]
           new == [row[t] EXCEPT ![k] = mem[c][k]]
           p   == row[t].parent
<1>1. /\ pc[c] = "patching" /\ Clear /\ Doing(c) /\ UNCHANGED <<live, unborn, logs, mine>>
      /\ op[c] \in Patches /\ op[c] # "create"
  BY DEF WritePatch, SumsInv, Clear, IInv, Book, Serves, Patches
<1>2. /\ t \in live /\ t \in Tasks /\ p \in Tasks \cup {NoTask} /\ NoTask \notin Tasks
      /\ live \subseteq Tasks /\ DOMAIN row = Tasks
      /\ \E q \in Tasks \cup {NoTask} : todo[c] = From(q)
      /\ IsRow(row[t]) /\ RightBut(Committed, {})
  BY <1>1, OnlyCreate DEF Doing, Clear
<1>3. AllRight(Committed, logs, typed)
  <2>1. typed \cup {} = typed
    OBVIOUS
  <2> QED
    BY <1>2, <2>1 DEF RightBut
<1>4. /\ row' = [row EXCEPT ![t] = new] /\ typed' = typed \cup Stale(t, todo[c])
      /\ Climb(c, todo[c])
  BY <1>2 DEF WritePatch
<1>5. k # "parent"
  BY <1>1 DEF PatchedColumn, Patches
<1>6. IsRow(new) /\ new.parent = p
  <2>1. DOMAIN row[t] = {"parent", "base", "effort", "due"}
    BY <1>2 DEF IsRow
  <2> QED
    BY <1>5, <2>1 DEF IsRow
<1> HIDE DEF new, k
<1>7. row'[t] = new /\ \A u \in Tasks \ {t} : row'[u] = row[u]
  BY <1>2, <1>4
<1>8. todo[c] \in Seq(Tasks) /\ {p} \ {NoTask} \subseteq typed' \cup Elems(todo[c])
  <2>1. PICK q \in Tasks \cup {NoTask} : todo[c] = From(q)
    BY <1>2
  <2>2. todo[c] \in Seq(Tasks)
    BY <2>1, Way
  <2>3. CASE todo[c] = From(p)
    BY <1>2, <2>2, <2>3, Way
  <2>4. CASE todo[c] # From(p)
    <3>1. {p} \cap Tasks \subseteq typed'
      BY <1>4, <2>4 DEF Stale
    <3> QED
      BY <1>2, <2>2, <3>1
  <2> QED
    BY <2>3, <2>4
<1>9. ASSUME t \notin typed' PROVE Right(Committed', t, logs[t])
  <2>1. ~Referenced(t)
    BY <1>4, <1>9 DEF Stale
  <2>2. ChildrenIn(Committed', t) = {}
    BY <1>1, <1>2, <1>6, <1>7, <2>1 DEF Referenced, ChildrenIn, Committed
  <2> QED
    BY <2>2 DEF Right, DatesRight, EffortRight
<1>10. t \notin unborn /\ typed \subseteq typed'
  BY <1>1, <1>2, <1>4 DEF Clear
<1> HIDE DEF t, p
<1> QED
  BY <1>1, <1>2, <1>3, <1>4, <1>6, <1>7, <1>8, <1>9, <1>10, WriteClear DEF p

LEMMA SaveTaskClear ==
  ASSUME SumsInv, clean, NEW c \in Requests, SaveTask(c)
  PROVE  Clear'
<1> DEFINE t   == target[c]
           new == mem[c]
           p   == row[t].parent
<1>1. /\ pc[c] = "saving" /\ Clear /\ Doing(c) /\ UNCHANGED <<unborn, logs, mine>>
      /\ op[c] # "create"
  BY OnlyCreate DEF SaveTask, SumsInv, Clear, InTransaction
<1>2. /\ t \in live /\ t \in Tasks /\ p \in Tasks \cup {NoTask} /\ NoTask \notin Tasks
      /\ live \subseteq Tasks /\ DOMAIN row = Tasks
      /\ todo[c] = BothParents(p, new.parent) /\ IsRow(new) /\ RightBut(Committed, {})
  BY <1>1, OnlyCreate DEF Doing
<1>3. AllRight(Committed, logs, typed)
  <2>1. typed \cup {} = typed
    OBVIOUS
  <2> QED
    BY <1>2, <2>1 DEF RightBut
<1>4. CASE Finish(c) /\ UNCHANGED <<live, row, typed>>
  <2>1. Committed' = Committed
    BY <1>4 DEF Committed
  <2> QED
    BY <1>1, <1>3, <1>4, <2>1, FinishClear DEF Clear
<1>5. CASE /\ new.parent \in live \cup {NoTask} /\ live' = live \cup {t}
           /\ row' = [row EXCEPT ![t] = new]
           /\ typed' = typed \cup (IF Referenced(t) THEN {t} ELSE {}) /\ Climb(c, todo[c])
  <2>1. row'[t] = new /\ (\A u \in Tasks \ {t} : row'[u] = row[u]) /\ live' = live
    BY <1>2, <1>5
  <2>2. todo[c] \in Seq(Tasks) /\ Elems(todo[c]) = {p, new.parent} \ {NoTask}
    <3>1. new.parent \in Tasks \cup {NoTask}
      BY <1>2, <1>5
    <3>2. /\ BothParents(p, new.parent) \in Seq(Tasks)
          /\ Elems(BothParents(p, new.parent)) = {p, new.parent} \ {NoTask}
      BY <1>2, <3>1, WayOfBoth
    <3> QED
      BY <1>2, <3>2
  <2>3. ASSUME t \notin typed' \cup Elems(todo[c]) PROVE Right(Committed', t, logs[t])
    <3>1. ~Referenced(t) /\ new.parent # t
      BY <1>2, <1>5, <2>2, <2>3
    <3>2. ChildrenIn(Committed', t) = {}
      BY <1>2, <2>1, <3>1 DEF Referenced, ChildrenIn, Committed
    <3> QED
      BY <3>2 DEF Right, DatesRight, EffortRight
  <2>4. t \notin unborn /\ typed \subseteq typed'
    BY <1>1, <1>2, <1>5 DEF Clear
  <2> HIDE DEF t, p, new
  <2> QED
    BY <1>1, <1>2, <1>3, <1>5, <2>1, <2>2, <2>3, <2>4, WriteClear DEF p
<1> QED
  BY <1>4, <1>5 DEF SaveTask

LEMMA RemoveTaskClear ==
  ASSUME SumsInv, clean, NEW c \in Requests, RemoveTask(c)
  PROVE  Clear'
<1> DEFINE t == target[c]
           p == row[t].parent
<1>1. /\ pc[c] = "removing" /\ Clear /\ Doing(c) /\ UNCHANGED <<unborn, logs, mine, typed>>
      /\ op[c] # "create"
  BY OnlyCreate DEF RemoveTask, SumsInv, Clear, InTransaction
<1>2. /\ t \in live /\ t \in Tasks /\ p \in Tasks \cup {NoTask} /\ NoTask \notin Tasks
      /\ live \subseteq Tasks /\ DOMAIN row = Tasks
      /\ todo[c] = From(p) /\ RightBut(Committed, {})
  BY <1>1, OnlyCreate DEF Doing
<1>3. AllRight(Committed, logs, typed)
  <2>1. typed \cup {} = typed
    OBVIOUS
  <2> QED
    BY <1>2, <2>1 DEF RightBut
<1>4. CASE Finish(c) /\ UNCHANGED <<live, row>>
  <2>1. Committed' = Committed
    BY <1>4 DEF Committed
  <2> QED
    BY <1>1, <1>3, <1>4, <2>1, FinishClear DEF Clear
<1>5. CASE live' = live \ {t} /\ row' = [row EXCEPT ![t] = NoRow] /\ Climb(c, todo[c])
  <2>1. row'[t] = NoRow /\ \A u \in Tasks \ {t} : row'[u] = row[u]
    BY <1>2, <1>5
  <2>2. todo[c] \in Seq(Tasks) /\ Elems(todo[c]) = {p} \ {NoTask}
    BY <1>2, Way
  <2>3. IsRow(NoRow) /\ t \notin unborn /\ t \notin live'
    BY <1>1, <1>2, <1>5 DEF IsRow, NoRow, Clear
  <2> HIDE DEF t, p
  <2> QED
    BY <1>1, <1>2, <1>3, <1>5, <2>1, <2>2, <2>3, WriteClear DEF p
<1> QED
  BY <1>4, <1>5 DEF RemoveTask

LEMMA StripClear ==
  ASSUME SumsInv, clean, NEW c \in Requests, Strip(c)
  PROVE  Clear'
<1>1. /\ pc[c] = "stripping" /\ Clear /\ Doing(c)
      /\ UNCHANGED <<live, unborn, row, logs, mine, todo, agg, typed, target>>
      /\ pc' = [pc EXCEPT ![c] = "removing"]
  BY DEF Strip, Goto, SumsInv, Clear
<1>2. pc'[c] = "removing" /\ Committed' = Committed /\ Pending(c)' = Pending(c)
  BY <1>1 DEF SumsInv, IInv, Book, Committed, Pending
<1>3. RightBut(Committed, {})'
  BY <1>1, <1>2 DEF Doing, RightBut
<1>4. Doing(c)'
  BY <1>1, <1>2, <1>3 DEF Doing
<1> QED
  BY <1>1, <1>4, StepClear DEF Clear

\* The statements that read the logs and the efforts.
LEMMA SumsClear ==
  ASSUME SumsInv, clean, NEW c \in Requests, SumLogs(c) \/ SumChildren(c)
  PROVE  Clear'
<1> DEFINE t == target[c]
<1>1. /\ pc[c] \in {"summing", "adding"} /\ Clear /\ Doing(c)
      /\ UNCHANGED <<live, unborn, row, logs, mine, typed>>
  BY DEF SumLogs, SumChildren, tableVars, SumsInv, Clear
<1>2. /\ t \in live /\ RightBut(Committed, {t}) /\ (t \notin typed => DatesRight(Committed, t))
      /\ \A k \in Pending(c) : IsRow(mine[c][k]) /\ k \notin unborn
  BY <1>1 DEF Doing
<1>3. Committed' = Committed /\ Pending(c)' = Pending(c)
  BY <1>1 DEF Committed, Pending
<1>4. CASE SumLogs(c)
  <2>1. /\ pc[c] = "summing" /\ pc' = [pc EXCEPT ![c] = "adding"] /\ target' = target
        /\ agg' = [agg EXCEPT ![c] = [NoAgg EXCEPT !.effort = logs[t]]]
        /\ todo' = [todo EXCEPT ![c] = From(row[t].parent)]
    BY <1>2, <1>4 DEF SumLogs, Goto
  <2>2. /\ pc'[c] = "adding" /\ agg'[c] = [NoAgg EXCEPT !.effort = logs[t]]
        /\ todo'[c] = From(row[t].parent) /\ DOMAIN todo' = Requests /\ DOMAIN agg' = Requests
    BY <1>1, <2>1 DEF Clear, SumsInv, IInv, Book
  <2>3. Doing(c)'
    BY <1>1, <1>2, <1>3, <2>1, <2>2 DEF Doing, RightBut
  <2> QED
    BY <1>1, <2>1, <2>2, <2>3, StepClear DEF Clear
<1>5. CASE SumChildren(c)
  <2>1. /\ pc[c] = "adding" /\ pc' = [pc EXCEPT ![c] = "writing"] /\ target' = target
        /\ agg' = [agg EXCEPT ![c].effort = OfChildren(t) + @] /\ todo' = todo
    BY <1>5 DEF SumChildren, Goto
  <2>2. agg[c] = [NoAgg EXCEPT !.effort = logs[t]] /\ todo[c] = From(row[t].parent)
    BY <1>1, <2>1 DEF Doing
  <2>3. /\ pc'[c] = "writing" /\ agg'[c].effort = OfChildren(t) + logs[t]
        /\ DOMAIN todo' = Requests /\ DOMAIN agg' = Requests
    BY <1>1, <2>1, <2>2 DEF Clear, SumsInv, IInv, Book, NoAgg
  <2>4. OfChildren(target[c])' = OfChildren(t)
    BY <1>1, <1>3, <2>1 DEF OfChildren
  <2>5. Doing(c)'
    BY <1>1, <1>2, <1>3, <2>1, <2>2, <2>3, <2>4 DEF Doing, RightBut
  <2> QED
    BY <1>1, <2>1, <2>3, <2>5, StepClear DEF Clear
<1> QED
  BY <1>4, <1>5

LEMMA WriteActualClear ==
  ASSUME SumsInv, clean, NEW c \in Requests, WriteActual(c)
  PROVE  Clear'
<1> DEFINE t   == target[c]
           new == [row[t] EXCEPT !.effort = agg[c].effort]
           p   == row[t].parent
<1>1. /\ pc[c] = "writing" /\ Clear /\ Doing(c) /\ UNCHANGED <<live, unborn, logs, mine, typed>>
      /\ op[c] # "create"
  BY OnlyCreate DEF WriteActual, SumsInv, Clear, InTransaction
<1>2. /\ t \in live /\ t \in Tasks /\ p \in Tasks \cup {NoTask} /\ NoTask \notin Tasks
      /\ live \subseteq Tasks /\ DOMAIN row = Tasks
      /\ todo[c] = From(p) /\ AllRight(Committed, logs, typed \cup {t})
      /\ agg[c].effort = OfChildren(t) + logs[t]
      /\ t \notin typed => DatesRight(Committed, t)
      /\ IsRow(row[t])
  BY <1>1, OnlyCreate DEF Doing, Clear, RightBut
<1>3. row' = [row EXCEPT ![t] = new] /\ Climb(c, todo[c])
  BY <1>2 DEF WriteActual
<1>4. /\ IsRow(new) /\ new.parent = p /\ new.effort = OfChildren(t) + logs[t]
      /\ new.due = row[t].due /\ new.base = row[t].base
  BY <1>2 DEF IsRow
<1> HIDE DEF new
<1>5. row'[t] = new /\ \A u \in Tasks \ {t} : row'[u] = row[u]
  BY <1>2, <1>3
<1>6. todo[c] \in Seq(Tasks) /\ Elems(todo[c]) = {p} \ {NoTask}
  BY <1>2, Way
<1>7. ASSUME t \notin typed \cup Elems(todo[c]) PROVE Right(Committed', t, logs[t])
  <2> DEFINE rs == Committed
             ss == Committed'
  <2>1. p # t
    BY <1>2, <1>6, <1>7
  <2>2. /\ DOMAIN ss = live /\ DOMAIN rs = live /\ ss[t] = new /\ rs[t] = row[t]
        /\ \A k \in live \ {t} : ss[k] = rs[k]
    BY <1>1, <1>2, <1>5 DEF Committed
  <2> HIDE DEF rs, ss
  <2>3. ChildrenIn(ss, t) = ChildrenIn(rs, t) /\ \A k \in ChildrenIn(rs, t) : ss[k] = rs[k]
    BY <1>4, <2>1, <2>2 DEF ChildrenIn
  <2>4. /\ SumOf(ss, ChildrenIn(ss, t)) = SumOf(rs, ChildrenIn(rs, t))
        /\ \A own : Aggregates(ss, t, own) = Aggregates(rs, t, own)
    BY <2>3, SameAggregates
  <2>5. EffortRight(ss, t, logs[t])
    BY <1>4, <2>2, <2>4 DEF EffortRight, OfChildren, rs
  <2>6. DatesRight(ss, t)
    BY <1>2, <1>4, <1>7, <2>2, <2>3, <2>4 DEF DatesRight, Dated, rs
  <2> QED
    BY <2>5, <2>6 DEF Right, ss
<1>8. t \notin unborn
  BY <1>1, <1>2 DEF Clear
<1> HIDE DEF t, p
<1> QED
  BY <1>1, <1>2, <1>3, <1>4, <1>5, <1>6, <1>7, <1>8, WriteClear DEF p

LEMMA InitSums == Init => SumsInv
<1> SUFFICES ASSUME Init PROVE SumsInv
  OBVIOUS
<1>1. IInv
  BY InitOK
<1>2. /\ live = DOMAIN Tree /\ DOMAIN Tree \subseteq Tasks /\ unborn = Tasks \ live
      /\ typed = {} /\ logs = [t \in Tasks |-> 0] /\ DOMAIN todo = Requests /\ DOMAIN agg = Requests
      /\ \A c \in Requests : pc[c] = "idle"
      /\ row = [t \in Tasks |-> IF t \in live THEN Tree[t] ELSE NoRow]
  BY TreeAssumption DEF Init
<1>3. \A t \in DOMAIN Tree : IsRow(Tree[t])
  BY TreeAssumption DEF Row, IsRow
<1>4. IsRow(NoRow)
  BY DEF IsRow, NoRow
<1>5. \A t \in Tasks : IsRow(row[t])
  BY <1>2, <1>3, <1>4
<1>6. DOMAIN Committed = DOMAIN Tree /\ \A t \in DOMAIN Tree : Committed[t] = Tree[t]
  BY <1>2 DEF Committed
<1>7. ASSUME NEW t \in DOMAIN Tree PROVE Right(Committed, t, 0)
  <2>1. Right(Tree, t, 0)
    BY <1>3, RightIs, TreeAssumption
  <2>2. ChildrenIn(Committed, t) = ChildrenIn(Tree, t)
        /\ \A k \in ChildrenIn(Tree, t) : Committed[k] = Tree[k]
    BY <1>6 DEF ChildrenIn
  <2> QED
    BY <1>6, <2>1, <2>2, SameAggregates DEF Right, DatesRight, EffortRight
<1>8. RightBut(Committed, {})
  BY <1>2, <1>6, <1>7 DEF RightBut, AllRight
<1>9. Clear
  BY <1>2, <1>5, <1>8 DEF Clear
<1> QED
  BY <1>1, <1>9 DEF SumsInv

LEMMA StepSums == SumsInv /\ [Next]_vars => SumsInv'
<1> SUFFICES ASSUME SumsInv, [Next]_vars PROVE SumsInv'
  OBVIOUS
<1>1. IInv'
  BY StepOK DEF SumsInv
<1>2. SUFFICES ASSUME clean' PROVE Clear'
  BY <1>1 DEF SumsInv
<1>3. CASE UNCHANGED vars
  <2>1. /\ UNCHANGED <<Committed, logs, typed, live, unborn, row, mine, pc, target, mem, todo, agg>>
        /\ clean /\ Clear
    BY <1>2, <1>3 DEF vars, tableVars, requestVars, Committed, SumsInv
  <2>2. UNCHANGED Quiet
    BY <2>1 DEF Quiet
  <2>3. \A c \in Requests : UNCHANGED <<Seen(c), Pending(c)>>
    BY <2>1 DEF Seen, Pending
  <2>4. \A c \in Requests : Doing(c) => Doing(c)'
    BY <2>1, <2>3 DEF Doing, RightBut, OfChildren
  <2>5. RightBut(Committed, {}) => RightBut(Committed, {})'
    BY <2>1 DEF RightBut
  <2> QED
    BY <2>1, <2>2, <2>4, <2>5 DEF Clear
<1>4. ASSUME NEW c \in Requests, Step(c) PROVE Clear'
  <2>1. clean' = clean
    BY <1>4 DEF Step, Aggregate, Apply, Commit, WritePatch, SaveTask, Strip, RemoveTask, SumLogs,
                SumChildren, WriteActual, Climb, Goto
  <2>2. clean
    BY <1>2, <2>1
  <2> QED
    BY <1>4, <2>2, AggregateClear, ApplyClear, CommitClear, WritePatchClear, SaveTaskClear, StripClear,
       RemoveTaskClear, SumsClear, WriteActualClear DEF Step
<1>5. ASSUME NEW c \in Requests, Fail(c) PROVE FALSE
  BY <1>2, <1>5 DEF Fail
<1> QED
  BY <1>2, <1>3, <1>4, <1>5, CreateClear, HandlersClear DEF Next

\* The invariant of the roll-ups: the tasks that are not right are on the way of
\* the request that runs.
THEOREM SumsInvariant == Spec => []SumsInv
BY InitSums, StepSums, PTL DEF Spec

\* Requests one after another leave every roll-up right at every level: a climb
\* may end at the first level that comes out as it was, since the levels above
\* were right already; a move climbs from both parents; and a task whose parent
\* is typed over, or whose change is not rolled up, is known to be typed.
THEOREM SumsAlwaysRight == Spec => []SumsRight
<1>1. SumsInv => SumsRight
  <2> SUFFICES ASSUME SumsInv, clean, Quiet, NEW t \in live \ typed
               PROVE  IsRolledUp(Committed, t, logs[t])
    BY DEF SumsRight
  <2>1. RightBut(Committed, {}) /\ live \subseteq Tasks /\ \A k \in Tasks : IsRow(row[k])
    BY DEF SumsInv, Clear, IInv, Tables
  <2>2. DOMAIN Committed = live /\ Committed[t] = row[t]
    BY DEF Committed
  <2>3. Right(Committed, t, logs[t])
    BY <2>1, <2>2 DEF RightBut, AllRight
  <2> QED
    BY <2>1, <2>2, <2>3, RightIs
<1> QED
  BY <1>1, SumsInvariant, PTL

-----------------------------------------------------------------------------
(* What a sum is *)

One(s) == CHOOSE x \in s : TRUE

\* A table of the sums of f over the subsets of D, each from a smaller one.
Stepwise(g, f, D) ==
  g = [s \in SUBSET D |-> IF s = {} THEN 0 ELSE f[One(s)] + g[s \ {One(s)}]]

LEMMA SumIs ==
  ASSUME NEW f
  PROVE  SumFunction(f) = (CHOOSE g : Stepwise(g, f, DOMAIN f))[DOMAIN f]
BY DEF SumFunction, SumFunctionOnSet, FoldFunctionOnSet, MapThenFoldSet, Stepwise, One

LEMMA StepwiseIs ==
  ASSUME NEW g, NEW f, NEW D, Stepwise(g, f, D)
  PROVE  /\ DOMAIN g = SUBSET D
         /\ \A s \in SUBSET D : g[s] = IF s = {} THEN 0 ELSE f[One(s)] + g[s \ {One(s)}]
BY DEF Stepwise

LEMMA OneIn ==
  ASSUME NEW s, s # {}
  PROVE  One(s) \in s
BY DEF One

\* Of sets of parts of a finite set, one that is not empty has a smallest.
LEMMA Smallest ==
  ASSUME NEW D, IsFiniteSet(D), NEW T, T \subseteq SUBSET D, T # {}
  PROVE  \E s \in T : \A u \in SUBSET D : u \subseteq s /\ u # s => u \notin T
<1> DEFINE R == StrictSubsetOrdering(D)
<1>1. IsWellFoundedOn(R, FiniteSubsetsOf(D))
  BY FS_StrictSubsetOrderingWellFounded
<1>2. FiniteSubsetsOf(D) = SUBSET D
  BY FS_Subset DEF FiniteSubsetsOf
<1> HIDE DEF R
<1>3. PICK s \in T : \A u \in T : <<u, s>> \notin R
  BY <1>1, <1>2, WFMin
<1>4. ASSUME NEW u \in SUBSET D, u \subseteq s, u # s, u \in T PROVE FALSE
  <2>1. <<u, s>> \in R
    BY <1>4 DEF R, StrictSubsetOrdering
  <2> QED
    BY <1>3, <1>4, <2>1
<1> QED
  BY <1>3, <1>4

\* Two such tables agree on the sets both have.
LEMMA TablesAgree ==
  ASSUME NEW D, IsFiniteSet(D), NEW f, NEW A \in SUBSET D, NEW B \in SUBSET D,
         NEW g, NEW h, Stepwise(g, f, A), Stepwise(h, f, B), NEW s, s \subseteq A, s \subseteq B
  PROVE  g[s] = h[s]
<1> DEFINE T == {u \in SUBSET D : u \subseteq A /\ u \subseteq B /\ g[u] # h[u]}
<1>1. SUFFICES ASSUME T # {} PROVE FALSE
  OBVIOUS
<1>0. T \subseteq SUBSET D
  OBVIOUS
<1> HIDE DEF T
<1>2. PICK u \in T : \A v \in SUBSET D : v \subseteq u /\ v # u => v \notin T
  BY <1>0, <1>1, Smallest
<1> USE DEF T
<1>3. /\ g[u] = IF u = {} THEN 0 ELSE f[One(u)] + g[u \ {One(u)}]
      /\ h[u] = IF u = {} THEN 0 ELSE f[One(u)] + h[u \ {One(u)}]
  <2>1. \A x \in SUBSET A : g[x] = IF x = {} THEN 0 ELSE f[One(x)] + g[x \ {One(x)}]
    BY StepwiseIs
  <2>2. \A x \in SUBSET B : h[x] = IF x = {} THEN 0 ELSE f[One(x)] + h[x \ {One(x)}]
    BY StepwiseIs
  <2>3. u \in SUBSET A /\ u \in SUBSET B
    OBVIOUS
  <2> QED
    BY <2>1, <2>2, <2>3
<1>4. u # {}
  BY <1>3
<1>5. g[u \ {One(u)}] = h[u \ {One(u)}]
  <2>1. One(u) \in u
    BY <1>4, OneIn
  <2> QED
    BY <1>2, <2>1
<1> QED
  BY <1>3, <1>4, <1>5

\* There is a table for every finite set.
LEMMA TableExists ==
  ASSUME NEW D, IsFiniteSet(D), NEW f
  PROVE  \E g : Stepwise(g, f, D)
<1> DEFINE Has(s) == \E g : Stepwise(g, f, s)
           T == {s \in SUBSET D : ~Has(s)}
<1>1. SUFFICES ASSUME T # {} PROVE FALSE
  OBVIOUS
<1>0. T \subseteq SUBSET D
  OBVIOUS
<1> HIDE DEF T
<1>2. PICK s \in T : \A u \in SUBSET D : u \subseteq s /\ u # s => u \notin T
  BY <1>0, <1>1, Smallest
<1> USE DEF T
<1> DEFINE Of(u) == CHOOSE g : Stepwise(g, f, u)
           o == One(s)
           g == [u \in SUBSET s |-> IF u = s THEN IF s = {} THEN 0 ELSE f[o] + Of(s \ {o})[s \ {o}]
                                    ELSE Of(u)[u]]
<1>3. \A u \in SUBSET s : u # s => Stepwise(Of(u), f, u)
  <2> SUFFICES ASSUME NEW u \in SUBSET s, u # s PROVE Stepwise(Of(u), f, u)
    OBVIOUS
  <2>1. Has(u)
    BY <1>2
  <2> QED
    BY <2>1
<1> HIDE DEF Of, Has
<1>4. s # {} => o \in s
  BY OneIn
<1>5. ASSUME NEW u \in SUBSET s
      PROVE  g[u] = IF u = {} THEN 0 ELSE f[One(u)] + g[u \ {One(u)}]
  <2>1. CASE u = s
    <3>1. s # {} => g[s \ {o}] = Of(s \ {o})[s \ {o}]
      BY <1>4
    <3> QED
      BY <2>1, <3>1
  <2>2. CASE u # s /\ u = {}
    <3>1. Of(u)[u] = 0
      BY <1>3, <2>2, StepwiseIs
    <3> QED
      BY <2>2, <3>1
  <2>3. CASE u # s /\ u # {}
    <3> DEFINE v == u \ {One(u)}
    <3>1. One(u) \in u /\ v \in SUBSET s /\ v # s /\ v \subseteq u
      BY <2>3, OneIn
    <3>2. Of(u)[u] = f[One(u)] + Of(u)[v]
      <4>1. Stepwise(Of(u), f, u)
        BY <1>3, <2>3
      <4> DEFINE a == Of(u)
      <4> HIDE DEF a, v
      <4>2. \A x \in SUBSET u : a[x] = IF x = {} THEN 0 ELSE f[One(x)] + a[x \ {One(x)}]
        <5>1. Stepwise(a, f, u)
          BY <4>1 DEF a
        <5> QED
          BY <5>1, StepwiseIs
      <4> QED
        BY <2>3, <4>2 DEF a, v
    <3>3. Of(u)[v] = Of(v)[v]
      <4>1. Stepwise(Of(u), f, u) /\ Stepwise(Of(v), f, v)
        BY <1>3, <2>3, <3>1
      <4>2. u \in SUBSET D /\ v \in SUBSET D /\ v \subseteq u /\ v \subseteq v
        BY <3>1
      <4> DEFINE a == Of(u)
                 b == Of(v)
      <4> HIDE DEF a, b, v
      <4>3. Stepwise(a, f, u) /\ Stepwise(b, f, v)
        BY <4>1 DEF a, b
      <4>4. a[v] = b[v]
        BY <4>2, <4>3, TablesAgree
      <4> QED
        BY <4>4 DEF a, b
    <3>4. g[u] = Of(u)[u] /\ g[v] = Of(v)[v]
      BY <2>3, <3>1
    <3> HIDE DEF g, v
    <3>5. g[u] = f[One(u)] + g[v]
      BY <3>2, <3>3, <3>4
    <3> QED
      BY <2>3, <3>5 DEF v
  <2> QED
    BY <2>1, <2>2, <2>3
<1>6. g = [u \in SUBSET s |-> g[u]]
  OBVIOUS
<1> HIDE DEF g
<1>7. Stepwise(g, f, s)
  BY <1>5, <1>6 DEF Stepwise
<1> QED
  BY <1>2, <1>7 DEF Has

\* The sum of finitely many naturals is one.
LEMMA SumNat ==
  ASSUME NEW f, IsFiniteSet(DOMAIN f), \A k \in DOMAIN f : f[k] \in Nat
  PROVE  SumFunction(f) \in Nat
<1> DEFINE D == DOMAIN f
           g == CHOOSE h : Stepwise(h, f, D)
<1>1. Stepwise(g, f, D)
  <2>1. \E h : Stepwise(h, f, D)
    BY TableExists
  <2> QED
    BY <2>1
<1>0. IsFiniteSet(D)
  OBVIOUS
<1>2. SumFunction(f) = g[D]
  BY SumIs
<1> HIDE DEF g
<1> DEFINE T == {s \in SUBSET D : g[s] \notin Nat}
<1>3. SUFFICES ASSUME T # {} PROVE FALSE
  BY <1>2
<1>a. T \subseteq SUBSET D
  OBVIOUS
<1> HIDE DEF T, D
<1>b. \A x \in SUBSET D : g[x] = IF x = {} THEN 0 ELSE f[One(x)] + g[x \ {One(x)}]
  BY <1>1, StepwiseIs
<1>4. PICK s \in T : \A u \in SUBSET D : u \subseteq s /\ u # s => u \notin T
  BY <1>0, <1>a, <1>3, Smallest
<1> USE DEF T
<1>5. g[s] = IF s = {} THEN 0 ELSE f[One(s)] + g[s \ {One(s)}]
  BY <1>b
<1>6. CASE s = {}
  BY <1>5, <1>6
<1>7. CASE s # {}
  <2>1. One(s) \in s
    BY <1>7, OneIn
  <2>2. f[One(s)] \in Nat
    BY <2>1 DEF D
  <2>3.  g[s \ {One(s)}] \in Nat
    BY <1>4, <2>1
  <2> QED
    BY <1>5, <1>7, <2>2, <2>3
<1> QED
  BY <1>6, <1>7

-----------------------------------------------------------------------------
(* Types: sums of finitely many efforts, a latest date among the dates *)

\* Finitely many naturals, if any, have a greatest.
LEMMA GreatestIn ==
  ASSUME NEW S, IsFiniteSet(S), S # {}
  PROVE  S \subseteq Nat => Max(S) \in S
<1>0. SUFFICES ASSUME S \subseteq Nat PROVE Max(S) \in S
  OBVIOUS
<1> DEFINE Top(s) == \E x \in s : \A y \in s : x >= y
           T == {s \in SUBSET S : s # {} /\ ~Top(s)}
<1>1. SUFFICES T = {}
  <2>1. Top(S)
    BY <1>1
  <2> QED
    BY <2>1 DEF Max
<1>2. SUFFICES ASSUME T # {} PROVE FALSE
  OBVIOUS
<1>3. T \subseteq SUBSET S
  OBVIOUS
<1> HIDE DEF T, Top
<1>4. PICK s \in T : \A u \in SUBSET S : u \subseteq s /\ u # s => u \notin T
  BY <1>2, <1>3, Smallest
<1> USE DEF T, Top
<1>5. PICK x \in s : x \in Nat
  BY <1>0, <1>4
<1> DEFINE u == s \ {x}
<1>6. CASE u = {}
  <2>1. \A y \in s : x >= y
    BY <1>5, <1>6
  <2> QED
    BY <1>4, <2>1
<1>7. CASE u # {}
  <2>1. Top(u)
    BY <1>4, <1>5, <1>7
  <2>2. PICK z \in u : \A y \in u : z >= y
    BY <2>1
  <2>3. \A y \in s : y \in Nat
    BY <1>0, <1>4
  <2>4. Top(s)
    <3>1. CASE z >= x
      <4>1. \A y \in s : z >= y
        BY <2>2, <3>1
      <4> QED
        BY <4>1
    <3>2. CASE ~(z >= x)
      <4>1. \A y \in s : x >= y
        BY <2>2, <2>3, <3>2
      <4> QED
        BY <4>1
    <3> QED
      BY <3>1, <3>2
  <2> QED
    BY <1>4, <2>4
<1> QED
  BY <1>6, <1>7

AggRow == [base : Bases \cup {"none"}, effort : Nat, due : Dues]

LEMMA AggregatesTyped ==
  ASSUME NEW rs, IsFiniteSet(DOMAIN rs), \A k \in DOMAIN rs : rs[k] \in Row, NEW t, NEW own \in Nat
  PROVE  Aggregates(rs, t, own) \in AggRow
<1> DEFINE ks   == ChildrenIn(rs, t)
           dues == {rs[k].due : k \in ks}
           f    == [k \in ks |-> rs[k].effort]
<1>1. ks \subseteq DOMAIN rs /\ IsFiniteSet(ks)
  <2>1. ks \subseteq DOMAIN rs
    BY DEF ChildrenIn
  <2> QED
    BY <2>1, FS_Subset
<1> HIDE DEF ks
<1>2. SumOf(rs, ks) \in Nat
  <2>1. DOMAIN f = ks /\ \A k \in DOMAIN f : f[k] \in Nat
    BY <1>1 DEF Row
  <2> HIDE DEF f
  <2>2. SumFunction(f) \in Nat
    BY <1>1, <2>1, SumNat
  <2> QED
    BY <2>2 DEF SumOf, f
<1>3. (IF ks = {} THEN 0 ELSE Max(dues)) \in Dues
  <2>1. dues \subseteq Dues /\ dues \subseteq Nat
    BY <1>1, TaskTreeAssumption DEF Row
  <2>2. IsFiniteSet(dues)
    <3> DEFINE g == [k \in ks |-> rs[k].due]
    <3>1. g \in Surjection(ks, dues)
      BY DEF Surjection
    <3> HIDE DEF g
    <3> QED
      BY <1>1, <3>1, FS_Surjection
  <2>3. ks # {} => dues # {}
    OBVIOUS
  <2> HIDE DEF dues
  <2>4. ks # {} => Max(dues) \in dues
    BY <2>1, <2>2, <2>3, GreatestIn
  <2> QED
    BY <2>1, <2>4, TaskTreeAssumption
<1>4. (IF ks = {} THEN "none" ELSE BaseOf({rs[k].base : k \in ks})) \in Bases \cup {"none"}
  BY DEF BaseOf, Bases
<1>5. Aggregates(rs, t, own) =
        [effort |-> SumOf(rs, ks) + own, due |-> IF ks = {} THEN 0 ELSE Max(dues),
         base |-> IF ks = {} THEN "none" ELSE BaseOf({rs[k].base : k \in ks})]
  BY DEF Aggregates, ks
<1> HIDE DEF dues
<1>6. SumOf(rs, ks) + own \in Nat
  BY <1>2
<1> QED
  BY <1>3, <1>4, <1>5, <1>6 DEF AggRow

LEMMA RolledUpTyped ==
  ASSUME NEW r \in Row, NEW a \in AggRow
  PROVE  RolledUp(r, a) \in Row /\ RolledUp(r, a).parent \in Tasks \cup {NoTask}
<1>1. IsRow(r)
  BY DEF Row, IsRow
<1> DEFINE n == RolledUp(r, a)
<1>2. IsRow(n) /\ n.parent = r.parent /\ n.effort = a.effort /\ Dated(n, a)
  BY <1>1, RolledUpIs
<1>3. n.due \in Dues /\ n.base \in Bases
  BY <1>1 DEF RolledUp, Row, AggRow, IsRow
<1>4. n.parent \in Tasks \cup {NoTask} /\ n.effort \in Nat
  BY <1>2 DEF Row, AggRow
<1> HIDE DEF n
<1>5. n \in Row
  BY <1>2, <1>3, <1>4 DEF IsRow, Row
<1> QED
  BY <1>4, <1>5 DEF n

-----------------------------------------------------------------------------
(* The types, with what each step finds in the registers it reads *)

Targeted == {"patching", "saving", "stripping", "removing", "summing", "adding", "writing"}
Climbing == {"aggregating", "applying"}

\* The rows of the tables, finitely many; ids that were given out are not given
\* out again.
Stored ==
  /\ live \subseteq Tasks /\ unborn \subseteq Tasks \ live /\ IsFiniteSet(live)
  /\ row \in [Tasks -> Row] /\ logs \in [Tasks -> Nat] /\ typed \subseteq Tasks
  /\ \A c \in Requests :
       /\ Pending(c) \subseteq Tasks \ unborn /\ IsFiniteSet(Pending(c))
       /\ \A t \in Pending(c) : mine[c][t] \in Row

Finds(c) ==
  /\ pc[c] \in Targeted => target[c] \in Tasks \ unborn
  /\ pc[c] \in Climbing => todo[c] # <<>>

Registers ==
  /\ pc \in [Requests -> PCs] /\ op \in [Requests -> Ops]
  /\ target \in [Requests -> Tasks \cup {NoTask}] /\ mem \in [Requests -> Row]
  /\ todo \in [Requests -> Seq(Tasks)] /\ agg \in [Requests -> AggRow]
  /\ served \in 0..MaxServed /\ clean \in BOOLEAN
  /\ \A c \in Requests : Finds(c)

TypesInv == IInv /\ Stored /\ Registers

LEMMA NothingTyped == NoRow \in Row /\ NoAgg \in AggRow
BY TaskTreeAssumption DEF NoRow, Row, NoAgg, AggRow, Bases

LEMMA FromTyped ==
  ASSUME NEW p \in Tasks \cup {NoTask}
  PROVE  From(p) \in Seq(Tasks) /\ (p # NoTask => From(p) # <<>>)
BY DEF From

LEMMA ArriveTyped ==
  ASSUME Registers, NEW c \in Requests, NEW h \in Ops, NEW step \in PCs, NEW t \in Tasks,
         NEW m \in Row, NEW rs \in Seq(Tasks), Arrive(c, h, step, t, m, rs),
         unborn' \subseteq unborn, t \notin unborn', step \in Climbing => rs # <<>>
  PROVE  Registers'
<1>1. /\ served < MaxServed /\ served' = served + 1
      /\ clean' = (clean /\ \A d \in Requests : pc[d] = "idle")
      /\ pc' = [pc EXCEPT ![c] = step] /\ op' = [op EXCEPT ![c] = h]
      /\ target' = [target EXCEPT ![c] = t] /\ mem' = [mem EXCEPT ![c] = m]
      /\ todo' = [todo EXCEPT ![c] = rs] /\ agg' = agg
  BY DEF Arrive
<1>2. served' \in 0..MaxServed
  BY <1>1, TaskTreeAssumption DEF Registers
<1>3. clean' \in BOOLEAN
  BY <1>1
<1>4. /\ pc' \in [Requests -> PCs] /\ op' \in [Requests -> Ops]
      /\ target' \in [Requests -> Tasks \cup {NoTask}] /\ mem' \in [Requests -> Row]
      /\ todo' \in [Requests -> Seq(Tasks)] /\ agg' \in [Requests -> AggRow]
  BY <1>1 DEF Registers
<1>5. ASSUME NEW d \in Requests PROVE Finds(d)'
  <2>1. CASE d = c
    BY <1>1, <2>1 DEF Finds, Registers
  <2>2. CASE d # c
    BY <1>1, <2>2 DEF Finds, Registers
  <2> QED
    BY <2>1, <2>2
<1> QED
  BY <1>2, <1>3, <1>4, <1>5 DEF Registers

LEMMA GotoTyped ==
  ASSUME Registers, NEW c \in Requests, NEW step \in PCs, Goto(c, step),
         NEW rs \in Seq(Tasks), todo' = [todo EXCEPT ![c] = rs],
         NEW a \in AggRow, agg' = [agg EXCEPT ![c] = a],
         step \in Targeted => target[c] \in Tasks \ unborn, step \in Climbing => rs # <<>>,
         unborn' = unborn
  PROVE  Registers'
<1>1. pc' = [pc EXCEPT ![c] = step] /\ UNCHANGED <<op, target, mem, served, clean>>
  BY DEF Goto
<1>2. /\ pc' \in [Requests -> PCs] /\ op' \in [Requests -> Ops]
      /\ target' \in [Requests -> Tasks \cup {NoTask}] /\ mem' \in [Requests -> Row]
      /\ todo' \in [Requests -> Seq(Tasks)] /\ agg' \in [Requests -> AggRow]
      /\ served' \in 0..MaxServed /\ clean' \in BOOLEAN
  BY <1>1 DEF Registers
<1>3. ASSUME NEW d \in Requests PROVE Finds(d)'
  BY <1>1 DEF Finds, Registers
<1> QED
  BY <1>2, <1>3 DEF Registers

LEMMA FinishTyped ==
  ASSUME Registers, NEW c \in Requests, Finish(c), clean' \in BOOLEAN, unborn' = unborn
  PROVE  Registers'
<1>1. /\ pc' = [pc EXCEPT ![c] = "idle"] /\ op' = [op EXCEPT ![c] = "none"]
      /\ target' = [target EXCEPT ![c] = NoTask] /\ mem' = [mem EXCEPT ![c] = NoRow]
      /\ todo' = [todo EXCEPT ![c] = <<>>] /\ agg' = [agg EXCEPT ![c] = NoAgg] /\ served' = served
  BY DEF Finish
<1>2. /\ pc' \in [Requests -> PCs] /\ op' \in [Requests -> Ops]
      /\ target' \in [Requests -> Tasks \cup {NoTask}] /\ mem' \in [Requests -> Row]
      /\ agg' \in [Requests -> AggRow] /\ served' \in 0..MaxServed
  BY <1>1, NothingTyped DEF Registers, PCs, Ops
<1>3. todo' \in [Requests -> Seq(Tasks)]
  BY <1>1 DEF Registers
<1>4. ASSUME NEW d \in Requests PROVE Finds(d)'
  BY <1>1 DEF Finds, Registers, Targeted, Climbing
<1> QED
  BY <1>2, <1>3, <1>4 DEF Registers

LEMMA ClimbTyped ==
  ASSUME Registers, NEW c \in Requests, NEW rs \in Seq(Tasks), Climb(c, rs), unborn' = unborn
  PROVE  Registers'
<1>1. CASE rs = <<>> /\ op[c] # "create"
  <2>1. Finish(c) /\ clean' = clean
    BY <1>1 DEF Climb
  <2> QED
    BY <2>1, FinishTyped DEF Registers
<1>2. CASE ~(rs = <<>> /\ op[c] # "create")
  <2> DEFINE step == IF rs = <<>> THEN "committing" ELSE "aggregating"
  <2>1. /\ Goto(c, step) /\ todo' = [todo EXCEPT ![c] = rs] /\ agg' = [agg EXCEPT ![c] = NoAgg]
    BY <1>2 DEF Climb
  <2>2. step \in PCs /\ step \notin Targeted /\ (step \in Climbing => rs # <<>>)
    BY DEF PCs, Targeted, Climbing
  <2> HIDE DEF step
  <2> QED
    BY <2>1, <2>2, NothingTyped, GotoTyped
<1> QED
  BY <1>1, <1>2

LEMMA TablesUntouched ==
  ASSUME Stored, UNCHANGED <<tableVars, mine>>, typed' \subseteq Tasks
  PROVE  Stored'
BY DEF Stored, tableVars, Pending

\* A row that is written.
LEMMA RowTyped ==
  ASSUME Stored, NEW t, NEW r \in Row, row' = [row EXCEPT ![t] = r], typed' \subseteq Tasks,
         UNCHANGED <<unborn, logs, mine>>, live' \subseteq Tasks, unborn \cap live' = {},
         IsFiniteSet(live')
  PROVE  Stored'
<1>1. row' \in [Tasks -> Row]
  BY DEF Stored
<1> QED
  BY <1>1 DEF Stored, Pending

\* What a transaction sees are finitely many rows.
LEMMA SeenTyped ==
  ASSUME Stored, NEW c \in Requests
  PROVE  /\ DOMAIN Seen(c) = Pending(c) \cup live /\ IsFiniteSet(DOMAIN Seen(c))
         /\ \A k \in DOMAIN Seen(c) : Seen(c)[k] \in Row
<1>1. DOMAIN Seen(c) = Pending(c) \cup live
  BY DEF Seen, Over, Committed, Pending
<1>2. IsFiniteSet(DOMAIN Seen(c))
  <2>1. IsFiniteSet(Pending(c)) /\ IsFiniteSet(live)
    BY DEF Stored
  <2>2. IsFiniteSet(Pending(c) \cup live)
    BY <2>1, FS_Union
  <2> QED
    BY <1>1, <2>2
<1>3. ASSUME NEW k \in DOMAIN Seen(c) PROVE Seen(c)[k] \in Row
  <2>1. CASE k \in Pending(c)
    BY <2>1 DEF Stored, Seen, Over, Pending
  <2>2. CASE k \notin Pending(c)
    BY <1>1, <1>3, <2>2 DEF Stored, Seen, Over, Pending, Committed
  <2> QED
    BY <2>1, <2>2
<1> QED
  BY <1>1, <1>2, <1>3

LEMMA CreateTyped ==
  ASSUME TypesInv, NEW c \in Requests, Create(c)
  PROVE  Stored' /\ Registers'
<1>0. PICK t \in unborn, b \in NewBases, e \in Efforts, d \in Dues : \E p \in ParentsFor(t) :
        /\ Arrive(c, "create", IF p = NoTask THEN "committing" ELSE "aggregating", t, NoRow, From(p))
        /\ mine' = [mine EXCEPT ![c] = [k \in {t} |-> NewTask(p, b, e, d)]]
        /\ unborn' = unborn \ {t}
        /\ UNCHANGED <<live, row, logs>>
  BY DEF Create
<1>1. PICK p \in ParentsFor(t) :
        /\ Arrive(c, "create", IF p = NoTask THEN "committing" ELSE "aggregating", t, NoRow, From(p))
        /\ mine' = [mine EXCEPT ![c] = [k \in {t} |-> NewTask(p, b, e, d)]]
        /\ unborn' = unborn \ {t}
        /\ UNCHANGED <<live, row, logs>>
  BY <1>0
<1> DEFINE step == IF p = NoTask THEN "committing" ELSE "aggregating"
           new  == NewTask(p, b, e, d)
<1>2. /\ t \in Tasks /\ t \notin live /\ p \in Tasks \cup {NoTask} /\ unborn' \subseteq unborn /\ t \notin unborn'
  BY <1>1 DEF TypesInv, Stored, ParentsFor
<1>3. new \in Row
  BY <1>2, TaskTreeAssumption DEF NewTask, Row
<1>4. step \in PCs /\ (step \in Climbing => p # NoTask)
  BY DEF PCs, Climbing
<1>5. Arrive(c, "create", step, t, NoRow, From(p))
  BY <1>1
<1> HIDE DEF step, new
<1>6. Registers'
  <2>1. From(p) \in Seq(Tasks) /\ (p # NoTask => From(p) # <<>>)
    BY <1>2, FromTyped
  <2>2. "create" \in Ops /\ Registers
    BY DEF Ops, TypesInv
  <2> QED
    BY <1>2, <1>4, <1>5, <2>1, <2>2, NothingTyped, ArriveTyped
<1>7. Stored'
  <2>1. mine' = [mine EXCEPT ![c] = [k \in {t} |-> new]] /\ UNCHANGED <<live, row, logs, typed>>
    BY <1>1 DEF new, Arrive
  <2>2. DOMAIN mine = Requests
    BY DEF TypesInv, IInv, Tables
  <2>3. Pending(c)' = {t} /\ mine'[c][t] = new
    BY <2>1, <2>2 DEF Pending
  <2>4. ASSUME NEW d2 \in Requests
        PROVE  /\ Pending(d2)' \subseteq Tasks \ unborn' /\ IsFiniteSet(Pending(d2)')
               /\ \A k \in Pending(d2)' : mine'[d2][k] \in Row
    <3>1. CASE d2 = c
      BY <1>2, <1>3, <2>3, <3>1, FS_Singleton
    <3>2. CASE d2 # c
      <4>1. Pending(d2)' = Pending(d2) /\ mine'[d2] = mine[d2]
        BY <2>1, <2>2, <3>2 DEF Pending
      <4> QED
        BY <1>2, <4>1 DEF TypesInv, Stored
    <3> QED
      BY <3>1, <3>2
  <2> QED
    BY <1>2, <2>1, <2>4 DEF TypesInv, Stored
<1> QED
  BY <1>6, <1>7

\* The other requests arrive about a task that exists, and touch the logs at most.
LEMMA OthersTyped ==
  ASSUME TypesInv, NEW c \in Requests, NEW h \in Ops, NEW step \in Targeted, NEW t \in live,
         NEW m \in Row, NEW rs \in Seq(Tasks), Arrive(c, h, step, t, m, rs),
         UNCHANGED <<live, unborn, row, mine>>, logs' \in [Tasks -> Nat]
  PROVE  Stored' /\ Registers'
<1>1. Stored /\ Registers /\ unborn' = unborn /\ t \in Tasks /\ t \notin unborn
  BY DEF TypesInv, Stored
<1>2. step \in PCs /\ step \notin Climbing
  BY DEF Targeted, PCs, Climbing
<1>3. Registers'
  BY <1>1, <1>2, ArriveTyped
<1>4. typed' = typed
  BY DEF Arrive
<1>5. Stored'
  BY <1>1, <1>4 DEF Stored, Pending
<1> QED
  BY <1>3, <1>5

LEMMA HandlersTyped ==
  ASSUME TypesInv, NEW c \in Requests,
         \/ StartStatus(c) \/ StartProgress(c) \/ StartEffort(c) \/ StartDates(c)
         \/ LoadTask(c) \/ StartDelete(c) \/ AddLog(c) \/ ChangeLog(c) \/ DeleteLog(c)
  PROVE  Stored' /\ Registers'
<1>0. /\ \A h \in {"status", "progress", "effort", "dates", "update", "delete", "log"} : h \in Ops
      /\ \A s \in {"patching", "saving", "stripping", "summing"} : s \in Targeted
      /\ <<>> \in Seq(Tasks)
  BY DEF Ops, Targeted
<1>1. ASSUME NEW t \in live
      PROVE  /\ row[t] \in Row /\ row[t].parent \in Tasks \cup {NoTask} /\ From(row[t].parent) \in Seq(Tasks)
             /\ logs \in [Tasks -> Nat] /\ logs[t] \in Nat /\ t \in Tasks
             /\ \A b \in NewBases : [row[t] EXCEPT !.base = b] \in Row
             /\ \A e \in Efforts : [row[t] EXCEPT !.effort = e] \in Row
             /\ \A d \in Dues : [row[t] EXCEPT !.due = d] \in Row
  <2>1. t \in Tasks /\ row[t] \in Row /\ logs \in [Tasks -> Nat] /\ logs[t] \in Nat
    BY DEF TypesInv, Stored
  <2>2. row[t].parent \in Tasks \cup {NoTask}
    BY <2>1 DEF Row
  <2>3. /\ \A b \in NewBases : [row[t] EXCEPT !.base = b] \in Row
        /\ \A e \in Efforts : [row[t] EXCEPT !.effort = e] \in Row
        /\ \A d \in Dues : [row[t] EXCEPT !.due = d] \in Row
    BY <2>1, TaskTreeAssumption DEF Row
  <2> QED
    BY <2>1, <2>2, <2>3, FromTyped
<1>2. CASE StartStatus(c)
  <2>1. PICK t \in live, b \in NewBases, p \in Named \cup {NoTask} :
          /\ Arrive(c, "status", "patching", t, [row[t] EXCEPT !.base = b],
                    From(IF p = NoTask THEN row[t].parent ELSE p))
          /\ UNCHANGED <<tableVars, mine>>
    BY <1>2 DEF StartStatus
  <2> DEFINE q == IF p = NoTask THEN row[t].parent ELSE p
  <2>2. q \in Tasks \cup {NoTask}
    BY <1>1, TaskTreeAssumption
  <2> HIDE DEF q
  <2>3. [row[t] EXCEPT !.base = b] \in Row /\ From(q) \in Seq(Tasks) /\ logs' \in [Tasks -> Nat]
    BY <1>0, <1>1, <2>1, <2>2, FromTyped DEF tableVars
  <2> QED
    BY <1>0, <2>1, <2>3, OthersTyped DEF tableVars, q
<1>9. CASE StartProgress(c)
  <2>1. PICK t \in live, b \in NewBases :
          /\ Arrive(c, "progress", "patching", t, [row[t] EXCEPT !.base = b], <<>>)
          /\ UNCHANGED <<tableVars, mine>>
    BY <1>9 DEF StartProgress
  <2>2. [row[t] EXCEPT !.base = b] \in Row /\ <<>> \in Seq(Tasks) /\ logs' \in [Tasks -> Nat]
    BY <1>0, <1>1, <2>1 DEF tableVars
  <2> QED
    BY <1>0, <2>1, <2>2, OthersTyped DEF tableVars
<1>3. CASE StartEffort(c)
  <2>1. PICK t \in live, e \in Efforts :
          /\ Arrive(c, "effort", "patching", t, [row[t] EXCEPT !.effort = e], From(row[t].parent))
          /\ UNCHANGED <<tableVars, mine>>
    BY <1>3 DEF StartEffort
  <2>2. /\ [row[t] EXCEPT !.effort = e] \in Row /\ From(row[t].parent) \in Seq(Tasks)
        /\ logs' \in [Tasks -> Nat]
    BY <1>1, <2>1 DEF tableVars
  <2> QED
    BY <1>0, <2>1, <2>2, OthersTyped DEF tableVars
<1>4. CASE StartDates(c)
  <2>1. PICK t \in live, d \in Dues, p \in Named \cup {NoTask} :
          /\ Arrive(c, "dates", "patching", t, [row[t] EXCEPT !.due = d], From(p))
          /\ UNCHANGED <<tableVars, mine>>
    BY <1>4 DEF StartDates
  <2>3. p \in Tasks \cup {NoTask}
    BY TaskTreeAssumption
  <2>2. [row[t] EXCEPT !.due = d] \in Row /\ From(p) \in Seq(Tasks) /\ logs' \in [Tasks -> Nat]
    BY <1>1, <2>1, <2>3, FromTyped DEF tableVars
  <2> QED
    BY <1>0, <2>1, <2>2, OthersTyped DEF tableVars
<1>5. CASE LoadTask(c)
  <2>0. PICK t \in live, b \in NewBases : \E p \in ParentsFor(t) :
          /\ Arrive(c, "update", "saving", t, [row[t] EXCEPT !.base = b, !.parent = p],
                    BothParents(row[t].parent, p))
          /\ UNCHANGED <<tableVars, mine>>
    BY <1>5 DEF LoadTask
  <2>1. PICK p \in ParentsFor(t) :
          /\ Arrive(c, "update", "saving", t, [row[t] EXCEPT !.base = b, !.parent = p],
                    BothParents(row[t].parent, p))
          /\ UNCHANGED <<tableVars, mine>>
    BY <2>0
  <2>2. p \in Tasks \cup {NoTask}
    BY DEF ParentsFor, TypesInv, Stored
  <2>3. [row[t] EXCEPT !.base = b, !.parent = p] \in Row
    <3>1. row[t] \in Row /\ b \in Bases
      BY <1>1, TaskTreeAssumption
    <3> QED
      BY <2>2, <3>1 DEF Row
  <2>4. BothParents(row[t].parent, p) \in Seq(Tasks)
    <3>1. From(row[t].parent) \in Seq(Tasks) /\ From(p) \in Seq(Tasks)
      BY <1>1, <2>2, FromTyped
    <3> QED
      BY <3>1 DEF BothParents
  <2>5. logs' \in [Tasks -> Nat]
    BY <1>1, <2>1 DEF tableVars
  <2> QED
    BY <1>0, <2>1, <2>3, <2>4, <2>5, OthersTyped DEF tableVars
<1>6. CASE StartDelete(c)
  <2>1. PICK t \in live :
          /\ Arrive(c, "delete", "stripping", t, NoRow, From(row[t].parent))
          /\ UNCHANGED <<tableVars, mine>>
    BY <1>6 DEF StartDelete
  <2>2. From(row[t].parent) \in Seq(Tasks) /\ logs' \in [Tasks -> Nat]
    BY <1>1, <2>1 DEF tableVars
  <2> QED
    BY <1>0, <2>1, <2>2, NothingTyped, OthersTyped DEF tableVars
<1>7. CASE AddLog(c) \/ ChangeLog(c) \/ DeleteLog(c)
  <2>1. PICK t \in live, n \in Nat : Log(c, t, n)
    <3>1. \A t \in live : logs[t] \in Nat
      BY <1>1
    <3>2. CASE AddLog(c)
      <4>1. PICK t \in live, e \in Efforts : Log(c, t, logs[t] + e)
        BY <3>2 DEF AddLog
      <4>2. logs[t] + e \in Nat
        BY <3>1, TaskTreeAssumption
      <4> QED
        BY <4>1, <4>2
    <3>3. CASE ChangeLog(c)
      <4>1. PICK t \in live, e \in Efforts, f \in Efforts : e <= logs[t] /\ Log(c, t, logs[t] - e + f)
        BY <3>3 DEF ChangeLog
      <4>2. logs[t] - e + f \in Nat
        BY <3>1, <4>1, TaskTreeAssumption
      <4> QED
        BY <4>1, <4>2
    <3>4. CASE DeleteLog(c)
      <4>1. PICK t \in live, e \in Efforts : e <= logs[t] /\ Log(c, t, logs[t] - e)
        BY <3>4 DEF DeleteLog
      <4>2. logs[t] - e \in Nat
        BY <3>1, <4>1, TaskTreeAssumption
      <4> QED
        BY <4>1, <4>2
    <3> QED
      BY <1>7, <3>2, <3>3, <3>4
  <2>2. /\ Arrive(c, "log", "summing", t, NoRow, <<>>) /\ logs' = [logs EXCEPT ![t] = n]
        /\ UNCHANGED <<live, unborn, row, mine>>
    BY <2>1 DEF Log
  <2>3. logs' \in [Tasks -> Nat]
    BY <1>1, <2>2
  <2> QED
    BY <1>0, <2>2, <2>3, NothingTyped, OthersTyped
<1> QED
  BY <1>2, <1>3, <1>4, <1>5, <1>6, <1>7, <1>9

\* The registers of a request under way.
LEMMA UnderWay ==
  ASSUME TypesInv, NEW c \in Requests
  PROVE  /\ Stored /\ Registers /\ todo[c] \in Seq(Tasks) /\ agg[c] \in AggRow /\ mem[c] \in Row
         /\ pc[c] \in Targeted => target[c] \in Tasks \ unborn
         /\ pc[c] \in Climbing =>
              todo[c] # <<>> /\ Head(todo[c]) \in Tasks /\ Tail(todo[c]) \in Seq(Tasks)
<1>1. Stored /\ Registers /\ todo[c] \in Seq(Tasks) /\ agg[c] \in AggRow /\ mem[c] \in Row
  BY DEF TypesInv, Registers
<1>2. /\ pc[c] \in Targeted => target[c] \in Tasks \ unborn
      /\ pc[c] \in Climbing => todo[c] # <<>>
  BY DEF TypesInv, Registers, Finds
<1>3. todo[c] # <<>> => Head(todo[c]) \in Tasks /\ Tail(todo[c]) \in Seq(Tasks)
  BY <1>1
<1> QED
  BY <1>1, <1>2, <1>3

LEMMA AggregateTyped ==
  ASSUME TypesInv, NEW c \in Requests, Aggregate(c)
  PROVE  Stored' /\ Registers'
<1> DEFINE t == Head(todo[c])
           a == Aggregates(Seen(c), t, logs[t])
<1>1. /\ UNCHANGED <<tableVars, mine, typed>> /\ pc[c] = "aggregating"
      /\ IF t \in DOMAIN Seen(c)
           THEN agg' = [agg EXCEPT ![c] = a] /\ Goto(c, "applying") /\ UNCHANGED todo
           ELSE Climb(c, Tail(todo[c]))
  BY DEF Aggregate
<1>2. pc[c] \in Climbing /\ unborn' = unborn
  BY <1>1 DEF Climbing, tableVars
<1>3. /\ Stored /\ Registers /\ todo[c] \in Seq(Tasks) /\ todo[c] # <<>> /\ t \in Tasks
      /\ Tail(todo[c]) \in Seq(Tasks)
  BY <1>2, UnderWay
<1>4. Stored'
  BY <1>1, <1>3, TablesUntouched DEF Stored
<1>5. CASE t \in DOMAIN Seen(c)
  <2>1. a \in AggRow
    <3>1. logs[t] \in Nat
      BY <1>3 DEF Stored
    <3> QED
      BY <1>3, <3>1, SeenTyped, AggregatesTyped
  <2>2. "applying" \in PCs /\ "applying" \notin Targeted
    BY DEF PCs, Targeted
  <2>3. todo' = [todo EXCEPT ![c] = todo[c]]
    BY <1>1, <1>3, <1>5 DEF Registers
  <2> HIDE DEF a, t
  <2>4. Goto(c, "applying") /\ agg' = [agg EXCEPT ![c] = a]
    BY <1>1, <1>5
  <2> QED
    BY <1>2, <1>3, <1>4, <2>1, <2>2, <2>3, <2>4, GotoTyped
<1>6. CASE t \notin DOMAIN Seen(c)
  BY <1>1, <1>2, <1>3, <1>4, <1>6, ClimbTyped
<1> QED
  BY <1>5, <1>6

LEMMA ApplyTyped ==
  ASSUME TypesInv, NEW c \in Requests, Apply(c)
  PROVE  Stored' /\ Registers'
<1> DEFINE t   == Head(todo[c])
           old == Seen(c)[t]
           new == RolledUp(old, agg[c])
<1>1. /\ pc[c] = "applying" /\ typed' = typed \ {t} /\ UNCHANGED <<live, unborn, logs>>
      /\ IF t \notin DOMAIN Seen(c) \/ new = old
           THEN Climb(c, Tail(todo[c])) /\ UNCHANGED <<row, mine>>
           ELSE /\ IF op[c] = "create"
                     THEN mine' = [mine EXCEPT ![c] = Over([k \in {t} |-> new], @)] /\ UNCHANGED row
                     ELSE row' = [row EXCEPT ![t] = new] /\ UNCHANGED mine
                /\ Climb(c, NextLevel(new) \o Tail(todo[c]))
  BY DEF Apply
<1>2. pc[c] \in Climbing /\ unborn' = unborn
  BY <1>1 DEF Climbing
<1>3. /\ Stored /\ Registers /\ t \in Tasks /\ Tail(todo[c]) \in Seq(Tasks) /\ agg[c] \in AggRow
  BY <1>2, UnderWay
<1>4. typed' \subseteq Tasks
  BY <1>1, <1>3 DEF Stored
<1>5. CASE t \notin DOMAIN Seen(c) \/ new = old
  <2>1. Climb(c, Tail(todo[c])) /\ UNCHANGED <<tableVars, mine>>
    BY <1>1, <1>5 DEF tableVars
  <2> QED
    BY <1>2, <1>3, <1>4, <2>1, TablesUntouched, ClimbTyped
<1>6. CASE ~(t \notin DOMAIN Seen(c) \/ new = old)
  <2>1. t \in Pending(c) \cup live /\ old \in Row
    BY <1>3, <1>6, SeenTyped
  <2>2. new \in Row /\ new.parent \in Tasks \cup {NoTask}
    BY <1>3, <2>1, RolledUpTyped
  <2>3. NextLevel(new) \o Tail(todo[c]) \in Seq(Tasks)
    <3>1. From(new.parent) \in Seq(Tasks)
      BY <2>2, FromTyped
    <3> HIDE DEF new
    <3> QED
      BY <1>3, <3>1 DEF NextLevel
  <2> HIDE DEF new, old, t
  <2>4. Registers'
    <3>1. Climb(c, NextLevel(new) \o Tail(todo[c]))
      BY <1>1, <1>6
    <3> QED
      BY <1>2, <1>3, <2>3, <3>1, ClimbTyped
  <2>5. CASE op[c] # "create"
    <3>1. row' = [row EXCEPT ![t] = new] /\ mine' = mine /\ live' = live
      BY <1>1, <1>6, <2>5
    <3>2. live' \subseteq Tasks /\ unborn \cap live' = {} /\ IsFiniteSet(live')
      BY <1>3, <3>1 DEF Stored
    <3> QED
      BY <1>1, <1>3, <1>4, <2>2, <2>4, <3>1, <3>2, RowTyped
  <2>6. CASE op[c] = "create"
    <3>1. mine' = [mine EXCEPT ![c] = Over([k \in {t} |-> new], @)] /\ row' = row
      BY <1>1, <1>6, <2>6
    <3>2. DOMAIN mine = Requests
      BY DEF TypesInv, IInv, Tables
    <3>3. Pending(c)' = {t} \cup Pending(c) /\ \A k \in Pending(c)' : mine'[c][k] = IF k = t THEN new ELSE mine[c][k]
      BY <3>1, <3>2 DEF Pending, Over
    <3>4. Pending(c)' \subseteq Tasks \ unborn /\ \A k \in Pending(c)' : mine'[c][k] \in Row
      BY <1>3, <2>1, <2>2, <3>3 DEF Stored
    <3>5. IsFiniteSet(Pending(c)')
      <4>1. IsFiniteSet(Pending(c)) /\ IsFiniteSet({t})
        BY <1>3, FS_Singleton DEF Stored
      <4>2. IsFiniteSet({t} \cup Pending(c))
        BY <4>1, FS_Union
      <4> QED
        BY <3>3, <4>2
    <3>6. ASSUME NEW d \in Requests \ {c} PROVE Pending(d)' = Pending(d) /\ mine'[d] = mine[d]
      BY <3>1, <3>2 DEF Pending
    <3>7. ASSUME NEW d \in Requests
          PROVE  /\ Pending(d)' \subseteq Tasks \ unborn' /\ IsFiniteSet(Pending(d)')
                 /\ \A k \in Pending(d)' : mine'[d][k] \in Row
      <4>1. CASE d = c
        BY <1>2, <3>4, <3>5, <4>1
      <4>2. CASE d # c
        BY <1>2, <1>3, <3>6, <4>2 DEF Stored
      <4> QED
        BY <4>1, <4>2
    <3> QED
      BY <1>1, <1>3, <1>4, <2>4, <3>1, <3>7 DEF Stored
  <2> QED
    BY <2>5, <2>6
<1> QED
  BY <1>5, <1>6

\* The rows of a transaction are gone with it.
LEMMA NoneLeft ==
  ASSUME Stored, DOMAIN mine = Requests, NEW c \in Requests, mine' = [mine EXCEPT ![c] = <<>>], unborn' = unborn
  PROVE  \A d \in Requests :
           /\ Pending(d)' \subseteq Tasks \ unborn' /\ IsFiniteSet(Pending(d)')
           /\ \A k \in Pending(d)' : mine'[d][k] \in Row
<1> SUFFICES ASSUME NEW d \in Requests
             PROVE  /\ Pending(d)' \subseteq Tasks \ unborn' /\ IsFiniteSet(Pending(d)')
                    /\ \A k \in Pending(d)' : mine'[d][k] \in Row
  OBVIOUS
<1>1. CASE d = c
  <2>1. Pending(d)' = {}
    BY <1>1 DEF Pending
  <2> QED
    BY <2>1, FS_EmptySet
<1>2. CASE d # c
  <2>1. Pending(d)' = Pending(d) /\ mine'[d] = mine[d]
    BY <1>2 DEF Pending
  <2> QED
    BY <2>1 DEF Stored
<1> QED
  BY <1>1, <1>2

LEMMA CommitTyped ==
  ASSUME TypesInv, NEW c \in Requests, Commit(c)
  PROVE  Stored' /\ Registers'
<1>1. /\ live' = live \cup Pending(c) /\ row' = Over(mine[c], row) /\ mine' = [mine EXCEPT ![c] = <<>>]
      /\ Finish(c) /\ UNCHANGED <<unborn, logs, clean, typed>>
  BY DEF Commit, Released
<1>2. Stored /\ Registers /\ DOMAIN mine = Requests
  BY DEF TypesInv, IInv, Tables
<1>3. Registers'
  BY <1>1, <1>2, FinishTyped DEF Registers
<1>4. live' \subseteq Tasks /\ unborn' \subseteq Tasks \ live'
  BY <1>1, <1>2 DEF Stored
<1>5. IsFiniteSet(live')
  <2>1. IsFiniteSet(Pending(c)) /\ IsFiniteSet(live)
    BY <1>2 DEF Stored
  <2>2. IsFiniteSet(live \cup Pending(c))
    BY <2>1, FS_Union
  <2> QED
    BY <1>1, <2>2
<1>6. row' \in [Tasks -> Row]
  <2>1. DOMAIN row = Tasks /\ DOMAIN mine[c] \subseteq Tasks /\ \A k \in DOMAIN mine[c] : mine[c][k] \in Row
    BY <1>2 DEF Stored, Pending
  <2>2. \A k \in Tasks : row[k] \in Row
    BY <1>2 DEF Stored
  <2> QED
    BY <1>1, <2>1, <2>2 DEF Over
<1>7. Stored'
  <2>1. \A d \in Requests :
           /\ Pending(d)' \subseteq Tasks \ unborn' /\ IsFiniteSet(Pending(d)')
           /\ \A k \in Pending(d)' : mine'[d][k] \in Row
    BY <1>1, <1>2, NoneLeft
  <2> QED
    BY <1>1, <1>2, <1>4, <1>5, <1>6, <2>1 DEF Stored
<1> QED
  BY <1>3, <1>7

LEMMA WritePatchTyped ==
  ASSUME TypesInv, NEW c \in Requests, WritePatch(c)
  PROVE  Stored' /\ Registers'
<1> DEFINE t == target[c]
           k == PatchedColumn[op[c]]
           r == [row[t] EXCEPT ![k] = mem[c][k]]
<1>1. /\ pc[c] = "patching" /\ UNCHANGED <<live, unborn, logs, mine>>
      /\ IF t \in live
           THEN /\ row' = [row EXCEPT ![t] = [@ EXCEPT ![k] = mem[c][k]]]
                /\ typed' = typed \cup Stale(t, todo[c]) /\ Climb(c, todo[c])
           ELSE Finish(c) /\ UNCHANGED <<row, typed, clean>>
  BY DEF WritePatch
<1>2. pc[c] \in Targeted
  BY <1>1 DEF Targeted
<1>3. Stored /\ Registers /\ t \in Tasks /\ todo[c] \in Seq(Tasks) /\ mem[c] \in Row
  BY <1>2, UnderWay
<1>4. CASE t \in live
  <2>1. k \in {"base", "effort", "due"}
    <3>1. op[c] \in Patches
      BY <1>1 DEF TypesInv, IInv, Book, Serves
    <3> QED
      BY <3>1 DEF Patches, PatchedColumn
  <2>2. row[t] \in Row
    BY <1>3 DEF Stored
  <2> HIDE DEF k
  <2>3. r \in Row
    <3>1. CASE k = "base"
      BY <1>3, <2>2, <3>1 DEF Row
    <3>2. CASE k = "effort"
      BY <1>3, <2>2, <3>2 DEF Row
    <3>3. CASE k = "due"
      BY <1>3, <2>2, <3>3 DEF Row
    <3> QED
      BY <2>1, <3>1, <3>2, <3>3
  <2>4. row' = [row EXCEPT ![t] = r]
    BY <1>1, <1>3, <1>4 DEF Stored
  <2> HIDE DEF r
  <2>5. typed' \subseteq Tasks
    BY <1>1, <1>3, <1>4 DEF Stored, Stale
  <2>6. live' \subseteq Tasks /\ unborn \cap live' = {} /\ IsFiniteSet(live')
    BY <1>1, <1>3 DEF Stored
  <2>7. Stored'
    BY <1>1, <1>3, <2>3, <2>4, <2>5, <2>6, RowTyped
  <2> QED
    BY <1>1, <1>3, <1>4, <2>7, ClimbTyped
<1>5. CASE t \notin live
  <2>1. Finish(c) /\ UNCHANGED <<tableVars, mine>> /\ typed' = typed /\ clean' = clean
    BY <1>1, <1>5 DEF tableVars
  <2>2. clean' \in BOOLEAN /\ typed' \subseteq Tasks
    BY <1>3, <2>1 DEF Registers, Stored
  <2> QED
    BY <1>1, <1>3, <2>1, <2>2, TablesUntouched, FinishTyped
<1> QED
  BY <1>4, <1>5

LEMMA SaveTaskTyped ==
  ASSUME TypesInv, NEW c \in Requests, SaveTask(c)
  PROVE  Stored' /\ Registers'
<1> DEFINE t == target[c]
<1>1. /\ pc[c] = "saving" /\ UNCHANGED <<unborn, logs, mine>>
      /\ IF mem[c].parent \in live \cup {NoTask}
           THEN /\ live' = live \cup {t} /\ row' = [row EXCEPT ![t] = mem[c]]
                /\ typed' = typed \cup (IF Referenced(t) THEN {t} ELSE {}) /\ Climb(c, todo[c])
           ELSE Finish(c) /\ UNCHANGED <<live, row, typed, clean>>
  BY DEF SaveTask
<1>2. pc[c] \in Targeted
  BY <1>1 DEF Targeted
<1>3. /\ Stored /\ Registers /\ t \in Tasks /\ t \notin unborn
      /\ todo[c] \in Seq(Tasks) /\ mem[c] \in Row
  BY <1>2, UnderWay
<1>4. CASE mem[c].parent \in live \cup {NoTask}
  <2>1. live' = live \cup {t} /\ row' = [row EXCEPT ![t] = mem[c]] /\ typed' \subseteq Tasks
    BY <1>1, <1>3, <1>4 DEF Stored
  <2>2. live' \subseteq Tasks /\ unborn \cap live' = {}
    BY <1>3, <2>1 DEF Stored
  <2>3. IsFiniteSet(live')
    <3>1. IsFiniteSet(live) /\ IsFiniteSet({t})
      BY <1>3, FS_Singleton DEF Stored
    <3>2. IsFiniteSet(live \cup {t})
      BY <3>1, FS_Union
    <3> QED
      BY <2>1, <3>2
  <2>4. Stored'
    BY <1>1, <1>3, <2>1, <2>2, <2>3, RowTyped
  <2> QED
    BY <1>1, <1>3, <1>4, <2>4, ClimbTyped
<1>5. CASE ~(mem[c].parent \in live \cup {NoTask})
  <2>1. Finish(c) /\ UNCHANGED <<tableVars, mine>> /\ typed' = typed /\ clean' = clean
    BY <1>1, <1>5 DEF tableVars
  <2>2. clean' \in BOOLEAN /\ typed' \subseteq Tasks
    BY <1>3, <2>1 DEF Registers, Stored
  <2> QED
    BY <1>1, <1>3, <2>1, <2>2, TablesUntouched, FinishTyped
<1> QED
  BY <1>4, <1>5

LEMMA StripTyped ==
  ASSUME TypesInv, NEW c \in Requests, Strip(c)
  PROVE  Stored' /\ Registers'
<1>1. /\ pc[c] = "stripping" /\ Goto(c, "removing") /\ UNCHANGED <<live, unborn, row, logs, mine, todo, agg, typed>>
  BY DEF Strip
<1>2. pc[c] \in Targeted /\ "removing" \in PCs /\ "removing" \notin Climbing
  BY <1>1 DEF Targeted, PCs, Climbing
<1>3. /\ Stored /\ Registers /\ target[c] \in Tasks \ unborn /\ todo[c] \in Seq(Tasks) /\ agg[c] \in AggRow
  BY <1>2, UnderWay
<1>4. todo' = [todo EXCEPT ![c] = todo[c]] /\ agg' = [agg EXCEPT ![c] = agg[c]]
  BY <1>1, <1>3 DEF Registers
<1>5. Registers'
  BY <1>1, <1>2, <1>3, <1>4, GotoTyped
<1>6. Stored'
  BY <1>1, <1>3, TablesUntouched DEF Stored, tableVars
<1> QED
  BY <1>5, <1>6

LEMMA RemoveTaskTyped ==
  ASSUME TypesInv, NEW c \in Requests, RemoveTask(c)
  PROVE  Stored' /\ Registers'
<1> DEFINE t == target[c]
<1>1. /\ pc[c] = "removing" /\ UNCHANGED <<unborn, logs, mine, typed>>
      /\ IF Referenced(t)
           THEN Finish(c) /\ UNCHANGED <<live, row, clean>>
           ELSE /\ live' = live \ {t} /\ row' = [row EXCEPT ![t] = NoRow] /\ Climb(c, todo[c])
  BY DEF RemoveTask
<1>2. Stored /\ Registers /\ todo[c] \in Seq(Tasks)
  BY UnderWay
<1>3. typed' \subseteq Tasks
  BY <1>1, <1>2 DEF Stored
<1>4. CASE Referenced(t)
  <2>1. Finish(c) /\ UNCHANGED <<tableVars, mine>> /\ clean' = clean
    BY <1>1, <1>4 DEF tableVars
  <2>2. clean' \in BOOLEAN
    BY <1>2, <2>1 DEF Registers
  <2> QED
    BY <1>1, <1>2, <1>3, <2>1, <2>2, TablesUntouched, FinishTyped
<1>5. CASE ~Referenced(t)
  <2>1. live' = live \ {t} /\ row' = [row EXCEPT ![t] = NoRow] /\ Climb(c, todo[c])
    BY <1>1, <1>5
  <2>2. live' \subseteq Tasks /\ unborn \cap live' = {} /\ IsFiniteSet(live')
    BY <1>2, <2>1, FS_Subset DEF Stored
  <2>3. Stored'
    BY <1>1, <1>2, <1>3, <2>1, <2>2, NothingTyped, RowTyped
  <2> QED
    BY <1>1, <1>2, <2>1, <2>3, ClimbTyped
<1> QED
  BY <1>4, <1>5

LEMMA SumLogsTyped ==
  ASSUME TypesInv, NEW c \in Requests, SumLogs(c)
  PROVE  Stored' /\ Registers'
<1> DEFINE t == target[c]
           a == [NoAgg EXCEPT !.effort = logs[t]]
<1>1. /\ pc[c] = "summing" /\ UNCHANGED <<tableVars, mine, typed>>
      /\ IF t \in live
           THEN /\ agg' = [agg EXCEPT ![c] = a] /\ todo' = [todo EXCEPT ![c] = From(row[t].parent)]
                /\ Goto(c, "adding")
           ELSE Finish(c) /\ UNCHANGED clean
  BY DEF SumLogs
<1>2. pc[c] \in Targeted /\ "adding" \in PCs /\ "adding" \notin Climbing /\ unborn' = unborn
  BY <1>1 DEF Targeted, PCs, Climbing, tableVars
<1>3. Stored /\ Registers /\ t \in Tasks \ unborn
  BY <1>2, UnderWay
<1>4. Stored'
  BY <1>1, <1>3, TablesUntouched DEF Stored
<1>5. CASE t \in live
  <2>1. a \in AggRow
    <3>1. logs[t] \in Nat
      BY <1>3 DEF Stored
    <3> QED
      BY <3>1, TaskTreeAssumption DEF NoAgg, AggRow
  <2>2. From(row[t].parent) \in Seq(Tasks)
    <3>1. row[t].parent \in Tasks \cup {NoTask}
      BY <1>3 DEF Stored, Row
    <3> QED
      BY <3>1, FromTyped
  <2> HIDE DEF a
  <2> QED
    BY <1>1, <1>2, <1>3, <1>4, <1>5, <2>1, <2>2, GotoTyped
<1>6. CASE t \notin live
  <2>1. clean' \in BOOLEAN
    BY <1>1, <1>3, <1>6 DEF Registers
  <2> QED
    BY <1>1, <1>2, <1>3, <1>4, <1>6, <2>1, FinishTyped
<1> QED
  BY <1>5, <1>6

LEMMA SumChildrenTyped ==
  ASSUME TypesInv, NEW c \in Requests, SumChildren(c)
  PROVE  Stored' /\ Registers'
<1> DEFINE t == target[c]
           n == OfChildren(t)
           a == [agg[c] EXCEPT !.effort = n + agg[c].effort]
<1>1. /\ pc[c] = "adding" /\ agg' = [agg EXCEPT ![c].effort = n + @] /\ Goto(c, "writing")
      /\ UNCHANGED <<tableVars, mine, todo, typed>>
  BY DEF SumChildren
<1>2. pc[c] \in Targeted /\ "writing" \in PCs /\ "writing" \notin Climbing /\ unborn' = unborn
  BY <1>1 DEF Targeted, PCs, Climbing, tableVars
<1>3. Stored /\ Registers /\ t \in Tasks \ unborn /\ todo[c] \in Seq(Tasks) /\ agg[c] \in AggRow
  BY <1>2, UnderWay
<1>4. Stored'
  BY <1>1, <1>3, TablesUntouched DEF Stored
<1>5. n \in Nat
  <2> DEFINE ks == ChildrenIn(Committed, t)
             f  == [k \in ks |-> Committed[k].effort]
  <2>1. ks \subseteq live /\ IsFiniteSet(live) /\ \A k \in live : Committed[k] \in Row
    BY <1>3 DEF Stored, Committed, ChildrenIn
  <2>2. IsFiniteSet(ks)
    BY <2>1, FS_Subset
  <2> HIDE DEF ks
  <2>3. DOMAIN f = ks /\ \A k \in DOMAIN f : f[k] \in Nat
    BY <2>1 DEF Row
  <2> HIDE DEF f
  <2>4. SumFunction(f) \in Nat
    BY <2>2, <2>3, SumNat
  <2> QED
    BY <2>4 DEF OfChildren, SumOf, f, ks
<1> HIDE DEF n
<1>6. a \in AggRow
  BY <1>3, <1>5 DEF AggRow
<1>7. agg' = [agg EXCEPT ![c] = a] /\ todo' = [todo EXCEPT ![c] = todo[c]]
  BY <1>1, <1>3 DEF Registers
<1> HIDE DEF a
<1> QED
  BY <1>1, <1>2, <1>3, <1>4, <1>6, <1>7, GotoTyped

LEMMA WriteActualTyped ==
  ASSUME TypesInv, NEW c \in Requests, WriteActual(c)
  PROVE  Stored' /\ Registers'
<1> DEFINE t == target[c]
           r == [row[t] EXCEPT !.effort = agg[c].effort]
<1>1. /\ row' = IF t \in live THEN [row EXCEPT ![t].effort = agg[c].effort] ELSE row
      /\ Climb(c, todo[c]) /\ UNCHANGED <<live, unborn, logs, mine, typed>>
  BY DEF WriteActual
<1>2. Stored /\ Registers /\ todo[c] \in Seq(Tasks) /\ agg[c] \in AggRow
  BY UnderWay
<1>3. live' \subseteq Tasks /\ unborn \cap live' = {} /\ IsFiniteSet(live') /\ typed' \subseteq Tasks
  BY <1>1, <1>2 DEF Stored
<1>4. Registers'
  BY <1>1, <1>2, ClimbTyped
<1>5. CASE t \in live
  <2>1. t \in Tasks /\ row[t] \in Row /\ DOMAIN row = Tasks
    BY <1>2, <1>5 DEF Stored
  <2>2. r \in Row
    BY <1>2, <2>1 DEF Row, AggRow
  <2>3. row' = [row EXCEPT ![t] = r]
    BY <1>1, <1>5, <2>1
  <2> HIDE DEF r
  <2> QED
    BY <1>1, <1>2, <1>3, <1>4, <2>2, <2>3, RowTyped
<1>6. CASE t \notin live
  BY <1>1, <1>2, <1>3, <1>4, <1>6, TablesUntouched DEF tableVars
<1> QED
  BY <1>5, <1>6

LEMMA FailTyped ==
  ASSUME TypesInv, NEW c \in Requests, Fail(c)
  PROVE  Stored' /\ Registers'
<1>1. Finish(c) /\ mine' = [mine EXCEPT ![c] = <<>>] /\ clean' = FALSE /\ UNCHANGED <<tableVars, typed>>
  BY DEF Fail
<1>2. Stored /\ Registers /\ DOMAIN mine = Requests /\ unborn' = unborn
  BY <1>1 DEF TypesInv, IInv, Tables, tableVars
<1>3. Registers'
  BY <1>1, <1>2, FinishTyped
<1>4. \A d \in Requests :
         /\ Pending(d)' \subseteq Tasks \ unborn' /\ IsFiniteSet(Pending(d)')
         /\ \A k \in Pending(d)' : mine'[d][k] \in Row
  BY <1>1, <1>2, NoneLeft
<1>5. Stored'
  BY <1>1, <1>2, <1>4 DEF Stored, tableVars
<1> QED
  BY <1>3, <1>5

LEMMA TypesStart == Init => TypesInv
<1> SUFFICES ASSUME Init PROVE TypesInv
  OBVIOUS
<1>1. IInv
  BY InitOK
<1>2. /\ live = DOMAIN Tree /\ unborn = Tasks \ live /\ logs = [t \in Tasks |-> 0]
      /\ row = [t \in Tasks |-> IF t \in live THEN Tree[t] ELSE NoRow]
      /\ mine = [c \in Requests |-> <<>>] /\ pc = [c \in Requests |-> "idle"]
      /\ op = [c \in Requests |-> "none"] /\ target = [c \in Requests |-> NoTask]
      /\ mem = [c \in Requests |-> NoRow] /\ todo = [c \in Requests |-> <<>>]
      /\ agg = [c \in Requests |-> NoAgg] /\ served = 0 /\ clean = TRUE /\ typed = {}
  BY DEF Init
<1>3. \A t \in live : Tree[t] \in Row
  BY <1>2, TreeAssumption
<1>4. row \in [Tasks -> Row] /\ live \subseteq Tasks /\ IsFiniteSet(live)
  BY <1>2, <1>3, NothingTyped, TreeAssumption
<1>5. \A c \in Requests : Pending(c) = {}
  BY <1>2 DEF Pending
<1>6. Stored
  <2>1. logs \in [Tasks -> Nat] /\ unborn \subseteq Tasks \ live /\ typed \subseteq Tasks
    BY <1>2
  <2> QED
    BY <1>4, <1>5, <2>1, FS_EmptySet DEF Stored
<1>7. Registers
  <2>1. "idle" \in PCs /\ "none" \in Ops /\ "idle" \notin Targeted /\ "idle" \notin Climbing
    BY DEF PCs, Ops, Targeted, Climbing
  <2>2. /\ pc \in [Requests -> PCs] /\ op \in [Requests -> Ops]
        /\ target \in [Requests -> Tasks \cup {NoTask}] /\ mem \in [Requests -> Row]
        /\ agg \in [Requests -> AggRow] /\ \A c \in Requests : pc[c] = "idle"
    BY <1>2, <2>1, NothingTyped
  <2>3. todo \in [Requests -> Seq(Tasks)]
    <3>1. <<>> \in Seq(Tasks)
      OBVIOUS
    <3> QED
      BY <1>2, <3>1
  <2>4. served \in 0..MaxServed /\ clean \in BOOLEAN
    BY <1>2, TaskTreeAssumption
  <2> QED
    BY <2>1, <2>2, <2>3, <2>4 DEF Registers, Finds
<1> QED
  BY <1>1, <1>6, <1>7 DEF TypesInv

LEMMA TypesStep == TypesInv /\ [Next]_vars => TypesInv'
<1> SUFFICES ASSUME TypesInv, [Next]_vars PROVE TypesInv'
  OBVIOUS
<1>1. IInv'
  BY StepOK DEF TypesInv
<1>2. CASE UNCHANGED vars
  <2>1. Stored' /\ Registers'
    BY <1>2 DEF vars, tableVars, requestVars, TypesInv, Stored, Registers, Finds, Pending
  <2> QED
    BY <1>1, <2>1 DEF TypesInv
<1>3. ASSUME NEW c \in Requests, Create(c) PROVE Stored' /\ Registers'
  BY <1>3, CreateTyped
<1>4. ASSUME NEW c \in Requests,
             \/ StartStatus(c) \/ StartProgress(c) \/ StartEffort(c) \/ StartDates(c)
             \/ LoadTask(c) \/ StartDelete(c) \/ AddLog(c) \/ ChangeLog(c) \/ DeleteLog(c)
      PROVE  Stored' /\ Registers'
  BY <1>4, HandlersTyped
<1>5. ASSUME NEW c \in Requests, Step(c) PROVE Stored' /\ Registers'
  BY <1>5, AggregateTyped, ApplyTyped, CommitTyped, WritePatchTyped, SaveTaskTyped, StripTyped,
     RemoveTaskTyped, SumLogsTyped, SumChildrenTyped, WriteActualTyped DEF Step
<1>6. ASSUME NEW c \in Requests, Fail(c) PROVE Stored' /\ Registers'
  BY <1>6, FailTyped
<1>7. CASE Next
  <2>1. Stored' /\ Registers'
    BY <1>3, <1>4, <1>5, <1>6, <1>7 DEF Next
  <2> QED
    BY <1>1, <2>1 DEF TypesInv
<1> QED
  BY <1>2, <1>7

\* The inductive invariant of the types: the ids that were given out stay out of
\* unborn, there are finitely many tasks to sum over, and a request that climbs
\* has a level to climb to.
THEOREM TypesInvariant == Spec => []TypesInv
BY TypesStart, TypesStep, PTL DEF Spec

\* Types: whatever creates, roll-ups, moves, saves and removals interleave, the
\* tasks, their parents and the columns stay in their types; a save of a removed
\* task brings no id back that could be given out again.
THEOREM TreeTypesHold == Spec => []TypeOK
<1>1. TypesInv => TypeOK
  <2> SUFFICES ASSUME TypesInv PROVE TypeOK
    OBVIOUS
  <2>1. Stored /\ Registers
    BY DEF TypesInv
  <2> QED
    BY <2>1 DEF Stored, Registers, TypeOK, AggRow
<1> QED
  BY <1>1, TypesInvariant, PTL
=============================================================================
