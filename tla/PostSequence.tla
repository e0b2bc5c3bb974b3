---------------------------- MODULE PostSequence ----------------------------
(***************************************************************************)
(* Allocation of ticket and task codes.                                    *)
(*                                                                         *)
(* A code is a prefix followed by a number.  The number comes from a row   *)
(* of the table post_sequence, one row per numbering scope (a ticket       *)
(* space; for tasks a task space, a level letter and a parent task).  A    *)
(* scope is called a space here.  The row is locked FOR UPDATE by the      *)
(* transaction that draws a number and stays locked until it ends, and the *)
(* number is corrected downwards against the codes really in the table.    *)
(*                                                                         *)
(* Isolation is READ COMMITTED: a statement sees what was committed before *)
(* it, plus its own transaction's writes.  Each action below is one        *)
(* statement, so every interleaving of statements is explored.             *)
(*                                                                         *)
(* The constants choose the caller:                                        *)
(*   UniqueCode    the table has a unique index on the code (ticket does,  *)
(*                 tm_task does not)                                       *)
(*   AtomicDelete  a delete and the counter's decrement are one            *)
(*                 transaction (TicketService) or separate ones            *)
(*                 (TaskService)                                           *)
(*   Requests      the requests users make: "submit" and "peek" are forms  *)
(*                 that send back the code they were shown                 *)
(*   Seed          the counter rows that exist already                     *)
(***************************************************************************)
EXTENDS Naturals, Sequences

CONSTANTS
  Clients,       \* requests being served, each on its own connection
  Spaces,        \* numbering scopes
  Prefix,        \* the text that precedes the number, of every space
  RowIds,        \* identities for rows of post_sequence
  Ids,           \* identities for rows of ticket or tm_task
  NoClient, NoSpace, NoCode, NoId,
  UniqueCode, AtomicDelete, Requests,
  Seed,          \* the space of each row that exists at the start
  Batches,       \* the lists of spaces that one create request may carry
  MaxInt         \* the largest number an integer column holds

ASSUME SentinelAssumption ==
  /\ NoClient \notin Clients /\ NoSpace \notin Spaces /\ NoId \notin Ids
  /\ NoCode \notin [space : Spaces, num : Nat \ {0}]

ASSUME ConfigAssumption ==
  /\ UniqueCode \in BOOLEAN /\ AtomicDelete \in BOOLEAN
  /\ Seed \in [RowIds -> Spaces \cup {NoSpace}]
  /\ Batches \subseteq Seq(Spaces) /\ <<>> \notin Batches
  /\ MaxInt \in Nat \ {0}

VARIABLES
  rows,      \* the committed rows of post_sequence
  rowSpace,  \* the scope a row belongs to, an uncommitted one included
  next,      \* nextNumber as committed
  draft,     \* nextNumber as the transaction that holds the row sees it;
             \* the same as next when none does
  holder,    \* the transaction that holds the row's lock
  posts,     \* the committed tickets or tasks
  made,      \* the tickets or tasks a transaction inserted, uncommitted
  pc,        \* the statement a request is at
  op,        \* what the request does
  todo,      \* the spaces of the items a create has still to number
  code,      \* the code in hand
  target,    \* the post a delete removes
  form       \* the code a preview put in the user's form

rowVars    == <<rows, rowSpace, next, draft, holder>>
postVars   == <<posts, made>>
clientVars == <<pc, op, todo, code, target, form>>
vars       == <<rowVars, postVars, clientVars>>

Number == Nat \ {0}
Code  == [space : Spaces, num : Number]
Post  == [id : Ids, space : Spaces, num : Number]
PCs   == {"idle", "deleting", "locking", "bootstrapping", "computing",
          "inserting", "committing"}
Ops   == {"none", "create", "submit", "preview", "delete"}

\* What is stored in the column "code"
Text(x) == <<Prefix[x.space], x.num>>
CodeOf(p) == [space |-> p.space, num |-> p.num]

\* The rows the transaction of c has locked or inserted
Held(c) == {r \in RowIds : holder[r] = c}

\* The post of c's delete is removed but not yet committed
Removing(c) ==
  AtomicDelete /\ op[c] = "delete" /\ pc[c] \in {"locking", "computing", "committing"}
Removed(c) == {p \in posts : Removing(c) /\ p.id = target[c]}

\* What a statement of c sees of the table
Visible(c) == (posts \ Removed(c)) \cup made[c]

\* queryActualMax: the largest number in the scope, 0 when there is none
IsActualMax(m, c, s) ==
  LET nums == {p.num : p \in {q \in Visible(c) : q.space = s}}
  IN  \/ nums = {} /\ m = 0
      \/ m \in nums /\ \A n \in nums : n <= m

Init ==
  /\ rowSpace = Seed
  /\ rows = {r \in RowIds : Seed[r] # NoSpace}
  /\ next = [r \in RowIds |-> 1]
  /\ draft = [r \in RowIds |-> 1]
  /\ holder = [r \in RowIds |-> NoClient]
  /\ posts = {}
  /\ made = [c \in Clients |-> {}]
  /\ pc = [c \in Clients |-> "idle"]
  /\ op = [c \in Clients |-> "none"]
  /\ todo = [c \in Clients |-> <<>>]
  /\ code = [c \in Clients |-> NoCode]
  /\ target = [c \in Clients |-> NoId]
  /\ form = [c \in Clients |-> NoCode]

-----------------------------------------------------------------------------
(* Requests arrive *)

\* A request starts: create is a POST with the items' spaces, none with a code.
Begin(c, o, batch) ==
  /\ o \in Requests /\ pc[c] = "idle"
  /\ pc' = [pc EXCEPT ![c] = "locking"]
  /\ op' = [op EXCEPT ![c] = o]
  /\ todo' = [todo EXCEPT ![c] = batch]
  /\ UNCHANGED <<rowVars, postVars, code, target, form>>

BeginCreate(c)  == \E b \in Batches : Begin(c, "create", b)
BeginPreview(c) == \E s \in Spaces : Begin(c, "preview", <<s>>)

\* A create whose DTO carries a code stores that code: no number is drawn.
SubmitForm(c) ==
  /\ "submit" \in Requests /\ pc[c] = "idle" /\ form[c] # NoCode
  /\ pc' = [pc EXCEPT ![c] = "inserting"]
  /\ op' = [op EXCEPT ![c] = "submit"]
  /\ todo' = [todo EXCEPT ![c] = <<form[c].space>>]
  /\ code' = [code EXCEPT ![c] = form[c]]
  /\ form' = [form EXCEPT ![c] = NoCode]
  /\ UNCHANGED <<rowVars, postVars, target>>

\* peekNextCode: the preview that leaves the counter alone (tasks only).
PeekCode(c) ==
  /\ "peek" \in Requests /\ pc[c] = "idle"
  /\ \E s \in Spaces, m \in 0..MaxInt :
       /\ IsActualMax(m, c, s)
       /\ form' = [form EXCEPT ![c] = [space |-> s, num |-> m + 1]]
  /\ UNCHANGED <<rowVars, postVars, pc, op, todo, code, target>>

\* The handler of a delete has found the post with its first, unlocked read.
BeginDelete(c) ==
  /\ "delete" \in Requests /\ pc[c] = "idle"
  /\ \E p \in posts :
       /\ target' = [target EXCEPT ![c] = p.id]
       /\ code' = [code EXCEPT ![c] = CodeOf(p)]
       /\ todo' = [todo EXCEPT ![c] = <<p.space>>]
  /\ pc' = [pc EXCEPT ![c] = "deleting"]
  /\ op' = [op EXCEPT ![c] = "delete"]
  /\ UNCHANGED <<rowVars, postVars, form>>

-----------------------------------------------------------------------------
(* Ends of a transaction *)

\* The end of the transaction frees its row locks; a leaked one stays.
LeakLocks(c) == holder
Released(c) == [r \in RowIds |-> IF holder[r] = c THEN NoClient ELSE holder[r]]

\* The client is idle again.
Finish(c) ==
  /\ holder' = Released(c)
  /\ made' = [made EXCEPT ![c] = {}]
  /\ pc' = [pc EXCEPT ![c] = "idle"]
  /\ todo' = [todo EXCEPT ![c] = <<>>]
  /\ code' = [code EXCEPT ![c] = NoCode]
  /\ target' = [target EXCEPT ![c] = NoId]
  /\ op' = [op EXCEPT ![c] = "none"]

Rollback(c) ==
  /\ Finish(c)
  /\ rowSpace' = [r \in RowIds |-> IF holder[r] = c /\ r \notin rows
                                     THEN NoSpace ELSE rowSpace[r]]
  /\ draft' = [r \in RowIds |-> IF holder[r] = c THEN next[r] ELSE draft[r]]
  /\ UNCHANGED <<rows, next, posts, form>>

\* The transaction commits; a preview hands its code to the form.
Commit(c) ==
  /\ pc[c] = "committing"
  /\ Finish(c)
  /\ rows' = rows \cup Held(c)
  /\ next' = [r \in RowIds |-> IF holder[r] = c THEN draft[r] ELSE next[r]]
  /\ posts' = Visible(c)
  /\ form' = IF op[c] = "preview" /\ "submit" \in Requests
               THEN [form EXCEPT ![c] = code[c]] ELSE form
  /\ UNCHANGED <<rowSpace, draft>>

\* Any statement may fail (a validation error, a lost connection, a crash of
\* the process): the database rolls the open transaction back.
Fail(c) == pc[c] # "idle" /\ Rollback(c)

-----------------------------------------------------------------------------
(* generateAndAssignCode *)

\* FOR UPDATE: nobody else holds the row.  As a plain SELECT it would be free.
NotLocked(r) == TRUE
Available(r) == holder[r] = NoClient

\* findOne with pessimistic_write: waits while another transaction holds the
\* row.  Which of several matching rows LIMIT 1 returns is not defined.
LockRow(c, r) ==
  /\ pc[c] = "locking"
  /\ rowSpace[r] = Head(todo[c])
  /\ \/ holder[r] = c
     \/ r \in rows /\ Available(r) /\ \A q \in Held(c) : rowSpace[q] # rowSpace[r]
  /\ holder' = [holder EXCEPT ![r] = c]
  /\ pc' = [pc EXCEPT ![c] = "computing"]
  /\ UNCHANGED <<rows, rowSpace, next, draft, postVars, op, todo, code, target, form>>

\* No row: a draw goes on to insert one, a decrement is done.
FindNoRow(c) ==
  /\ pc[c] = "locking"
  /\ \A r \in rows \cup Held(c) : rowSpace[r] # Head(todo[c])
  /\ pc' = [pc EXCEPT ![c] = IF op[c] = "delete" THEN "committing" ELSE "bootstrapping"]
  /\ UNCHANGED <<rowVars, postVars, op, todo, code, target, form>>

\* The number is in hand: a preview ends here, a create goes on to insert.
Draw(c, r, n) ==
  /\ n + 1 <= MaxInt
  /\ code' = [code EXCEPT ![c] = [space |-> Head(todo[c]), num |-> n]]
  /\ draft' = [draft EXCEPT ![r] = n + 1]
  /\ pc' = [pc EXCEPT ![c] = IF op[c] = "preview" THEN "committing" ELSE "inserting"]
  /\ UNCHANGED <<rows, next, postVars, op, todo, target, form>>

\* The first number of a scope: a row is inserted.  Its key holds NULLs, so
\* the unique constraint on the key stops no second insert.
Bootstrap(c, r) ==
  /\ pc[c] = "bootstrapping"
  /\ r \notin rows /\ holder[r] = NoClient
  /\ \E m \in 0..MaxInt : IsActualMax(m, c, Head(todo[c])) /\ Draw(c, r, m + 1)
  /\ rowSpace' = [rowSpace EXCEPT ![r] = Head(todo[c])]
  /\ holder' = [holder EXCEPT ![r] = c]

\* The number given out: the counter, corrected down to the real maximum.
\* It could be corrected too far, or not at all.
CorrectedToMax(n, m) == IF n > m + 1 THEN m ELSE n
NotCorrected(n, m) == n
Corrected(n, m) == IF n > m + 1 THEN m + 1 ELSE n

ComputeCode(c, r) ==
  /\ pc[c] = "computing" /\ op[c] # "delete"
  /\ r \in Held(c) /\ rowSpace[r] = Head(todo[c])
  /\ \E m \in 0..MaxInt :
       IsActualMax(m, c, Head(todo[c])) /\ Draw(c, r, Corrected(draft[r], m))
  /\ UNCHANGED <<rowSpace, holder>>

\* The number or the maximum leaves the range of the integer column: the
\* query or the save raises an error.
OutOfRange(c) ==
  /\ pc[c] \in {"bootstrapping", "computing"} /\ op[c] # "delete"
  /\ \A m \in 0..MaxInt : IsActualMax(m, c, Head(todo[c])) =>
       \/ pc[c] = "bootstrapping" /\ m + 2 > MaxInt
       \/ \E r \in Held(c) : rowSpace[r] = Head(todo[c]) /\ Corrected(draft[r], m) + 1 > MaxInt
  /\ Rollback(c)

-----------------------------------------------------------------------------
(* The insert of the ticket or task *)

\* Another transaction has inserted, or is removing, a row with the same code:
\* the insert waits for that transaction's end.
InsertWaits(c) ==
  /\ UniqueCode
  /\ \E d \in Clients \ {c} : \E p \in made[d] \cup Removed(d) : Text(p) = Text(code[c])

\* The index refuses a code that is there.
Taken(c) == \E p \in posts \cup made[c] : Text(p) = Text(code[c])

\* The SERIAL of the table has not given out i
Unused(i) ==
  /\ \A p \in posts : p.id # i
  /\ \A d \in Clients : target[d] # i /\ \A p \in made[d] : p.id # i

Insert(c, i) ==
  /\ pc[c] = "inserting"
  /\ UniqueCode => ~InsertWaits(c) /\ ~Taken(c)
  /\ Unused(i)
  /\ made' = [made EXCEPT ![c] =
       @ \cup {[id |-> i, space |-> code[c].space, num |-> code[c].num]}]
  /\ todo' = [todo EXCEPT ![c] = Tail(@)]
  /\ pc' = [pc EXCEPT ![c] = IF Tail(todo[c]) = <<>> THEN "committing" ELSE "locking"]
  /\ UNCHANGED <<rowVars, posts, op, code, target, form>>

\* The unique index refuses the row, or ids run out, and the request fails.
InsertRefused(c) ==
  /\ pc[c] = "inserting"
  /\ \/ UniqueCode /\ ~InsertWaits(c) /\ Taken(c)
     \/ \A i \in Ids : ~Unused(i)
  /\ Rollback(c)

-----------------------------------------------------------------------------
(* Delete and reduceSequenceIfMaximum *)

\* Two deletes of one ticket: the second waits for the first, then finds
\* nothing and fails.  Two deletes of one task: the second removes nothing
\* and goes on.
DeletePost(c) ==
  /\ pc[c] = "deleting"
  /\ IF AtomicDelete
       THEN /\ \E p \in posts : p.id = target[c]
            /\ \A d \in Clients \ {c} : ~(Removing(d) /\ target[d] = target[c])
            /\ UNCHANGED posts
       ELSE posts' = {p \in posts : p.id # target[c]}
  /\ pc' = [pc EXCEPT ![c] = "locking"]
  /\ UNCHANGED <<rowVars, made, op, todo, code, target, form>>

DeleteNotFound(c) ==
  /\ pc[c] = "deleting" /\ AtomicDelete
  /\ \A p \in posts : p.id # target[c]
  /\ Rollback(c)

\* The deleted number was the last one given out: give it back.  A bug would
\* give one back for any delete.
AnyNumber(c, r) == code[c].num < draft[r]
IsLastNumber(c, r) == code[c].num = draft[r] - 1

ReduceSequence(c, r) ==
  /\ pc[c] = "computing" /\ op[c] = "delete"
  /\ r \in Held(c) /\ rowSpace[r] = Head(todo[c])
  /\ draft' = IF IsLastNumber(c, r) THEN [draft EXCEPT ![r] = draft[r] - 1] ELSE draft
  /\ pc' = [pc EXCEPT ![c] = "committing"]
  /\ UNCHANGED <<rows, rowSpace, next, holder, postVars, op, todo, code, target, form>>

-----------------------------------------------------------------------------
(* Waits *)

\* c waits for a lock or for the fate of a row of d
WaitsFor(c, d) ==
  /\ c # d
  /\ \/ /\ pc[c] = "locking"
        /\ \A r \in Held(c) : rowSpace[r] # Head(todo[c])
        /\ \E r \in rows : rowSpace[r] = Head(todo[c])
        /\ \A r \in rows : rowSpace[r] = Head(todo[c]) => holder[r] # NoClient
        /\ \E r \in rows : rowSpace[r] = Head(todo[c]) /\ holder[r] = d
     \/ /\ pc[c] = "inserting" /\ UniqueCode
        /\ \E p \in made[d] \cup Removed(d) : Text(p) = Text(code[c])
     \/ pc[c] = "deleting" /\ Removing(d) /\ target[d] = target[c]

\* c is in a circle of transactions that wait for one another: the database
\* notices and ends one of them with an error.
InCircle(c) ==
  \E S \in SUBSET Clients : c \in S /\ \A x \in S : \E y \in S : WaitsFor(x, y)
DeadlockDetected(c) == InCircle(c) /\ Rollback(c)

-----------------------------------------------------------------------------
Statement(c) ==
  \/ Commit(c)
  \/ FindNoRow(c)
  \/ OutOfRange(c)
  \/ \E r \in RowIds : \/ LockRow(c, r)
                       \/ Bootstrap(c, r)
                       \/ ComputeCode(c, r)
                       \/ ReduceSequence(c, r)
  \/ \E i \in Ids : Insert(c, i)
  \/ InsertRefused(c)
  \/ DeletePost(c)
  \/ DeleteNotFound(c)
  \/ DeadlockDetected(c)

Next == \E c \in Clients :
  \/ BeginCreate(c) \/ BeginPreview(c) \/ BeginDelete(c)
  \/ SubmitForm(c) \/ PeekCode(c)
  \/ Statement(c)
  \/ Fail(c)

Spec == Init /\ [][Next]_vars

\* The driver awaits each statement, and the database queues the transactions
\* that wait for a row lock, so none is overtaken for ever.
FairSpec == Spec /\ \A c \in Clients : SF_vars(Statement(c))

-----------------------------------------------------------------------------
(* Correctness *)

TypeOK ==
  /\ rows \subseteq RowIds
  /\ rowSpace \in [RowIds -> Spaces \cup {NoSpace}]
  /\ next \in [RowIds -> Number] /\ draft \in [RowIds -> Number]
  /\ holder \in [RowIds -> Clients \cup {NoClient}]
  /\ posts \subseteq Post
  /\ made \in [Clients -> SUBSET Post]
  /\ pc \in [Clients -> PCs] /\ op \in [Clients -> Ops]
  /\ todo \in [Clients -> Seq(Spaces)]
  /\ code \in [Clients -> Code \cup {NoCode}]
  /\ target \in [Clients -> Ids \cup {NoId}]
  /\ form \in [Clients -> Code \cup {NoCode}]

\* No two tickets or tasks carry the same code ("Lock the row to prevent
\* concurrent code duplication").
CodesUnique == \A p, q \in posts : Text(p) = Text(q) => p = q

\* A number that was drawn is still free when the item is inserted: while the
\* drawing transaction is open no other item has the code, so its insert is
\* neither refused nor a duplicate.
AutoCodeFresh ==
  \A c \in Clients : pc[c] = "inserting" /\ op[c] = "create" =>
    /\ \A p \in posts : Text(p) # Text(code[c])
    /\ \A d \in Clients : \A p \in made[d] : Text(p) # Text(code[c])

\* A counter nobody is using is ahead of every code of its space, whatever
\* previews, failures, deletes and decrements came before.
CounterAhead ==
  \A r \in rows : holder[r] = NoClient =>
    \A p \in posts : p.space = rowSpace[r] => p.num < next[r]

\* Every request is answered.
RequestEnds == \A c \in Clients : pc[c] # "idle" ~> pc[c] = "idle"

\* Committed codes behave as the registry of codes promises.
Live == {CodeOf(p) : p \in posts}
Registry == INSTANCE CodeRegistry WITH live <- Live
DenseCodes == Registry!Spec

-----------------------------------------------------------------------------
(***************************************************************************)
(* The ticket regime: codes are drawn, never typed in; every space has its *)
(* one row; a delete and its decrement commit together; prefixes differ.   *)
(* In it the counter is right, and the inductive invariant below says why. *)
(***************************************************************************)
TicketRegime ==
  /\ AtomicDelete
  /\ Requests \subseteq {"create", "preview", "delete"}
  /\ \A s \in Spaces : \E r \in RowIds : Seed[r] = s
  /\ \A q, r \in RowIds : Seed[q] = Seed[r] /\ Seed[r] # NoSpace => q = r
  /\ \A s, t \in Spaces : Prefix[s] = Prefix[t] => s = t

\* No row is ever inserted, so nobody bootstraps.
RowsFixed ==
  /\ rowSpace = Seed
  /\ rows = {r \in RowIds : Seed[r] # NoSpace}
  /\ \A r \in RowIds : holder[r] # NoClient => r \in rows
  /\ \A c \in Clients : pc[c] # "bootstrapping"

\* What each statement has in hand
ControlOK == \A c \in Clients :
  /\ pc[c] = "idle" => made[c] = {} /\ Held(c) = {}
  /\ pc[c] = "idle" <=> op[c] = "none"
  /\ pc[c] \in {"locking", "computing", "inserting"} => todo[c] # <<>>
  /\ pc[c] \in {"deleting", "inserting"} => op[c] = IF pc[c] = "inserting" THEN "create" ELSE "delete"
  /\ op[c] # "create" => made[c] = {}
  /\ op[c] \in {"none", "create", "preview", "delete"}
  /\ op[c] = "delete" =>
       /\ code[c] \in Code /\ target[c] \in Ids
       /\ todo[c] # <<>> /\ Head(todo[c]) = code[c].space
       /\ pc[c] = "deleting" => Held(c) = {}
  /\ pc[c] = "computing" \/ (pc[c] = "committing" /\ op[c] = "delete") =>
       \E r \in Held(c) : rowSpace[r] = Head(todo[c])

\* Ids are not reused: the target of a delete is the post it read.
IdsDistinct ==
  /\ \A p, q \in posts : p.id = q.id => p = q
  /\ \A c \in Clients : \A p \in made[c] : \A q \in posts : p.id # q.id
  /\ \A c, d \in Clients : \A p \in made[c], q \in made[d] : p.id = q.id => c = d /\ p = q
  /\ \A c, d \in Clients : \A p \in made[c] : target[d] # p.id
  /\ \A c \in Clients : \A p \in posts :
       op[c] = "delete" /\ p.id = target[c] => CodeOf(p) = code[c]

\* A delete under way still has its post to itself.
RemovalsDistinct ==
  /\ \A c \in Clients : Removing(c) => \E p \in posts : p.id = target[c]
  /\ \A c, d \in Clients : Removing(c) /\ Removing(d) /\ target[c] = target[d] => c = d

\* Numbers differ within a space, committed or not.
NumbersDistinct ==
  /\ \A p, q \in posts : CodeOf(p) = CodeOf(q) => p = q
  /\ \A c \in Clients : \A p, q \in made[c] : CodeOf(p) = CodeOf(q) => p = q

\* The counter is ahead of what is committed, the copy of the transaction that
\* holds the row is ahead of what that transaction sees.
CounterOK ==
  /\ \A r \in RowIds : holder[r] = NoClient => draft[r] = next[r]
  /\ \A r \in RowIds : \A p \in posts : p.space = rowSpace[r] => p.num < next[r]
  /\ \A c \in Clients : \A r \in Held(c) : \A p \in Visible(c) :
       p.space = rowSpace[r] => p.num < draft[r]

\* Items are inserted under the lock of their space's row, above all others.
MadeOK == \A c \in Clients : \A p \in made[c] :
  /\ \E r \in Held(c) : rowSpace[r] = p.space
  /\ \A q \in posts : q.space = p.space => q.num < p.num

\* The code in hand is the one the counter has just passed.
CodeInHand == \A c \in Clients : pc[c] = "inserting" =>
  /\ code[c] \in Code /\ code[c].space = Head(todo[c])
  /\ \E r \in Held(c) : rowSpace[r] = code[c].space /\ draft[r] = code[c].num + 1
  /\ \A p \in Visible(c) : p.space = code[c].space => p.num < code[c].num

\* x is the first number of its space or follows one that c can see.
Follows(x, c) ==
  x.num = 1 \/ \E q \in Visible(c) : q.space = x.space /\ q.num = x.num - 1

\* No number is skipped.
DenseOK == \A c \in Clients :
  /\ \A p \in made[c] : Follows(p, c)
  /\ pc[c] = "inserting" => Follows(code[c], c)

IInv ==
  /\ TypeOK /\ RowsFixed /\ ControlOK /\ IdsDistinct /\ RemovalsDistinct
  /\ NumbersDistinct /\ CounterOK /\ MadeOK /\ CodeInHand /\ DenseOK
=============================================================================
