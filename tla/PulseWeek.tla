----------------------------- MODULE PulseWeek -----------------------------
(***************************************************************************)
(* Weekly pulse snapshots.                                                 *)
(*                                                                         *)
(* Every night the cron lists the users whose week ends that day and who   *)
(* have no snapshot for it, and drafts one for each, a chunk of users at a *)
(* time.  Users create, sync, fill and submit their weeks, a reporting     *)
(* person forwards, approves or rejects them.  Every handler loads the     *)
(* week, changes the entity and saves it: TypeORM's save then writes all   *)
(* that differs from the row, a change of somebody else included.          *)
(*                                                                         *)
(* A period stands for its start and end date, which the client sends with *)
(* its own user id.  A week's pulses are the one that time is logged on    *)
(* and the sum of the others; only the types that a sync sums are counted. *)
(* The total of a new week is not computed from them: the cron counts an   *)
(* item once however many pulses it writes for it, a client sends what it  *)
(* likes.                                                                  *)
(***************************************************************************)
EXTENDS Integers, Sequences, FiniteSetsExt

CONSTANTS
  Users,        \* the users with a resource
  Linked,       \* users whose resource holds their user id
  ChunkSize,    \* users drafted at the same time
  Callers,      \* the requests served at the same time
  Operations,   \* what the requests do
  Periods,      \* 1..n
  ClientStatuses, \* what clients set as the status of a week they create
  MaxWeeks,     \* bound: rows of pulse_week
  Hours,        \* hours of a pulse
  MaxCalls      \* bound: requests served in all

ASSUME PulseAssumption ==
  /\ Linked \subseteq Users /\ Users \cap Callers = {}
  /\ ChunkSize \in Nat \ {0}
  /\ Periods \subseteq Nat \ {0} /\ 1 \in Periods
  /\ Hours \subseteq Nat /\ {MaxWeeks, MaxCalls} \subseteq Nat

Statuses == {"DRAFT", "PENDING", "FORWARDED", "APPROVED", "REJECTED"}
ASSUME StatusAssumption == ClientStatuses \subseteq Statuses

VARIABLES
  week,     \* the rows of pulse_week, in the order of their ids
  others,   \* the hours of each week's pulses, but for ...
  logged,   \* ... the pulse that time is logged on
  pc, op,   \* of the requests, and of the cron's job for each user
  target,   \* the row a process works on, 0 for a new one
  entity,   \* the entity it has in memory
  given,    \* the hours it was given
  today,    \* the period that ends today
  cron,     \* "idle" or "running"
  waiting,  \* the users the cron has still to draft for
  calls,    \* requests served so far
  loose,    \* weeks whose total was last written without summing, or
            \* whose pulses have been edited since
  clean     \* no two of the requests and the cron have yet overlapped

weekVars == <<week, others, logged>>
procVars  == <<pc, op, target, entity, given>>
cronVars  == <<cron, waiting>>
pulseVars == <<weekVars, procVars, cronVars, today, calls, clean, loose>>

Processes == Callers \cup Users
Weeks     == DOMAIN week
Row == [user : Users, period : Periods, status : Statuses,
        to : {"nobody", "reporter", "other"}, total : Int]
NoRow == <<>>
PCs == {"idle", "looking", "creating", "syncing", "summing", "storing",
        "logging", "editing"}
Ops == {"none", "create", "sync", "submit", "forward", "approve", "reject", "log", "edit"}

PulseInit ==
  /\ week = <<>> /\ others = <<>> /\ logged = <<>>
  /\ pc = [x \in Processes |-> "idle"]
  /\ op = [x \in Processes |-> "none"]
  /\ target = [x \in Processes |-> 0]
  /\ entity = [x \in Processes |-> NoRow]
  /\ given = [x \in Processes |-> 0]
  /\ today = 1
  /\ cron = "idle" /\ waiting = {}
  /\ calls = 0 /\ clean = TRUE /\ loose = {}

Goto(x, step) == pc' = [pc EXCEPT ![x] = step]

Finish(x) ==
  /\ Goto(x, "idle")
  /\ op' = [op EXCEPT ![x] = "none"]
  /\ target' = [target EXCEPT ![x] = 0]
  /\ entity' = [entity EXCEPT ![x] = NoRow]
  /\ given' = [given EXCEPT ![x] = 0]

\* A process starts on row w with the entity m and the hours h.
Start(x, o, step, w, m, h) ==
  /\ pc[x] = "idle"
  /\ Goto(x, step)
  /\ op' = [op EXCEPT ![x] = o]
  /\ target' = [target EXCEPT ![x] = w]
  /\ entity' = [entity EXCEPT ![x] = m]
  /\ given' = [given EXCEPT ![x] = h]

Call(c, o, step, w, m, h) ==
  /\ o \in Operations /\ calls < MaxCalls
  /\ Start(c, o, step, w, m, h)
  /\ calls' = calls + 1
  /\ clean' = (clean /\ cron = "idle" /\ \A x \in Processes : pc[x] = "idle")
  /\ UNCHANGED <<weekVars, cronVars, today, loose>>

\* The week of the day is over; the cron runs once for it.
NextPeriod ==
  /\ cron = "idle" /\ today + 1 \in Periods
  /\ today' = today + 1
  /\ UNCHANGED <<weekVars, procVars, cronVars, calls, clean, loose>>

-----------------------------------------------------------------------------
(* createPulseWeek: one transaction, for a user's request or a job of the cron *)

Of(u, p) == {w \in Weeks : week[w].user = u /\ week[w].period = p}
Rejected(u) == {w \in Weeks : week[w].user = u /\ week[w].status = "REJECTED"}

\* A week that was submitted is not written over; a bug would protect only those
\* a reporting person has dealt with.
DealtWith(s) == s \in {"FORWARDED", "APPROVED"}
Submitted(s) == s \in {"PENDING", "FORWARDED", "APPROVED"}

\* The cron drafts; a user's week goes to the reporting person, with the status
\* and the totals of the request, pending and zero by default.
FreshLowerCase(x, u, p, s, t) ==
  [user |-> u, period |-> p, status |-> IF x \in Users THEN "draft" ELSE s,
   to |-> IF x \in Users THEN "nobody" ELSE "reporter", total |-> t]
Fresh(x, u, p, s, t) ==
  [user |-> u, period |-> p, status |-> IF x \in Users THEN "DRAFT" ELSE s,
   to |-> IF x \in Users THEN "nobody" ELSE "reporter", total |-> t]

\* The row to write: that of the period, else the latest one that was rejected,
\* of whatever period, else a new one.
Candidates(u, p) ==
  IF Of(u, p) # {} THEN Of(u, p)
  ELSE IF Rejected(u) # {} THEN {Max(Rejected(u))}
  ELSE {0}

BeginCreate(c) ==
  \E u \in Users, p \in {today} \cup ({today - 1} \cap Periods),
     s \in ClientStatuses \cup {"PENDING"}, t \in Hours \cup {0}, h \in Hours :
    Call(c, "create", "looking", 0, Fresh(c, u, p, s, t), h)

\* The transaction fails when the week was already submitted.
Refused(x) ==
  \E w \in Candidates(entity[x].user, entity[x].period) : w # 0 /\ Submitted(week[w].status)

\* The totals to write on a row that was found: a user may have sent none.
Totals(x, w) ==
  {entity[x].total} \cup (IF x \in Callers /\ w # 0 THEN {week[w].total} ELSE {})

LookUp(x) ==
  /\ pc[x] = "looking" /\ op[x] = "create"
  /\ \E w \in Candidates(entity[x].user, entity[x].period) :
       /\ w # 0 => ~Submitted(week[w].status)
       /\ target' = [target EXCEPT ![x] = w]
       /\ \E t \in Totals(x, w) : entity' = [entity EXCEPT ![x].total = t]
  /\ Goto(x, "creating")
  /\ UNCHANGED <<weekVars, op, given, cronVars, today, calls, clean, loose>>

\* The pulses of an old row are deleted, the row and the new pulses are saved.
Write(x) ==
  /\ pc[x] = "creating"
  /\ IF target[x] = 0
       THEN /\ Len(week) < MaxWeeks
            /\ week' = Append(week, entity[x])
            /\ others' = Append(others, given[x])
            /\ logged' = Append(logged, 0)
            /\ loose' = loose \cup {Len(week) + 1}
       ELSE /\ week' = [week EXCEPT ![target[x]] = entity[x]]
            /\ others' = [others EXCEPT ![target[x]] = given[x]]
            /\ logged' = [logged EXCEPT ![target[x]] = 0]
            /\ loose' = loose \cup {target[x]}
  /\ Finish(x)
  /\ UNCHANGED <<cronVars, today, calls, clean>>

RefuseRequest(c) ==
  /\ pc[c] = "looking" /\ Refused(c)
  /\ Finish(c)
  /\ UNCHANGED <<weekVars, cronVars, today, calls, clean, loose>>

-----------------------------------------------------------------------------
(* Handlers that load the week by its id, whatever its status *)

\* Submit, forward, approve and reject
Submit(c)  == \E w \in Weeks :
  Call(c, "submit", "storing", w, [week[w] EXCEPT !.status = "PENDING", !.to = "reporter"], 0)
Forward(c) == \E w \in Weeks :
  Call(c, "forward", "storing", w, [week[w] EXCEPT !.status = "FORWARDED", !.to = "other"], 0)
Approve(c) == \E w \in Weeks :
  Call(c, "approve", "storing", w, [week[w] EXCEPT !.status = "APPROVED"], 0)
Reject(c)  == \E w \in Weeks :
  Call(c, "reject", "storing", w, [week[w] EXCEPT !.status = "REJECTED"], 0)

\* syncPulseRecord: the week is loaded, a pulse is saved, the pulses are summed,
\* the week is saved.  Activity is saved as one more pulse; of the other types
\* the pulse of the same post is written over, with more hours or with fewer.
BeginSync(c) == \E w \in Weeks, h \in Hours : Call(c, "sync", "syncing", w, week[w], h)

\* e hours of the week's pulses become those given, or the pulse that time is
\* logged on does, or a pulse that is not counted.
Rewrite(c) ==
  \/ /\ \E e \in 0..others[target[c]] :
          others' = [others EXCEPT ![target[c]] = @ - e + given[c]]
     /\ UNCHANGED logged
  \/ /\ logged' = [logged EXCEPT ![target[c]] = given[c]]
     /\ UNCHANGED others
  \/ UNCHANGED <<others, logged>>

SavePulse(c) ==
  /\ pc[c] = "syncing"
  /\ Rewrite(c)
  /\ Goto(c, "summing")
  /\ UNCHANGED <<week, op, target, entity, given, cronVars, today, calls, clean, loose>>

\* updateSnapShot: a pulse is loaded and saved, nothing is summed.
BeginEdit(c) == \E w \in Weeks, h \in Hours : Call(c, "edit", "editing", w, week[w], h)

SaveEdit(c) ==
  /\ pc[c] = "editing"
  /\ Rewrite(c)
  /\ loose' = loose \cup {target[c]}
  /\ Finish(c)
  /\ UNCHANGED <<week, cronVars, today, calls, clean>>

\* A bug would leave the pulse time is logged on out of the sum.
SumOfOthers(w) == others[w]
SumOfPulses(w) == others[w] + logged[w]

SumPulses(c) ==
  /\ pc[c] = "summing"
  /\ entity' = [entity EXCEPT ![c].total = SumOfPulses(target[c])]
  /\ Goto(c, "storing")
  /\ UNCHANGED <<weekVars, op, target, given, cronVars, today, calls, clean, loose>>

\* save: the row becomes what is in memory.
Store(c) ==
  /\ pc[c] = "storing"
  /\ week' = [week EXCEPT ![target[c]] = entity[c]]
  /\ loose' = IF op[c] = "sync" THEN loose \ {target[c]} ELSE loose
  /\ Finish(c)
  /\ UNCHANGED <<others, logged, cronVars, today, calls, clean>>

\* logTimeOnPulse: only on a draft or a rejected week; the total changes by the
\* difference to what the pulse held, and pulse and week commit together.
BeginLog(c) == \E w \in Weeks, h \in Hours :
  /\ week[w].status \in {"DRAFT", "REJECTED"}
  /\ Call(c, "log", "logging", w, [week[w] EXCEPT !.total = @ + h - logged[w]], h)

CommitLog(c) ==
  /\ pc[c] = "logging"
  /\ logged' = [logged EXCEPT ![target[c]] = given[c]]
  /\ week' = [week EXCEPT ![target[c]] = entity[c]]
  /\ Finish(c)
  /\ UNCHANGED <<others, cronVars, today, calls, clean, loose>>

-----------------------------------------------------------------------------
(* generateDraftsForDate *)

\* Users without a snapshot for today.  The join is on the user id the resource
\* holds: a user who is only known by e-mail has none as far as it can see.
Listed(u) == u \in Linked => Of(u, today) = {}

List ==
  /\ cron = "idle" /\ "cron" \in Operations /\ calls < MaxCalls
  /\ calls' = calls + 1
  /\ cron' = "running"
  /\ waiting' = {u \in Users : Listed(u)}
  /\ clean' = (clean /\ \A x \in Processes : pc[x] = "idle")
  /\ UNCHANGED <<weekVars, procVars, today, loose>>

JobsDone == \A u \in Users : pc[u] = "idle"

\* The query orders nothing: any ChunkSize of the users are next, all if fewer wait.
Chunks ==
  {C \in SUBSET waiting :
     Cardinality(C) = IF Cardinality(waiting) < ChunkSize THEN Cardinality(waiting) ELSE ChunkSize}

\* A job per user of the chunk.  An item's time is once in the total and once per
\* event in the pulses, and the meetings of both are asked for apart.  The test for a later snapshot compares a string
\* with a Date, which is always false: nobody is skipped.
StartChunk ==
  /\ cron = "running" /\ JobsDone /\ waiting # {}
  /\ \E C \in Chunks : \E t \in [C -> Hours \cup {0}], h \in [C -> Hours] :
       /\ entity' = [x \in Processes |->
                       IF x \in C THEN Fresh(x, x, today, "DRAFT", t[x]) ELSE entity[x]]
       /\ given' = [x \in Processes |-> IF x \in C THEN h[x] ELSE given[x]]
       /\ pc' = [x \in Processes |-> IF x \in C THEN "looking" ELSE pc[x]]
       /\ op' = [x \in Processes |-> IF x \in C THEN "create" ELSE op[x]]
       /\ waiting' = waiting \ C
  /\ UNCHANGED <<weekVars, target, cron, today, calls, clean, loose>>

\* One failing job rejects Promise.all: the chunks after it are given up, the
\* other jobs of this one go on.
JobFails(u) ==
  /\ pc[u] = "looking" /\ Refused(u)
  /\ Finish(u)
  /\ waiting' = {}
  /\ UNCHANGED <<weekVars, cron, today, calls, clean, loose>>

\* A bug would end the run after the first chunk.
AfterAChunk == cron = "running"
NothingLeft == cron = "running" /\ waiting = {}
EndCron ==
  /\ NothingLeft /\ JobsDone
  /\ cron' = "idle"
  /\ waiting' = {}
  /\ UNCHANGED <<weekVars, procVars, today, calls, clean, loose>>

-----------------------------------------------------------------------------
RequestStep(c) ==
  RefuseRequest(c) \/ SavePulse(c) \/ SaveEdit(c) \/ SumPulses(c) \/ Store(c) \/ CommitLog(c)
CreateStep(x) == LookUp(x) \/ Write(x)
Cron == StartChunk \/ EndCron \/ \E u \in Users : JobFails(u) \/ CreateStep(u)

PulseNext ==
  \/ NextPeriod \/ List \/ Cron
  \/ \E c \in Callers :
       \/ BeginCreate(c) \/ Submit(c) \/ Forward(c) \/ Approve(c) \/ Reject(c)
       \/ BeginSync(c) \/ BeginEdit(c) \/ BeginLog(c)
       \/ RequestStep(c) \/ CreateStep(c)

PulseSpec == PulseInit /\ [][PulseNext]_pulseVars

-----------------------------------------------------------------------------
(* Correctness *)

PulseTypes ==
  /\ week \in Seq(Row) /\ others \in Seq(Nat) /\ logged \in Seq(Nat)
  /\ Len(others) = Len(week) /\ Len(logged) = Len(week)
  /\ pc \in [Processes -> PCs] /\ op \in [Processes -> Ops]
  /\ target \in [Processes -> 0..Len(week)]
  /\ \A x \in Processes : entity[x] = NoRow \/ entity[x] \in Row
  /\ given \in [Processes -> Nat]
  /\ today \in Periods /\ cron \in {"idle", "running"}
  /\ waiting \subseteq Users /\ calls \in 0..MaxCalls /\ clean \in BOOLEAN
  /\ loose \subseteq Weeks

AllIdle == cron = "idle" /\ \A x \in Processes : pc[x] = "idle"

\* While requests and cron do not overlap, a user has one snapshot per period,
\* though no key says so.  And once a sync has summed a week its total stays the
\* sum of its pulses, the handlers that add a difference and those that sum again
\* taken together, until the week is created again or a pulse is edited, which
\* sum nothing ...
SnapshotsRight ==
  clean =>
    /\ \A v, w \in Weeks :
         week[v].user = week[w].user /\ week[v].period = week[w].period => v = w
    /\ AllIdle => \A w \in Weeks \ loose : week[w].total = SumOfPulses(w)

\* ... and a week that was submitted does not become a draft again, keeps its
\* period, and stays with somebody to answer it, until it is rejected ("You
\* already submitted this week snapshot").  Its hours may change.
SubmittedStays ==
  [][clean' => \A w \in Weeks : week[w].status \in {"PENDING", "FORWARDED", "APPROVED"} =>
       /\ week'[w].status # "DRAFT" /\ week'[w].period = week[w].period
       /\ week[w].to # "nobody" => week'[w].to # "nobody"]_pulseVars

\* A run of the cron leaves every user with a snapshot of the day's period.
CronCovers ==
  [][clean' /\ cron = "running" /\ cron' = "idle" =>
       \A u \in Users : Of(u, today) # {}]_pulseVars
=============================================================================
