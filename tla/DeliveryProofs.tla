---------------------------- MODULE DeliveryProofs ----------------------------
(***************************************************************************)
(* What holds of Delivery for any people, items, rules and handlers, any   *)
(* number of requests and any bound: the types; that a row marked as sent  *)
(* was sent and none is sent twice until something fails; that an alert of *)
(* the matrix has a recipient; that no row is forgotten; and that a        *)
(* deleted item is cleaned up.                                             *)
(***************************************************************************)
EXTENDS Delivery, SequenceTheorems, TLAPS

USE RequestAssumption, NobodyAssumption, RuleBookAssumption, DeliveryAssumption

-----------------------------------------------------------------------------
(* The plans a request may be left with *)

Load0 == <<"loadContext", "resolve">>
Load1 == <<"loadChanged", "resolve">>
Pick0 == <<"resolve">>
Both0 == <<"saveEmail", "enqueue", "saveNotes", "enqueue">>
Both1 == <<"enqueue", "saveNotes", "enqueue">>
Mail0 == <<"saveEmail", "enqueue">>
Note0 == <<"saveNotes", "enqueue">>
Job0  == <<"enqueue">>

\* The same before a clean-up
PickC  == <<"resolve", "cleanUp">>
BothC0 == <<"saveEmail", "enqueue", "saveNotes", "enqueue", "cleanUp">>
BothC1 == <<"enqueue", "saveNotes", "enqueue", "cleanUp">>
MailC  == <<"saveEmail", "enqueue", "cleanUp">>
NoteC  == <<"saveNotes", "enqueue", "cleanUp">>
JobC   == <<"enqueue", "cleanUp">>
CleanC == <<"cleanUp">>
CleanPlans == {PickC, BothC0, BothC1, MailC, NoteC, JobC, CleanC}

Own0  == <<"saveOwn", "enqueue">>
Row0  == <<"saveRow">>

Take0  == <<"loadRow">>
Send0  == <<"send", "markSent", "settle">>
Send1  == <<"markSent", "settle">>
Send2  == <<"settle">>
Error0 == <<"markError", "settle">>
Error1 == <<"markError", "abandon">>
Error2 == <<"abandon">>

-----------------------------------------------------------------------------
(* The invariant *)

Events == {"created", "updated", "assigned", "status", "changed", "deleted"}
Contexts ==
  [event : Events, actor : People, type : {"ticket", "task"}, creator : People,
   assignee : People \cup {Nobody}, participants : SUBSET People]
Who == [to : SUBSET People, cc : SUBSET People, told : SUBSET People]
AddressedTo(who) == who.to # {} /\ who.to \cap who.cc = {} /\ who.told = who.to \cup who.cc

\* The rows, how often each was sent, which were deleted, and the item
World == [rows |-> rows, posted |-> posted, removed |-> removed, state |-> state]

\* A row of an alert of a deletion refers to nothing.
RowOK(r) == r \in Row /\ (r.kind = "final" => r.ref = "none")

TablesOK(w) ==
  /\ w.rows \in Seq(Row \cup {NoRow}) /\ w.posted \in Seq(Nat) /\ Len(w.posted) = Len(w.rows)
  /\ w.removed \subseteq DOMAIN w.rows /\ w.state \in States
  /\ \A i \in DOMAIN w.rows :
       /\ w.rows[i] = NoRow => i \in w.removed
       /\ w.rows[i] # NoRow => RowOK(w.rows[i]) /\ (w.rows[i].sent => w.posted[i] > 0)

\* Somebody has loaded the row i as m: calm says that nothing has failed, alone
\* that nothing has overlapped either.
Holds(calm, alone, w, i, m) ==
  /\ i \in DOMAIN w.rows /\ RowOK(m) /\ (m.sent => w.posted[i] > 0)
  /\ calm /\ i \notin w.removed => m.kind = w.rows[i].kind
  /\ alone => w.rows[i] # NoRow /\ m.ref = w.rows[i].ref

\* Nothing is left to do for the row i.
Over(w, i) == i \in w.removed \/ w.posted[i] > 0 \/ w.rows[i].kind = "unfit"

IsCall(m) == m.event \in Events /\ m.actor \in People
Told(m) ==
  m.who \in Who /\ m.from \in {"matrix", "rules"} /\ (m.from = "matrix" => AddressedTo(m.who))
Job(w, m) == \E j \in DOMAIN w.rows : m.ids = <<j>>

\* What is known of a request with the plan p, asked with o and with m in memory
Alerting(alone, w, p, o, m) ==
  /\ o.op \in {"dispatch", "delete"}
  /\ alone /\ o.op = "dispatch" => w.state # "gone"
  /\ \/ p \in {Load0, Load1} /\ IsCall(m)
     \/ p \in {Pick0, PickC} /\ m \in Contexts
     \/ p \in {Both0, Mail0, Note0, BothC0, MailC, NoteC} /\ Told(m)
     \/ p \in {Both1, Job0, BothC1, JobC} /\ Told(m) /\ Job(w, m)
     \/ p = CleanC

Making(w, p, o, m) ==
  /\ o.op = "create" /\ o.kind \in {"plain", "unfit"}
  /\ p = Own0 \/ (p = Job0 /\ Job(w, m))

Changing(calm, alone, w, p, o, m) ==
  o.op \in {"update", "read"} /\ p = Row0 /\ Holds(calm, alone, w, o.row, m)

Processing(calm, alone, w, p, o, m) ==
  /\ o.op = "process" /\ o.row \in DOMAIN w.rows
  /\ \/ p = Take0
     \/ p = Send0 /\ Holds(calm, alone, w, o.row, m)
     \/ p = Send1 /\ Holds(calm, alone, w, o.row, m) /\ w.posted[o.row] > 0
     \/ p = Error0 /\ Holds(calm, alone, w, o.row, m) /\ (calm => m.kind = "unfit")
     \/ p = Send2 /\ (calm => Over(w, o.row))
     \/ p = Error1 /\ Holds(calm, alone, w, o.row, m) /\ ~calm
     \/ p = Error2 /\ ~calm

Knows(calm, alone, w, p, o, m) ==
  \/ p = <<>> /\ o = NoRequest
  \/ Alerting(alone, w, p, o, m)
  \/ Making(w, p, o, m)
  \/ Changing(calm, alone, w, p, o, m)
  \/ Processing(calm, alone, w, p, o, m)

\* The row a request has saved and not put on the bus yet
OwedBy(p, m) == IF p # <<>> /\ Head(p) = "enqueue" THEN {Head(m.ids)} ELSE {}
Owes == [c \in Requests |-> OwedBy(plan[c], mem[c])]

\* The consumer has sent what its message is about.
PastBy(p, o) == o.op = "process" /\ p # <<>> /\ Head(p) \in {"markSent", "settle"}
Past == Consumer \in Requests /\ PastBy(plan[Consumer], req[Consumer])

\* Every row is owed, on the bus, sent or unfit; none is twice on the bus, and
\* those that are owed or on the bus have not been sent.
Waiting(q) == {q[a] : a \in DOMAIN q}
Distinct(q) == \A a, b \in DOMAIN q : q[a] = q[b] => a = b
OwesOK(w, q, owes) ==
  /\ \A c \in Requests : \A i \in owes[c] : i \notin Waiting(q) /\ w.posted[i] = 0
  /\ \A c, d \in Requests : c # d => owes[c] \cap owes[d] = {}
BusOK(w, q, past) ==
  /\ Distinct(q)
  /\ \A i \in DOMAIN w.rows : w.posted[i] <= 1
  /\ \A i \in Waiting(q) : w.posted[i] = 0 \/ (i = Head(q) /\ past)
NoneLost(w, q, owes) ==
  \A i \in DOMAIN w.rows : i \in Waiting(q) \/ (\E c \in Requests : i \in owes[c]) \/ Over(w, i)
QueueOK(w, q, owes, past) == OwesOK(w, q, owes) /\ BusOK(w, q, past) /\ NoneLost(w, q, owes)

\* While requests follow one another, what was deleted stays deleted, and what
\* refers to an item that is gone will be cleaned up.
CleanOK(w, cleans) ==
  /\ \A i \in w.removed : w.rows[i] = NoRow
  /\ w.state = "gone" =>
       cleans \/ \A i \in DOMAIN w.rows : w.rows[i] # NoRow => w.rows[i].ref = "none"

Cleans == \E c \in Requests : plan[c] \in CleanPlans
Alone == \A c, d \in Requests : ~Idle(c) /\ ~Idle(d) => c = d

DeliveryInv ==
  /\ TablesOK(World) /\ item \in Items /\ rules \subseteq Rule
  /\ queue \in Seq(DOMAIN rows)
  /\ RequestsOK
  /\ ~overlapped => Alone
  /\ \A c \in Requests : Knows(~failed, Clean, World, plan[c], req[c], mem[c])
  /\ \A c \in Requests :
       req[c].op = "process" => c = Consumer /\ queue # <<>> /\ req[c].row = Head(queue)
  /\ ~failed => QueueOK(World, queue, Owes, Past)
  /\ Clean => CleanOK(World, Cleans)

-----------------------------------------------------------------------------
(* Plans *)

\* The plan p begins with s and goes on as t.
Begins(p, s, t) == p # <<>> /\ Head(p) = s /\ Tail(p) = t

LEMMA AlertPlans ==
  /\ Begins(Load0, "loadContext", Pick0) /\ Begins(Load1, "loadChanged", Pick0)
  /\ Begins(Pick0, "resolve", <<>>) /\ Begins(PickC, "resolve", CleanC)
  /\ Begins(Both0, "saveEmail", Both1) /\ Begins(Both1, "enqueue", Note0)
  /\ Begins(Mail0, "saveEmail", Job0) /\ Begins(Note0, "saveNotes", Job0)
  /\ Begins(Job0, "enqueue", <<>>)
  /\ Begins(BothC0, "saveEmail", BothC1) /\ Begins(BothC1, "enqueue", NoteC)
  /\ Begins(MailC, "saveEmail", JobC) /\ Begins(NoteC, "saveNotes", JobC)
  /\ Begins(JobC, "enqueue", CleanC) /\ Begins(CleanC, "cleanUp", <<>>)
<1>1. Begins(Load0, "loadContext", Pick0) /\ Begins(Load1, "loadChanged", Pick0)
  BY DEF Begins, Load0, Load1, Pick0
<1>2. Begins(Pick0, "resolve", <<>>) /\ Begins(PickC, "resolve", CleanC)
  BY DEF Begins, Pick0, PickC, CleanC
<1>3. Begins(Both0, "saveEmail", Both1) /\ Begins(Both1, "enqueue", Note0)
  BY DEF Begins, Both0, Both1, Note0
<1>4. /\ Begins(Mail0, "saveEmail", Job0) /\ Begins(Note0, "saveNotes", Job0)
      /\ Begins(Job0, "enqueue", <<>>)
  BY DEF Begins, Mail0, Note0, Job0
<1>5. Begins(BothC0, "saveEmail", BothC1) /\ Begins(BothC1, "enqueue", NoteC)
  BY DEF Begins, BothC0, BothC1, NoteC
<1>6. Begins(MailC, "saveEmail", JobC) /\ Begins(NoteC, "saveNotes", JobC)
  BY DEF Begins, MailC, NoteC, JobC
<1>7. Begins(JobC, "enqueue", CleanC) /\ Begins(CleanC, "cleanUp", <<>>)
  BY DEF Begins, JobC, CleanC
<1> QED
  BY <1>1, <1>2, <1>3, <1>4, <1>5, <1>6, <1>7

LEMMA RowPlans ==
  /\ Begins(Own0, "saveOwn", Job0) /\ Begins(Row0, "saveRow", <<>>)
  /\ Begins(Take0, "loadRow", <<>>)
  /\ Begins(Send0, "send", Send1) /\ Begins(Send1, "markSent", Send2)
  /\ Begins(Send2, "settle", <<>>) /\ Begins(Error0, "markError", Send2)
  /\ Begins(Error1, "markError", Error2) /\ Begins(Error2, "abandon", <<>>)
<1>1. Begins(Own0, "saveOwn", Job0) /\ Begins(Row0, "saveRow", <<>>)
      /\ Begins(Take0, "loadRow", <<>>)
  BY DEF Begins, Own0, Job0, Row0, Take0
<1>2. Begins(Send0, "send", Send1) /\ Begins(Send1, "markSent", Send2)
      /\ Begins(Send2, "settle", <<>>)
  BY DEF Begins, Send0, Send1, Send2
<1>3. Begins(Error0, "markError", Send2) /\ Begins(Error1, "markError", Error2)
      /\ Begins(Error2, "abandon", <<>>)
  BY DEF Begins, Error0, Error1, Error2, Send2
<1> QED
  BY <1>1, <1>2, <1>3

\* A plan that another follows
LEMMA Concats ==
  ASSUME NEW S, NEW s \in Seq(S), NEW t \in Seq(S), NEW u \in Seq(S),
         Len(u) = Len(s) + Len(t),
         \A i \in 1 .. Len(s) : u[i] = s[i], \A i \in 1 .. Len(t) : u[Len(s) + i] = t[i]
  PROVE  s \o t = u
<1>1. /\ s \o t \in Seq(S) /\ Len(s \o t) = Len(s) + Len(t)
      /\ \A i \in 1 .. Len(s) + Len(t) : (s \o t)[i] = IF i <= Len(s) THEN s[i] ELSE t[i - Len(s)]
  BY ConcatProperties, Zenon
<1>2. Len(s) \in Nat /\ Len(t) \in Nat
  OBVIOUS
<1>3. ASSUME NEW i \in 1 .. Len(s \o t) PROVE (s \o t)[i] = u[i]
  <2>1. CASE i <= Len(s)
    BY <1>1, <1>2, <2>1
  <2>2. CASE ~(i <= Len(s))
    <3>1. i - Len(s) \in 1 .. Len(t) /\ Len(s) + (i - Len(s)) = i
      BY <1>1, <1>2, <2>2
    <3>2. u[Len(s) + (i - Len(s))] = t[i - Len(s)]
      BY <3>1, Zenon
    <3> QED
      BY <1>1, <1>2, <2>2, <3>1, <3>2
  <2> QED
    BY <2>1, <2>2
<1> QED
  BY <1>1, <1>3, SeqEqual

\* What is in front of the last statement
LEMMA Fronts ==
  ASSUME NEW S, NEW s \in Seq(S), NEW t \in Seq(S), Len(t) = Len(s) + 1,
         \A i \in 1 .. Len(s) : t[i] = s[i]
  PROVE  Front(t) = s
<1>1. Len(s) \in Nat /\ \A i \in 1 .. Len(s) : t[i] \in S
  OBVIOUS
<1>2. /\ SubSeq(t, 1, Len(s)) \in Seq(S)
      /\ Len(SubSeq(t, 1, Len(s))) = IF 1 <= Len(s) THEN Len(s) - 1 + 1 ELSE 0
      /\ \A i \in 1 .. Len(s) - 1 + 1 : SubSeq(t, 1, Len(s))[i] = t[1 + i - 1]
  BY <1>1, SubSeqProperties
<1>3. Len(SubSeq(t, 1, Len(s))) = Len(s) /\ \A i \in 1 .. Len(s) : SubSeq(t, 1, Len(s))[i] = s[i]
  BY <1>1, <1>2
<1>4. SubSeq(t, 1, Len(s)) = s
  BY <1>2, <1>3, SeqEqual
<1>5. Len(t) - 1 = Len(s)
  BY <1>1
<1> QED
  BY <1>4, <1>5 DEF Front

Statements == {"resolve", "saveEmail", "enqueue", "saveNotes", "cleanUp"}

\* What plans are made of
LEMMA Parts ==
  /\ Pick0 \in Seq(Statements) /\ Len(Pick0) = 1
      /\ Pick0[1] = "resolve"
  /\ Both0 \in Seq(Statements) /\ Len(Both0) = 4
      /\ Both0[1] = "saveEmail" /\ Both0[2] = "enqueue" /\ Both0[3] = "saveNotes"
         /\ Both0[4] = "enqueue"
  /\ Both1 \in Seq(Statements) /\ Len(Both1) = 3
      /\ Both1[1] = "enqueue" /\ Both1[2] = "saveNotes" /\ Both1[3] = "enqueue"
  /\ Mail0 \in Seq(Statements) /\ Len(Mail0) = 2
      /\ Mail0[1] = "saveEmail" /\ Mail0[2] = "enqueue"
  /\ Note0 \in Seq(Statements) /\ Len(Note0) = 2
      /\ Note0[1] = "saveNotes" /\ Note0[2] = "enqueue"
  /\ Job0 \in Seq(Statements) /\ Len(Job0) = 1
      /\ Job0[1] = "enqueue"
  /\ PickC \in Seq(Statements) /\ Len(PickC) = 2
      /\ PickC[1] = "resolve" /\ PickC[2] = "cleanUp"
  /\ BothC0 \in Seq(Statements) /\ Len(BothC0) = 5
      /\ BothC0[1] = "saveEmail" /\ BothC0[2] = "enqueue" /\ BothC0[3] = "saveNotes"
         /\ BothC0[4] = "enqueue" /\ BothC0[5] = "cleanUp"
  /\ BothC1 \in Seq(Statements) /\ Len(BothC1) = 4
      /\ BothC1[1] = "enqueue" /\ BothC1[2] = "saveNotes" /\ BothC1[3] = "enqueue"
         /\ BothC1[4] = "cleanUp"
  /\ MailC \in Seq(Statements) /\ Len(MailC) = 3
      /\ MailC[1] = "saveEmail" /\ MailC[2] = "enqueue" /\ MailC[3] = "cleanUp"
  /\ NoteC \in Seq(Statements) /\ Len(NoteC) = 3
      /\ NoteC[1] = "saveNotes" /\ NoteC[2] = "enqueue" /\ NoteC[3] = "cleanUp"
  /\ JobC \in Seq(Statements) /\ Len(JobC) = 2
      /\ JobC[1] = "enqueue" /\ JobC[2] = "cleanUp"
  /\ CleanC \in Seq(Statements) /\ Len(CleanC) = 1
      /\ CleanC[1] = "cleanUp"
<1>1. /\ Pick0 \in Seq(Statements) /\ Len(Pick0) = 1
      /\ Pick0[1] = "resolve"
  BY DEF Statements, Pick0
<1>2. /\ Both0 \in Seq(Statements) /\ Len(Both0) = 4
      /\ Both0[1] = "saveEmail" /\ Both0[2] = "enqueue" /\ Both0[3] = "saveNotes"
         /\ Both0[4] = "enqueue"
  BY DEF Statements, Both0
<1>3. /\ Both1 \in Seq(Statements) /\ Len(Both1) = 3
      /\ Both1[1] = "enqueue" /\ Both1[2] = "saveNotes" /\ Both1[3] = "enqueue"
  BY DEF Statements, Both1
<1>4. /\ Mail0 \in Seq(Statements) /\ Len(Mail0) = 2
      /\ Mail0[1] = "saveEmail" /\ Mail0[2] = "enqueue"
  BY DEF Statements, Mail0
<1>5. /\ Note0 \in Seq(Statements) /\ Len(Note0) = 2
      /\ Note0[1] = "saveNotes" /\ Note0[2] = "enqueue"
  BY DEF Statements, Note0
<1>6. /\ Job0 \in Seq(Statements) /\ Len(Job0) = 1
      /\ Job0[1] = "enqueue"
  BY DEF Statements, Job0
<1>7. /\ PickC \in Seq(Statements) /\ Len(PickC) = 2
      /\ PickC[1] = "resolve" /\ PickC[2] = "cleanUp"
  BY DEF Statements, PickC
<1>8. /\ BothC0 \in Seq(Statements) /\ Len(BothC0) = 5
      /\ BothC0[1] = "saveEmail" /\ BothC0[2] = "enqueue" /\ BothC0[3] = "saveNotes"
         /\ BothC0[4] = "enqueue" /\ BothC0[5] = "cleanUp"
  BY DEF Statements, BothC0
<1>9. /\ BothC1 \in Seq(Statements) /\ Len(BothC1) = 4
      /\ BothC1[1] = "enqueue" /\ BothC1[2] = "saveNotes" /\ BothC1[3] = "enqueue"
         /\ BothC1[4] = "cleanUp"
  BY DEF Statements, BothC1
<1>10. /\ MailC \in Seq(Statements) /\ Len(MailC) = 3
      /\ MailC[1] = "saveEmail" /\ MailC[2] = "enqueue" /\ MailC[3] = "cleanUp"
  BY DEF Statements, MailC
<1>11. /\ NoteC \in Seq(Statements) /\ Len(NoteC) = 3
      /\ NoteC[1] = "saveNotes" /\ NoteC[2] = "enqueue" /\ NoteC[3] = "cleanUp"
  BY DEF Statements, NoteC
<1>12. /\ JobC \in Seq(Statements) /\ Len(JobC) = 2
      /\ JobC[1] = "enqueue" /\ JobC[2] = "cleanUp"
  BY DEF Statements, JobC
<1>13. /\ CleanC \in Seq(Statements) /\ Len(CleanC) = 1
      /\ CleanC[1] = "cleanUp"
  BY DEF Statements, CleanC
<1> QED
  BY <1>1, <1>2, <1>3, <1>4, <1>5, <1>6, <1>7, <1>8, <1>9, <1>10, <1>11, <1>12, <1>13

\* A plan that a clean-up ends, and what is left of it when the clean-up ran early
LEMMA WithoutCleanUp ==
  /\ Last(PickC) = "cleanUp" /\ Front(PickC) = Pick0
  /\ Last(BothC0) = "cleanUp" /\ Front(BothC0) = Both0
  /\ Last(BothC1) = "cleanUp" /\ Front(BothC1) = Both1
  /\ Last(MailC) = "cleanUp" /\ Front(MailC) = Mail0
  /\ Last(NoteC) = "cleanUp" /\ Front(NoteC) = Note0
  /\ Last(JobC) = "cleanUp" /\ Front(JobC) = Job0
<1>1. Last(PickC) = "cleanUp" /\ Front(PickC) = Pick0
  <2>1. Len(PickC) = Len(Pick0) + 1 /\ \A i \in 1 .. Len(Pick0) : PickC[i] = Pick0[i]
    BY Parts
  <2> QED
    BY Parts, <2>1, Fronts DEF Last
<1>2. Last(BothC0) = "cleanUp" /\ Front(BothC0) = Both0
  <2>1. Len(BothC0) = Len(Both0) + 1 /\ \A i \in 1 .. Len(Both0) : BothC0[i] = Both0[i]
    BY Parts
  <2> QED
    BY Parts, <2>1, Fronts DEF Last
<1>3. Last(BothC1) = "cleanUp" /\ Front(BothC1) = Both1
  <2>1. Len(BothC1) = Len(Both1) + 1 /\ \A i \in 1 .. Len(Both1) : BothC1[i] = Both1[i]
    BY Parts
  <2> QED
    BY Parts, <2>1, Fronts DEF Last
<1>4. Last(MailC) = "cleanUp" /\ Front(MailC) = Mail0
  <2>1. Len(MailC) = Len(Mail0) + 1 /\ \A i \in 1 .. Len(Mail0) : MailC[i] = Mail0[i]
    BY Parts
  <2> QED
    BY Parts, <2>1, Fronts DEF Last
<1>5. Last(NoteC) = "cleanUp" /\ Front(NoteC) = Note0
  <2>1. Len(NoteC) = Len(Note0) + 1 /\ \A i \in 1 .. Len(Note0) : NoteC[i] = Note0[i]
    BY Parts
  <2> QED
    BY Parts, <2>1, Fronts DEF Last
<1>6. Last(JobC) = "cleanUp" /\ Front(JobC) = Job0
  <2>1. Len(JobC) = Len(Job0) + 1 /\ \A i \in 1 .. Len(Job0) : JobC[i] = Job0[i]
    BY Parts
  <2> QED
    BY Parts, <2>1, Fronts DEF Last
<1> QED
  BY <1>1, <1>2, <1>3, <1>4, <1>5, <1>6

\* Plans that no clean-up ends
LEMMA NoCleanUp ==
  /\ Last(Load0) # "cleanUp" /\ Last(Load1) # "cleanUp" /\ Last(Pick0) # "cleanUp"
  /\ Last(Both0) # "cleanUp" /\ Last(Both1) # "cleanUp" /\ Last(Mail0) # "cleanUp"
  /\ Last(Note0) # "cleanUp" /\ Last(Job0) # "cleanUp" /\ Len(CleanC) = 1
<1>1. Last(Load0) # "cleanUp" /\ Last(Load1) # "cleanUp" /\ Last(Pick0) # "cleanUp"
  BY DEF Load0, Load1, Pick0, Last
<1>2. Last(Both0) # "cleanUp" /\ Last(Both1) # "cleanUp" /\ Last(Mail0) # "cleanUp"
  BY DEF Both0, Both1, Mail0, Last
<1>3. Last(Note0) # "cleanUp" /\ Last(Job0) # "cleanUp" /\ Len(CleanC) = 1
  BY DEF Note0, Job0, CleanC, Last
<1> QED
  BY <1>1, <1>2, <1>3

\* Plans that are joined
LEMMA Joined ==
  /\ Mail0 \o Note0 = Both0 /\ Mail0 \o <<>> = Mail0 /\ <<>> \o Note0 = Note0
  /\ Both0 \o CleanC = BothC0 /\ Mail0 \o CleanC = MailC /\ Note0 \o CleanC = NoteC
  /\ <<>> \o CleanC = CleanC /\ Both0 \o <<>> = Both0 /\ Note0 \o <<>> = Note0
  /\ <<>> \o <<>> = <<>>
<1>1. Mail0 \o Note0 = Both0
  <2>1. /\ Len(Both0) = Len(Mail0) + Len(Note0) /\ \A i \in 1 .. Len(Mail0) : Both0[i] = Mail0[i]
        /\ \A i \in 1 .. Len(Note0) : Both0[Len(Mail0) + i] = Note0[i]
    BY Parts
  <2> QED
    BY Parts, <2>1, Concats
<1>2. Both0 \o CleanC = BothC0
  <2>1. /\ Len(BothC0) = Len(Both0) + Len(CleanC) /\ \A i \in 1 .. Len(Both0) : BothC0[i] = Both0[i]
        /\ \A i \in 1 .. Len(CleanC) : BothC0[Len(Both0) + i] = CleanC[i]
    BY Parts
  <2> QED
    BY Parts, <2>1, Concats
<1>3. Mail0 \o CleanC = MailC
  <2>1. /\ Len(MailC) = Len(Mail0) + Len(CleanC) /\ \A i \in 1 .. Len(Mail0) : MailC[i] = Mail0[i]
        /\ \A i \in 1 .. Len(CleanC) : MailC[Len(Mail0) + i] = CleanC[i]
    BY Parts
  <2> QED
    BY Parts, <2>1, Concats
<1>4. Note0 \o CleanC = NoteC
  <2>1. /\ Len(NoteC) = Len(Note0) + Len(CleanC) /\ \A i \in 1 .. Len(Note0) : NoteC[i] = Note0[i]
        /\ \A i \in 1 .. Len(CleanC) : NoteC[Len(Note0) + i] = CleanC[i]
    BY Parts
  <2> QED
    BY Parts, <2>1, Concats
<1>5. \A p \in Seq(Statements) : p \o <<>> = p /\ <<>> \o p = p
  BY ConcatEmptySeq
<1>6. <<>> \in Seq(Statements)
  OBVIOUS
<1> QED
  BY <1>1, <1>2, <1>3, <1>4, <1>5, <1>6, Parts

-----------------------------------------------------------------------------
(* What is known of a request says which statement it has next. *)

LEMMA Heads ==
  /\ \A p \in {Load0, Load1} : Head(p) \in {"loadContext", "loadChanged"} /\ p # <<>>
  /\ \A p \in {Pick0, PickC} : Head(p) = "resolve" /\ p # <<>>
  /\ \A p \in {Both0, Mail0, BothC0, MailC} : Head(p) = "saveEmail" /\ p # <<>>
  /\ \A p \in {Note0, NoteC} : Head(p) = "saveNotes" /\ p # <<>>
  /\ \A p \in {Both1, Job0, BothC1, JobC} : Head(p) = "enqueue" /\ p # <<>>
  /\ Head(CleanC) = "cleanUp" /\ CleanC # <<>>
  /\ Head(Own0) = "saveOwn" /\ Own0 # <<>> /\ Head(Row0) = "saveRow" /\ Row0 # <<>>
  /\ Head(Take0) = "loadRow" /\ Take0 # <<>> /\ Head(Send0) = "send" /\ Send0 # <<>>
  /\ Head(Send1) = "markSent" /\ Send1 # <<>> /\ Head(Send2) = "settle" /\ Send2 # <<>>
  /\ Head(Error0) = "markError" /\ Error0 # <<>> /\ Head(Error1) = "markError" /\ Error1 # <<>>
  /\ Head(Error2) = "abandon" /\ Error2 # <<>>
<1>1. \A p \in {Load0, Load1} : Head(p) \in {"loadContext", "loadChanged"} /\ p # <<>>
  BY AlertPlans DEF Begins
<1>2. \A p \in {Pick0, PickC} : Head(p) = "resolve" /\ p # <<>>
  BY AlertPlans DEF Begins
<1>3. \A p \in {Both0, Mail0, BothC0, MailC} : Head(p) = "saveEmail" /\ p # <<>>
  BY AlertPlans DEF Begins
<1>4. \A p \in {Note0, NoteC} : Head(p) = "saveNotes" /\ p # <<>>
  BY AlertPlans DEF Begins
<1>5. \A p \in {Both1, Job0, BothC1, JobC} : Head(p) = "enqueue" /\ p # <<>>
  BY AlertPlans DEF Begins
<1>6. Head(CleanC) = "cleanUp" /\ CleanC # <<>>
  BY AlertPlans DEF Begins
<1>7. /\ Head(Own0) = "saveOwn" /\ Own0 # <<>> /\ Head(Row0) = "saveRow" /\ Row0 # <<>>
      /\ Head(Take0) = "loadRow" /\ Take0 # <<>> /\ Head(Send0) = "send" /\ Send0 # <<>>
      /\ Head(Send1) = "markSent" /\ Send1 # <<>> /\ Head(Send2) = "settle" /\ Send2 # <<>>
      /\ Head(Error0) = "markError" /\ Error0 # <<>> /\ Head(Error1) = "markError" /\ Error1 # <<>>
      /\ Head(Error2) = "abandon" /\ Error2 # <<>>
  BY RowPlans, Zenon DEF Begins
<1> QED
  BY <1>1, <1>2, <1>3, <1>4, <1>5, <1>6, <1>7

\* The groups of what is known, by the next statement
LEMMA AlertHeads ==
  ASSUME NEW alone, NEW w, NEW p, NEW o, NEW m, Alerting(alone, w, p, o, m)
  PROVE  /\ p # <<>>
         /\ Head(p) \in {"loadContext", "loadChanged", "resolve", "saveEmail", "saveNotes",
                         "enqueue", "cleanUp"}
         /\ Head(p) \in {"loadContext", "loadChanged"} => p \in {Load0, Load1} /\ IsCall(m)
         /\ Head(p) = "resolve" => p \in {Pick0, PickC} /\ m \in Contexts
         /\ Head(p) = "saveEmail" => p \in {Both0, Mail0, BothC0, MailC} /\ Told(m)
         /\ Head(p) = "saveNotes" => p \in {Note0, NoteC} /\ Told(m)
         /\ Head(p) = "enqueue" => p \in {Both1, Job0, BothC1, JobC} /\ Told(m) /\ Job(w, m)
         /\ Head(p) = "cleanUp" => p = CleanC
<1>1. \/ p \in {Load0, Load1} /\ IsCall(m)
      \/ p \in {Pick0, PickC} /\ m \in Contexts
      \/ p \in {Both0, Mail0, BothC0, MailC} /\ Told(m)
      \/ p \in {Note0, NoteC} /\ Told(m)
      \/ p \in {Both1, Job0, BothC1, JobC} /\ Told(m) /\ Job(w, m)
      \/ p = CleanC
  BY DEF Alerting
<1>2. CASE p \in {Load0, Load1} /\ IsCall(m)
  BY <1>2, Heads
<1>3. CASE p \in {Pick0, PickC} /\ m \in Contexts
  BY <1>3, Heads
<1>4. CASE p \in {Both0, Mail0, BothC0, MailC} /\ Told(m)
  BY <1>4, Heads
<1>5. CASE p \in {Note0, NoteC} /\ Told(m)
  BY <1>5, Heads
<1>6. CASE p \in {Both1, Job0, BothC1, JobC} /\ Told(m) /\ Job(w, m)
  BY <1>6, Heads
<1>7. CASE p = CleanC
  BY <1>7, Heads
<1> QED
  BY <1>1, <1>2, <1>3, <1>4, <1>5, <1>6, <1>7

LEMMA MakeHeads ==
  ASSUME NEW w, NEW p, NEW o, NEW m, Making(w, p, o, m)
  PROVE  /\ p # <<>> /\ Head(p) \in {"saveOwn", "enqueue"}
         /\ Head(p) = "saveOwn" => p = Own0
         /\ Head(p) = "enqueue" => p = Job0 /\ Job(w, m)
BY Heads DEF Making

LEMMA ProcessHeads ==
  ASSUME NEW calm, NEW alone, NEW w, NEW p, NEW o, NEW m, Processing(calm, alone, w, p, o, m)
  PROVE  /\ p # <<>>
         /\ Head(p) \in {"loadRow", "send", "markSent", "settle", "markError", "abandon"}
         /\ Head(p) = "loadRow" => p = Take0
         /\ Head(p) = "send" => p = Send0 /\ Holds(calm, alone, w, o.row, m)
         /\ Head(p) = "markSent" =>
              p = Send1 /\ Holds(calm, alone, w, o.row, m) /\ w.posted[o.row] > 0
         /\ Head(p) = "settle" => p = Send2 /\ (calm => Over(w, o.row))
         /\ Head(p) = "markError" =>
              /\ Holds(calm, alone, w, o.row, m)
              /\ (p = Error0 /\ (calm => m.kind = "unfit")) \/ (p = Error1 /\ ~calm)
         /\ Head(p) = "abandon" => p = Error2 /\ ~calm
<1> DEFINE H == Holds(calm, alone, w, o.row, m)
<1> DEFINE S == w.posted[o.row] > 0
<1> DEFINE O == calm => Over(w, o.row)
<1>1. \/ p = Take0
      \/ p = Send0 /\ H
      \/ p = Send1 /\ H /\ S
      \/ p = Error0 /\ H /\ (calm => m.kind = "unfit")
      \/ p = Send2 /\ O
      \/ p = Error1 /\ H /\ ~calm
      \/ p = Error2 /\ ~calm
  BY DEF Processing
<1> HIDE DEF H, S, O
<1>2. CASE p = Take0
  BY <1>2, Heads
<1>3. CASE p = Send0 /\ H
  BY <1>3, Heads DEF H
<1>4. CASE p = Send1 /\ H /\ S
  BY <1>4, Heads DEF H, S
<1>5. CASE p = Error0 /\ H /\ (calm => m.kind = "unfit")
  <2>1. p # <<>> /\ Head(p) = "markError"
    BY <1>5, Heads
  <2> QED
    BY <1>5, <2>1 DEF H
<1>6. CASE p = Send2 /\ O
  BY <1>6, Heads DEF O
<1>7. CASE p = Error1 /\ H /\ ~calm
  BY <1>7, Heads DEF H
<1>8. CASE p = Error2 /\ ~calm
  BY <1>8, Heads
<1> QED
  BY <1>1, <1>2, <1>3, <1>4, <1>5, <1>6, <1>7, <1>8, Zenon

LEMMA Asked ==
  ASSUME NEW calm, NEW alone, NEW w, NEW p, NEW o, NEW m, Knows(calm, alone, w, p, o, m), p # <<>>
  PROVE  /\ Head(p) \in {"loadContext", "loadChanged", "resolve", "saveEmail", "saveNotes",
                         "cleanUp"} => Alerting(alone, w, p, o, m)
         /\ Head(p) = "enqueue" => Alerting(alone, w, p, o, m) \/ Making(w, p, o, m)
         /\ Head(p) = "saveOwn" => Making(w, p, o, m)
         /\ Head(p) = "saveRow" => Changing(calm, alone, w, p, o, m)
         /\ Head(p) \in {"loadRow", "send", "markSent", "settle", "markError", "abandon"} =>
              Processing(calm, alone, w, p, o, m)
<1>1. \/ Alerting(alone, w, p, o, m)
      \/ Making(w, p, o, m)
      \/ Changing(calm, alone, w, p, o, m)
      \/ Processing(calm, alone, w, p, o, m)
  BY DEF Knows
<1>2. Changing(calm, alone, w, p, o, m) => Head(p) = "saveRow"
  BY Heads DEF Changing
<1>3. Alerting(alone, w, p, o, m) =>
        Head(p) \in {"loadContext", "loadChanged", "resolve", "saveEmail", "saveNotes", "enqueue", "cleanUp"}
  BY AlertHeads
<1>4. Making(w, p, o, m) => Head(p) \in {"saveOwn", "enqueue"}
  BY MakeHeads
<1>5. Processing(calm, alone, w, p, o, m) =>
        Head(p) \in {"loadRow", "send", "markSent", "settle", "markError", "abandon"}
  BY ProcessHeads
<1> QED
  BY <1>1, <1>2, <1>3, <1>4, <1>5

\* What a request was asked says which group it is of.
LEMMA Ops ==
  ASSUME NEW calm, NEW alone, NEW w, NEW p, NEW o, NEW m, Knows(calm, alone, w, p, o, m)
  PROVE  /\ o.op \in {"dispatch", "delete"} => Alerting(alone, w, p, o, m)
         /\ o.op = "process" => Processing(calm, alone, w, p, o, m)
         /\ p = <<>> => o = NoRequest
         /\ o.op = "process" => p # <<>>
<1>1. NoRequest.op = "none"
  BY DEF NoRequest
<1>2. \/ p = <<>> /\ o = NoRequest
      \/ Alerting(alone, w, p, o, m)
      \/ Making(w, p, o, m)
      \/ Changing(calm, alone, w, p, o, m)
      \/ Processing(calm, alone, w, p, o, m)
  BY DEF Knows
<1>3. Alerting(alone, w, p, o, m) => o.op \in {"dispatch", "delete"} /\ p # <<>>
  BY AlertHeads DEF Alerting
<1>4. Making(w, p, o, m) => o.op = "create" /\ p # <<>>
  BY MakeHeads DEF Making
<1>5. Changing(calm, alone, w, p, o, m) => o.op \in {"update", "read"} /\ p # <<>>
  BY Heads DEF Changing
<1>6. Processing(calm, alone, w, p, o, m) => o.op = "process" /\ p # <<>>
  <2>1. Processing(calm, alone, w, p, o, m) => o.op = "process"
    BY Zenon DEF Processing
  <2>2. Processing(calm, alone, w, p, o, m) => p # <<>>
    BY ProcessHeads, Zenon
  <2> QED
    BY <2>1, <2>2
<1> QED
  BY <1>1, <1>2, <1>3, <1>4, <1>5, <1>6

-----------------------------------------------------------------------------
(* What the others do *)

\* What a step may do to the tables: rows are added and never taken away, nothing
\* is unsent or undeleted, and while nothing fails a row stays what it is.
Grows(calm, w, v) ==
  /\ DOMAIN w.rows \subseteq DOMAIN v.rows /\ w.removed \subseteq v.removed
  /\ \A i \in DOMAIN w.rows :
       /\ w.posted[i] > 0 => v.posted[i] > 0
       /\ calm /\ i \notin v.removed => v.rows[i].kind = w.rows[i].kind

\* What is known of a row that was loaded stays true, unless it depends on
\* being alone.
LEMMA HoldsStays ==
  ASSUME NEW calm, NEW calm2, NEW alone, NEW w, NEW v, NEW i, NEW m, calm2 => calm,
         Grows(calm2, w, v), Holds(calm, alone, w, i, m)
  PROVE  Holds(calm2, FALSE, v, i, m)
BY DEF Holds, Grows

LEMMA OverStays ==
  ASSUME NEW w, NEW v, NEW i \in DOMAIN w.rows, Grows(TRUE, w, v), Over(w, i)
  PROVE  Over(v, i)
BY DEF Over, Grows

LEMMA KnowsStays ==
  ASSUME NEW calm, NEW calm2, NEW alone, NEW w, NEW v, NEW p, NEW o, NEW m, calm2 => calm,
         Grows(calm2, w, v), Knows(calm, alone, w, p, o, m), calm2 \in BOOLEAN
  PROVE  Knows(calm2, FALSE, v, p, o, m)
<1>1. Job(w, m) => Job(v, m)
  BY DEF Job, Grows
<1>2. Alerting(alone, w, p, o, m) => Alerting(FALSE, v, p, o, m)
  BY <1>1 DEF Alerting
<1>3. Making(w, p, o, m) => Making(v, p, o, m)
  BY <1>1 DEF Making
<1>4. ASSUME NEW i, Holds(calm, alone, w, i, m) PROVE Holds(calm2, FALSE, v, i, m)
  BY <1>4, HoldsStays, Zenon
<1>5. Changing(calm, alone, w, p, o, m) => Changing(calm2, FALSE, v, p, o, m)
  BY <1>4, Zenon DEF Changing
<1>6. Processing(calm, alone, w, p, o, m) => Processing(calm2, FALSE, v, p, o, m)
  <2> SUFFICES ASSUME Processing(calm, alone, w, p, o, m) PROVE Processing(calm2, FALSE, v, p, o, m)
    OBVIOUS
  <2>1. o.op = "process" /\ o.row \in DOMAIN w.rows
    BY Zenon DEF Processing
  <2>2. o.row \in DOMAIN v.rows /\ (w.posted[o.row] > 0 => v.posted[o.row] > 0)
    BY <2>1 DEF Grows
  <2>3. calm2 /\ Over(w, o.row) => Over(v, o.row)
    <3> SUFFICES ASSUME calm2, Over(w, o.row) PROVE Over(v, o.row)
      OBVIOUS
    <3>1. calm2 = TRUE
      OBVIOUS
    <3>2. Grows(TRUE, w, v)
      BY <3>1
    <3> QED
      BY <2>1, <3>2, OverStays
  <2> QED
    BY <1>4, <2>1, <2>2, <2>3, Zenon DEF Processing
<1> QED
  BY <1>2, <1>3, <1>5, <1>6, Zenon DEF Knows

\* What is known of a request that is alone while it waits: nothing changes but
\* the item, which is not gone.
LEMMA KnowsWaits ==
  ASSUME NEW calm, NEW alone, NEW w, NEW v, NEW p, NEW o, NEW m, Knows(calm, alone, w, p, o, m),
         v.rows = w.rows, v.posted = w.posted, v.removed = w.removed, v.state # "gone"
  PROVE  Knows(calm, alone, v, p, o, m)
<1>1. Alerting(alone, w, p, o, m) => Alerting(alone, v, p, o, m)
  BY DEF Alerting, Job
<1>2. Making(w, p, o, m) => Making(v, p, o, m)
  BY DEF Making, Job
<1>3. ASSUME NEW i, Holds(calm, alone, w, i, m) PROVE Holds(calm, alone, v, i, m)
  BY <1>3 DEF Holds
<1>4. Changing(calm, alone, w, p, o, m) => Changing(calm, alone, v, p, o, m)
  BY <1>3, Zenon DEF Changing
<1>5. Processing(calm, alone, w, p, o, m) => Processing(calm, alone, v, p, o, m)
  <2>1. Over(w, o.row) => Over(v, o.row)
    BY DEF Over
  <2>2. o.row \in DOMAIN w.rows => o.row \in DOMAIN v.rows
    OBVIOUS
  <2>3. w.posted[o.row] > 0 => v.posted[o.row] > 0
    OBVIOUS
  <2> QED
    BY <1>3, <2>1, <2>2, <2>3, Zenon DEF Processing
<1> QED
  BY <1>1, <1>2, <1>4, <1>5, Zenon DEF Knows

-----------------------------------------------------------------------------
(* The bus *)

\* A statement that neither adds a row nor sends one nor touches the bus
LEMMA BusKept ==
  ASSUME NEW w, NEW v, NEW q, NEW owes, DOMAIN owes = Requests, NEW past, NEW past2,
         NEW c \in Requests, QueueOK(w, q, owes, past),
         v.posted = w.posted, DOMAIN v.rows = DOMAIN w.rows, Grows(TRUE, w, v), past => past2
  PROVE  QueueOK(v, q, [owes EXCEPT ![c] = owes[c]], past2)
<1> DEFINE owes2 == [owes EXCEPT ![c] = owes[c]]
<1>1. \A d \in Requests : owes2[d] = owes[d]
  OBVIOUS
<1> HIDE DEF owes2
<1>2. OwesOK(v, q, owes2)
  BY <1>1 DEF OwesOK, QueueOK
<1>3. BusOK(v, q, past2)
  BY DEF BusOK, QueueOK
<1>4. NoneLost(v, q, owes2)
  <2> SUFFICES ASSUME NEW i \in DOMAIN v.rows, i \notin Waiting(q),
                      ~(\E d \in Requests : i \in owes2[d])
               PROVE  Over(v, i)
    BY DEF NoneLost
  <2>1. Over(w, i)
    BY <1>1 DEF NoneLost, QueueOK
  <2> QED
    BY <2>1, OverStays
<1> QED
  BY <1>2, <1>3, <1>4 DEF QueueOK, owes2

LEMMA Ranges ==
  ASSUME NEW S, NEW q \in Seq(S)
  PROVE  /\ Waiting(q) \subseteq S
         /\ q # <<>> => Head(q) \in Waiting(q) /\ Head(q) \in S
<1>1. \A a \in DOMAIN q : q[a] \in S
  OBVIOUS
<1>2. q # <<>> => 1 \in DOMAIN q /\ Head(q) = q[1]
  OBVIOUS
<1> QED
  BY <1>1, <1>2 DEF Waiting

\* A row is saved, and c owes it.
LEMMA RowAdded ==
  ASSUME NEW S, NEW w, NEW v, NEW q, NEW owes, DOMAIN owes = Requests, NEW past, NEW r \in S,
         w.rows \in Seq(S), w.posted \in Seq(Nat), Len(w.posted) = Len(w.rows),
         NEW c \in Requests, QueueOK(w, q, owes, past), q \in Seq(DOMAIN w.rows),
         \A d \in Requests : owes[d] \subseteq DOMAIN w.rows, owes[c] = {},
         v.rows = Append(w.rows, r), v.posted = Append(w.posted, 0), v.removed = w.removed
  PROVE  QueueOK(v, q, [owes EXCEPT ![c] = {Len(w.rows) + 1}], past)
<1> DEFINE n == Len(w.rows) + 1
<1> DEFINE owes2 == [owes EXCEPT ![c] = {n}]
<1>1. owes2[c] = {n} /\ \A d \in Requests : d # c => owes2[d] = owes[d]
  OBVIOUS
<1>2. /\ n \in Nat /\ n \notin DOMAIN w.rows /\ DOMAIN w.rows = 1 .. n - 1
      /\ DOMAIN v.rows = 1 .. n /\ DOMAIN v.rows = DOMAIN w.rows \cup {n}
      /\ v.rows[n] = r /\ \A i \in 1 .. n - 1 : v.rows[i] = w.rows[i]
  OBVIOUS
<1>3. v.posted[n] = 0 /\ \A i \in 1 .. n - 1 : v.posted[i] = w.posted[i]
  BY DEF n
<1>4. Waiting(q) \subseteq DOMAIN w.rows
  BY Ranges, Zenon
<1> HIDE DEF owes2, n
<1>5. OwesOK(v, q, owes2)
  <2>1. ASSUME NEW d \in Requests, NEW i \in owes2[d] PROVE i \notin Waiting(q) /\ v.posted[i] = 0
    <3>1. CASE d = c
      BY <1>1, <1>2, <1>3, <1>4, <3>1
    <3>2. CASE d # c
      <4>1. i \in owes[d] /\ i \in 1 .. n - 1
        BY <1>1, <1>2, <3>2
      <4>2. i \notin Waiting(q) /\ w.posted[i] = 0
        BY <4>1 DEF OwesOK, QueueOK
      <4> QED
        BY <1>3, <4>1, <4>2
    <3> QED
      BY <3>1, <3>2
  <2>2. ASSUME NEW d \in Requests, NEW e \in Requests, d # e PROVE owes2[d] \cap owes2[e] = {}
    <3>1. \A f \in Requests : n \notin owes[f]
      BY <1>2
    <3>2. owes[d] \cap owes[e] = {}
      BY <2>2 DEF OwesOK, QueueOK
    <3> QED
      BY <1>1, <2>2, <3>1, <3>2
  <2> QED
    BY <2>1, <2>2 DEF OwesOK
<1>6. BusOK(v, q, past)
  <2>1. Distinct(q)
    BY DEF BusOK, QueueOK
  <2>2. ASSUME NEW i \in DOMAIN v.rows PROVE v.posted[i] <= 1
    BY <1>2, <1>3 DEF BusOK, QueueOK
  <2>3. ASSUME NEW i \in Waiting(q) PROVE v.posted[i] = 0 \/ (i = Head(q) /\ past)
    BY <1>2, <1>3, <1>4 DEF BusOK, QueueOK
  <2> QED
    BY <2>1, <2>2, <2>3 DEF BusOK
<1>7. NoneLost(v, q, owes2)
  <2> SUFFICES ASSUME NEW i \in DOMAIN v.rows, i \notin Waiting(q),
                      ~(\E d \in Requests : i \in owes2[d])
               PROVE  Over(v, i)
    BY DEF NoneLost
  <2>1. i # n
    BY <1>1
  <2>2. i \in 1 .. n - 1
    BY <1>2, <2>1
  <2>3. ~(\E d \in Requests : i \in owes[d])
    BY <1>1
  <2>4. Over(w, i)
    BY <1>2, <2>2, <2>3 DEF NoneLost, QueueOK
  <2>5. v.rows[i] = w.rows[i] /\ v.posted[i] = w.posted[i]
    BY <1>2, <1>3, <2>2
  <2> QED
    BY <2>4, <2>5 DEF Over
<1> QED
  BY <1>5, <1>6, <1>7 DEF QueueOK, owes2, n

\* The row that c owes goes on the bus.
LEMMA RowQueued ==
  ASSUME NEW w, NEW q, NEW owes, DOMAIN owes = Requests, NEW past, NEW S, NEW j \in S,
         NEW c \in Requests, QueueOK(w, q, owes, past), q \in Seq(S), owes[c] = {j}
  PROVE  QueueOK(w, Append(q, j), [owes EXCEPT ![c] = {}], past)
<1> DEFINE t == Append(q, j)
<1> DEFINE owes2 == [owes EXCEPT ![c] = {}]
<1>1. owes2[c] = {} /\ \A d \in Requests : d # c => owes2[d] = owes[d]
  OBVIOUS
<1>2. /\ DOMAIN q = 1 .. Len(q) /\ DOMAIN t = 1 .. Len(q) + 1 /\ Len(q) \in Nat
      /\ t[Len(q) + 1] = j /\ \A a \in 1 .. Len(q) : t[a] = q[a]
  OBVIOUS
<1> HIDE DEF owes2, t
<1>3. Waiting(t) = Waiting(q) \cup {j}
  <2>1. ASSUME NEW i \in Waiting(t) PROVE i \in Waiting(q) \cup {j}
    BY <1>2 DEF Waiting
  <2>2. ASSUME NEW i \in Waiting(q) PROVE i \in Waiting(t)
    BY <1>2 DEF Waiting
  <2>3. j \in Waiting(t)
    BY <1>2 DEF Waiting
  <2> QED
    BY <2>1, <2>2, <2>3
<1>4. j \notin Waiting(q) /\ w.posted[j] = 0
  BY DEF QueueOK, OwesOK
<1>5. OwesOK(w, t, owes2)
  <2>1. ASSUME NEW d \in Requests, NEW i \in owes2[d] PROVE i \notin Waiting(t) /\ w.posted[i] = 0
    <3>1. d # c /\ i \in owes[d] /\ i # j
      BY <1>1 DEF QueueOK, OwesOK
    <3> QED
      BY <1>3, <3>1 DEF QueueOK, OwesOK
  <2>2. ASSUME NEW d \in Requests, NEW e \in Requests, d # e PROVE owes2[d] \cap owes2[e] = {}
    BY <1>1, <2>2 DEF OwesOK, QueueOK
  <2> QED
    BY <2>1, <2>2 DEF OwesOK
<1>6. BusOK(w, t, past)
  <2>1. Distinct(t)
    <3> SUFFICES ASSUME NEW a \in DOMAIN t, NEW b \in DOMAIN t, t[a] = t[b] PROVE a = b
      BY DEF Distinct
    <3>1. \A e \in 1 .. Len(q) : q[e] # j
      BY <1>2, <1>4 DEF Waiting
    <3>2. CASE a \in 1 .. Len(q) /\ b \in 1 .. Len(q)
      BY <1>2, <3>2 DEF QueueOK, BusOK, Distinct
    <3> QED
      BY <1>2, <3>1, <3>2
  <2>2. ASSUME NEW i \in Waiting(t) PROVE w.posted[i] = 0 \/ (i = Head(t) /\ past)
    <3>1. CASE i = j
      BY <1>4, <3>1
    <3>2. CASE i # j
      <4>1. i \in Waiting(q)
        BY <1>3, <3>2
      <4>2. w.posted[i] = 0 \/ (i = Head(q) /\ past)
        BY <4>1 DEF QueueOK, BusOK
      <4>3. q # <<>>
        BY <4>1 DEF Waiting
      <4>4. Head(t) = Head(q)
        BY <4>3, HeadTailAppend DEF t
      <4> QED
        BY <4>2, <4>4
    <3> QED
      BY <3>1, <3>2
  <2> QED
    BY <2>1, <2>2 DEF BusOK, QueueOK
<1>7. NoneLost(w, t, owes2)
  BY <1>1, <1>3 DEF NoneLost, QueueOK
<1> QED
  BY <1>5, <1>6, <1>7 DEF QueueOK, owes2, t

\* The row at the head of the bus is sent.
SentOf(w, v, i) ==
  /\ w.posted \in [DOMAIN w.rows -> Nat] /\ v.rows = w.rows /\ v.removed = w.removed
  /\ v.posted[i] = w.posted[i] + 1
  /\ \A j \in DOMAIN w.rows : j # i => v.posted[j] = w.posted[j]

LEMMA HeadSent ==
  ASSUME NEW w, NEW v, NEW q, NEW owes, DOMAIN owes = Requests, NEW past, NEW past2, past2 = TRUE,
         NEW c \in Requests, QueueOK(w, q, owes, past), past = FALSE, q # <<>>, q \in Seq(DOMAIN w.rows),
         \A d \in Requests : owes[d] \subseteq DOMAIN w.rows, SentOf(w, v, Head(q))
  PROVE  QueueOK(v, q, [owes EXCEPT ![c] = owes[c]], past2)
<1> DEFINE h == Head(q)
<1> DEFINE owes2 == [owes EXCEPT ![c] = owes[c]]
<1> USE DEF SentOf
<1>1. \A d \in Requests : owes2[d] = owes[d]
  OBVIOUS
<1>2. h \in Waiting(q) /\ h \in DOMAIN w.rows /\ Waiting(q) \subseteq DOMAIN w.rows
  BY Ranges, Zenon
<1>3. w.posted[h] = 0
  BY <1>2 DEF QueueOK, BusOK
<1>4. v.posted[h] = 1 /\ \A i \in DOMAIN w.rows : i # h => v.posted[i] = w.posted[i]
  BY <1>2, <1>3
<1> HIDE DEF owes2, h
<1>5. OwesOK(v, q, owes2)
  <2>1. ASSUME NEW d \in Requests, NEW i \in owes2[d] PROVE i \notin Waiting(q) /\ v.posted[i] = 0
    <3>1. i \in DOMAIN w.rows /\ i \notin Waiting(q) /\ w.posted[i] = 0
      BY <1>1 DEF QueueOK, OwesOK
    <3> QED
      BY <1>2, <1>4, <3>1
  <2>2. ASSUME NEW d \in Requests, NEW e \in Requests, d # e PROVE owes2[d] \cap owes2[e] = {}
    BY <1>1, <2>2 DEF OwesOK, QueueOK
  <2> QED
    BY <2>1, <2>2 DEF OwesOK
<1>6. BusOK(v, q, past2)
  <2>1. Distinct(q)
    BY DEF BusOK, QueueOK
  <2>2. ASSUME NEW i \in DOMAIN v.rows PROVE v.posted[i] <= 1
    BY <1>4 DEF BusOK, QueueOK
  <2>3. ASSUME NEW i \in Waiting(q) PROVE v.posted[i] = 0 \/ (i = h /\ TRUE)
    BY <1>2, <1>4 DEF BusOK, QueueOK
  <2> QED
    BY <2>1, <2>2, <2>3 DEF BusOK, h
<1>7. NoneLost(v, q, owes2)
  <2> SUFFICES ASSUME NEW i \in DOMAIN v.rows, i \notin Waiting(q),
                      ~(\E d \in Requests : i \in owes2[d])
               PROVE  Over(v, i)
    BY DEF NoneLost
  <2>1. Over(w, i)
    BY <1>1 DEF NoneLost, QueueOK
  <2>2. i # h /\ v.posted[i] = w.posted[i]
    BY <1>2, <1>4
  <2> QED
    BY <2>1, <2>2 DEF Over
<1> QED
  BY <1>5, <1>6, <1>7 DEF QueueOK, owes2

\* What is over is taken off the bus.
LEMMA HeadTaken ==
  ASSUME NEW w, NEW q, NEW owes, DOMAIN owes = Requests, NEW past, NEW past2, NEW S,
         NEW c \in Requests, QueueOK(w, q, owes, past), q # <<>>, q \in Seq(S), Over(w, Head(q))
  PROVE  QueueOK(w, Tail(q), [owes EXCEPT ![c] = owes[c]], past2)
<1> DEFINE t == Tail(q)
<1> DEFINE h == Head(q)
<1> DEFINE owes2 == [owes EXCEPT ![c] = owes[c]]
<1>1. \A d \in Requests : owes2[d] = owes[d]
  OBVIOUS
<1>2. /\ Len(q) \in Nat /\ Len(q) > 0 /\ DOMAIN q = 1 .. Len(q) /\ h = q[1]
      /\ DOMAIN t = 1 .. Len(q) - 1 /\ \A a \in 1 .. Len(q) - 1 : t[a] = q[a + 1]
  OBVIOUS
<1> HIDE DEF owes2, t, h
<1>3. \A a, b \in 1 .. Len(q) : q[a] = q[b] => a = b
  BY <1>2 DEF QueueOK, BusOK, Distinct
<1>4. Waiting(t) = Waiting(q) \ {h}
  <2>1. ASSUME NEW i \in Waiting(t) PROVE i \in Waiting(q) /\ i # h
    <3>1. PICK a \in 1 .. Len(q) - 1 : i = q[a + 1]
      BY <1>2 DEF Waiting
    <3>2. a + 1 \in 1 .. Len(q) /\ a + 1 # 1 /\ 1 \in 1 .. Len(q)
      BY <1>2
    <3> QED
      BY <1>2, <1>3, <3>1, <3>2 DEF Waiting
  <2>2. ASSUME NEW i \in Waiting(q), i # h PROVE i \in Waiting(t)
    <3>1. PICK a \in 1 .. Len(q) : i = q[a]
      BY <1>2 DEF Waiting
    <3>2. a - 1 \in 1 .. Len(q) - 1 /\ (a - 1) + 1 = a
      BY <1>2, <2>2, <3>1
    <3>3. t[a - 1] = q[a]
      BY <1>2, <3>2
    <3> QED
      BY <1>2, <3>1, <3>2, <3>3 DEF Waiting
  <2> QED
    BY <2>1, <2>2
<1>5. OwesOK(w, t, owes2)
  BY <1>1, <1>4 DEF OwesOK, QueueOK
<1>6. BusOK(w, t, past2)
  <2>1. Distinct(t)
    <3> SUFFICES ASSUME NEW a \in DOMAIN t, NEW b \in DOMAIN t, t[a] = t[b] PROVE a = b
      BY DEF Distinct
    <3>1. a + 1 \in 1 .. Len(q) /\ b + 1 \in 1 .. Len(q) /\ q[a + 1] = q[b + 1]
      BY <1>2
    <3> QED
      BY <1>2, <1>3, <3>1
  <2>2. ASSUME NEW i \in Waiting(t) PROVE w.posted[i] = 0
    BY <1>4 DEF QueueOK, BusOK, h
  <2> QED
    BY <2>1, <2>2 DEF BusOK, QueueOK
<1>7. NoneLost(w, t, owes2)
  BY <1>1, <1>4 DEF NoneLost, QueueOK, h
<1> QED
  BY <1>5, <1>6, <1>7 DEF QueueOK, owes2, t

-----------------------------------------------------------------------------
(* How a step keeps the invariant *)

LEMMA Worlds ==
  /\ World.rows = rows /\ World.posted = posted /\ World.removed = removed /\ World.state = state
  /\ World'.rows = rows' /\ World'.posted = posted' /\ World'.removed = removed'
  /\ World'.state = state'
BY DEF World

LEMMA Standing ==
  ASSUME DeliveryInv, NEW c \in Requests
  PROVE  /\ Knows(~failed, Clean, World, plan[c], req[c], mem[c])
         /\ TablesOK(World) /\ queue \in Seq(DOMAIN rows)
         /\ failed \in BOOLEAN /\ Clean \in BOOLEAN /\ overlapped \in BOOLEAN
         /\ Past \in BOOLEAN /\ (Past => Consumer \in Requests /\ req[Consumer].op = "process")
         /\ DOMAIN Owes = Requests /\ Owes[c] = OwedBy(plan[c], mem[c])
         /\ req[c].op = "process" => c = Consumer /\ queue # <<>> /\ req[c].row = Head(queue)
         /\ ~failed => QueueOK(World, queue, Owes, Past)
         /\ Clean => CleanOK(World, Cleans)
<1>1. Past \in BOOLEAN /\ (Past => Consumer \in Requests /\ req[Consumer].op = "process")
  BY DEF Past, PastBy
<1>2. DOMAIN Owes = Requests /\ Owes[c] = OwedBy(plan[c], mem[c])
  BY DEF Owes
<1>3. Clean \in BOOLEAN
  BY DEF Clean
<1> QED
  BY <1>1, <1>2, <1>3, Zenon DEF DeliveryInv, RequestsOK

\* What is owed is a row.
LEMMA OwedRows ==
  ASSUME DeliveryInv, NEW c \in Requests
  PROVE  Owes[c] \subseteq DOMAIN rows
<1>1. Knows(~failed, Clean, World, plan[c], req[c], mem[c]) /\ Owes[c] = OwedBy(plan[c], mem[c])
  BY Standing
<1>2. CASE plan[c] # <<>> /\ Head(plan[c]) = "enqueue"
  <2>1. Alerting(Clean, World, plan[c], req[c], mem[c]) \/ Making(World, plan[c], req[c], mem[c])
    BY <1>1, <1>2, Asked, Zenon
  <2>2. Job(World, mem[c])
    BY <1>2, <2>1, AlertHeads, MakeHeads, Zenon
  <2>3. PICK j \in DOMAIN rows : mem[c].ids = <<j>>
    BY <2>2, Worlds DEF Job
  <2>4. Head(mem[c].ids) = j
    BY <2>3
  <2> QED
    BY <1>1, <1>2, <2>4 DEF OwedBy
<1>3. CASE ~(plan[c] # <<>> /\ Head(plan[c]) = "enqueue")
  BY <1>1, <1>3 DEF OwedBy
<1> QED
  BY <1>2, <1>3

\* A handler is called, or the consumer takes a message.
LEMMA Arrives ==
  ASSUME DeliveryInv, NEW c \in Requests, NEW r, NEW m, NEW p, Begin(c, r, m, p),
         served' \in 0 .. MaxServed, p # <<>>,
         UNCHANGED <<item, rules, rows, removed, queue, posted>>, state' \in States,
         Knows(~failed, Clean /\ Quiet, World', p, r, m), Head(p) # "enqueue", ~PastBy(p, r),
         r.op = "process" => c = Consumer /\ queue # <<>> /\ r.row = Head(queue),
         Clean /\ Quiet => CleanOK(World', p \in CleanPlans)
  PROVE  DeliveryInv'
<1> USE DEF DeliveryInv
<1>1. /\ Idle(c) /\ overlapped' = (overlapped \/ ~Quiet) /\ failed' = failed
      /\ plan' = [plan EXCEPT ![c] = p] /\ req' = [req EXCEPT ![c] = r]
         /\ mem' = [mem EXCEPT ![c] = m]
  BY DEF Begin
<1>2. RequestsOK'
  <2>1. overlapped' \in BOOLEAN /\ failed' \in BOOLEAN
    BY <1>1, Standing, Zenon
  <2>2. DOMAIN plan' = Requests /\ DOMAIN req' = Requests /\ DOMAIN mem' = Requests
    BY <1>1 DEF RequestsOK
  <2> QED
    BY <2>1, <2>2, Zenon DEF RequestsOK
<1>3. /\ plan'[c] = p /\ req'[c] = r /\ mem'[c] = m
      /\ \A d \in Requests \ {c} : plan'[d] = plan[d] /\ req'[d] = req[d] /\ mem'[d] = mem[d]
  BY <1>1 DEF RequestsOK
<1>4. TablesOK(World')
  BY Standing, Worlds DEF TablesOK
<1>5. Grows(~failed, World, World')
  BY Worlds DEF Grows
<1>6. Clean' <=> Clean /\ Quiet
  BY <1>1, Zenon DEF Clean
<1>7. (~overlapped => Alone)'
  <2> SUFFICES ASSUME ~overlapped' PROVE Alone'
    OBVIOUS
  <2>1. \A d \in Requests \ {c} : Idle(d)'
    BY <1>1, <1>3 DEF Quiet, Idle
  <2> QED
    BY <2>1 DEF Alone
<1>8. ASSUME NEW d \in Requests PROVE Knows(~failed', Clean', World', plan'[d], req'[d], mem'[d])
  <2>1. (~failed') = (~failed) /\ Clean' = (Clean /\ Quiet) /\ (~failed) \in BOOLEAN
    BY <1>1, <1>6, Standing, Zenon DEF Clean
  <2>2. CASE d = c
    BY <1>3, <2>1, <2>2, Zenon
  <2>3. CASE d # c /\ ~Clean'
    <3>1. Knows(~failed, FALSE, World', plan[d], req[d], mem[d])
      BY <1>5, <2>1, Standing, KnowsStays, Zenon
    <3>2. Clean' = FALSE
      BY <2>3, Zenon DEF Clean
    <3> QED
      BY <1>3, <2>1, <2>3, <3>1, <3>2, Zenon
  <2>4. CASE d # c /\ Clean'
    <3>1. plan'[d] = <<>> /\ plan[d] = <<>> /\ req'[d] = req[d]
      BY <1>3, <1>6, <2>4 DEF Quiet, Idle
    <3>2. req[d] = NoRequest
      BY <3>1, Standing, Ops, Zenon
    <3> QED
      BY <3>1, <3>2, Zenon DEF Knows
  <2> QED
    BY <2>2, <2>3, <2>4, Zenon
<1>9. ASSUME NEW d \in Requests
      PROVE  req'[d].op = "process" => d = Consumer /\ queue' # <<>> /\ req'[d].row = Head(queue')
  BY <1>3, Standing
<1>10. Past => Past'
  <2> SUFFICES ASSUME Past PROVE Past'
    OBVIOUS
  <2>1. Consumer \in Requests /\ plan[Consumer] # <<>>
    BY DEF Past, PastBy
  <2>2. Consumer # c
    BY <1>1, <2>1 DEF Idle
  <2> QED
    BY <1>3, <2>1, <2>2 DEF Past
<1>11. ~failed' => QueueOK(World', queue', Owes', Past')
  <2> SUFFICES ASSUME ~failed PROVE QueueOK(World', queue', Owes', Past')
    BY <1>1
  <2>1. Owes[c] = {} /\ OwedBy(p, m) = {}
    BY <1>1, Standing DEF OwedBy, Idle
  <2>2. Owes' = [Owes EXCEPT ![c] = Owes[c]]
    <3>1. Owes' = [d \in Requests |-> OwedBy(plan'[d], mem'[d])]
      BY DEF Owes
    <3>2. \A d \in Requests : OwedBy(plan'[d], mem'[d]) = IF d = c THEN Owes[c] ELSE Owes[d]
      BY <1>3, <2>1 DEF Owes
    <3>3. DOMAIN Owes = Requests
      BY DEF Owes
    <3> QED
      BY <3>1, <3>2 DEF Owes
  <2>3. QueueOK(World, queue, Owes, Past) /\ DOMAIN Owes = Requests
    BY Standing
  <2>4. World'.posted = World.posted /\ DOMAIN World'.rows = DOMAIN World.rows
    BY Worlds
  <2>5. Grows(TRUE, World, World')
    BY <1>5 DEF Grows
  <2>6. QueueOK(World', queue, [Owes EXCEPT ![c] = Owes[c]], Past')
    BY <1>10, <2>3, <2>4, <2>5, BusKept, Zenon
  <2> QED
    BY <2>2, <2>6
<1>12. Clean' => CleanOK(World', Cleans')
  <2> SUFFICES ASSUME Clean /\ Quiet PROVE CleanOK(World', Cleans')
    BY <1>6
  <2>1. p \in CleanPlans => Cleans'
    BY <1>3 DEF Cleans
  <2> QED
    BY <2>1 DEF CleanOK
<1>13. item' \in Items /\ rules' \subseteq Rule /\ queue' \in Seq(DOMAIN rows')
  OBVIOUS
<1> QED
  BY <1>2, <1>4, <1>7, <1>8, <1>9, <1>11, <1>12, <1>13, Zenon

\* A statement of a request
LEMMA GoesOn ==
  ASSUME DeliveryInv, NEW c \in Requests, ~Idle(c), NEW p, NEW m, Continue(c, p, m),
         failed' \in BOOLEAN, failed => failed', UNCHANGED <<item, rules>>,
         TablesOK(World'), queue' \in Seq(DOMAIN rows'), Grows(~failed', World, World'),
         p # <<>> => Knows(~failed', Clean /\ ~failed', World', p, req[c], m),
         \/ req[c].op = "process" /\ p = <<>>
         \/ queue # <<>> => queue' # <<>> /\ Head(queue') = Head(queue),
         ~failed' => QueueOK(World', queue', [Owes EXCEPT ![c] = OwedBy(p, m)],
                             IF req[c].op = "process" THEN PastBy(p, req[c]) ELSE Past),
         Clean /\ ~failed' => CleanOK(World', p \in CleanPlans)
  PROVE  DeliveryInv'
<1> USE DEF DeliveryInv
<1>1. /\ plan' = [plan EXCEPT ![c] = p]
      /\ req' = IF p = <<>> THEN [req EXCEPT ![c] = NoRequest] ELSE req
      /\ mem' = [mem EXCEPT ![c] = IF p = <<>> THEN <<>> ELSE m]
      /\ served' = served /\ overlapped' = overlapped
  BY DEF Continue
<1>2. RequestsOK'
  <2>1. DOMAIN plan' = Requests /\ DOMAIN req' = Requests /\ DOMAIN mem' = Requests
    BY <1>1 DEF RequestsOK
  <2> QED
    BY <1>1, <2>1, Zenon DEF RequestsOK
<1>3. /\ plan'[c] = p /\ (p # <<>> => req'[c] = req[c] /\ mem'[c] = m)
      /\ (p = <<>> => req'[c] = NoRequest /\ mem'[c] = <<>>)
      /\ \A d \in Requests \ {c} : plan'[d] = plan[d] /\ req'[d] = req[d] /\ mem'[d] = mem[d]
  BY <1>1 DEF RequestsOK
<1>4. Clean' = (Clean /\ ~failed')
  BY <1>1, Zenon DEF Clean
<1>5. (~overlapped => Alone)'
  BY <1>1, <1>3 DEF Alone, Idle
<1>6. ASSUME NEW d \in Requests PROVE Knows(~failed', Clean', World', plan'[d], req'[d], mem'[d])
  <2>1. CASE d = c
    <3>1. CASE p = <<>>
      BY <1>3, <2>1, <3>1, Zenon DEF Knows
    <3>2. CASE p # <<>>
      BY <1>3, <1>4, <2>1, <3>2, Zenon
    <3> QED
      BY <3>1, <3>2, Zenon
  <2>2. CASE d # c /\ ~Clean'
    <3>1. (~failed' => ~failed) /\ (~failed') \in BOOLEAN
      BY Zenon
    <3>2. Knows(~failed', FALSE, World', plan[d], req[d], mem[d])
      BY <3>1, Standing, KnowsStays, Zenon
    <3>3. Clean' = FALSE
      BY <2>2, Zenon DEF Clean
    <3> QED
      BY <1>3, <2>2, <3>2, <3>3, Zenon
  <2>3. CASE d # c /\ Clean'
    <3>1. Idle(d)
      BY <1>4, <2>3 DEF Clean, Alone
    <3>2. plan'[d] = <<>> /\ plan[d] = <<>> /\ req'[d] = req[d]
      BY <1>3, <2>3, <3>1 DEF Idle
    <3>3. req[d] = NoRequest
      BY <3>2, Standing, Ops, Zenon
    <3> QED
      BY <3>2, <3>3, Zenon DEF Knows
  <2> QED
    BY <2>1, <2>2, <2>3, Zenon
<1>7. NoRequest.op # "process"
  BY DEF NoRequest
<1>8. ASSUME NEW d \in Requests, req'[d].op = "process"
      PROVE  d = Consumer /\ queue' # <<>> /\ req'[d].row = Head(queue')
  <2>1. req'[d] = req[d] /\ (d = c => p # <<>>)
    BY <1>3, <1>7, <1>8
  <2>2. d = Consumer /\ queue # <<>> /\ req[d].row = Head(queue)
    BY <1>8, <2>1, Standing
  <2>3. ~(req[c].op = "process" /\ p = <<>>)
    <3> SUFFICES ASSUME req[c].op = "process", p = <<>> PROVE FALSE
      OBVIOUS
    <3>1. c = Consumer
      BY Standing
    <3> QED
      BY <2>1, <2>2, <3>1
  <2> QED
    BY <2>1, <2>2, <2>3
<1>9. ~failed' => QueueOK(World', queue', Owes', Past')
  <2> SUFFICES ASSUME ~failed' PROVE QueueOK(World', queue', Owes', Past')
    OBVIOUS
  <2>1. Owes' = [Owes EXCEPT ![c] = OwedBy(p, m)]
    <3>1. Owes' = [d \in Requests |-> OwedBy(plan'[d], mem'[d])]
      BY DEF Owes
    <3>2. OwedBy(plan'[c], mem'[c]) = OwedBy(p, m)
      BY <1>3 DEF OwedBy
    <3>3. \A d \in Requests : OwedBy(plan'[d], mem'[d]) = IF d = c THEN OwedBy(p, m) ELSE Owes[d]
      BY <1>3, <3>2 DEF Owes
    <3> QED
      BY <3>1, <3>3 DEF Owes
  <2>2. Past' = IF req[c].op = "process" THEN PastBy(p, req[c]) ELSE Past
    <3>1. CASE req[c].op = "process" /\ p = <<>>
      <4>1. c = Consumer
        BY <3>1, Standing
      <4>2. Past' = FALSE /\ PastBy(p, req[c]) = FALSE
        BY <1>3, <3>1, <4>1 DEF Past, PastBy
      <4> QED
        BY <3>1, <4>2
    <3>2. CASE req[c].op = "process" /\ p # <<>>
      <4>1. c = Consumer
        BY <3>2, Standing
      <4>2. Past' = PastBy(p, req[c])
        BY <1>3, <3>2, <4>1 DEF Past, PastBy
      <4> QED
        BY <3>2, <4>2
    <3>3. CASE req[c].op # "process" /\ c # Consumer
      <4>1. Past' = Past
        BY <1>3, <3>3 DEF Past
      <4> QED
        BY <3>3, <4>1
    <3>4. CASE req[c].op # "process" /\ c = Consumer
      <4>1. Past = FALSE
        BY <3>4 DEF Past, PastBy
      <4>2. req'[c].op # "process"
        BY <1>3, <1>7, <3>4
      <4>3. Past' = FALSE
        BY <3>4, <4>2 DEF Past, PastBy
      <4> QED
        BY <3>4, <4>1, <4>3
    <3> QED
      BY <3>1, <3>2, <3>3, <3>4
  <2> QED
    BY <2>1, <2>2
<1>10. Clean' => CleanOK(World', Cleans')
  <2> SUFFICES ASSUME Clean /\ ~failed' PROVE CleanOK(World', Cleans')
    BY <1>4
  <2>1. p \in CleanPlans => Cleans'
    BY <1>3 DEF Cleans
  <2> QED
    BY <2>1 DEF CleanOK
<1>11. item' \in Items /\ rules' \subseteq Rule
  OBVIOUS
<1> QED
  BY <1>2, <1>5, <1>6, <1>8, <1>9, <1>10, <1>11, Zenon

\* A request that is alone is the only one that may clean up.
LEMMA AloneCleans ==
  ASSUME DeliveryInv, NEW c \in Requests, ~Idle(c), Clean
  PROVE  CleanOK(World, plan[c] \in CleanPlans)
<1>1. CleanOK(World, Cleans) /\ Alone
  BY Standing DEF DeliveryInv, Clean
<1>2. <<>> \notin CleanPlans
  BY Heads DEF CleanPlans
<1>3. Cleans => plan[c] \in CleanPlans
  <2> SUFFICES ASSUME NEW d \in Requests, plan[d] \in CleanPlans PROVE plan[c] \in CleanPlans
    BY DEF Cleans
  <2>1. ~Idle(d)
    BY <1>2 DEF Idle
  <2>2. d = c
    BY <1>1, <2>1, Zenon DEF Alone
  <2> QED
    BY <2>2
<1> QED
  BY <1>1, <1>3 DEF CleanOK

\* A statement that only reads
LEMMA Turns ==
  ASSUME DeliveryInv, NEW c \in Requests, ~Idle(c), NEW p, NEW m, Continue(c, p, m),
         failed' \in BOOLEAN, failed => failed', UNCHANGED <<tables, bus>>,
         p # <<>> => Knows(~failed', Clean /\ ~failed', World, p, req[c], m),
         ~failed' => OwedBy(p, m) = OwedBy(plan[c], mem[c]),
         ~failed' => (req[c].op = "process" /\ PastBy(plan[c], req[c]) => PastBy(p, req[c])),
         ~failed' => (plan[c] \in CleanPlans => p \in CleanPlans)
  PROVE  DeliveryInv'
<1>1. /\ UNCHANGED <<item, rules>> /\ rows' = rows /\ queue' = queue /\ World' = World
  BY DEF tables, bus, World
<1>2. TablesOK(World') /\ queue' \in Seq(DOMAIN rows')
  BY <1>1, Standing
<1>3. Grows(~failed', World, World')
  BY <1>1 DEF Grows
<1>4. p # <<>> => Knows(~failed', Clean /\ ~failed', World', p, req[c], m)
  BY <1>1
<1>5. ~failed' => QueueOK(World', queue', [Owes EXCEPT ![c] = OwedBy(p, m)],
                          IF req[c].op = "process" THEN PastBy(p, req[c]) ELSE Past)
  <2> SUFFICES ASSUME ~failed'
               PROVE  QueueOK(World', queue', [Owes EXCEPT ![c] = OwedBy(p, m)],
                              IF req[c].op = "process" THEN PastBy(p, req[c]) ELSE Past)
    OBVIOUS
  <2> DEFINE past2 == IF req[c].op = "process" THEN PastBy(p, req[c]) ELSE Past
  <2>1. Past => past2
    <3> SUFFICES ASSUME Past, req[c].op = "process" PROVE PastBy(p, req[c])
      OBVIOUS
    <3>1. c = Consumer
      BY Standing
    <3> QED
      BY <3>1 DEF Past
  <2> HIDE DEF past2
  <2>2. QueueOK(World, queue, Owes, Past) /\ DOMAIN Owes = Requests /\ Owes[c] = OwedBy(p, m)
    BY Standing
  <2>3. Grows(TRUE, World, World)
    BY DEF Grows
  <2>4. QueueOK(World, queue, [Owes EXCEPT ![c] = Owes[c]], past2)
    BY <2>1, <2>2, <2>3, BusKept, Zenon
  <2> QED
    BY <1>1, <2>2, <2>4 DEF past2
<1>6. Clean /\ ~failed' => CleanOK(World', p \in CleanPlans)
  <2> SUFFICES ASSUME Clean, ~failed' PROVE CleanOK(World, p \in CleanPlans)
    BY <1>1
  <2>1. CleanOK(World, plan[c] \in CleanPlans)
    BY AloneCleans
  <2> QED
    BY <2>1 DEF CleanOK
<1> QED
  BY <1>1, <1>2, <1>3, <1>4, <1>5, <1>6, GoesOn

\* No clean-up ends these plans.
LEMMA NotCleaning ==
  ASSUME NEW p,
         p \in {<<>>, Load0, Load1, Own0, Row0, Take0, Send0, Send1, Send2, Error0, Error1, Error2}
  PROVE  p \notin CleanPlans
<1>1. \A r \in CleanPlans : r # <<>> /\ Head(r) \in {"resolve", "saveEmail", "saveNotes", "enqueue", "cleanUp"}
  BY Heads DEF CleanPlans
<1>2. CASE p \in {Load0, Load1}
  BY <1>1, <1>2, Heads
<1>3. CASE p \in {Own0, Row0, Take0}
  BY <1>1, <1>3, Heads
<1>4. CASE p \in {Send0, Send1, Send2}
  BY <1>1, <1>4, Heads
<1>5. CASE p \in {Error0, Error1, Error2}
  BY <1>1, <1>5, Heads
<1>6. CASE p = <<>>
  BY <1>1, <1>6
<1> QED
  BY <1>2, <1>3, <1>4, <1>5, <1>6

\* A request stops at its next statement.
LEMMA StopsEarly ==
  ASSUME DeliveryInv, NEW c \in Requests, ~Idle(c), Stop(c),
         Head(plan[c]) \in {"loadContext", "loadChanged"}
  PROVE  DeliveryInv'
<1>1. Continue(c, <<>>, <<>>) /\ failed' = failed /\ UNCHANGED <<tables, bus>>
  BY DEF Stop, End
<1>2. Alerting(Clean, World, plan[c], req[c], mem[c])
  BY Standing, Asked, Zenon DEF Idle
<1>3. plan[c] \in {Load0, Load1}
  BY <1>2, AlertHeads, Zenon
<1>4. plan[c] \notin CleanPlans
  BY <1>3, NotCleaning
<1>5. OwedBy(<<>>, <<>>) = {} /\ OwedBy(plan[c], mem[c]) = {} /\ ~PastBy(plan[c], req[c])
  BY DEF OwedBy, PastBy
<1>6. failed' \in BOOLEAN
  BY <1>1, Standing
<1> QED
  BY <1>1, <1>4, <1>5, <1>6, Turns

LEMMA Fails ==
  ASSUME DeliveryInv, NEW c \in Requests, Fail(c)
  PROVE  DeliveryInv'
<1>1. Continue(c, <<>>, <<>>) /\ failed' = TRUE /\ ~Idle(c) /\ UNCHANGED <<tables, bus>>
  BY DEF Fail, Break
<1> QED
  BY <1>1, Turns

-----------------------------------------------------------------------------
(* Alerts *)

LEMMA ContextType ==
  ASSUME item \in Items, NEW e \in Events, NEW a \in People
  PROVE  Context(e, a) \in Contexts
BY DEF Context, Contexts, Items

LEMMA LoadsContext ==
  ASSUME DeliveryInv, NEW c \in Requests, LoadContext(c)
  PROVE  DeliveryInv'
<1>1. ~Idle(c) /\ plan[c] # <<>> /\ Head(plan[c]) \in {"loadContext", "loadChanged"}
  BY DEF LoadContext, At, Idle
<1>2. CASE Skipped(c)
  <2>1. Stop(c)
    BY <1>2 DEF LoadContext
  <2> QED
    BY <1>1, <2>1, StopsEarly
<1>3. CASE ~Skipped(c)
  <2> DEFINE m == Context(mem[c].event, mem[c].actor)
  <2>1. Proceed(c, m) /\ UNCHANGED <<tables, bus>>
    BY <1>3 DEF LoadContext
  <2>2. Alerting(Clean, World, plan[c], req[c], mem[c])
    BY <1>1, Standing, Asked, Zenon
  <2>3. plan[c] \in {Load0, Load1} /\ IsCall(mem[c])
    BY <1>1, <2>2, AlertHeads, Zenon
  <2>4. m \in Contexts
    BY <2>3, ContextType DEF IsCall, DeliveryInv
  <2> HIDE DEF m
  <2>5. Tail(plan[c]) = Pick0 /\ Head(Pick0) = "resolve" /\ Pick0 # <<>>
    BY <2>3, AlertPlans, Heads DEF Begins
  <2>6. Continue(c, Pick0, m) /\ failed' = failed /\ failed' \in BOOLEAN
    BY <2>1, <2>5, Standing DEF Proceed, Rest
  <2>7. Alerting(Clean, World, Pick0, req[c], m)
    BY <2>2, <2>4 DEF Alerting
  <2>8. (Clean /\ ~failed') = Clean /\ (~failed') = (~failed)
    BY <2>6, Zenon DEF Clean
  <2>9. Knows(~failed', Clean /\ ~failed', World, Pick0, req[c], m)
    BY <2>7, <2>8, Zenon DEF Knows
  <2>10. OwedBy(Pick0, m) = {} /\ OwedBy(plan[c], mem[c]) = {} /\ ~PastBy(plan[c], req[c])
    BY <1>1, <2>5 DEF OwedBy, PastBy
  <2>11. plan[c] \notin CleanPlans
    BY <2>3, NotCleaning
  <2> QED
    BY <1>1, <2>1, <2>6, <2>9, <2>10, <2>11, Turns
<1> QED
  BY <1>2, <1>3

LEMMA FindsNoChange ==
  ASSUME DeliveryInv, NEW c \in Requests, NotChanged(c)
  PROVE  DeliveryInv'
<1>1. ~Idle(c) /\ Head(plan[c]) \in {"loadContext", "loadChanged"} /\ Stop(c)
  BY DEF NotChanged, At, Idle
<1> QED
  BY <1>1, StopsEarly

-----------------------------------------------------------------------------
(* Who is told *)

LEMMA OfPeople ==
  ASSUME NEW x \in Contexts, NEW R \in SUBSET Roles
  PROVE  OfAll(x, R) \subseteq People
<1>1. /\ x.participants \subseteq People /\ x.actor \in People /\ x.creator \in People
      /\ x.assignee \in People \cup {Nobody}
  BY DEF Contexts
<1>2. ASSUME NEW r \in Roles PROVE Of(x, r) \subseteq People
  <2>1. CASE r = "participants"
    BY <1>1, <2>1 DEF Of
  <2>2. CASE r = "actor"
    BY <1>1, <2>2 DEF Of
  <2>3. CASE r = "creator"
    BY <1>1, <2>3 DEF Of
  <2>4. CASE r = "assignee"
    BY <1>1, <2>4 DEF Of
  <2> QED
    BY <2>1, <2>2, <2>3, <2>4 DEF Roles
<1> QED
  BY <1>2 DEF OfAll

\* The matrix writes to somebody.
LEMMA LegacyToSome ==
  ASSUME NEW x \in Contexts, NEW e \in Events
  PROVE  LegacyTo(e, x) \subseteq People /\ LegacyTo(e, x) # {}
<1>1. x.creator \in People /\ x.assignee \in People \cup {Nobody}
  BY DEF Contexts
<1>2. CASE e \in {"created", "updated", "assigned"}
  <2>1. LegacyTo(e, x) = OrCreator(x)
    BY <1>2 DEF LegacyTo
  <2> QED
    BY <1>1, <2>1 DEF OrCreator
<1>3. CASE e \in {"status", "changed"}
  <2>1. LegacyTo(e, x) = OfAll(x, {"assignee", "creator"})
    BY <1>3 DEF LegacyTo
  <2>2. OfAll(x, {"assignee", "creator"}) \subseteq People
    BY OfPeople DEF Roles
  <2>3. x.creator \in OfAll(x, {"assignee", "creator"})
    <3>1. x.creator \in Of(x, "creator")
      BY DEF Of
    <3> QED
      BY <3>1 DEF OfAll
  <2> QED
    BY <2>1, <2>2, <2>3
<1>4. CASE e = "deleted"
  <2>1. LegacyTo(e, x) = {x.creator}
    BY <1>4 DEF LegacyTo
  <2> QED
    BY <1>1, <2>1
<1> QED
  BY <1>2, <1>3, <1>4 DEF Events

LEMMA LegacyWho ==
  ASSUME NEW x \in Contexts, NEW e \in Events
  PROVE  Legacy(e, x) \in Who /\ AddressedTo(Legacy(e, x))
<1> DEFINE to == LegacyTo(e, x)
<1> DEFINE cc == LegacyCc(e, x)
<1>1. to \subseteq People /\ to # {}
  BY LegacyToSome
<1>2. TicketCc(e) \subseteq Roles
  <2>1. CASE e \in {"created", "updated"}
    BY <2>1 DEF TicketCc, Roles
  <2>2. CASE e = "assigned"
    BY <2>2 DEF TicketCc, Roles
  <2>3. CASE e \in {"status", "changed"}
    BY <2>3 DEF TicketCc, Roles
  <2>4. CASE e = "deleted"
    BY <2>4 DEF TicketCc, Roles
  <2> QED
    BY <2>1, <2>2, <2>3, <2>4 DEF Events
<1>3. TaskCc(e) \subseteq Roles
  BY <1>2 DEF TaskCc, Roles
<1>4. cc \subseteq People /\ to \cap cc = {}
  <2>1. OfAll(x, TicketCc(e)) \subseteq People /\ OfAll(x, TaskCc(e)) \subseteq People
    BY <1>2, <1>3, OfPeople
  <2> QED
    BY <2>1 DEF LegacyCc
<1>5. Legacy(e, x) = [to |-> to, cc |-> cc, told |-> to \cup cc]
  BY DEF Legacy
<1> HIDE DEF to, cc
<1> QED
  BY <1>1, <1>4, <1>5 DEF Who, AddressedTo

\* The rules write to people only, in whatever order they come.
LEMMA RuledWho ==
  ASSUME NEW x \in Contexts, NEW order, \A i \in DOMAIN order : order[i] \in Rule
  PROVE  Ruled(order, x) \in Who
<1> DEFINE all == {order[i] : i \in DOMAIN order}
<1>1. \A r \in all : r.to \subseteq Roles /\ r.cc \subseteq Roles
  BY DEF Rule
<1> HIDE DEF all
<1>2. \A r \in all : OfAll(x, r.to) \subseteq People /\ OfAll(x, r.cc) \subseteq People
  BY <1>1, OfPeople
<1>3. MailTo(all, x) \subseteq People
  BY <1>2 DEF MailTo
<1>4. PushTo(all, x) \subseteq People
  BY <1>2 DEF PushTo
<1>5. PushCc(all, x) \subseteq People
  BY <1>2 DEF PushCc
<1>6. MailCc(order, x) \subseteq People
  <2>1. ASSUME NEW i \in DOMAIN order PROVE OfAll(x, order[i].cc) \subseteq People
    BY <1>2 DEF all
  <2> QED
    BY <2>1 DEF MailCc
<1>7. x.actor \in People
  BY DEF Contexts
<1> DEFINE to == MailTo(all, x)
<1> DEFINE cc == MailCc(order, x)
<1> DEFINE told == PushTo(all, x) \cup PushCc(all, x)
                   \cup (IF MailTo(all, x) = {} /\ PushTo(all, x) = {} THEN {x.actor} ELSE {})
<1>8. Ruled(order, x) = [to |-> to, cc |-> cc, told |-> told]
  BY DEF Ruled, all
<1>9. to \subseteq People /\ cc \subseteq People /\ told \subseteq People
  BY <1>3, <1>4, <1>5, <1>6, <1>7
<1> HIDE DEF to, cc, told
<1> QED
  BY <1>8, <1>9 DEF Who

\* Whoever is resolved is known; by the matrix somebody is written to.
LEMMA ResolvedWho ==
  ASSUME NEW x \in Contexts, NEW e \in Events, NEW S \in SUBSET Rule, NEW who \in Resolved(S, e, x)
  PROVE  who \in Who /\ (S = {} => AddressedTo(who))
<1>1. CASE S = {}
  <2>1. who = Legacy(e, x)
    BY <1>1 DEF Resolved
  <2> QED
    BY <2>1, LegacyWho
<1>2. CASE S # {}
  <2> DEFINE matching == {r \in S : r.active}
  <2>1. matching \subseteq Rule
    OBVIOUS
  <2>2. CASE matching = {}
    <3>1. who = [to |-> {}, cc |-> {}, told |-> {}]
      BY <1>2, <2>2 DEF Resolved
    <3> QED
      BY <1>2, <3>1 DEF Who
  <2>3. CASE matching # {}
    <3>1. who \in {Ruled(order, x) : order \in SetToSeqs(matching)}
      BY <1>2, <2>3, Zenon DEF Resolved
    <3> HIDE DEF matching
    <3>2. PICK order \in SetToSeqs(matching) : who = Ruled(order, x)
      BY <3>1
    <3>3. order \in [1 .. Cardinality(matching) -> matching]
      BY DEF SetToSeqs
    <3>4. \A i \in DOMAIN order : order[i] \in Rule
      BY <2>1, <3>3
    <3> QED
      BY <1>2, <3>2, <3>4, RuledWho
  <2> QED
    BY <2>2, <2>3
<1> QED
  BY <1>1, <1>2

LEMMA Resolves ==
  ASSUME DeliveryInv, NEW c \in Requests, Resolve(c)
  PROVE  DeliveryInv'
<1>1. plan[c] # <<>> /\ Head(plan[c]) = "resolve" /\ ~Idle(c) /\ UNCHANGED <<tables, bus>>
  BY DEF Resolve, At, Idle
<1>2. Alerting(Clean, World, plan[c], req[c], mem[c])
  BY <1>1, Standing, Asked, Zenon
<1>3. plan[c] \in {Pick0, PickC} /\ mem[c] \in Contexts
  BY <1>1, <1>2, AlertHeads, Zenon
<1>4. mem[c].event \in Events /\ rules \in SUBSET Rule
  BY <1>3 DEF Contexts, DeliveryInv
<1>5. PICK who \in Resolved(rules, mem[c].event, mem[c]) :
        Turn(c, (IF who.to = {} \/ ~item.mail THEN <<>> ELSE <<"saveEmail", "enqueue">>)
                \o (IF who.told = {} THEN <<>> ELSE <<"saveNotes", "enqueue">>),
             [who |-> who, from |-> IF rules = {} THEN "matrix" ELSE "rules"])
  BY Zenon DEF Resolve
<1> DEFINE a == IF who.to = {} \/ ~item.mail THEN <<>> ELSE <<"saveEmail", "enqueue">>
<1> DEFINE b == IF who.told = {} THEN <<>> ELSE <<"saveNotes", "enqueue">>
<1> DEFINE m == [who |-> who, from |-> IF rules = {} THEN "matrix" ELSE "rules"]
<1>6. a \in {<<>>, Mail0} /\ b \in {<<>>, Note0}
  BY DEF Mail0, Note0
<1>7. Told(m)
  <2>1. who \in Who /\ (rules = {} => AddressedTo(who))
    BY <1>3, <1>4, ResolvedWho
  <2>2. m.who = who /\ m.from = IF rules = {} THEN "matrix" ELSE "rules"
    OBVIOUS
  <2> HIDE DEF m
  <2> QED
    BY <2>1, <2>2 DEF Told
<1>8. Continue(c, (a \o b) \o Tail(plan[c]), m) /\ failed' = failed
  BY <1>5 DEF Turn
<1> HIDE DEF a, b, m
<1> DEFINE p == (a \o b) \o Tail(plan[c])
<1>9. Tail(plan[c]) = IF plan[c] = Pick0 THEN <<>> ELSE CleanC
  BY <1>3, AlertPlans DEF Begins
<1>10. a \o b \in {<<>>, Mail0, Note0, Both0}
  BY <1>6, Joined
<1>11. /\ p \in {<<>>, Mail0, Note0, Both0, CleanC, MailC, NoteC, BothC0}
       /\ plan[c] # Pick0 => p \in {CleanC, MailC, NoteC, BothC0}
  <2>1. CASE plan[c] = Pick0
    <3>1. p = a \o b
      <4>1. \A q \in {<<>>, Mail0, Note0, Both0} : q \o <<>> = q
        BY Joined
      <4> QED
        BY <1>9, <1>10, <2>1, <4>1
    <3> QED
      BY <1>10, <2>1, <3>1
  <2>2. CASE plan[c] # Pick0
    <3>1. \A q \in {<<>>, Mail0, Note0, Both0} : q \o CleanC \in {CleanC, MailC, NoteC, BothC0}
      BY Joined
    <3> QED
      BY <1>9, <1>10, <2>2, <3>1
  <2> QED
    BY <2>1, <2>2
<1> HIDE DEF p
<1>12. p # <<>> => Alerting(Clean, World, p, req[c], m)
  BY <1>2, <1>7, <1>11 DEF Alerting
<1>13. (Clean /\ ~failed') = Clean /\ (~failed') = (~failed) /\ failed' \in BOOLEAN
  BY <1>8, Standing, Zenon DEF Clean
<1>14. p # <<>> => Knows(~failed', Clean /\ ~failed', World, p, req[c], m)
  BY <1>12, <1>13, Zenon DEF Knows
<1>15. p = <<>> \/ Head(p) # "enqueue"
  BY <1>11, Heads
<1>16. OwedBy(p, m) = {} /\ OwedBy(plan[c], mem[c]) = {} /\ ~PastBy(plan[c], req[c])
  BY <1>1, <1>15 DEF OwedBy, PastBy
<1>17. plan[c] \in CleanPlans => p \in CleanPlans
  <2>1. Pick0 \notin CleanPlans
    <3>1. Last(Pick0) # "cleanUp" /\ Last(PickC) = "cleanUp"
      BY NoCleanUp, WithoutCleanUp
    <3>2. Pick0 # PickC
      BY <3>1
    <3>3. \A q \in CleanPlans \ {PickC} : Head(q) # "resolve"
      BY Heads DEF CleanPlans
    <3> QED
      BY <3>2, <3>3, Heads
  <2> QED
    BY <1>11, <2>1 DEF CleanPlans
<1>18. Continue(c, p, m)
  BY <1>8 DEF p
<1> QED
  BY <1>1, <1>8, <1>13, <1>14, <1>16, <1>17, <1>18, Turns

\* The dispatch of a deletion is cut short.
LEMMA CutsShort ==
  ASSUME DeliveryInv, NEW c \in Requests, DispatchFails(c)
  PROVE  DeliveryInv'
<1>1. /\ req[c].op = "delete" /\ failed' = TRUE /\ UNCHANGED <<tables, bus>>
      /\ Continue(c, <<"cleanUp">>, mem[c])
  BY DEF DispatchFails
<1>2. Alerting(Clean, World, plan[c], req[c], mem[c])
  BY <1>1, Standing, Ops, Zenon
<1>3. ~Idle(c)
  BY <1>2, AlertHeads DEF Idle
<1>4. Alerting(FALSE, World, CleanC, req[c], mem[c])
  BY <1>1 DEF Alerting
<1>5. (Clean /\ ~failed') = FALSE /\ (~failed') = FALSE
  BY <1>1, Zenon
<1>6. Knows(~failed', Clean /\ ~failed', World, CleanC, req[c], mem[c])
  BY <1>4, <1>5, Zenon DEF Knows
<1>7. Continue(c, CleanC, mem[c])
  BY <1>1 DEF CleanC
<1> QED
  BY <1>1, <1>3, <1>6, <1>7, Turns

-----------------------------------------------------------------------------
(* Saving rows *)

LEMMA NoRows ==
  /\ NoRow \notin Row
  /\ \A r \in Row : r # NoRow /\ r.type \in {"email", "note"} /\ r.kind \in {"plain", "unfit", "final"}
<1>1. \A r \in Row : r.type \in {"email", "note"} /\ r.kind \in {"plain", "unfit", "final"}
  BY DEF Row
<1>2. NoRow.type = "none"
  BY DEF NoRow
<1> QED
  BY <1>1, <1>2

\* What a request that is alone knows of an item that is gone: it refers to
\* nothing.
LEMMA RefersToNothing ==
  ASSUME NEW w, NEW p, NEW o, NEW m, Alerting(TRUE, w, p, o, m), w.state = "gone"
  PROVE  RefOf(o.op) = "none"
BY DEF Alerting, RefOf

\* A row is added, and the request owes it.
LEMMA Adds ==
  ASSUME DeliveryInv, NEW c \in Requests, ~Idle(c), NEW r, RowOK(r), ~r.sent, Add(r),
         NEW m, NEW t, m.ids = <<Len(rows) + 1>>, Proceed(c, m), Tail(plan[c]) = t,
         t # <<>>, Head(t) = "enqueue", Head(plan[c]) # "enqueue", req[c].op # "process",
         UNCHANGED <<item, state, rules, removed, queue>>,
         Clean /\ state = "gone" => r.ref = "none",
         plan[c] \in CleanPlans => t \in CleanPlans,
         Job(World', m) => Alerting(Clean, World', t, req[c], m) \/ Making(World', t, req[c], m)
  PROVE  DeliveryInv'
<1> DEFINE n == Len(rows) + 1
<1>1. rows' = Append(rows, r) /\ posted' = Append(posted, 0)
  BY DEF Add
<1>2. Continue(c, t, m) /\ failed' = failed
  BY DEF Proceed, Rest
<1>3. (Clean /\ ~failed') = Clean /\ (~failed') = (~failed) /\ failed' \in BOOLEAN
  BY <1>2, Standing, Zenon DEF Clean
<1>4. /\ rows \in Seq(Row \cup {NoRow}) /\ posted \in Seq(Nat) /\ Len(posted) = Len(rows)
      /\ removed \subseteq DOMAIN rows /\ state \in States
      /\ \A i \in DOMAIN rows :
           /\ rows[i] = NoRow => i \in removed
           /\ rows[i] # NoRow => RowOK(rows[i]) /\ (rows[i].sent => posted[i] > 0)
  BY Standing, Worlds DEF TablesOK
<1>5. r \in Row /\ r # NoRow
  BY NoRows DEF RowOK
<1>6. /\ n \in Nat /\ DOMAIN rows = 1 .. n - 1 /\ DOMAIN rows' = 1 .. n /\ rows'[n] = r
      /\ \A i \in 1 .. n - 1 : rows'[i] = rows[i]
  BY <1>1, <1>4, <1>5
<1>7. posted'[n] = 0 /\ \A i \in 1 .. n - 1 : posted'[i] = posted[i]
  BY <1>1, <1>4
<1>8. rows' \in Seq(Row \cup {NoRow}) /\ posted' \in Seq(Nat) /\ Len(posted') = Len(rows')
  <2>1. r \in Row \cup {NoRow}
    BY <1>5
  <2>2. rows' \in Seq(Row \cup {NoRow}) /\ Len(rows') = Len(rows) + 1
    BY <1>1, <1>4, <2>1, AppendProperties
  <2>3. posted' \in Seq(Nat) /\ Len(posted') = Len(posted) + 1
    BY <1>1, <1>4, AppendProperties
  <2> QED
    BY <1>4, <2>2, <2>3
<1> HIDE DEF n
<1>9. TablesOK(World')
  <2>1. ASSUME NEW i \in DOMAIN rows'
        PROVE  /\ rows'[i] = NoRow => i \in removed
               /\ rows'[i] # NoRow => RowOK(rows'[i]) /\ (rows'[i].sent => posted'[i] > 0)
    <3>1. CASE i = n
      BY <1>5, <1>6, <3>1
    <3>2. CASE i # n
      <4>1. i \in 1 .. n - 1
        BY <1>6, <3>2
      <4>2. rows'[i] = rows[i] /\ posted'[i] = posted[i] /\ i \in DOMAIN rows
        BY <1>6, <1>7, <4>1
      <4> QED
        BY <1>4, <4>2
    <3> QED
      BY <3>1, <3>2
  <2>2. removed' \subseteq DOMAIN rows'
    BY <1>4, <1>6
  <2> QED
    BY <1>4, <1>8, <2>1, <2>2, Worlds DEF TablesOK
<1>10. Grows(~failed', World, World')
  BY <1>6, <1>7, Worlds DEF Grows
<1>11. queue' \in Seq(DOMAIN rows')
  <2>1. queue \in Seq(DOMAIN rows) /\ DOMAIN rows \subseteq DOMAIN rows'
    BY <1>6, Standing
  <2> QED
    BY <2>1, SeqMonotonic
<1>12. Job(World', m)
  BY <1>6, Worlds DEF Job, n
<1>13. Knows(~failed', Clean /\ ~failed', World', t, req[c], m)
  BY <1>3, <1>12, Zenon DEF Knows
<1>14. OwedBy(t, m) = {n} /\ OwedBy(plan[c], mem[c]) = {}
  <2>1. Head(m.ids) = n
    BY DEF n
  <2> QED
    BY <2>1 DEF OwedBy
<1>15. ~failed' => QueueOK(World', queue', [Owes EXCEPT ![c] = OwedBy(t, m)],
                           IF req[c].op = "process" THEN PastBy(t, req[c]) ELSE Past)
  <2> SUFFICES ASSUME ~failed PROVE QueueOK(World', queue, [Owes EXCEPT ![c] = {n}], Past)
    BY <1>2, <1>14
  <2>1. QueueOK(World, queue, Owes, Past) /\ DOMAIN Owes = Requests /\ Owes[c] = {}
    BY <1>14, Standing
  <2>2. \A d \in Requests : Owes[d] \subseteq DOMAIN World.rows
    BY OwedRows, Worlds
  <2>3. r \in Row \cup {NoRow} /\ queue \in Seq(DOMAIN World.rows)
    BY <1>5, Standing, Worlds
  <2>4. /\ World.rows \in Seq(Row \cup {NoRow}) /\ World.posted \in Seq(Nat)
        /\ Len(World.posted) = Len(World.rows) /\ World'.rows = Append(World.rows, r)
        /\ World'.posted = Append(World.posted, 0) /\ World'.removed = World.removed
    BY <1>1, <1>4, Worlds
  <2>5. QueueOK(World', queue, [Owes EXCEPT ![c] = {Len(World.rows) + 1}], Past)
    BY <2>1, <2>2, <2>3, <2>4, RowAdded, Zenon
  <2> QED
    BY <2>5, Worlds DEF n
<1>16. Clean /\ ~failed' => CleanOK(World', t \in CleanPlans)
  <2> SUFFICES ASSUME Clean PROVE CleanOK(World', t \in CleanPlans)
    OBVIOUS
  <2>1. CleanOK(World, plan[c] \in CleanPlans)
    BY AloneCleans
  <2>2. /\ \A i \in removed : rows[i] = NoRow
        /\ state = "gone" =>
             plan[c] \in CleanPlans \/ \A i \in DOMAIN rows : rows[i] # NoRow => rows[i].ref = "none"
    BY <2>1, Worlds DEF CleanOK
  <2>3. \A i \in removed : rows'[i] = NoRow
    BY <1>4, <1>6, <2>2
  <2>4. ASSUME state = "gone", t \notin CleanPlans, NEW i \in DOMAIN rows', rows'[i] # NoRow
        PROVE  rows'[i].ref = "none"
    BY <1>6, <2>2, <2>4
  <2> QED
    BY <2>3, <2>4, Worlds DEF CleanOK
<1>17. \/ req[c].op = "process" /\ t = <<>>
       \/ queue # <<>> => queue' # <<>> /\ Head(queue') = Head(queue)
  OBVIOUS
<1> QED
  BY <1>2, <1>3, <1>9, <1>10, <1>11, <1>13, <1>15, <1>16, <1>17, GoesOn

\* Rows that are marked stay rows, and what they are.
LEMMA Marked ==
  ASSUME NEW r, RowOK(r)
  PROVE  /\ RowOK([r EXCEPT !.error = TRUE]) /\ [r EXCEPT !.error = TRUE].kind = r.kind
         /\ [r EXCEPT !.error = TRUE].ref = r.ref /\ [r EXCEPT !.error = TRUE].sent = r.sent
         /\ RowOK([r EXCEPT !.read = TRUE]) /\ [r EXCEPT !.read = TRUE].kind = r.kind
         /\ [r EXCEPT !.read = TRUE].ref = r.ref /\ [r EXCEPT !.read = TRUE].sent = r.sent
         /\ RowOK([r EXCEPT !.sent = TRUE]) /\ [r EXCEPT !.sent = TRUE].kind = r.kind
         /\ [r EXCEPT !.sent = TRUE].ref = r.ref
<1>1. r \in Row /\ (r.kind = "final" => r.ref = "none")
  BY DEF RowOK
<1>2. /\ [r EXCEPT !.error = TRUE] \in Row /\ [r EXCEPT !.error = TRUE].kind = r.kind
      /\ [r EXCEPT !.error = TRUE].ref = r.ref /\ [r EXCEPT !.error = TRUE].sent = r.sent
  BY <1>1 DEF Row
<1>3. /\ [r EXCEPT !.read = TRUE] \in Row /\ [r EXCEPT !.read = TRUE].kind = r.kind
      /\ [r EXCEPT !.read = TRUE].ref = r.ref /\ [r EXCEPT !.read = TRUE].sent = r.sent
  BY <1>1 DEF Row
<1>4. /\ [r EXCEPT !.sent = TRUE] \in Row /\ [r EXCEPT !.sent = TRUE].kind = r.kind
      /\ [r EXCEPT !.sent = TRUE].ref = r.ref
  BY <1>1 DEF Row
<1> QED
  BY <1>1, <1>2, <1>3, <1>4 DEF RowOK

\* What an alert is made of
LEMMA AlertRow ==
  ASSUME NEW c, NEW type \in {"email", "note"}, NEW to \in SUBSET People, NEW cc \in SUBSET People,
         Told(mem[c])
  PROVE  /\ RowOK(Alert(c, type, to, cc)) /\ ~Alert(c, type, to, cc).sent
         /\ Alert(c, type, to, cc).ref = RefOf(req[c].op)
         /\ RowOK([Alert(c, type, to, cc) EXCEPT !.error = TRUE])
         /\ ~[Alert(c, type, to, cc) EXCEPT !.error = TRUE].sent
<1>1. mem[c].from \in {"matrix", "rules"}
  BY DEF Told
<1>2. RefOf(req[c].op) \in {"item", "none"} /\ (req[c].op = "delete" => RefOf(req[c].op) = "none")
  BY DEF RefOf
<1> DEFINE k == IF req[c].op = "delete" THEN "final" ELSE "plain"
<1> DEFINE f == RefOf(req[c].op)
<1> DEFINE s == mem[c].from
<1>3. k \in {"plain", "final"} /\ f \in {"item", "none"} /\ (k = "final" => f = "none")
      /\ s \in {"matrix", "rules"}
  BY <1>1, <1>2
<1>4. Alert(c, type, to, cc) =
        [type |-> type, to |-> to, cc |-> cc, sent |-> FALSE, error |-> FALSE, kind |-> k,
         read |-> FALSE, ref |-> f, from |-> s]
  BY DEF Alert
<1> HIDE DEF k, f, s
<1>5. RowOK(Alert(c, type, to, cc)) /\ ~Alert(c, type, to, cc).sent
  BY <1>3, <1>4 DEF RowOK, Row
<1>6. /\ RowOK([Alert(c, type, to, cc) EXCEPT !.error = TRUE])
      /\ ~[Alert(c, type, to, cc) EXCEPT !.error = TRUE].sent
  BY <1>5, Marked
<1>8. Alert(c, type, to, cc).ref = f
  BY <1>4
<1> QED
  BY <1>5, <1>6, <1>8 DEF f

LEMMA SavesAlert ==
  ASSUME DeliveryInv, NEW c \in Requests, SaveEmail(c) \/ SaveNotes(c)
  PROVE  DeliveryInv'
<1>1. plan[c] # <<>> /\ Head(plan[c]) \in {"saveEmail", "saveNotes"} /\ ~Idle(c)
  BY DEF SaveEmail, SaveNotes, At, Idle
<1>2. Alerting(Clean, World, plan[c], req[c], mem[c])
  BY <1>1, Standing, Asked, Zenon
<1>3. plan[c] \in {Both0, Mail0, BothC0, MailC, Note0, NoteC} /\ Told(mem[c])
  BY <1>1, <1>2, AlertHeads
<1>4. req[c].op \in {"dispatch", "delete"}
  BY <1>2 DEF Alerting
<1> DEFINE t == Tail(plan[c])
<1>5. /\ t \in {Both1, Job0, BothC1, JobC}
      /\ plan[c] \in CleanPlans => t \in CleanPlans
  <2>1. CASE plan[c] = Both0
    <3>1. Last(Both0) # "cleanUp" /\ Head(Both0) = "saveEmail" /\ t = Both1
      BY <2>1, NoCleanUp, AlertPlans DEF Begins
    <3>2. \A q \in CleanPlans : Head(q) = "saveEmail" => Last(q) = "cleanUp"
      BY Heads, WithoutCleanUp DEF CleanPlans
    <3> QED
      BY <2>1, <3>1, <3>2
  <2>2. CASE plan[c] = Mail0
    <3>1. Last(Mail0) # "cleanUp" /\ Head(Mail0) = "saveEmail" /\ t = Job0
      BY <2>2, NoCleanUp, AlertPlans DEF Begins
    <3>2. \A q \in CleanPlans : Head(q) = "saveEmail" => Last(q) = "cleanUp"
      BY Heads, WithoutCleanUp DEF CleanPlans
    <3> QED
      BY <2>2, <3>1, <3>2
  <2>3. CASE plan[c] = Note0
    <3>1. Last(Note0) # "cleanUp" /\ Head(Note0) = "saveNotes" /\ t = Job0
      BY <2>3, NoCleanUp, AlertPlans DEF Begins
    <3>2. \A q \in CleanPlans : Head(q) = "saveNotes" => Last(q) = "cleanUp"
      BY Heads, WithoutCleanUp DEF CleanPlans
    <3> QED
      BY <2>3, <3>1, <3>2
  <2>4. CASE plan[c] = BothC0
    BY <2>4, AlertPlans DEF Begins, CleanPlans
  <2>5. CASE plan[c] = MailC
    BY <2>5, AlertPlans DEF Begins, CleanPlans
  <2>6. CASE plan[c] = NoteC
    BY <2>6, AlertPlans DEF Begins, CleanPlans
  <2> QED
    BY <1>3, <2>1, <2>2, <2>3, <2>4, <2>5, <2>6
<1> HIDE DEF t
<1>6. t # <<>> /\ Head(t) = "enqueue"
  BY <1>5, Heads
<1>7. PICK r, m : /\ RowOK(r) /\ ~r.sent /\ r.ref = RefOf(req[c].op) /\ Add(r)
                  /\ Proceed(c, m) /\ m.ids = <<Len(rows) + 1>> /\ Told(m)
                  /\ UNCHANGED <<item, state, rules, removed, queue>>
  <2>1. mem[c].who \in Who /\ mem[c].from \in {"matrix", "rules"}
    BY <1>3 DEF Told
  <2>2. mem[c].who.to \subseteq People /\ mem[c].who.cc \subseteq People
        /\ mem[c].who.told \subseteq People
    BY <2>1 DEF Who
  <2>3. ASSUME NEW type
        PROVE  Told(Saved(mem[c], type)) /\ Saved(mem[c], type).ids = <<Len(rows) + 1>>
    <3>1. /\ Saved(mem[c], type).who = mem[c].who /\ Saved(mem[c], type).from = mem[c].from
          /\ Saved(mem[c], type).ids = <<Len(rows) + 1>>
      BY DEF Saved
    <3> QED
      BY <1>3, <3>1 DEF Told
  <2>4. CASE SaveEmail(c)
    <3> DEFINE r == Alert(c, "email", mem[c].who.to, mem[c].who.cc)
    <3> DEFINE m == Saved(mem[c], "email")
    <3>1. RowOK(r) /\ ~r.sent /\ r.ref = RefOf(req[c].op)
      BY <1>3, <2>2, AlertRow
    <3>2. Add(r) /\ Proceed(c, m) /\ UNCHANGED <<item, state, rules, removed, queue>>
      BY <2>4 DEF SaveEmail
    <3>3. Told(m) /\ m.ids = <<Len(rows) + 1>>
      BY <2>3
    <3> HIDE DEF r, m
    <3> QED
      BY <3>1, <3>2, <3>3
  <2>5. CASE SaveNotes(c)
    <3> DEFINE r == Alert(c, "note", mem[c].who.told, {})
    <3> DEFINE m == Saved(mem[c], "note")
    <3>1. RowOK(r) /\ ~r.sent /\ r.ref = RefOf(req[c].op)
      BY <1>3, <2>2, AlertRow
    <3>2. Add(r) /\ Proceed(c, m) /\ UNCHANGED <<item, state, rules, removed, queue>>
      BY <2>5 DEF SaveNotes
    <3>3. Told(m) /\ m.ids = <<Len(rows) + 1>>
      BY <2>3
    <3> HIDE DEF r, m
    <3> QED
      BY <3>1, <3>2, <3>3
  <2> QED
    BY <2>4, <2>5
<1>8. Clean /\ state = "gone" => r.ref = "none"
  <2> SUFFICES ASSUME Clean, state = "gone" PROVE r.ref = "none"
    OBVIOUS
  <2>1. Clean = TRUE
    BY Standing
  <2> QED
    BY <1>2, <1>7, <2>1, RefersToNothing, Worlds
<1>9. Job(World', m) => Alerting(Clean, World', t, req[c], m)
  <2>1. World'.state = World.state
    BY <1>7, Worlds
  <2> QED
    BY <1>2, <1>5, <1>7, <2>1 DEF Alerting
<1>10. Head(plan[c]) # "enqueue" /\ req[c].op # "process" /\ Tail(plan[c]) = t
  BY <1>1, <1>4 DEF t
<1> QED
  BY <1>1, <1>5, <1>6, <1>7, <1>8, <1>9, <1>10, Adds

LEMMA SavesOwn ==
  ASSUME DeliveryInv, NEW c \in Requests, SaveOwn(c)
  PROVE  DeliveryInv'
<1>1. plan[c] # <<>> /\ Head(plan[c]) = "saveOwn" /\ ~Idle(c)
  BY DEF SaveOwn, At, Idle
<1>2. Making(World, plan[c], req[c], mem[c])
  BY <1>1, Standing, Asked, Zenon
<1>3. plan[c] = Own0
  BY <1>1, <1>2, MakeHeads, Zenon
<1>4. req[c].op = "create" /\ req[c].kind \in {"plain", "unfit"}
  BY <1>2 DEF Making
<1> DEFINE r == [type |-> "email", to |-> {Creator}, cc |-> {}, kind |-> req[c].kind, sent |-> FALSE,
                 error |-> FALSE, read |-> FALSE, ref |-> "none", from |-> "user"]
<1> DEFINE m == [ids |-> <<Len(rows) + 1>>, type |-> "email"]
<1>5. Add(r) /\ Proceed(c, m) /\ UNCHANGED <<item, state, rules, removed, queue>>
  BY DEF SaveOwn
<1>6. RowOK(r) /\ ~r.sent /\ r.ref = "none"
  BY <1>4 DEF RowOK, Row
<1>7. m.ids = <<Len(rows) + 1>>
  OBVIOUS
<1>8. Tail(plan[c]) = Job0 /\ Job0 # <<>> /\ Head(Job0) = "enqueue"
  BY <1>3, RowPlans, Heads DEF Begins
<1> HIDE DEF r, m
<1>9. Job(World', m) => Making(World', Job0, req[c], m)
  BY <1>4 DEF Making
<1>10. plan[c] \notin CleanPlans
  BY <1>3, NotCleaning
<1> QED
  BY <1>1, <1>4, <1>5, <1>6, <1>7, <1>8, <1>9, <1>10, Adds

\* A row is saved as it was loaded and changed.
LEMMA Saves ==
  ASSUME DeliveryInv, NEW c \in Requests, ~Idle(c), NEW i \in DOMAIN rows, NEW r, Save(i, r),
         RowOK(r), r.sent => posted[i] > 0,
         NEW p, NEW m, Continue(c, p, m), failed' \in BOOLEAN, failed => failed',
         UNCHANGED <<item, state, rules, removed, bus>>,
         ~failed' /\ i \notin removed => r.kind = rows[i].kind,
         Clean /\ ~failed' => rows[i] # NoRow /\ r.ref = rows[i].ref,
         Grows(~failed', World, World') /\ World'.rows[i] = r /\ World'.posted = World.posted
           /\ p # <<>> => Knows(~failed', Clean /\ ~failed', World', p, req[c], m),
         ~failed' => OwedBy(p, m) = OwedBy(plan[c], mem[c]),
         ~failed' => (req[c].op = "process" /\ PastBy(plan[c], req[c]) => PastBy(p, req[c]) \/ p = <<>>),
         req[c].op = "process" => p # <<>>,
         ~failed' => plan[c] \notin CleanPlans
  PROVE  DeliveryInv'
<1>1. rows' = [rows EXCEPT ![i] = r] /\ queue' = queue /\ posted' = posted
  BY DEF Save, bus
<1>2. /\ rows \in Seq(Row \cup {NoRow}) /\ posted \in Seq(Nat) /\ Len(posted) = Len(rows)
      /\ removed \subseteq DOMAIN rows /\ state \in States
      /\ \A j \in DOMAIN rows :
           /\ rows[j] = NoRow => j \in removed
           /\ rows[j] # NoRow => RowOK(rows[j]) /\ (rows[j].sent => posted[j] > 0)
  BY Standing, Worlds DEF TablesOK
<1>3. r \in Row /\ r # NoRow
  BY NoRows DEF RowOK
<1>4. /\ rows' \in Seq(Row \cup {NoRow}) /\ Len(rows') = Len(rows) /\ DOMAIN rows' = DOMAIN rows
      /\ rows'[i] = r /\ \A j \in DOMAIN rows : j # i => rows'[j] = rows[j]
  <2>1. i \in 1 .. Len(rows) /\ DOMAIN rows = 1 .. Len(rows) /\ r \in Row \cup {NoRow}
    BY <1>2, <1>3
  <2> QED
    BY <1>1, <1>2, <2>1, ExceptSeq
<1>5. TablesOK(World')
  <2>1. ASSUME NEW j \in DOMAIN rows'
        PROVE  /\ rows'[j] = NoRow => j \in removed
               /\ rows'[j] # NoRow => RowOK(rows'[j]) /\ (rows'[j].sent => posted[j] > 0)
    BY <1>2, <1>3, <1>4
  <2> QED
    BY <1>1, <1>2, <1>4, <2>1, Worlds DEF TablesOK
<1>6. Grows(~failed', World, World')
  <2>1. ASSUME ~failed', NEW j \in DOMAIN rows, j \notin removed PROVE rows'[j].kind = rows[j].kind
    BY <1>4, <2>1
  <2> QED
    BY <1>1, <1>4, <2>1, Worlds DEF Grows
<1>7. queue' \in Seq(DOMAIN rows')
  BY <1>1, <1>4, Standing
<1>8. p # <<>> => Knows(~failed', Clean /\ ~failed', World', p, req[c], m)
  BY <1>1, <1>4, <1>6, Worlds
<1>9. ~failed' => QueueOK(World', queue', [Owes EXCEPT ![c] = OwedBy(p, m)],
                          IF req[c].op = "process" THEN PastBy(p, req[c]) ELSE Past)
  <2> SUFFICES ASSUME ~failed'
               PROVE  QueueOK(World', queue', [Owes EXCEPT ![c] = OwedBy(p, m)],
                              IF req[c].op = "process" THEN PastBy(p, req[c]) ELSE Past)
    OBVIOUS
  <2> DEFINE past2 == IF req[c].op = "process" THEN PastBy(p, req[c]) ELSE Past
  <2>1. Past => past2
    <3> SUFFICES ASSUME Past, req[c].op = "process" PROVE PastBy(p, req[c])
      OBVIOUS
    <3>1. c = Consumer
      BY Standing
    <3> QED
      BY <3>1 DEF Past
  <2> HIDE DEF past2
  <2>2. QueueOK(World, queue, Owes, Past) /\ DOMAIN Owes = Requests /\ Owes[c] = OwedBy(p, m)
    BY Standing
  <2>3. Grows(TRUE, World, World')
    BY <1>6 DEF Grows
  <2>4. World'.posted = World.posted /\ DOMAIN World'.rows = DOMAIN World.rows
    BY <1>1, <1>4, Worlds
  <2>5. QueueOK(World', queue, [Owes EXCEPT ![c] = Owes[c]], past2)
    BY <2>1, <2>2, <2>3, <2>4, BusKept, Zenon
  <2> QED
    BY <1>1, <2>2, <2>5 DEF past2
<1>10. Clean /\ ~failed' => CleanOK(World', p \in CleanPlans)
  <2> SUFFICES ASSUME Clean, ~failed' PROVE CleanOK(World', p \in CleanPlans)
    OBVIOUS
  <2>1. CleanOK(World, plan[c] \in CleanPlans)
    BY AloneCleans
  <2>2. /\ \A j \in removed : rows[j] = NoRow
        /\ state = "gone" => \A j \in DOMAIN rows : rows[j] # NoRow => rows[j].ref = "none"
    BY <2>1, Worlds DEF CleanOK
  <2>3. i \notin removed
    BY <2>2
  <2>4. \A j \in removed : rows'[j] = NoRow
    BY <1>2, <1>4, <2>2, <2>3
  <2>5. state = "gone" => \A j \in DOMAIN rows' : rows'[j] # NoRow => rows'[j].ref = "none"
    BY <1>4, <2>2
  <2> QED
    BY <2>4, <2>5, Worlds DEF CleanOK
<1>11. \/ req[c].op = "process" /\ p = <<>>
       \/ queue # <<>> => queue' # <<>> /\ Head(queue') = Head(queue)
  BY <1>1
<1>12. UNCHANGED <<item, rules>>
  OBVIOUS
<1> QED
  BY <1>5, <1>6, <1>7, <1>8, <1>9, <1>10, <1>11, <1>12, GoesOn

\* What is in memory when a job is sent
LEMMA AtJob ==
  ASSUME DeliveryInv, NEW c \in Requests, At(c, "enqueue")
  PROVE  /\ ~Idle(c) /\ req[c].op # "process"
         /\ \E j \in DOMAIN rows : mem[c].ids = <<j>> /\ Head(mem[c].ids) = j
         /\ \/ plan[c] = Job0
            \/ /\ plan[c] \in {Both1, BothC1, JobC} /\ Told(mem[c])
               /\ Alerting(Clean, World, plan[c], req[c], mem[c])
<1>1. plan[c] # <<>> /\ Head(plan[c]) = "enqueue" /\ ~Idle(c)
  BY DEF At, Idle
<1>2. Alerting(Clean, World, plan[c], req[c], mem[c]) \/ Making(World, plan[c], req[c], mem[c])
  BY <1>1, Standing, Asked, Zenon
<1>3. Job(World, mem[c])
  BY <1>1, <1>2, AlertHeads, MakeHeads, Zenon
<1>4. \E j \in DOMAIN rows : mem[c].ids = <<j>> /\ Head(mem[c].ids) = j
  <2>1. PICK j \in DOMAIN rows : mem[c].ids = <<j>>
    BY <1>3, Worlds DEF Job
  <2> QED
    BY <2>1
<1>5. Making(World, plan[c], req[c], mem[c]) => plan[c] = Job0
  BY <1>1, Heads DEF Making
<1>6. Alerting(Clean, World, plan[c], req[c], mem[c]) =>
        plan[c] \in {Both1, Job0, BothC1, JobC} /\ Told(mem[c])
  BY <1>1, AlertHeads, Zenon
<1>7. req[c].op # "process"
  BY <1>2 DEF Alerting, Making
<1> QED
  BY <1>1, <1>2, <1>4, <1>5, <1>6, <1>7

\* What is left after the job of an alert
LEMMA AfterJob ==
  ASSUME NEW calm, NEW alone, NEW w, NEW p, NEW o, NEW m,
         \/ p = Job0
         \/ p \in {Both1, BothC1, JobC} /\ Told(m) /\ Alerting(alone, w, p, o, m)
  PROVE  /\ Tail(p) # <<>> => Knows(calm, alone, w, Tail(p), o, m)
         /\ Tail(p) = <<>> \/ Head(Tail(p)) # "enqueue"
         /\ p \in CleanPlans => Tail(p) \in CleanPlans
<1>1. CASE p = Job0
  <2>1. Tail(p) = <<>> /\ Last(p) # "cleanUp" /\ Head(p) = "enqueue"
    BY <1>1, AlertPlans, NoCleanUp DEF Begins
  <2>2. \A q \in CleanPlans : Head(q) = "enqueue" => Last(q) = "cleanUp"
    BY Heads, WithoutCleanUp DEF CleanPlans
  <2> QED
    BY <2>1, <2>2
<1>2. CASE p \in {Both1, BothC1, JobC} /\ Told(m) /\ Alerting(alone, w, p, o, m)
  <2>1. /\ Tail(p) \in {Note0, NoteC, CleanC}
        /\ p # Both1 => Tail(p) \in {NoteC, CleanC}
    BY <1>2, AlertPlans DEF Begins
  <2>2. Head(Tail(p)) # "enqueue"
    BY <2>1, Heads
  <2>3. Alerting(alone, w, Tail(p), o, m)
    BY <1>2, <2>1 DEF Alerting
  <2>4. Both1 \notin CleanPlans
    <3>1. Last(Both1) # "cleanUp" /\ Head(Both1) = "enqueue"
      BY AlertPlans, NoCleanUp DEF Begins
    <3>2. \A q \in CleanPlans : Head(q) = "enqueue" => Last(q) = "cleanUp"
      BY Heads, WithoutCleanUp DEF CleanPlans
    <3> QED
      BY <3>1, <3>2
  <2>5. p \in CleanPlans => Tail(p) \in CleanPlans
    BY <2>1, <2>4 DEF CleanPlans
  <2> QED
    BY <2>2, <2>3, <2>5, Zenon DEF Knows
<1> QED
  BY <1>1, <1>2

LEMMA Enqueues ==
  ASSUME DeliveryInv, NEW c \in Requests, Enqueue(c)
  PROVE  DeliveryInv'
<1>1. /\ At(c, "enqueue") /\ queue' = queue \o mem[c].ids /\ UNCHANGED <<tables, posted>>
      /\ Continue(c, Tail(plan[c]), mem[c]) /\ failed' = failed
  BY DEF Enqueue, Done, Proceed, Rest
<1>2. ~Idle(c) /\ req[c].op # "process" /\ plan[c] # <<>> /\ Head(plan[c]) = "enqueue"
  BY <1>1, AtJob DEF At
<1>3. PICK j \in DOMAIN rows : mem[c].ids = <<j>> /\ Head(mem[c].ids) = j
  BY <1>1, AtJob
<1>4. \/ plan[c] = Job0
      \/ (plan[c] \in {Both1, BothC1, JobC} /\ Told(mem[c])
          /\ Alerting(Clean, World, plan[c], req[c], mem[c]))
  BY <1>1, AtJob
<1> DEFINE t == Tail(plan[c])
<1>5. /\ t # <<>> => Knows(~failed, Clean, World, t, req[c], mem[c])
      /\ t = <<>> \/ Head(t) # "enqueue"
      /\ plan[c] \in CleanPlans => t \in CleanPlans
  BY <1>4, AfterJob, Zenon
<1>6. queue \in Seq(DOMAIN rows) /\ TablesOK(World)
  BY Standing
<1>7. queue' = Append(queue, j)
  BY <1>1, <1>3, <1>6, AppendIsConcat
<1>8. World' = World /\ rows' = rows /\ UNCHANGED <<item, rules>>
  BY <1>1 DEF tables, World
<1>9. queue' \in Seq(DOMAIN rows') /\ queue' # <<>>
  BY <1>6, <1>7, <1>8, AppendProperties
<1>10. queue # <<>> => Head(queue') = Head(queue)
  BY <1>6, <1>7, HeadTailAppend
<1>11. (Clean /\ ~failed') = Clean /\ (~failed') = (~failed) /\ failed' \in BOOLEAN
  BY <1>1, Standing, Zenon DEF Clean
<1>12. Owes[c] = {j} /\ OwedBy(t, mem[c]) = {}
  BY <1>2, <1>3, <1>5, Standing DEF OwedBy
<1> HIDE DEF t
<1>13. ~failed' => QueueOK(World', queue', [Owes EXCEPT ![c] = OwedBy(t, mem[c])],
                           IF req[c].op = "process" THEN PastBy(t, req[c]) ELSE Past)
  <2> SUFFICES ASSUME ~failed PROVE QueueOK(World, Append(queue, j), [Owes EXCEPT ![c] = {}], Past)
    BY <1>2, <1>7, <1>8, <1>11, <1>12
  <2>1. QueueOK(World, queue, Owes, Past) /\ DOMAIN Owes = Requests
    BY Standing
  <2> QED
    BY <1>6, <1>12, <2>1, RowQueued, Zenon
<1>14. Clean /\ ~failed' => CleanOK(World', t \in CleanPlans)
  <2> SUFFICES ASSUME Clean PROVE CleanOK(World, t \in CleanPlans)
    BY <1>8
  <2>1. CleanOK(World, plan[c] \in CleanPlans)
    BY <1>2, AloneCleans
  <2> QED
    BY <1>5, <2>1 DEF CleanOK, t
<1>15. Grows(~failed', World, World') /\ TablesOK(World')
  BY <1>6, <1>8 DEF Grows
<1>16. t # <<>> => Knows(~failed', Clean /\ ~failed', World', t, req[c], mem[c])
  BY <1>5, <1>8, <1>11 DEF t
<1>17. Continue(c, t, mem[c])
  BY <1>1 DEF t
<1> QED
  BY <1>2, <1>8, <1>9, <1>10, <1>11, <1>13, <1>14, <1>15, <1>16, <1>17, GoesOn

\* The job of an alert's e-mail is refused.
LEMMA EnqueueRefused ==
  ASSUME DeliveryInv, NEW c \in Requests, EnqueueFails(c)
  PROVE  DeliveryInv'
<1> DEFINE r == [Alert(c, "email", mem[c].who.to, mem[c].who.cc) EXCEPT !.error = TRUE]
<1>1. /\ At(c, "enqueue") /\ req[c].op # "create" /\ failed' = TRUE
      /\ Save(Head(mem[c].ids), r)
      /\ Continue(c, Tail(plan[c]), mem[c]) /\ UNCHANGED <<item, state, rules, removed, bus>>
  BY DEF EnqueueFails
<1>2. ~Idle(c) /\ req[c].op # "process" /\ plan[c] # <<>> /\ Head(plan[c]) = "enqueue"
  BY <1>1, AtJob DEF At
<1>3. PICK j \in DOMAIN rows : mem[c].ids = <<j>> /\ Head(mem[c].ids) = j
  BY <1>1, AtJob
<1>4. Alerting(Clean, World, plan[c], req[c], mem[c])
  <2>1. ~Making(World, plan[c], req[c], mem[c])
    BY <1>1 DEF Making
  <2> QED
    BY <1>2, <2>1, Standing, Asked, Zenon
<1>5. plan[c] \in {Both1, Job0, BothC1, JobC} /\ Told(mem[c])
  BY <1>2, <1>4, AlertHeads, Zenon
<1>6. RowOK(r) /\ ~r.sent
  <2>1. mem[c].who.to \subseteq People /\ mem[c].who.cc \subseteq People
    BY <1>5 DEF Told, Who
  <2> QED
    BY <1>5, <2>1, AlertRow
<1> HIDE DEF r
<1>7. ~(~failed') /\ (~failed') = FALSE /\ (Clean /\ ~failed') = FALSE /\ failed' \in BOOLEAN
  BY <1>1, Zenon
<1> DEFINE t == Tail(plan[c])
<1>8. t # <<>> => Alerting(FALSE, World', t, req[c], mem[c])
  <2>1. t \in {<<>>, Note0, NoteC, CleanC}
    BY <1>5, AlertPlans DEF Begins
  <2> QED
    BY <1>4, <1>5, <2>1 DEF Alerting
<1> HIDE DEF t
<1>9. t # <<>> => Knows(~failed', Clean /\ ~failed', World', t, req[c], mem[c])
  BY <1>7, <1>8, Zenon DEF Knows
<1>10. Save(j, r) /\ Continue(c, t, mem[c])
  BY <1>1, <1>3 DEF t
<1> QED
  BY <1>1, <1>2, <1>6, <1>7, <1>9, <1>10, Saves

-----------------------------------------------------------------------------
(* Cleaning up *)

LEMMA CleansTables ==
  ASSUME DeliveryInv, Cleaned, UNCHANGED <<item, state, rules, bus>>
  PROVE  /\ TablesOK(World') /\ DOMAIN rows' = DOMAIN rows
         /\ \A calm : Grows(calm, World, World')
         /\ queue' \in Seq(DOMAIN rows') /\ queue' = queue /\ World'.posted = World.posted
         /\ (\A i \in removed : rows[i] = NoRow) => CleanOK(World', FALSE)
<1>1. /\ rows' = [i \in Ids |-> IF OfItem(rows[i]) THEN NoRow ELSE rows[i]]
      /\ removed' = removed \cup {i \in Ids : OfItem(rows[i]) /\ rows[i].kind # "final"}
      /\ queue' = queue /\ posted' = posted /\ state' = state
  BY DEF Cleaned, bus
<1>2. /\ rows \in Seq(Row \cup {NoRow}) /\ posted \in Seq(Nat) /\ Len(posted) = Len(rows)
      /\ removed \subseteq DOMAIN rows /\ state \in States
      /\ \A j \in DOMAIN rows :
           /\ rows[j] = NoRow => j \in removed
           /\ rows[j] # NoRow => RowOK(rows[j]) /\ (rows[j].sent => posted[j] > 0)
  BY Standing, Worlds DEF TablesOK, DeliveryInv
<1>3. /\ DOMAIN rows = 1 .. Len(rows) /\ Len(rows) \in Nat /\ DOMAIN rows' = DOMAIN rows
      /\ \A i \in DOMAIN rows : rows'[i] = IF OfItem(rows[i]) THEN NoRow ELSE rows[i]
  BY <1>1, <1>2 DEF Ids
<1>4. rows' \in Seq(Row \cup {NoRow}) /\ Len(rows') = Len(rows)
  <2>1. \A i \in 1 .. Len(rows) : rows'[i] \in Row \cup {NoRow}
    BY <1>2, <1>3
  <2>2. rows' = [i \in 1 .. Len(rows) |-> rows'[i]]
    BY <1>1, <1>3 DEF Ids
  <2>3. rows' \in [1 .. Len(rows) -> Row \cup {NoRow}]
    BY <2>1, <2>2
  <2> QED
    BY <1>3, <2>3
<1>5. ASSUME NEW i \in DOMAIN rows, OfItem(rows[i]) PROVE i \in removed'
  <2>1. rows[i] # NoRow /\ rows[i].ref = "item"
    BY <1>5 DEF OfItem
  <2>2. rows[i].kind # "final"
    BY <1>2, <2>1 DEF RowOK
  <2> QED
    BY <1>1, <1>5, <2>2 DEF Ids
<1>6. removed \subseteq removed' /\ removed' \subseteq DOMAIN rows'
  BY <1>1, <1>2, <1>3 DEF Ids
<1>7. TablesOK(World')
  <2>1. ASSUME NEW i \in DOMAIN rows'
        PROVE  /\ rows'[i] = NoRow => i \in removed'
               /\ rows'[i] # NoRow => RowOK(rows'[i]) /\ (rows'[i].sent => posted'[i] > 0)
    BY <1>1, <1>2, <1>3, <1>5, <1>6
  <2> QED
    BY <1>1, <1>2, <1>4, <1>6, <2>1, Worlds DEF TablesOK
<1>8. \A calm : Grows(calm, World, World')
  <2>1. \A i \in DOMAIN rows : i \notin removed' => rows'[i] = rows[i]
    BY <1>3, <1>5
  <2> QED
    BY <1>1, <1>3, <1>6, <2>1, Worlds DEF Grows
<1>9. queue' \in Seq(DOMAIN rows')
  BY <1>1, <1>3 DEF DeliveryInv
<1>10. (\A i \in removed : rows[i] = NoRow) => CleanOK(World', FALSE)
  <2> SUFFICES ASSUME \A i \in removed : rows[i] = NoRow PROVE CleanOK(World', FALSE)
    OBVIOUS
  <2>1. ASSUME NEW i \in removed' PROVE rows'[i] = NoRow
    BY <1>1, <1>2, <1>3 DEF Ids
  <2>2. ASSUME NEW i \in DOMAIN rows', rows'[i] # NoRow PROVE rows'[i].ref = "none"
    <3>1. rows'[i] = rows[i] /\ ~OfItem(rows[i]) /\ rows[i] # NoRow
      BY <1>3, <2>2
    <3>2. rows[i].ref # "item" /\ rows[i] \in Row
      BY <1>2, <1>3, <3>1 DEF OfItem, RowOK
    <3>3. rows[i].ref \in {"item", "none"}
      BY <3>2 DEF Row
    <3> QED
      BY <3>1, <3>2, <3>3
  <2> QED
    BY <2>1, <2>2, Worlds DEF CleanOK
<1> QED
  BY <1>1, <1>3, <1>7, <1>8, <1>9, <1>10, Worlds

\* The clean-up, at its place in the plan or earlier
LEMMA CleansAway ==
  ASSUME DeliveryInv, NEW c \in Requests, ~Idle(c), Cleaned, UNCHANGED <<item, state, rules, bus>>,
         NEW p, Continue(c, p, mem[c]), failed' = failed, req[c].op # "process",
         p # <<>> => Alerting(Clean, World', p, req[c], mem[c]),
         OwedBy(p, mem[c]) = OwedBy(plan[c], mem[c])
  PROVE  DeliveryInv'
<1>1. /\ TablesOK(World') /\ DOMAIN rows' = DOMAIN rows
      /\ \A calm : Grows(calm, World, World')
      /\ queue' \in Seq(DOMAIN rows') /\ queue' = queue /\ World'.posted = World.posted
      /\ (\A i \in removed : rows[i] = NoRow) => CleanOK(World', FALSE)
  BY CleansTables
<1>2. (Clean /\ ~failed') = Clean /\ (~failed') = (~failed) /\ failed' \in BOOLEAN
  BY Standing, Zenon DEF Clean
<1>3. p # <<>> => Knows(~failed', Clean /\ ~failed', World', p, req[c], mem[c])
  BY <1>2, Zenon DEF Knows
<1>4. ~failed' => QueueOK(World', queue', [Owes EXCEPT ![c] = OwedBy(p, mem[c])],
                          IF req[c].op = "process" THEN PastBy(p, req[c]) ELSE Past)
  <2> SUFFICES ASSUME ~failed PROVE QueueOK(World', queue, [Owes EXCEPT ![c] = OwedBy(p, mem[c])], Past)
    BY <1>1, <1>2
  <2>1. QueueOK(World, queue, Owes, Past) /\ DOMAIN Owes = Requests /\ Owes[c] = OwedBy(p, mem[c])
    BY Standing
  <2>2. /\ DOMAIN World'.rows = DOMAIN World.rows /\ Grows(TRUE, World, World')
        /\ World'.posted = World.posted
    BY <1>1, Worlds
  <2> DEFINE past == Past
  <2>3. Past => past
    OBVIOUS
  <2> HIDE DEF past
  <2>4. QueueOK(World', queue, [Owes EXCEPT ![c] = Owes[c]], past)
    BY <2>1, <2>2, <2>3, BusKept, Zenon
  <2> QED
    BY <2>1, <2>4 DEF past
<1>5. Clean /\ ~failed' => CleanOK(World', p \in CleanPlans)
  <2> SUFFICES ASSUME Clean PROVE CleanOK(World', p \in CleanPlans)
    OBVIOUS
  <2>1. \A i \in removed : rows[i] = NoRow
    BY AloneCleans, Worlds DEF CleanOK
  <2>2. CleanOK(World', FALSE)
    BY <1>1, <2>1
  <2> QED
    BY <2>2 DEF CleanOK
<1>6. Grows(~failed', World, World') /\ UNCHANGED <<item, rules>>
  BY <1>1
<1> QED
  BY <1>1, <1>2, <1>3, <1>4, <1>5, <1>6, GoesOn

LEMMA CleansUp ==
  ASSUME DeliveryInv, NEW c \in Requests, CleanUp(c)
  PROVE  DeliveryInv'
<1>1. /\ plan[c] # <<>> /\ Head(plan[c]) = "cleanUp" /\ ~Idle(c)
      /\ Cleaned /\ UNCHANGED <<item, state, rules, bus>>
      /\ Continue(c, Tail(plan[c]), mem[c]) /\ failed' = failed
  BY DEF CleanUp, Done, Proceed, Rest, At, Idle
<1>2. Alerting(Clean, World, plan[c], req[c], mem[c])
  BY <1>1, Standing, Asked, Zenon
<1>3. plan[c] = CleanC /\ req[c].op # "process"
  <2>1. plan[c] = CleanC
    BY <1>1, <1>2, AlertHeads, Zenon
  <2>2. req[c].op # "process"
    BY <1>2 DEF Alerting
  <2> QED
    BY <2>1, <2>2
<1>4. Tail(plan[c]) = <<>>
  BY <1>3, AlertPlans DEF Begins
<1>5. OwedBy(<<>>, mem[c]) = OwedBy(plan[c], mem[c])
  BY <1>1 DEF OwedBy
<1> QED
  BY <1>1, <1>3, <1>4, <1>5, CleansAway

LEMMA CleansEarly ==
  ASSUME DeliveryInv, NEW c \in Requests, CleanUpEarly(c)
  PROVE  DeliveryInv'
<1>1. /\ req[c].op = "delete" /\ Len(plan[c]) > 1 /\ Last(plan[c]) = "cleanUp"
      /\ Cleaned /\ UNCHANGED <<item, state, rules, bus>>
      /\ Continue(c, Front(plan[c]), mem[c]) /\ failed' = failed
  BY DEF CleanUpEarly
<1>2. Alerting(Clean, World, plan[c], req[c], mem[c])
  BY <1>1, Standing, Ops, Zenon
<1>3. ~Idle(c)
  BY <1>2, AlertHeads DEF Idle
<1> DEFINE p == plan[c]
<1> DEFINE q == Front(plan[c])
<1> DEFINE m == mem[c]
<1> HIDE DEF p
<1>4. p # CleanC /\ p \notin {Load0, Load1, Pick0, Both0, Both1, Mail0, Note0, Job0}
  <2>1. Len(p) > 1 /\ Last(p) = "cleanUp"
    BY <1>1 DEF p
  <2>2. p # CleanC
    <3>1. Len(CleanC) = 1
      BY NoCleanUp
    <3>2. ASSUME Len(p) = 1 PROVE FALSE
      BY <2>1, <3>2
    <3> QED
      BY <3>1, <3>2, Zenon
  <2> QED
    BY <2>1, <2>2, NoCleanUp
<1>5. \/ p = PickC /\ m \in Contexts
      \/ p \in {BothC0, MailC, NoteC} /\ Told(m)
      \/ p \in {BothC1, JobC} /\ Told(m) /\ Job(World, m)
  BY <1>1, <1>2, <1>4 DEF Alerting, p, m
<1>6. p = MailC => q = Mail0
  BY WithoutCleanUp DEF p, q
<1>7. p = BothC0 => q = Both0
  BY WithoutCleanUp DEF p, q
<1>8. p = NoteC => q = Note0
  BY WithoutCleanUp DEF p, q
<1>9. (p = BothC1 => q = Both1) /\ (p = JobC => q = Job0)
  BY WithoutCleanUp DEF p, q
<1>10. p = PickC => q = Pick0
  BY WithoutCleanUp DEF p, q
<1>11. Job(World, m) => Job(World', m)
  BY CleansTables, Worlds, <1>1 DEF Job
<1>12. World'.state = World.state
  BY <1>1, Worlds
<1> HIDE DEF q, m
<1>13. Alerting(Clean, World', q, req[c], m)
  BY <1>1, <1>2, <1>5, <1>6, <1>7, <1>8, <1>9, <1>10, <1>11, <1>12 DEF Alerting, p
<1>14. Head(p) = Head(q) /\ p # <<>> /\ q # <<>>
  BY <1>5, <1>6, <1>7, <1>8, <1>9, <1>10, Heads
<1>15. OwedBy(q, m) = OwedBy(plan[c], m)
  BY <1>14 DEF OwedBy, p
<1> QED
  BY <1>1, <1>3, <1>13, <1>15, CleansAway DEF q, m

-----------------------------------------------------------------------------
(* Requests on rows, and the consumer *)

LEMMA Holding ==
  ASSUME DeliveryInv, NEW i, NEW m, Holds(~failed, Clean, World, i, m)
  PROVE  /\ i \in DOMAIN rows /\ RowOK(m) /\ (m.sent => posted[i] > 0)
         /\ ~failed /\ i \notin removed => m.kind = rows[i].kind
         /\ Clean => rows[i] # NoRow /\ m.ref = rows[i].ref
BY Worlds DEF Holds

LEMMA SavesRow ==
  ASSUME DeliveryInv, NEW c \in Requests, SaveRow(c)
  PROVE  DeliveryInv'
<1>1. /\ plan[c] # <<>> /\ Head(plan[c]) = "saveRow" /\ ~Idle(c)
      /\ Save(req[c].row, mem[c]) /\ Continue(c, Tail(plan[c]), mem[c]) /\ failed' = failed
      /\ UNCHANGED <<item, state, rules, removed, bus>>
  BY DEF SaveRow, Done, Proceed, Rest, At, Idle
<1>2. Changing(~failed, Clean, World, plan[c], req[c], mem[c])
  BY <1>1, Standing, Asked, Zenon
<1>3. /\ req[c].op # "process" /\ plan[c] = Row0
      /\ Holds(~failed, Clean, World, req[c].row, mem[c])
  BY <1>2 DEF Changing
<1> DEFINE i == req[c].row
<1>4. /\ i \in DOMAIN rows /\ RowOK(mem[c]) /\ (mem[c].sent => posted[i] > 0)
      /\ ~failed /\ i \notin removed => mem[c].kind = rows[i].kind
      /\ Clean => rows[i] # NoRow /\ mem[c].ref = rows[i].ref
  BY <1>3, Holding
<1>5. Continue(c, <<>>, mem[c])
  BY <1>1, <1>3, RowPlans DEF Begins
<1>6. OwedBy(<<>>, mem[c]) = OwedBy(plan[c], mem[c])
  BY <1>1 DEF OwedBy
<1>7. plan[c] \notin CleanPlans /\ failed' \in BOOLEAN
  BY <1>1, <1>3, NotCleaning, Standing
<1>8. Save(i, mem[c])
  BY <1>1
<1> HIDE DEF i
<1> QED
  BY <1>1, <1>3, <1>4, <1>5, <1>6, <1>7, <1>8, Saves

\* The plans of the consumer
LEMMA Consumes ==
  /\ Send2 \o <<>> = Send2 /\ Error0 \o <<>> = Error0 /\ Send0 \o <<>> = Send0
  /\ <<"markError">> \o <<"abandon">> = Error1 /\ <<>> \o <<"abandon">> = Error2
<1> DEFINE S == {"send", "markSent", "settle", "markError", "abandon"}
<1> DEFINE mark == <<"markError">>
<1>1. Send2 \in Seq(S) /\ Error0 \in Seq(S) /\ Send0 \in Seq(S)
  BY DEF Send2, Error0, Send0
<1>2. mark \in Seq(S) /\ Len(mark) = 1 /\ mark[1] = "markError"
  OBVIOUS
<1>3. Error1 \in Seq(S) /\ Len(Error1) = 2 /\ Error1[1] = "markError" /\ Error1[2] = "abandon"
  BY DEF Error1
<1>4. Error2 \in Seq(S) /\ Len(Error2) = 1 /\ Error2[1] = "abandon"
  BY DEF Error2
<1> HIDE DEF S, mark
<1>5. Send2 \o <<>> = Send2 /\ Error0 \o <<>> = Error0 /\ Send0 \o <<>> = Send0
      /\ <<>> \o Error2 = Error2
  BY <1>1, <1>4, ConcatEmptySeq
<1>6. mark \o Error2 = Error1
  <2>1. /\ Len(Error1) = Len(mark) + Len(Error2) /\ \A j \in 1 .. Len(mark) : Error1[j] = mark[j]
        /\ \A j \in 1 .. Len(Error2) : Error1[Len(mark) + j] = Error2[j]
    BY <1>2, <1>3, <1>4
  <2> QED
    BY <1>2, <1>3, <1>4, <2>1, Concats
<1> QED
  BY <1>5, <1>6 DEF Error2, mark

\* Where the consumer stands
LEMMA AtMessage ==
  ASSUME DeliveryInv, NEW c \in Requests, plan[c] # <<>>,
         Head(plan[c]) \in {"loadRow", "send", "markSent", "settle", "markError", "abandon"}
  PROVE  /\ Processing(~failed, Clean, World, plan[c], req[c], mem[c]) /\ ~Idle(c)
         /\ req[c].op = "process" /\ c = Consumer /\ queue # <<>> /\ req[c].row = Head(queue)
         /\ req[c].row \in DOMAIN rows /\ OwedBy(plan[c], mem[c]) = {}
<1>1. Processing(~failed, Clean, World, plan[c], req[c], mem[c])
  BY Standing, Asked, Zenon
<1>2. req[c].op = "process" /\ req[c].row \in DOMAIN World.rows
  BY <1>1, Zenon DEF Processing
<1>3. OwedBy(plan[c], mem[c]) = {}
  BY DEF OwedBy
<1> QED
  BY <1>1, <1>2, <1>3, Standing, Worlds DEF Idle

\* What is known of a row when something has failed
LEMMA HoldsAtFault ==
  ASSUME NEW calm, NEW alone, NEW w, NEW i, NEW m, Holds(calm, alone, w, i, m)
  PROVE  Holds(FALSE, FALSE, w, i, m)
BY DEF Holds

LEMMA LoadsRow ==
  ASSUME DeliveryInv, NEW c \in Requests, LoadRow(c)
  PROVE  DeliveryInv'
<1> DEFINE i == req[c].row
<1> DEFINE r == rows[i]
<1>1. plan[c] # <<>> /\ Head(plan[c]) = "loadRow" /\ UNCHANGED <<tables, bus>> /\ failed' = failed
  BY DEF LoadRow, Turn, At
<1>2. /\ Processing(~failed, Clean, World, plan[c], req[c], mem[c]) /\ ~Idle(c)
      /\ req[c].op = "process" /\ i \in DOMAIN World.rows /\ OwedBy(plan[c], mem[c]) = {}
  BY <1>1, AtMessage, Worlds
<1>3. plan[c] = Take0
  BY <1>1, <1>2, ProcessHeads, Zenon
<1>4. Tail(plan[c]) = <<>> /\ plan[c] \notin CleanPlans /\ ~PastBy(plan[c], req[c])
  BY <1>1, <1>3, RowPlans, NotCleaning DEF Begins, PastBy
<1>5. (Clean /\ ~failed') = Clean /\ (~failed') = (~failed) /\ failed' \in BOOLEAN
  BY <1>1, Standing, Zenon DEF Clean
<1>6. /\ r = NoRow => i \in removed
      /\ r # NoRow => RowOK(r) /\ (r.sent => posted[i] > 0)
  BY <1>2, Standing, Worlds DEF TablesOK
<1>7. r # NoRow => Holds(~failed, Clean, World, i, r)
  BY <1>2, <1>6, Worlds DEF Holds
<1>8. CASE r = NoRow
  <2>1. Continue(c, Send2, <<>>)
    BY <1>4, <1>8, Consumes DEF LoadRow, Turn, Send2
  <2>2. Over(World, i)
    BY <1>6, <1>8, Worlds DEF Over
  <2>3. Processing(~failed, Clean, World, Send2, req[c], <<>>)
    BY <1>2, <2>2, Zenon DEF Processing
  <2>4. Knows(~failed', Clean /\ ~failed', World, Send2, req[c], <<>>)
    BY <1>5, <2>3, Zenon DEF Knows
  <2>5. OwedBy(Send2, <<>>) = {}
    BY Heads DEF OwedBy
  <2> QED
    BY <1>1, <1>2, <1>4, <1>5, <2>1, <2>4, <2>5, Turns
<1>9. CASE r # NoRow /\ r.kind = "unfit"
  <2>1. Continue(c, Error0, r)
    BY <1>4, <1>9, Consumes DEF LoadRow, Turn, Error0
  <2>2. Processing(~failed, Clean, World, Error0, req[c], r)
    BY <1>2, <1>7, <1>9, Zenon DEF Processing
  <2>3. Knows(~failed', Clean /\ ~failed', World, Error0, req[c], r)
    BY <1>5, <2>2, Zenon DEF Knows
  <2>4. OwedBy(Error0, r) = {}
    BY Heads DEF OwedBy
  <2> HIDE DEF r
  <2> QED
    BY <1>1, <1>2, <1>4, <1>5, <2>1, <2>3, <2>4, Turns
<1>10. CASE r # NoRow /\ r.kind # "unfit"
  <2>1. Continue(c, Send0, r)
    BY <1>4, <1>10, Consumes DEF LoadRow, Turn, Process, SendFirst, Send0
  <2>2. Processing(~failed, Clean, World, Send0, req[c], r)
    BY <1>2, <1>7, <1>10, Zenon DEF Processing
  <2>3. Knows(~failed', Clean /\ ~failed', World, Send0, req[c], r)
    BY <1>5, <2>2, Zenon DEF Knows
  <2>4. OwedBy(Send0, r) = {}
    BY Heads DEF OwedBy
  <2> HIDE DEF r
  <2> QED
    BY <1>1, <1>2, <1>4, <1>5, <2>1, <2>3, <2>4, Turns
<1> QED
  BY <1>8, <1>9, <1>10

LEMMA Sends ==
  ASSUME DeliveryInv, NEW c \in Requests, Send(c)
  PROVE  DeliveryInv'
<1> DEFINE i == req[c].row
<1> DEFINE m == mem[c]
<1>1. /\ plan[c] # <<>> /\ Head(plan[c]) = "send" /\ posted' = [posted EXCEPT ![i] = @ + 1]
      /\ Continue(c, Tail(plan[c]), m) /\ failed' = failed /\ UNCHANGED <<tables, queue>>
  BY DEF Send, Done, Proceed, Rest, At
<1>2. /\ Processing(~failed, Clean, World, plan[c], req[c], m) /\ ~Idle(c)
      /\ req[c].op = "process" /\ c = Consumer /\ queue # <<>> /\ i = Head(queue)
      /\ i \in DOMAIN rows /\ OwedBy(plan[c], m) = {}
  BY <1>1, AtMessage
<1>3. plan[c] = Send0 /\ Holds(~failed, Clean, World, i, m)
  BY <1>1, <1>2, ProcessHeads, Zenon
<1>4. Continue(c, Send1, m)
  BY <1>1, <1>3, RowPlans DEF Begins
<1>5. (Clean /\ ~failed') = Clean /\ (~failed') = (~failed) /\ failed' \in BOOLEAN
  BY <1>1, Standing, Zenon DEF Clean
<1>6. /\ rows' = rows /\ removed' = removed /\ state' = state /\ queue' = queue
      /\ UNCHANGED <<item, rules>>
  BY <1>1 DEF tables
<1>7. /\ posted \in Seq(Nat) /\ Len(posted) = Len(rows) /\ rows \in Seq(Row \cup {NoRow})
      /\ \A j \in DOMAIN rows : rows[j] # NoRow => (rows[j].sent => posted[j] > 0)
  BY Standing, Worlds DEF TablesOK
<1>8. /\ i \in 1 .. Len(posted) /\ DOMAIN rows = 1 .. Len(posted) /\ posted[i] + 1 \in Nat
      /\ posted[i] \in Nat
  BY <1>2, <1>7
<1>9. /\ posted' \in Seq(Nat) /\ Len(posted') = Len(posted) /\ posted'[i] = posted[i] + 1
      /\ \A j \in DOMAIN rows : j # i => posted'[j] = posted[j]
  <2>1. posted' = [posted EXCEPT ![i] = posted[i] + 1]
    BY <1>1
  <2> HIDE DEF i
  <2> QED
    BY <1>7, <1>8, <2>1, ExceptSeq
<1> HIDE DEF i, m
<1>10. TablesOK(World')
  <2>1. ASSUME NEW j \in DOMAIN rows, rows[j] # NoRow, rows[j].sent PROVE posted'[j] > 0
    <3>1. posted[j] > 0
      BY <1>7, <2>1
    <3>2. CASE j = i
      BY <1>8, <1>9, <3>2
    <3>3. CASE j # i
      BY <1>9, <3>1, <3>3
    <3> QED
      BY <3>2, <3>3
  <2> QED
    BY <1>6, <1>7, <1>9, <2>1, Standing, Worlds DEF TablesOK
<1>11. Grows(~failed', World, World')
  <2>1. \A j \in DOMAIN rows : posted[j] > 0 => posted'[j] > 0
    BY <1>8, <1>9
  <2> QED
    BY <1>6, <2>1, Worlds DEF Grows
<1>12. Knows(~failed', Clean /\ ~failed', World', Send1, req[c], m)
  <2>1. World'.posted[i] > 0
    BY <1>8, <1>9, Worlds
  <2>2. Holds(~failed, Clean, World', i, m)
    BY <1>3, <1>6, <2>1, <1>9, Worlds DEF Holds
  <2>3. i \in DOMAIN World'.rows
    BY <1>2, <1>6, Worlds
  <2>4. Processing(~failed, Clean, World', Send1, req[c], m)
    BY <1>2, <2>1, <2>2, <2>3, Zenon DEF Processing, i
  <2> QED
    BY <1>5, <2>4, Zenon DEF Knows
<1>13. ~failed' => QueueOK(World', queue', [Owes EXCEPT ![c] = OwedBy(Send1, m)],
                           IF req[c].op = "process" THEN PastBy(Send1, req[c]) ELSE Past)
  <2> SUFFICES ASSUME ~failed'
               PROVE  QueueOK(World', queue', [Owes EXCEPT ![c] = OwedBy(Send1, m)],
                              IF req[c].op = "process" THEN PastBy(Send1, req[c]) ELSE Past)
    OBVIOUS
  <2> DEFINE past2 == IF req[c].op = "process" THEN PastBy(Send1, req[c]) ELSE Past
  <2>1. past2 = TRUE /\ OwedBy(Send1, m) = {}
    BY <1>2, Heads DEF PastBy, OwedBy
  <2> HIDE DEF past2
  <2>2. Past = FALSE
    BY <1>1, <1>2 DEF Past, PastBy
  <2>3. /\ DOMAIN Owes = Requests /\ QueueOK(World, queue, Owes, Past)
           /\ queue \in Seq(DOMAIN World.rows)
        /\ Owes[c] = {}
    BY <1>1, <1>2, Standing, Worlds DEF m
  <2>4. \A d \in Requests : Owes[d] \subseteq DOMAIN World.rows
    BY OwedRows, Worlds
  <2>5. SentOf(World, World', Head(queue))
    <3>1. posted \in [DOMAIN rows -> Nat]
      BY <1>7
    <3> QED
      BY <1>2, <1>6, <1>9, <3>1, Worlds DEF i, SentOf
  <2>6. QueueOK(World', queue, [Owes EXCEPT ![c] = Owes[c]], past2)
    <3>1. queue # <<>>
      BY <1>2
    <3>2. /\ QueueOK(World, queue, Owes, Past) /\ DOMAIN Owes = Requests
          /\ queue \in Seq(DOMAIN World.rows)
      BY <2>3
    <3> QED
      BY <2>1, <2>2, <2>4, <2>5, <3>1, <3>2, HeadSent, Zenon
  <2>7. QueueOK(World', queue', [Owes EXCEPT ![c] = OwedBy(Send1, m)], past2)
    BY <1>6, <2>1, <2>3, <2>6
  <2> QED
    BY <2>7 DEF past2
<1>14. Clean /\ ~failed' => CleanOK(World', Send1 \in CleanPlans)
  <2> SUFFICES ASSUME Clean PROVE CleanOK(World', Send1 \in CleanPlans)
    OBVIOUS
  <2>1. CleanOK(World, plan[c] \in CleanPlans) /\ plan[c] \notin CleanPlans
    BY <1>2, <1>3, AloneCleans, NotCleaning
  <2> QED
    BY <1>6, <2>1, Worlds DEF CleanOK
<1>15. queue' \in Seq(DOMAIN rows') /\ (queue # <<>> => queue' # <<>> /\ Head(queue') = Head(queue))
  BY <1>6, Standing
<1> QED
  BY <1>2, <1>4, <1>5, <1>6, <1>10, <1>11, <1>12, <1>13, <1>14, <1>15, GoesOn DEF m

LEMMA SendingFails ==
  ASSUME DeliveryInv, NEW c \in Requests, SendFails(c)
  PROVE  DeliveryInv'
<1> DEFINE i == req[c].row
<1> DEFINE m == mem[c]
<1>1. /\ plan[c] # <<>> /\ Head(plan[c]) = "send" /\ failed' = TRUE
      /\ Continue(c, Error1, m) /\ UNCHANGED <<tables, bus>>
  BY DEF SendFails, At, Error1
<1>2. /\ Processing(~failed, Clean, World, plan[c], req[c], m) /\ ~Idle(c)
      /\ req[c].op = "process" /\ i \in DOMAIN World.rows
  BY <1>1, AtMessage, Worlds
<1>3. Holds(~failed, Clean, World, i, m)
  BY <1>1, <1>2, ProcessHeads, Zenon
<1>4. Holds(FALSE, FALSE, World, i, m)
  BY <1>3, HoldsAtFault, Zenon
<1>5. (Clean /\ ~failed') = FALSE /\ (~failed') = FALSE /\ failed' \in BOOLEAN
  BY <1>1, Zenon
<1>6. Processing(FALSE, FALSE, World, Error1, req[c], m)
  BY <1>2, <1>4, Zenon DEF Processing
<1>7. Knows(~failed', Clean /\ ~failed', World, Error1, req[c], m)
  BY <1>5, <1>6, Zenon DEF Knows
<1> QED
  BY <1>1, <1>2, <1>5, <1>7, Turns

\* A row that is marked as sent stays what it is.
LEMMA MarkedSent ==
  ASSUME NEW r, RowOK(r)
  PROVE  LET s == [r EXCEPT !.sent = TRUE, !.error = IF r.type = "email" THEN FALSE ELSE @]
         IN RowOK(s) /\ s.kind = r.kind /\ s.ref = r.ref
<1> DEFINE e == IF r.type = "email" THEN FALSE ELSE r.error
<1> DEFINE s == [r EXCEPT !.sent = TRUE, !.error = IF r.type = "email" THEN FALSE ELSE @]
<1>1. r \in Row /\ (r.kind = "final" => r.ref = "none")
  BY DEF RowOK
<1>2. e \in BOOLEAN
  BY <1>1 DEF Row
<1>3. s = [r EXCEPT !.sent = TRUE, !.error = e]
  OBVIOUS
<1> HIDE DEF s, e
<1>4. s \in Row /\ s.kind = r.kind /\ s.ref = r.ref
  BY <1>1, <1>2, <1>3 DEF Row
<1> QED
  BY <1>1, <1>4 DEF RowOK, s

LEMMA MarksSent ==
  ASSUME DeliveryInv, NEW c \in Requests, MarkSent(c)
  PROVE  DeliveryInv'
<1> DEFINE i == req[c].row
<1> DEFINE m == mem[c]
<1> DEFINE r == [m EXCEPT !.sent = TRUE, !.error = IF m.type = "email" THEN FALSE ELSE @]
<1>1. /\ plan[c] # <<>> /\ Head(plan[c]) = "markSent" /\ failed' = failed
      /\ Save(i, r) /\ Continue(c, Tail(plan[c]), m)
      /\ UNCHANGED <<item, state, rules, removed, bus>>
  BY DEF MarkSent, Done, Proceed, Rest, At
<1>2. /\ Processing(~failed, Clean, World, plan[c], req[c], m) /\ ~Idle(c)
      /\ req[c].op = "process" /\ i \in DOMAIN rows /\ OwedBy(plan[c], m) = {}
  BY <1>1, AtMessage
<1>3. plan[c] = Send1 /\ Holds(~failed, Clean, World, i, m) /\ World.posted[i] > 0
  BY <1>1, <1>2, ProcessHeads, Zenon
<1>4. Continue(c, Send2, m)
  BY <1>1, <1>3, RowPlans DEF Begins
<1>5. (Clean /\ ~failed') = Clean /\ (~failed') = (~failed) /\ failed' \in BOOLEAN
  BY <1>1, Standing, Zenon DEF Clean
<1>6. /\ RowOK(m) /\ (~failed /\ i \notin removed => m.kind = rows[i].kind)
      /\ Clean => rows[i] # NoRow /\ m.ref = rows[i].ref
  BY <1>3, Holding
<1>7. RowOK(r) /\ r.kind = m.kind /\ r.ref = m.ref
  BY <1>6, MarkedSent
<1> HIDE DEF r, m, i
<1>8. posted[i] > 0
  BY <1>3, Worlds
<1>9. ASSUME Grows(~failed', World, World'), World'.posted = World.posted
      PROVE  Knows(~failed', Clean /\ ~failed', World', Send2, req[c], m)
  <2>1. Over(World', i) /\ i \in DOMAIN World'.rows
    BY <1>2, <1>8, <1>9, Worlds DEF Over, Grows
  <2>2. Processing(~failed, Clean, World', Send2, req[c], m)
    BY <1>2, <2>1, Zenon DEF Processing, i
  <2> QED
    BY <1>5, <2>2, Zenon DEF Knows
<1>10. OwedBy(Send2, m) = OwedBy(plan[c], mem[c]) /\ PastBy(Send2, req[c])
  BY <1>2, Heads DEF OwedBy, PastBy, m
<1>11. plan[c] \notin CleanPlans /\ Send2 # <<>>
  BY <1>3, Heads, NotCleaning
<1>12. /\ ~failed' /\ i \notin removed => r.kind = rows[i].kind
       /\ Clean /\ ~failed' => rows[i] # NoRow /\ r.ref = rows[i].ref
  BY <1>1, <1>6, <1>7
<1> QED
  BY <1>1, <1>2, <1>4, <1>5, <1>7, <1>8, <1>9, <1>10, <1>11, <1>12, Saves

LEMMA MarkingFails ==
  ASSUME DeliveryInv, NEW c \in Requests, MarkFails(c)
  PROVE  DeliveryInv'
<1> DEFINE i == req[c].row
<1> DEFINE m == [mem[c] EXCEPT !.sent = TRUE]
<1> DEFINE p == IF mem[c].type = "email" THEN Error1 ELSE Error2
<1>1. /\ plan[c] # <<>> /\ Head(plan[c]) = "markSent" /\ failed' = TRUE
      /\ Continue(c, p, m) /\ UNCHANGED <<tables, bus>>
  <2>1. Continue(c, (IF mem[c].type = "email" THEN <<"markError">> ELSE <<>>) \o <<"abandon">>, m)
    BY DEF MarkFails
  <2>2. (IF mem[c].type = "email" THEN <<"markError">> ELSE <<>>) \o <<"abandon">> = p
    BY Consumes
  <2> QED
    BY <2>1, <2>2 DEF MarkFails, At
<1>2. /\ Processing(~failed, Clean, World, plan[c], req[c], mem[c]) /\ ~Idle(c)
      /\ req[c].op = "process" /\ i \in DOMAIN World.rows
  BY <1>1, AtMessage, Worlds
<1>3. Holds(~failed, Clean, World, i, mem[c]) /\ World.posted[i] > 0
  BY <1>1, <1>2, ProcessHeads, Zenon
<1>4. RowOK(m)
  BY <1>3, Marked DEF Holds
<1>5. p \in {Error1, Error2}
  OBVIOUS
<1> HIDE DEF m, p
<1>6. Holds(FALSE, FALSE, World, i, m)
  BY <1>2, <1>3, <1>4 DEF Holds
<1>7. (Clean /\ ~failed') = FALSE /\ (~failed') = FALSE /\ failed' \in BOOLEAN
  BY <1>1, Zenon
<1>8. Processing(FALSE, FALSE, World, p, req[c], m)
  BY <1>2, <1>5, <1>6, Zenon DEF Processing
<1>9. Knows(~failed', Clean /\ ~failed', World, p, req[c], m)
  BY <1>7, <1>8, Zenon DEF Knows
<1> QED
  BY <1>1, <1>2, <1>7, <1>9, Turns

LEMMA MarksError ==
  ASSUME DeliveryInv, NEW c \in Requests, MarkError(c)
  PROVE  DeliveryInv'
<1> DEFINE i == req[c].row
<1> DEFINE m == mem[c]
<1> DEFINE r == [m EXCEPT !.error = TRUE]
<1> DEFINE t == Tail(plan[c])
<1>1. /\ plan[c] # <<>> /\ Head(plan[c]) = "markError" /\ failed' = failed
      /\ Save(i, r) /\ Continue(c, t, m)
      /\ UNCHANGED <<item, state, rules, removed, bus>>
  BY DEF MarkError, Done, Proceed, Rest, At
<1>2. /\ Processing(~failed, Clean, World, plan[c], req[c], m) /\ ~Idle(c)
      /\ req[c].op = "process" /\ i \in DOMAIN rows /\ OwedBy(plan[c], m) = {}
  BY <1>1, AtMessage
<1>3. /\ Holds(~failed, Clean, World, i, m)
      /\ (plan[c] = Error0 /\ (~failed => m.kind = "unfit")) \/ (plan[c] = Error1 /\ ~(~failed))
  <2> DEFINE calm == ~failed
  <2>1. Processing(calm, Clean, World, plan[c], req[c], m)
    BY <1>2
  <2> HIDE DEF calm, m, r, t
  <2>2. plan[c] # <<>> /\ Head(plan[c]) = "markError"
    BY <1>1
  <2>3. /\ Holds(calm, Clean, World, i, m)
        /\ (plan[c] = Error0 /\ (calm => m.kind = "unfit")) \/ (plan[c] = Error1 /\ ~calm)
    BY <2>1, <2>2, ProcessHeads
  <2> QED
    BY <2>3 DEF calm
<1>4. (Clean /\ ~failed') = Clean /\ (~failed') = (~failed) /\ failed' \in BOOLEAN
  BY <1>1, Standing, Zenon DEF Clean
<1>5. /\ RowOK(m) /\ (~failed /\ i \notin removed => m.kind = rows[i].kind)
      /\ Clean => rows[i] # NoRow /\ m.ref = rows[i].ref
      /\ m.sent => posted[i] > 0
  BY <1>3, Holding
<1>6. RowOK(r) /\ r.kind = m.kind /\ r.ref = m.ref /\ r.sent = m.sent
  BY <1>5, Marked
<1>7. /\ plan[c] \notin CleanPlans /\ t # <<>> /\ OwedBy(t, m) = {} /\ ~PastBy(plan[c], req[c])
      /\ plan[c] = Error0 => t = Send2
      /\ plan[c] = Error1 => t = Error2
  BY <1>1, <1>3, RowPlans, NotCleaning, Heads DEF Begins, OwedBy, PastBy
<1> HIDE DEF r, m, i, t
<1>8. ASSUME Grows(~failed', World, World'), World'.rows[i] = r
      PROVE  Knows(~failed', Clean /\ ~failed', World', t, req[c], m)
  <2>1. i \in DOMAIN World'.rows
    BY <1>2, <1>8, Worlds DEF Grows
  <2>2. CASE plan[c] = Error0 /\ (~failed => m.kind = "unfit")
    <3>1. ~failed => Over(World', i)
      BY <1>6, <1>8, <2>2 DEF Over
    <3>2. Processing(~failed, Clean, World', Send2, req[c], m)
      BY <1>2, <2>1, <3>1, Zenon DEF Processing, i
    <3> QED
      BY <1>4, <1>7, <2>2, <3>2, Zenon DEF Knows
  <2>3. CASE plan[c] = Error1 /\ ~(~failed)
    <3>1. Processing(~failed, Clean, World', Error2, req[c], m)
      BY <1>2, <2>1, <2>3, Zenon DEF Processing, i
    <3> QED
      BY <1>4, <1>7, <2>3, <3>1, Zenon DEF Knows
  <2> QED
    BY <1>3, <2>2, <2>3
<1>9. OwedBy(t, m) = OwedBy(plan[c], mem[c])
  BY <1>2, <1>7 DEF m
<1>10. /\ ~failed' /\ i \notin removed => r.kind = rows[i].kind
       /\ Clean /\ ~failed' => rows[i] # NoRow /\ r.ref = rows[i].ref
       /\ r.sent => posted[i] > 0
  BY <1>1, <1>5, <1>6
<1> QED
  BY <1>1, <1>2, <1>4, <1>6, <1>7, <1>8, <1>9, <1>10, Saves

LEMMA Settles ==
  ASSUME DeliveryInv, NEW c \in Requests, Settle(c)
  PROVE  DeliveryInv'
<1>1. /\ plan[c] # <<>> /\ Head(plan[c]) = "settle" /\ queue' = Tail(queue)
      /\ Continue(c, Tail(plan[c]), mem[c]) /\ failed' = failed /\ UNCHANGED <<tables, posted>>
  BY DEF Settle, Completed, Done, Proceed, Rest, At
<1>2. /\ Processing(~failed, Clean, World, plan[c], req[c], mem[c]) /\ ~Idle(c)
      /\ req[c].op = "process" /\ queue # <<>> /\ req[c].row = Head(queue)
      /\ OwedBy(plan[c], mem[c]) = {}
  BY <1>1, AtMessage
<1>3. plan[c] = Send2 /\ (~failed => Over(World, req[c].row))
  BY <1>1, <1>2, ProcessHeads, Zenon
<1>4. Continue(c, <<>>, mem[c]) /\ plan[c] \notin CleanPlans
  BY <1>1, <1>3, RowPlans, NotCleaning DEF Begins
<1>5. World' = World /\ rows' = rows /\ UNCHANGED <<item, rules>> /\ failed' \in BOOLEAN
  BY <1>1, Standing DEF tables, World
<1>6. queue \in Seq(DOMAIN rows) /\ queue' \in Seq(DOMAIN rows')
  BY <1>1, <1>2, <1>5, Standing, HeadTailProperties
<1>7. ~failed' => QueueOK(World', queue', [Owes EXCEPT ![c] = OwedBy(<<>>, mem[c])],
                          IF req[c].op = "process" THEN PastBy(<<>>, req[c]) ELSE Past)
  <2> SUFFICES ASSUME ~failed'
               PROVE  QueueOK(World', queue', [Owes EXCEPT ![c] = OwedBy(<<>>, mem[c])],
                              IF req[c].op = "process" THEN PastBy(<<>>, req[c]) ELSE Past)
    OBVIOUS
  <2> DEFINE past2 == IF req[c].op = "process" THEN PastBy(<<>>, req[c]) ELSE Past
  <2> HIDE DEF past2
  <2>1. OwedBy(<<>>, mem[c]) = {} /\ Owes[c] = {}
    BY <1>2, Standing DEF OwedBy
  <2>2. QueueOK(World, queue, Owes, Past) /\ DOMAIN Owes = Requests /\ queue # <<>>
    BY <1>1, <1>2, Standing
  <2>3. Over(World, Head(queue))
    BY <1>1, <1>2, <1>3
  <2>4. QueueOK(World, Tail(queue), [Owes EXCEPT ![c] = Owes[c]], past2)
    BY <1>6, <2>2, <2>3, HeadTaken, Zenon
  <2> QED
    BY <1>1, <1>5, <2>1, <2>4 DEF past2
<1>8. Clean /\ ~failed' => CleanOK(World', <<>> \in CleanPlans)
  <2> SUFFICES ASSUME Clean PROVE CleanOK(World, <<>> \in CleanPlans)
    BY <1>5
  <2>1. CleanOK(World, plan[c] \in CleanPlans)
    BY <1>2, AloneCleans
  <2> QED
    BY <1>4, <2>1 DEF CleanOK
<1>9. Grows(~failed', World, World') /\ TablesOK(World')
  BY <1>5, Standing DEF Grows
<1> QED
  BY <1>1, <1>2, <1>4, <1>5, <1>6, <1>7, <1>8, <1>9, GoesOn

LEMMA SettlingFails ==
  ASSUME DeliveryInv, NEW c \in Requests, SettleFails(c)
  PROVE  DeliveryInv'
<1>1. /\ plan[c] # <<>> /\ Head(plan[c]) = "settle" /\ failed' = TRUE
      /\ Continue(c, Tail(plan[c]), mem[c]) /\ UNCHANGED <<tables, bus>>
  BY DEF SettleFails, Shrug, At
<1>2. Processing(~failed, Clean, World, plan[c], req[c], mem[c]) /\ ~Idle(c)
  BY <1>1, AtMessage
<1>3. plan[c] = Send2
  BY <1>1, <1>2, ProcessHeads, Zenon
<1>4. Continue(c, <<>>, mem[c])
  BY <1>1, <1>3, RowPlans DEF Begins
<1> QED
  BY <1>1, <1>2, <1>4, Turns

LEMMA Abandons ==
  ASSUME DeliveryInv, NEW c \in Requests, Abandon(c)
  PROVE  DeliveryInv'
<1>1. /\ plan[c] # <<>> /\ Head(plan[c]) = "abandon" /\ failed' = failed
      /\ Continue(c, Tail(plan[c]), mem[c]) /\ UNCHANGED <<tables, bus>>
  BY DEF Abandon, Done, Proceed, Rest, At
<1>2. Processing(~failed, Clean, World, plan[c], req[c], mem[c]) /\ ~Idle(c)
  BY <1>1, AtMessage
<1>3. plan[c] = Error2 /\ ~(~failed)
  BY <1>1, <1>2, ProcessHeads, Zenon
<1>4. Continue(c, <<>>, mem[c]) /\ failed' \in BOOLEAN
  BY <1>1, <1>3, RowPlans, Standing DEF Begins
<1> QED
  BY <1>1, <1>2, <1>3, <1>4, Turns

-----------------------------------------------------------------------------
(* Requests that arrive *)

LEMMA Served ==
  ASSUME DeliveryInv, served < MaxServed, served' = served + 1
  PROVE  served' \in 0 .. MaxServed
BY DEF DeliveryInv, RequestsOK

LEMMA QuietlyClean ==
  ASSUME DeliveryInv, Clean, Quiet
  PROVE  CleanOK(World, FALSE)
<1>1. \A c \in Requests : plan[c] = <<>>
  BY DEF Quiet, Idle
<1>2. <<>> \notin CleanPlans
  BY NotCleaning
<1>3. ~Cleans
  BY <1>1, <1>2 DEF Cleans
<1>4. CleanOK(World, Cleans)
  BY DEF DeliveryInv
<1> QED
  BY <1>3, <1>4 DEF CleanOK

LEMMA Dispatches ==
  ASSUME DeliveryInv, NEW c \in Requests, NEW type, NEW event \in Events,
         NEW first \in {"loadContext", "loadChanged"}, Dispatch(c, type, event, first),
         UNCHANGED <<item, rules, rows, removed, bus>>, state' \in States \ {"gone"}
  PROVE  DeliveryInv'
<1>1. PICK a \in Actors : Arrive(c, [op |-> "dispatch"], [event |-> event, actor |-> a], <<first, "resolve">>)
  BY DEF Dispatch
<1> DEFINE r == [op |-> "dispatch"]
<1> DEFINE m == [event |-> event, actor |-> a]
<1> DEFINE p == <<first, "resolve">>
<1>2. Begin(c, r, m, p) /\ served' \in 0 .. MaxServed
  BY <1>1, Served DEF Arrive
<1>3. p \in {Load0, Load1}
  BY DEF Load0, Load1
<1>4. IsCall(m) /\ r.op = "dispatch"
  BY <1>1 DEF IsCall
<1> HIDE DEF r, m, p
<1>5. /\ rows' = rows /\ removed' = removed /\ queue' = queue /\ posted' = posted
      /\ World'.state # "gone" /\ World'.rows = World.rows /\ World'.removed = World.removed
  BY Worlds DEF bus
<1>6. Knows(~failed, Clean /\ Quiet, World', p, r, m)
  <2>1. Alerting(Clean /\ Quiet, World', p, r, m)
    BY <1>3, <1>4, <1>5 DEF Alerting
  <2> QED
    BY <2>1, Zenon DEF Knows
<1>7. p # <<>> /\ Head(p) # "enqueue" /\ ~PastBy(p, r) /\ r.op # "process"
  BY <1>3, <1>4, Heads DEF PastBy
<1>8. Clean /\ Quiet => CleanOK(World', p \in CleanPlans)
  BY <1>5, QuietlyClean DEF CleanOK
<1> QED
  BY <1>2, <1>5, <1>6, <1>7, <1>8, Arrives

LEMMA Alerts ==
  ASSUME DeliveryInv, NEW c \in Requests, NEW type, NEW event \in Events,
         NEW first \in {"loadContext", "loadChanged"}, Alerted(c, type, event, first)
  PROVE  DeliveryInv'
<1>1. /\ Dispatch(c, type, event, first) /\ UNCHANGED <<item, rules, rows, removed, bus>>
      /\ state' = state /\ state \in {"open", "finished"}
  BY DEF Alerted, tables
<1>2. state' \in States \ {"gone"}
  BY <1>1 DEF States
<1> QED
  BY <1>1, <1>2, Dispatches

LEMMA CreatesTask ==
  ASSUME DeliveryInv, NEW c \in Requests, TaskCreated(c)
  PROVE  DeliveryInv'
<1>1. /\ Dispatch(c, "task", "created", "loadContext") /\ state' = "committing"
      /\ UNCHANGED <<item, rules, rows, removed, bus>>
  BY DEF TaskCreated
<1>2. state' \in States \ {"gone"} /\ "created" \in Events
  BY <1>1 DEF States, Events
<1> QED
  BY <1>1, <1>2, Dispatches

LEMMA Deletes ==
  ASSUME DeliveryInv, NEW c \in Requests, NEW type, Delete(c, type)
  PROVE  DeliveryInv'
<1> DEFINE r == [op |-> "delete"]
<1> DEFINE p == IF state = "finished" THEN CleanC ELSE PickC
<1>1. PICK a \in Actors : Arrive(c, r, Context("deleted", a), p)
  BY DEF Delete, CleanC, PickC
<1> DEFINE m == Context("deleted", a)
<1>2. /\ UNCHANGED <<item, rules, rows, removed, queue, posted>> /\ state' = "gone"
      /\ World'.rows = World.rows /\ World'.removed = World.removed
  BY Worlds DEF Delete, bus
<1>3. Begin(c, r, m, p) /\ served' \in 0 .. MaxServed
  BY <1>1, Served DEF Arrive
<1>4. p \in {PickC, CleanC} /\ r.op = "delete" /\ m \in Contexts
  <2>1. m \in Contexts
    BY ContextType DEF Events, DeliveryInv
  <2> QED
    BY <2>1
<1> HIDE DEF r, m, p
<1>5. Knows(~failed, Clean /\ Quiet, World', p, r, m)
  <2>1. Alerting(Clean /\ Quiet, World', p, r, m)
    BY <1>4 DEF Alerting
  <2> QED
    BY <2>1, Zenon DEF Knows
<1>6. p # <<>> /\ Head(p) # "enqueue" /\ ~PastBy(p, r) /\ r.op # "process"
  BY <1>4, Heads DEF PastBy
<1>7. Clean /\ Quiet => CleanOK(World', p \in CleanPlans)
  <2>1. p \in CleanPlans
    BY <1>4 DEF CleanPlans
  <2> QED
    BY <1>2, <2>1, QuietlyClean DEF CleanOK
<1>8. state' \in States
  BY <1>2 DEF States
<1> QED
  BY <1>2, <1>3, <1>5, <1>6, <1>7, <1>8, Arrives

\* A request that leaves the item as it is
LEMMA OnlyArrives ==
  ASSUME DeliveryInv, NEW c \in Requests, NEW r, NEW m, NEW p, Begin(c, r, m, p),
         served' \in 0 .. MaxServed, UNCHANGED <<tables, bus>>,
         Knows(~failed, Clean /\ Quiet, World, p, r, m), p # <<>>, Head(p) # "enqueue", ~PastBy(p, r),
         r.op = "process" => c = Consumer /\ queue # <<>> /\ r.row = Head(queue)
  PROVE  DeliveryInv'
<1>1. /\ UNCHANGED <<item, rules, rows, removed, queue, posted>> /\ World' = World
         /\ state' \in States
  BY Standing, Worlds DEF tables, bus, World, TablesOK
<1>2. Clean /\ Quiet => CleanOK(World', p \in CleanPlans)
  BY <1>1, QuietlyClean DEF CleanOK
<1>3. Knows(~failed, Clean /\ Quiet, World', p, r, m)
  BY <1>1
<1> QED
  BY <1>1, <1>2, <1>3, Arrives

LEMMA StartsCreate ==
  ASSUME DeliveryInv, NEW c \in Requests, StartCreate(c)
  PROVE  DeliveryInv'
<1>1. PICK kind \in {"plain", "unfit"} : Arrive(c, [op |-> "create", kind |-> kind], <<>>, Own0)
  BY DEF StartCreate, Own0
<1> DEFINE r == [op |-> "create", kind |-> kind]
<1>2. Begin(c, r, <<>>, Own0) /\ served' \in 0 .. MaxServed /\ UNCHANGED <<tables, bus>>
  BY <1>1, Served DEF Arrive, StartCreate
<1>3. Making(World, Own0, r, <<>>) /\ r.op = "create"
  BY DEF Making
<1> HIDE DEF r
<1>4. Knows(~failed, Clean /\ Quiet, World, Own0, r, <<>>)
  BY <1>3, Zenon DEF Knows
<1>5. Own0 # <<>> /\ Head(Own0) # "enqueue" /\ ~PastBy(Own0, r)
  BY <1>3, Heads DEF PastBy
<1> QED
  BY <1>2, <1>3, <1>4, <1>5, OnlyArrives

LEMMA StartsUpdate ==
  ASSUME DeliveryInv, NEW c \in Requests, StartUpdate(c)
  PROVE  DeliveryInv'
<1>1. PICK i \in Ids :
        /\ Exists(i)
        /\ Arrive(c, [op |-> IF rows[i].type = "note" THEN "read" ELSE "update", row |-> i],
                  IF rows[i].type = "note" THEN [rows[i] EXCEPT !.read = TRUE] ELSE rows[i], Row0)
  BY DEF StartUpdate, Row0
<1> DEFINE o == IF rows[i].type = "note" THEN "read" ELSE "update"
<1> DEFINE r == [op |-> o, row |-> i]
<1> DEFINE m == IF rows[i].type = "note" THEN [rows[i] EXCEPT !.read = TRUE] ELSE rows[i]
<1>2. Begin(c, r, m, Row0) /\ served' \in 0 .. MaxServed /\ UNCHANGED <<tables, bus>>
  BY <1>1, Served DEF Arrive, StartUpdate
<1>3. r.op \in {"read", "update"} /\ r.row = i
  OBVIOUS
<1>4. i \in DOMAIN World.rows /\ World.rows[i] = rows[i] /\ World.posted[i] = posted[i]
      /\ rows[i] # NoRow
  BY <1>1, Worlds DEF Ids, Exists
<1>5. RowOK(rows[i]) /\ (rows[i].sent => posted[i] > 0)
  BY <1>4, Standing, Worlds DEF TablesOK
<1>6. RowOK(m) /\ m.kind = rows[i].kind /\ m.ref = rows[i].ref /\ m.sent = rows[i].sent
  BY <1>5, Marked
<1> HIDE DEF m, r, o
<1>7. Holds(~failed, Clean /\ Quiet, World, r.row, m)
  BY <1>3, <1>4, <1>5, <1>6 DEF Holds
<1>8. Changing(~failed, Clean /\ Quiet, World, Row0, r, m)
  BY <1>3, <1>7 DEF Changing
<1>9. Knows(~failed, Clean /\ Quiet, World, Row0, r, m)
  BY <1>8, Zenon DEF Knows
<1>10. Row0 # <<>> /\ Head(Row0) # "enqueue" /\ ~PastBy(Row0, r) /\ r.op # "process"
  BY <1>3, Heads DEF PastBy
<1> QED
  BY <1>2, <1>9, <1>10, OnlyArrives

LEMMA Receives ==
  ASSUME DeliveryInv, NEW c \in Requests, Receive(c)
  PROVE  DeliveryInv'
<1> DEFINE r == [op |-> "process", row |-> Head(queue)]
<1>1. /\ c = Consumer /\ queue # <<>> /\ Begin(c, r, <<>>, Take0) /\ UNCHANGED <<tables, bus>>
      /\ served' = served
  BY DEF Receive, HandedOut, bus, Take0
<1>2. served' \in 0 .. MaxServed
  BY <1>1 DEF DeliveryInv, RequestsOK
<1>3. r.op = "process" /\ r.row = Head(queue)
  OBVIOUS
<1>4. r.row \in DOMAIN World.rows
  BY <1>1, <1>3, Standing, Worlds, HeadTailProperties
<1> HIDE DEF r
<1>5. Processing(~failed, Clean /\ Quiet, World, Take0, r, <<>>)
  BY <1>3, <1>4, Zenon DEF Processing
<1>6. Knows(~failed, Clean /\ Quiet, World, Take0, r, <<>>)
  BY <1>5, Zenon DEF Knows
<1>7. Take0 # <<>> /\ Head(Take0) # "enqueue" /\ ~PastBy(Take0, r)
  BY Heads DEF PastBy
<1> QED
  BY <1>1, <1>2, <1>3, <1>6, <1>7, OnlyArrives

-----------------------------------------------------------------------------
(* What happens at once *)

\* A step that leaves the requests and the bus as they are.  What depends on
\* being alone stays true of requests that wait if there are none, or if the rows
\* are untouched.
LEMMA Elsewhere ==
  ASSUME DeliveryInv, UNCHANGED <<plan, req, mem, item, queue, posted>>, rules' \subseteq Rule,
         served' \in 0 .. MaxServed, overlapped' \in BOOLEAN, failed' \in BOOLEAN,
         failed => failed', overlapped => overlapped',
         TablesOK(World'), DOMAIN rows' = DOMAIN rows, Grows(~failed', World, World'),
         Clean' => Quiet \/ (rows' = rows /\ removed' = removed /\ state' # "gone"),
         Clean' => CleanOK(World', Cleans)
  PROVE  DeliveryInv'
<1>1. RequestsOK' /\ item' \in Items /\ queue' \in Seq(DOMAIN rows')
  BY DEF DeliveryInv, RequestsOK
<1>2. (~overlapped => Alone)'
  BY DEF DeliveryInv, Alone, Idle
<1>3. Clean' => Clean /\ failed' = failed
  BY Standing DEF Clean, DeliveryInv, RequestsOK
<1>4. ASSUME NEW c \in Requests PROVE Knows(~failed', Clean', World', plan'[c], req'[c], mem'[c])
  <2>1. Knows(~failed, Clean, World, plan[c], req[c], mem[c]) /\ Clean' \in BOOLEAN
    BY Standing DEF Clean
  <2>2. CASE ~Clean'
    <3>1. Knows(~failed', FALSE, World', plan[c], req[c], mem[c])
      BY <2>1, KnowsStays, Zenon
    <3>2. Clean' = FALSE
      BY <2>1, <2>2
    <3> QED
      BY <3>1, <3>2
  <2>3. CASE Clean' /\ Quiet
    <3>1. plan[c] = <<>>
      BY <2>3 DEF Quiet, Idle
    <3>2. req[c] = NoRequest
      BY <2>1, <3>1, Ops, Zenon
    <3> QED
      BY <3>1, <3>2, Zenon DEF Knows
  <2>4. CASE Clean' /\ ~Quiet
    <3>1. World'.rows = World.rows /\ World'.posted = World.posted /\ World'.removed = World.removed
          /\ World'.state # "gone"
      BY <2>4, Worlds
    <3>2. Knows(~failed, Clean, World', plan[c], req[c], mem[c])
      BY <2>1, <3>1, KnowsWaits, Zenon
    <3>3. (~failed') = (~failed) /\ Clean' = Clean
      BY <1>3, <2>1, <2>4, Standing
    <3> QED
      BY <3>2, <3>3
  <2> QED
    BY <2>2, <2>3, <2>4
<1>5. ASSUME NEW c \in Requests, req'[c].op = "process"
      PROVE  c = Consumer /\ queue' # <<>> /\ req'[c].row = Head(queue')
  BY <1>5, Standing
<1>6. ~failed' => QueueOK(World', queue', Owes', Past')
  <2> SUFFICES ASSUME ~failed' PROVE QueueOK(World', queue, Owes, Past)
    BY DEF Owes, Past
  <2>1. QueueOK(World, queue, Owes, Past)
    BY DEF DeliveryInv
  <2>2. World'.posted = World.posted /\ DOMAIN World'.rows = DOMAIN World.rows
    BY Worlds
  <2>3. OwesOK(World', queue, Owes) /\ BusOK(World', queue, Past)
    BY <2>1, <2>2 DEF QueueOK, OwesOK, BusOK
  <2>4. ASSUME NEW i \in DOMAIN World.rows, Over(World, i) PROVE Over(World', i)
    <3>1. Grows(TRUE, World, World')
      BY DEF Grows
    <3> QED
      BY <2>4, <3>1, OverStays
  <2>5. NoneLost(World', queue, Owes)
    BY <2>1, <2>2, <2>4 DEF QueueOK, NoneLost
  <2> QED
    BY <2>3, <2>5 DEF QueueOK
<1>7. Clean' => CleanOK(World', Cleans')
  BY DEF Cleans
<1> QED
  BY <1>1, <1>2, <1>4, <1>5, <1>6, <1>7, Zenon DEF DeliveryInv

LEMMA AtOnce ==
  ASSUME DeliveryInv, NEW op, Instant(op), UNCHANGED <<item, state, queue, posted>>,
         rules' \subseteq Rule, TablesOK(World'), DOMAIN rows' = DOMAIN rows,
         Grows(~failed, World, World'), Clean /\ Quiet => CleanOK(World', FALSE)
  PROVE  DeliveryInv'
<1>1. /\ served' \in 0 .. MaxServed /\ overlapped' = (overlapped \/ ~Quiet)
      /\ UNCHANGED <<plan, req, mem, failed>>
  BY Served DEF Instant
<1>2. overlapped \in BOOLEAN /\ failed \in BOOLEAN
  BY DEF DeliveryInv, RequestsOK
<1>3. Clean' => Clean /\ Quiet
  BY <1>1 DEF Clean
<1>4. Clean' => CleanOK(World', Cleans)
  BY <1>3 DEF CleanOK
<1>5. overlapped' \in BOOLEAN /\ failed' \in BOOLEAN /\ (overlapped => overlapped')
  BY <1>1, <1>2
<1> QED
  BY <1>1, <1>3, <1>4, <1>5, Elsewhere

LEMMA ChangesRules ==
  ASSUME DeliveryInv, ChangeRules
  PROVE  DeliveryInv'
<1>1. PICK r \in RuleBook :
        rules' \in {rules \cup {r}, rules \ {r}, (rules \ {r}) \cup {[r EXCEPT !.active = FALSE]}}
  BY DEF ChangeRules
<1>2. rules' \subseteq Rule
  <2>1. r \in Rule /\ [r EXCEPT !.active = FALSE] \in Rule
    BY DEF Rule
  <2> QED
    BY <1>1, <2>1 DEF DeliveryInv
<1>3. /\ Instant("rules") /\ UNCHANGED <<item, state, rows, queue, posted>> /\ World' = World
  BY DEF ChangeRules, bus, World
<1>4. Clean /\ Quiet => CleanOK(World', FALSE)
  BY <1>3, QuietlyClean
<1>5. TablesOK(World') /\ Grows(~failed, World, World')
  BY <1>3 DEF DeliveryInv, Grows
<1> QED
  BY <1>2, <1>3, <1>4, <1>5, AtOnce

LEMMA ReadsAll ==
  ASSUME DeliveryInv, ReadAll
  PROVE  DeliveryInv'
<1>1. PICK p \in People :
        rows' = [i \in Ids |-> IF Exists(i) /\ rows[i].type = "note" /\ p \in rows[i].to
                               THEN [rows[i] EXCEPT !.read = TRUE] ELSE rows[i]]
  BY DEF ReadAll
<1>2. Instant("readAll") /\ UNCHANGED <<item, state, rules, removed, queue, posted>>
  BY DEF ReadAll, bus
<1>3. /\ rows \in Seq(Row \cup {NoRow}) /\ posted \in Seq(Nat) /\ Len(posted) = Len(rows)
      /\ removed \subseteq DOMAIN rows /\ state \in States
      /\ \A j \in DOMAIN rows :
           /\ rows[j] = NoRow => j \in removed
           /\ rows[j] # NoRow => RowOK(rows[j]) /\ (rows[j].sent => posted[j] > 0)
  BY Worlds DEF TablesOK, DeliveryInv
<1>4. ASSUME NEW i \in DOMAIN rows
      PROVE  /\ rows'[i] = NoRow <=> rows[i] = NoRow
             /\ rows[i] # NoRow =>
                  /\ RowOK(rows'[i]) /\ (rows'[i].sent => posted[i] > 0)
                  /\ rows'[i].kind = rows[i].kind /\ rows'[i].ref = rows[i].ref
             /\ rows'[i] \in Row \cup {NoRow} /\ (rows[i] = NoRow => rows'[i] = rows[i])
  <2>1. CASE rows'[i] = rows[i]
    BY <1>3, <2>1
  <2>2. CASE rows'[i] # rows[i]
    <3>1. rows'[i] = [rows[i] EXCEPT !.read = TRUE] /\ rows[i] # NoRow
      BY <1>1, <2>2 DEF Ids, Exists
    <3>2. RowOK(rows[i]) /\ (rows[i].sent => posted[i] > 0)
      BY <1>3, <3>1
    <3>3. /\ RowOK(rows'[i]) /\ rows'[i].kind = rows[i].kind /\ rows'[i].ref = rows[i].ref
          /\ rows'[i].sent = rows[i].sent
      BY <3>1, <3>2, Marked
    <3>4. rows'[i] \in Row /\ rows'[i] # NoRow
      BY <3>3, NoRows DEF RowOK
    <3> QED
      BY <3>1, <3>2, <3>3, <3>4
  <2> QED
    BY <2>1, <2>2
<1>5. DOMAIN rows' = DOMAIN rows /\ DOMAIN rows = 1 .. Len(rows) /\ Len(rows) \in Nat
  BY <1>1, <1>3 DEF Ids
<1>6. rows' \in Seq(Row \cup {NoRow}) /\ Len(rows') = Len(rows)
  <2>1. rows' = [i \in 1 .. Len(rows) |-> rows'[i]]
    BY <1>1, <1>5 DEF Ids
  <2>2. rows' \in [1 .. Len(rows) -> Row \cup {NoRow}]
    BY <1>4, <1>5, <2>1
  <2> QED
    BY <1>5, <2>2
<1>7. TablesOK(World')
  BY <1>2, <1>3, <1>4, <1>5, <1>6, Worlds DEF TablesOK
<1>8. Grows(~failed, World, World')
  <2>1. \A i \in DOMAIN rows : rows'[i].kind = rows[i].kind
    BY <1>4
  <2> QED
    BY <1>2, <1>5, <2>1, Worlds DEF Grows
<1>9. Clean /\ Quiet => CleanOK(World', FALSE)
  <2> SUFFICES ASSUME Clean, Quiet PROVE CleanOK(World', FALSE)
    OBVIOUS
  <2>1. CleanOK(World, FALSE)
    BY QuietlyClean
  <2>2. /\ \A i \in removed : rows[i] = NoRow
        /\ state = "gone" => \A i \in DOMAIN rows : rows[i] # NoRow => rows[i].ref = "none"
    BY <2>1, Worlds DEF CleanOK
  <2>3. /\ \A i \in removed' : rows'[i] = NoRow
        /\ state' = "gone" => \A i \in DOMAIN rows' : rows'[i] # NoRow => rows'[i].ref = "none"
    BY <1>2, <1>3, <1>4, <1>5, <2>2
  <2> QED
    BY <2>3, Worlds DEF CleanOK
<1>10. rules' \subseteq Rule
  BY <1>2 DEF DeliveryInv
<1> QED
  BY <1>2, <1>5, <1>7, <1>8, <1>9, <1>10, AtOnce

LEMMA RemovesRow ==
  ASSUME DeliveryInv, RemoveRow
  PROVE  DeliveryInv'
<1>1. PICK i \in Ids : Save(i, NoRow) /\ removed' = removed \cup {i}
  BY DEF RemoveRow
<1>2. Instant("remove") /\ UNCHANGED <<item, state, rules, queue, posted>>
  BY DEF RemoveRow, bus
<1>3. /\ rows \in Seq(Row \cup {NoRow}) /\ posted \in Seq(Nat) /\ Len(posted) = Len(rows)
      /\ removed \subseteq DOMAIN rows /\ state \in States
      /\ \A j \in DOMAIN rows :
           /\ rows[j] = NoRow => j \in removed
           /\ rows[j] # NoRow => RowOK(rows[j]) /\ (rows[j].sent => posted[j] > 0)
  BY Worlds DEF TablesOK, DeliveryInv
<1>4. /\ rows' \in Seq(Row \cup {NoRow}) /\ Len(rows') = Len(rows) /\ DOMAIN rows' = DOMAIN rows
      /\ rows'[i] = NoRow /\ \A j \in DOMAIN rows : j # i => rows'[j] = rows[j]
  <2>1. i \in 1 .. Len(rows) /\ DOMAIN rows = 1 .. Len(rows) /\ NoRow \in Row \cup {NoRow}
    BY <1>3 DEF Ids
  <2>2. rows' = [rows EXCEPT ![i] = NoRow]
    BY <1>1 DEF Save
  <2> QED
    BY <1>3, <2>1, <2>2, ExceptSeq
<1>5. TablesOK(World')
  <2>1. ASSUME NEW j \in DOMAIN rows'
        PROVE  /\ rows'[j] = NoRow => j \in removed'
               /\ rows'[j] # NoRow => RowOK(rows'[j]) /\ (rows'[j].sent => posted'[j] > 0)
    BY <1>1, <1>2, <1>3, <1>4
  <2>2. removed' \subseteq DOMAIN rows'
    BY <1>1, <1>3, <1>4 DEF Ids
  <2> QED
    BY <1>2, <1>3, <1>4, <2>1, <2>2, Worlds DEF TablesOK
<1>6. Grows(~failed, World, World')
  <2>1. \A j \in DOMAIN rows : j \notin removed' => rows'[j] = rows[j]
    BY <1>1, <1>4
  <2> QED
    BY <1>1, <1>2, <1>4, <2>1, Worlds DEF Grows
<1>7. Clean /\ Quiet => CleanOK(World', FALSE)
  <2> SUFFICES ASSUME Clean, Quiet PROVE CleanOK(World', FALSE)
    OBVIOUS
  <2>1. CleanOK(World, FALSE)
    BY QuietlyClean
  <2>2. /\ \A j \in removed : rows[j] = NoRow
        /\ state = "gone" => \A j \in DOMAIN rows : rows[j] # NoRow => rows[j].ref = "none"
    BY <2>1, Worlds DEF CleanOK
  <2>3. /\ \A j \in removed' : rows'[j] = NoRow
        /\ state' = "gone" => \A j \in DOMAIN rows' : rows'[j] # NoRow => rows'[j].ref = "none"
    BY <1>1, <1>2, <1>3, <1>4, <2>2
  <2> QED
    BY <2>3, Worlds DEF CleanOK
<1>8. rules' \subseteq Rule
  BY <1>2 DEF DeliveryInv
<1> QED
  BY <1>2, <1>4, <1>5, <1>6, <1>7, <1>8, AtOnce

LEMMA TaskEnds ==
  ASSUME DeliveryInv, CommitTask \/ RollBackTask
  PROVE  DeliveryInv'
<1>1. /\ UNCHANGED <<plan, req, mem, item, rules, rows, removed, queue, posted, served, overlapped>>
      /\ state' \in States
  BY DEF CommitTask, RollBackTask, requestVars, bus, States
<1>2. TablesOK(World') /\ Grows(~failed', World, World')
  BY <1>1, Worlds DEF DeliveryInv, TablesOK, Grows
<1>3. /\ served' \in 0 .. MaxServed /\ overlapped' \in BOOLEAN /\ failed \in BOOLEAN
      /\ rules' \subseteq Rule
  BY <1>1 DEF DeliveryInv, RequestsOK
<1>4. CASE CommitTask
  <2>1. state' # "gone" /\ failed' = failed
    BY <1>4 DEF CommitTask, requestVars
  <2>2. Clean' => Clean /\ CleanOK(World, Cleans)
    BY <1>1, <2>1 DEF Clean, DeliveryInv
  <2>3. Clean' => CleanOK(World', Cleans)
    BY <1>1, <2>1, <2>2, Worlds DEF CleanOK
  <2> QED
    BY <1>1, <1>2, <1>3, <2>1, <2>3, Elsewhere
<1>5. CASE RollBackTask
  <2>1. failed' = TRUE /\ ~Clean'
    BY <1>5 DEF RollBackTask, Clean
  <2> QED
    BY <1>1, <1>2, <1>3, <2>1, Elsewhere
<1> QED
  BY <1>4, <1>5

-----------------------------------------------------------------------------
(* The theorems *)

LEMMA InitDelivers ==
  ASSUME Init
  PROVE  DeliveryInv
<1>1. PICK s \in Starts : item = s.item /\ state = s.state /\ rules = s.rules
  BY DEF Init
<1>2. item \in Items /\ state \in States /\ rules \subseteq Rule
  BY <1>1
<1>3. /\ rows = <<>> /\ queue = <<>> /\ posted = <<>> /\ removed = {} /\ InitRequests
      /\ DOMAIN rows = {} /\ DOMAIN queue = {}
  BY DEF Init
<1>4. TablesOK(World) /\ queue \in Seq(DOMAIN rows)
  BY <1>2, <1>3, Worlds DEF TablesOK
<1>5. RequestsOK /\ ~overlapped /\ ~failed
  <2>1. served = 0 /\ overlapped = FALSE /\ failed = FALSE
    BY <1>3 DEF InitRequests
  <2>2. DOMAIN plan = Requests /\ DOMAIN req = Requests /\ DOMAIN mem = Requests
    BY <1>3 DEF InitRequests
  <2>3. served \in 0 .. MaxServed
    BY <2>1
  <2> QED
    BY <2>1, <2>2, <2>3 DEF RequestsOK
<1>6. ASSUME NEW c \in Requests
      PROVE  plan[c] = <<>> /\ req[c] = NoRequest /\ req[c].op # "process" /\ Owes[c] = {}
  BY <1>3 DEF InitRequests, NoRequest, Owes, OwedBy
<1>7. ASSUME NEW c \in Requests PROVE Knows(~failed, Clean, World, plan[c], req[c], mem[c])
  BY <1>6, Zenon DEF Knows
<1>8. Alone
  BY <1>6 DEF Alone, Idle
<1>9. QueueOK(World, queue, Owes, Past)
  <2>1. Waiting(queue) = {} /\ DOMAIN World.rows = {}
    BY <1>3, Worlds DEF Waiting
  <2>2. OwesOK(World, queue, Owes)
    BY <1>6 DEF OwesOK
  <2>3. BusOK(World, queue, Past) /\ NoneLost(World, queue, Owes)
    BY <1>3, <2>1 DEF BusOK, Distinct, NoneLost
  <2> QED
    BY <2>2, <2>3 DEF QueueOK
<1>10. CleanOK(World, Cleans)
  BY <1>3, Worlds DEF CleanOK
<1> QED
  BY <1>2, <1>4, <1>5, <1>6, <1>7, <1>8, <1>9, <1>10, Zenon DEF DeliveryInv

LEMMA RequestDelivers ==
  ASSUME DeliveryInv, NEW c \in Requests, Request(c)
  PROVE  DeliveryInv'
<1> DEFINE e == {"created", "updated", "assigned", "status", "changed", "deleted"}
<1>1. Events = e
  BY DEF Events
<1>2. CASE \/ TicketCreated(c) \/ TicketUpdated(c) \/ TicketAssigned(c) \/ TicketStatus(c)
           \/ TicketSeverity(c) \/ TicketQueue(c) \/ TicketName(c) \/ TicketComment(c)
  BY <1>1, <1>2, Alerts
     DEF TicketCreated, TicketUpdated, TicketAssigned, TicketStatus, TicketSeverity, TicketQueue,
         TicketName, TicketComment
<1>3. CASE \/ TaskUpdated(c) \/ TaskAssigned(c) \/ TaskStatus(c) \/ TaskSeverity(c)
           \/ TaskName(c) \/ TaskProgress(c) \/ TaskDates(c) \/ TaskComment(c)
  BY <1>1, <1>3, Alerts
     DEF TaskUpdated, TaskAssigned, TaskStatus, TaskSeverity, TaskName, TaskProgress, TaskDates,
         TaskComment
<1>4. CASE TaskCreated(c)
  BY <1>4, CreatesTask
<1>5. CASE DeleteTicket(c) \/ DeleteTask(c)
  BY <1>5, Deletes DEF DeleteTicket, DeleteTask
<1>6. CASE ChangeRules \/ ReadAll \/ RemoveRow
  BY <1>6, ChangesRules, ReadsAll, RemovesRow
<1>7. CASE StartCreate(c) \/ StartUpdate(c)
  BY <1>7, StartsCreate, StartsUpdate
<1> QED
  BY <1>2, <1>3, <1>4, <1>5, <1>6, <1>7, Zenon DEF Request

LEMMA StatementDelivers ==
  ASSUME DeliveryInv, NEW c \in Requests, Statement(c)
  PROVE  DeliveryInv'
<1>1. CASE LoadTicket(c) \/ LoadTask(c) \/ NotChanged(c)
  BY <1>1, LoadsContext, FindsNoChange DEF LoadTicket, LoadTask
<1>2. CASE ResolveTicket(c) \/ ResolveTask(c)
  BY <1>2, Resolves DEF ResolveTicket, ResolveTask
<1>3. CASE SaveEmail(c) \/ SaveNotes(c) \/ SaveOwn(c) \/ SaveRow(c)
  BY <1>3, SavesAlert, SavesOwn, SavesRow
<1>4. CASE Enqueue(c) \/ CleanUp(c) \/ CleanUpEarly(c)
  BY <1>4, Enqueues, CleansUp, CleansEarly
<1>5. CASE LoadRow(c) \/ Send(c) \/ MarkSent(c)
  BY <1>5, LoadsRow, Sends, MarksSent
<1>6. CASE MarkError(c) \/ Settle(c) \/ Abandon(c)
  BY <1>6, MarksError, Settles, Abandons
<1> QED
  BY <1>1, <1>2, <1>3, <1>4, <1>5, <1>6, Zenon DEF Statement

LEMMA FaultDelivers ==
  ASSUME DeliveryInv, NEW c \in Requests, Fault(c)
  PROVE  DeliveryInv'
<1>1. CASE EnqueueFails(c) \/ DispatchFails(c) \/ Fail(c)
  BY <1>1, EnqueueRefused, CutsShort, Fails
<1>2. CASE SendFails(c) \/ MarkFails(c) \/ SettleFails(c)
  BY <1>2, SendingFails, MarkingFails, SettlingFails
<1> QED
  BY <1>1, <1>2, Zenon DEF Fault

LEMMA StutterDelivers ==
  ASSUME DeliveryInv, UNCHANGED vars
  PROVE  DeliveryInv'
<1>1. /\ UNCHANGED <<item, state, rules, rows, removed, queue, posted>>
      /\ UNCHANGED <<plan, req, mem, served, overlapped, failed>>
  BY DEF vars, tables, bus, requestVars
<1>2. World' = World /\ Owes' = Owes /\ Past' = Past /\ Cleans' = Cleans /\ Alone' = Alone
      /\ Clean' = Clean /\ RequestsOK' = RequestsOK
  BY <1>1 DEF World, Owes, Past, Cleans, Alone, Idle, Clean, RequestsOK
<1> QED
  BY <1>1, <1>2 DEF DeliveryInv

\* However requests and the consumer interleave, and whatever fails: what each
\* request knows of its row stays true, and while nothing has failed every row is
\* owed by one request, on the bus once, sent, unfit or removed.
THEOREM DeliveryInvariant == Spec => []DeliveryInv
<1>1. Init => DeliveryInv
  BY InitDelivers
<1>2. DeliveryInv /\ [Next]_vars => DeliveryInv'
  <2> SUFFICES ASSUME DeliveryInv, [Next]_vars PROVE DeliveryInv'
    OBVIOUS
  <2>1. CASE CommitTask \/ RollBackTask
    BY <2>1, TaskEnds
  <2>2. CASE \E c \in Requests : Request(c) \/ Receive(c) \/ Statement(c) \/ Fault(c)
    BY <2>2, RequestDelivers, Receives, StatementDelivers, FaultDelivers, Zenon
  <2>3. CASE UNCHANGED vars
    BY <2>3, StutterDelivers
  <2> QED
    BY <2>1, <2>2, <2>3 DEF Next
<1> QED
  BY <1>1, <1>2, PTL DEF Spec

\* The rows, the bus and the item keep their types, and the consumer works on the
\* message at the head of the bus (ServiceBusService.onModuleInit, whose receivers take one
\* message at a time).
THEOREM DeliveryTypes == Spec => []TypeOK
<1>1. DeliveryInv => TypeOK
  <2> SUFFICES ASSUME DeliveryInv PROVE TypeOK
    OBVIOUS
  <2>1. /\ state \in States /\ rows \in Seq(Row \cup {NoRow}) /\ posted \in Seq(Nat)
        /\ Len(posted) = Len(rows) /\ removed \subseteq DOMAIN rows
    BY Worlds DEF DeliveryInv, TablesOK
  <2>2. posted \in [Ids -> Nat]
    BY <2>1 DEF Ids
  <2>3. /\ item \in Items /\ queue \in Seq(Ids) /\ RequestsOK
        /\ \A c \in Requests : req[c].op = "process" => queue # <<>> /\ req[c].row = Head(queue)
    BY DEF DeliveryInv, Ids
  <2> QED
    BY <2>1, <2>2, <2>3 DEF TypeOK, Ids
<1> QED
  BY <1>1, DeliveryInvariant, PTL

\* A row marked as sent was sent, whatever failed; and until something fails no
\* row is sent twice (processEmailMessage and processNotificationMessage send before
\* they mark; the receiver completes the message last).
THEOREM SentAtMostOnce == Spec => []SentOnce
<1>1. DeliveryInv => SentOnce
  <2> SUFFICES ASSUME DeliveryInv, NEW i \in Ids
               PROVE  (Exists(i) /\ rows[i].sent => posted[i] > 0) /\ (~failed => posted[i] <= 1)
    BY DEF SentOnce
  <2>1. Exists(i) /\ rows[i].sent => posted[i] > 0
    BY Worlds DEF DeliveryInv, TablesOK, Exists, Ids
  <2>2. ~failed => posted[i] <= 1
    BY Worlds DEF DeliveryInv, QueueOK, BusOK, Ids
  <2> QED
    BY <2>1, <2>2
<1> QED
  BY <1>1, DeliveryInvariant, PTL

\* An alert resolved by the matrix has somebody in To, nobody twice, and tells
\* everybody it writes to (resolveRecipients of TicketAlertService and TaskAlertService).
THEOREM AlwaysAddressed == Spec => []Addressed
<1>1. DeliveryInv => Addressed
  <2> SUFFICES ASSUME DeliveryInv, NEW c \in Requests, At(c, "saveEmail") \/ At(c, "saveNotes"),
                      mem[c].from = "matrix"
               PROVE  AddressedTo(mem[c].who)
    BY DEF Addressed, AddressedTo
  <2>1. plan[c] # <<>> /\ Head(plan[c]) \in {"saveEmail", "saveNotes"}
    BY DEF At
  <2>2. Alerting(Clean, World, plan[c], req[c], mem[c])
    BY <2>1, Standing, Asked, Zenon
  <2>3. Told(mem[c])
    BY <2>1, <2>2, AlertHeads
  <2> QED
    BY <2>3 DEF Told
<1> QED
  BY <1>1, DeliveryInvariant, PTL

\* As long as nothing fails no row is forgotten: when all requests have ended and
\* the bus is empty, each has been sent once, is unfit, or was removed.
THEOREM NoneForgotten == Spec => []AllTold
<1>1. DeliveryInv => AllTold
  <2> SUFFICES ASSUME DeliveryInv, ~failed, Quiet, queue = <<>>, NEW i \in Ids, i \notin removed
               PROVE  Exists(i) /\ (posted[i] = 1 \/ rows[i].kind = "unfit")
    BY DEF AllTold
  <2>1. i \in DOMAIN World.rows /\ World.rows[i] = rows[i] /\ World.posted[i] = posted[i]
    BY Worlds DEF Ids
  <2>2. Exists(i)
    BY <2>1, Worlds DEF DeliveryInv, TablesOK, Exists
  <2>3. Waiting(queue) = {}
    BY DEF Waiting
  <2>4. ASSUME NEW c \in Requests PROVE Owes[c] = {}
    BY DEF Owes, OwedBy, Quiet, Idle
  <2>5. QueueOK(World, queue, Owes, Past)
    BY DEF DeliveryInv
  <2>6. posted[i] > 0 \/ rows[i].kind = "unfit"
    BY <2>1, <2>3, <2>4, <2>5, Worlds DEF QueueOK, NoneLost, Over
  <2>7. posted[i] \in Nat /\ posted[i] <= 1
    BY <2>1, <2>5, Worlds DEF DeliveryInv, TablesOK, QueueOK, BusOK
  <2> QED
    BY <2>2, <2>6, <2>7
<1> QED
  BY <1>1, DeliveryInvariant, PTL

\* Once a ticket or task is deleted and all its requests have ended one after the
\* other, no row refers to it, and what was removed is not inserted again
\* (cleanupTicketAlerts, cleanupTaskAlerts).
THEOREM ItemsCleanedUp == Spec => []CleanedUp
<1>1. DeliveryInv => CleanedUp
  <2> SUFFICES ASSUME DeliveryInv, Clean, Quiet, state = "gone"
               PROVE  /\ \A i \in Ids : Exists(i) => rows[i].ref = "none"
                      /\ \A i \in removed : ~Exists(i)
    BY DEF CleanedUp
  <2>1. CleanOK(World, FALSE)
    BY QuietlyClean
  <2> QED
    BY <2>1, Worlds DEF CleanOK, Exists, Ids
<1> QED
  BY <1>1, DeliveryInvariant, PTL
=============================================================================
