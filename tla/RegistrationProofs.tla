-------------------------- MODULE RegistrationProofs --------------------------
(***************************************************************************)
(* What holds of Registration for any number of requests, any bound and    *)
(* any cap: no code is compared with more guesses than the cap allows; the *)
(* types; that the latest code works; and that every company that is made  *)
(* is set up.                                                              *)
(***************************************************************************)
EXTENDS Registration, SequenceTheorems, TLAPS

-----------------------------------------------------------------------------
(* The inductive invariant *)

\* What a registration may have left to do before it stores its code.
Registers ==
  {<<"checkUser", "dropPending", "insertPending", "mailCode">>,
   <<"dropPending", "insertPending", "mailCode">>,
   <<"insertPending", "mailCode">>}

OtherSteps ==
  {"checkUser", "dropPending", "mailCode", "findPending", "takeAttempt",
   "dropOwn", "loadUser", "saveUser", "readFirms", "commitFirm", "answer",
   "savePicture", "setLink", "findLink", "setPassword"} \cup Parts
Other(p) == p \in Seq(OtherSteps)

Registering(c) == plan[c] \in Registers

\* A code that is still to be stored has been compared with nothing.
Unused(k) == k \in Codes /\ k <= codes /\ tries[k] = 0 /\ pending.id # k

\* The row counts every guess made at its code ...
CountedInRow ==
  /\ pending \in Pending \cup {NoRow} /\ pending.id <= codes
  /\ pending # NoRow => tries[pending.id] <= pending.attempts

\* ... and every code is stored once, since no two registrations have the same.
CodesOwn ==
  /\ \A c \in Requests : Other(plan[c]) \/ (Registering(c) /\ Unused(req[c].code))
  /\ \A c, d \in Requests : Registering(c) /\ Registering(d) /\ c # d => req[c].code # req[d].code

IInv ==
  /\ DOMAIN plan = Requests /\ DOMAIN req = Requests
  /\ codes \in Nat /\ tries \in [Codes -> Nat]
  /\ \A k \in Codes : k > codes => tries[k] = 0
  /\ AttemptsCapped
  /\ CountedInRow
  /\ CodesOwn

-----------------------------------------------------------------------------
(* Plans *)

\* A registration is nothing else as long as its code is not stored.
LEMMA RegistersApart == \A p \in Registers : p # <<>> /\ ~Other(p)
<1> SUFFICES ASSUME NEW p \in Registers PROVE p # <<>> /\ ~Other(p)
  OBVIOUS
<1>1. \E i \in 1..Len(p) : p[i] = "insertPending"
  <2>1. CASE p = <<"checkUser", "dropPending", "insertPending", "mailCode">>
    <3>1. Len(p) = 4 /\ p[3] = "insertPending"
      BY <2>1
    <3> QED
      BY <3>1
  <2>2. CASE p = <<"dropPending", "insertPending", "mailCode">>
    <3>1. Len(p) = 3 /\ p[2] = "insertPending"
      BY <2>2
    <3> QED
      BY <3>1
  <2>3. CASE p = <<"insertPending", "mailCode">>
    <3>1. Len(p) = 2 /\ p[1] = "insertPending"
      BY <2>3
    <3> QED
      BY <3>1
  <2> QED
    BY <2>1, <2>2, <2>3 DEF Registers
<1>2. "insertPending" \notin OtherSteps
  BY DEF OtherSteps, Parts
<1>3. Other(p) => \A i \in 1..Len(p) : p[i] \in OtherSteps
  BY DEF Other
<1>4. p # <<>>
  BY <1>1
<1> QED
  BY <1>1, <1>2, <1>3, <1>4

\* The statements a registration goes through.
LEMMA RegisterTail ==
  ASSUME NEW p \in Registers
  PROVE  /\ Head(p) # "insertPending" => Tail(p) \in Registers
         /\ Head(p) = "insertPending" => Other(Tail(p))
<1>1. Other(<<"mailCode">>)
  BY DEF Other, OtherSteps
<1>2. CASE p = <<"checkUser", "dropPending", "insertPending", "mailCode">>
  <2>1. Head(p) = "checkUser" /\ Tail(p) = <<"dropPending", "insertPending", "mailCode">>
    BY <1>2
  <2> QED
    BY <2>1 DEF Registers
<1>3. CASE p = <<"dropPending", "insertPending", "mailCode">>
  <2>1. Head(p) = "dropPending" /\ Tail(p) = <<"insertPending", "mailCode">>
    BY <1>3
  <2> QED
    BY <2>1 DEF Registers
<1>4. CASE p = <<"insertPending", "mailCode">>
  <2>1. Head(p) = "insertPending" /\ Tail(p) = <<"mailCode">>
    BY <1>4
  <2> QED
    BY <1>1, <2>1
<1> QED
  BY <1>2, <1>3, <1>4 DEF Registers

\* The plans a request may be left with, and their statements
Register0 == <<"checkUser", "dropPending", "insertPending", "mailCode">>
Register1 == <<"dropPending", "insertPending", "mailCode">>
Register2 == <<"insertPending", "mailCode">>
Register3 == <<"mailCode">>
Verify0   == <<"findPending", "takeAttempt", "dropOwn">>
Verify1   == <<"takeAttempt", "dropOwn">>
Verify2   == <<"dropOwn">>
Complete0 == <<"loadUser", "saveUser", "readFirms", "commitFirm">> \o SetUp
Complete1 == <<"saveUser", "readFirms", "commitFirm">> \o SetUp
Complete2 == <<"readFirms", "commitFirm">> \o SetUp
Complete3 == <<"commitFirm">> \o SetUp
SetUp1 == <<"grant", "division", "member", "resource">>
SetUp2 == <<"division", "member", "resource">>
SetUp3 == <<"member", "resource">>
SetUp4 == <<"resource">>
SetUps == {SetUp, SetUp1, SetUp2, SetUp3, SetUp4}
Answer0  == <<"answer">>
Picture0 == <<"savePicture">>
Forgot0  == <<"setLink">>
Reset0   == <<"findLink", "setPassword">>
Reset1   == <<"setPassword">>

After(p, s, t) == p # <<>> /\ Head(p) = s /\ Tail(p) = t

LEMMA Prepended ==
  ASSUME NEW S, NEW s \in S, NEW q \in Seq(S)
  PROVE  Head(<<s>> \o q) = s /\ Tail(<<s>> \o q) = q
<1> DEFINE r == <<s>> \o q
<1>1. <<s>> \in Seq(S) /\ Len(<<s>>) = 1 /\ <<s>>[1] = s /\ Len(q) \in Nat
  OBVIOUS
<1>2. /\ r \in Seq(S) /\ Len(r) = Len(<<s>>) + Len(q)
      /\ \A i \in 1..Len(<<s>>) + Len(q) :
           r[i] = IF i <= Len(<<s>>) THEN <<s>>[i] ELSE q[i - Len(<<s>>)]
  BY <1>1, ConcatProperties, Zenon
<1> HIDE DEF r
<1>3. /\ r \in Seq(S) /\ Len(r) = 1 + Len(q) /\ r[1] = s
      /\ \A i \in 2..1 + Len(q) : r[i] = q[i - 1]
  BY <1>1, <1>2
<1>4. Head(r) = s /\ Tail(r) \in Seq(S) /\ Len(Tail(r)) = Len(q)
      /\ \A i \in 1..Len(q) : Tail(r)[i] = q[i]
  BY <1>1, <1>3
<1>5. Tail(r) = q
  BY <1>4, SeqEqual, Zenon
<1> QED
  BY <1>4, <1>5 DEF r

LEMMA RegisterPlans ==
  /\ After(Register0, "checkUser", Register1) /\ After(Register1, "dropPending", Register2)
  /\ After(Register2, "insertPending", Register3) /\ After(Register3, "mailCode", <<>>)
<1>1. After(Register0, "checkUser", Register1)
  BY DEF After, Register0, Register1
<1>2. After(Register1, "dropPending", Register2)
  BY DEF After, Register1, Register2
<1>3. After(Register2, "insertPending", Register3)
  BY DEF After, Register2, Register3
<1>4. After(Register3, "mailCode", <<>>)
  BY DEF After, Register3
<1> QED
  BY <1>1, <1>2, <1>3, <1>4, Zenon

LEMMA VerifyPlans ==
  /\ After(Verify0, "findPending", Verify1) /\ After(Verify1, "takeAttempt", Verify2)
  /\ After(Verify2, "dropOwn", <<>>)
<1>1. After(Verify0, "findPending", Verify1)
  BY DEF After, Verify0, Verify1
<1>2. After(Verify1, "takeAttempt", Verify2)
  BY DEF After, Verify1, Verify2
<1>3. After(Verify2, "dropOwn", <<>>)
  BY DEF After, Verify2
<1> QED
  BY <1>1, <1>2, <1>3, Zenon

LEMMA CompletePlans ==
  /\ After(Complete0, "loadUser", Complete1) /\ After(Complete1, "saveUser", Complete2)
  /\ After(Complete2, "readFirms", Complete3) /\ After(Complete3, "commitFirm", SetUp)
<1>1. Complete0 # <<>> /\ Complete1 # <<>> /\ Complete2 # <<>> /\ Complete3 # <<>>
  <2>1. Complete0 # <<>>
    BY DEF Complete0, SetUp
  <2>2. Complete1 # <<>>
    BY DEF Complete1, SetUp
  <2>3. Complete2 # <<>>
    BY DEF Complete2, SetUp
  <2>4. Complete3 # <<>>
    BY DEF Complete3, SetUp
  <2> QED
    BY <2>1, <2>2, <2>3, <2>4
<1>2. Head(Complete0) = "loadUser" /\ Tail(Complete0) = Complete1
  BY DEF Complete0, Complete1, SetUp
<1>3. Head(Complete1) = "saveUser" /\ Tail(Complete1) = Complete2
  BY DEF Complete1, Complete2, SetUp
<1>4. Head(Complete2) = "readFirms" /\ Tail(Complete2) = Complete3
  BY DEF Complete2, Complete3, SetUp
<1>5. Head(Complete3) = "commitFirm" /\ Tail(Complete3) = SetUp
  <2>1. SetUp \in Seq(OtherSteps) /\ "commitFirm" \in OtherSteps
    BY DEF SetUp, OtherSteps, Parts
  <2> QED
    BY <2>1, Prepended, Zenon DEF Complete3
<1> QED
  BY <1>1, <1>2, <1>3, <1>4, <1>5, Zenon DEF After

LEMMA SetUpPlans ==
  /\ After(SetUp, "role", SetUp1) /\ After(SetUp1, "grant", SetUp2)
  /\ After(SetUp2, "division", SetUp3) /\ After(SetUp3, "member", SetUp4)
  /\ After(SetUp4, "resource", <<>>)
<1>1. After(SetUp, "role", SetUp1)
  BY DEF After, SetUp, SetUp1
<1>2. After(SetUp1, "grant", SetUp2)
  BY DEF After, SetUp1, SetUp2
<1>3. After(SetUp2, "division", SetUp3)
  BY DEF After, SetUp2, SetUp3
<1>4. After(SetUp3, "member", SetUp4)
  BY DEF After, SetUp3, SetUp4
<1>5. After(SetUp4, "resource", <<>>)
  BY DEF After, SetUp4
<1> QED
  BY <1>1, <1>2, <1>3, <1>4, <1>5, Zenon

LEMMA SignPlans ==
  /\ After(Answer0, "answer", <<>>) /\ After(Picture0, "savePicture", <<>>)
  /\ After(Forgot0, "setLink", <<>>) /\ After(Reset0, "findLink", Reset1)
  /\ After(Reset1, "setPassword", <<>>)
<1>1. After(Answer0, "answer", <<>>) /\ After(Picture0, "savePicture", <<>>)
  BY DEF After, Answer0, Picture0
<1>2. After(Forgot0, "setLink", <<>>) /\ After(Reset1, "setPassword", <<>>)
  BY DEF After, Forgot0, Reset1
<1>3. After(Reset0, "findLink", Reset1)
  BY DEF After, Reset0, Reset1
<1> QED
  BY <1>1, <1>2, <1>3, Zenon

LEMMA SetUpHeads == \A p \in SetUps : p # <<>> /\ Head(p) \in Parts
BY SetUpPlans DEF SetUps, After, Parts

USE RequestAssumption, AttemptsAssumption DEF Codes

LEMMA OtherTail == \A p : Other(p) /\ p # <<>> => Other(Tail(p)) /\ Head(p) \in OtherSteps
BY DEF Other

\* What is left after a statement of a request.
LEMMA AtOK ==
  ASSUME IInv, NEW c \in Requests, NEW s, At(c, s)
  PROVE  /\ s # "insertPending" => Other(Tail(plan[c])) \/ (Tail(plan[c]) \in Registers /\ Registering(c))
         /\ s = "insertPending" => Other(Tail(plan[c])) /\ Registering(c) /\ Unused(req[c].code)
<1>1. plan[c] # <<>> /\ Head(plan[c]) = s
  BY DEF At
<1>2. CASE Other(plan[c])
  <2>1. "insertPending" \notin OtherSteps
    BY DEF OtherSteps, Parts
  <2> QED
    BY <1>1, <1>2, <2>1, OtherTail
<1>3. CASE Registering(c) /\ Unused(req[c].code)
  BY <1>1, <1>3, RegisterTail DEF Registering
<1> QED
  BY <1>2, <1>3 DEF IInv, CodesOwn

\* A step that neither compares nor stores a code keeps the invariant.
LEMMA Keeps ==
  ASSUME IInv, NEW c \in Requests, NEW p, NEW m, Continue(c, p, m),
         Other(p) \/ (p \in Registers /\ Registering(c)),
         pending' \in {pending, NoRow}, UNCHANGED <<codes, tries>>
  PROVE  IInv'
<1>1. CountedInRow' /\ (DOMAIN plan = Requests)' /\ (DOMAIN req = Requests)'
  BY DEF IInv, CountedInRow, NoRow, Continue
<1>2. \A k : Unused(k) => Unused(k)'
  BY DEF Unused, NoRow
<1>3. \A d \in Requests \ {c} : plan'[d] = plan[d] /\ req'[d] = req[d]
  BY DEF Continue, IInv
<1>4. plan'[c] = p /\ (p \in Registers => req'[c] = req[c])
  BY RegistersApart DEF Continue, IInv
<1>5. CodesOwn'
  BY <1>2, <1>3, <1>4, RegistersApart DEF IInv, CodesOwn, Registering
<1> QED
  BY <1>1, <1>5 DEF IInv, AttemptsCapped

LEMMA NothingLeft == Other(<<>>)
BY DEF Other

\* A request ends, by itself or because a statement failed.
LEMMA EndKeeps ==
  ASSUME IInv, NEW c \in Requests, Continue(c, <<>>, <<>>), UNCHANGED <<pending, codes, tries>>
  PROVE  IInv'
BY Keeps, NothingLeft

\* A request goes on after a statement that neither compares nor stores a code.
LEMMA StepKeeps ==
  ASSUME IInv, NEW c \in Requests, NEW s, NEW m, At(c, s), s # "insertPending",
         Proceed(c, m), pending' \in {pending, NoRow}, UNCHANGED <<codes, tries>>
  PROVE  IInv'
<1>1. Continue(c, Tail(plan[c]), m)
  BY DEF Proceed, Rest
<1> QED
  BY <1>1, AtOK, Keeps

\* A request arrives that is no registration.
LEMMA ArriveKeeps ==
  ASSUME IInv, NEW c \in Requests, NEW r, NEW m, NEW p, Arrive(c, r, m, p), Other(p),
         UNCHANGED <<pending, codes, tries>>
  PROVE  IInv'
<1>1. CountedInRow' /\ (DOMAIN plan = Requests)' /\ (DOMAIN req = Requests)'
  BY DEF IInv, CountedInRow, NoRow, Arrive, Begin
<1>2. \A k : Unused(k) => Unused(k)'
  BY DEF Unused
<1>3. \A d \in Requests \ {c} : plan'[d] = plan[d] /\ req'[d] = req[d]
  BY DEF Arrive, Begin, IInv
<1>4. plan'[c] = p
  BY DEF Arrive, Begin, IInv
<1>5. CodesOwn'
  BY <1>2, <1>3, <1>4, RegistersApart DEF IInv, CodesOwn, Registering
<1> QED
  BY <1>1, <1>5 DEF IInv, AttemptsCapped

-----------------------------------------------------------------------------
(* The three statements that matter *)

\* The code of a new registration is nobody else's.
LEMMA StartRegisterKeeps ==
  ASSUME IInv, NEW c \in Requests, StartRegister(c)
  PROVE  IInv'
<1>1. /\ codes + 1 \in Codes /\ codes' = codes + 1
      /\ UNCHANGED <<pending, tries>>
      /\ plan' = [plan EXCEPT ![c] = Register]
      /\ req' = [req EXCEPT ![c] = [op |-> "register", code |-> codes + 1]]
  BY DEF StartRegister, Arrive, Begin
<1>2. plan'[c] \in Registers /\ req'[c].code = codes'
  BY <1>1 DEF IInv, Register, Registers
<1>3. \A d \in Requests \ {c} : plan'[d] = plan[d] /\ req'[d] = req[d]
  BY <1>1 DEF IInv
<1>4. CountedInRow'
  BY <1>1 DEF IInv, CountedInRow, NoRow, Pending
<1>5. pending.id \in Nat
  BY DEF IInv, CountedInRow, NoRow, Pending
<1>6. Unused(codes)'
  BY <1>1, <1>5 DEF Unused, IInv, CountedInRow
<1>7. ASSUME NEW k, Unused(k) PROVE Unused(k)' /\ k # codes'
  <2>1. k \in Nat /\ k <= codes /\ codes \in Nat
    BY <1>7 DEF Unused, IInv
  <2> QED
    BY <1>1, <1>7, <2>1 DEF Unused
<1>8. \A d \in Requests : Other(plan'[d]) \/ (Registering(d) /\ Unused(req[d].code))'
  <2> TAKE d \in Requests
  <2>1. CASE d = c
    BY <1>2, <1>6, <2>1 DEF Registering
  <2>2. CASE d # c
    BY <1>3, <1>7, <2>2 DEF IInv, CodesOwn, Registering
  <2> QED
    BY <2>1, <2>2
<1>9. \A d \in Requests \ {c} : Registering(d)' => req'[d].code # codes'
  BY <1>3, <1>7, RegistersApart DEF IInv, CodesOwn, Registering
<1>10. CodesOwn'
  BY <1>2, <1>3, <1>8, <1>9 DEF IInv, CodesOwn, Registering
<1> QED
  BY <1>1, <1>4, <1>10 DEF IInv, AttemptsCapped

\* A code that is stored has been compared with nothing.
LEMMA InsertPendingKeeps ==
  ASSUME IInv, NEW c \in Requests, InsertPending(c)
  PROVE  IInv'
<1>1. Other(Tail(plan[c])) /\ Registering(c) /\ Unused(req[c].code)
  BY AtOK DEF InsertPending
<1>2. CASE pending # NoRow
  BY <1>2, EndKeeps DEF InsertPending, Stop, End, tables
<1>3. CASE pending = NoRow
  <2>1. /\ pending' = [id |-> req[c].code, attempts |-> 0, live |-> TRUE]
        /\ Continue(c, Tail(plan[c]), mem[c])
        /\ UNCHANGED <<codes, tries>>
    BY <1>3 DEF InsertPending, Done, Proceed, Rest
  <2>2. CountedInRow'
    BY <1>1, <2>1 DEF CountedInRow, Unused, Pending, NoRow
  <2>3. \A d \in Requests \ {c} : plan'[d] = plan[d] /\ req'[d] = req[d]
    BY <2>1 DEF Continue, IInv
  <2>4. plan'[c] = Tail(plan[c]) /\ DOMAIN plan' = Requests /\ DOMAIN req' = Requests
    BY <2>1 DEF Continue, IInv
  <2>5. \A k : Unused(k) /\ k # req[c].code => Unused(k)'
    BY <2>1 DEF Unused
  <2>6. CodesOwn'
    BY <1>1, <2>3, <2>4, <2>5, RegistersApart DEF IInv, CodesOwn, Registering
  <2> QED
    BY <2>1, <2>2, <2>4, <2>6 DEF IInv, AttemptsCapped
<1> QED
  BY <1>2, <1>3

\* A guess is compared after the row has counted it.
LEMMA TakeAttemptKeeps ==
  ASSUME IInv, NEW c \in Requests, TakeAttempt(c)
  PROVE  IInv'
<1>1. Other(Tail(plan[c])) \/ (Tail(plan[c]) \in Registers /\ Registering(c))
  <2>1. At(c, "takeAttempt")
    BY DEF TakeAttempt
  <2> QED
    BY <2>1, AtOK
<1>2. CASE ~(pending # NoRow /\ BelowCap(pending, mem[c]))
  BY <1>2, EndKeeps DEF TakeAttempt, Stop, End, tables
<1>3. CASE pending # NoRow /\ BelowCap(pending, mem[c])
  <2>1. /\ pending' = [pending EXCEPT !.attempts = @ + 1]
        /\ tries' = [tries EXCEPT ![pending.id] = @ + 1]
        /\ codes' = codes
        /\ \/ Continue(c, Tail(plan[c]), mem[c])
           \/ Continue(c, <<>>, <<>>)
    BY <1>3 DEF TakeAttempt, BelowCap, Done, Proceed, End, Rest
  <2>2. /\ pending \in Pending /\ pending.attempts + 1 \in 0..MaxAttempts
        /\ tries[pending.id] <= pending.attempts /\ pending.id <= codes
    BY <1>3 DEF IInv, CountedInRow, BelowCap, Pending
  <2>3. /\ pending' \in Pending /\ pending'.id = pending.id
        /\ pending'.attempts = pending.attempts + 1
    BY <2>1, <2>2 DEF Pending
  <2>4. /\ tries' \in [Codes -> Nat] /\ tries'[pending.id] = tries[pending.id] + 1
        /\ \A k \in Codes : k # pending.id => tries'[k] = tries[k]
    BY <2>1, <2>2 DEF IInv, Pending
  <2>5. CountedInRow'
    BY <2>1, <2>2, <2>3, <2>4 DEF CountedInRow, Pending, IInv
  <2>6. AttemptsCapped'
    <3> SUFFICES ASSUME NEW k \in Codes PROVE tries'[k] <= MaxAttempts
      BY DEF AttemptsCapped
    <3>1. CASE k = pending.id
      <4>1. tries[k] \in Nat /\ pending.attempts \in Nat
        BY <2>2, <3>1 DEF IInv, Pending
      <4> QED
        BY <2>2, <2>4, <3>1, <4>1
    <3>2. CASE k # pending.id
      BY <2>4, <3>2 DEF IInv, AttemptsCapped
    <3> QED
      BY <3>1, <3>2
  <2>7. \A k \in Codes : k > codes' => tries'[k] = 0
    BY <2>1, <2>2, <2>4 DEF IInv, Pending
  <2>8. \A k : Unused(k) => Unused(k)'
    BY <2>1, <2>3, <2>4 DEF Unused
  <2>9. \A d \in Requests \ {c} : plan'[d] = plan[d] /\ req'[d] = req[d]
    BY <2>1 DEF Continue, IInv
  <2>10. /\ DOMAIN plan' = Requests /\ DOMAIN req' = Requests
         /\ Other(plan'[c]) \/ (plan'[c] \in Registers /\ Registering(c) /\ req'[c] = req[c])
    BY <1>1, <2>1, NothingLeft, RegistersApart DEF Continue, IInv
  <2>11. CodesOwn'
    BY <2>8, <2>9, <2>10, RegistersApart DEF IInv, CodesOwn, Registering
  <2> QED
    BY <2>1, <2>4, <2>5, <2>6, <2>7, <2>10, <2>11 DEF IInv
<1> QED
  BY <1>2, <1>3

-----------------------------------------------------------------------------
(* The other steps *)

\* What the other handlers do when they are called.
LEMMA OtherPlans ==
  /\ Other(<<"findPending", "takeAttempt", "dropOwn">>)
  /\ Other(<<"loadUser", "saveUser", "readFirms", "commitFirm">> \o SetUp)
  /\ Other(<<"answer">>) /\ Other(<<"savePicture">>) /\ Other(<<"setLink">>)
  /\ Other(<<"findLink", "setPassword">>)
<1>1. <<"loadUser", "saveUser", "readFirms", "commitFirm">> \in Seq(OtherSteps)
  BY DEF OtherSteps
<1>2. SetUp \in Seq(OtherSteps)
  BY DEF OtherSteps, SetUp, Parts
<1>3. Other(<<"loadUser", "saveUser", "readFirms", "commitFirm">> \o SetUp)
  BY <1>1, <1>2 DEF Other
<1>4. Other(<<"findPending", "takeAttempt", "dropOwn">>)
  BY DEF Other, OtherSteps
<1>5. Other(<<"answer">>) /\ Other(<<"savePicture">>) /\ Other(<<"setLink">>)
  BY DEF Other, OtherSteps
<1>6. Other(<<"findLink", "setPassword">>)
  BY DEF Other, OtherSteps
<1> QED
  BY <1>3, <1>4, <1>5, <1>6

LEMMA RequestKeeps ==
  ASSUME IInv, NEW c \in Requests, Request(c)
  PROVE  IInv'
<1>1. CASE StartRegister(c)
  BY <1>1, StartRegisterKeeps
<1>2. CASE StartVerify(c)
  BY <1>2, ArriveKeeps, OtherPlans DEF StartVerify, tables
<1>3. CASE StartComplete(c)
  BY <1>3, ArriveKeeps, OtherPlans DEF StartComplete
<1>4. CASE StartGoogle(c)
  <2>1. \E r, p : Arrive(c, r, user, p) /\ Other(p)
    BY <1>4, OtherPlans DEF StartGoogle
  <2> QED
    BY <1>4, <2>1, ArriveKeeps DEF StartGoogle, tables
<1>5. CASE ForgotPassword(c)
  BY <1>5, ArriveKeeps, OtherPlans DEF ForgotPassword, tables
<1>6. CASE StartReset(c)
  BY <1>6, ArriveKeeps, OtherPlans DEF StartReset, tables
<1> QED
  BY <1>1, <1>2, <1>3, <1>4, <1>5, <1>6 DEF Request

\* The statements that leave the codes and the guesses alone, or end the request.
LEMMA StatementKeeps ==
  ASSUME IInv, NEW c \in Requests, Statement(c)
  PROVE  IInv'
<1>1. CASE Stop(c)
  BY <1>1, EndKeeps DEF Stop, End, tables
<1>2. CASE InsertPending(c)
  BY <1>2, InsertPendingKeeps
<1>3. CASE TakeAttempt(c)
  BY <1>3, TakeAttemptKeeps
<1>4. ASSUME NEW s, At(c, s), s # "insertPending", \E m : Proceed(c, m),
             pending' \in {pending, NoRow}, UNCHANGED <<codes, tries>>
      PROVE  IInv'
  BY <1>4, StepKeeps
<1>5. CASE CheckUser(c)
  BY <1>1, <1>4, <1>5 DEF CheckUser, Done, tables
<1>6. CASE DropPending(c)
  BY <1>4, <1>6 DEF DropPending, Done
<1>7. CASE MailCode(c)
  BY <1>4, <1>7 DEF MailCode, Done
<1>8. CASE FindPending(c)
  BY <1>1, <1>4, <1>8 DEF FindPending, tables
<1>9. CASE DropOwn(c)
  BY <1>4, <1>9 DEF DropOwn, Done
<1>10. CASE LoadUser(c)
  BY <1>4, <1>10 DEF LoadUser, tables
<1>11. CASE SaveUser(c)
  BY <1>1, <1>4, <1>11 DEF SaveUser, Done
<1>12. CASE ReadFirms(c)
  BY <1>4, <1>12 DEF ReadFirms, tables
<1>13. CASE CommitFirm(c)
  BY <1>1, <1>4, <1>13 DEF CommitFirm
<1>14. CASE SetUpFirm(c)
  BY <1>4, <1>14 DEF SetUpFirm, Done, Parts
<1>15. CASE Answer(c)
  BY <1>1, <1>15 DEF Answer
<1>16. CASE SavePicture(c)
  BY <1>1, <1>4, <1>16 DEF SavePicture, Done
<1>17. CASE SetLink(c)
  BY <1>4, <1>17 DEF SetLink, Done
<1>18. CASE FindLink(c)
  BY <1>1, <1>4, <1>18 DEF FindLink, Done, tables
<1>19. CASE SetPassword(c)
  BY <1>4, <1>19 DEF SetPassword, Done
<1> QED
  BY <1>2, <1>3, <1>5, <1>6, <1>7, <1>8, <1>9, <1>10, <1>11, <1>12, <1>13, <1>14,
     <1>15, <1>16, <1>17, <1>18, <1>19 DEF Statement

\* A code that expires keeps its attempts.
LEMMA TimeKeeps ==
  ASSUME IInv, TimePasses
  PROVE  IInv'
<1>1. /\ pending' = pending \/ (pending # NoRow /\ pending' = [pending EXCEPT !.live = FALSE])
      /\ UNCHANGED <<codes, tries, plan, req>>
  BY DEF TimePasses, requestVars
<1>2. /\ pending'.id = pending.id /\ CountedInRow'
  BY <1>1 DEF IInv, CountedInRow, Pending
<1>3. \A k : Unused(k) => Unused(k)'
  BY <1>1, <1>2 DEF Unused
<1>4. CodesOwn'
  BY <1>1, <1>3 DEF IInv, CodesOwn, Registering
<1> QED
  BY <1>1, <1>2, <1>4 DEF IInv, AttemptsCapped

-----------------------------------------------------------------------------
(* The theorem *)

LEMMA InitOK == Init => IInv
<1> SUFFICES ASSUME Init PROVE IInv
  OBVIOUS
<1>1. codes \in {0, 1} /\ codes \in Nat
  BY DEF Init
<1>2. tries \in [Codes -> Nat] /\ \A k \in Codes : tries[k] \in {0, 1} /\ (k > codes => tries[k] = 0)
  BY DEF Init
<1>3. CountedInRow
  BY DEF Init, CountedInRow, Pending, NoRow
<1>4. DOMAIN plan = Requests /\ DOMAIN req = Requests /\ \A c \in Requests : plan[c] = <<>>
  BY DEF Init, InitRequests
<1>5. CodesOwn
  BY <1>4, NothingLeft, RegistersApart DEF CodesOwn, Registering
<1> QED
  BY <1>1, <1>2, <1>3, <1>4, <1>5 DEF IInv, AttemptsCapped

LEMMA StepOK == IInv /\ [Next]_vars => IInv'
<1> SUFFICES ASSUME IInv, [Next]_vars PROVE IInv'
  OBVIOUS
<1>1. CASE TimePasses
  BY <1>1, TimeKeeps
<1>2. ASSUME NEW c \in Requests, Request(c) PROVE IInv'
  BY <1>2, RequestKeeps
<1>3. ASSUME NEW c \in Requests, Statement(c) PROVE IInv'
  BY <1>3, StatementKeeps
<1>4. ASSUME NEW c \in Requests, Fail(c) PROVE IInv'
  BY <1>4, EndKeeps DEF Fail, Break, tables
<1>5. ASSUME NEW c \in Requests, MailFails(c) PROVE IInv'
  <2>1. At(c, "mailCode") /\ Continue(c, Tail(plan[c]), mem[c]) /\ UNCHANGED tables
    BY <1>5 DEF MailFails, Shrug
  <2>2. Other(Tail(plan[c])) \/ (Tail(plan[c]) \in Registers /\ Registering(c))
    BY <2>1, AtOK
  <2> QED
    BY <2>1, <2>2, Keeps DEF tables
<1>6. CASE UNCHANGED vars
  BY <1>6 DEF vars, tables, requestVars, IInv, AttemptsCapped, CountedInRow, CodesOwn, Registering, Unused
<1> QED
  BY <1>1, <1>2, <1>3, <1>4, <1>5, <1>6 DEF Next

\* The invariant, from which the cap follows: a code that is not stored yet is
\* one request's own, and the row of a stored one counts all guesses made at it.
THEOREM RegistrationInvariant == Spec => []IInv
BY InitOK, StepOK, PTL DEF Spec

\* However many verifications run at the same time, however they interleave with
\* registrations that replace the code, and whichever statement fails, a code is
\* compared with no more than MaxAttempts guesses: the conditional UPDATE of
\* verifyOtp is enough.
THEOREM CapHolds == Spec => []AttemptsCapped
<1>1. IInv => AttemptsCapped
  BY DEF IInv
<1> QED
  BY <1>1, RegistrationInvariant, PTL

-----------------------------------------------------------------------------
(* Types, the latest code and the companies of the user: what each request *)
(* knows of the tables, by what it has still to do.                        *)

\* The tables, without what time changes
World ==
  [codes |-> codes, mailed |-> mailed, row |-> pending.id, tokens |-> tokens,
   there |-> user # NoRow, made |-> Len(firms),
   in |-> IF user = NoRow THEN {} ELSE user.companies,
   main |-> IF user = NoRow THEN 0 ELSE user.default]

\* What never goes away
Grows(w, v) == w.codes <= v.codes /\ w.made <= v.made /\ (w.there => v.there)

\* As long as there is no user, the latest code is the one mailed, and it can be
\* verified or has been.
Latest(w) ==
  ~w.there /\ w.codes # 0 =>
    /\ w.mailed = w.codes /\ w.row \in {0, w.codes}
    /\ w.tokens[w.codes] = IF w.row = w.codes THEN 0 ELSE 1

\* A user belongs to every company that was made.
Whole(w) == w.in = 1..w.made /\ w.main = w.made

\* A registration that is alone has the latest code, and nobody has used it.
Newest(w, o) == ~w.there /\ o.code = w.codes /\ w.tokens[w.codes] = 0

\* A user that was loaded: the companies in it have been made; it has all of them
\* when nothing interleaves.
Read(w, m) ==
  \/ m = NoRow
  \/ m \in User /\ w.there /\ m.companies \subseteq 1..w.made /\ m.default \in 0..w.made
Agrees(w, m) == IF m = NoRow THEN ~w.there ELSE m.companies = w.in /\ m.default = w.main

Storing(alone, w, p, o) == o.code \in 1..w.codes /\
  \/ p = Register0 /\ (alone => w.there \/ Newest(w, o))
  \/ p = Register1 /\ (alone => Newest(w, o))
  \/ p = Register2 /\ (alone => Newest(w, o) /\ w.row = 0)
  \/ p = Register3 /\ (alone => Newest(w, o) /\ w.row = o.code)

Verifying(alone, w, p, m) == (alone => Latest(w)) /\
  \/ p = Verify0
  \/ p \in {Verify1, Verify2} /\ m.id \in Codes /\ m.id <= w.codes /\ (alone => m.id = w.row)

Completing(alone, w, p, o, m) == (alone => Latest(w)) /\
  \/ p = Complete0 /\ o.password \in Nat
  \/ p = Complete1 /\ o.password \in Nat /\ Read(w, m) /\ (alone => Agrees(w, m))
  \/ p \in {Complete2, Complete3} \cup SetUps /\ w.there

Signing(alone, w, p, m) == (alone => Latest(w)) /\
  \/ p = Answer0
  \/ p = Picture0 /\ Read(w, m) /\ (alone => Agrees(w, m))
  \/ p \in {Forgot0, Reset0, Reset1} /\ w.there

Knows(alone, w, p, o, m) ==
  \/ p = <<>>
  \/ Storing(alone, w, p, o)
  \/ Verifying(alone, w, p, m)
  \/ Completing(alone, w, p, o, m)
  \/ Signing(alone, w, p, m)

Tables ==
  /\ pending \in Pending \cup {NoRow} /\ pending.id <= codes
  /\ codes \in Codes \cup {0} /\ mailed \in 0..codes
  /\ tokens \in [Codes -> Nat] /\ \A k \in Codes : k > codes => tokens[k] = 0
  /\ tries \in [Codes -> Nat]
  /\ user \in User \cup {NoRow} /\ passwords \in Nat /\ firms \in Seq(SUBSET Parts)
  /\ World.in \subseteq 1..Len(firms) /\ World.main \in 0..Len(firms)

Alone == \A c, d \in Requests : ~Idle(c) /\ ~Idle(d) => c = d

KnownInv ==
  /\ Tables /\ RequestsOK
  /\ ~overlapped => Alone
  /\ Clean => Whole(World)
  /\ Clean /\ Quiet => Latest(World)
  /\ \A c \in Requests : Knows(Clean, World, plan[c], req[c], mem[c])

\* A company that is not set up yet is being set up by some request.
Todo(p) == {p[i] : i \in 1..Len(p)}
SettingUp(c, i) == plan[c] \in SetUps /\ mem[c].firm = i /\ firms[i] \cup Todo(plan[c]) = Parts
Built == ~failed => \A i \in DOMAIN firms : firms[i] = Parts \/ \E c \in Requests : SettingUp(c, i)

\* What is known of a request says which statement it has next.
LEMMA Asked ==
  ASSUME NEW alone, NEW w, NEW p, NEW o, NEW m, Knows(alone, w, p, o, m), p # <<>>
  PROVE  /\ Head(p) \in {"checkUser", "dropPending", "insertPending", "mailCode"} =>
              Storing(alone, w, p, o)
         /\ Head(p) \in {"findPending", "takeAttempt", "dropOwn"} => Verifying(alone, w, p, m)
         /\ Head(p) \in {"loadUser", "saveUser", "readFirms", "commitFirm"} \cup Parts =>
              Completing(alone, w, p, o, m)
         /\ Head(p) \in {"answer", "savePicture", "setLink", "findLink", "setPassword"} =>
              Signing(alone, w, p, m)
<1>1. Storing(alone, w, p, o) => Head(p) \in {"checkUser", "dropPending", "insertPending", "mailCode"}
  BY RegisterPlans DEF Storing, After
<1>2. Verifying(alone, w, p, m) => Head(p) \in {"findPending", "takeAttempt", "dropOwn"}
  BY VerifyPlans DEF Verifying, After
<1>3. Completing(alone, w, p, o, m) =>
        Head(p) \in {"loadUser", "saveUser", "readFirms", "commitFirm"} \cup Parts
  BY CompletePlans, SetUpHeads DEF Completing, After
<1>4. Signing(alone, w, p, m) =>
        Head(p) \in {"answer", "savePicture", "setLink", "findLink", "setPassword"}
  BY SignPlans DEF Signing, After
<1>5. \/ Storing(alone, w, p, o) \/ Verifying(alone, w, p, m)
      \/ Completing(alone, w, p, o, m) \/ Signing(alone, w, p, m)
  BY Zenon DEF Knows
<1> QED
  BY <1>1, <1>2, <1>3, <1>4, <1>5 DEF Parts

\* What is known of a request that may not be alone stays when the tables grow.
LEMMA Weaken ==
  ASSUME NEW alone, NEW w, NEW v, NEW p, NEW o, NEW m, Knows(alone, w, p, o, m),
         w.codes \in Nat, v.codes \in Nat, w.made \in Nat, v.made \in Nat, Grows(w, v)
  PROVE  Knows(FALSE, v, p, o, m)
<1>1. Storing(alone, w, p, o) => Storing(FALSE, v, p, o)
  <2>1. o.code \in 1..w.codes => o.code \in 1..v.codes
    BY DEF Grows
  <2> QED
    BY <2>1, Zenon DEF Storing
<1>2. Verifying(alone, w, p, m) => Verifying(FALSE, v, p, m)
  <2>1. m.id \in Codes /\ m.id <= w.codes => m.id <= v.codes
    BY DEF Grows
  <2> QED
    BY <2>1, Zenon DEF Verifying
<1>3. Read(w, m) => Read(v, m)
  BY DEF Read, Grows
<1>4. w.there => v.there
  BY Zenon DEF Grows
<1>5. Completing(alone, w, p, o, m) => Completing(FALSE, v, p, o, m)
  BY <1>3, <1>4, Zenon DEF Completing
<1>6. Signing(alone, w, p, m) => Signing(FALSE, v, p, m)
  BY <1>3, <1>4, Zenon DEF Signing
<1> QED
  BY <1>1, <1>2, <1>5, <1>6, Zenon DEF Knows

LEMMA Worlds ==
  /\ World.codes = codes /\ World.mailed = mailed /\ World.row = pending.id
  /\ World.tokens = tokens /\ World.made = Len(firms)
  /\ World.there <=> user # NoRow
  /\ World.in = (IF user = NoRow THEN {} ELSE user.companies)
  /\ World.main = (IF user = NoRow THEN 0 ELSE user.default)
BY DEF World

LEMMA WorldsNext ==
  /\ World'.codes = codes' /\ World'.mailed = mailed' /\ World'.row = pending'.id
  /\ World'.tokens = tokens' /\ World'.made = Len(firms')
  /\ World'.there <=> user' # NoRow
  /\ World'.in = (IF user' = NoRow THEN {} ELSE user'.companies)
  /\ World'.main = (IF user' = NoRow THEN 0 ELSE user'.default)
BY DEF World

LEMMA Numbers ==
  ASSUME Tables
  PROVE  World.codes \in Nat /\ World.made \in Nat /\ World.mailed \in Nat /\ World.row \in Nat
<1>1. codes \in Nat
  BY DEF Tables
<1>2. pending.id \in Nat
  BY DEF Tables, Pending, NoRow
<1> QED
  BY <1>1, <1>2, Worlds DEF Tables

-----------------------------------------------------------------------------
(* How a request keeps what is known *)

LEMMA Standing ==
  ASSUME KnownInv, NEW c \in Requests
  PROVE  /\ Knows(Clean, World, plan[c], req[c], mem[c]) /\ Tables
         /\ failed \in BOOLEAN /\ Clean \in BOOLEAN /\ (Clean => Whole(World))
BY Zenon DEF KnownInv, RequestsOK, Clean

LEMMA Arrives ==
  ASSUME KnownInv, NEW c \in Requests, NEW r, NEW m, NEW p, Arrive(c, r, m, p), p # <<>>,
         Tables', Grows(World, World'), Clean => Whole(World'),
         Knows(Clean /\ Quiet, World', p, r, m)
  PROVE  KnownInv'
<1> USE DEF KnownInv
<1>1. /\ Idle(c) /\ served < MaxServed /\ served' = served + 1
      /\ overlapped' = (overlapped \/ ~Quiet) /\ failed' = failed
      /\ plan' = [plan EXCEPT ![c] = p] /\ req' = [req EXCEPT ![c] = r] /\ mem' = [mem EXCEPT ![c] = m]
  BY DEF Arrive, Begin
<1>2. RequestsOK'
  <2>1. overlapped' \in BOOLEAN
    BY <1>1, Zenon
  <2>2. served' \in 0 .. MaxServed
    BY <1>1 DEF RequestsOK
  <2>3. DOMAIN plan' = Requests /\ DOMAIN req' = Requests /\ DOMAIN mem' = Requests
    BY <1>1 DEF RequestsOK
  <2> QED
    BY <1>1, <2>1, <2>2, <2>3 DEF RequestsOK
<1>3. /\ plan'[c] = p /\ req'[c] = r /\ mem'[c] = m
      /\ \A d \in Requests \ {c} : plan'[d] = plan[d] /\ req'[d] = req[d] /\ mem'[d] = mem[d]
  BY <1>1 DEF RequestsOK
<1>4. Clean' => Clean /\ Quiet
  BY <1>1, Zenon DEF Clean
<1>5. (~overlapped => Alone)'
  <2> SUFFICES ASSUME ~overlapped' PROVE Alone'
    OBVIOUS
  <2>1. Quiet
    BY <1>1
  <2>2. \A d \in Requests \ {c} : Idle(d)'
    BY <1>3, <2>1 DEF Quiet, Idle
  <2> QED
    BY <2>2 DEF Alone
<1>6. ~Quiet'
  BY <1>3 DEF Quiet, Idle
<1>7. /\ World.codes \in Nat /\ World.made \in Nat
      /\ World'.codes \in Nat /\ World'.made \in Nat
  <2>1. World.codes \in Nat /\ World.made \in Nat
    BY Numbers
  <2>2. World'.codes = codes' /\ World'.made = Len(firms')
    BY WorldsNext
  <2>3. codes' \in Nat /\ Len(firms') \in Nat
    BY DEF Tables
  <2> QED
    BY <2>1, <2>2, <2>3
<1>8. ASSUME NEW d \in Requests PROVE Knows(Clean', World', plan'[d], req'[d], mem'[d])
  <2>1. CASE ~Clean'
    <3>1. Knows(FALSE, World', plan[d], req[d], mem[d])
      BY <1>7, Weaken, Zenon
    <3>2. Grows(World', World')
      BY <1>7 DEF Grows
    <3>3. Knows(FALSE, World', p, r, m)
      BY <1>7, <3>2, Weaken, Zenon
    <3>4. Clean' = FALSE
      BY <2>1, Zenon DEF Clean
    <3> QED
      BY <1>3, <3>1, <3>3, <3>4, Zenon
  <2>2. CASE Clean' /\ d # c
    <3>1. plan'[d] = <<>>
      BY <1>3, <1>4, <2>2 DEF Quiet, Idle
    <3> QED
      BY <3>1, Zenon DEF Knows
  <2>3. CASE Clean' /\ d = c
    <3>1. Clean' = (Clean /\ Quiet)
      BY <1>4, <2>3, Zenon DEF Clean
    <3> QED
      BY <1>3, <2>3, <3>1, Zenon
  <2> QED
    BY <2>1, <2>2, <2>3, Zenon
<1>9. Clean' => Whole(World')
  BY <1>4, Zenon
<1> QED
  BY <1>2, <1>5, <1>6, <1>8, <1>9, Zenon

LEMMA GoesOn ==
  ASSUME KnownInv, NEW c \in Requests, ~Idle(c), NEW p, NEW m,
         Continue(c, p, m), failed' \in BOOLEAN, failed => failed',
         Tables', Grows(World, World'), Clean => Whole(World'),
         p # <<>> => Knows(Clean /\ ~failed', World', p, req[c], m),
         p = <<>> /\ Clean /\ ~failed' => Latest(World')
  PROVE  KnownInv'
<1> USE DEF KnownInv
<1>1. /\ plan' = [plan EXCEPT ![c] = p]
      /\ req' = IF p = <<>> THEN [req EXCEPT ![c] = NoRequest] ELSE req
      /\ mem' = [mem EXCEPT ![c] = IF p = <<>> THEN <<>> ELSE m]
      /\ served' = served /\ overlapped' = overlapped
  BY DEF Continue
<1>2. RequestsOK'
  <2>1. DOMAIN plan' = Requests /\ DOMAIN req' = Requests /\ DOMAIN mem' = Requests
    BY <1>1 DEF RequestsOK
  <2> QED
    BY <1>1, <2>1, Zenon DEF RequestsOK
<1>3. /\ plan'[c] = p /\ (p # <<>> => req'[c] = req[c] /\ mem'[c] = m)
      /\ \A d \in Requests \ {c} : plan'[d] = plan[d] /\ req'[d] = req[d] /\ mem'[d] = mem[d]
  BY <1>1 DEF RequestsOK
<1>4. Clean' = (Clean /\ ~failed')
  BY <1>1, Zenon DEF Clean
<1>5. (~overlapped => Alone)'
  BY <1>1, <1>3 DEF Alone, Idle
<1>6. (Clean /\ Quiet)' => Latest(World')
  <2> SUFFICES ASSUME Clean', Quiet' PROVE Latest(World')
    BY Zenon
  <2>1. p = <<>>
    BY <1>3 DEF Quiet, Idle
  <2> QED
    BY <1>4, <2>1, Zenon
<1>7. /\ World.codes \in Nat /\ World.made \in Nat
      /\ World'.codes \in Nat /\ World'.made \in Nat
  <2>1. World.codes \in Nat /\ World.made \in Nat
    BY Numbers
  <2>2. World'.codes = codes' /\ World'.made = Len(firms')
    BY WorldsNext
  <2>3. codes' \in Nat /\ Len(firms') \in Nat
    BY DEF Tables
  <2> QED
    BY <2>1, <2>2, <2>3
<1>8. ASSUME NEW d \in Requests PROVE Knows(Clean', World', plan'[d], req'[d], mem'[d])
  <2>1. CASE d = c
    <3>1. CASE p = <<>>
      BY <1>3, <2>1, <3>1, Zenon DEF Knows
    <3>2. CASE p # <<>>
      BY <1>3, <1>4, <2>1, <3>2, Zenon
    <3> QED
      BY <3>1, <3>2, Zenon
  <2>2. CASE d # c /\ ~Clean'
    <3>1. Knows(FALSE, World', plan[d], req[d], mem[d])
      BY <1>7, Weaken, Zenon
    <3>2. Clean' = FALSE
      BY <2>2, Zenon DEF Clean
    <3> QED
      BY <1>3, <2>2, <3>1, <3>2, Zenon
  <2>3. CASE d # c /\ Clean'
    <3>1. Idle(d)
      BY <1>4, <2>3 DEF Clean, Alone
    <3>2. plan'[d] = <<>>
      BY <1>3, <2>3, <3>1 DEF Idle
    <3> QED
      BY <3>2, Zenon DEF Knows
  <2> QED
    BY <2>1, <2>2, <2>3, Zenon
<1>9. Clean' => Whole(World')
  BY <1>4, Zenon
<1> QED
  BY <1>2, <1>5, <1>6, <1>8, <1>9, Zenon

\* The tables that are read here stay.
LEMMA StaySame ==
  ASSUME Tables, UNCHANGED <<pending, codes, mailed, tokens, tries, user, firms>>, passwords' \in Nat
  PROVE  World' = World /\ Tables' /\ Grows(World, World')
<1>1. World' = World
  BY DEF World
<1>2. Tables'
  BY <1>1 DEF Tables
<1>3. Grows(World, World')
  BY <1>1, Numbers DEF Grows
<1> QED
  BY <1>1, <1>2, <1>3

LEMMA GoesTo ==
  ASSUME KnownInv, NEW c \in Requests, NEW m, Proceed(c, m),
         NEW s, NEW t, After(plan[c], s, t), t # <<>>,
         Tables', Grows(World, World'), Clean => Whole(World'),
         Knows(Clean, World', t, req[c], m)
  PROVE  KnownInv'
<1>1. Continue(c, t, m) /\ failed' = failed /\ ~Idle(c)
  BY Zenon DEF Proceed, Rest, Idle, After
<1>2. (Clean /\ ~failed') = Clean /\ failed' \in BOOLEAN
  BY <1>1, Standing, Zenon DEF Clean
<1> QED
  BY <1>1, <1>2, GoesOn, Zenon

LEMMA GoesLast ==
  ASSUME KnownInv, NEW c \in Requests, NEW m, Proceed(c, m),
         NEW s, After(plan[c], s, <<>>),
         Tables', Grows(World, World'), Clean => Whole(World'), Clean => Latest(World')
  PROVE  KnownInv'
<1>1. Continue(c, <<>>, m) /\ failed' = failed /\ ~Idle(c)
  BY Zenon DEF Proceed, Rest, Idle, After
<1>2. (Clean /\ ~failed') = Clean /\ failed' \in BOOLEAN
  BY <1>1, Standing, Zenon DEF Clean
<1> QED
  BY <1>1, <1>2, GoesOn, Zenon

LEMMA Ends ==
  ASSUME KnownInv, NEW c \in Requests, ~Idle(c), End(c),
         Tables', Grows(World, World'), Clean => Whole(World'), Clean => Latest(World')
  PROVE  KnownInv'
<1>1. Continue(c, <<>>, <<>>) /\ failed' = failed
  BY Zenon DEF End
<1>2. (Clean /\ ~failed') = Clean /\ failed' \in BOOLEAN
  BY <1>1, Standing, Zenon DEF Clean
<1> QED
  BY <1>1, <1>2, GoesOn, Zenon

LEMMA Stops ==
  ASSUME KnownInv, NEW c \in Requests, ~Idle(c), Stop(c), Clean => Latest(World)
  PROVE  KnownInv'
<1>1. End(c) /\ UNCHANGED <<pending, codes, mailed, tokens, tries, user, firms, passwords>>
  BY DEF Stop, tables
<1>2. Tables /\ passwords' \in Nat /\ (Clean => Whole(World))
  BY <1>1, Standing DEF Tables
<1>3. World' = World /\ Tables' /\ Grows(World, World')
  BY <1>1, <1>2, StaySame
<1>4. (Clean => Whole(World')) /\ (Clean => Latest(World'))
  BY <1>2, <1>3
<1> QED
  BY <1>1, <1>3, <1>4, Ends, Zenon

LEMMA FailsOK ==
  ASSUME KnownInv, NEW c \in Requests, Fail(c)
  PROVE  KnownInv'
<1>1. Continue(c, <<>>, <<>>) /\ failed' = TRUE /\ ~Idle(c)
      /\ UNCHANGED <<pending, codes, mailed, tokens, tries, user, firms, passwords>>
  BY DEF Fail, Break, tables
<1>2. Tables /\ passwords' \in Nat /\ (Clean => Whole(World))
  BY <1>1, Standing DEF Tables
<1>3. World' = World /\ Tables' /\ Grows(World, World')
  BY <1>1, <1>2, StaySame
<1>4. Clean => Whole(World')
  BY <1>2, <1>3
<1> QED
  BY <1>1, <1>3, <1>4, GoesOn

\* A request is served with the tables as they are.
LEMMA GoesOnSame ==
  ASSUME KnownInv, NEW c \in Requests, NEW m, Proceed(c, m), UNCHANGED tables,
         NEW s, NEW t, After(plan[c], s, t), t # <<>>,
         Knows(Clean, World, t, req[c], m)
  PROVE  KnownInv'
<1>1. UNCHANGED <<pending, codes, mailed, tokens, tries, user, firms, passwords>>
  BY DEF tables
<1>2. Tables /\ passwords' \in Nat /\ (Clean => Whole(World))
  BY <1>1, Standing DEF Tables
<1>3. World' = World /\ Tables' /\ Grows(World, World')
  BY <1>1, <1>2, StaySame
<1>4. (Clean => Whole(World')) /\ Knows(Clean, World', t, req[c], m)
  BY <1>2, <1>3
<1> QED
  BY <1>3, <1>4, GoesTo, Zenon

LEMMA ArrivesSame ==
  ASSUME KnownInv, NEW c \in Requests, NEW r, NEW m, NEW p, Arrive(c, r, m, p), p # <<>>,
         UNCHANGED <<pending, codes, mailed, tokens, tries, user, firms>>, passwords' \in Nat,
         Knows(Clean /\ Quiet, World, p, r, m)
  PROVE  KnownInv'
<1>1. Tables /\ (Clean => Whole(World))
  BY Zenon DEF KnownInv
<1>2. World' = World /\ Tables' /\ Grows(World, World')
  BY <1>1, StaySame
<1>3. (Clean => Whole(World')) /\ Knows(Clean /\ Quiet, World', p, r, m)
  BY <1>1, <1>2
<1> QED
  BY <1>2, <1>3, Arrives, Zenon

-----------------------------------------------------------------------------
(* Registering *)

LEMMA StartsRegister ==
  ASSUME KnownInv, NEW c \in Requests, StartRegister(c)
  PROVE  KnownInv'
<1> DEFINE o == [op |-> "register", code |-> codes + 1]
<1>1. /\ codes + 1 \in Codes /\ codes' = codes + 1
      /\ UNCHANGED <<pending, mailed, tokens, tries, user, firms, passwords>>
  BY DEF StartRegister
<1>2. Arrive(c, o, <<>>, Register0)
  BY Zenon DEF StartRegister, Register, Register0
<1>3. o.code = codes'
  BY <1>1
<1> HIDE DEF o
<1>4. Tables /\ (Clean => Whole(World))
  BY Zenon DEF KnownInv
<1>5. codes \in Nat /\ pending.id \in Nat /\ mailed \in 0..codes /\ pending.id <= codes
  BY <1>4, Numbers, Worlds DEF Tables
<1>6. World'.in = World.in /\ World'.main = World.main /\ World'.made = World.made
      /\ World'.there = World.there /\ World'.tokens = tokens /\ World'.codes = codes'
  BY <1>1 DEF World
<1>7. Tables'
  <2>1. pending.id <= codes' /\ mailed \in 0..codes' /\ codes' \in Codes \cup {0}
    BY <1>1, <1>5
  <2>2. \A k \in Codes : k > codes' => tokens[k] = 0
    BY <1>1, <1>4, <1>5 DEF Tables
  <2> QED
    BY <1>1, <1>4, <1>6, <2>1, <2>2 DEF Tables
<1>8. Grows(World, World')
  BY <1>1, <1>4, <1>5, <1>6, Numbers, Worlds DEF Grows
<1>9. Clean => Whole(World')
  BY <1>4, <1>6 DEF Whole
<1>10. Storing(Clean /\ Quiet, World', Register0, o)
  <2>1. codes' \in Codes /\ codes' > codes /\ codes' \in 1..World'.codes
    BY <1>1, <1>5, <1>6
  <2>2. tokens[codes'] = 0
    BY <1>4, <2>1 DEF Tables
  <2>3. World'.there \/ Newest(World', o)
    BY <1>3, <1>6, <2>2 DEF Newest
  <2> QED
    BY <1>3, <2>1, <2>3, Zenon DEF Storing
<1>11. Register0 # <<>>
  BY RegisterPlans, Zenon DEF After
<1> QED
  BY <1>2, <1>7, <1>8, <1>9, <1>10, <1>11, Arrives, Zenon DEF Knows

LEMMA ChecksUser ==
  ASSUME KnownInv, NEW c \in Requests, CheckUser(c)
  PROVE  KnownInv'
<1>1. plan[c] # <<>> /\ Head(plan[c]) = "checkUser"
  BY DEF CheckUser, At
<1>2. Storing(Clean, World, plan[c], req[c])
  BY <1>1, Standing, Asked
<1>3. /\ plan[c] = Register0 /\ req[c].code \in 1..World.codes
      /\ Clean => World.there \/ Newest(World, req[c])
  BY <1>1, <1>2, RegisterPlans DEF Storing, After
<1>4. World.there <=> user # NoRow
  BY Worlds
<1>5. CASE user # NoRow
  <2>1. Stop(c)
    BY <1>5, Zenon DEF CheckUser
  <2>2. Latest(World)
    BY <1>4, <1>5 DEF Latest
  <2> QED
    BY <1>1, <2>1, <2>2, Stops DEF Idle
<1>6. CASE user = NoRow
  <2>1. Proceed(c, mem[c]) /\ UNCHANGED tables
    BY <1>6, Zenon DEF CheckUser, Done
  <2>2. Storing(Clean, World, Register1, req[c])
    BY <1>3, <1>4, <1>6, Zenon DEF Storing
  <2>3. After(plan[c], "checkUser", Register1) /\ Register1 # <<>>
    BY <1>3, RegisterPlans, Zenon DEF After
  <2> QED
    BY <2>1, <2>2, <2>3, GoesOnSame, Zenon DEF Knows
<1> QED
  BY <1>5, <1>6

LEMMA DropsPending ==
  ASSUME KnownInv, NEW c \in Requests, DropPending(c)
  PROVE  KnownInv'
<1>1. /\ plan[c] # <<>> /\ Head(plan[c]) = "dropPending" /\ Proceed(c, mem[c])
      /\ pending' = NoRow /\ UNCHANGED <<codes, mailed, tokens, tries, user, firms, passwords>>
  BY DEF DropPending, At, Done
<1>2. Storing(Clean, World, plan[c], req[c])
  BY <1>1, Standing, Asked
<1>3. /\ plan[c] = Register1 /\ req[c].code \in 1..World.codes
      /\ Clean => Newest(World, req[c])
  BY <1>1, <1>2, RegisterPlans DEF Storing, After
<1>4. Tables /\ (Clean => Whole(World))
  BY Standing
<1>5. World'.in = World.in /\ World'.main = World.main /\ World'.made = World.made
      /\ World'.there = World.there /\ World'.tokens = World.tokens /\ World'.codes = World.codes
      /\ World'.row = 0
  BY <1>1 DEF World, NoRow
<1>6. Tables'
  <2>1. pending'.id <= codes /\ pending' \in Pending \cup {NoRow}
    BY <1>1, <1>4, Numbers, Worlds DEF NoRow
  <2> QED
    BY <1>1, <1>4, <1>5, <2>1 DEF Tables
<1>7. Grows(World, World') /\ (Clean => Whole(World'))
  BY <1>4, <1>5, Numbers DEF Grows, Whole
<1>8. Storing(Clean, World', Register2, req[c])
  <2>1. Clean => Newest(World', req[c])
    BY <1>3, <1>5 DEF Newest
  <2> QED
    BY <1>3, <1>5, <2>1, Zenon DEF Storing
<1>9. After(plan[c], "dropPending", Register2) /\ Register2 # <<>>
  BY <1>3, RegisterPlans, Zenon DEF After
<1> QED
  BY <1>1, <1>6, <1>7, <1>8, <1>9, GoesTo, Zenon DEF Knows

LEMMA InsertsPending ==
  ASSUME KnownInv, NEW c \in Requests, InsertPending(c)
  PROVE  KnownInv'
<1>1. /\ plan[c] # <<>> /\ Head(plan[c]) = "insertPending"
  BY DEF InsertPending, At
<1>2. Storing(Clean, World, plan[c], req[c])
  BY <1>1, Standing, Asked
<1>3. /\ plan[c] = Register2 /\ req[c].code \in 1..World.codes
      /\ Clean => Newest(World, req[c]) /\ World.row = 0
  BY <1>1, <1>2, RegisterPlans DEF Storing, After
<1>4. Tables /\ (Clean => Whole(World))
  BY Standing
<1>5. CASE pending # NoRow
  <2>1. Stop(c)
    BY <1>5, Zenon DEF InsertPending
  <2>2. World.row # 0
    BY <1>4, <1>5, Worlds DEF Tables, Pending
  <2> QED
    BY <1>1, <1>3, <2>1, <2>2, Stops, Zenon DEF Idle
<1>6. CASE pending = NoRow
  <2>1. /\ Proceed(c, mem[c]) /\ pending' = [id |-> req[c].code, attempts |-> 0, live |-> TRUE]
        /\ UNCHANGED <<codes, mailed, tokens, tries, user, firms, passwords>>
    BY <1>6, Zenon DEF InsertPending, Done
  <2>2. World'.in = World.in /\ World'.main = World.main /\ World'.made = World.made
        /\ World'.there = World.there /\ World'.tokens = World.tokens /\ World'.codes = World.codes
        /\ World'.row = req[c].code
    BY <2>1 DEF World
  <2>3. req[c].code \in 1..codes /\ req[c].code \in Codes
    BY <1>3, <1>4, Worlds DEF Tables
  <2>4. Tables'
    <3>1. pending'.id <= codes /\ pending' \in Pending
      BY <2>1, <2>3 DEF Pending
    <3> QED
      BY <1>4, <2>1, <2>2, <3>1 DEF Tables
  <2>5. Grows(World, World') /\ (Clean => Whole(World'))
    BY <1>4, <2>2, Numbers DEF Grows, Whole
  <2>6. Storing(Clean, World', Register3, req[c])
    <3>1. Clean => Newest(World', req[c])
      BY <1>3, <2>2 DEF Newest
    <3> QED
      BY <1>3, <2>2, <3>1, Zenon DEF Storing
  <2>7. After(plan[c], "insertPending", Register3) /\ Register3 # <<>>
    BY <1>3, RegisterPlans, Zenon DEF After
  <2> QED
    BY <2>1, <2>4, <2>5, <2>6, <2>7, GoesTo, Zenon DEF Knows
<1> QED
  BY <1>5, <1>6

LEMMA MailsCode ==
  ASSUME KnownInv, NEW c \in Requests, MailCode(c)
  PROVE  KnownInv'
<1>1. /\ plan[c] # <<>> /\ Head(plan[c]) = "mailCode" /\ Proceed(c, mem[c])
      /\ mailed' = req[c].code /\ UNCHANGED <<pending, codes, tokens, tries, user, firms, passwords>>
  BY DEF MailCode, At, Done
<1>2. Storing(Clean, World, plan[c], req[c])
  BY <1>1, Standing, Asked
<1>3. /\ plan[c] = Register3 /\ req[c].code \in 1..World.codes
      /\ Clean => Newest(World, req[c]) /\ World.row = req[c].code
  BY <1>1, <1>2, RegisterPlans DEF Storing, After
<1>4. Tables /\ (Clean => Whole(World))
  BY Standing
<1>5. World'.in = World.in /\ World'.main = World.main /\ World'.made = World.made
      /\ World'.there = World.there /\ World'.tokens = World.tokens /\ World'.codes = World.codes
      /\ World'.row = World.row /\ World'.mailed = req[c].code
  BY <1>1 DEF World
<1>6. Tables'
  <2>1. req[c].code \in 0..codes
    BY <1>3, <1>4, Worlds DEF Tables
  <2> QED
    BY <1>1, <1>4, <1>5, <2>1 DEF Tables
<1>7. Grows(World, World') /\ (Clean => Whole(World'))
  BY <1>4, <1>5, Numbers DEF Grows, Whole
<1>8. Clean => Latest(World')
  BY <1>3, <1>5 DEF Latest, Newest
<1>9. After(plan[c], "mailCode", <<>>)
  BY <1>3, RegisterPlans, Zenon
<1> QED
  BY <1>1, <1>6, <1>7, <1>8, <1>9, GoesLast, Zenon

LEMMA MailsNothing ==
  ASSUME KnownInv, NEW c \in Requests, MailFails(c)
  PROVE  KnownInv'
<1>1. /\ plan[c] # <<>> /\ Head(plan[c]) = "mailCode" /\ Continue(c, Tail(plan[c]), mem[c])
      /\ failed' = TRUE /\ UNCHANGED <<pending, codes, mailed, tokens, tries, user, firms, passwords>>
  BY DEF MailFails, Shrug, At, tables
<1>2. Storing(Clean, World, plan[c], req[c])
  BY <1>1, Standing, Asked
<1>3. plan[c] = Register3
  BY <1>1, <1>2, RegisterPlans DEF Storing, After
<1>4. Continue(c, <<>>, mem[c]) /\ ~Idle(c)
  BY <1>1, <1>3, RegisterPlans, Zenon DEF After, Idle
<1>5. Tables /\ passwords' \in Nat /\ (Clean => Whole(World))
  BY <1>1, Standing DEF Tables
<1>6. World' = World /\ Tables' /\ Grows(World, World')
  BY <1>1, <1>5, StaySame
<1>7. Clean => Whole(World')
  BY <1>5, <1>6
<1> QED
  BY <1>1, <1>4, <1>6, <1>7, GoesOn

-----------------------------------------------------------------------------
(* Verifying *)

LEMMA StartsVerify ==
  ASSUME KnownInv, NEW c \in Requests, StartVerify(c)
  PROVE  KnownInv'
<1>1. PICK g \in {0, mailed} : Arrive(c, [op |-> "verify", guess |-> g], <<>>, Verify0)
  BY Zenon DEF StartVerify, Verify0
<1>2. UNCHANGED <<pending, codes, mailed, tokens, tries, user, firms>> /\ passwords' \in Nat
  BY DEF StartVerify, tables, KnownInv, Tables
<1>3. Clean /\ Quiet => Latest(World)
  BY Zenon DEF KnownInv
<1>4. Verifying(Clean /\ Quiet, World, Verify0, <<>>)
  BY <1>3, Zenon DEF Verifying
<1>5. Verify0 # <<>>
  BY VerifyPlans, Zenon DEF After
<1> QED
  BY <1>1, <1>2, <1>4, <1>5, ArrivesSame, Zenon DEF Knows

LEMMA FindsPending ==
  ASSUME KnownInv, NEW c \in Requests, FindPending(c)
  PROVE  KnownInv'
<1>1. plan[c] # <<>> /\ Head(plan[c]) = "findPending"
  BY DEF FindPending, At
<1>2. Verifying(Clean, World, plan[c], mem[c])
  BY <1>1, Standing, Asked
<1>3. plan[c] = Verify0 /\ (Clean => Latest(World))
  BY <1>1, <1>2, VerifyPlans DEF Verifying, After
<1>4. CASE pending = NoRow \/ ~pending.live
  <2>1. Stop(c)
    BY <1>4, Zenon DEF FindPending
  <2> QED
    BY <1>1, <1>3, <2>1, Stops, Zenon DEF Idle
<1>5. CASE ~(pending = NoRow \/ ~pending.live)
  <2>1. Proceed(c, pending) /\ UNCHANGED tables
    BY <1>5, Zenon DEF FindPending
  <2>2. pending.id \in Codes /\ pending.id <= World.codes /\ pending.id = World.row
    BY <1>5, Standing, Worlds DEF Tables, Pending
  <2>3. Verifying(Clean, World, Verify1, pending)
    BY <1>3, <2>2 DEF Verifying
  <2>4. After(plan[c], "findPending", Verify1) /\ Verify1 # <<>>
    BY <1>3, VerifyPlans, Zenon DEF After
  <2> QED
    BY <2>1, <2>3, <2>4, GoesOnSame, Zenon DEF Knows
<1> QED
  BY <1>4, <1>5

LEMMA TakesAttempt ==
  ASSUME KnownInv, NEW c \in Requests, TakeAttempt(c)
  PROVE  KnownInv'
<1>1. plan[c] # <<>> /\ Head(plan[c]) = "takeAttempt"
  BY DEF TakeAttempt, At
<1>2. Verifying(Clean, World, plan[c], mem[c])
  BY <1>1, Standing, Asked
<1>3. /\ plan[c] = Verify1 /\ (Clean => Latest(World)) /\ mem[c].id \in Codes /\ mem[c].id <= World.codes
      /\ Clean => mem[c].id = World.row
  BY <1>1, <1>2, VerifyPlans DEF Verifying, After
<1>4. CASE ~(pending # NoRow /\ BelowCap(pending, mem[c]))
  <2>1. Stop(c)
    BY <1>4, Zenon DEF TakeAttempt
  <2> QED
    BY <1>1, <1>3, <2>1, Stops, Zenon DEF Idle
<1>5. CASE pending # NoRow /\ BelowCap(pending, mem[c])
  <2>1. /\ pending' = [pending EXCEPT !.attempts = @ + 1]
        /\ tries' = [tries EXCEPT ![mem[c].id] = @ + 1]
        /\ UNCHANGED <<codes, mailed, tokens, user, firms, passwords>>
        /\ Proceed(c, mem[c]) \/ End(c)
    BY <1>5 DEF TakeAttempt, Done
  <2>2. Tables /\ (Clean => Whole(World))
    BY Standing
  <2>3. pending \in Pending /\ pending.attempts + 1 \in 0..MaxAttempts
    BY <1>5, <2>2 DEF Tables, BelowCap, Pending
  <2>4. pending' \in Pending /\ pending'.id = pending.id
    BY <2>1, <2>3 DEF Pending
  <2>5. tries' \in [Codes -> Nat]
    <3> DEFINE k == mem[c].id
    <3>1. k \in Codes /\ tries \in [Codes -> Nat] /\ tries' = [tries EXCEPT ![k] = @ + 1]
      BY <1>3, <2>1, <2>2 DEF Tables
    <3> HIDE DEF k
    <3>2. tries[k] + 1 \in Nat
      BY <3>1
    <3> QED
      BY <3>1, <3>2
  <2>6. World' = World
    BY <2>1, <2>4 DEF World
  <2>7. Tables'
    BY <2>1, <2>2, <2>4, <2>5, <2>6 DEF Tables
  <2>8. Grows(World, World') /\ (Clean => Whole(World')) /\ (Clean => Latest(World'))
    BY <1>3, <2>2, <2>6, Numbers DEF Grows
  <2>9. CASE Proceed(c, mem[c])
    <3>1. Verifying(Clean, World', Verify2, mem[c])
      BY <1>3, <2>6 DEF Verifying
    <3>2. After(plan[c], "takeAttempt", Verify2) /\ Verify2 # <<>>
      BY <1>3, VerifyPlans, Zenon DEF After
    <3> QED
      BY <2>7, <2>8, <2>9, <3>1, <3>2, GoesTo, Zenon DEF Knows
  <2>10. CASE End(c)
    BY <1>1, <2>7, <2>8, <2>10, Ends, Zenon DEF Idle
  <2> QED
    BY <2>1, <2>9, <2>10
<1> QED
  BY <1>4, <1>5

LEMMA DropsOwn ==
  ASSUME KnownInv, NEW c \in Requests, DropOwn(c)
  PROVE  KnownInv'
<1> DEFINE k == mem[c].id
<1>1. /\ plan[c] # <<>> /\ Head(plan[c]) = "dropOwn" /\ Proceed(c, mem[c])
      /\ pending' = IF pending.id = k THEN NoRow ELSE pending
      /\ tokens' = [tokens EXCEPT ![k] = @ + 1]
      /\ UNCHANGED <<codes, mailed, tries, user, firms, passwords>>
  BY DEF DropOwn, At, Done
<1>2. Verifying(Clean, World, plan[c], mem[c])
  BY <1>1, Standing, Asked
<1>3. /\ plan[c] = Verify2 /\ (Clean => Latest(World)) /\ k \in Codes /\ k <= codes
      /\ Clean => k = World.row
  BY <1>1, <1>2, VerifyPlans, Worlds DEF Verifying, After
<1> HIDE DEF k
<1>4. Tables /\ (Clean => Whole(World)) /\ codes \in Nat /\ World.codes = codes
  BY Standing, Numbers, Worlds
<1>5. /\ tokens' \in [Codes -> Nat] /\ tokens'[k] = tokens[k] + 1
      /\ \A j \in Codes : j # k => tokens'[j] = tokens[j]
  BY <1>1, <1>3, <1>4 DEF Tables
<1>6. World'.in = World.in /\ World'.main = World.main /\ World'.made = World.made
      /\ World'.there = World.there /\ World'.tokens = tokens' /\ World'.codes = codes
      /\ World'.mailed = World.mailed /\ World'.row = pending'.id
  BY <1>1 DEF World
<1>7. Tables'
  <2>1. pending' \in Pending \cup {NoRow} /\ pending'.id <= codes
    BY <1>1, <1>4 DEF Tables, NoRow
  <2>2. \A j \in Codes : j > codes => tokens'[j] = 0
    BY <1>3, <1>4, <1>5 DEF Tables
  <2> QED
    BY <1>1, <1>4, <1>5, <1>6, <2>1, <2>2 DEF Tables
<1>8. Grows(World, World') /\ (Clean => Whole(World'))
  BY <1>4, <1>6, Numbers DEF Grows, Whole
<1>9. Clean => Latest(World')
  <2> SUFFICES ASSUME Clean, ~World'.there, World'.codes # 0
               PROVE  /\ World'.mailed = World'.codes /\ World'.row \in {0, World'.codes}
                      /\ World'.tokens[World'.codes] = IF World'.row = World'.codes THEN 0 ELSE 1
    BY DEF Latest
  <2>1. World.mailed = codes /\ World.row \in {0, codes} /\ tokens[codes] = IF World.row = codes THEN 0 ELSE 1
    BY <1>3, <1>4, <1>6, Worlds DEF Latest
  <2>2. k = codes /\ pending.id = k /\ tokens[k] = 0
    BY <1>3, <2>1, Worlds
  <2>3. pending'.id = 0
    BY <1>1, <2>2 DEF NoRow
  <2> QED
    BY <1>5, <1>6, <2>1, <2>2, <2>3
<1>10. After(plan[c], "dropOwn", <<>>)
  BY <1>3, VerifyPlans, Zenon
<1> QED
  BY <1>1, <1>7, <1>8, <1>9, <1>10, GoesLast, Zenon

-----------------------------------------------------------------------------
(* Completing a registration *)

LEMMA StartsComplete ==
  ASSUME KnownInv, NEW c \in Requests, StartComplete(c)
  PROVE  KnownInv'
<1> DEFINE o == [op |-> "complete", password |-> passwords + 1]
<1>1. Arrive(c, o, <<>>, Complete0)
  BY Zenon DEF StartComplete, Complete0
<1>2. UNCHANGED <<pending, codes, mailed, tokens, tries, user, firms>> /\ passwords' \in Nat
  BY DEF StartComplete, KnownInv, Tables
<1>3. Clean /\ Quiet => Latest(World)
  BY Zenon DEF KnownInv
<1>4. o.password \in Nat
  BY DEF KnownInv, Tables
<1> HIDE DEF o
<1>5. Completing(Clean /\ Quiet, World, Complete0, o, <<>>)
  BY <1>3, <1>4, Zenon DEF Completing
<1>6. Complete0 # <<>>
  BY CompletePlans, Zenon DEF After
<1> QED
  BY <1>1, <1>2, <1>5, <1>6, ArrivesSame, Zenon DEF Knows

\* What a request reads of the user
LEMMA ReadsUser ==
  ASSUME Tables
  PROVE  Read(World, user) /\ Agrees(World, user)
<1>1. CASE user = NoRow
  BY <1>1, Worlds DEF Read, Agrees
<1>2. CASE user # NoRow
  <2>1. /\ user \in User /\ World.there /\ World.in = user.companies /\ World.main = user.default
        /\ World.made = Len(firms)
    BY <1>2, Worlds DEF Tables
  <2>2. World.in \subseteq 1..World.made /\ World.main \in 0..World.made
    BY <2>1 DEF Tables
  <2> QED
    BY <1>2, <2>1, <2>2 DEF Read, Agrees
<1> QED
  BY <1>1, <1>2

LEMMA LoadsUser ==
  ASSUME KnownInv, NEW c \in Requests, LoadUser(c)
  PROVE  KnownInv'
<1>1. plan[c] # <<>> /\ Head(plan[c]) = "loadUser" /\ Proceed(c, user) /\ UNCHANGED tables
  BY DEF LoadUser, At
<1>2. Completing(Clean, World, plan[c], req[c], mem[c])
  BY <1>1, Standing, Asked
<1>3. plan[c] = Complete0 /\ (Clean => Latest(World)) /\ req[c].password \in Nat
  BY <1>1, <1>2, CompletePlans, SetUpHeads DEF Completing, After, Parts
<1>4. Read(World, user) /\ Agrees(World, user)
  BY Standing, ReadsUser
<1>5. Completing(Clean, World, Complete1, req[c], user)
  BY <1>3, <1>4, Zenon DEF Completing
<1>6. After(plan[c], "loadUser", Complete1) /\ Complete1 # <<>>
  BY <1>3, CompletePlans, Zenon DEF After
<1> QED
  BY <1>1, <1>5, <1>6, GoesOnSame, Zenon DEF Knows

\* A user is stored: nothing else of the tables changes.
LEMMA StoresUser ==
  ASSUME Tables, UNCHANGED <<pending, codes, mailed, tokens, tries, firms>>, passwords' \in Nat,
         user' \in User, user'.companies \subseteq 1..Len(firms), user'.default \in 0..Len(firms)
  PROVE  Tables' /\ Grows(World, World') /\ Latest(World') /\ World'.there
         /\ World'.in = user'.companies /\ World'.main = user'.default /\ World'.made = World.made
<1>1. user' # NoRow
  BY DEF User, NoRow
<1>2. /\ World'.there /\ World'.in = user'.companies /\ World'.main = user'.default
      /\ World'.made = World.made /\ World'.codes = World.codes
  BY <1>1 DEF World
<1>3. Tables'
  BY <1>2 DEF Tables
<1>4. Grows(World, World') /\ Latest(World')
  BY <1>2, Numbers DEF Grows, Latest
<1> QED
  BY <1>2, <1>3, <1>4

LEMMA SavesUser ==
  ASSUME KnownInv, NEW c \in Requests, SaveUser(c)
  PROVE  KnownInv'
<1> DEFINE m == mem[c]
           o == req[c]
<1>1. plan[c] # <<>> /\ Head(plan[c]) = "saveUser"
  BY DEF SaveUser, At
<1>2. Completing(Clean, World, plan[c], o, m)
  BY <1>1, Standing, Asked
<1>3. /\ plan[c] = Complete1 /\ (Clean => Latest(World)) /\ o.password \in Nat
      /\ Read(World, m) /\ (Clean => Agrees(World, m))
  BY <1>1, <1>2, CompletePlans, SetUpHeads DEF Completing, After, Parts
<1>4. Tables /\ (Clean => Whole(World)) /\ World.made = Len(firms) /\ Len(firms) \in Nat
  BY Standing, Worlds, Numbers
<1>5. CASE m = NoRow /\ user # NoRow
  <2>1. Stop(c)
    BY <1>5, Zenon DEF SaveUser
  <2> QED
    BY <1>1, <1>3, <2>1, Stops, Zenon DEF Idle
<1>6. CASE ~(m = NoRow /\ user # NoRow)
  <2>1. /\ user' = IF m = NoRow THEN NewUser(o.password) ELSE m
        /\ Proceed(c, m)
        /\ UNCHANGED <<pending, codes, mailed, tokens, tries, firms, passwords>>
    BY <1>6, Zenon DEF SaveUser, Done, Kept
  <2>2. After(plan[c], "saveUser", Complete2) /\ Complete2 # <<>>
    BY <1>3, CompletePlans, Zenon DEF After
  <2> HIDE DEF m, o
  <2>3. /\ user' \in User /\ user'.companies \subseteq 1..Len(firms) /\ user'.default \in 0..Len(firms)
        /\ Clean => user'.companies = World.in /\ user'.default = World.main
    <3>1. CASE m = NoRow
      <4>1. user' = NewUser(o.password) /\ World.in = {} /\ World.main = 0
        BY <1>6, <2>1, <3>1, Worlds
      <4>2. user' \in User /\ user'.companies = {} /\ user'.default = 0
        BY <1>3, <4>1 DEF NewUser, User
      <4> QED
        BY <1>4, <4>1, <4>2
    <3>2. CASE m # NoRow
      <4>1. user' = m
        BY <2>1, <3>2
      <4> QED
        BY <1>3, <1>4, <3>2, <4>1 DEF Read, Agrees
    <3> QED
      BY <3>1, <3>2
  <2>4. passwords' \in Nat
    BY <1>4, <2>1 DEF Tables
  <2>5. Tables' /\ Grows(World, World') /\ Latest(World') /\ World'.there
         /\ World'.in = user'.companies /\ World'.main = user'.default /\ World'.made = World.made
    BY <1>4, <2>1, <2>3, <2>4, StoresUser
  <2>6. Clean => Whole(World')
    BY <1>4, <2>3, <2>5 DEF Whole
  <2>7. Completing(Clean, World', Complete2, o, m)
    BY <2>5 DEF Completing
  <2> QED
    BY <2>1, <2>2, <2>5, <2>6, <2>7, GoesTo, Zenon DEF Knows, o
<1> QED
  BY <1>5, <1>6

LEMMA ReadsFirms ==
  ASSUME KnownInv, NEW c \in Requests, ReadFirms(c)
  PROVE  KnownInv'
<1>1. /\ plan[c] # <<>> /\ Head(plan[c]) = "readFirms" /\ Proceed(c, [taken |-> Len(firms)])
      /\ UNCHANGED tables
  BY DEF ReadFirms, At
<1>2. Completing(Clean, World, plan[c], req[c], mem[c])
  BY <1>1, Standing, Asked
<1>3. plan[c] = Complete2 /\ (Clean => Latest(World)) /\ World.there
  BY <1>1, <1>2, CompletePlans, SetUpHeads DEF Completing, After, Parts
<1>4. Completing(Clean, World, Complete3, req[c], [taken |-> Len(firms)])
  BY <1>3 DEF Completing
<1>5. After(plan[c], "readFirms", Complete3) /\ Complete3 # <<>>
  BY <1>3, CompletePlans, Zenon DEF After
<1> QED
  BY <1>1, <1>4, <1>5, GoesOnSame, Zenon DEF Knows

\* A company is made with the user in it.
LEMMA CommitsFirm ==
  ASSUME KnownInv, NEW c \in Requests, CommitFirm(c)
  PROVE  KnownInv'
<1> DEFINE n == Len(firms)
<1>1. plan[c] # <<>> /\ Head(plan[c]) = "commitFirm"
  BY DEF CommitFirm, At
<1>2. Completing(Clean, World, plan[c], req[c], mem[c])
  BY <1>1, Standing, Asked
<1>3. plan[c] = Complete3 /\ (Clean => Latest(World)) /\ World.there
  BY <1>1, <1>2, CompletePlans, SetUpHeads DEF Completing, After, Parts
<1>4. /\ Tables /\ (Clean => Whole(World)) /\ World.made = n /\ n \in Nat
      /\ user \in User /\ World.in = user.companies /\ World.main = user.default
  BY <1>3, Standing, Worlds, Numbers DEF Tables
<1>5. CASE mem[c].taken # Len(firms)
  <2>1. Stop(c)
    BY <1>5, Zenon DEF CommitFirm
  <2> QED
    BY <1>1, <1>3, <2>1, Stops, Zenon DEF Idle
<1>6. CASE mem[c].taken = Len(firms)
  <2>1. /\ firms' = Append(firms, {})
        /\ user' = [user EXCEPT !.companies = @ \cup {n + 1}, !.default = n + 1]
        /\ Proceed(c, [firm |-> n + 1])
        /\ UNCHANGED <<pending, codes, mailed, tokens, tries, passwords>>
    BY <1>6, Zenon DEF CommitFirm
  <2>2. After(plan[c], "commitFirm", SetUp) /\ SetUp # <<>>
    BY <1>3, CompletePlans, SetUpPlans, Zenon DEF After
  <2>3. Len(firms') = n + 1 /\ firms' \in Seq(SUBSET Parts)
    BY <1>4, <2>1 DEF Tables
  <2> HIDE DEF n
  <2>4. /\ user' \in User /\ user'.companies = user.companies \cup {n + 1} /\ user'.default = n + 1
    <3>1. user.companies \cup {n + 1} \in SUBSET Nat /\ n + 1 \in Nat
      BY <1>4 DEF User
    <3>2. user' = [[user EXCEPT !.companies = @ \cup {n + 1}] EXCEPT !.default = n + 1]
      BY <1>4, <2>1 DEF User
    <3> QED
      BY <1>4, <3>1, <3>2 DEF User
  <2>5. user' # NoRow
    BY <2>4 DEF User, NoRow
  <2>6. /\ World'.there /\ World'.in = World.in \cup {n + 1} /\ World'.main = n + 1
        /\ World'.made = n + 1 /\ World'.codes = World.codes
    BY <1>4, <2>1, <2>3, <2>4, <2>5, Worlds, WorldsNext
  <2>7. World'.in \subseteq 1..Len(firms') /\ World'.main \in 0..Len(firms')
    <3>1. World.in \subseteq 1..n
      BY <1>4 DEF Tables, n
    <3> QED
      BY <1>4, <2>3, <2>6, <3>1
  <2>8. Tables'
    BY <1>4, <2>1, <2>3, <2>4, <2>7 DEF Tables
  <2>9. Grows(World, World') /\ Latest(World')
    BY <1>4, <2>6, Numbers DEF Grows, Latest
  <2>10. Clean => Whole(World')
    BY <1>4, <2>6 DEF Whole
  <2>11. Completing(Clean, World', SetUp, req[c], [firm |-> n + 1])
    BY <2>6, <2>9 DEF Completing, SetUps
  <2> QED
    BY <2>1, <2>2, <2>8, <2>9, <2>10, <2>11, GoesTo, Zenon DEF Knows
<1> QED
  BY <1>5, <1>6

\* Each part of the set-up is followed by the rest of it.
LEMMA SetUpTails == \A p \in SetUps : Tail(p) = <<>> \/ (Tail(p) \in SetUps /\ Tail(p) # <<>>)
BY SetUpPlans DEF SetUps, After

LEMMA SetsUp ==
  ASSUME KnownInv, NEW c \in Requests, SetUpFirm(c)
  PROVE  KnownInv'
<1> DEFINE i == mem[c].firm
<1>1. PICK s \in Parts : /\ plan[c] # <<>> /\ Head(plan[c]) = s
                         /\ firms' = [firms EXCEPT ![i] = @ \cup {s}]
                         /\ Proceed(c, mem[c])
                         /\ UNCHANGED <<pending, codes, mailed, tokens, tries, user, passwords>>
  BY DEF SetUpFirm, At, Done
<1>2. Completing(Clean, World, plan[c], req[c], mem[c])
  BY <1>1, Standing, Asked
<1>3. plan[c] \in SetUps /\ World.there
  BY <1>1, <1>2, CompletePlans DEF Completing, After, Parts
<1> HIDE DEF i
<1>4. Tables /\ (Clean => Whole(World))
  BY Standing
<1>5. firms' \in Seq(SUBSET Parts) /\ Len(firms') = Len(firms)
  <2> DEFINE n == Len(firms)
  <2>1. n \in Nat /\ firms \in [1..n -> SUBSET Parts]
    BY <1>4 DEF Tables
  <2> HIDE DEF n
  <2>2. firms' \in [1..n -> SUBSET Parts]
    BY <1>1, <2>1
  <2>3. firms' \in Seq(SUBSET Parts) /\ Len(firms') = n
    BY <2>1, <2>2
  <2> QED
    BY <2>3 DEF n
<1>6. World' = World
  BY <1>1, <1>5 DEF World
<1>7. Tables'
  BY <1>1, <1>4, <1>5, <1>6 DEF Tables
<1>8. Grows(World, World') /\ (Clean => Whole(World')) /\ Latest(World')
  BY <1>3, <1>4, <1>6, Numbers DEF Grows, Latest
<1>9. CASE Tail(plan[c]) = <<>>
  <2>1. After(plan[c], s, <<>>)
    BY <1>1, <1>9 DEF After
  <2> QED
    BY <1>1, <1>7, <1>8, <2>1, GoesLast, Zenon
<1>10. CASE Tail(plan[c]) # <<>>
  <2>1. After(plan[c], s, Tail(plan[c])) /\ Tail(plan[c]) \in SetUps
    BY <1>1, <1>3, <1>10, SetUpTails DEF After
  <2>2. Completing(Clean, World', Tail(plan[c]), req[c], mem[c])
    BY <1>3, <1>6, <1>8, <2>1 DEF Completing
  <2> QED
    BY <1>1, <1>7, <1>8, <1>10, <2>1, <2>2, GoesTo, Zenon DEF Knows
<1> QED
  BY <1>9, <1>10

-----------------------------------------------------------------------------
(* Signing in, and passwords *)

LEMMA StartsGoogle ==
  ASSUME KnownInv, NEW c \in Requests, StartGoogle(c)
  PROVE  KnownInv'
<1>1. \E r, p : Arrive(c, r, user, p) /\ p \in {Answer0, Picture0}
  <2>1. PICK a \in {"login", "register"} :
          Arrive(c, [op |-> "google", action |-> a], user,
                 IF user = NoRow /\ a = "login" THEN Answer0
                 ELSE IF user # NoRow /\ user.picture THEN Answer0 ELSE Picture0)
    BY Zenon DEF StartGoogle, Answer0, Picture0
  <2> QED
    BY <2>1
<1>2. PICK r, p : Arrive(c, r, user, p) /\ p \in {Answer0, Picture0}
  BY <1>1, Zenon
<1>3. UNCHANGED <<pending, codes, mailed, tokens, tries, user, firms>> /\ passwords' \in Nat
  BY DEF StartGoogle, tables, KnownInv, Tables
<1>4. (Clean /\ Quiet => Latest(World)) /\ Tables
  BY Zenon DEF KnownInv
<1>5. Read(World, user) /\ Agrees(World, user)
  BY <1>4, ReadsUser
<1>6. Signing(Clean /\ Quiet, World, p, user)
  BY <1>2, <1>4, <1>5, Zenon DEF Signing
<1>7. p # <<>>
  BY <1>2, SignPlans, Zenon DEF After
<1> QED
  BY <1>2, <1>3, <1>6, <1>7, ArrivesSame, Zenon DEF Knows

LEMMA Answers ==
  ASSUME KnownInv, NEW c \in Requests, Answer(c)
  PROVE  KnownInv'
<1>1. plan[c] # <<>> /\ Head(plan[c]) = "answer" /\ Stop(c)
  BY DEF Answer, At
<1>2. Clean => Latest(World)
  BY <1>1, Standing, Asked DEF Signing
<1> QED
  BY <1>1, <1>2, Stops, Zenon DEF Idle

LEMMA SavesPicture ==
  ASSUME KnownInv, NEW c \in Requests, SavePicture(c)
  PROVE  KnownInv'
<1> DEFINE m == mem[c]
<1>1. plan[c] # <<>> /\ Head(plan[c]) = "savePicture"
  BY DEF SavePicture, At
<1>2. Signing(Clean, World, plan[c], m)
  BY <1>1, Standing, Asked
<1>3. /\ plan[c] = Picture0 /\ (Clean => Latest(World))
      /\ Read(World, m) /\ (Clean => Agrees(World, m))
  BY <1>1, <1>2, SignPlans DEF Signing, After
<1>4. /\ Tables /\ (Clean => Whole(World)) /\ World.made = Len(firms) /\ Len(firms) \in Nat
      /\ World.in \subseteq 1..Len(firms)
  BY Standing, Worlds, Numbers DEF Tables
<1>5. CASE m = NoRow /\ user # NoRow
  <2>1. Stop(c)
    BY <1>5, Zenon DEF SavePicture
  <2> QED
    BY <1>1, <1>3, <2>1, Stops, Zenon DEF Idle
<1>6. CASE ~(m = NoRow /\ user # NoRow)
  <2>1. /\ user' = IF m = NoRow THEN [NewUser(passwords + 1) EXCEPT !.picture = TRUE]
                   ELSE [m EXCEPT !.picture = TRUE, !.companies = user.companies]
        /\ passwords' = IF m = NoRow THEN passwords + 1 ELSE passwords
        /\ Proceed(c, m)
        /\ UNCHANGED <<pending, codes, mailed, tokens, tries, firms>>
    BY <1>6 DEF SavePicture, Done
  <2>2. After(plan[c], "savePicture", <<>>)
    BY <1>3, SignPlans, Zenon
  <2> HIDE DEF m
  <2>3. passwords' \in Nat
    BY <1>4, <2>1 DEF Tables
  <2>4. /\ user' \in User /\ user'.companies \subseteq 1..Len(firms) /\ user'.default \in 0..Len(firms)
        /\ Clean => user'.companies = World.in /\ user'.default = World.main
    <3>1. CASE m = NoRow
      <4>1. World.in = {} /\ World.main = 0 /\ passwords + 1 \in Nat
        BY <1>4, <1>6, <3>1, Worlds DEF Tables
      <4>2. user' = [NewUser(passwords + 1) EXCEPT !.picture = TRUE]
        BY <2>1, <3>1
      <4>3. user' \in User /\ user'.companies = {} /\ user'.default = 0
        BY <4>1, <4>2 DEF NewUser, User
      <4> QED
        BY <1>4, <4>1, <4>3
    <3>2. CASE m # NoRow
      <4>1. /\ m \in User /\ World.there /\ m.default \in 0..Len(firms)
            /\ Clean => m.default = World.main
        BY <1>3, <1>4, <3>2 DEF Read, Agrees
      <4>2. World.in = user.companies /\ user.companies \in SUBSET Nat
        BY <1>4, <4>1, Worlds DEF Tables, User
      <4>3. user' = [[m EXCEPT !.picture = TRUE] EXCEPT !.companies = user.companies]
        BY <2>1, <3>2, <4>1 DEF User
      <4>4. user' \in User /\ user'.companies = user.companies /\ user'.default = m.default
        BY <4>1, <4>2, <4>3 DEF User
      <4> QED
        BY <1>4, <4>1, <4>2, <4>4
    <3> QED
      BY <3>1, <3>2
  <2>5. Tables' /\ Grows(World, World') /\ Latest(World')
         /\ World'.in = user'.companies /\ World'.main = user'.default /\ World'.made = World.made
    BY <1>4, <2>1, <2>3, <2>4, StoresUser
  <2>6. Clean => Whole(World')
    BY <1>4, <2>4, <2>5 DEF Whole
  <2> QED
    BY <2>1, <2>2, <2>5, <2>6, GoesLast, Zenon
<1> QED
  BY <1>5, <1>6

LEMMA ForgetsPassword ==
  ASSUME KnownInv, NEW c \in Requests, ForgotPassword(c)
  PROVE  KnownInv'
<1> DEFINE r == [op |-> "forgot"]
<1>1. user # NoRow /\ Arrive(c, r, <<>>, Forgot0)
  BY Zenon DEF ForgotPassword, Forgot0
<1>2. UNCHANGED <<pending, codes, mailed, tokens, tries, user, firms>> /\ passwords' \in Nat
  BY DEF ForgotPassword, tables, KnownInv, Tables
<1> HIDE DEF r
<1>3. Signing(Clean /\ Quiet, World, Forgot0, <<>>)
  BY <1>1, Worlds DEF Signing, Latest
<1>4. Forgot0 # <<>>
  BY SignPlans, Zenon DEF After
<1> QED
  BY <1>1, <1>2, <1>3, <1>4, ArrivesSame, Zenon DEF Knows

LEMMA StartsReset ==
  ASSUME KnownInv, NEW c \in Requests, StartReset(c)
  PROVE  KnownInv'
<1> DEFINE r == [op |-> "reset", link |-> user.reset]
<1>1. user # NoRow /\ Arrive(c, r, <<>>, Reset0)
  BY Zenon DEF StartReset, Reset0
<1>2. UNCHANGED <<pending, codes, mailed, tokens, tries, user, firms>> /\ passwords' \in Nat
  BY DEF StartReset, tables, KnownInv, Tables
<1> HIDE DEF r
<1>3. Signing(Clean /\ Quiet, World, Reset0, <<>>)
  BY <1>1, Worlds DEF Signing, Latest
<1>4. Reset0 # <<>>
  BY SignPlans, Zenon DEF After
<1> QED
  BY <1>1, <1>2, <1>3, <1>4, ArrivesSame, Zenon DEF Knows

\* A user who is there is changed, but not in the companies.
LEMMA ChangesUser ==
  ASSUME KnownInv, NEW c \in Requests, NEW m, Proceed(c, m), NEW s, After(plan[c], s, <<>>),
         user # NoRow, UNCHANGED <<pending, codes, mailed, tokens, tries, firms>>, passwords' \in Nat,
         user' \in User, user'.companies = user.companies, user'.default = user.default
  PROVE  KnownInv'
<1>1. /\ Tables /\ (Clean => Whole(World)) /\ Len(firms) \in Nat
      /\ World.in = user.companies /\ World.main = user.default
  BY Standing, Worlds, Numbers
<1>2. user'.companies \subseteq 1..Len(firms) /\ user'.default \in 0..Len(firms)
  BY <1>1 DEF Tables
<1>3. Tables' /\ Grows(World, World') /\ Latest(World')
      /\ World'.in = user'.companies /\ World'.main = user'.default /\ World'.made = World.made
  BY <1>1, <1>2, StoresUser
<1>4. Clean => Whole(World')
  BY <1>1, <1>3 DEF Whole
<1> QED
  BY <1>3, <1>4, GoesLast, Zenon

LEMMA SetsLink ==
  ASSUME KnownInv, NEW c \in Requests, SetLink(c)
  PROVE  KnownInv'
<1>1. /\ plan[c] # <<>> /\ Head(plan[c]) = "setLink" /\ Proceed(c, mem[c])
      /\ user' = [user EXCEPT !.reset = passwords + 1, !.live = TRUE] /\ passwords' = passwords + 1
      /\ UNCHANGED <<pending, codes, mailed, tokens, tries, firms>>
  BY DEF SetLink, At, Done
<1>2. plan[c] = Forgot0 /\ World.there
  BY <1>1, Standing, Asked, SignPlans DEF Signing, After
<1>3. user \in User /\ passwords + 1 \in Nat /\ user # NoRow
  BY <1>2, Standing, Worlds DEF Tables
<1>4. user' = [[user EXCEPT !.reset = passwords + 1] EXCEPT !.live = TRUE]
  BY <1>1, <1>3 DEF User
<1>5. user' \in User /\ user'.companies = user.companies /\ user'.default = user.default
  BY <1>3, <1>4 DEF User
<1>6. After(plan[c], "setLink", <<>>)
  BY <1>2, SignPlans, Zenon
<1> QED
  BY <1>1, <1>3, <1>5, <1>6, ChangesUser

LEMMA FindsLink ==
  ASSUME KnownInv, NEW c \in Requests, FindLink(c)
  PROVE  KnownInv'
<1>1. plan[c] # <<>> /\ Head(plan[c]) = "findLink"
  BY DEF FindLink, At
<1>2. plan[c] = Reset0 /\ World.there
  BY <1>1, Standing, Asked, SignPlans DEF Signing, After
<1>3. Latest(World)
  BY <1>2 DEF Latest
<1>4. Stop(c) \/ (Proceed(c, mem[c]) /\ UNCHANGED tables)
  BY Zenon DEF FindLink, Done
<1>5. CASE Stop(c)
  BY <1>1, <1>3, <1>5, Stops, Zenon DEF Idle
<1>6. CASE Proceed(c, mem[c]) /\ UNCHANGED tables
  <2>1. Signing(Clean, World, Reset1, mem[c])
    BY <1>2, <1>3 DEF Signing
  <2>2. After(plan[c], "findLink", Reset1) /\ Reset1 # <<>>
    BY <1>2, SignPlans, Zenon DEF After
  <2> QED
    BY <1>6, <2>1, <2>2, GoesOnSame, Zenon DEF Knows
<1> QED
  BY <1>4, <1>5, <1>6

LEMMA SetsPassword ==
  ASSUME KnownInv, NEW c \in Requests, SetPassword(c)
  PROVE  KnownInv'
<1>1. /\ plan[c] # <<>> /\ Head(plan[c]) = "setPassword" /\ Proceed(c, mem[c])
      /\ user' = [user EXCEPT !.password = passwords + 1, !.reset = 0, !.live = FALSE]
      /\ passwords' = passwords + 1
      /\ UNCHANGED <<pending, codes, mailed, tokens, tries, firms>>
  BY DEF SetPassword, At, Done, Reset
<1>2. plan[c] = Reset1 /\ World.there
  BY <1>1, Standing, Asked, SignPlans DEF Signing, After
<1>3. user \in User /\ passwords + 1 \in Nat /\ user # NoRow
  BY <1>2, Standing, Worlds DEF Tables
<1>4. user' = [[[user EXCEPT !.password = passwords + 1] EXCEPT !.reset = 0] EXCEPT !.live = FALSE]
  BY <1>1, <1>3 DEF User
<1>5. user' \in User /\ user'.companies = user.companies /\ user'.default = user.default
  BY <1>3, <1>4 DEF User
<1>6. After(plan[c], "setPassword", <<>>)
  BY <1>2, SignPlans, Zenon
<1> QED
  BY <1>1, <1>3, <1>5, <1>6, ChangesUser

-----------------------------------------------------------------------------
(* What is known is invariant *)

LEMMA TimeKnows ==
  ASSUME KnownInv, TimePasses
  PROVE  KnownInv'
<1>1. /\ \/ pending # NoRow /\ pending' = [pending EXCEPT !.live = FALSE] /\ user' = user
         \/ user # NoRow /\ user' = [user EXCEPT !.live = FALSE] /\ pending' = pending
      /\ UNCHANGED <<codes, mailed, tokens, tries, firms, passwords>>
      /\ UNCHANGED <<plan, req, mem, served, overlapped, failed>>
  BY DEF TimePasses, requestVars
<1>2. Tables
  BY Zenon DEF KnownInv
<1>3. pending' \in Pending \cup {NoRow} /\ pending'.id = pending.id
  BY <1>1, <1>2 DEF Tables, Pending
<1>4. user' \in User \cup {NoRow}
  BY <1>1, <1>2 DEF Tables, User
<1>5. World' = World
  <2>1. user' = user \/ (user \in User /\ user' = [user EXCEPT !.live = FALSE])
    BY <1>1, <1>2 DEF Tables
  <2>2. \/ user' = user
        \/ /\ user # NoRow /\ user' # NoRow
           /\ user'.companies = user.companies /\ user'.default = user.default
    BY <2>1 DEF User, NoRow
  <2> QED
    BY <1>1, <1>3, <2>2 DEF World
<1>6. Tables'
  BY <1>1, <1>2, <1>3, <1>4, <1>5 DEF Tables
<1>7. RequestsOK' /\ (~overlapped => Alone)'
  <2>1. UNCHANGED <<plan, req, mem, served, overlapped, failed>>
    BY <1>1
  <2> QED
    BY <2>1 DEF KnownInv, RequestsOK, Alone, Idle
<1>8. Clean' = Clean /\ Quiet' = Quiet
  BY <1>1 DEF Clean, Quiet, Idle
<1>9. \A c \in Requests : Knows(Clean, World, plan[c], req[c], mem[c])
  BY Zenon DEF KnownInv
<1>10. \A c \in Requests : Knows(Clean', World', plan'[c], req'[c], mem'[c])
  <2>1. plan' = plan /\ req' = req /\ mem' = mem
    BY <1>1
  <2> QED
    BY <1>5, <1>8, <1>9, <2>1
<1>11. (Clean' => Whole(World')) /\ (Clean' /\ Quiet' => Latest(World'))
  <2>1. (Clean => Whole(World)) /\ (Clean /\ Quiet => Latest(World))
    BY Zenon DEF KnownInv
  <2> QED
    BY <1>5, <1>8, <2>1
<1> QED
  BY <1>6, <1>7, <1>10, <1>11, Zenon DEF KnownInv

LEMMA InitKnown == Init => KnownInv
<1> SUFFICES ASSUME Init PROVE KnownInv
  OBVIOUS
<1>1. PICK stage \in {"new", "code", "token", "user"} :
       /\ codes = IF stage = "new" THEN 0 ELSE 1
       /\ mailed = codes
       /\ pending = IF stage = "code" THEN [id |-> 1, attempts |-> 0, live |-> TRUE] ELSE NoRow
       /\ tokens = [k \in Codes |-> IF k = 1 /\ stage \in {"token", "user"} THEN 1 ELSE 0]
       /\ tries = [k \in Codes |-> IF k = 1 /\ stage \in {"token", "user"} THEN 1 ELSE 0]
       /\ user = IF stage = "user"
                   THEN [NewUser(0) EXCEPT !.companies = {1}, !.default = 1] ELSE NoRow
       /\ firms = IF stage = "user" THEN <<Parts>> ELSE <<>>
  BY DEF Init
<1>2. passwords = 0 /\ InitRequests
  BY DEF Init
<1>3. pending \in Pending \cup {NoRow} /\ pending.id = (IF stage = "code" THEN 1 ELSE 0)
  BY <1>1 DEF Pending, NoRow
<1>4. /\ tokens \in [Codes -> Nat] /\ tries \in [Codes -> Nat] /\ \A k \in Codes : k > codes => tokens[k] = 0
      /\ 1 \in Codes /\ tokens[1] = IF stage \in {"token", "user"} THEN 1 ELSE 0
  BY <1>1
<1>5. /\ stage = "user" => /\ user \in User /\ user # NoRow
                           /\ user.companies = {1} /\ user.default = 1
      /\ stage # "user" => user = NoRow
  <2>1. CASE stage = "user"
    <3>1. user = [[NewUser(0) EXCEPT !.companies = {1}] EXCEPT !.default = 1]
      BY <1>1, <2>1 DEF NewUser
    <3>2. user = [password |-> 0, reset |-> 0, live |-> FALSE, picture |-> FALSE,
                  companies |-> {1}, default |-> 1]
      BY <3>1 DEF NewUser
    <3> QED
      BY <2>1, <3>2 DEF User, NoRow
  <2>2. CASE stage # "user"
    BY <1>1, <2>2
  <2> QED
    BY <2>1, <2>2
<1>6. firms \in Seq(SUBSET Parts) /\ Len(firms) = IF stage = "user" THEN 1 ELSE 0
  <2>1. CASE stage = "user"
    <3>1. firms = <<Parts>>
      BY <1>1, <2>1
    <3> QED
      BY <2>1, <3>1
  <2>2. CASE stage # "user"
    <3>1. firms = <<>>
      BY <1>1, <2>2
    <3> QED
      BY <2>2, <3>1
  <2> QED
    BY <2>1, <2>2
<1>7. /\ World.in = IF stage = "user" THEN {1} ELSE {}
      /\ World.main = Len(firms) /\ World.made = Len(firms) /\ (World.there <=> stage = "user")
      /\ World.codes = codes /\ World.mailed = codes /\ World.tokens = tokens /\ World.row = pending.id
  BY <1>1, <1>5, <1>6, Worlds
<1>8. Tables
  <2>1. codes \in Codes \cup {0} /\ mailed \in 0..codes /\ pending.id <= codes
    BY <1>1, <1>3
  <2>2. World.in \subseteq 1..Len(firms) /\ World.main \in 0..Len(firms)
    BY <1>6, <1>7
  <2>3. user \in User \cup {NoRow}
    BY <1>5
  <2> QED
    BY <1>2, <1>3, <1>4, <1>6, <2>1, <2>2, <2>3 DEF Tables
<1>9. RequestsOK /\ \A c \in Requests : plan[c] = <<>>
  <2>1. DOMAIN plan = Requests /\ DOMAIN req = Requests /\ DOMAIN mem = Requests
        /\ \A c \in Requests : plan[c] = <<>>
    BY <1>2 DEF InitRequests
  <2>2. served = 0 /\ overlapped = FALSE /\ failed = FALSE
    BY <1>2 DEF InitRequests
  <2>3. served \in 0..MaxServed
    BY <2>2
  <2>4. overlapped \in BOOLEAN /\ failed \in BOOLEAN
    BY <2>2, Zenon
  <2> QED
    BY <2>1, <2>3, <2>4, Zenon DEF RequestsOK
<1>10. Whole(World)
  <2>1. CASE stage = "user"
    <3>1. World.in = {1} /\ World.made = 1 /\ World.main = 1
      BY <1>6, <1>7, <2>1
    <3>2. 1..1 = {1}
      OBVIOUS
    <3> QED
      BY <3>1, <3>2 DEF Whole
  <2>2. CASE stage # "user"
    <3>1. World.in = {} /\ World.made = 0 /\ World.main = 0
      BY <1>6, <1>7, <2>2
    <3>2. 1..0 = {}
      OBVIOUS
    <3> QED
      BY <3>1, <3>2 DEF Whole
  <2> QED
    BY <2>1, <2>2
<1>11. Latest(World)
  BY <1>1, <1>3, <1>4, <1>7 DEF Latest
<1>12. Alone /\ \A c \in Requests : Knows(Clean, World, plan[c], req[c], mem[c])
  BY <1>9, Zenon DEF Alone, Idle, Knows
<1> QED
  BY <1>8, <1>9, <1>10, <1>11, <1>12, Zenon DEF KnownInv

LEMMA NextKnown == KnownInv /\ [Next]_vars => KnownInv'
<1> SUFFICES ASSUME KnownInv, [Next]_vars PROVE KnownInv'
  OBVIOUS
<1>1. CASE TimePasses
  BY <1>1, TimeKnows
<1>2. ASSUME NEW c \in Requests, Request(c) PROVE KnownInv'
  BY <1>2, StartsRegister, StartsVerify, StartsComplete, StartsGoogle, ForgetsPassword, StartsReset,
     Zenon DEF Request
<1>3. ASSUME NEW c \in Requests, Statement(c) PROVE KnownInv'
  BY <1>3, ChecksUser, DropsPending, InsertsPending, MailsCode, FindsPending, TakesAttempt, DropsOwn,
     LoadsUser, SavesUser, ReadsFirms, CommitsFirm, SetsUp, Answers, SavesPicture, SetsLink, FindsLink,
     SetsPassword, Zenon DEF Statement
<1>4. ASSUME NEW c \in Requests, Fail(c) PROVE KnownInv'
  BY <1>4, FailsOK
<1>5. ASSUME NEW c \in Requests, MailFails(c) PROVE KnownInv'
  BY <1>5, MailsNothing
<1>6. CASE UNCHANGED vars
  <2>1. UNCHANGED <<pending, codes, mailed, tokens, tries, user, firms, passwords,
                    plan, req, mem, served, overlapped, failed>>
    BY <1>6 DEF vars, tables, requestVars
  <2>2. World' = World /\ Clean' = Clean /\ Quiet' = Quiet /\ Alone' = Alone
    BY <2>1 DEF World, Clean, Quiet, Alone, Idle
  <2>3. Tables' /\ RequestsOK'
    BY <2>1, <2>2 DEF KnownInv, Tables, RequestsOK
  <2>4. plan' = plan /\ req' = req /\ mem' = mem /\ overlapped' = overlapped
    BY <2>1
  <2> QED
    BY <2>2, <2>3, <2>4 DEF KnownInv
<1> QED
  BY <1>1, <1>2, <1>3, <1>4, <1>5, <1>6, Zenon DEF Next

LEMMA KnownAlways == Spec => []KnownInv
BY InitKnown, NextKnown, PTL DEF Spec

\* The tables hold rows of their types, whatever statements interleave or fail;
\* a user belongs to companies that exist, and the default is one of them: no
\* stale save of a user (SaveUser, SavePicture) writes a company that is not there.
THEOREM RegistrationTypes == Spec => []TypeOK
<1>1. KnownInv => TypeOK
  <2> SUFFICES ASSUME KnownInv PROVE TypeOK
    OBVIOUS
  <2>1. Tables /\ RequestsOK
    BY Zenon DEF KnownInv
  <2>2. DOMAIN firms = 1..Len(firms) /\ Len(firms) \in Nat
    BY <2>1 DEF Tables
  <2>3. user # NoRow => user.companies \subseteq DOMAIN firms /\ user.default \in {0} \cup DOMAIN firms
    BY <2>1, <2>2, Worlds DEF Tables
  <2> QED
    BY <2>1, <2>3 DEF Tables, TypeOK
<1> QED
  BY <1>1, KnownAlways, PTL

\* While requests follow one another and nothing fails, the latest code is the
\* one that was mailed, and it can be exchanged for a token or has been, once:
\* register replaces the row before it mails, verifyOtp deletes the row before
\* it signs.
THEOREM LatestCodeAlwaysWorks == Spec => []LatestCodeWorks
<1>1. KnownInv => LatestCodeWorks
  <2> SUFFICES ASSUME KnownInv, Clean, Quiet, user = NoRow, codes # 0
               PROVE  mailed = codes /\ tokens[codes] = IF pending.id = codes THEN 0 ELSE 1
    BY DEF LatestCodeWorks
  <2>1. Latest(World)
    BY Zenon DEF KnownInv
  <2> QED
    BY <2>1, Worlds DEF Latest
<1> QED
  BY <1>1, KnownAlways, PTL

-----------------------------------------------------------------------------
(* Every company is set up *)

LEMMA TodoNext ==
  ASSUME NEW p \in Seq(Parts), p # <<>>
  PROVE  Todo(p) = {Head(p)} \cup Todo(Tail(p))
<1>1. Len(p) \in Nat /\ Len(p) >= 1 /\ Len(Tail(p)) = Len(p) - 1 /\ Head(p) = p[1]
      /\ \A i \in 1..Len(Tail(p)) : Tail(p)[i] = p[i + 1]
  OBVIOUS
<1>2. ASSUME NEW i \in 1..Len(p) PROVE p[i] \in {Head(p)} \cup Todo(Tail(p))
  <2>1. CASE i = 1
    BY <1>1, <2>1
  <2>2. CASE i # 1
    <3>1. i - 1 \in 1..Len(Tail(p)) /\ Tail(p)[i - 1] = p[i]
      BY <1>1, <2>2
    <3> QED
      BY <3>1 DEF Todo
  <2> QED
    BY <2>1, <2>2
<1>3. Head(p) \in Todo(p)
  BY <1>1 DEF Todo
<1>4. ASSUME NEW i \in 1..Len(Tail(p)) PROVE Tail(p)[i] \in Todo(p)
  <2>1. i + 1 \in 1..Len(p) /\ Tail(p)[i] = p[i + 1]
    BY <1>1
  <2> QED
    BY <2>1 DEF Todo
<1> QED
  BY <1>2, <1>3, <1>4 DEF Todo

LEMMA SetUpTodo ==
  /\ Todo(SetUp) = Parts /\ Todo(<<>>) = {}
  /\ \A p \in SetUps : Todo(p) = {Head(p)} \cup Todo(Tail(p))
<1>1. \A p \in SetUps : p \in Seq(Parts)
  <2>1. SetUp \in Seq(Parts)
    BY DEF SetUp, Parts
  <2>2. SetUp1 \in Seq(Parts) /\ SetUp2 \in Seq(Parts)
    BY DEF SetUp1, SetUp2, Parts
  <2>3. SetUp3 \in Seq(Parts) /\ SetUp4 \in Seq(Parts)
    BY DEF SetUp3, SetUp4, Parts
  <2> QED
    BY <2>1, <2>2, <2>3 DEF SetUps
<1>2. \A p \in SetUps : p # <<>>
  BY SetUpHeads
<1>3. Todo(<<>>) = {}
  BY DEF Todo
<1>4. \A p \in SetUps : Todo(p) = {Head(p)} \cup Todo(Tail(p))
  BY <1>1, <1>2, TodoNext
<1>5. /\ Todo(SetUp4) = {"resource"} \cup {}
      /\ Todo(SetUp3) = {"member"} \cup Todo(SetUp4)
      /\ Todo(SetUp2) = {"division"} \cup Todo(SetUp3)
      /\ Todo(SetUp1) = {"grant"} \cup Todo(SetUp2)
      /\ Todo(SetUp) = {"role"} \cup Todo(SetUp1)
  BY <1>3, <1>4, SetUpPlans DEF After, SetUps
<1>6. Todo(SetUp) = Parts
  BY <1>5 DEF Parts
<1> QED
  BY <1>3, <1>4, <1>6

\* A request that sets nothing up leaves the companies to those who do.
LEMMA BuiltKeeps ==
  ASSUME Built, failed => failed', firms' = firms,
         \A d \in Requests : plan[d] \in SetUps => plan'[d] = plan[d] /\ mem'[d] = mem[d]
  PROVE  Built'
<1> SUFFICES ASSUME ~failed', NEW i \in DOMAIN firms'
             PROVE  firms'[i] = Parts \/ \E d \in Requests : SettingUp(d, i)'
  BY Zenon DEF Built
<1>1. i \in DOMAIN firms /\ firms'[i] = firms[i] /\ ~failed
  OBVIOUS
<1>2. CASE firms[i] = Parts
  BY <1>1, <1>2
<1>3. CASE firms[i] # Parts
  <2>1. PICK d \in Requests : SettingUp(d, i)
    BY <1>1, <1>3 DEF Built
  <2>2. SettingUp(d, i)'
    BY <1>1, <2>1 DEF SettingUp
  <2> QED
    BY <2>2
<1> QED
  BY <1>2, <1>3

LEMMA ContinueBuilt ==
  ASSUME KnownInv, Built, NEW c \in Requests, plan[c] \notin SetUps, NEW p, NEW m, Continue(c, p, m),
         failed => failed', firms' = firms
  PROVE  Built'
<1>1. \A d \in Requests \ {c} : plan'[d] = plan[d] /\ mem'[d] = mem[d]
  BY DEF Continue, KnownInv, RequestsOK
<1> QED
  BY <1>1, BuiltKeeps

LEMMA ArriveBuilt ==
  ASSUME KnownInv, Built, NEW c \in Requests, NEW r, NEW m, NEW p, Arrive(c, r, m, p), firms' = firms
  PROVE  Built'
<1>1. plan[c] = <<>> /\ failed' = failed
      /\ \A d \in Requests \ {c} : plan'[d] = plan[d] /\ mem'[d] = mem[d]
  BY DEF Arrive, Begin, Idle, KnownInv, RequestsOK
<1>2. plan[c] \notin SetUps
  BY <1>1, SetUpHeads
<1> QED
  BY <1>1, <1>2, BuiltKeeps

LEMMA RequestBuilt ==
  ASSUME KnownInv, Built, NEW c \in Requests, Request(c)
  PROVE  Built'
<1>1. firms' = firms
  BY DEF Request, StartRegister, StartVerify, StartComplete, StartGoogle, ForgotPassword, StartReset, tables
<1>2. \E r, m, p : Arrive(c, r, m, p)
  BY Zenon DEF Request, StartRegister, StartVerify, StartComplete, StartGoogle, ForgotPassword, StartReset
<1> QED
  BY <1>1, <1>2, ArriveBuilt

LEMMA CommitBuilt ==
  ASSUME KnownInv, Built, NEW c \in Requests, CommitFirm(c)
  PROVE  Built'
<1> DEFINE n == Len(firms)
<1>1. plan[c] # <<>> /\ Head(plan[c]) = "commitFirm"
  BY DEF CommitFirm, At
<1>2. plan[c] \notin SetUps
  BY <1>1, SetUpHeads DEF Parts
<1>3. CASE mem[c].taken # Len(firms)
  <2>1. Continue(c, <<>>, <<>>) /\ failed' = failed /\ firms' = firms
    BY <1>3 DEF CommitFirm, Stop, End, tables
  <2> QED
    BY <1>2, <2>1, ContinueBuilt
<1>4. CASE mem[c].taken = Len(firms)
  <2>1. firms' = Append(firms, {}) /\ Proceed(c, [firm |-> n + 1])
    BY <1>4, Zenon DEF CommitFirm
  <2>2. Completing(Clean, World, plan[c], req[c], mem[c])
    BY <1>1, Standing, Asked
  <2>3. plan[c] = Complete3
    BY <1>1, <2>2, CompletePlans, SetUpHeads DEF Completing, After, Parts
  <2>4. Tail(plan[c]) = SetUp /\ SetUp # <<>>
    BY <2>3, CompletePlans, SetUpPlans, Zenon DEF After
  <2>5. /\ plan' = [plan EXCEPT ![c] = SetUp] /\ mem' = [mem EXCEPT ![c] = [firm |-> n + 1]]
        /\ failed' = failed
    BY <2>1, <2>4 DEF Proceed, Continue, Rest
  <2>6. firms \in Seq(SUBSET Parts) /\ n \in Nat
    BY Standing DEF Tables
  <2>7. /\ DOMAIN firms' = 1..n + 1 /\ DOMAIN firms = 1..n
        /\ firms'[n + 1] = {} /\ \A i \in 1..n : firms'[i] = firms[i]
    BY <2>1, <2>6
  <2> HIDE DEF n
  <2>8. /\ plan'[c] = SetUp /\ mem'[c].firm = n + 1
        /\ \A d \in Requests \ {c} : plan'[d] = plan[d] /\ mem'[d] = mem[d]
    BY <2>5 DEF KnownInv, RequestsOK
  <2> SUFFICES ASSUME ~failed', NEW i \in DOMAIN firms'
               PROVE  firms'[i] = Parts \/ \E d \in Requests : SettingUp(d, i)'
    BY Zenon DEF Built
  <2>9. CASE i = n + 1
    <3>1. SettingUp(c, i)'
      BY <2>7, <2>8, <2>9, SetUpTodo DEF SettingUp, SetUps
    <3> QED
      BY <3>1
  <2>10. CASE i # n + 1
    <3>1. i \in DOMAIN firms /\ firms'[i] = firms[i]
      BY <2>6, <2>7, <2>10
    <3>2. CASE firms[i] = Parts
      BY <3>1, <3>2
    <3>3. CASE firms[i] # Parts
      <4>1. PICK d \in Requests : SettingUp(d, i)
        BY <2>5, <3>1, <3>3 DEF Built
      <4>2. d # c
        BY <1>2, <4>1 DEF SettingUp
      <4>3. SettingUp(d, i)'
        BY <2>8, <3>1, <4>1, <4>2 DEF SettingUp
      <4> QED
        BY <4>3
    <3> QED
      BY <3>2, <3>3
  <2> QED
    BY <2>9, <2>10
<1> QED
  BY <1>3, <1>4

LEMMA SetUpBuilt ==
  ASSUME KnownInv, Built, NEW c \in Requests, SetUpFirm(c)
  PROVE  Built'
<1> DEFINE k == mem[c].firm
           t == Tail(plan[c])
<1>1. PICK s \in Parts : /\ plan[c] # <<>> /\ Head(plan[c]) = s
                         /\ firms' = [firms EXCEPT ![k] = @ \cup {s}]
                         /\ Proceed(c, mem[c])
  BY DEF SetUpFirm, At, Done
<1>2. Completing(Clean, World, plan[c], req[c], mem[c])
  BY <1>1, Standing, Asked
<1>3. plan[c] \in SetUps
  BY <1>1, <1>2, CompletePlans DEF Completing, After, Parts
<1>4. /\ plan' = [plan EXCEPT ![c] = t] /\ mem' = [mem EXCEPT ![c] = IF t = <<>> THEN <<>> ELSE mem[c]]
      /\ failed' = failed
  BY <1>1 DEF Proceed, Continue, Rest
<1>5. /\ plan'[c] = t /\ (t # <<>> => mem'[c].firm = k)
      /\ \A d \in Requests \ {c} : plan'[d] = plan[d] /\ mem'[d] = mem[d]
  BY <1>4 DEF KnownInv, RequestsOK
<1>6. Todo(plan[c]) = {s} \cup Todo(t) /\ (t = <<>> => Todo(t) = {}) /\ (t # <<>> => t \in SetUps)
  BY <1>1, <1>3, SetUpTodo, SetUpTails
<1>7. \A d \in Requests : \A i : SettingUp(d, i) <=>
        plan[d] \in SetUps /\ mem[d].firm = i /\ firms[i] \cup Todo(plan[d]) = Parts
  BY DEF SettingUp
<1>8. \A d \in Requests : \A i : SettingUp(d, i)' <=>
        plan'[d] \in SetUps /\ mem'[d].firm = i /\ firms'[i] \cup Todo(plan'[d]) = Parts
  BY DEF SettingUp
<1>9. firms \in Seq(SUBSET Parts)
  BY Standing DEF Tables
<1> HIDE DEF k, t
<1> SUFFICES ASSUME ~failed', NEW i \in DOMAIN firms'
             PROVE  firms'[i] = Parts \/ \E d \in Requests : SettingUp(d, i)'
  BY Zenon DEF Built
<1>10. i \in DOMAIN firms /\ firms'[i] = (IF i = k THEN firms[i] \cup {s} ELSE firms[i])
       /\ firms[i] \subseteq Parts
  <2>1. \E n \in Nat : firms \in [1..n -> SUBSET Parts]
    BY <1>9
  <2>2. DOMAIN firms' = DOMAIN firms
    BY <1>1
  <2>3. firms[i] \in SUBSET Parts
    BY <2>1, <2>2
  <2> QED
    BY <1>1, <2>2, <2>3
<1>11. CASE firms[i] = Parts
  BY <1>1, <1>10, <1>11
<1>12. CASE firms[i] # Parts
  <2>1. PICK d \in Requests : SettingUp(d, i)
    BY <1>4, <1>10, <1>12 DEF Built
  <2>2. CASE d # c
    <3>1. firms'[i] \cup Todo(plan[d]) = Parts
      BY <1>7, <1>10, <2>1
    <3>2. SettingUp(d, i)'
      BY <1>5, <1>7, <1>8, <2>1, <2>2, <3>1
    <3> QED
      BY <3>2
  <2>3. CASE d = c
    <3>1. i = k /\ firms[i] \cup ({s} \cup Todo(t)) = Parts
      BY <1>6, <1>7, <2>1, <2>3 DEF k
    <3>2. firms'[i] \cup Todo(t) = Parts
      BY <1>10, <3>1
    <3>3. CASE t = <<>>
      BY <1>6, <3>2, <3>3
    <3>4. CASE t # <<>>
      <4>1. SettingUp(c, i)'
        BY <1>5, <1>6, <1>8, <3>1, <3>2, <3>4
      <4> QED
        BY <4>1
    <3> QED
      BY <3>3, <3>4
  <2> QED
    BY <2>2, <2>3
<1> QED
  BY <1>11, <1>12

LEMMA StatementBuilt ==
  ASSUME KnownInv, Built, NEW c \in Requests, Statement(c)
  PROVE  Built'
<1>1. ASSUME NEW s, At(c, s), s \notin Parts, NEW p, NEW m, Continue(c, p, m), failed' = failed,
             firms' = firms
      PROVE  Built'
  <2>1. plan[c] \notin SetUps
    BY <1>1, SetUpHeads DEF At
  <2> QED
    BY <1>1, <2>1, ContinueBuilt
<1>2. ASSUME NEW s, At(c, s), s \notin Parts, firms' = firms, End(c) \/ \E m : Proceed(c, m)
      PROVE  Built'
  <2>1. \E p, m : Continue(c, p, m) /\ failed' = failed
    BY <1>2, Zenon DEF End, Proceed
  <2> QED
    BY <1>1, <1>2, <2>1, Zenon
<1>3. CASE CheckUser(c)
  BY <1>2, <1>3 DEF CheckUser, Stop, Done, Parts, tables
<1>4. CASE DropPending(c)
  BY <1>2, <1>4 DEF DropPending, Done, Parts
<1>5. CASE InsertPending(c)
  BY <1>2, <1>5 DEF InsertPending, Stop, Done, Parts, tables
<1>6. CASE MailCode(c)
  BY <1>2, <1>6 DEF MailCode, Done, Parts
<1>7. CASE FindPending(c)
  BY <1>2, <1>7 DEF FindPending, Stop, Parts, tables
<1>8. CASE TakeAttempt(c)
  BY <1>2, <1>8 DEF TakeAttempt, Stop, Done, Parts, tables
<1>9. CASE DropOwn(c)
  BY <1>2, <1>9 DEF DropOwn, Done, Parts
<1>10. CASE LoadUser(c)
  BY <1>2, <1>10 DEF LoadUser, Parts, tables
<1>11. CASE SaveUser(c)
  BY <1>2, <1>11 DEF SaveUser, Stop, Done, Parts, tables
<1>12. CASE ReadFirms(c)
  BY <1>2, <1>12 DEF ReadFirms, Parts, tables
<1>13. CASE Answer(c)
  BY <1>2, <1>13 DEF Answer, Stop, Parts, tables
<1>14. CASE SavePicture(c)
  BY <1>2, <1>14 DEF SavePicture, Stop, Done, Parts, tables
<1>15. CASE SetLink(c)
  BY <1>2, <1>15 DEF SetLink, Done, Parts
<1>16. CASE FindLink(c)
  BY <1>2, <1>16 DEF FindLink, Stop, Done, Parts, tables
<1>17. CASE SetPassword(c)
  BY <1>2, <1>17 DEF SetPassword, Done, Parts
<1>18. CASE CommitFirm(c)
  BY <1>18, CommitBuilt
<1>19. CASE SetUpFirm(c)
  BY <1>19, SetUpBuilt
<1> QED
  BY <1>3, <1>4, <1>5, <1>6, <1>7, <1>8, <1>9, <1>10, <1>11, <1>12, <1>13, <1>14, <1>15,
     <1>16, <1>17, <1>18, <1>19, Zenon DEF Statement

LEMMA InitBuilt == Init => Built
<1> SUFFICES ASSUME Init PROVE Built
  OBVIOUS
<1>1. firms = <<Parts>> \/ firms = <<>>
  BY DEF Init
<1>2. \A i \in DOMAIN firms : firms[i] = Parts
  BY <1>1
<1> QED
  BY <1>2 DEF Built

LEMMA NextBuilt == KnownInv /\ Built /\ [Next]_vars => Built'
<1> SUFFICES ASSUME KnownInv, Built, [Next]_vars PROVE Built'
  OBVIOUS
<1>1. CASE TimePasses \/ UNCHANGED vars
  <2>1. plan' = plan /\ mem' = mem /\ failed' = failed /\ firms' = firms
    BY <1>1 DEF TimePasses, vars, tables, requestVars
  <2> QED
    BY <2>1, BuiltKeeps
<1>2. ASSUME NEW c \in Requests, Request(c) PROVE Built'
  BY <1>2, RequestBuilt
<1>3. ASSUME NEW c \in Requests, Statement(c) PROVE Built'
  BY <1>3, StatementBuilt
<1>4. ASSUME NEW c \in Requests, Fail(c) \/ MailFails(c) PROVE Built'
  <2>1. failed' = TRUE
    BY <1>4, Zenon DEF Fail, MailFails, Break, Shrug
  <2> QED
    BY <2>1 DEF Built
<1> QED
  BY <1>1, <1>2, <1>3, <1>4, Zenon DEF Next

\* Every company that was made has its role, privileges, division, member and
\* resource once no request runs, also when registrations of one address overlap,
\* unless a statement failed; and the user of requests that follow one another
\* belongs to every company made, the latest one being the default.
THEOREM OnboardingComplete == Spec => []Onboarded
<1>1. Spec => [](KnownInv /\ Built)
  BY InitKnown, NextKnown, InitBuilt, NextBuilt, PTL DEF Spec
<1>2. KnownInv /\ Built => Onboarded
  <2> SUFFICES ASSUME KnownInv, Built PROVE Onboarded
    OBVIOUS
  <2>1. ASSUME ~failed, Quiet, NEW i \in DOMAIN firms PROVE firms[i] = Parts
    <3>1. \A c \in Requests : ~SettingUp(c, i)
      BY <2>1, SetUpHeads DEF SettingUp, Quiet, Idle
    <3> QED
      BY <2>1, <3>1 DEF Built
  <2>2. ASSUME Clean, Quiet, user # NoRow
        PROVE  user.companies = 1..Len(firms) /\ user.default = Len(firms)
    <3>1. Whole(World)
      BY <2>2, Zenon DEF KnownInv
    <3> QED
      BY <2>2, <3>1, Worlds DEF Whole
  <2> QED
    BY <2>1, <2>2 DEF Onboarded
<1> QED
  BY <1>1, <1>2, PTL
=============================================================================
