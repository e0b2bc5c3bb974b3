--------------------------- MODULE MembershipProofs ---------------------------
(***************************************************************************)
(* What holds of Membership for any companies, roles and privileges, any   *)
(* number of requests and any bound: the types; and, while requests follow *)
(* one another and nothing fails, that a user has a company and its roles  *)
(* there, but for what an update or a refused delete took elsewhere, and   *)
(* that both caches tell what the database does.                           *)
(* In the last part, what holds of PulseWeek for any users, periods and    *)
(* hours: the types; and, while nothing overlaps, that each user has one   *)
(* snapshot of a period, with the hours of its pulses if a sync summed it, *)
(* that what was submitted stays submitted, and that the cron covers       *)
(* everybody.                                                              *)
(***************************************************************************)
EXTENDS Membership, PulseWeek, SequenceTheorems, FiniteSetTheorems, WellFoundedInduction,
        TLAPS

USE MembershipAssumption, RequestAssumption

-----------------------------------------------------------------------------
(* The plans a request may be left with *)

Ref0 == Refresh
Ref1 == <<"readPrivileges", "putPrivileges">> \o RefreshCompanies
Ref2 == <<"putPrivileges">> \o RefreshCompanies
Ref3 == RefreshCompanies
Ref4 == <<"putCompanies">>

Create0 == <<"commitUser">> \o Refresh
Save0   == <<"saveUser">> \o Refresh
Roles0  == (<<"deleteRoles", "insertRoles", "reloadRoles">> \o <<"saveUser">>) \o Refresh
Roles1  == (<<"insertRoles", "reloadRoles">> \o <<"saveUser">>) \o Refresh
Roles2  == (<<"reloadRoles">> \o <<"saveUser">>) \o Refresh
Off0    == <<"toggle">> \o <<"dropPrivileges", "dropCompanies">>
Off1    == <<"dropPrivileges", "dropCompanies">>
Off2    == <<"dropCompanies">>
On0     == <<"toggle">> \o Refresh
Gone0   == <<"deleteRoles", "leaveCompany", "deleteUser">>
Gone1   == <<"leaveCompany", "deleteUser">>
Gone2   == <<"deleteUser">>
Default0 == <<"saveUser">>

Assign0 == <<"saveRole", "findAffected", "readPrivileges", "putIfAny">>
Assign1 == <<"findAffected", "readPrivileges", "putIfAny">>
Login0  == <<"getPrivileges", "readPrivileges", "putIfAny">>
Any0    == <<"readPrivileges", "putIfAny">>
Any1    == <<"putIfAny">>
Guard0  == <<"getCompanies", "readCompanies", "putIfMember">>
Member0 == <<"readCompanies", "putIfMember">>
Member1 == <<"putIfMember">>
Warm0   == <<"readPrivileges", "putIfAny", "readCompanies", "putIfMember">>
Warm1   == <<"putIfAny", "readCompanies", "putIfMember">>

-----------------------------------------------------------------------------
(* The invariant *)

\* The tables and the caches
World == [a |-> account, g |-> grants, p |-> granted, pc |-> privCache, cc |-> compCache,
          l |-> lent, s |-> stranded]

\* A user has a company and its default is one of them, unless a delete was
\* refused half-way; its roles are there, but for the lent ones.
HomeOK(a, g, l, s) ==
  /\ a = NoAccount => g = {}
  /\ a # NoAccount /\ ~s => a.companies # {} /\ a.default \in a.companies
  /\ \A r \in g \ l : HomeOf[r] \in CompaniesOf(a)
Home(w) == HomeOK(w.a, w.g, w.l, w.s)

Current(w) == View(w.g, w.p)
FreshPrivileges(w) == ~w.s /\ Current(w) # {} => w.pc \in {Absent, {}, Current(w)}
FreshCompanies(w) == ~w.s /\ w.a # NoAccount => w.cc \in {Absent, w.a.companies}
Fine(w) == Home(w) /\ FreshPrivileges(w) /\ FreshCompanies(w)

\* What a request was asked, and what it has in memory, whatever interleaves
IsMem(m) ==
  /\ DOMAIN m = {"account", "grants", "privileges", "companies"}
  /\ m.account \in Account \cup {NoAccount} /\ m.grants \subseteq Roles
KnownUser(m) == IsMem(m) /\ m.account \in Account
AskedRoles(o) == o.company \in Companies /\ o.roles \subseteq {r \in Roles : HomeOf[r] = o.company}
Pairs(m) == m.privileges \subseteq Companies \X Privileges
Firms(m) == m.companies \subseteq Companies

\* What a request that is alone knows of the world
Own(w, m) == w.a # NoAccount /\ m.account.id = w.a.id
Same(w, m) ==
  /\ Own(w, m)
  /\ m.account.companies = w.a.companies /\ m.account.default = w.a.default
NoRolesIn(w, k) == \A r \in w.g : HomeOf[r] # k

\* The account that is saved is good with the roles there will be.
Saves(w, o, m) ==
  /\ Own(w, m) /\ HomeOK(m.account, w.g, w.l, w.s)
  /\ o.op = "update" => m.grants = w.g

\* A request with the plan p, asked with o and with m in memory; alone says that
\* nothing has overlapped or failed.
Refreshing(alone, w, p, m) == IsMem(m) /\
  \/ p = Ref0 /\ (alone => Home(w) /\ Own(w, m))
  \/ p = Ref1 /\ (alone => Home(w) /\ Own(w, m))
  \/ p = Ref2 /\ Pairs(m) /\ (alone => Home(w) /\ Own(w, m) /\ m.privileges = Current(w))
  \/ p = Ref3 /\ (alone => Home(w) /\ Own(w, m) /\ FreshPrivileges(w))
  \/ p = Ref4 /\ Firms(m) /\
       (alone => Home(w) /\ Own(w, m) /\ FreshPrivileges(w) /\ m.companies = w.a.companies)

Creating(alone, w, p, o, m) == IsMem(m) /\ AskedRoles(o) /\
  p = Create0 /\ (alone => Fine(w) /\ m.account = w.a /\ m.grants = w.g)

Updating(alone, w, p, o, m) == KnownUser(m) /\ o.op = "update" /\ AskedRoles(o) /\
  \/ p = Roles0 /\ (alone => Home(w) /\ Same(w, m))
  \/ p = Roles1 /\ (alone => Home(w) /\ Same(w, m) /\ NoRolesIn(w, o.company))
  \/ p = Roles2 /\ (alone => Home(w) /\ Same(w, m))

Saving(alone, w, p, o, m) == KnownUser(m) /\ o.op \in {"update", "company", "default"} /\
  \/ p = Save0 /\ (alone => Saves(w, o, m))
  \/ p = Default0 /\ o.op = "default" /\
       (alone => Saves(w, o, m) /\ Fine(w) /\ m.account.companies = w.a.companies)

Toggling(alone, w, p, m) == KnownUser(m) /\
  \/ p \in {Off0, On0} /\ (alone => Fine(w) /\ Same(w, m))
  \/ p \in {Off1, Off2} /\ (alone => Fine(w))

Leaving(alone, w, p, o, m) == KnownUser(m) /\ o.company \in Companies /\
  \/ p = Gone0 /\ (alone => Home(w) /\ Same(w, m))
  \/ p = Gone1 /\ (alone => Home(w) /\ Own(w, m) /\ NoRolesIn(w, o.company))
  \/ p = Gone2 /\ (alone => Own(w, m) /\ \A r \in w.g \ w.l : HomeOf[r] \in w.a.companies)

Assigning(alone, w, p, o, m) == IsMem(m) /\
  \/ p = Assign0 /\ o.role \in Roles /\ m.privileges \subseteq Privileges /\ (alone => Fine(w))
  \/ p = Assign1 /\ o.role \in Roles /\
       (alone => Home(w) /\ FreshCompanies(w) /\ (o.role \notin w.g => FreshPrivileges(w)))

Filling(alone, w, p, m) == IsMem(m) /\
  \/ p \in {Login0, Any0, Guard0, Member0, Warm0} /\ (alone => Fine(w))
  \/ p \in {Any1, Warm1} /\ Pairs(m) /\ (alone => Fine(w) /\ (Own(w, m) => m.privileges = Current(w)))
  \/ p = Member1 /\ Firms(m) /\ (alone => Fine(w) /\ (Own(w, m) => m.companies = w.a.companies))

Knows(alone, w, p, o, m) ==
  \/ p = <<>>
  \/ Refreshing(alone, w, p, m)
  \/ Creating(alone, w, p, o, m)
  \/ Updating(alone, w, p, o, m)
  \/ Saving(alone, w, p, o, m)
  \/ Toggling(alone, w, p, m)
  \/ Leaving(alone, w, p, o, m)
  \/ Assigning(alone, w, p, o, m)
  \/ Filling(alone, w, p, m)

Tables(w) ==
  /\ w.a \in Account \cup {NoAccount}
  /\ w.g \subseteq Roles /\ w.p \in [Roles -> SUBSET Privileges]
  /\ w.pc \in (SUBSET (Companies \X Privileges)) \cup {Absent}
  /\ w.cc \in (SUBSET Companies) \cup {Absent}
  /\ w.l \subseteq Roles /\ w.s \in BOOLEAN

Alone == \A c, d \in Requests : ~Idle(c) /\ ~Idle(d) => c = d

MemberInv ==
  /\ Tables(World) /\ made \in Nat
  /\ plan \in [Requests -> Seq(Statements)]
  /\ RequestsOK
  /\ ~overlapped => Alone
  /\ Clean /\ Quiet => Fine(World)
  /\ \A c \in Requests : Knows(Clean, World, plan[c], req[c], mem[c])

-----------------------------------------------------------------------------
(* Plans *)

\* The first statement of two plans that are joined, and what is left after it
LEMMA Prefix ==
  ASSUME NEW S, NEW p \in Seq(S), NEW q \in Seq(S), p # <<>>
  PROVE  /\ p \o q \in Seq(S) /\ p \o q # <<>>
         /\ Head(p \o q) = Head(p) /\ Tail(p \o q) = Tail(p) \o q
<1>1. Len(p) \in Nat /\ Len(p) > 0 /\ Len(q) \in Nat
  OBVIOUS
<1>2. /\ p \o q \in Seq(S) /\ Len(p \o q) = Len(p) + Len(q)
      /\ \A i \in 1 .. Len(p) + Len(q) : (p \o q)[i] = IF i <= Len(p) THEN p[i] ELSE q[i - Len(p)]
  BY ConcatProperties, Zenon
<1>3. p \o q # <<>> /\ Head(p \o q) = Head(p)
  BY <1>1, <1>2
<1>4. Tail(p) \in Seq(S) /\ Len(Tail(p)) = Len(p) - 1
      /\ \A i \in 1 .. Len(p) - 1 : Tail(p)[i] = p[i + 1]
  BY <1>1
<1> DEFINE t == Tail(p)
<1> DEFINE r == p \o q
<1> HIDE DEF t, r
<1>5. t \in Seq(S) /\ Len(t) = Len(p) - 1 /\ \A i \in 1 .. Len(p) - 1 : t[i] = p[i + 1]
  BY <1>4 DEF t
<1>6. /\ t \o q \in Seq(S) /\ Len(t \o q) = Len(t) + Len(q)
      /\ \A i \in 1 .. Len(t) + Len(q) : (t \o q)[i] = IF i <= Len(t) THEN t[i] ELSE q[i - Len(t)]
  BY <1>5, ConcatProperties, Zenon
<1>7. /\ r \in Seq(S) /\ r # <<>> /\ Len(r) = Len(p) + Len(q)
      /\ \A i \in 1 .. Len(p) + Len(q) : r[i] = IF i <= Len(p) THEN p[i] ELSE q[i - Len(p)]
  BY <1>2, <1>3 DEF r
<1>8. Tail(r) \in Seq(S) /\ Len(Tail(r)) = Len(r) - 1 /\ \A i \in 1 .. Len(r) - 1 : Tail(r)[i] = r[i + 1]
  BY <1>7
<1>9. Len(Tail(r)) = Len(t \o q)
  BY <1>1, <1>5, <1>6, <1>7, <1>8
<1>10. ASSUME NEW i \in 1 .. Len(Tail(r)) PROVE Tail(r)[i] = (t \o q)[i]
  <2>1. i \in 1 .. Len(p) + Len(q) - 1 /\ i + 1 \in 1 .. Len(p) + Len(q)
    BY <1>1, <1>7, <1>8
  <2>2. Tail(r)[i] = IF i + 1 <= Len(p) THEN p[i + 1] ELSE q[i + 1 - Len(p)]
    BY <1>1, <1>7, <1>8, <2>1
  <2>3. (t \o q)[i] = IF i <= Len(p) - 1 THEN t[i] ELSE q[i - (Len(p) - 1)]
    BY <1>1, <1>5, <1>6, <2>1
  <2>4. i + 1 - Len(p) = i - (Len(p) - 1)
    BY <1>1, <2>1
  <2>5. i + 1 <= Len(p) <=> i <= Len(p) - 1
    BY <1>1, <2>1
  <2>6. i <= Len(p) - 1 => t[i] = p[i + 1]
    BY <1>1, <1>5, <2>1
  <2> QED
    BY <2>2, <2>3, <2>4, <2>5, <2>6
<1>11. Tail(r) = t \o q
  BY <1>6, <1>8, <1>9, <1>10, SeqEqual
<1> QED
  BY <1>2, <1>3, <1>11 DEF t, r

\* The same for a single statement
LEMMA First1 ==
  ASSUME NEW S, NEW s \in S, NEW q \in Seq(S)
  PROVE  /\ <<s>> \o q \in Seq(S) /\ <<s>> \o q # <<>>
         /\ Head(<<s>> \o q) = s /\ Tail(<<s>> \o q) = q
<1> DEFINE p == <<s>>
<1>1. p \in Seq(S) /\ p # <<>> /\ Head(p) = s /\ Tail(p) = <<>>
  OBVIOUS
<1> HIDE DEF p
<1>2. /\ p \o q \in Seq(S) /\ p \o q # <<>>
      /\ Head(p \o q) = Head(p) /\ Tail(p \o q) = Tail(p) \o q
  <2>1. p \in Seq(S) /\ p # <<>>
    BY <1>1
  <2> QED
    BY ONLY <2>1, q \in Seq(S), Prefix, ZenonT(60)
<1>3. <<>> \o q = q
  BY ConcatEmptySeq
<1> QED
  BY <1>1, <1>2, <1>3 DEF p

\* A plan of the statements of this module that begins with s and goes on as t
Begins(p, s, t) == p \in Seq(Statements) /\ p # <<>> /\ Head(p) = s /\ Tail(p) = t

\* ... and the same with another plan appended
LEMMA Appended ==
  ASSUME NEW p, NEW s, NEW t, NEW q \in Seq(Statements), Begins(p, s, t)
  PROVE  Begins(p \o q, s, t \o q)
<1>1. p \in Seq(Statements) /\ p # <<>> /\ Head(p) = s /\ Tail(p) = t
  BY DEF Begins
<1>2. /\ p \o q \in Seq(Statements) /\ p \o q # <<>>
      /\ Head(p \o q) = Head(p) /\ Tail(p \o q) = Tail(p) \o q
  BY <1>1, Prefix, ZenonT(60)
<1> QED
  BY <1>1, <1>2, Zenon DEF Begins

\* ... and a statement followed by a plan
LEMMA Followed ==
  ASSUME NEW s \in Statements, NEW q \in Seq(Statements)
  PROVE  Begins(<<s>> \o q, s, q)
<1>1. /\ <<s>> \o q \in Seq(Statements) /\ <<s>> \o q # <<>>
      /\ Head(<<s>> \o q) = s /\ Tail(<<s>> \o q) = q
  BY First1, Zenon
<1> QED
  BY <1>1, Zenon DEF Begins

LEMMA RefreshPlans ==
  /\ Begins(Ref0, "dropPrivileges", Ref1) /\ Begins(Ref1, "readPrivileges", Ref2)
  /\ Begins(Ref2, "putPrivileges", Ref3) /\ Begins(Ref3, "readCompanies", Ref4)
  /\ Begins(Ref4, "putCompanies", <<>>)
<1>1. {"dropPrivileges", "readPrivileges", "putPrivileges", "readCompanies", "putCompanies"} \subseteq Statements
  BY DEF Statements, CacheCalls
<1>2. Begins(Ref4, "putCompanies", <<>>)
  BY <1>1 DEF Begins, Ref4
<1>3. Begins(Ref3, "readCompanies", Ref4)
  BY <1>1 DEF Begins, Ref3, Ref4, RefreshCompanies
<1>4. RefreshCompanies \in Seq(Statements)
  BY <1>3 DEF Begins, Ref3
<1>5. "putPrivileges" \in Statements
  BY <1>1
<1>6. Begins(Ref2, "putPrivileges", Ref3)
  BY <1>4, <1>5, Followed, Zenon DEF Ref2, Ref3
<1>7. Begins(<<"readPrivileges", "putPrivileges">>, "readPrivileges", <<"putPrivileges">>)
  BY <1>1 DEF Begins
<1>8. Begins(RefreshPrivileges, "dropPrivileges", <<"readPrivileges", "putPrivileges">>)
  BY <1>1 DEF Begins, RefreshPrivileges
<1>9. Begins(Ref1, "readPrivileges", Ref2)
  BY <1>4, <1>7, Appended, Zenon DEF Ref1, Ref2
<1>10. Begins(Ref0, "dropPrivileges", Ref1)
  BY <1>4, <1>8, Appended, Zenon DEF Ref0, Refresh, Ref1
<1> QED
  BY <1>2, <1>3, <1>6, <1>9, <1>10

\* Plans that end with a refresh of the caches
LEMMA LongPlans ==
  /\ Begins(Create0, "commitUser", Ref0) /\ Begins(Save0, "saveUser", Ref0)
  /\ Begins(Roles0, "deleteRoles", Roles1) /\ Begins(Roles1, "insertRoles", Roles2)
  /\ Begins(Roles2, "reloadRoles", Save0) /\ Begins(On0, "toggle", Ref0)
<1>1. /\ "commitUser" \in Statements /\ "saveUser" \in Statements /\ "toggle" \in Statements
      /\ "deleteRoles" \in Statements /\ "insertRoles" \in Statements /\ "reloadRoles" \in Statements
  BY DEF Statements
<1>2. Refresh \in Seq(Statements)
  BY RefreshPlans DEF Begins, Ref0
<1>3. Begins(Create0, "commitUser", Ref0) /\ Begins(Save0, "saveUser", Ref0)
  BY <1>1, <1>2, Followed, Zenon DEF Ref0, Create0, Save0
<1>4. Begins(On0, "toggle", Ref0)
  BY <1>1, <1>2, Followed, Zenon DEF Ref0, On0
<1> DEFINE s == <<"saveUser">>
<1>8. s \in Seq(Statements)
  BY <1>1
<1> HIDE DEF s
<1>9. Begins(<<"reloadRoles">> \o s, "reloadRoles", s)
  BY <1>1, <1>8, Followed, Zenon
<1>10. Begins(<<"insertRoles", "reloadRoles">>, "insertRoles", <<"reloadRoles">>)
  BY <1>1 DEF Begins
<1>11. Begins(<<"deleteRoles", "insertRoles", "reloadRoles">>, "deleteRoles", <<"insertRoles", "reloadRoles">>)
  BY <1>1 DEF Begins
<1>12. Begins(<<"insertRoles", "reloadRoles">> \o s, "insertRoles", <<"reloadRoles">> \o s)
  BY <1>8, <1>10, Appended, Zenon
<1>13. Begins(<<"deleteRoles", "insertRoles", "reloadRoles">> \o s, "deleteRoles", <<"insertRoles", "reloadRoles">> \o s)
  BY <1>8, <1>11, Appended, Zenon
<1>14. Begins(Roles2, "reloadRoles", Save0)
  BY <1>2, <1>9, Appended, Zenon DEF Roles2, Save0, s
<1>15. Begins(Roles1, "insertRoles", Roles2)
  BY <1>2, <1>12, Appended, Zenon DEF Roles1, Roles2, s
<1>16. Begins(Roles0, "deleteRoles", Roles1)
  BY <1>2, <1>13, Appended, Zenon DEF Roles0, Roles1, s
<1> QED
  BY <1>3, <1>4, <1>14, <1>15, <1>16

\* The other plans
LEMMA ShortPlans ==
  /\ Begins(Off0, "toggle", Off1) /\ Begins(Off1, "dropPrivileges", Off2)
  /\ Begins(Off2, "dropCompanies", <<>>)
  /\ Begins(Gone0, "deleteRoles", Gone1) /\ Begins(Gone1, "leaveCompany", Gone2)
  /\ Begins(Gone2, "deleteUser", <<>>) /\ Begins(Default0, "saveUser", <<>>)
  /\ Begins(Assign0, "saveRole", Assign1) /\ Begins(Assign1, "findAffected", Any0)
  /\ Begins(Login0, "getPrivileges", Any0)
  /\ Begins(Any0, "readPrivileges", Any1) /\ Begins(Any1, "putIfAny", <<>>)
  /\ Begins(Guard0, "getCompanies", Member0) /\ Begins(Member0, "readCompanies", Member1)
  /\ Begins(Member1, "putIfMember", <<>>)
  /\ Begins(Warm0, "readPrivileges", Warm1) /\ Begins(Warm1, "putIfAny", Member0)
<1>1. {"toggle", "dropPrivileges", "dropCompanies", "deleteRoles", "leaveCompany", "deleteUser",
       "saveUser", "saveRole", "findAffected", "readPrivileges", "putIfAny", "getPrivileges",
       "getCompanies", "readCompanies", "putIfMember"} \subseteq Statements
  BY DEF Statements, CacheCalls
<1>2. Begins(Off2, "dropCompanies", <<>>) /\ Begins(Gone2, "deleteUser", <<>>)
      /\ Begins(Default0, "saveUser", <<>>) /\ Begins(Any1, "putIfAny", <<>>)
      /\ Begins(Member1, "putIfMember", <<>>)
  BY <1>1 DEF Begins, Off2, Gone2, Default0, Any1, Member1
<1>3. Begins(Off1, "dropPrivileges", Off2)
  BY <1>1 DEF Begins, Off1, Off2
<1>4. Begins(Any0, "readPrivileges", Any1)
  BY <1>1 DEF Begins, Any0, Any1
<1>5. Begins(Member0, "readCompanies", Member1)
  BY <1>1 DEF Begins, Member0, Member1
<1>6. Begins(Login0, "getPrivileges", Any0)
  BY <1>1 DEF Begins, Login0, Any0
<1>7. Begins(Guard0, "getCompanies", Member0)
  BY <1>1 DEF Begins, Guard0, Member0
<1>8. Begins(Assign1, "findAffected", Any0)
  BY <1>1 DEF Begins, Assign1, Any0
<1>9. Begins(Assign0, "saveRole", Assign1)
  BY <1>1 DEF Begins, Assign0, Assign1
<1>10. Begins(Warm1, "putIfAny", Member0)
  BY <1>1 DEF Begins, Warm1, Member0
<1>11. Begins(Warm0, "readPrivileges", Warm1)
  BY <1>1 DEF Begins, Warm0, Warm1
<1>12. Begins(Off0, "toggle", Off1)
  <2>1. "toggle" \in Statements
    BY <1>1
  <2>2. <<"dropPrivileges", "dropCompanies">> \in Seq(Statements)
    BY <1>1
  <2> QED
    BY <2>1, <2>2, Followed, Zenon DEF Off0, Off1
<1>13. Begins(Gone1, "leaveCompany", Gone2)
  BY <1>1 DEF Begins, Gone1, Gone2
<1>14. Begins(Gone0, "deleteRoles", Gone1)
  BY <1>1 DEF Begins, Gone0, Gone1
<1> QED
  BY <1>2, <1>3, <1>4, <1>5, <1>6, <1>7, <1>8, <1>9, <1>10, <1>11, <1>12, <1>13, <1>14, Zenon

-----------------------------------------------------------------------------
(* Accounts and views *)

LEMMA Nobody == NoAccount \notin Account
<1> SUFFICES ASSUME NoAccount \in Account PROVE FALSE
  OBVIOUS
<1>1. DOMAIN NoAccount = {"id"}
  BY DEF NoAccount
<1>2. "active" \in DOMAIN NoAccount
  BY DEF Account
<1> QED
  BY <1>1, <1>2

LEMMA ViewType ==
  ASSUME NEW G \in SUBSET Roles, NEW P \in [Roles -> SUBSET Privileges]
  PROVE  View(G, P) \subseteq Companies \X Privileges
<1>1. ASSUME NEW r \in G PROVE {HomeOf[r]} \X P[r] \subseteq Companies \X Privileges
  <2>1. HomeOf[r] \in Companies /\ P[r] \subseteq Privileges
    OBVIOUS
  <2> QED
    BY <2>1
<1> QED
  BY <1>1 DEF View

\* The view depends on the privileges of the roles that are held only.
LEMMA ViewSame ==
  ASSUME NEW G, NEW P, NEW Q, \A r \in G : P[r] = Q[r]
  PROVE  View(G, P) = View(G, Q)
<1>1. \A r \in G : {HomeOf[r]} \X P[r] = {HomeOf[r]} \X Q[r]
  OBVIOUS
<1>2. {{HomeOf[r]} \X P[r] : r \in G} = {{HomeOf[r]} \X Q[r] : r \in G}
  BY <1>1
<1> QED
  BY <1>2 DEF View

LEMMA ViewEmpty == ASSUME NEW P PROVE View({}, P) = {}
  BY DEF View

-----------------------------------------------------------------------------
(* What is known of a request says which statement it has next. *)

LEMMA Heads ==
  /\ Head(Ref0) = "dropPrivileges" /\ Head(Ref1) = "readPrivileges" /\ Head(Ref2) = "putPrivileges"
  /\ Head(Ref3) = "readCompanies" /\ Head(Ref4) = "putCompanies"
  /\ Head(Create0) = "commitUser" /\ Head(Save0) = "saveUser" /\ Head(Default0) = "saveUser"
  /\ Head(Roles0) = "deleteRoles" /\ Head(Roles1) = "insertRoles" /\ Head(Roles2) = "reloadRoles"
  /\ Head(Off0) = "toggle" /\ Head(Off1) = "dropPrivileges" /\ Head(Off2) = "dropCompanies"
  /\ Head(On0) = "toggle"
  /\ Head(Gone0) = "deleteRoles" /\ Head(Gone1) = "leaveCompany" /\ Head(Gone2) = "deleteUser"
  /\ Head(Assign0) = "saveRole" /\ Head(Assign1) = "findAffected"
  /\ Head(Login0) = "getPrivileges" /\ Head(Any0) = "readPrivileges" /\ Head(Any1) = "putIfAny"
  /\ Head(Guard0) = "getCompanies" /\ Head(Member0) = "readCompanies" /\ Head(Member1) = "putIfMember"
  /\ Head(Warm0) = "readPrivileges" /\ Head(Warm1) = "putIfAny"
<1>1. /\ Head(Ref0) = "dropPrivileges" /\ Head(Ref1) = "readPrivileges" /\ Head(Ref2) = "putPrivileges"
      /\ Head(Ref3) = "readCompanies" /\ Head(Ref4) = "putCompanies"
  BY RefreshPlans, Zenon DEF Begins
<1>2. /\ Head(Create0) = "commitUser" /\ Head(Save0) = "saveUser"
      /\ Head(Roles0) = "deleteRoles" /\ Head(Roles1) = "insertRoles" /\ Head(Roles2) = "reloadRoles"
      /\ Head(On0) = "toggle"
  BY LongPlans, Zenon DEF Begins
<1>3. /\ Head(Off0) = "toggle" /\ Head(Off1) = "dropPrivileges" /\ Head(Off2) = "dropCompanies"
      /\ Head(Gone0) = "deleteRoles" /\ Head(Gone1) = "leaveCompany" /\ Head(Gone2) = "deleteUser"
      /\ Head(Default0) = "saveUser"
      /\ Head(Assign0) = "saveRole" /\ Head(Assign1) = "findAffected"
  BY ShortPlans, Zenon DEF Begins
<1>4. /\ Head(Login0) = "getPrivileges" /\ Head(Any0) = "readPrivileges" /\ Head(Any1) = "putIfAny"
      /\ Head(Guard0) = "getCompanies" /\ Head(Member0) = "readCompanies" /\ Head(Member1) = "putIfMember"
      /\ Head(Warm0) = "readPrivileges" /\ Head(Warm1) = "putIfAny"
  BY ShortPlans, Zenon DEF Begins
<1> QED
  BY <1>1, <1>2, <1>3, <1>4, Zenon

LEMMA Asked ==
  ASSUME NEW alone, NEW w, NEW p, NEW o, NEW m, Knows(alone, w, p, o, m), p # <<>>
  PROVE  /\ Head(p) = "commitUser" => Creating(alone, w, p, o, m)
         /\ Head(p) \in {"insertRoles", "reloadRoles"} => Updating(alone, w, p, o, m)
         /\ Head(p) = "saveUser" => Saving(alone, w, p, o, m)
         /\ Head(p) = "deleteRoles" => Updating(alone, w, p, o, m) \/ Leaving(alone, w, p, o, m)
         /\ Head(p) \in {"toggle", "dropCompanies"} => Toggling(alone, w, p, m)
         /\ Head(p) \in {"leaveCompany", "deleteUser"} => Leaving(alone, w, p, o, m)
         /\ Head(p) \in {"saveRole", "findAffected"} => Assigning(alone, w, p, o, m)
         /\ Head(p) = "dropPrivileges" => Refreshing(alone, w, p, m) \/ Toggling(alone, w, p, m)
         /\ Head(p) \in {"readPrivileges", "readCompanies"} =>
              Refreshing(alone, w, p, m) \/ Filling(alone, w, p, m)
         /\ Head(p) \in {"putPrivileges", "putCompanies"} => Refreshing(alone, w, p, m)
         /\ Head(p) \in {"getPrivileges", "getCompanies", "putIfAny", "putIfMember"} =>
              Filling(alone, w, p, m)
<1>1. Refreshing(alone, w, p, m) => Head(p) \in
        {"dropPrivileges", "readPrivileges", "putPrivileges", "readCompanies", "putCompanies"}
  BY Heads DEF Refreshing
<1>2. Creating(alone, w, p, o, m) => Head(p) = "commitUser"
  BY Heads DEF Creating
<1>3. Updating(alone, w, p, o, m) => Head(p) \in {"deleteRoles", "insertRoles", "reloadRoles"}
  BY Heads DEF Updating
<1>4. Saving(alone, w, p, o, m) => Head(p) = "saveUser"
  BY Heads DEF Saving
<1>5. Toggling(alone, w, p, m) => Head(p) \in {"toggle", "dropPrivileges", "dropCompanies"}
  BY Heads DEF Toggling
<1>6. Leaving(alone, w, p, o, m) => Head(p) \in {"deleteRoles", "leaveCompany", "deleteUser"}
  BY Heads DEF Leaving
<1>7. Assigning(alone, w, p, o, m) => Head(p) \in {"saveRole", "findAffected"}
  BY Heads DEF Assigning
<1>8. Filling(alone, w, p, m) => Head(p) \in
        {"getPrivileges", "getCompanies", "readPrivileges", "readCompanies", "putIfAny", "putIfMember"}
  BY Heads DEF Filling
<1> DEFINE h == Head(p)
<1> HIDE DEF h
<1>9. \/ Refreshing(alone, w, p, m) \/ Creating(alone, w, p, o, m) \/ Updating(alone, w, p, o, m)
      \/ Saving(alone, w, p, o, m) \/ Toggling(alone, w, p, m) \/ Leaving(alone, w, p, o, m)
      \/ Assigning(alone, w, p, o, m) \/ Filling(alone, w, p, m)
  BY Zenon DEF Knows
<1>10. CASE h \in {"commitUser", "insertRoles", "reloadRoles", "saveUser", "deleteRoles"}
  BY <1>1, <1>2, <1>3, <1>4, <1>5, <1>6, <1>7, <1>8, <1>9, <1>10 DEF h
<1>11. CASE h \in {"toggle", "dropCompanies", "leaveCompany", "deleteUser",
                   "saveRole", "findAffected"}
  BY <1>1, <1>2, <1>3, <1>4, <1>5, <1>6, <1>7, <1>8, <1>9, <1>11 DEF h
<1>12. CASE h \notin {"commitUser", "insertRoles", "reloadRoles", "saveUser", "deleteRoles",
                      "toggle", "dropCompanies", "leaveCompany", "deleteUser",
                      "saveRole", "findAffected"}
  BY <1>1, <1>2, <1>3, <1>4, <1>5, <1>6, <1>7, <1>8, <1>9, <1>12 DEF h
<1> QED
  BY <1>10, <1>11, <1>12

\* What is known of a request that may not be alone does not depend on the world.
LEMMA Weaken ==
  ASSUME NEW alone, NEW w, NEW v, NEW p, NEW o, NEW m, Knows(alone, w, p, o, m)
  PROVE  Knows(FALSE, v, p, o, m)
<1>1. Refreshing(alone, w, p, m) => Refreshing(FALSE, v, p, m)
  BY DEF Refreshing
<1>2. Creating(alone, w, p, o, m) => Creating(FALSE, v, p, o, m)
  BY DEF Creating
<1>3. Updating(alone, w, p, o, m) => Updating(FALSE, v, p, o, m)
  BY DEF Updating
<1>4. Saving(alone, w, p, o, m) => Saving(FALSE, v, p, o, m)
  BY DEF Saving
<1>5. Toggling(alone, w, p, m) => Toggling(FALSE, v, p, m)
  BY DEF Toggling
<1>6. Leaving(alone, w, p, o, m) => Leaving(FALSE, v, p, o, m)
  BY DEF Leaving
<1>7. Assigning(alone, w, p, o, m) => Assigning(FALSE, v, p, o, m)
  BY DEF Assigning
<1>8. Filling(alone, w, p, m) => Filling(FALSE, v, p, m)
  BY DEF Filling
<1> QED
  BY <1>1, <1>2, <1>3, <1>4, <1>5, <1>6, <1>7, <1>8, Zenon DEF Knows

-----------------------------------------------------------------------------
(* How a request keeps the invariant *)

\* A request arrives: what its statements need is there when it is alone.
LEMMA Arrives ==
  ASSUME MemberInv, NEW c \in Requests, NEW r, NEW m, NEW p, Ask(c, r, m, p),
         p \in Seq(Statements), p # <<>>, Knows(Clean /\ Quiet, World, p, r, m)
  PROVE  MemberInv'
<1> USE DEF MemberInv
<1>1. /\ Idle(c) /\ served < MaxServed /\ served' = served + 1
      /\ overlapped' = (overlapped \/ ~Quiet) /\ failed' = failed
      /\ plan' = [plan EXCEPT ![c] = p] /\ req' = [req EXCEPT ![c] = r] /\ mem' = [mem EXCEPT ![c] = m]
      /\ UNCHANGED <<tableVars, cacheVars>>
  BY DEF Ask, Arrive, Begin
<1>2. World' = World /\ made' = made
  BY <1>1 DEF World, tableVars, ghostVars, cacheVars
<1>3. plan' \in [Requests -> Seq(Statements)]
  BY <1>1
<1>4. RequestsOK'
  <2>1. overlapped' \in BOOLEAN
    BY <1>1, Zenon
  <2>2. served' \in 0 .. MaxServed
    BY <1>1 DEF RequestsOK
  <2>3. DOMAIN plan' = Requests /\ DOMAIN req' = Requests /\ DOMAIN mem' = Requests
    BY <1>1 DEF RequestsOK
  <2> QED
    BY <1>1, <2>1, <2>2, <2>3 DEF RequestsOK
<1>5. /\ plan'[c] = p /\ req'[c] = r /\ mem'[c] = m
      /\ \A d \in Requests \ {c} : plan'[d] = plan[d] /\ req'[d] = req[d] /\ mem'[d] = mem[d]
  BY <1>1 DEF RequestsOK
<1>6. Clean' => Clean /\ Quiet
  BY <1>1, Zenon DEF Clean
<1>7. (~overlapped => Alone)'
  <2> SUFFICES ASSUME ~overlapped' PROVE Alone'
    OBVIOUS
  <2>1. Quiet
    BY <1>1
  <2>2. \A d \in Requests \ {c} : Idle(d)'
    BY <1>5, <2>1 DEF Quiet, Idle
  <2> QED
    BY <2>2 DEF Alone
<1>8. ~Quiet'
  BY <1>5 DEF Quiet, Idle
<1>9. ASSUME NEW d \in Requests PROVE Knows(Clean', World', plan'[d], req'[d], mem'[d])
  <2>1. CASE ~Clean'
    <3>1. Knows(FALSE, World', plan[d], req[d], mem[d])
      BY Weaken, Zenon
    <3>2. Knows(FALSE, World', p, r, m)
      BY Weaken, Zenon
    <3>3. Clean' = FALSE
      BY <2>1, Zenon DEF Clean
    <3> QED
      BY <1>5, <3>1, <3>2, <3>3, Zenon
  <2>2. CASE Clean' /\ d # c
    <3>1. plan'[d] = <<>>
      BY <1>5, <1>6, <2>2 DEF Quiet, Idle
    <3> QED
      BY <3>1, Zenon DEF Knows
  <2>3. CASE Clean' /\ d = c
    <3>1. Clean' = (Clean /\ Quiet)
      BY <1>6, <2>3, Zenon DEF Clean
    <3> QED
      BY <1>2, <1>5, <2>3, <3>1, Zenon
  <2> QED
    BY <2>1, <2>2, <2>3, Zenon
<1>10. Tables(World)' /\ made' \in Nat
  BY <1>2
<1> QED
  BY <1>3, <1>4, <1>7, <1>8, <1>9, <1>10, Zenon

\* A statement of a request
LEMMA GoesOn ==
  ASSUME MemberInv, NEW c \in Requests, ~Idle(c), NEW p \in Seq(Statements), NEW m,
         Continue(c, p, m), failed' \in BOOLEAN, failed => failed',
         Tables(World'), made' \in Nat,
         p # <<>> => Knows(Clean /\ ~failed', World', p, req[c], m),
         p = <<>> /\ Clean /\ ~failed' => Fine(World')
  PROVE  MemberInv'
<1> USE DEF MemberInv
<1>1. /\ plan' = [plan EXCEPT ![c] = p]
      /\ req' = IF p = <<>> THEN [req EXCEPT ![c] = NoRequest] ELSE req
      /\ mem' = [mem EXCEPT ![c] = IF p = <<>> THEN <<>> ELSE m]
      /\ served' = served /\ overlapped' = overlapped
  BY DEF Continue
<1>2. plan' \in [Requests -> Seq(Statements)]
  BY <1>1
<1>3. RequestsOK'
  <2>1. DOMAIN plan' = Requests /\ DOMAIN req' = Requests /\ DOMAIN mem' = Requests
    BY <1>1 DEF RequestsOK
  <2> QED
    BY <1>1, <2>1, Zenon DEF RequestsOK
<1>4. /\ plan'[c] = p /\ (p # <<>> => req'[c] = req[c] /\ mem'[c] = m)
      /\ \A d \in Requests \ {c} : plan'[d] = plan[d] /\ req'[d] = req[d] /\ mem'[d] = mem[d]
  BY <1>1 DEF RequestsOK
<1>5. Clean' = (Clean /\ ~failed')
  BY <1>1, Zenon DEF Clean
<1>6. (~overlapped => Alone)'
  BY <1>1, <1>4 DEF Alone, Idle
<1>7. (Clean /\ Quiet)' => Fine(World')
  <2> SUFFICES ASSUME Clean', Quiet' PROVE Fine(World')
    BY Zenon
  <2>1. p = <<>>
    BY <1>4 DEF Quiet, Idle
  <2> QED
    BY <1>5, <2>1, Zenon
<1>8. ASSUME NEW d \in Requests PROVE Knows(Clean', World', plan'[d], req'[d], mem'[d])
  <2>1. CASE d = c
    <3>1. CASE p = <<>>
      BY <1>4, <2>1, <3>1, Zenon DEF Knows
    <3>2. CASE p # <<>>
      BY <1>4, <1>5, <2>1, <3>2, Zenon
    <3> QED
      BY <3>1, <3>2, Zenon
  <2>2. CASE d # c /\ ~Clean'
    <3>1. Knows(FALSE, World', plan[d], req[d], mem[d])
      BY Weaken, Zenon
    <3>2. Clean' = FALSE
      BY <2>2, Zenon DEF Clean
    <3> QED
      BY <1>4, <2>2, <3>1, <3>2, Zenon
  <2>3. CASE d # c /\ Clean'
    <3>1. Idle(d)
      BY <1>5, <2>3 DEF Clean, Alone
    <3>2. plan'[d] = <<>>
      BY <1>4, <2>3, <3>1 DEF Idle
    <3> QED
      BY <3>2, Zenon DEF Knows
  <2> QED
    BY <2>1, <2>2, <2>3, Zenon
<1>9. Tables(World)' /\ (Fine(World))' = Fine(World')
  OBVIOUS
<1> QED
  BY <1>2, <1>3, <1>6, <1>7, <1>8, <1>9, Zenon

LEMMA Worlds ==
  /\ World.a = account /\ World.g = grants /\ World.p = granted
  /\ World.pc = privCache /\ World.cc = compCache
  /\ World.l = lent /\ World.s = stranded
  /\ World'.a = account' /\ World'.g = grants' /\ World'.p = granted'
  /\ World'.pc = privCache' /\ World'.cc = compCache'
  /\ World'.l = lent' /\ World'.s = stranded'
BY DEF World

LEMMA Standing ==
  ASSUME MemberInv, NEW c \in Requests
  PROVE  /\ Knows(Clean, World, plan[c], req[c], mem[c]) /\ Tables(World) /\ made \in Nat
         /\ failed \in BOOLEAN /\ Clean \in BOOLEAN
BY Zenon DEF MemberInv, RequestsOK, Clean

\* A statement that is not the last one of its request, the last one, and the
\* end of a request before its last one
LEMMA Rests ==
  ASSUME NEW S, NEW q \in Seq(S), q # <<>>
  PROVE  Tail(q) \in Seq(S)
OBVIOUS

LEMMA GoesTo ==
  ASSUME MemberInv, NEW c \in Requests, NEW m, Proceed(c, m),
         NEW s, NEW t, Begins(plan[c], s, t), t # <<>>,
         Tables(World'), made' \in Nat, Knows(Clean, World', t, req[c], m)
  PROVE  MemberInv'
<1>0. plan[c] \in Seq(Statements) /\ plan[c] # <<>> /\ Tail(plan[c]) = t
  BY Zenon DEF Begins
<1>1. plan[c] # <<>> /\ Tail(plan[c]) = t /\ t \in Seq(Statements)
  BY <1>0, Rests, Zenon
<1>2. Continue(c, t, m) /\ failed' = failed /\ ~Idle(c)
  BY <1>1, Zenon DEF Proceed, Rest, Idle
<1>3. (Clean /\ ~failed') = Clean /\ failed' \in BOOLEAN
  BY <1>2, Standing, Zenon DEF Clean
<1> QED
  BY <1>1, <1>2, <1>3, GoesOn, Zenon

LEMMA GoesLast ==
  ASSUME MemberInv, NEW c \in Requests, NEW m, Proceed(c, m),
         NEW s, Begins(plan[c], s, <<>>),
         Tables(World'), made' \in Nat, Clean => Fine(World')
  PROVE  MemberInv'
<1> <<>> \in Seq(Statements)
  OBVIOUS
<1>1. plan[c] # <<>> /\ Tail(plan[c]) = <<>>
  BY Zenon DEF Begins
<1>2. Continue(c, <<>>, m) /\ failed' = failed /\ ~Idle(c)
  BY <1>1, Zenon DEF Proceed, Rest, Idle
<1>3. (Clean /\ ~failed') = Clean /\ failed' \in BOOLEAN
  BY <1>2, Standing, Zenon DEF Clean
<1> QED
  BY <1>1, <1>2, <1>3, GoesOn, Zenon

LEMMA Stops ==
  ASSUME MemberInv, NEW c \in Requests, ~Idle(c), Stop(c), Clean => Fine(World)
  PROVE  MemberInv'
<1>1. Continue(c, <<>>, <<>>) /\ failed' = failed /\ UNCHANGED <<tableVars, cacheVars>>
  BY DEF Stop, End
<1>2. World' = World /\ made' = made
  BY <1>1 DEF World, tableVars, ghostVars, cacheVars
<1>3. Tables(World') /\ made' \in Nat /\ <<>> \in Seq(Statements)
  BY <1>2, Standing
<1>4. failed' \in BOOLEAN
  BY <1>1, Standing
<1> QED
  BY <1>1, <1>2, <1>3, <1>4, GoesOn, Zenon

\* A failure: what is left may be anything, but what is known stays.
LEMMA Fails ==
  ASSUME MemberInv, NEW c \in Requests, Fail(c)
  PROVE  MemberInv'
<1>1. Continue(c, <<>>, <<>>) /\ failed' = TRUE /\ ~Idle(c) /\ UNCHANGED <<tableVars, cacheVars>>
  BY DEF Fail, Break
<1>2. World' = World /\ made' = made
  BY <1>1 DEF World, tableVars, ghostVars, cacheVars
<1>3. Tables(World') /\ made' \in Nat /\ <<>> \in Seq(Statements)
  BY <1>2, Standing
<1> QED
  BY <1>1, <1>3, GoesOn

-----------------------------------------------------------------------------
(* Reading for the caches, and filling them *)

LEMMA ReadsPrivileges ==
  ASSUME MemberInv, NEW c \in Requests, ReadPrivileges(c)
  PROVE  MemberInv'
<1> DEFINE p == plan[c]
<1> DEFINE o == req[c]
<1> DEFINE m == mem[c]
<1> DEFINE x == [m EXCEPT !.privileges = IF Mine(c) THEN View(grants, granted) ELSE {}]
<1>1. p # <<>> /\ Head(p) = "readPrivileges" /\ Proceed(c, x) /\ World' = World /\ made' = made
  BY DEF ReadPrivileges, At, World, tableVars, ghostVars, cacheVars
<1>2. /\ Knows(Clean, World, p, o, m) /\ Tables(World') /\ made' \in Nat
  BY <1>1, Standing
<1>3. Mine(c) <=> Own(World, m)
  BY Worlds DEF Mine, Own
<1>4. View(grants, granted) = Current(World) /\ View(grants, granted) \subseteq Companies \X Privileges
  BY <1>1, <1>2, ViewType, Worlds DEF Current, Tables
<1> HIDE DEF p, o, m
<1>5. IsMem(m) => IsMem(x) /\ x.account = m.account /\ Pairs(x)
                  /\ (Own(World, m) => x.privileges = Current(World))
  BY <1>3, <1>4 DEF IsMem, Pairs
<1>6. IsMem(m) => (Own(World, x) <=> Own(World, m))
  BY <1>5 DEF Own
<1> HIDE DEF x
<1>7. Refreshing(Clean, World, p, m) \/ Filling(Clean, World, p, m)
  BY <1>1, <1>2, Asked
<1>8. CASE Refreshing(Clean, World, p, m)
  <2>1. p = Ref1 /\ IsMem(m) /\ (Clean => Home(World) /\ Own(World, m))
    BY <1>1, <1>8, Heads DEF Refreshing
  <2>2. Refreshing(Clean, World', Ref2, x)
    <3>1. IsMem(x) /\ Pairs(x)
          /\ (Clean => Home(World) /\ Own(World, x) /\ x.privileges = Current(World))
      BY <1>5, <1>6, <2>1, Zenon
    <3>2. Refreshing(Clean, World, Ref2, x)
      BY <3>1, Zenon DEF Refreshing
    <3> QED
      BY <1>1, <3>2, Zenon
  <2>3. Begins(p, "readPrivileges", Ref2) /\ Ref2 # <<>>
    BY <2>1, RefreshPlans, Zenon DEF Begins
  <2> QED
    BY <1>1, <1>2, <2>2, <2>3, GoesTo, Zenon DEF Knows, p
<1>9. CASE Filling(Clean, World, p, m)
  <2>1. p \in {Any0, Warm0} /\ IsMem(m) /\ (Clean => Fine(World))
    BY <1>1, <1>9, Heads DEF Filling
  <2>2. Filling(Clean, World', Any1, x) /\ Filling(Clean, World', Warm1, x)
    BY <1>1, <1>5, <1>6, <2>1 DEF Filling
  <2>3. CASE p = Any0
    <3>1. Begins(p, "readPrivileges", Any1) /\ Any1 # <<>>
      BY <2>3, ShortPlans, Zenon DEF Begins
    <3> QED
      BY <1>1, <1>2, <2>2, <3>1, GoesTo, Zenon DEF Knows, p
  <2>4. CASE p = Warm0
    <3>1. Begins(p, "readPrivileges", Warm1) /\ Warm1 # <<>>
      BY <2>4, ShortPlans, Zenon DEF Begins
    <3> QED
      BY <1>1, <1>2, <2>2, <3>1, GoesTo, Zenon DEF Knows, p
  <2> QED
    BY <2>1, <2>3, <2>4
<1> QED
  BY <1>7, <1>8, <1>9

LEMMA ReadsCompanies ==
  ASSUME MemberInv, NEW c \in Requests, ReadCompanies(c)
  PROVE  MemberInv'
<1> DEFINE p == plan[c]
<1> DEFINE o == req[c]
<1> DEFINE m == mem[c]
<1> DEFINE x == [m EXCEPT !.companies = IF Mine(c) THEN account.companies ELSE {}]
<1>1. p # <<>> /\ Head(p) = "readCompanies" /\ Proceed(c, x) /\ World' = World /\ made' = made
  BY DEF ReadCompanies, At, World, tableVars, ghostVars, cacheVars
<1>2. /\ Knows(Clean, World, p, o, m) /\ Tables(World') /\ made' \in Nat
  BY <1>1, Standing
<1>3. Mine(c) <=> Own(World, m)
  BY Worlds DEF Mine, Own
<1>4. Own(World, m) => account.companies = World.a.companies /\ account.companies \subseteq Companies
  BY <1>1, <1>2, Worlds DEF Own, Tables, Account
<1> HIDE DEF p, o, m
<1>5. IsMem(m) => IsMem(x) /\ x.account = m.account /\ Firms(x)
                  /\ (Own(World, m) => x.companies = World.a.companies)
  BY <1>3, <1>4 DEF IsMem, Firms
<1>6. IsMem(m) => (Own(World, x) <=> Own(World, m))
  BY <1>5 DEF Own
<1> HIDE DEF x
<1>7. Refreshing(Clean, World, p, m) \/ Filling(Clean, World, p, m)
  BY <1>1, <1>2, Asked
<1>8. CASE Refreshing(Clean, World, p, m)
  <2>1. p = Ref3 /\ IsMem(m) /\ (Clean => Home(World) /\ Own(World, m) /\ FreshPrivileges(World))
    BY <1>1, <1>8, Heads DEF Refreshing
  <2>2. Refreshing(Clean, World', Ref4, x)
    <3>1. IsMem(x) /\ Firms(x)
          /\ (Clean => Home(World) /\ Own(World, x) /\ FreshPrivileges(World)
                       /\ x.companies = World.a.companies)
      BY <1>5, <1>6, <2>1, Zenon
    <3>2. Refreshing(Clean, World, Ref4, x)
      BY <3>1, Zenon DEF Refreshing
    <3> QED
      BY <1>1, <3>2, Zenon
  <2>3. Begins(p, "readCompanies", Ref4) /\ Ref4 # <<>>
    BY <2>1, RefreshPlans, Zenon DEF Begins
  <2> QED
    BY <1>1, <1>2, <2>2, <2>3, GoesTo, Zenon DEF Knows, p
<1>9. CASE Filling(Clean, World, p, m)
  <2>1. p = Member0 /\ IsMem(m) /\ (Clean => Fine(World))
    BY <1>1, <1>9, Heads DEF Filling
  <2>2. Filling(Clean, World', Member1, x)
    BY <1>1, <1>5, <1>6, <2>1 DEF Filling
  <2>3. Begins(p, "readCompanies", Member1) /\ Member1 # <<>>
    BY <2>1, ShortPlans, Zenon DEF Begins
  <2> QED
    BY <1>1, <1>2, <2>2, <2>3, GoesTo, Zenon DEF Knows, p
<1> QED
  BY <1>7, <1>8, <1>9

LEMMA PutsPrivileges ==
  ASSUME MemberInv, NEW c \in Requests, PutPrivileges(c)
  PROVE  MemberInv'
<1> DEFINE p == plan[c]
<1> DEFINE o == req[c]
<1> DEFINE m == mem[c]
<1> DEFINE h == Head(p)
<1>1. /\ p # <<>> /\ h \in {"putPrivileges", "putIfAny"} /\ Proceed(c, m) /\ made' = made
      /\ World'.a = World.a /\ World'.g = World.g /\ World'.p = World.p /\ World'.cc = World.cc
      /\ World'.l = World.l /\ World'.s = World.s
      /\ World'.pc = IF Own(World, m) /\ (h = "putPrivileges" \/ m.privileges # {})
                       THEN m.privileges ELSE World.pc
  BY DEF PutPrivileges, Done, At, World, tableVars, ghostVars, Mine, Own
<1>2. /\ Knows(Clean, World, p, o, m) /\ Tables(World) /\ made' \in Nat
  BY <1>1, Standing
<1> HIDE DEF p, o, m
<1>3. Own(World', m) <=> Own(World, m)
  BY <1>1 DEF Own
<1>4. Current(World') = Current(World) /\ Home(World') = Home(World)
      /\ FreshCompanies(World') = FreshCompanies(World)
  BY <1>1 DEF Current, Home, FreshCompanies
<1>5. Pairs(m) => Tables(World')
  BY <1>1, <1>2 DEF Tables, Pairs
<1>6. CASE h = "putPrivileges"
  <2>1. Refreshing(Clean, World, p, m)
    BY <1>1, <1>2, <1>6, Asked
  <2>2. p = Ref2 /\ IsMem(m) /\ Pairs(m) /\ (Clean => Home(World) /\ Own(World, m) /\ m.privileges = Current(World))
    BY <1>6, <2>1, Heads DEF Refreshing
  <2>3. Clean => FreshPrivileges(World')
    BY <1>1, <1>4, <1>6, <2>2 DEF FreshPrivileges
  <2>4. Refreshing(Clean, World', Ref3, m)
    BY <1>3, <1>4, <2>2, <2>3 DEF Refreshing
  <2>5. Begins(p, "putPrivileges", Ref3) /\ Ref3 # <<>>
    BY <2>2, RefreshPlans, Zenon DEF Begins
  <2> QED
    BY <1>1, <1>2, <1>5, <2>2, <2>4, <2>5, GoesTo, Zenon DEF Knows, p, o, m
<1>7. CASE h = "putIfAny"
  <2>1. Filling(Clean, World, p, m)
    BY <1>1, <1>2, <1>7, Asked
  <2>2. p \in {Any1, Warm1} /\ IsMem(m) /\ Pairs(m)
        /\ (Clean => Fine(World) /\ (Own(World, m) => m.privileges = Current(World)))
    BY <1>7, <2>1, Heads DEF Filling
  <2>3. Clean => Fine(World')
    BY <1>1, <1>4, <1>7, <2>2 DEF FreshPrivileges, Fine
  <2>4. CASE p = Any1
    <3>1. Begins(p, "putIfAny", <<>>)
      BY <2>4, ShortPlans, Zenon
    <3> QED
      BY <1>1, <1>2, <1>5, <2>2, <2>3, <3>1, GoesLast, Zenon DEF p, m
  <2>5. CASE p = Warm1
    <3>1. Begins(p, "putIfAny", Member0) /\ Member0 # <<>>
      BY <2>5, ShortPlans, Zenon DEF Begins
    <3>2. Filling(Clean, World', Member0, m)
      BY <2>2, <2>3 DEF Filling
    <3> QED
      BY <1>1, <1>2, <1>5, <2>2, <3>1, <3>2, GoesTo, Zenon DEF Knows, p, o, m
  <2> QED
    BY <2>2, <2>4, <2>5
<1> QED
  BY <1>1, <1>6, <1>7

LEMMA PutsCompanies ==
  ASSUME MemberInv, NEW c \in Requests, PutCompanies(c)
  PROVE  MemberInv'
<1> DEFINE p == plan[c]
<1> DEFINE o == req[c]
<1> DEFINE m == mem[c]
<1> DEFINE h == Head(p)
<1>1. /\ p # <<>> /\ h \in {"putCompanies", "putIfMember"} /\ Proceed(c, m) /\ made' = made
      /\ World'.a = World.a /\ World'.g = World.g /\ World'.p = World.p /\ World'.pc = World.pc
      /\ World'.l = World.l /\ World'.s = World.s
      /\ World'.cc = IF Own(World, m) /\ (h = "putCompanies" \/ m.companies # {})
                       THEN m.companies ELSE World.cc
  BY DEF PutCompanies, Done, At, World, tableVars, ghostVars, Mine, Own
<1>2. /\ Knows(Clean, World, p, o, m) /\ Tables(World) /\ made' \in Nat
  BY <1>1, Standing
<1> HIDE DEF p, o, m
<1>3. Home(World') = Home(World) /\ FreshPrivileges(World') = FreshPrivileges(World)
  BY <1>1 DEF Current, Home, FreshPrivileges
<1>4. Firms(m) => Tables(World')
  BY <1>1, <1>2 DEF Tables, Firms
<1>5. CASE h = "putCompanies"
  <2>1. Refreshing(Clean, World, p, m)
    BY <1>1, <1>2, <1>5, Asked
  <2>2. p = Ref4 /\ IsMem(m) /\ Firms(m)
        /\ (Clean => Home(World) /\ Own(World, m) /\ FreshPrivileges(World) /\ m.companies = World.a.companies)
    BY <1>5, <2>1, Heads DEF Refreshing
  <2>3. Clean => Fine(World')
    BY <1>1, <1>3, <1>5, <2>2 DEF FreshCompanies, Fine
  <2>4. Begins(p, "putCompanies", <<>>)
    BY <2>2, RefreshPlans, Zenon
  <2> QED
    BY <1>1, <1>2, <1>4, <2>2, <2>3, <2>4, GoesLast, Zenon DEF p, m
<1>6. CASE h = "putIfMember"
  <2>1. Filling(Clean, World, p, m)
    BY <1>1, <1>2, <1>6, Asked
  <2>2. p = Member1 /\ IsMem(m) /\ Firms(m)
        /\ (Clean => Fine(World) /\ (Own(World, m) => m.companies = World.a.companies))
    BY <1>6, <2>1, Heads DEF Filling
  <2>3. Clean => Fine(World')
    BY <1>1, <1>3, <1>6, <2>2 DEF FreshCompanies, Fine
  <2>4. Begins(p, "putIfMember", <<>>)
    BY <2>2, ShortPlans, Zenon
  <2> QED
    BY <1>1, <1>2, <1>4, <2>2, <2>3, <2>4, GoesLast, Zenon DEF p, m
<1> QED
  BY <1>1, <1>5, <1>6

LEMMA Forgotten ==
  ASSUME NEW w, NEW v, Tables(w), v.a = w.a, v.g = w.g, v.p = w.p,
         v.pc \in {w.pc, Absent}, v.cc \in {w.cc, Absent},
         v.l = w.l, v.s = w.s
  PROVE  Tables(v)
<1>1. v.pc = w.pc \/ v.pc = Absent
  OBVIOUS
<1>2. v.cc = w.cc \/ v.cc = Absent
  OBVIOUS
<1>3. Absent \in (SUBSET (Companies \X Privileges)) \cup {Absent} /\ Absent \in (SUBSET Companies) \cup {Absent}
  BY Zenon
<1> QED
  BY <1>1, <1>2, <1>3, Zenon DEF Tables

LEMMA DropsPrivileges ==
  ASSUME MemberInv, NEW c \in Requests, DropPrivileges(c)
  PROVE  MemberInv'
<1> DEFINE p == plan[c]
<1> DEFINE o == req[c]
<1> DEFINE m == mem[c]
<1>1. /\ p # <<>> /\ Head(p) = "dropPrivileges" /\ Proceed(c, m) /\ made' = made
      /\ World'.a = World.a /\ World'.g = World.g /\ World'.p = World.p /\ World'.cc = World.cc
      /\ World'.l = World.l /\ World'.s = World.s
      /\ World'.pc \in {World.pc, Absent}
  BY DEF DropPrivileges, Done, At, World, tableVars, ghostVars
<1>2. /\ Knows(Clean, World, p, o, m) /\ Tables(World) /\ made' \in Nat
  BY <1>1, Standing
<1> HIDE DEF p, o, m
<1>3. Tables(World')
  <2>1. World'.pc \in {World.pc, Absent} /\ World'.cc \in {World.cc, Absent}
    BY <1>1
  <2> QED
    BY <1>1, <1>2, <2>1, Forgotten, Zenon
<1>4. /\ Own(World', m) <=> Own(World, m)
      /\ Home(World') <=> Home(World)
      /\ FreshPrivileges(World) => FreshPrivileges(World')
      /\ FreshCompanies(World') <=> FreshCompanies(World)
  BY <1>1 DEF Own, Current, Home, FreshPrivileges, FreshCompanies
<1>5. Refreshing(Clean, World, p, m) \/ Toggling(Clean, World, p, m)
  BY <1>1, <1>2, Asked
<1>6. CASE Refreshing(Clean, World, p, m)
  <2>1. p = Ref0 /\ IsMem(m) /\ (Clean => Home(World) /\ Own(World, m))
    BY <1>1, <1>6, Heads DEF Refreshing
  <2>2. Refreshing(Clean, World', Ref1, m)
    BY <1>4, <2>1, Zenon DEF Refreshing
  <2>3. Begins(p, "dropPrivileges", Ref1) /\ Ref1 # <<>>
    BY <2>1, RefreshPlans, Zenon DEF Begins
  <2> QED
    BY <1>1, <1>2, <1>3, <2>2, <2>3, GoesTo, Zenon DEF Knows, p, o, m
<1>7. CASE Toggling(Clean, World, p, m)
  <2>1. p = Off1 /\ KnownUser(m) /\ (Clean => Fine(World))
    BY <1>1, <1>7, Heads DEF Toggling
  <2>2. Toggling(Clean, World', Off2, m)
    BY <1>4, <2>1 DEF Toggling, Fine
  <2>3. Begins(p, "dropPrivileges", Off2) /\ Off2 # <<>>
    BY <2>1, ShortPlans, Zenon DEF Begins
  <2> QED
    BY <1>1, <1>2, <1>3, <2>2, <2>3, GoesTo, Zenon DEF Knows, p, o, m
<1> QED
  BY <1>5, <1>6, <1>7

LEMMA DropsCompanies ==
  ASSUME MemberInv, NEW c \in Requests, DropCompanies(c)
  PROVE  MemberInv'
<1> DEFINE p == plan[c]
<1> DEFINE o == req[c]
<1> DEFINE m == mem[c]
<1>1. /\ p # <<>> /\ Head(p) = "dropCompanies" /\ Proceed(c, m) /\ made' = made
      /\ World'.a = World.a /\ World'.g = World.g /\ World'.p = World.p /\ World'.pc = World.pc
      /\ World'.l = World.l /\ World'.s = World.s
      /\ World'.cc \in {World.cc, Absent}
  BY DEF DropCompanies, Done, At, World, tableVars, ghostVars
<1>2. /\ Knows(Clean, World, p, o, m) /\ Tables(World) /\ made' \in Nat
  BY <1>1, Standing
<1> HIDE DEF p, o, m
<1>3. Tables(World')
  <2>1. World'.pc \in {World.pc, Absent} /\ World'.cc \in {World.cc, Absent}
    BY <1>1
  <2> QED
    BY <1>1, <1>2, <2>1, Forgotten, Zenon
<1>4. Fine(World) => Fine(World')
  BY <1>1 DEF Fine, Current, Home, FreshPrivileges, FreshCompanies
<1>5. Toggling(Clean, World, p, m)
  BY <1>1, <1>2, Asked
<1>6. p = Off2 /\ (Clean => Fine(World))
  BY <1>1, <1>5, Heads DEF Toggling
<1>7. Begins(p, "dropCompanies", <<>>)
  BY <1>6, ShortPlans, Zenon
<1> QED
  BY <1>1, <1>2, <1>3, <1>4, <1>6, <1>7, GoesLast, Zenon DEF p, m

LEMMA GetsPrivileges ==
  ASSUME MemberInv, NEW c \in Requests, GetPrivileges(c)
  PROVE  MemberInv'
<1> DEFINE p == plan[c]
<1> DEFINE o == req[c]
<1> DEFINE m == mem[c]
<1>1. p # <<>> /\ Head(p) = "getPrivileges" /\ Knows(Clean, World, p, o, m) /\ Tables(World) /\ made \in Nat
  BY Standing DEF GetPrivileges, At
<1>2. Stop(c) \/ (Proceed(c, m) /\ World' = World /\ made' = made)
  <2>1. Stop(c) \/ (Proceed(c, m) /\ UNCHANGED <<tableVars, cacheVars>>)
    BY Zenon DEF GetPrivileges, Done
  <2>2. UNCHANGED <<tableVars, cacheVars>> => World' = World /\ made' = made
    BY DEF World, tableVars, ghostVars, cacheVars
  <2> QED
    BY <2>1, <2>2, Zenon
<1>3. Filling(Clean, World, p, m)
  BY <1>1, Asked
<1> HIDE DEF p, o, m
<1>4. p = Login0 /\ IsMem(m) /\ (Clean => Fine(World))
  BY <1>1, <1>3, Heads DEF Filling
<1>5. CASE Stop(c)
  BY <1>1, <1>4, <1>5, Stops, Zenon DEF Idle, p
<1>6. CASE Proceed(c, m) /\ World' = World /\ made' = made
  <2>1. Filling(Clean, World', Any0, m)
    BY <1>4, <1>6 DEF Filling
  <2>2. Begins(p, "getPrivileges", Any0) /\ Any0 # <<>>
    BY <1>4, ShortPlans, Zenon DEF Begins
  <2>3. Tables(World') /\ made' \in Nat
    BY <1>1, <1>6
  <2> QED
    BY <1>6, <2>1, <2>2, <2>3, GoesTo, Zenon DEF Knows, p, o, m
<1> QED
  BY <1>2, <1>5, <1>6

LEMMA GetsCompanies ==
  ASSUME MemberInv, NEW c \in Requests, GetCompanies(c)
  PROVE  MemberInv'
<1> DEFINE p == plan[c]
<1> DEFINE o == req[c]
<1> DEFINE m == mem[c]
<1>1. p # <<>> /\ Head(p) = "getCompanies" /\ Knows(Clean, World, p, o, m) /\ Tables(World) /\ made \in Nat
  BY Standing DEF GetCompanies, At
<1>2. Stop(c) \/ (Proceed(c, m) /\ World' = World /\ made' = made)
  <2>1. Stop(c) \/ (Proceed(c, m) /\ UNCHANGED <<tableVars, cacheVars>>)
    BY Zenon DEF GetCompanies, Done
  <2>2. UNCHANGED <<tableVars, cacheVars>> => World' = World /\ made' = made
    BY DEF World, tableVars, ghostVars, cacheVars
  <2> QED
    BY <2>1, <2>2, Zenon
<1>3. Filling(Clean, World, p, m)
  BY <1>1, Asked
<1> HIDE DEF p, o, m
<1>4. p = Guard0 /\ IsMem(m) /\ (Clean => Fine(World))
  BY <1>1, <1>3, Heads DEF Filling
<1>5. CASE Stop(c)
  BY <1>1, <1>4, <1>5, Stops, Zenon DEF Idle, p
<1>6. CASE Proceed(c, m) /\ World' = World /\ made' = made
  <2>1. Filling(Clean, World', Member0, m)
    BY <1>4, <1>6 DEF Filling
  <2>2. Begins(p, "getCompanies", Member0) /\ Member0 # <<>>
    BY <1>4, ShortPlans, Zenon DEF Begins
  <2>3. Tables(World') /\ made' \in Nat
    BY <1>1, <1>6
  <2> QED
    BY <1>6, <2>1, <2>2, <2>3, GoesTo, Zenon DEF Knows, p, o, m
<1> QED
  BY <1>2, <1>5, <1>6

LEMMA FindsAffected ==
  ASSUME MemberInv, NEW c \in Requests, FindAffected(c)
  PROVE  MemberInv'
<1> DEFINE p == plan[c]
<1> DEFINE o == req[c]
<1> DEFINE m == mem[c]
<1> DEFINE x == [m EXCEPT !.account = account]
<1> DEFINE told == account # NoAccount /\ o.role \in grants /\ View(grants, granted) # {}
<1>1. p # <<>> /\ Head(p) = "findAffected" /\ Knows(Clean, World, p, o, m) /\ Tables(World) /\ made \in Nat
  BY Standing DEF FindAffected, At
<1>2. CASE ~told
  <2>1. Stop(c)
    BY <1>2, Zenon DEF FindAffected
  <2> HIDE DEF p, o, m
  <2>2. Assigning(Clean, World, p, o, m)
    BY <1>1, Asked
  <2>3. p = Assign1 /\ (Clean => Home(World) /\ FreshCompanies(World)
                                 /\ (o.role \notin World.g => FreshPrivileges(World)))
    BY <1>1, <2>2, Heads DEF Assigning
  <2>4. View(grants, granted) = {} => FreshPrivileges(World)
    BY Worlds DEF FreshPrivileges, Current
  <2>5. Home(World) /\ account = NoAccount => grants = {}
    BY Worlds DEF Home, HomeOK, CompaniesOf
  <2>6. Clean => Fine(World)
    BY <1>2, <2>3, <2>4, <2>5, Worlds DEF Fine
  <2> QED
    BY <1>1, <2>1, <2>6, Stops, Zenon DEF Idle, p
<1>3. CASE told
  <2>1. /\ Proceed(c, x) /\ made' = made
        /\ World'.a = World.a /\ World'.g = World.g /\ World'.p = World.p /\ World'.cc = World.cc
        /\ World'.l = World.l /\ World'.s = World.s
        /\ World'.pc = Absent
    BY <1>3 DEF FindAffected, World, tableVars, ghostVars
  <2>2. account \in Account
    BY <1>1, <1>3, Worlds DEF Tables
  <2> HIDE DEF p, o, m
  <2>3. Assigning(Clean, World, p, o, m)
    BY <1>1, Asked
  <2>4. p = Assign1 /\ IsMem(m) /\ (Clean => Home(World) /\ FreshCompanies(World))
    BY <1>1, <2>3, Heads DEF Assigning
  <2>5. IsMem(x)
    BY <2>2, <2>4 DEF IsMem
  <2> HIDE DEF x
  <2>6. Clean => Fine(World')
    BY <2>1, <2>4 DEF Fine, Home, FreshPrivileges, FreshCompanies
  <2>7. Filling(Clean, World', Any0, x)
    BY <2>5, <2>6 DEF Filling
  <2>8. Begins(p, "findAffected", Any0) /\ Any0 # <<>>
    BY <2>4, ShortPlans, Zenon DEF Begins
  <2>9. Tables(World') /\ made' \in Nat
    <3>1. World'.pc \in {World.pc, Absent} /\ World'.cc \in {World.cc, Absent}
      BY <2>1
    <3>2. made' \in Nat
      BY <1>1, <2>1
    <3> QED
      BY <1>1, <2>1, <3>1, <3>2, Forgotten, Zenon
  <2> QED
    BY <2>1, <2>7, <2>8, <2>9, GoesTo, Zenon DEF Knows, p, o
<1> QED
  BY <1>2, <1>3

\* A call to the cache that fails is no more than a statement that does nothing.
LEMMA CacheCallFails ==
  ASSUME MemberInv, NEW c \in Requests, CacheFails(c)
  PROVE  MemberInv'
<1> DEFINE p == plan[c]
<1> DEFINE o == req[c]
<1> DEFINE m == mem[c]
<1>1. /\ p # <<>> /\ Head(p) \in CacheCalls /\ Continue(c, Tail(p), m) /\ failed' = TRUE
      /\ UNCHANGED <<tableVars, cacheVars>>
  BY DEF CacheFails, Shrug, At
<1>2. World' = World /\ made' = made
  BY <1>1 DEF World, tableVars, ghostVars, cacheVars
<1>3. Knows(Clean, World, p, o, m) /\ Tables(World') /\ made' \in Nat
  BY <1>2, Standing
<1>4. p \in Seq(Statements)
  BY DEF MemberInv
<1>5. Tail(p) \in Seq(Statements)
  BY <1>1, <1>4, Rests, Zenon
<1> HIDE DEF p, o, m
<1>6. \/ Refreshing(Clean, World, p, m) \/ Toggling(Clean, World, p, m) \/ Filling(Clean, World, p, m)
  BY <1>1, <1>3, Asked DEF CacheCalls
<1>7. Tail(p) = <<>> \/ Knows(FALSE, World', Tail(p), o, m)
  <2>1. CASE Refreshing(Clean, World, p, m)
    <3>1. p \in {Ref0, Ref2, Ref4} /\ IsMem(m)
      BY <1>1, <2>1, Heads DEF Refreshing, CacheCalls
    <3>2. Refreshing(FALSE, World', Ref1, m) /\ Refreshing(FALSE, World', Ref3, m)
      BY <3>1 DEF Refreshing
    <3>3. Tail(p) \in {Ref1, Ref3, <<>>}
      BY <3>1, RefreshPlans DEF Begins
    <3> QED
      BY <3>2, <3>3, Zenon DEF Knows
  <2>2. CASE Toggling(Clean, World, p, m)
    <3>1. p \in {Off1, Off2} /\ KnownUser(m)
      BY <1>1, <2>2, Heads DEF Toggling, CacheCalls
    <3>2. Toggling(FALSE, World', Off2, m)
      BY <3>1 DEF Toggling
    <3>3. Tail(p) \in {Off2, <<>>}
      BY <3>1, ShortPlans DEF Begins
    <3> QED
      BY <3>2, <3>3, Zenon DEF Knows
  <2>3. CASE Filling(Clean, World, p, m)
    <3>1. p \in {Login0, Guard0, Any1, Warm1, Member1} /\ IsMem(m)
      BY <1>1, <2>3, Heads DEF Filling, CacheCalls
    <3>2. Filling(FALSE, World', Any0, m) /\ Filling(FALSE, World', Member0, m)
      BY <3>1 DEF Filling
    <3>3. Tail(p) \in {Any0, Member0, <<>>}
      BY <3>1, ShortPlans DEF Begins
    <3> QED
      BY <3>2, <3>3, Zenon DEF Knows
  <2> QED
    BY <1>6, <2>1, <2>2, <2>3
<1>8. (Clean /\ ~failed') = FALSE
  BY <1>1
<1>9. ~Idle(c)
  BY <1>1 DEF Idle, p
<1>10. Tail(p) # <<>> => Knows(Clean /\ ~failed', World', Tail(p), o, m)
  BY <1>7, <1>8, Zenon
<1>11. failed' \in BOOLEAN /\ (failed => failed')
  BY <1>1
<1>12. ~(Tail(p) = <<>> /\ Clean /\ ~failed')
  BY <1>1
<1>13. Continue(c, Tail(p), m)
  BY <1>1
<1> QED
  BY <1>3, <1>5, <1>9, <1>10, <1>11, <1>12, <1>13, GoesOn, Zenon DEF o

-----------------------------------------------------------------------------
(* Creating a user *)

LEMMA Joins ==
  ASSUME NEW a \in Account, NEW k \in Companies
  PROVE  /\ Joined(a, k) \in Account /\ Joined(a, k).id = a.id
         /\ Joined(a, k).companies = a.companies \cup {k}
         /\ Joined(a, k).default = DefaultFor(a, k)
<1>1. DefaultFor(a, k) \in Companies \cup {NoCompany}
  BY DEF DefaultFor, Account
<1> QED
  BY <1>1 DEF Joined, Account

LEMMA CommitsNewUser ==
  ASSUME MemberInv, NEW c \in Requests, CommitNewUser(c)
  PROVE  MemberInv'
<1> DEFINE p == plan[c]
<1> DEFINE o == req[c]
<1> DEFINE m == mem[c]
<1> DEFINE b == Joined(NewAccount, o.company)
<1> DEFINE x == [m EXCEPT !.account = account']
<1>1. /\ p # <<>> /\ Head(p) = "commitUser" /\ Proceed(c, x) /\ made' = made + 1 /\ account' = b
      /\ World'.a = b /\ World'.g = o.roles /\ World'.p = World.p
      /\ World'.pc = Absent /\ World'.cc = Absent
      /\ World'.l = World.l /\ World'.s = World.s
  BY DEF CommitNewUser, At, World, ghostVars
<1>2. Knows(Clean, World, p, o, m) /\ Tables(World) /\ made \in Nat
  BY Standing
<1>3. NewAccount \in Account /\ NewAccount.companies = {}
  BY <1>2 DEF NewAccount, Account
<1> HIDE DEF p, o, m
<1>4. Creating(Clean, World, p, o, m)
  BY <1>1, <1>2, Asked
<1>5. p = Create0 /\ IsMem(m) /\ o.company \in Companies
      /\ o.roles \subseteq {r \in Roles : HomeOf[r] = o.company}
  BY <1>4, Zenon DEF Creating, AskedRoles
<1>6. b \in Account /\ b.companies = {o.company} /\ b.default = o.company
  <2>1. /\ b \in Account /\ b.companies = NewAccount.companies \cup {o.company}
        /\ b.default = DefaultFor(NewAccount, o.company)
    BY <1>3, <1>5, Joins
  <2> QED
    BY <1>3, <2>1 DEF DefaultFor
<1> HIDE DEF b
<1>7. IsMem(x) /\ x.account = b
  BY <1>1, <1>5, <1>6 DEF IsMem
<1> HIDE DEF x
<1>8. World'.a # NoAccount
  BY <1>1, <1>6, Nobody
<1>9. Home(World')
  <2>1. \A r \in o.roles : HomeOf[r] \in b.companies
    BY <1>5, <1>6
  <2>2. b.companies # {} /\ b.default \in b.companies
    BY <1>6
  <2> QED
    BY <1>1, <1>8, <2>1, <2>2 DEF Home, HomeOK, CompaniesOf
<1>10. Own(World', x)
  BY <1>1, <1>7, <1>8 DEF Own
<1>11. Refreshing(Clean, World', Ref0, x)
  BY <1>7, <1>9, <1>10, Zenon DEF Refreshing
<1>12. Begins(p, "commitUser", Ref0) /\ Ref0 # <<>>
  BY <1>5, LongPlans, RefreshPlans, Zenon DEF Begins
<1>13. Tables(World')
  <2>1. World'.a \in Account \cup {NoAccount} /\ World'.g \subseteq Roles /\ World'.l \subseteq Roles /\ World'.s \in BOOLEAN
    BY <1>1, <1>2, <1>5, <1>6 DEF Tables
  <2>2. World'.pc \in (SUBSET (Companies \X Privileges)) \cup {Absent}
    BY <1>1
  <2>3. World'.cc \in (SUBSET Companies) \cup {Absent}
    BY <1>1
  <2> QED
    BY <1>1, <1>2, <2>1, <2>2, <2>3, Zenon DEF Tables
<1>14. made' \in Nat
  BY <1>1, <1>2
<1> QED
  BY <1>1, <1>11, <1>12, <1>13, <1>14, GoesTo, Zenon DEF Knows, p, o

\* The tables after a statement that leaves the caches and the roles' privileges
LEMMA Written ==
  ASSUME NEW w, NEW v, Tables(w), v.a \in Account \cup {NoAccount}, v.g \subseteq Roles,
         v.p = w.p, v.pc = w.pc, v.cc = w.cc,
         v.l \subseteq Roles, v.s \in BOOLEAN
  PROVE  Tables(v)
BY Zenon DEF Tables

LEMMA CommitsKnownUser ==
  ASSUME MemberInv, NEW c \in Requests, CommitKnownUser(c)
  PROVE  MemberInv'
<1> DEFINE p == plan[c]
<1> DEFINE o == req[c]
<1> DEFINE m == mem[c]
<1> DEFINE b == Joined(m.account, o.company)
<1>1. /\ p # <<>> /\ Head(p) = "commitUser" /\ Proceed(c, m) /\ made' = made
      /\ m.account # NoAccount
      /\ World'.a = b /\ World'.g = m.grants \cup o.roles /\ World'.p = World.p
      /\ World'.pc = World.pc /\ World'.cc = World.cc
      /\ World'.l = World.l /\ World'.s = World.s
  BY DEF CommitKnownUser, Done, At, World, cacheVars, ghostVars
<1>2. Knows(Clean, World, p, o, m) /\ Tables(World) /\ made' \in Nat
  BY <1>1, Standing
<1> HIDE DEF p, o, m
<1>3. Creating(Clean, World, p, o, m)
  BY <1>1, <1>2, Asked
<1>4. /\ p = Create0 /\ IsMem(m) /\ o.company \in Companies
      /\ o.roles \subseteq {r \in Roles : HomeOf[r] = o.company}
      /\ Clean => Fine(World) /\ m.account = World.a /\ m.grants = World.g
  BY <1>3, Zenon DEF Creating, AskedRoles
<1>5. m.account \in Account /\ m.grants \subseteq Roles
  BY <1>1, <1>4 DEF IsMem
<1>6. /\ b \in Account /\ b.id = m.account.id /\ b.companies = m.account.companies \cup {o.company}
      /\ b.default = DefaultFor(m.account, o.company)
  BY <1>4, <1>5, Joins
<1> HIDE DEF b
<1>7. World'.a # NoAccount
  BY <1>1, <1>6, Nobody
<1>8. Own(World', m)
  BY <1>1, <1>6, <1>7 DEF Own
<1>9. Clean => Home(World')
  <2> SUFFICES ASSUME Clean PROVE Home(World')
    OBVIOUS
  <2>1. /\ ~World.s => m.account.default \in m.account.companies
        /\ \A r \in m.grants \ World.l : HomeOf[r] \in m.account.companies
    BY <1>1, <1>4 DEF Fine, Home, HomeOK, CompaniesOf
  <2>2. b.companies # {} /\ (~World.s => b.default \in b.companies)
    BY <1>6, <2>1 DEF DefaultFor
  <2>3. \A r \in (m.grants \cup o.roles) \ World.l : HomeOf[r] \in b.companies
    BY <1>4, <1>6, <2>1
  <2> QED
    BY <1>1, <1>7, <2>2, <2>3 DEF Home, HomeOK, CompaniesOf
<1>10. Refreshing(Clean, World', Ref0, m)
  BY <1>4, <1>8, <1>9, Zenon DEF Refreshing
<1>11. Begins(p, "commitUser", Ref0) /\ Ref0 # <<>>
  BY <1>4, LongPlans, RefreshPlans, Zenon DEF Begins
<1>12. Tables(World')
  <2>1. World'.a \in Account \cup {NoAccount} /\ World'.g \subseteq Roles /\ World'.l \subseteq Roles /\ World'.s \in BOOLEAN
    BY <1>1, <1>2, <1>4, <1>5, <1>6 DEF Tables
  <2> QED
    BY <1>1, <1>2, <2>1, Written, Zenon
<1> QED
  BY <1>1, <1>2, <1>10, <1>11, <1>12, GoesTo, Zenon DEF Knows, p, o, m

LEMMA CommitsNothing ==
  ASSUME MemberInv, NEW c \in Requests, CommitFails(c)
  PROVE  MemberInv'
<1>1. plan[c] # <<>> /\ Head(plan[c]) = "commitUser" /\ Stop(c)
  BY Zenon DEF CommitFails, At
<1>2. Creating(Clean, World, plan[c], req[c], mem[c])
  BY <1>1, Standing, Asked
<1>3. Clean => Fine(World)
  BY <1>2, Zenon DEF Creating
<1> QED
  BY <1>1, <1>3, Stops, Zenon DEF Idle

-----------------------------------------------------------------------------
(* Roles *)

LEMMA DeletesRoles ==
  ASSUME MemberInv, NEW c \in Requests, DeleteRoles(c)
  PROVE  MemberInv'
<1> DEFINE p == plan[c]
<1> DEFINE o == req[c]
<1> DEFINE m == mem[c]
<1>1. /\ p # <<>> /\ Head(p) = "deleteRoles" /\ Proceed(c, m) /\ made' = made
      /\ World'.a = World.a /\ World'.p = World.p /\ World'.pc = World.pc /\ World'.cc = World.cc
      /\ World'.g = (IF Own(World, m) THEN RolesElsewhere(World.g, o.company) ELSE World.g)
      /\ World'.l = (IF Own(World, m) THEN RolesElsewhere(World.l, o.company) ELSE World.l)
      /\ World'.s = World.s
  BY DEF DeleteRoles, Done, At, World, cacheVars, Mine, Own
<1>2. Knows(Clean, World, p, o, m) /\ Tables(World) /\ made' \in Nat
  BY <1>1, Standing
<1> HIDE DEF p, o, m
<1>3. /\ World'.g \subseteq World.g /\ World'.l \subseteq World.l
      /\ Own(World, m) => NoRolesIn(World', o.company)
      /\ World'.g \ World'.l \subseteq World.g \ World.l
  BY <1>1 DEF RolesElsewhere, NoRolesIn
<1>4. Tables(World')
  <2>1. World'.a \in Account \cup {NoAccount} /\ World'.g \subseteq Roles /\ World'.l \subseteq Roles
        /\ World'.s \in BOOLEAN
    BY <1>1, <1>2, <1>3 DEF Tables
  <2> QED
    BY <1>1, <1>2, <2>1, Written, Zenon
<1>5. /\ Home(World) => Home(World')
      /\ Same(World, m) => Same(World', m) /\ Own(World, m) /\ Own(World', m)
  BY <1>1, <1>3 DEF Home, HomeOK, Same, Own
<1>6. Updating(Clean, World, p, o, m) \/ Leaving(Clean, World, p, o, m)
  BY <1>1, <1>2, Asked
<1>7. CASE Updating(Clean, World, p, o, m)
  <2>1. /\ p = Roles0 /\ KnownUser(m) /\ o.op = "update" /\ AskedRoles(o)
        /\ Clean => Home(World) /\ Same(World, m)
    BY <1>1, <1>7, Heads DEF Updating
  <2>2. Clean => Home(World') /\ Same(World', m) /\ NoRolesIn(World', o.company)
    BY <1>3, <1>5, <2>1
  <2>3. Updating(Clean, World', Roles1, o, m)
    BY <2>1, <2>2, Zenon DEF Updating
  <2>4. Begins(p, "deleteRoles", Roles1) /\ Roles1 # <<>>
    BY <2>1, LongPlans, Zenon DEF Begins
  <2> QED
    BY <1>1, <1>2, <1>4, <2>3, <2>4, GoesTo, Zenon DEF Knows, p, o, m
<1>8. CASE Leaving(Clean, World, p, o, m)
  <2>1. /\ p = Gone0 /\ KnownUser(m) /\ o.company \in Companies
        /\ Clean => Home(World) /\ Same(World, m)
    BY <1>1, <1>8, Heads DEF Leaving
  <2>2. Clean => Home(World') /\ Own(World', m) /\ NoRolesIn(World', o.company)
    BY <1>3, <1>5, <2>1
  <2>3. Leaving(Clean, World', Gone1, o, m)
    BY <2>1, <2>2, Zenon DEF Leaving
  <2>4. Begins(p, "deleteRoles", Gone1) /\ Gone1 # <<>>
    BY <2>1, ShortPlans, Zenon DEF Begins
  <2> QED
    BY <1>1, <1>2, <1>4, <2>3, <2>4, GoesTo, Zenon DEF Knows, p, o, m
<1> QED
  BY <1>6, <1>7, <1>8

LEMMA InsertsRoles ==
  ASSUME MemberInv, NEW c \in Requests, InsertRoles(c)
  PROVE  MemberInv'
<1> DEFINE p == plan[c]
<1> DEFINE o == req[c]
<1> DEFINE m == mem[c]
<1>1. p # <<>> /\ Head(p) = "insertRoles" /\ Knows(Clean, World, p, o, m) /\ Tables(World) /\ made \in Nat
  BY Standing DEF InsertRoles, At
<1>2. Mine(c) <=> Own(World, m)
  BY Worlds DEF Mine, Own
<1> HIDE DEF p, o, m
<1>3. Updating(Clean, World, p, o, m)
  BY <1>1, Asked
<1>4. /\ p = Roles1 /\ KnownUser(m) /\ o.op = "update" /\ AskedRoles(o)
      /\ Clean => Home(World) /\ Same(World, m) /\ NoRolesIn(World, o.company)
  BY <1>1, <1>3, Heads DEF Updating
<1>5. Clean => Mine(c) /\ grants \cap o.roles = {}
  BY <1>2, <1>4, Worlds DEF Same, Own, NoRolesIn, AskedRoles
<1>6. CASE Mine(c) /\ grants \cap o.roles = {}
  <2>1. /\ Proceed(c, m) /\ made' = made
        /\ World'.a = World.a /\ World'.g = World.g \cup o.roles
        /\ World'.p = World.p /\ World'.pc = World.pc /\ World'.cc = World.cc
        /\ World'.l = (IF o.company \in World.a.companies THEN World.l ELSE World.l \cup o.roles)
        /\ World'.s = World.s
    BY <1>6 DEF InsertRoles, Done, World, cacheVars, o, m
  <2>2. Tables(World')
    <3>1. World'.a \in Account \cup {NoAccount} /\ World'.g \subseteq Roles /\ World'.l \subseteq Roles
          /\ World'.s \in BOOLEAN
      BY <1>1, <1>4, <2>1 DEF Tables, AskedRoles
    <3> QED
      BY <1>1, <2>1, <3>1, Written, Zenon
  <2>3. Clean => Home(World') /\ Same(World', m)
    <3> SUFFICES ASSUME Clean PROVE Home(World') /\ Same(World', m)
      OBVIOUS
    <3>1. Same(World', m) /\ World.a # NoAccount
      BY <1>4, <2>1 DEF Same, Own
    <3>2. \A r \in World'.g \ World'.l : HomeOf[r] \in CompaniesOf(World.a)
      BY <1>4, <2>1, <3>1 DEF Home, HomeOK, AskedRoles, CompaniesOf
    <3> QED
      BY <1>4, <2>1, <3>1, <3>2 DEF Home, HomeOK
  <2>4. Updating(Clean, World', Roles2, o, m)
    BY <1>4, <2>3, Zenon DEF Updating
  <2>5. Begins(p, "insertRoles", Roles2) /\ Roles2 # <<>>
    BY <1>4, LongPlans, Zenon DEF Begins
  <2>6. made' \in Nat
    BY <1>1, <2>1
  <2> QED
    BY <2>1, <2>2, <2>4, <2>5, <2>6, GoesTo, Zenon DEF Knows, p, o, m
<1>7. CASE ~(Mine(c) /\ grants \cap o.roles = {})
  <2>1. Stop(c)
    BY <1>7, Zenon DEF InsertRoles, o
  <2> QED
    BY <1>1, <1>5, <1>7, <2>1, Stops, Zenon DEF Idle, p
<1> QED
  BY <1>6, <1>7

LEMMA ReloadsRoles ==
  ASSUME MemberInv, NEW c \in Requests, ReloadRoles(c)
  PROVE  MemberInv'
<1> DEFINE p == plan[c]
<1> DEFINE o == req[c]
<1> DEFINE m == mem[c]
<1> DEFINE x == [m EXCEPT !.grants = grants]
<1>1. p # <<>> /\ Head(p) = "reloadRoles" /\ Proceed(c, x) /\ World' = World /\ made' = made
  BY DEF ReloadRoles, At, World, tableVars, ghostVars, cacheVars
<1>2. /\ Knows(Clean, World, p, o, m) /\ Tables(World) /\ Tables(World') /\ made' \in Nat
  BY <1>1, Standing
<1>3. grants = World.g /\ grants \subseteq Roles
  BY <1>2, Worlds DEF Tables
<1> HIDE DEF p, o, m
<1>4. Updating(Clean, World, p, o, m)
  BY <1>1, <1>2, Asked
<1>5. p = Roles2 /\ KnownUser(m) /\ o.op = "update" /\ (Clean => Home(World) /\ Same(World, m))
  BY <1>1, <1>4, Heads DEF Updating
<1>6. KnownUser(x) /\ x.account = m.account /\ x.grants = World.g
  BY <1>3, <1>5 DEF KnownUser, IsMem
<1> HIDE DEF x
<1>7. Clean => Saves(World, o, x)
  <2>1. m.account # NoAccount
    BY <1>5, Nobody DEF KnownUser
  <2> QED
    BY <1>5, <1>6, <2>1 DEF Saves, Own, Same, Home, HomeOK, CompaniesOf
<1>8. Saving(Clean, World, Save0, o, x)
  <2>1. o.op \in {"update", "company", "default"}
    BY <1>5
  <2> QED
    BY <1>6, <1>7, <2>1, Zenon DEF Saving
<1>9. Begins(p, "reloadRoles", Save0) /\ Save0 # <<>>
  BY <1>5, LongPlans, Zenon DEF Begins
<1>10. Knows(Clean, World', Save0, o, x)
  BY <1>1, <1>8, Zenon DEF Knows
<1> QED
  BY <1>1, <1>2, <1>9, <1>10, GoesTo, Zenon DEF p, o

-----------------------------------------------------------------------------
(* The row of the user *)

LEMMA SavesUser ==
  ASSUME MemberInv, NEW c \in Requests, SaveUser(c)
  PROVE  MemberInv'
<1> DEFINE p == plan[c]
<1> DEFINE o == req[c]
<1> DEFINE m == mem[c]
<1> DEFINE can == CanSave(m.account) /\ (o.op = "update" => CanSaveRoles(c))
<1>1. p # <<>> /\ Head(p) = "saveUser" /\ Knows(Clean, World, p, o, m) /\ Tables(World) /\ made \in Nat
  BY Standing DEF SaveUser, At
<1>2. Saving(Clean, World, p, o, m)
  BY <1>1, Asked
<1>3. KnownUser(m)
  BY <1>2, Zenon DEF Saving
<1>4. \/ p = Save0 /\ (Clean => Saves(World, o, m))
      \/ p = Default0 /\ o.op = "default"
         /\ (Clean => Saves(World, o, m) /\ Fine(World) /\ m.account.companies = World.a.companies)
  BY <1>2, Zenon DEF Saving
<1>5. Clean => Saves(World, o, m)
  BY <1>4, Zenon
<1>6. Clean => can
  BY <1>5, Worlds DEF Saves, Own, CanSave, CanSaveRoles
<1>7. CASE ~can
  <2>1. Stop(c)
    BY <1>7, Zenon DEF SaveUser
  <2> QED
    BY <1>1, <1>6, <1>7, <2>1, Stops, Zenon DEF Idle
<1>8. CASE can
  <2>1. /\ Proceed(c, m) /\ made' = made
        /\ World'.a = m.account /\ World'.g = (IF o.op = "update" THEN m.grants ELSE World.g)
        /\ World'.p = World.p /\ World'.pc = World.pc /\ World'.cc = World.cc
        /\ World'.l = World.l /\ World'.s = World.s
    BY <1>8 DEF SaveUser, Done, World, cacheVars, ghostVars
  <2> HIDE DEF p, o, m, can
  <2>2. m.account \in Account /\ m.grants \subseteq Roles /\ IsMem(m)
    BY <1>3 DEF KnownUser, IsMem
  <2>3. m.account # NoAccount
    BY <2>2, Nobody
  <2>4. Tables(World')
    <3>1. World'.a \in Account \cup {NoAccount} /\ World'.g \subseteq Roles /\ World'.l \subseteq Roles /\ World'.s \in BOOLEAN
      BY <1>1, <2>1, <2>2 DEF Tables
    <3> QED
      BY <1>1, <2>1, <3>1, Written, Zenon
  <2>5. Own(World', m)
    BY <2>1, <2>3 DEF Own
  <2>6. Clean => World'.g = World.g /\ Home(World')
    BY <1>5, <2>1 DEF Saves, Home
  <2>7. made' \in Nat
    BY <1>1, <2>1
  <2>8. CASE p = Save0
    <3>1. Refreshing(Clean, World', Ref0, m)
      BY <2>2, <2>5, <2>6, Zenon DEF Refreshing
    <3>2. Begins(p, "saveUser", Ref0) /\ Ref0 # <<>>
      BY <2>8, LongPlans, RefreshPlans, Zenon DEF Begins
    <3> QED
      BY <2>1, <2>4, <2>7, <3>1, <3>2, GoesTo, Zenon DEF Knows, p, o, m
  <2>9. CASE p = Default0
         /\ (Clean => Saves(World, o, m) /\ Fine(World) /\ m.account.companies = World.a.companies)
    <3>1. Clean => Fine(World')
      <4> SUFFICES ASSUME Clean PROVE Fine(World')
        OBVIOUS
      <4>1. World.a # NoAccount
        BY <2>9 DEF Saves, Own
      <4>2. FreshPrivileges(World')
        BY <2>1, <2>6, <2>9 DEF Fine, FreshPrivileges, Current
      <4>3. FreshCompanies(World')
        BY <2>1, <2>9, <4>1 DEF Fine, FreshCompanies
      <4> QED
        BY <2>6, <4>2, <4>3 DEF Fine
    <3>2. Begins(p, "saveUser", <<>>)
      BY <2>9, ShortPlans, Zenon
    <3> QED
      BY <2>1, <2>4, <2>7, <3>1, <3>2, GoesLast, Zenon DEF p, m
  <2> QED
    BY <1>4, <2>8, <2>9, Zenon
<1> QED
  BY <1>7, <1>8

LEMMA Toggles ==
  ASSUME MemberInv, NEW c \in Requests, Toggle(c)
  PROVE  MemberInv'
<1> DEFINE p == plan[c]
<1> DEFINE o == req[c]
<1> DEFINE m == mem[c]
<1> DEFINE b == [account EXCEPT !.active = ~m.account.active]
<1>1. /\ p # <<>> /\ Head(p) = "toggle" /\ Proceed(c, m) /\ made' = made
      /\ World'.a = (IF Own(World, m) THEN b ELSE World.a)
      /\ World'.g = World.g /\ World'.p = World.p
      /\ World'.pc = World.pc /\ World'.cc = World.cc
      /\ World'.l = World.l /\ World'.s = World.s
  BY DEF Toggle, Done, At, World, cacheVars, ghostVars, Mine, Own
<1>2. Knows(Clean, World, p, o, m) /\ Tables(World) /\ made' \in Nat
  BY <1>1, Standing
<1> HIDE DEF p, o, m
<1>3. Toggling(Clean, World, p, m)
  BY <1>1, <1>2, Asked
<1>4. p \in {Off0, On0} /\ KnownUser(m) /\ (Clean => Fine(World) /\ Same(World, m))
  BY <1>1, <1>3, Heads DEF Toggling
<1>5. m.account \in Account /\ IsMem(m)
  BY <1>4 DEF KnownUser
<1>6. World.a = account
  BY Worlds
<1>7. Own(World, m) => account \in Account
  BY <1>2, <1>6 DEF Own, Tables
<1>8. Own(World, m) =>
        b \in Account /\ b.id = account.id /\ b.companies = account.companies /\ b.default = account.default
  BY <1>5, <1>7 DEF Account
<1> HIDE DEF b
<1>9. Own(World, m) => b # NoAccount
  BY <1>8, Nobody
<1>10. /\ World'.a \in Account \cup {NoAccount} /\ World'.g \subseteq Roles /\ World'.l \subseteq Roles /\ World'.s \in BOOLEAN
  BY <1>1, <1>2, <1>8 DEF Tables
<1>11. Tables(World')
  BY <1>1, <1>2, <1>10, Written, Zenon
<1>12. Clean => Fine(World') /\ Own(World', m)
  <2> SUFFICES ASSUME Clean PROVE Fine(World') /\ Own(World', m)
    OBVIOUS
  <2>1. Fine(World) /\ Same(World, m) /\ Own(World, m) /\ World.a # NoAccount
    BY <1>4 DEF Same, Own
  <2>2. /\ World'.a = b /\ World'.a # NoAccount /\ World'.a.id = World.a.id
        /\ World'.a.companies = World.a.companies /\ World'.a.default = World.a.default
    BY <1>1, <1>6, <1>8, <1>9, <2>1
  <2>3. Home(World')
    BY <1>1, <2>1, <2>2 DEF Fine, Home, HomeOK, CompaniesOf
  <2>4. FreshPrivileges(World')
    BY <1>1, <2>1 DEF Fine, FreshPrivileges, Current
  <2>5. FreshCompanies(World')
    BY <1>1, <2>1, <2>2 DEF Fine, FreshCompanies
  <2>6. Own(World', m)
    BY <2>1, <2>2 DEF Own
  <2> QED
    BY <2>3, <2>4, <2>5, <2>6 DEF Fine
<1>13. CASE p = Off0
  <2>1. Toggling(Clean, World', Off1, m)
    BY <1>4, <1>12 DEF Toggling
  <2>2. Begins(p, "toggle", Off1) /\ Off1 # <<>>
    BY <1>13, ShortPlans, Zenon DEF Begins
  <2> QED
    BY <1>1, <1>2, <1>11, <2>1, <2>2, GoesTo, Zenon DEF Knows, p, o, m
<1>14. CASE p = On0
  <2>1. Refreshing(Clean, World', Ref0, m)
    BY <1>5, <1>12, Zenon DEF Refreshing, Fine
  <2>2. Begins(p, "toggle", Ref0) /\ Ref0 # <<>>
    BY <1>14, LongPlans, RefreshPlans, Zenon DEF Begins
  <2> QED
    BY <1>1, <1>2, <1>11, <2>1, <2>2, GoesTo, Zenon DEF Knows, p, o, m
<1> QED
  BY <1>4, <1>13, <1>14

LEMMA LeavesCompany ==
  ASSUME MemberInv, NEW c \in Requests, LeaveCompany(c)
  PROVE  MemberInv'
<1> DEFINE p == plan[c]
<1> DEFINE o == req[c]
<1> DEFINE m == mem[c]
<1> DEFINE b == [account EXCEPT !.companies = @ \ {o.company}]
<1>1. /\ p # <<>> /\ Head(p) = "leaveCompany" /\ Proceed(c, m) /\ made' = made
      /\ World'.a = (IF Own(World, m) THEN b ELSE World.a)
      /\ World'.g = World.g /\ World'.p = World.p
      /\ World'.pc = World.pc /\ World'.cc = World.cc
      /\ World'.l = World.l /\ World'.s = World.s
  BY DEF LeaveCompany, Done, At, World, cacheVars, ghostVars, Mine, Own
<1>2. Knows(Clean, World, p, o, m) /\ Tables(World) /\ made' \in Nat
  BY <1>1, Standing
<1> HIDE DEF p, o, m
<1>3. Leaving(Clean, World, p, o, m)
  BY <1>1, <1>2, Asked
<1>4. /\ p = Gone1 /\ KnownUser(m) /\ o.company \in Companies
      /\ Clean => Home(World) /\ Own(World, m) /\ NoRolesIn(World, o.company)
  BY <1>1, <1>3, Heads DEF Leaving
<1>5. World.a = account
  BY Worlds
<1>6. Own(World, m) => account \in Account
  BY <1>2, <1>5 DEF Own, Tables
<1>7. Own(World, m) =>
        /\ b \in Account /\ b.id = account.id /\ b.companies = account.companies \ {o.company}
  BY <1>6 DEF Account
<1> HIDE DEF b
<1>8. Own(World, m) => b # NoAccount
  BY <1>7, Nobody
<1>9. /\ World'.a \in Account \cup {NoAccount} /\ World'.g \subseteq Roles /\ World'.l \subseteq Roles
      /\ World'.s \in BOOLEAN
  BY <1>1, <1>2, <1>7 DEF Tables
<1>10. Tables(World')
  BY <1>1, <1>2, <1>9, Written, Zenon
<1>11. Own(World, m) => Own(World', m)
  BY <1>1, <1>5, <1>7, <1>8 DEF Own
<1>12. Clean => Own(World', m) /\ \A r \in World'.g \ World'.l : HomeOf[r] \in World'.a.companies
  <2> SUFFICES ASSUME Clean
               PROVE  Own(World', m) /\ \A r \in World'.g \ World'.l : HomeOf[r] \in World'.a.companies
    OBVIOUS
  <2>1. Home(World) /\ Own(World, m) /\ NoRolesIn(World, o.company) /\ World.a # NoAccount
    BY <1>4 DEF Own
  <2>2. \A r \in World.g \ World.l : HomeOf[r] \in World.a.companies /\ HomeOf[r] # o.company
    BY <2>1 DEF Home, HomeOK, CompaniesOf, NoRolesIn
  <2>3. World'.a.companies = World.a.companies \ {o.company}
    BY <1>1, <1>5, <1>7, <2>1
  <2> QED
    BY <1>1, <1>11, <2>1, <2>2, <2>3
<1>13. Leaving(Clean, World', Gone2, o, m)
  BY <1>4, <1>12, Zenon DEF Leaving
<1>14. Begins(p, "leaveCompany", Gone2) /\ Gone2 # <<>>
  BY <1>4, ShortPlans, Zenon DEF Begins
<1> QED
  BY <1>1, <1>2, <1>10, <1>13, <1>14, GoesTo, Zenon DEF Knows, p, o, m

LEMMA RemovesUser ==
  ASSUME MemberInv, NEW c \in Requests, RemoveUser(c)
  PROVE  MemberInv'
<1> DEFINE p == plan[c]
<1> DEFINE o == req[c]
<1> DEFINE m == mem[c]
<1>1. /\ p # <<>> /\ Head(p) = "deleteUser" /\ Proceed(c, m) /\ made' = made
      /\ World'.a = (IF Own(World, m) THEN NoAccount ELSE World.a)
      /\ World'.g = (IF Own(World, m) THEN {} ELSE World.g) /\ World'.p = World.p
      /\ World'.pc = World.pc /\ World'.cc = World.cc
      /\ World'.l = (IF Own(World, m) THEN {} ELSE World.l)
      /\ World'.s = (IF Own(World, m) THEN FALSE ELSE World.s)
  BY DEF RemoveUser, Done, At, World, cacheVars, ghostVars, Mine, Own
<1>2. Knows(Clean, World, p, o, m) /\ Tables(World) /\ made' \in Nat
  BY <1>1, Standing
<1> HIDE DEF p, o, m
<1>3. Leaving(Clean, World, p, o, m)
  BY <1>1, <1>2, Asked
<1>4. p = Gone2 /\ (Clean => Own(World, m))
  BY <1>1, <1>3, Heads DEF Leaving
<1>5. World'.a \in Account \cup {NoAccount} /\ World'.g \subseteq Roles /\ World'.l \subseteq Roles
      /\ World'.s \in BOOLEAN
  BY <1>1, <1>2 DEF Tables
<1>6. Tables(World')
  BY <1>1, <1>2, <1>5, Written, Zenon
<1>7. Clean => Fine(World')
  <2> SUFFICES ASSUME Clean PROVE Fine(World')
    OBVIOUS
  <2>1. World'.a = NoAccount /\ World'.g = {}
    BY <1>1, <1>4
  <2>2. Current(World') = {}
    BY <2>1, ViewEmpty DEF Current
  <2> QED
    BY <2>1, <2>2 DEF Fine, Home, HomeOK, FreshPrivileges, FreshCompanies
<1>8. Begins(p, "deleteUser", <<>>)
  BY <1>4, ShortPlans, Zenon
<1> QED
  BY <1>1, <1>2, <1>6, <1>7, <1>8, GoesLast, Zenon DEF p, m

\* The refused delete ends with what it has taken away.
LEMMA RefusesDelete ==
  ASSUME MemberInv, NEW c \in Requests, RefuseDelete(c)
  PROVE  MemberInv'
<1> DEFINE p == plan[c]
<1> DEFINE o == req[c]
<1> DEFINE m == mem[c]
<1>1. /\ p # <<>> /\ Head(p) = "deleteUser" /\ Continue(c, <<>>, <<>>) /\ failed' = failed
      /\ made' = made /\ Own(World, m)
      /\ World'.a = World.a /\ World'.g = World.g /\ World'.p = World.p
      /\ World'.pc = World.pc /\ World'.cc = World.cc
      /\ World'.l = World.l /\ World'.s = TRUE
  BY DEF RefuseDelete, End, At, World, cacheVars, Mine, Own
<1>2. Knows(Clean, World, p, o, m) /\ Tables(World) /\ made' \in Nat
  BY <1>1, Standing
<1> HIDE DEF p, o, m
<1>3. Leaving(Clean, World, p, o, m)
  BY <1>1, <1>2, Asked
<1>4. Clean => \A r \in World.g \ World.l : HomeOf[r] \in World.a.companies
  BY <1>1, <1>3, Heads DEF Leaving
<1>5. World'.a \in Account \cup {NoAccount} /\ World'.g \subseteq Roles /\ World'.l \subseteq Roles
      /\ World'.s \in BOOLEAN
  BY <1>1, <1>2 DEF Tables
<1>6. Tables(World')
  BY <1>1, <1>2, <1>5, Written, Zenon
<1>7. Clean => Fine(World')
  <2>1. World'.a # NoAccount
    BY <1>1 DEF Own
  <2> QED
    BY <1>1, <1>4, <2>1 DEF Fine, Home, HomeOK, CompaniesOf, FreshPrivileges, FreshCompanies
<1>8. <<>> \in Seq(Statements) /\ ~Idle(c)
  BY <1>1 DEF Idle, p
<1>9. failed' \in BOOLEAN /\ (failed => failed')
  BY <1>1, Standing
<1> QED
  BY <1>1, <1>2, <1>6, <1>7, <1>8, <1>9, GoesOn, Zenon

\* A role is saved: the view of a user who does not hold it stays what it was.
LEMMA SavesRole ==
  ASSUME MemberInv, NEW c \in Requests, SaveRole(c)
  PROVE  MemberInv'
<1> DEFINE p == plan[c]
<1> DEFINE o == req[c]
<1> DEFINE m == mem[c]
<1>1. /\ p # <<>> /\ Head(p) = "saveRole" /\ Proceed(c, m) /\ made' = made
      /\ World'.a = World.a /\ World'.g = World.g
      /\ World'.p = [World.p EXCEPT ![o.role] = m.privileges]
      /\ World'.pc = World.pc /\ World'.cc = World.cc
      /\ World'.l = World.l /\ World'.s = World.s
  BY DEF SaveRole, Done, At, World, cacheVars, ghostVars
<1>2. Knows(Clean, World, p, o, m) /\ Tables(World) /\ made' \in Nat
  BY <1>1, Standing
<1> HIDE DEF p, o, m
<1>3. Assigning(Clean, World, p, o, m)
  BY <1>1, <1>2, Asked
<1>4. /\ p = Assign0 /\ IsMem(m) /\ o.role \in Roles /\ m.privileges \subseteq Privileges
      /\ Clean => Fine(World)
  BY <1>1, <1>3, Heads DEF Assigning
<1>5. World.p \in [Roles -> SUBSET Privileges] /\ World.g \subseteq Roles
  BY <1>2, Zenon DEF Tables
<1>6. World'.p \in [Roles -> SUBSET Privileges]
  BY <1>1, <1>4, <1>5
<1>7. Tables(World')
  BY <1>1, <1>2, <1>6, Zenon DEF Tables
<1>8. o.role \notin World.g => Current(World') = Current(World)
  <2> SUFFICES ASSUME o.role \notin World.g PROVE Current(World') = Current(World)
    OBVIOUS
  <2>1. \A r \in World.g : World'.p[r] = World.p[r]
    BY <1>1, <1>5
  <2>2. View(World.g, World'.p) = View(World.g, World.p)
    BY <2>1, ViewSame, Zenon
  <2> QED
    BY <1>1, <2>2 DEF Current
<1>9. Clean => Home(World') /\ FreshCompanies(World') /\ (o.role \notin World'.g => FreshPrivileges(World'))
  BY <1>1, <1>4, <1>8 DEF Fine, Home, FreshCompanies, FreshPrivileges
<1>10. Assigning(Clean, World', Assign1, o, m)
  BY <1>4, <1>9, Zenon DEF Assigning
<1>11. Begins(p, "saveRole", Assign1) /\ Assign1 # <<>>
  BY <1>4, ShortPlans, Zenon DEF Begins
<1> QED
  BY <1>1, <1>2, <1>7, <1>10, <1>11, GoesTo, Zenon DEF Knows, p, o, m

-----------------------------------------------------------------------------
(* Requests *)

\* What a request finds, and what it has loaded of it
LEMMA Finds ==
  ASSUME MemberInv
  PROVE  /\ Clean /\ Quiet => Fine(World)
         /\ Tables(World) /\ World.a = account /\ World.g = grants /\ World.p = granted
         /\ IsMem(Loaded) /\ Loaded.account = account /\ Loaded.grants = grants
         /\ account # NoAccount => KnownUser(Loaded) /\ Same(World, Loaded) /\ account \in Account
<1>1. (Clean /\ Quiet => Fine(World)) /\ Tables(World)
  BY Zenon DEF MemberInv
<1>2. account \in Account \cup {NoAccount} /\ grants \subseteq Roles
  BY <1>1, Worlds DEF Tables
<1>3. Loaded.account = account /\ Loaded.grants = grants
      /\ DOMAIN Loaded = {"account", "grants", "privileges", "companies"}
  BY DEF Loaded, NoMemory
<1>4. IsMem(Loaded)
  BY <1>2, <1>3 DEF IsMem
<1>5. account # NoAccount => KnownUser(Loaded) /\ Same(World, Loaded) /\ account \in Account
  BY <1>2, <1>3, <1>4, Worlds DEF KnownUser, Same, Own
<1> QED
  BY <1>1, <1>3, <1>4, <1>5, Worlds

\* The account in memory, changed before it is saved
LEMMA Changed ==
  ASSUME NEW m, KnownUser(m), NEW b \in Account
  PROVE  LET x == [m EXCEPT !.account = b] IN KnownUser(x) /\ x.account = b /\ x.grants = m.grants
BY DEF KnownUser, IsMem

LEMMA Creates ==
  ASSUME MemberInv, NEW c \in Requests, CreateUser(c)
  PROVE  MemberInv'
<1>1. PICK k \in Companies : k \notin CompaniesOf(account)
        /\ \E R \in SUBSET {r \in Roles : HomeOf[r] = k} :
             Ask(c, [op |-> "create", company |-> k, roles |-> R], Loaded, <<"commitUser">> \o Refresh)
  BY Zenon DEF CreateUser
<1>2. PICK R \in SUBSET {r \in Roles : HomeOf[r] = k} :
        Ask(c, [op |-> "create", company |-> k, roles |-> R], Loaded, <<"commitUser">> \o Refresh)
  BY <1>1
<1> DEFINE o == [op |-> "create", company |-> k, roles |-> R]
<1>3. AskedRoles(o)
  BY DEF AskedRoles
<1>4. Ask(c, o, Loaded, Create0)
  BY <1>2, Zenon DEF Create0
<1> HIDE DEF o
<1>5. Clean /\ Quiet => Fine(World) /\ Loaded.account = World.a /\ Loaded.grants = World.g
  BY Finds
<1>6. Creating(Clean /\ Quiet, World, Create0, o, Loaded)
  BY <1>3, <1>5, Finds, Zenon DEF Creating
<1>7. Create0 \in Seq(Statements) /\ Create0 # <<>>
  BY LongPlans, Zenon DEF Begins
<1> QED
  BY <1>4, <1>6, <1>7, Arrives, Zenon DEF Knows

LEMMA Updates ==
  ASSUME MemberInv, NEW c \in Requests, UpdateUser(c)
  PROVE  MemberInv'
<1> DEFINE Asks(k, R, b, p) ==
      Ask(c, [op |-> "update", company |-> k, roles |-> R], [Loaded EXCEPT !.account.active = b],
          (p \o <<"saveUser">>) \o Refresh)
<1>1. account # NoAccount
  BY Zenon DEF UpdateUser
<1>2. PICK k \in Companies, b \in BOOLEAN : \E R \in SUBSET {r \in Roles : HomeOf[r] = k} :
         Asks(k, R, b, <<"deleteRoles", "insertRoles", "reloadRoles">>) \/ Asks(k, R, b, <<>>)
  BY DEF UpdateUser
<1>3. PICK R \in SUBSET {r \in Roles : HomeOf[r] = k} :
         Asks(k, R, b, <<"deleteRoles", "insertRoles", "reloadRoles">>) \/ Asks(k, R, b, <<>>)
  BY <1>2
<1> DEFINE o == [op |-> "update", company |-> k, roles |-> R]
<1> DEFINE a == [account EXCEPT !.active = b]
<1> DEFINE x == [Loaded EXCEPT !.account = a]
<1>4. KnownUser(Loaded) /\ Same(World, Loaded) /\ account \in Account
  BY <1>1, Finds
<1>5. /\ a \in Account /\ a.id = account.id /\ a.companies = account.companies
      /\ a.default = account.default
  BY <1>4 DEF Account
<1>6. [Loaded EXCEPT !.account.active = b] = x
  BY Finds
<1>7. AskedRoles(o) /\ o.op = "update" /\ o.op \in {"update", "company", "default"}
  BY DEF AskedRoles
<1> HIDE DEF a
<1>8. KnownUser(x) /\ x.account = a /\ x.grants = grants
  BY <1>4, <1>5, Changed, Finds
<1>9. Same(World, x)
  BY <1>1, <1>5, <1>8, Finds DEF Same, Own
<1>10. CASE Asks(k, R, b, <<"deleteRoles", "insertRoles", "reloadRoles">>)
  <2>1. Ask(c, o, x, Roles0)
    BY <1>6, <1>10, Zenon DEF Roles0
  <2> HIDE DEF o, x
  <2>2. Clean /\ Quiet => Home(World) /\ Same(World, x)
    BY <1>9, Finds DEF Fine
  <2>3. Updating(Clean /\ Quiet, World, Roles0, o, x)
    BY <1>7, <1>8, <2>2, Zenon DEF Updating
  <2>4. Roles0 \in Seq(Statements) /\ Roles0 # <<>>
    BY LongPlans, Zenon DEF Begins
  <2> QED
    BY <2>1, <2>3, <2>4, Arrives, Zenon DEF Knows
<1>11. CASE Asks(k, R, b, <<>>)
  <2>1. <<>> \o <<"saveUser">> = <<"saveUser">>
    OBVIOUS
  <2>2. Ask(c, o, x, Save0)
    BY <1>6, <1>11, <2>1, Zenon DEF Save0
  <2> HIDE DEF o, x
  <2>3. x.account # NoAccount
    BY <1>5, <1>8, Nobody
  <2>4. Clean /\ Quiet => Saves(World, o, x)
    BY <1>1, <1>8, <1>9, <2>3, Finds DEF Fine, Home, HomeOK, CompaniesOf, Saves, Same
  <2>5. Saving(Clean /\ Quiet, World, Save0, o, x)
    BY <1>7, <1>8, <2>4, Zenon DEF Saving
  <2>6. Save0 \in Seq(Statements) /\ Save0 # <<>>
    BY LongPlans, Zenon DEF Begins
  <2> QED
    BY <2>2, <2>5, <2>6, Arrives, Zenon DEF Knows
<1> QED
  BY <1>3, <1>10, <1>11

LEMMA Disables ==
  ASSUME MemberInv, NEW c \in Requests, DisableUser(c)
  PROVE  MemberInv'
<1>1. PICK k \in CompaniesOf(account) : Ask(c, [op |-> "disable", company |-> k], Loaded,
         <<"toggle">> \o IF account.active THEN <<"dropPrivileges", "dropCompanies">> ELSE Refresh)
  BY Zenon DEF DisableUser
<1> DEFINE o == [op |-> "disable", company |-> k]
<1>2. account # NoAccount
  BY <1>1 DEF CompaniesOf
<1>3. Ask(c, o, Loaded, Off0) \/ Ask(c, o, Loaded, On0)
  <2>1. CASE account.active
    BY <1>1, <2>1, Zenon DEF Off0
  <2>2. CASE ~account.active
    BY <1>1, <2>2, Zenon DEF On0
  <2> QED
    BY <2>1, <2>2
<1> HIDE DEF o
<1>4. KnownUser(Loaded) /\ (Clean /\ Quiet => Fine(World) /\ Same(World, Loaded))
  BY <1>2, Finds
<1>5. Toggling(Clean /\ Quiet, World, Off0, Loaded) /\ Toggling(Clean /\ Quiet, World, On0, Loaded)
  <2>1. Off0 \in {Off0, On0} /\ On0 \in {Off0, On0}
    OBVIOUS
  <2> QED
    BY <1>4, <2>1, Zenon DEF Toggling
<1>6. Off0 \in Seq(Statements) /\ Off0 # <<>> /\ On0 \in Seq(Statements) /\ On0 # <<>>
  BY LongPlans, ShortPlans, Zenon DEF Begins
<1> QED
  BY <1>3, <1>5, <1>6, Arrives, Zenon DEF Knows

LEMMA Deletes ==
  ASSUME MemberInv, NEW c \in Requests, DeleteUser(c)
  PROVE  MemberInv'
<1>1. PICK k \in CompaniesOf(account) : Ask(c, [op |-> "delete", company |-> k], Loaded,
         <<"deleteRoles", "leaveCompany", "deleteUser">>)
  BY Zenon DEF DeleteUser
<1> DEFINE o == [op |-> "delete", company |-> k]
<1>2. account # NoAccount /\ k \in account.companies /\ o.company = k
  BY <1>1 DEF CompaniesOf
<1>3. KnownUser(Loaded) /\ Same(World, Loaded) /\ account \in Account
  BY <1>2, Finds
<1>4. o.company \in Companies
  BY <1>2, <1>3 DEF Account
<1>5. Ask(c, o, Loaded, Gone0)
  BY <1>1, Zenon DEF Gone0
<1> HIDE DEF o
<1>6. Clean /\ Quiet => Home(World) /\ Same(World, Loaded)
  BY <1>3, Finds DEF Fine
<1>7. Leaving(Clean /\ Quiet, World, Gone0, o, Loaded)
  BY <1>3, <1>4, <1>6, Zenon DEF Leaving
<1>8. Gone0 \in Seq(Statements) /\ Gone0 # <<>>
  BY ShortPlans, Zenon DEF Begins
<1> QED
  BY <1>5, <1>7, <1>8, Arrives, Zenon DEF Knows

LEMMA SetsDefault ==
  ASSUME MemberInv, NEW c \in Requests, SetDefaultCompany(c)
  PROVE  MemberInv'
<1>1. PICK k \in CompaniesOf(account) : Ask(c, [op |-> "default", company |-> k],
         [Loaded EXCEPT !.account.default = k], <<"saveUser">>)
  BY Zenon DEF SetDefaultCompany
<1> DEFINE o == [op |-> "default", company |-> k]
<1> DEFINE b == [account EXCEPT !.default = k]
<1> DEFINE x == [Loaded EXCEPT !.account = b]
<1>2. account # NoAccount /\ k \in account.companies
  BY <1>1 DEF CompaniesOf
<1>3. KnownUser(Loaded) /\ Same(World, Loaded) /\ account \in Account
  BY <1>2, Finds
<1>4. b \in Account /\ b.id = account.id /\ b.companies = account.companies /\ b.default = k
  BY <1>2, <1>3 DEF Account
<1>5. [Loaded EXCEPT !.account.default = k] = x
  BY Finds
<1>6. Ask(c, o, x, Default0)
  BY <1>1, <1>5, Zenon DEF Default0
<1>7. o.op = "default" /\ o.op \in {"update", "company", "default"} /\ o.op # "update"
  OBVIOUS
<1> HIDE DEF o, b
<1>8. KnownUser(x) /\ x.account = b
  BY <1>3, <1>4, Changed
<1> HIDE DEF x
<1>9. Clean /\ Quiet => Saves(World, o, x) /\ Fine(World) /\ x.account.companies = World.a.companies
  <2> SUFFICES ASSUME Clean /\ Quiet
               PROVE  Saves(World, o, x) /\ Fine(World) /\ x.account.companies = World.a.companies
    OBVIOUS
  <2>1. Fine(World) /\ World.a = account
    BY Finds
  <2>2. HomeOK(x.account, World.g, World.l, World.s)
    BY <1>2, <1>4, <1>8, <2>1, Nobody DEF Fine, Home, HomeOK, CompaniesOf
  <2>3. Own(World, x)
    BY <1>2, <1>4, <1>8, <2>1 DEF Own
  <2> QED
    BY <1>4, <1>7, <1>8, <2>1, <2>2, <2>3 DEF Saves
<1>10. Saving(Clean /\ Quiet, World, Default0, o, x)
  BY <1>7, <1>8, <1>9, Zenon DEF Saving
<1>11. Default0 \in Seq(Statements) /\ Default0 # <<>>
  BY ShortPlans, Zenon DEF Begins
<1> QED
  BY <1>6, <1>10, <1>11, Arrives, Zenon DEF Knows

LEMMA CreatesCompany ==
  ASSUME MemberInv, NEW c \in Requests, CreateCompany(c)
  PROVE  MemberInv'
<1>1. account # NoAccount
  BY Zenon DEF CreateCompany
<1>2. PICK k \in Companies \ account.companies : Ask(c, [op |-> "company", company |-> k],
         [Loaded EXCEPT !.account.companies = @ \cup {k}], <<"saveUser">> \o Refresh)
  BY Zenon DEF CreateCompany
<1> DEFINE o == [op |-> "company", company |-> k]
<1> DEFINE b == [account EXCEPT !.companies = account.companies \cup {k}]
<1> DEFINE x == [Loaded EXCEPT !.account = b]
<1>3. KnownUser(Loaded) /\ Same(World, Loaded) /\ account \in Account
  BY <1>1, Finds
<1>4. b \in Account /\ b.id = account.id /\ b.companies = account.companies \cup {k}
      /\ b.default = account.default
  BY <1>3 DEF Account
<1>5. [Loaded EXCEPT !.account.companies = @ \cup {k}] = x
  BY Finds
<1>6. Ask(c, o, x, Save0)
  BY <1>2, <1>5, Zenon DEF Save0
<1>7. o.op \in {"update", "company", "default"} /\ o.op # "update"
  OBVIOUS
<1> HIDE DEF o, b
<1>8. KnownUser(x) /\ x.account = b
  BY <1>3, <1>4, Changed
<1> HIDE DEF x
<1>9. Clean /\ Quiet => Saves(World, o, x)
  <2> SUFFICES ASSUME Clean /\ Quiet PROVE Saves(World, o, x)
    OBVIOUS
  <2>1. Fine(World) /\ World.a = account
    BY Finds
  <2>2. HomeOK(x.account, World.g, World.l, World.s)
    BY <1>1, <1>4, <1>8, <2>1, Nobody DEF Fine, Home, HomeOK, CompaniesOf
  <2>3. Own(World, x)
    BY <1>1, <1>4, <1>8, <2>1 DEF Own
  <2> QED
    BY <1>7, <2>2, <2>3 DEF Saves
<1>10. Saving(Clean /\ Quiet, World, Save0, o, x)
  BY <1>7, <1>8, <1>9, Zenon DEF Saving
<1>11. Save0 \in Seq(Statements) /\ Save0 # <<>>
  BY LongPlans, Zenon DEF Begins
<1> QED
  BY <1>6, <1>10, <1>11, Arrives, Zenon DEF Knows

LEMMA AssignsPrivilege ==
  ASSUME MemberInv, NEW c \in Requests, AssignPrivilege(c)
  PROVE  MemberInv'
<1>1. PICK r \in Roles : \E q \in Privileges : Ask(c, [op |-> "assign", role |-> r],
         [NoMemory EXCEPT !.privileges =
            IF q \in granted[r] THEN granted[r] \ {q} ELSE granted[r] \cup {q}],
         <<"saveRole", "findAffected", "readPrivileges", "putIfAny">>)
  BY Zenon DEF AssignPrivilege
<1>2. PICK q \in Privileges : Ask(c, [op |-> "assign", role |-> r],
         [NoMemory EXCEPT !.privileges =
            IF q \in granted[r] THEN granted[r] \ {q} ELSE granted[r] \cup {q}],
         <<"saveRole", "findAffected", "readPrivileges", "putIfAny">>)
  BY <1>1
<1> DEFINE o == [op |-> "assign", role |-> r]
<1> DEFINE Q == IF q \in granted[r] THEN granted[r] \ {q} ELSE granted[r] \cup {q}
<1> DEFINE x == [NoMemory EXCEPT !.privileges = Q]
<1>3. Ask(c, o, x, Assign0) /\ o.role \in Roles
  BY <1>2, Zenon DEF Assign0
<1>4. granted \in [Roles -> SUBSET Privileges]
  BY Finds DEF Tables
<1>5. Q \subseteq Privileges
  BY <1>4
<1> HIDE DEF o, Q
<1>6. IsMem(x) /\ x.privileges = Q
  BY DEF IsMem, NoMemory
<1> HIDE DEF x
<1>7. Assigning(Clean /\ Quiet, World, Assign0, o, x)
  BY <1>3, <1>5, <1>6, Finds, Zenon DEF Assigning
<1>8. Assign0 \in Seq(Statements) /\ Assign0 # <<>>
  BY ShortPlans, Zenon DEF Begins
<1> QED
  BY <1>3, <1>7, <1>8, Arrives, Zenon DEF Knows

LEMMA UpdatesRole ==
  ASSUME MemberInv, NEW c \in Requests, UpdateRole(c)
  PROVE  MemberInv'
<1>1. PICK r \in Roles : Ask(c, [op |-> "assign", role |-> r],
         [NoMemory EXCEPT !.privileges = granted[r]],
         <<"findAffected", "readPrivileges", "putIfAny">>)
  BY Zenon DEF UpdateRole
<1> DEFINE o == [op |-> "assign", role |-> r]
<1> DEFINE x == [NoMemory EXCEPT !.privileges = granted[r]]
<1>2. Ask(c, o, x, Assign1) /\ o.role \in Roles
  BY <1>1, Zenon DEF Assign1
<1>3. IsMem(x)
  BY DEF IsMem, NoMemory
<1> HIDE DEF o, x
<1>4. Clean /\ Quiet => Home(World) /\ FreshCompanies(World) /\ FreshPrivileges(World)
  BY Finds DEF Fine
<1>5. Assigning(Clean /\ Quiet, World, Assign1, o, x)
  BY <1>2, <1>3, <1>4, Zenon DEF Assigning
<1>6. Assign1 \in Seq(Statements) /\ Assign1 # <<>>
  BY ShortPlans, Zenon DEF Begins
<1> QED
  BY <1>2, <1>5, <1>6, Arrives, Zenon DEF Knows

\* Logging in, the guard of a request and the start of the process
LEMMA Looks ==
  ASSUME MemberInv, NEW c \in Requests, Login(c) \/ Guard(c) \/ Warm(c)
  PROVE  MemberInv'
<1>1. \E o : Ask(c, o, Loaded, Login0) \/ Ask(c, o, Loaded, Guard0) \/ Ask(c, o, Loaded, Warm0)
  <2>1. Login(c) => \E o : Ask(c, o, Loaded, Login0)
    BY Zenon DEF Login, Login0
  <2>2. Guard(c) => \E o : Ask(c, o, Loaded, Guard0)
    BY Zenon DEF Guard, Guard0
  <2>3. Warm(c) => \E o : Ask(c, o, Loaded, Warm0)
    BY Zenon DEF Warm, Warm0
  <2> QED
    BY <2>1, <2>2, <2>3, Zenon
<1>2. PICK o : Ask(c, o, Loaded, Login0) \/ Ask(c, o, Loaded, Guard0) \/ Ask(c, o, Loaded, Warm0)
  BY <1>1, Zenon
<1>3. IsMem(Loaded) /\ (Clean /\ Quiet => Fine(World))
  BY Finds, Zenon
<1>4. /\ Filling(Clean /\ Quiet, World, Login0, Loaded)
      /\ Filling(Clean /\ Quiet, World, Guard0, Loaded)
      /\ Filling(Clean /\ Quiet, World, Warm0, Loaded)
  BY <1>3 DEF Filling
<1>5. /\ Login0 \in Seq(Statements) /\ Login0 # <<>>
      /\ Guard0 \in Seq(Statements) /\ Guard0 # <<>>
      /\ Warm0 \in Seq(Statements) /\ Warm0 # <<>>
  BY ShortPlans, Zenon DEF Begins
<1> QED
  BY <1>2, <1>4, <1>5, Arrives, Zenon DEF Knows

-----------------------------------------------------------------------------
(* The invariant *)

LEMMA InitMember == Init => MemberInv
<1> SUFFICES ASSUME Init PROVE MemberInv
  OBVIOUS
<1>1. \A c \in Requests : plan[c] = <<>>
  BY DEF Init, InitRequests
<1>2. plan \in [Requests -> Seq(Statements)]
  BY DEF Init, InitRequests
<1>3. made \in Nat
  BY DEF Init
<1>4. RequestsOK
  <2>1. served = 0 /\ overlapped = FALSE /\ failed = FALSE
        /\ DOMAIN plan = Requests /\ DOMAIN req = Requests /\ DOMAIN mem = Requests
    BY DEF Init, InitRequests
  <2>2. served \in 0 .. MaxServed
    BY <2>1, RequestAssumption
  <2>3. overlapped \in BOOLEAN /\ failed \in BOOLEAN
    BY <2>1, Zenon
  <2> QED
    BY <2>1, <2>2, <2>3, Zenon DEF RequestsOK
<1>5. ~overlapped => Alone
  BY <1>1 DEF Alone, Idle
<1>6. granted \in [Roles -> SUBSET Privileges]
  BY DEF Init
<1>7. lent \subseteq Roles /\ stranded \in BOOLEAN
  BY DEF Init
<1>8. Tables(World) /\ Fine(World)
  <2>1. CASE made = 0
    <3>1. account = NoAccount /\ grants = {} /\ privCache = Absent /\ compCache = Absent
      BY <2>1 DEF Init
    <3>2. Tables(World)
      BY <1>6, <1>7, <3>1, Worlds DEF Tables
    <3>3. Current(World) = {}
      BY <3>1, Worlds, ViewEmpty DEF Current
    <3>4. Fine(World)
      BY <3>1, <3>3, Worlds DEF Fine, Home, HomeOK, FreshPrivileges, FreshCompanies
    <3> QED
      BY <3>2, <3>4
  <2>2. CASE made # 0
    <3>1. PICK S \in {T \in SUBSET Companies : First \in T} :
              /\ account = [id |-> 1, active |-> TRUE, companies |-> S, default |-> First]
              /\ grants = {r \in Roles : HomeOf[r] \in S}
              /\ privCache = View(grants, granted) /\ compCache = S
      BY <2>2, Zenon DEF Init
    <3>2. account \in Account
      BY <3>1 DEF Account
    <3>3. account # NoAccount
      BY <3>2, Nobody
    <3>4. grants \subseteq Roles /\ privCache \subseteq Companies \X Privileges /\ compCache \subseteq Companies
      BY <1>6, <3>1, ViewType
    <3>5. Tables(World)
      <4>1. /\ account \in Account \cup {NoAccount}
            /\ privCache \in (SUBSET (Companies \X Privileges)) \cup {Absent}
            /\ compCache \in (SUBSET Companies) \cup {Absent}
        BY <3>2, <3>4
      <4> QED
        BY <1>6, <1>7, <3>4, <4>1, Worlds, Zenon DEF Tables
    <3>6. Home(World)
      BY <3>1, <3>3, Worlds DEF Home, HomeOK, CompaniesOf
    <3>7. FreshPrivileges(World)
      BY <3>1, Worlds DEF FreshPrivileges, Current
    <3>8. FreshCompanies(World)
      BY <3>1, Worlds DEF FreshCompanies
    <3> QED
      BY <3>5, <3>6, <3>7, <3>8 DEF Fine
  <2> QED
    BY <2>1, <2>2
<1>9. \A c \in Requests : Knows(Clean, World, plan[c], req[c], mem[c])
  BY <1>1, Zenon DEF Knows
<1> QED
  BY <1>2, <1>3, <1>4, <1>5, <1>8, <1>9, Zenon DEF MemberInv

LEMMA NextMember ==
  ASSUME MemberInv, [Next]_vars
  PROVE  MemberInv'
<1>1. CASE Next
  <2>1. PICK c \in Requests : Request(c) \/ Statement(c) \/ Fail(c) \/ CacheFails(c)
    BY <1>1, Zenon DEF Next
  <2>2. CASE Request(c)
    BY <2>2, Creates, Updates, Disables, Deletes, SetsDefault, CreatesCompany, AssignsPrivilege,
       UpdatesRole, Looks, Zenon DEF Request
  <2>3. CASE CommitNewUser(c) \/ CommitKnownUser(c) \/ CommitFails(c)
             \/ DeleteRoles(c) \/ InsertRoles(c) \/ ReloadRoles(c)
    BY <2>3, CommitsNewUser, CommitsKnownUser, CommitsNothing, DeletesRoles, InsertsRoles,
       ReloadsRoles, Zenon
  <2>4. CASE SaveUser(c) \/ Toggle(c) \/ LeaveCompany(c) \/ RemoveUser(c) \/ RefuseDelete(c) \/ SaveRole(c)
    BY <2>4, SavesUser, Toggles, LeavesCompany, RemovesUser, RefusesDelete, SavesRole, Zenon
  <2>5. CASE DropPrivileges(c) \/ DropCompanies(c) \/ FindAffected(c)
             \/ GetPrivileges(c) \/ ReadPrivileges(c) \/ PutPrivileges(c)
             \/ GetCompanies(c) \/ ReadCompanies(c) \/ PutCompanies(c)
    BY <2>5, DropsPrivileges, DropsCompanies, FindsAffected, GetsPrivileges, ReadsPrivileges,
       PutsPrivileges, GetsCompanies, ReadsCompanies, PutsCompanies, Zenon
  <2>6. CASE Fail(c) \/ CacheFails(c)
    BY <2>6, Fails, CacheCallFails, Zenon
  <2> QED
    BY <2>1, <2>2, <2>3, <2>4, <2>5, <2>6, Zenon DEF Statement
<1>2. CASE UNCHANGED vars
  <2>1. /\ World' = World /\ made' = made /\ plan' = plan /\ req' = req /\ mem' = mem
        /\ served' = served /\ overlapped' = overlapped /\ failed' = failed
    BY <1>2 DEF vars, tableVars, ghostVars, cacheVars, requestVars, World
  <2>2. Clean' = Clean /\ Quiet' = Quiet /\ Alone' = Alone /\ RequestsOK' = RequestsOK
    BY <2>1 DEF Clean, Quiet, Alone, Idle, RequestsOK
  <2> QED
    BY <2>1, <2>2 DEF MemberInv
<1> QED
  BY <1>1, <1>2

\* The invariant holds: what every request has read, and what it has still to do,
\* fits the account, its roles and the two keys.
THEOREM MemberInvariant == Spec => []MemberInv
<1>1. MemberInv /\ [Next]_vars => MemberInv'
  BY NextMember
<1> QED
  BY InitMember, <1>1, PTL DEF Spec

-----------------------------------------------------------------------------
(* What the runs check *)

\* The tables, the caches and the plans have their types, whatever requests
\* interleave and fail.
THEOREM MembershipTypes == Spec => []TypeOK
<1>1. MemberInv => TypeOK
  BY Worlds, Zenon DEF MemberInv, Tables, TypeOK
<1> QED
  BY MemberInvariant, <1>1, PTL

\* While the requests of UserService, RoleService and CompanyService follow one
\* another and nothing fails, a user holds roles in its own companies only, but
\* for those updateUser gave it in one it does not belong to; and it has a
\* company, its default among them, unless the DELETE of deleteUser was refused
\* after the company was taken away.
THEOREM UsersAtHome == Spec => []AtHome
<1>1. MemberInv => AtHome
  <2> SUFFICES ASSUME MemberInv, Clean /\ Quiet
               PROVE  /\ \A r \in grants \ lent : HomeOf[r] \in CompaniesOf(account)
                      /\ account # NoAccount /\ ~stranded =>
                           account.companies # {} /\ account.default \in account.companies
    BY DEF AtHome
  <2>1. Fine(World)
    BY Finds, Zenon
  <2> QED
    BY <2>1, Worlds DEF Fine, Home, HomeOK
<1> QED
  BY MemberInvariant, <1>1, PTL

\* ... and, but for a refused DELETE, the Redis keys of its privileges and of its
\* companies hold what the views of the database say, or nothing.
THEOREM FreshCaches == Spec => []CachesFresh
<1>1. MemberInv => CachesFresh
  <2> SUFFICES ASSUME MemberInv, Clean /\ Quiet, ~stranded
               PROVE  /\ View(grants, granted) # {} => privCache \in {Absent, {}, View(grants, granted)}
                      /\ account # NoAccount => compCache \in {Absent, account.companies}
    BY DEF CachesFresh
  <2>1. Fine(World)
    BY Finds, Zenon
  <2> QED
    BY <2>1, Worlds DEF Fine, FreshPrivileges, FreshCompanies, Current
<1> QED
  BY MemberInvariant, <1>1, PTL

-----------------------------------------------------------------------------
(* PulseWeek: what is so of every state, and while each request is served   *)
(* alone                                                                    *)

USE PulseAssumption

\* What the types need besides: the entity a process works with is a row, the
\* row it works on is there, and only requests do more than create.
PulseShape ==
  /\ PulseTypes
  /\ entity \in [Processes -> Row \cup {NoRow}]
  /\ \A x \in Processes :
       /\ pc[x] # "idle" => entity[x] \in Row
       /\ pc[x] \in {"syncing", "summing", "storing", "logging", "editing"} => target[x] \in Weeks /\ x \in Callers

\* One of the requests is served, or the cron and its jobs run.
OneAtATime ==
  /\ \A c, d \in Callers : pc[c] # "idle" /\ pc[d] # "idle" => c = d
  /\ cron = "running" => \A c \in Callers : pc[c] = "idle"

OnePerPeriod ==
  \A v, w \in Weeks : week[v].user = week[w].user /\ week[v].period = week[w].period => v = w

\* What a process knows of the row it is going to write.
KnowsRow(x) ==
  /\ x \in Users => entity[x].user = x /\ entity[x].period = today
  /\ pc[x] = "creating" =>
       /\ target[x] = 0 => Of(entity[x].user, entity[x].period) = {}
       /\ target[x] # 0 =>
            /\ target[x] \in Weeks
            /\ week[target[x]].user = entity[x].user
            /\ week[target[x]].status \notin {"PENDING", "FORWARDED", "APPROVED"}
            /\ Of(entity[x].user, entity[x].period) \subseteq {target[x]}

SameWeek(e, r) == e.user = r.user /\ e.period = r.period

Changes(c) ==
  /\ SameWeek(entity[c], week[target[c]])
  /\ entity[c].status = "DRAFT" => week[target[c]].status = "DRAFT"
  /\ entity[c].to = "nobody" => week[target[c]].to = "nobody"
  /\ pc[c] = "storing" =>
       entity[c].total = SumOfPulses(target[c]) \/ (op[c] # "sync" /\ target[c] \in loose)
  /\ pc[c] = "logging" =>
       entity[c].total = week[target[c]].total + given[c] - logged[target[c]]

Summed(w) ==
  (w \notin loose /\ (\A c \in Callers : pc[c] \in {"summing", "storing"} => target[c] # w)) =>
    week[w].total = SumOfPulses(w)

CleanWeeks ==
  /\ OneAtATime /\ OnePerPeriod
  /\ \A x \in Processes : pc[x] \in {"looking", "creating"} => KnowsRow(x)
  /\ \A c \in Callers : pc[c] \in {"syncing", "summing", "storing", "logging", "editing"} => Changes(c)
  /\ \A w \in Weeks : Summed(w)

PulseInv ==
  /\ PulseShape
  /\ cron = "idle" => JobsDone
  /\ clean => CleanWeeks

\* The cron on its way: each user has a snapshot, waits for a draft or is being
\* drafted, and those that wait had none when they were listed.
Covering ==
  clean /\ cron = "running" =>
    /\ \A u \in Users : Of(u, today) # {} \/ u \in waiting \/ pc[u] # "idle"
    /\ \A u \in Users : u \in waiting => pc[u] = "idle"
    /\ \A u \in Users : u \in waiting \/ pc[u] = "looking" => Of(u, today) = {}


-----------------------------------------------------------------------------
(* Types *)

\* A bounded set of numbers has a greatest element.
LEMMA BoundedMax ==
  ASSUME NEW n \in Nat, NEW S \in SUBSET (1..n), S # {}
  PROVE  \E x \in S : \A y \in S : x >= y
<1> DEFINE T == {n - x : x \in S}
<1>0. \A x \in S : n - x \in Nat
  OBVIOUS
<1>1. T \subseteq Nat
  BY <1>0
<1>2. T # {}
  OBVIOUS
<1>3. \E x \in T : \A y \in T : ~ (<<y, x>> \in OpToRel(<, Nat))
  BY <1>1, <1>2, NatLessThanWellFounded, WFMin
<1>4. PICK x \in S : \A y \in S : ~ (<<n - y, n - x>> \in OpToRel(<, Nat))
  BY <1>3
<1>5. \A y \in S : ~ (n - y < n - x)
  BY <1>4, <1>0 DEF OpToRel
<1> QED
  BY <1>5

\* The row looked up is one of the user's, the only one of the period if there is
\* any, or none.
LEMMA CandidateRow ==
  ASSUME week \in Seq(Row), NEW u, NEW p, NEW w \in Candidates(u, p)
  PROVE  /\ w \in 0..Len(week)
         /\ w # 0 => w \in Weeks /\ week[w].user = u
         /\ Of(u, p) # {} => w \in Of(u, p)
         /\ w = 0 => Of(u, p) = {}
<1>1. Rejected(u) # {} => Max(Rejected(u)) \in Rejected(u)
  <2> SUFFICES ASSUME Rejected(u) # {} PROVE Max(Rejected(u)) \in Rejected(u)
    OBVIOUS
  <2>1. Rejected(u) \in SUBSET (1..Len(week)) /\ Len(week) \in Nat
    BY DEF Rejected, Weeks
  <2>2. \E x \in Rejected(u) : \A y \in Rejected(u) : x >= y
    BY <2>1, BoundedMax
  <2> QED
    BY <2>2 DEF Max
<1>2. \/ Of(u, p) # {} /\ w \in Of(u, p)
      \/ Of(u, p) = {} /\ w \in Rejected(u)
      \/ Of(u, p) = {} /\ w = 0
  BY <1>1 DEF Candidates
<1> QED
  BY <1>2 DEF Of, Rejected, Weeks

\* A row of week replaced by another.
LEMMA ReplacedRow ==
  ASSUME NEW S, NEW s \in Seq(S), NEW i \in DOMAIN s, NEW e \in S
  PROVE  /\ [s EXCEPT ![i] = e] \in Seq(S)
         /\ Len([s EXCEPT ![i] = e]) = Len(s)
         /\ DOMAIN [s EXCEPT ![i] = e] = DOMAIN s
BY ExceptSeq

LEMMA FreshRow ==
  ASSUME NEW x, NEW u \in Users, NEW p \in Periods, NEW s \in Statuses, NEW t \in Nat
  PROVE  /\ Fresh(x, u, p, s, t) \in Row
         /\ Fresh(x, u, p, s, t).user = u /\ Fresh(x, u, p, s, t).period = p
BY DEF Fresh, Row, Statuses

\* The pulses of a week are changed, of no other.
LEMMA Rewritten ==
  ASSUME PulseTypes, NEW c \in Callers, target[c] \in Weeks, given[c] \in Nat, Rewrite(c)
  PROVE  /\ others' \in Seq(Nat) /\ Len(others') = Len(others)
         /\ logged' \in Seq(Nat) /\ Len(logged') = Len(logged)
         /\ \A w \in Weeks \ {target[c]} : others'[w] = others[w] /\ logged'[w] = logged[w]
<1>1. /\ others \in Seq(Nat) /\ logged \in Seq(Nat) /\ Weeks = 1..Len(week)
      /\ target[c] \in DOMAIN others /\ target[c] \in DOMAIN logged
      /\ DOMAIN others = Weeks /\ DOMAIN logged = Weeks
  BY DEF PulseTypes, Weeks
<1>2. CASE \E e \in 0..others[target[c]] :
             others' = [others EXCEPT ![target[c]] = @ - e + given[c]] /\ UNCHANGED logged
  <2>1. PICK e \in 0..others[target[c]] :
          others' = [others EXCEPT ![target[c]] = others[target[c]] - e + given[c]] /\ UNCHANGED logged
    BY <1>2
  <2>2. others[target[c]] \in Nat
    BY <1>1
  <2>3. others[target[c]] - e + given[c] \in Nat
    BY <2>2
  <2>4. others' \in Seq(Nat) /\ Len(others') = Len(others)
    <3> DEFINE k == others[target[c]] - e + given[c]
    <3> HIDE DEF k
    <3>1. others' = [others EXCEPT ![target[c]] = k] /\ k \in Nat
      BY <2>1, <2>3 DEF k
    <3> QED
      BY <1>1, <3>1, ReplacedRow
  <2>5. /\ logged' \in Seq(Nat) /\ Len(logged') = Len(logged)
        /\ \A w \in Weeks \ {target[c]} : logged'[w] = logged[w]
    BY <1>1, <2>1
  <2>6. \A w \in Weeks \ {target[c]} : others'[w] = others[w]
    BY <1>1, <2>1
  <2> QED
    BY <2>4, <2>5, <2>6
<1>3. CASE logged' = [logged EXCEPT ![target[c]] = given[c]] /\ UNCHANGED others
  BY <1>1, <1>3, ReplacedRow
<1>4. CASE UNCHANGED <<others, logged>>
  BY <1>1, <1>4
<1> QED
  BY <1>2, <1>3, <1>4 DEF Rewrite

LEMMA InitShape == PulseInit => PulseShape
BY DEF PulseInit, PulseShape, PulseTypes, Processes, PCs, Ops

\* A process that starts or ends its work.
LEMMA CallShape ==
  ASSUME PulseShape, NEW c \in Callers, NEW o \in Ops, NEW step \in PCs, NEW w \in 0..Len(week),
         NEW m \in Row, NEW h \in Nat, step \in {"idle", "looking", "creating"} \/ w \in Weeks,
         Call(c, o, step, w, m, h)
  PROVE  PulseShape'
<1> USE DEF Call, Start, Goto, PulseShape, Processes, weekVars, cronVars
<1>1. PulseTypes'
  <2>1. /\ calls' \in 0..MaxCalls /\ clean' \in BOOLEAN /\ UNCHANGED <<week, others, logged, today, cron, waiting, loose>>
    BY DEF PulseTypes
  <2>2. /\ pc' \in [Processes -> PCs] /\ op' \in [Processes -> Ops]
        /\ target' \in [Processes -> 0..Len(week)] /\ given' \in [Processes -> Nat]
        /\ \A x \in Processes : entity'[x] = NoRow \/ entity'[x] \in Row
    BY SMTT(60) DEF PulseTypes
  <2> QED
    BY <2>1, <2>2 DEF PulseTypes, Weeks
<1>2. (entity \in [Processes -> Row \cup {NoRow}])'
  OBVIOUS
<1> QED
  BY <1>1, <1>2 DEF Weeks, PulseTypes

LEMMA FinishShape ==
  ASSUME PulseTypes, PulseShape, NEW x \in Processes, Finish(x)
  PROVE  /\ pc' \in [Processes -> PCs] /\ op' \in [Processes -> Ops]
         /\ target' \in [Processes -> 0..Len(week)]
         /\ given' \in [Processes -> Nat]
         /\ entity' \in [Processes -> Row \cup {NoRow}]
         /\ \A y \in Processes : entity'[y] = NoRow \/ entity'[y] \in Row
         /\ pc'[x] = "idle"
         /\ \A y \in Processes \ {x} :
              /\ pc'[y] = pc[y] /\ op'[y] = op[y] /\ target'[y] = target[y]
              /\ entity'[y] = entity[y] /\ given'[y] = given[y]
BY DEF Finish, Goto, PulseTypes, PulseShape, PCs, Ops


LEMMA NextShape == PulseShape /\ [PulseNext]_pulseVars => PulseShape'
<1> SUFFICES ASSUME PulseShape, [PulseNext]_pulseVars PROVE PulseShape'
  OBVIOUS
<1>a. PulseTypes
  BY DEF PulseShape
<1>rows. \A w \in Weeks : week[w] \in Row /\ others[w] \in Nat /\ logged[w] \in Nat
  BY <1>a DEF PulseTypes, Weeks
<1>len. Len(week) \in Nat /\ Weeks = 1..Len(week)
  BY <1>a DEF PulseTypes, Weeks
<1>dom. \A w \in Weeks : w \in DOMAIN week /\ w \in DOMAIN others /\ w \in DOMAIN logged
  BY <1>a DEF PulseTypes, Weeks
<1>1. CASE UNCHANGED pulseVars
  BY <1>1 DEF PulseShape, PulseTypes, pulseVars, weekVars, procVars, cronVars, Weeks
<1>2. CASE NextPeriod
  BY <1>2 DEF NextPeriod, PulseShape, PulseTypes, weekVars, procVars, cronVars, Weeks
<1>3. CASE List
  BY SMTT(60), <1>3 DEF List, PulseShape, PulseTypes, weekVars, procVars, Weeks
<1>4. CASE StartChunk
  <2>1. PICK C \in Chunks : \E t \in [C -> Hours \cup {0}], h \in [C -> Hours] :
       /\ entity' = [x \in Processes |->
                       IF x \in C THEN Fresh(x, x, today, "DRAFT", t[x]) ELSE entity[x]]
       /\ given' = [x \in Processes |-> IF x \in C THEN h[x] ELSE given[x]]
       /\ pc' = [x \in Processes |-> IF x \in C THEN "looking" ELSE pc[x]]
       /\ op' = [x \in Processes |-> IF x \in C THEN "create" ELSE op[x]]
       /\ waiting' = waiting \ C
    BY <1>4 DEF StartChunk
  <2>2. PICK t \in [C -> Hours \cup {0}], h \in [C -> Hours] :
       /\ entity' = [x \in Processes |->
                       IF x \in C THEN Fresh(x, x, today, "DRAFT", t[x]) ELSE entity[x]]
       /\ given' = [x \in Processes |-> IF x \in C THEN h[x] ELSE given[x]]
       /\ pc' = [x \in Processes |-> IF x \in C THEN "looking" ELSE pc[x]]
       /\ op' = [x \in Processes |-> IF x \in C THEN "create" ELSE op[x]]
       /\ waiting' = waiting \ C
    BY <2>1
  <2>3. C \subseteq Users /\ \A x \in C : h[x] \in Nat /\ t[x] \in Nat
    <3>1. C \subseteq Users
      BY <1>a DEF PulseTypes, Chunks
    <3>2. Hours \subseteq Nat /\ Hours \cup {0} \subseteq Nat
      OBVIOUS
    <3>3. \A x \in C : h[x] \in Nat
      BY <3>2
    <3>4. \A x \in C : t[x] \in Hours \cup {0}
      OBVIOUS
    <3> QED
      BY <3>1, <3>2, <3>3, <3>4, Zenon
  <2>4. \A x \in C : Fresh(x, x, today, "DRAFT", t[x]) \in Row
    <3>1. today \in Periods /\ "DRAFT" \in Statuses
      BY <1>a DEF PulseTypes, Statuses
    <3> QED
      BY <2>3, <3>1, FreshRow
  <2>5. UNCHANGED <<week, others, logged, target, cron, today, calls, clean, loose>>
    BY <1>4 DEF StartChunk, weekVars
  <2>6. /\ pc' \in [Processes -> PCs] /\ op' \in [Processes -> Ops] /\ given' \in [Processes -> Nat]
        /\ entity' \in [Processes -> Row \cup {NoRow}]
    BY <2>2, <2>3, <2>4, <1>a DEF PulseTypes, PulseShape, PCs, Ops
  <2>7. PulseTypes'
    BY <2>2, <2>5, <2>6, <1>a DEF PulseTypes, Weeks
  <2>8. \A x \in Processes :
          /\ pc'[x] # "idle" => entity'[x] \in Row
          /\ pc'[x] \in {"syncing", "summing", "storing", "logging", "editing"} => target[x] \in Weeks /\ x \in Callers
    BY <2>2, <2>3, <2>4 DEF PulseShape
  <2> QED
    BY <2>5, <2>6, <2>7, <2>8 DEF PulseShape, Weeks
<1>5. CASE EndCron
  BY <1>5 DEF EndCron, PulseShape, PulseTypes, weekVars, procVars, Weeks
<1>6. ASSUME NEW x \in Processes, Finish(x), week' \in Seq(Row), others' \in Seq(Nat), logged' \in Seq(Nat),
             Len(week') >= Len(week), Len(others') = Len(week'), Len(logged') = Len(week'),
             UNCHANGED <<cron, today, calls, clean>>, waiting' \subseteq Users, loose' \subseteq Weeks'
      PROVE  PulseShape'
  <2>1. Weeks \subseteq Weeks'
    BY <1>len, <1>6 DEF Weeks
  <2>2. target' \in [Processes -> 0..Len(week')]
    BY <1>6, <1>a, <1>len, FinishShape
  <2>3. PulseTypes'
    BY <1>6, <2>2, <1>a, FinishShape DEF PulseTypes
  <2>4. ASSUME NEW y \in Processes
        PROVE  /\ pc'[y] # "idle" => entity'[y] \in Row
               /\ pc'[y] \in {"syncing", "summing", "storing", "logging", "editing"} => target'[y] \in Weeks' /\ y \in Callers
    <3>1. CASE y = x
      BY <3>1, <1>6, <1>a, FinishShape
    <3>2. CASE y # x
      BY <3>2, <2>1, <1>6, <1>a, FinishShape DEF PulseShape
    <3> QED BY <3>1, <3>2
  <2> QED
    BY <2>3, <2>4, <1>6, <1>a, FinishShape DEF PulseShape
<1>7. ASSUME NEW u \in Users, JobFails(u) PROVE PulseShape'
  BY <1>7, <1>6, <1>a, <1>len DEF JobFails, weekVars, PulseTypes, Processes, Weeks
<1>8. ASSUME NEW x \in Processes, LookUp(x) PROVE PulseShape'
  <2>1. PICK w \in Candidates(entity[x].user, entity[x].period) :
          /\ target' = [target EXCEPT ![x] = w]
          /\ \E t \in Totals(x, w) : entity' = [entity EXCEPT ![x].total = t]
    BY <1>8 DEF LookUp
  <2>2. w \in 0..Len(week) /\ (w # 0 => w \in Weeks)
    BY <1>a, CandidateRow DEF PulseTypes
  <2>3. /\ pc[x] = "looking" /\ pc' = [pc EXCEPT ![x] = "creating"]
        /\ UNCHANGED <<week, others, logged, op, given, cron, waiting, today, calls, clean, loose>>
    BY <1>8 DEF LookUp, weekVars, cronVars, Goto
  <2>4. PICK t \in Totals(x, w) : entity' = [entity EXCEPT ![x] = [entity[x] EXCEPT !.total = t]]
    BY <2>1
  <2>5. entity[x] \in Row
    BY <2>3 DEF PulseShape
  <2>6. t \in Int
    BY <2>2, <2>5, <1>rows DEF Totals, Row
  <2>7. [entity[x] EXCEPT !.total = t] \in Row
    BY <2>5, <2>6 DEF Row
  <2>8. /\ entity' \in [Processes -> Row \cup {NoRow}]
        /\ \A y \in Processes : entity'[y] = IF y = x THEN [entity[x] EXCEPT !.total = t] ELSE entity[y]
    BY <2>4, <2>7 DEF PulseShape
  <2>9. PulseTypes'
    BY <2>1, <2>2, <2>3, <2>8, <1>a DEF PulseTypes, PCs, Weeks
  <2> QED
    BY <2>1, <2>2, <2>3, <2>7, <2>8, <2>9 DEF PulseShape, PulseTypes, Weeks
<1>9. ASSUME NEW x \in Processes, Write(x) PROVE PulseShape'
  <2>1. entity[x] \in Row /\ given[x] \in Nat
    BY <1>9, <1>a DEF Write, PulseShape, PulseTypes
  <2>2. Finish(x) /\ UNCHANGED <<cron, today, calls, clean>> /\ waiting' \subseteq Users
    BY <1>9, <1>a DEF Write, cronVars, PulseTypes
  <2>3. CASE target[x] = 0
    <3>1. week' = Append(week, entity[x]) /\ others' = Append(others, given[x]) /\ logged' = Append(logged, 0)
      BY <2>3, <1>9 DEF Write
    <3>2. week \in Seq(Row) /\ others \in Seq(Nat) /\ logged \in Seq(Nat)
          /\ Len(others) = Len(week) /\ Len(logged) = Len(week)
      BY <1>a DEF PulseTypes
    <3>3. /\ week' \in Seq(Row) /\ others' \in Seq(Nat) /\ logged' \in Seq(Nat)
          /\ Len(week') = Len(week) + 1 /\ Len(others') = Len(week) + 1 /\ Len(logged') = Len(week) + 1
      BY <2>1, <3>1, <3>2, AppendProperties
    <3>4. loose' \subseteq Weeks'
      <4>1. loose' = loose \cup {Len(week) + 1} /\ loose \subseteq 1..Len(week)
        BY <2>3, <1>9, <1>a, <1>len DEF Write, PulseTypes
      <4>2. Weeks' = 1..(Len(week) + 1)
        BY <3>3 DEF Weeks
      <4>3. 1..Len(week) \subseteq 1..(Len(week) + 1) /\ Len(week) + 1 \in 1..(Len(week) + 1)
        BY <1>len
      <4> QED
        BY <4>1, <4>2, <4>3, Zenon
    <3> QED
      BY <1>6, <2>2, <3>3, <3>4, <1>len
  <2>4. CASE target[x] # 0
    <3>1. /\ week' = [week EXCEPT ![target[x]] = entity[x]]
          /\ others' = [others EXCEPT ![target[x]] = given[x]]
          /\ logged' = [logged EXCEPT ![target[x]] = 0]
      BY <2>4, <1>9 DEF Write
    <3>d. target[x] \in DOMAIN week /\ target[x] \in DOMAIN others /\ target[x] \in DOMAIN logged
      BY <2>4, <1>a DEF PulseTypes
    <3>2. /\ week' \in Seq(Row) /\ others' \in Seq(Nat) /\ logged' \in Seq(Nat)
          /\ Len(week') = Len(week) /\ Len(others') = Len(others) /\ Len(logged') = Len(logged)
      BY <3>1, <3>d, <2>1, <1>a, ReplacedRow DEF PulseTypes
    <3>3. loose' \subseteq Weeks'
      <4>1. loose' = loose \cup {target[x]} /\ loose \subseteq Weeks
        BY <2>4, <1>9, <1>a DEF Write, PulseTypes
      <4>2. Weeks' = Weeks
        BY <3>1 DEF Weeks
      <4> QED
        BY <4>1, <4>2, <3>d DEF Weeks
    <3>4. /\ Len(week') >= Len(week) /\ Len(others') = Len(week') /\ Len(logged') = Len(week')
      BY <3>2, <1>a, <1>len DEF PulseTypes
    <3> QED
      BY <1>6, <2>2, <3>2, <3>3, <3>4
  <2> QED BY <2>3, <2>4
<1>10. ASSUME NEW c \in Callers,
              \/ BeginCreate(c) \/ Submit(c) \/ Forward(c) \/ Approve(c) \/ Reject(c)
              \/ BeginSync(c) \/ BeginEdit(c) \/ BeginLog(c)
       PROVE  PulseShape'
  <2>1. CASE BeginCreate(c)
    <3>1. PICK u \in Users, p \in {today} \cup ({today - 1} \cap Periods),
               s \in ClientStatuses \cup {"PENDING"}, t \in Hours \cup {0}, h \in Hours :
            Call(c, "create", "looking", 0, Fresh(c, u, p, s, t), h)
      BY <2>1 DEF BeginCreate
    <3>2. p \in Periods /\ h \in Nat /\ t \in Nat /\ s \in Statuses
      BY <1>a, StatusAssumption DEF PulseTypes, Statuses
    <3>3. Fresh(c, u, p, s, t) \in Row
      BY <3>2, FreshRow
    <3> QED
      BY <3>1, <3>2, <3>3, <1>len, CallShape DEF Ops, PCs
  <2>2. ASSUME NEW o \in Ops, NEW step \in PCs, NEW w \in Weeks, NEW m \in Row, NEW h \in Nat,
               Call(c, o, step, w, m, h)
        PROVE  PulseShape'
    BY <2>2, <1>len, CallShape
  <2>3. CASE Submit(c)
    BY <2>3, <2>2, <1>rows DEF Submit, Row, Statuses, Ops, PCs
  <2>4. CASE Forward(c)
    BY <2>4, <2>2, <1>rows DEF Forward, Row, Statuses, Ops, PCs
  <2>5. CASE Approve(c)
    BY <2>5, <2>2, <1>rows DEF Approve, Row, Statuses, Ops, PCs
  <2>6. CASE Reject(c)
    BY <2>6, <2>2, <1>rows DEF Reject, Row, Statuses, Ops, PCs
  <2>7. CASE BeginSync(c)
    BY <2>7, <2>2, <1>rows DEF BeginSync, Ops, PCs
  <2>8. CASE BeginLog(c)
    BY <2>8, <2>2, <1>rows DEF BeginLog, Row, Ops, PCs
  <2>9. CASE BeginEdit(c)
    BY <2>9, <2>2, <1>rows DEF BeginEdit, Ops, PCs
  <2> QED
    BY <1>10, <2>1, <2>3, <2>4, <2>5, <2>6, <2>7, <2>8, <2>9
<1>11. ASSUME NEW c \in Callers, RefuseRequest(c) PROVE PulseShape'
  BY <1>11, <1>6, <1>a, <1>len DEF RefuseRequest, weekVars, cronVars, PulseTypes, Processes, Weeks
<1>12. ASSUME NEW c \in Callers, SavePulse(c) PROVE PulseShape'
  <2>1. target[c] \in Weeks /\ given[c] \in Nat /\ entity[c] \in Row
    BY <1>12, <1>a DEF SavePulse, PulseShape, PulseTypes, Processes
  <2>2. /\ others' \in Seq(Nat) /\ Len(others') = Len(others)
        /\ logged' \in Seq(Nat) /\ Len(logged') = Len(logged)
    BY <2>1, <1>12, <1>a, Rewritten DEF SavePulse
  <2>4. /\ pc' = [pc EXCEPT ![c] = "summing"]
        /\ UNCHANGED <<week, op, target, entity, given, cron, waiting, today, calls, clean, loose>>
    BY <1>12 DEF SavePulse, Goto, cronVars
  <2>5. PulseTypes'
    BY <2>2, <2>4, <1>a DEF PulseTypes, PCs, Weeks
  <2> QED
    BY <2>1, <2>4, <2>5 DEF PulseShape, Weeks
<1>16. ASSUME NEW c \in Callers, SaveEdit(c) PROVE PulseShape'
  <2>1. target[c] \in Weeks /\ given[c] \in Nat
    BY <1>16, <1>a DEF SaveEdit, PulseShape, PulseTypes, Processes
  <2>2. /\ others' \in Seq(Nat) /\ Len(others') = Len(others)
        /\ logged' \in Seq(Nat) /\ Len(logged') = Len(logged)
    BY <2>1, <1>16, <1>a, Rewritten DEF SaveEdit
  <2>3. UNCHANGED <<week, cron, waiting, today, calls, clean>> /\ Finish(c)
    BY <1>16 DEF SaveEdit, cronVars
  <2>4. loose' = loose \cup {target[c]} /\ loose \subseteq Weeks /\ Weeks' = Weeks
    BY <1>16, <1>a, <2>3 DEF SaveEdit, PulseTypes, Weeks
  <2> QED
    <3>1. /\ week' \in Seq(Row) /\ waiting' \subseteq Users
          /\ Len(week') >= Len(week) /\ Len(others') = Len(week') /\ Len(logged') = Len(week')
      BY <2>2, <2>3, <1>a, <1>len DEF PulseTypes
    <3>2. loose' \subseteq Weeks' /\ c \in Processes
      BY <2>1, <2>4 DEF Processes
    <3> QED
      BY <1>6, <2>2, <2>3, <3>1, <3>2
<1>13. ASSUME NEW c \in Callers, SumPulses(c) PROVE PulseShape'
  <2>1. target[c] \in Weeks /\ entity[c] \in Row
    BY <1>13, <1>a DEF SumPulses, PulseShape, PulseTypes, Processes
  <2>2. SumOfPulses(target[c]) \in Nat
    BY <2>1, <1>rows DEF SumOfPulses
  <2>3. [entity[c] EXCEPT !.total = SumOfPulses(target[c])] \in Row
    BY <2>1, <2>2 DEF Row
  <2>4. /\ pc' = [pc EXCEPT ![c] = "storing"]
        /\ entity' = [entity EXCEPT ![c] = [entity[c] EXCEPT !.total = SumOfPulses(target[c])]]
        /\ UNCHANGED <<week, others, logged, op, target, given, cron, waiting, today, calls, clean, loose>>
    BY <1>13 DEF SumPulses, Goto, cronVars, weekVars
  <2>5. entity' \in [Processes -> Row \cup {NoRow}] /\ entity'[c] \in Row
    BY <2>3, <2>4 DEF PulseShape, Processes
  <2>6. PulseTypes'
    BY <2>4, <2>5, <1>a DEF PulseTypes, PCs, Weeks
  <2> QED
    BY <2>1, <2>4, <2>5, <2>6 DEF PulseShape, Weeks
<1>14. ASSUME NEW c \in Callers, Store(c) PROVE PulseShape'
  <2>1. entity[c] \in Row /\ target[c] \in Weeks
    BY <1>14, <1>a DEF Store, PulseShape, Processes
  <2>2. week' \in Seq(Row) /\ Len(week') = Len(week)
    BY <1>14, <2>1, <1>dom, <1>a, ReplacedRow DEF Store, PulseTypes
  <2>3. loose' \subseteq Weeks'
    <3>1. loose' \subseteq loose /\ loose \subseteq Weeks
      BY <1>14, <1>a DEF Store, PulseTypes
    <3>2. Weeks' = Weeks
      BY <1>14 DEF Store, Weeks
    <3> QED
      BY <3>1, <3>2
  <2> QED
    <3>1. UNCHANGED <<others, logged, cron, waiting, today, calls, clean>> /\ Finish(c)
      BY <1>14 DEF Store, cronVars
    <3>2. /\ others' \in Seq(Nat) /\ logged' \in Seq(Nat) /\ waiting' \subseteq Users
          /\ Len(week') >= Len(week) /\ Len(others') = Len(week') /\ Len(logged') = Len(week')
      BY <2>2, <3>1, <1>a, <1>len DEF PulseTypes
    <3>3. c \in Processes
      BY DEF Processes
    <3> QED
      BY <1>6, <2>2, <2>3, <3>1, <3>2, <3>3
<1>15. ASSUME NEW c \in Callers, CommitLog(c) PROVE PulseShape'
  <2>1. entity[c] \in Row /\ given[c] \in Nat /\ target[c] \in Weeks
    BY <1>15, <1>a DEF CommitLog, PulseShape, PulseTypes, Processes
  <2>2. week' \in Seq(Row) /\ Len(week') = Len(week) /\ logged' \in Seq(Nat) /\ Len(logged') = Len(logged)
    BY <1>15, <2>1, <1>dom, <1>a, ReplacedRow DEF CommitLog, PulseTypes
  <2>3. loose' \subseteq Weeks'
    <3>1. loose' = loose /\ loose \subseteq Weeks
      BY <1>15, <1>a DEF CommitLog, PulseTypes
    <3>2. Weeks' = Weeks
      BY <1>15 DEF CommitLog, Weeks
    <3> QED
      BY <3>1, <3>2
  <2> QED
    <3>1. UNCHANGED <<others, cron, waiting, today, calls, clean>> /\ Finish(c)
      BY <1>15 DEF CommitLog, cronVars
    <3>2. /\ others' \in Seq(Nat) /\ logged' \in Seq(Nat) /\ waiting' \subseteq Users
          /\ Len(week') >= Len(week) /\ Len(others') = Len(week') /\ Len(logged') = Len(week')
      BY <2>2, <3>1, <1>a, <1>len DEF PulseTypes
    <3>3. c \in Processes
      BY DEF Processes
    <3> QED
      BY <1>6, <2>2, <2>3, <3>1, <3>2, <3>3
<1> QED
  BY <1>1, <1>2, <1>3, <1>4, <1>5, <1>7, <1>8, <1>9, <1>10, <1>11, <1>12, <1>13, <1>14, <1>15, <1>16
  DEF PulseNext, Cron, RequestStep, CreateStep, Processes


-----------------------------------------------------------------------------
(* The weeks while nothing overlaps *)

Undisturbed(c) == cron = "idle" /\ \A y \in Processes \ {c} : pc[y] = "idle"

\* A request at work is the only one; a job runs only beside other jobs.
LEMMA NobodyElse ==
  ASSUME PulseInv, clean, NEW x \in Processes, pc[x] # "idle"
  PROVE  IF x \in Callers THEN Undisturbed(x)
         ELSE cron = "running" /\ \A c \in Callers : pc[c] = "idle"
<1>1. OneAtATime /\ cron \in {"idle", "running"}
  BY DEF PulseInv, PulseShape, PulseTypes, CleanWeeks
<1>2. CASE x \in Callers
  <2>1. cron = "idle"
    BY <1>1, <1>2 DEF OneAtATime
  <2> QED
    BY <1>1, <1>2, <2>1 DEF OneAtATime, PulseInv, JobsDone, Processes, Undisturbed
<1>3. CASE x \notin Callers
  BY <1>1, <1>3 DEF OneAtATime, PulseInv, JobsDone, Processes
<1> QED
  BY <1>2, <1>3

LEMMA CallClean ==
  ASSUME PulseInv, clean', NEW c \in Callers, NEW o, NEW step \in PCs, NEW w, NEW m \in Row, NEW h \in Nat,
         Call(c, o, step, w, m, h),
         step \in {"looking", "syncing", "storing", "logging", "editing"},
         step # "looking" => /\ w \in Weeks /\ SameWeek(m, week[w])
                             /\ m.status = "DRAFT" => week[w].status = "DRAFT"
                             /\ m.to = "nobody" => week[w].to = "nobody",
         step = "storing" => m.total = week[w].total /\ o # "sync",
         step = "logging" => m.total = week[w].total + h - logged[w]
  PROVE  (cron' = "idle" => JobsDone') /\ CleanWeeks'
<1>1. /\ clean /\ cron = "idle" /\ \A x \in Processes : pc[x] = "idle"
      /\ UNCHANGED <<week, others, logged, cron, waiting, today, loose>>
      /\ pc' = [pc EXCEPT ![c] = step] /\ target' = [target EXCEPT ![c] = w] /\ op' = [op EXCEPT ![c] = o]
      /\ entity' = [entity EXCEPT ![c] = m] /\ given' = [given EXCEPT ![c] = h]
  BY DEF Call, Start, Goto, weekVars, cronVars, PulseInv, PulseShape, PulseTypes
<1>2. /\ pc \in [Processes -> PCs] /\ op \in [Processes -> Ops] /\ target \in [Processes -> 0..Len(week)]
      /\ entity \in [Processes -> Row \cup {NoRow}] /\ given \in [Processes -> Nat]
      /\ CleanWeeks /\ c \in Processes /\ c \notin Users
  BY <1>1 DEF PulseInv, PulseShape, PulseTypes, Processes
<1>3. /\ pc'[c] = step /\ op'[c] = o /\ target'[c] = w /\ entity'[c] = m /\ given'[c] = h
      /\ \A y \in Processes \ {c} : pc'[y] = "idle"
  BY <1>1, <1>2
<1>4. \A v \in Weeks \ loose : week[v].total = SumOfPulses(v)
  BY <1>1, <1>2 DEF CleanWeeks, Summed, Processes
<1>5. cron' = "idle" => JobsDone'
  BY <1>1, <1>2, <1>3 DEF JobsDone, Processes
<1>6. OneAtATime'
  BY <1>1, <1>3 DEF OneAtATime, Processes
<1>7. OnePerPeriod'
  BY <1>1, <1>2 DEF CleanWeeks, OnePerPeriod, Weeks
<1>8. ASSUME NEW x \in Processes, pc'[x] \in {"looking", "creating"} PROVE KnowsRow(x)'
  <2>1. x = c /\ step = "looking"
    BY <1>8, <1>3
  <2> QED
    BY <2>1, <1>3, <1>2 DEF KnowsRow
<1>9. ASSUME NEW x \in Callers, pc'[x] \in {"syncing", "summing", "storing", "logging", "editing"} PROVE Changes(x)'
  <2>1. x = c /\ step \in {"syncing", "storing", "logging", "editing"} /\ w \in Weeks
    BY <1>9, <1>3 DEF Processes
  <2>2. SumOfPulses(w)' = SumOfPulses(w) /\ week'[w] = week[w] /\ logged'[w] = logged[w]
    BY <1>1 DEF SumOfPulses
  <2>3. (w \notin loose => week[w].total = SumOfPulses(w)) /\ loose' = loose
    BY <2>1, <1>1, <1>4
  <2>4. SumOfPulses(target[c])' = SumOfPulses(w)
    BY <1>3, <2>2 DEF SumOfPulses
  <2> QED
    BY <2>1, <2>2, <2>3, <2>4, <1>3 DEF Changes, SameWeek
<1>10. \A v \in Weeks' : Summed(v)'
  BY <1>1, <1>4 DEF Summed, Weeks, SumOfPulses
<1> QED
  BY <1>5, <1>6, <1>7, <1>8, <1>9, <1>10 DEF CleanWeeks

\* A process that ends its work without writing leaves the others what they know.
LEMMA EndClean ==
  ASSUME PulseInv, clean, NEW x \in Processes, pc[x] = "looking", Finish(x),
         UNCHANGED <<week, others, logged, cron, today, loose>>
  PROVE  (cron' = "idle" => JobsDone') /\ CleanWeeks'
<1>1. PulseShape /\ PulseTypes /\ CleanWeeks
  BY DEF PulseInv, PulseShape
<1>2. /\ pc'[x] = "idle"
      /\ \A y \in Processes \ {x} :
           /\ pc'[y] = pc[y] /\ op'[y] = op[y] /\ target'[y] = target[y]
           /\ entity'[y] = entity[y] /\ given'[y] = given[y]
  BY <1>1, FinishShape
<1>3. cron' = "idle" => JobsDone'
  BY <1>2 DEF PulseInv, JobsDone, Processes
<1>4. OneAtATime'
  BY <1>1, <1>2 DEF CleanWeeks, OneAtATime, Processes
<1>5. OnePerPeriod'
  BY <1>1 DEF CleanWeeks, OnePerPeriod, Weeks
<1>6. ASSUME NEW y \in Processes, pc'[y] \in {"looking", "creating"} PROVE KnowsRow(y)'
  <2>1. y # x /\ KnowsRow(y)
    BY <1>6, <1>1, <1>2 DEF CleanWeeks
  <2> QED
    BY <2>1, <1>2 DEF KnowsRow, Of, Weeks
<1>7. ASSUME NEW c \in Callers, pc'[c] \in {"syncing", "summing", "storing", "logging", "editing"} PROVE Changes(c)'
  <2>1. c # x /\ c \in Processes
    BY <1>7, <1>2 DEF Processes
  <2>2. /\ Changes(c) /\ target'[c] = target[c] /\ entity'[c] = entity[c]
        /\ given'[c] = given[c] /\ pc'[c] = pc[c] /\ op'[c] = op[c]
    BY <1>7, <1>1, <1>2, <2>1 DEF CleanWeeks
  <2> QED
    BY <2>2 DEF Changes, SumOfPulses
<1>8. \A v \in Weeks' : Summed(v)'
  <2>1. \A c \in Callers : pc[c] \in {"summing", "storing"} =>
          pc'[c] = pc[c] /\ target'[c] = target[c]
    BY <1>2 DEF Processes
  <2> QED
    BY <2>1, <1>1 DEF CleanWeeks, Summed, Weeks, SumOfPulses
<1> QED
  BY <1>3, <1>4, <1>5, <1>6, <1>7, <1>8 DEF CleanWeeks


\* The request or the job knows the row it has found.
LEMMA LookUpClean ==
  ASSUME PulseInv, clean, NEW x \in Processes, LookUp(x)
  PROVE  (cron' = "idle" => JobsDone') /\ CleanWeeks'
<1>1. PulseShape /\ PulseTypes /\ CleanWeeks
  BY DEF PulseInv, PulseShape
<1>2. PICK w \in Candidates(entity[x].user, entity[x].period) :
        /\ w # 0 => ~Submitted(week[w].status)
        /\ target' = [target EXCEPT ![x] = w]
        /\ \E t \in Totals(x, w) : entity' = [entity EXCEPT ![x].total = t]
  BY DEF LookUp
<1>3. /\ pc[x] = "looking" /\ pc' = [pc EXCEPT ![x] = "creating"]
      /\ UNCHANGED <<week, others, logged, op, given, cron, waiting, today, calls, clean, loose>>
  BY DEF LookUp, weekVars, cronVars, Goto
<1>e. PICK t \in Totals(x, w) : entity' = [entity EXCEPT ![x] = [entity[x] EXCEPT !.total = t]]
  BY <1>2
<1>r. entity[x] \in Row
  BY <1>1, <1>3 DEF PulseShape
<1>4. /\ pc'[x] = "creating" /\ target'[x] = w
      /\ entity'[x].user = entity[x].user /\ entity'[x].period = entity[x].period
      /\ \A y \in Processes \ {x} : pc'[y] = pc[y] /\ target'[y] = target[y] /\ entity'[y] = entity[y]
  BY <1>1, <1>2, <1>3, <1>e, <1>r DEF PulseTypes, PulseShape, Row
<1>5. /\ w \in 0..Len(week)
      /\ w # 0 => w \in Weeks /\ week[w].user = entity[x].user
      /\ Of(entity[x].user, entity[x].period) # {} => w \in Of(entity[x].user, entity[x].period)
      /\ w = 0 => Of(entity[x].user, entity[x].period) = {}
  BY <1>1, CandidateRow DEF PulseTypes
<1>6. Of(entity[x].user, entity[x].period) \subseteq {w}
  BY <1>1, <1>5 DEF CleanWeeks, OnePerPeriod, Of
<1>7. cron' = "idle" => JobsDone'
  BY <1>3, <1>4 DEF PulseInv, JobsDone, Processes
<1>8. OneAtATime'
  BY <1>1, <1>3, <1>4 DEF CleanWeeks, OneAtATime, Processes
<1>9. OnePerPeriod'
  BY <1>1, <1>3 DEF CleanWeeks, OnePerPeriod, Weeks
<1>10. ASSUME NEW y \in Processes, pc'[y] \in {"looking", "creating"} PROVE KnowsRow(y)'
  <2>1. KnowsRow(y)
    BY <1>10, <1>1, <1>3, <1>4 DEF CleanWeeks
  <2>2. CASE y # x
    BY <2>1, <2>2, <1>3, <1>4 DEF KnowsRow, Of, Weeks
  <2>3. CASE y = x
    <3>1. week[w].status \notin {"PENDING", "FORWARDED", "APPROVED"} \/ w = 0
      BY <1>2 DEF Submitted
    <3>2. Of(entity[x].user, entity[x].period)' = Of(entity[x].user, entity[x].period) /\ Weeks' = Weeks
      BY <1>3, <1>4 DEF Of, Weeks
    <3> QED
      BY <2>1, <2>3, <1>3, <1>4, <1>5, <1>6, <3>1, <3>2 DEF KnowsRow
  <2> QED BY <2>2, <2>3
<1>11. ASSUME NEW c \in Callers, pc'[c] \in {"syncing", "summing", "storing", "logging", "editing"} PROVE Changes(c)'
  <2>1. c # x /\ c \in Processes
    BY <1>11, <1>4 DEF Processes
  <2>2. Changes(c) /\ target'[c] = target[c] /\ pc'[c] = pc[c] /\ entity'[c] = entity[c]
    BY <1>11, <1>1, <1>4, <2>1 DEF CleanWeeks
  <2> QED
    BY <2>2, <1>3 DEF Changes, SumOfPulses
<1>12. \A v \in Weeks' : Summed(v)'
  <2>1. \A c \in Callers : pc[c] \in {"summing", "storing"} =>
          pc'[c] = pc[c] /\ target'[c] = target[c]
    BY <1>3, <1>4 DEF Processes
  <2> QED
    BY <2>1, <1>1, <1>3 DEF CleanWeeks, Summed, Weeks, SumOfPulses
<1> QED
  BY <1>7, <1>8, <1>9, <1>10, <1>11, <1>12 DEF CleanWeeks

\* What becomes of the rows when a process writes the one it has looked up.
LEMMA WrittenRows ==
  ASSUME PulseInv, clean, NEW x \in Processes, Write(x)
  PROVE  \E i \in Weeks' :
           /\ Weeks \subseteq Weeks' /\ \A v \in Weeks' : v = i \/ v \in Weeks
           /\ i \in Weeks => /\ week[i].user = entity[x].user
                             /\ week[i].status \notin {"PENDING", "FORWARDED", "APPROVED"}
           /\ Of(entity[x].user, entity[x].period) \subseteq {i}
           /\ week'[i] = entity[x] /\ loose' = loose \cup {i}
           /\ \A v \in Weeks \ {i} :
                week'[v] = week[v] /\ others'[v] = others[v] /\ logged'[v] = logged[v]
<1>1. PulseShape /\ PulseTypes /\ CleanWeeks /\ pc[x] = "creating" /\ KnowsRow(x)
  BY DEF PulseInv, PulseShape, CleanWeeks, Write
<1>2. entity[x] \in Row /\ given[x] \in Nat
  BY <1>1 DEF PulseShape, PulseTypes
<1>3. /\ week \in Seq(Row) /\ others \in Seq(Nat) /\ logged \in Seq(Nat)
      /\ Len(others) = Len(week) /\ Len(logged) = Len(week)
  BY <1>1 DEF PulseTypes
<1>4. CASE target[x] = 0
  <2>1. week' = Append(week, entity[x]) /\ others' = Append(others, given[x]) /\ logged' = Append(logged, 0)
    BY <1>4 DEF Write
  <2> DEFINE i == Len(week) + 1
  <2>2. i \in Weeks' /\ i \notin Weeks /\ Weeks \subseteq Weeks' /\ \A v \in Weeks' : v = i \/ v \in Weeks
    BY <2>1, <1>2, <1>3, AppendProperties DEF Weeks
  <2>3. week'[i] = entity[x] /\ loose' = loose \cup {i}
    BY <2>1, <1>2, <1>3, <1>4, AppendProperties DEF Write
  <2>4. \A v \in Weeks : week'[v] = week[v] /\ others'[v] = others[v] /\ logged'[v] = logged[v]
    BY <2>1, <1>2, <1>3, AppendProperties DEF Weeks
  <2>5. Of(entity[x].user, entity[x].period) = {}
    BY <1>1, <1>4 DEF KnowsRow
  <2> QED
    BY <2>2, <2>3, <2>4, <2>5
<1>5. CASE target[x] # 0
  <2> DEFINE i == target[x]
  <2>1. /\ week' = [week EXCEPT ![i] = entity[x]]
        /\ others' = [others EXCEPT ![i] = given[x]]
        /\ logged' = [logged EXCEPT ![i] = 0]
    BY <1>5 DEF Write
  <2>2. /\ i \in Weeks /\ week[i].user = entity[x].user
        /\ week[i].status \notin {"PENDING", "FORWARDED", "APPROVED"}
        /\ Of(entity[x].user, entity[x].period) \subseteq {i}
    BY <1>1, <1>5 DEF KnowsRow
  <2>3. i \in DOMAIN week /\ i \in DOMAIN others /\ i \in DOMAIN logged
    BY <2>2, <1>3 DEF Weeks
  <2>4. Weeks' = Weeks
    BY <2>1 DEF Weeks
  <2>5. week'[i] = entity[x] /\ loose' = loose \cup {i}
    BY <2>1, <2>3, <1>5 DEF Write
  <2>6. \A v \in Weeks \ {i} : week'[v] = week[v] /\ others'[v] = others[v] /\ logged'[v] = logged[v]
    BY <2>1, <1>3 DEF Weeks
  <2> QED
    BY <2>2, <2>4, <2>5, <2>6
<1> QED
  BY <1>4, <1>5

LEMMA WriteClean ==
  ASSUME PulseInv, clean, NEW x \in Processes, Write(x)
  PROVE  (cron' = "idle" => JobsDone') /\ CleanWeeks'
<1>1. PulseShape /\ PulseTypes /\ CleanWeeks /\ pc[x] = "creating" /\ KnowsRow(x)
  BY DEF PulseInv, PulseShape, CleanWeeks, Write
<1>2. entity[x] \in Row /\ given[x] \in Nat /\ Finish(x) /\ UNCHANGED <<cron, waiting, today, calls, clean>>
  BY <1>1 DEF PulseShape, PulseTypes, Write, cronVars
<1>3. PICK i \in Weeks' :
           /\ Weeks \subseteq Weeks' /\ \A v \in Weeks' : v = i \/ v \in Weeks
           /\ i \in Weeks => week[i].user = entity[x].user
           /\ Of(entity[x].user, entity[x].period) \subseteq {i}
           /\ week'[i] = entity[x] /\ loose' = loose \cup {i}
           /\ \A v \in Weeks \ {i} :
                week'[v] = week[v] /\ others'[v] = others[v] /\ logged'[v] = logged[v]
  BY WrittenRows
<1>4. /\ pc'[x] = "idle"
      /\ \A y \in Processes \ {x} :
           pc'[y] = pc[y] /\ target'[y] = target[y] /\ entity'[y] = entity[y] /\ given'[y] = given[y]
  BY <1>1, <1>2, FinishShape
<1>5. \A c \in Callers : c # x => pc[c] = "idle"
  BY <1>1, NobodyElse DEF Undisturbed, Processes
<1>6. \A c \in Callers : pc'[c] = "idle"
  BY <1>4, <1>5 DEF Processes
<1>7. cron' = "idle" => JobsDone'
  BY <1>2, <1>4 DEF PulseInv, JobsDone, Processes
<1>8. OneAtATime'
  BY <1>6 DEF OneAtATime
<1>9. OnePerPeriod'
  <2> SUFFICES ASSUME NEW v \in Weeks', NEW w \in Weeks',
                      week'[v].user = week'[w].user, week'[v].period = week'[w].period
               PROVE  v = w
    BY DEF OnePerPeriod
  <2>1. ASSUME NEW k \in Weeks \ {i}, week'[k].user = week'[i].user, week'[k].period = week'[i].period
        PROVE  FALSE
    <3>1. k \in Of(entity[x].user, entity[x].period)
      BY <2>1, <1>3 DEF Of
    <3> QED
      BY <3>1, <1>3
  <2>2. CASE v # i /\ w # i
    BY <2>2, <1>1, <1>3 DEF CleanWeeks, OnePerPeriod
  <2> QED
    BY <2>1, <2>2, <1>3
<1>10. ASSUME NEW y \in Processes, pc'[y] \in {"looking", "creating"} PROVE KnowsRow(y)'
  <2>1. y # x /\ y \in Users /\ KnowsRow(y)
    BY <1>10, <1>1, <1>4, <1>6 DEF CleanWeeks, Processes
  <2>2. x \in Users
    BY <2>1, <1>1, <1>4, <1>10, NobodyElse DEF Undisturbed, Processes
  <2>3. entity[x].user = x /\ entity[y].user = y
    BY <2>1, <2>2, <1>1 DEF KnowsRow
  <2>4. \A v \in Weeks' : v # i \/ i \in Weeks => v \in Weeks
    BY <1>3
  <2>5. week'[i].user = x /\ (i \in Weeks => week[i].user = x)
    BY <1>3, <2>3
  <2>7. \A v \in Weeks' : (week'[v].user = y /\ week'[v].period = entity[y].period) =>
          v \in Weeks /\ week[v].user = y /\ week[v].period = entity[y].period
    BY <1>3, <2>1, <2>5
  <2>8. /\ entity'[y] = entity[y] /\ target'[y] = target[y] /\ pc'[y] = pc[y] /\ given'[y] = given[y]
        /\ today' = today
    BY <1>2, <1>4, <2>1
  <2>9. Of(entity[y].user, entity[y].period)' \subseteq Of(entity[y].user, entity[y].period)
    BY <2>7, <2>3, <2>8 DEF Of
  <2>10. target[y] # 0 /\ pc[y] = "creating" =>
           /\ target[y] \in Weeks /\ target[y] # i /\ week'[target[y]] = week[target[y]]
    <3>1. SUFFICES ASSUME target[y] # 0, pc[y] = "creating"
                   PROVE  target[y] \in Weeks /\ target[y] # i /\ week'[target[y]] = week[target[y]]
      OBVIOUS
    <3>2. target[y] \in Weeks /\ week[target[y]].user = y
      BY <3>1, <2>1, <2>3 DEF KnowsRow
    <3> QED
      BY <3>2, <2>1, <2>5, <1>3
  <2> QED
    BY <2>1, <2>8, <2>9, <2>10, <1>3 DEF KnowsRow
<1>11. \A c \in Callers : pc'[c] \notin {"syncing", "summing", "storing", "logging", "editing"}
  BY <1>6
<1>12. ASSUME NEW v \in Weeks' PROVE Summed(v)'
  <2>1. CASE v = i
    BY <2>1, <1>3 DEF Summed
  <2>2. CASE v # i
    <3>1. v \in Weeks /\ (v \notin loose => week[v].total = SumOfPulses(v))
      BY <2>2, <1>1, <1>3, <1>5 DEF CleanWeeks, Summed
    <3> QED
      BY <2>2, <3>1, <1>3 DEF Summed, SumOfPulses
  <2> QED BY <2>1, <2>2
<1> QED
  BY <1>7, <1>8, <1>9, <1>10, <1>11, <1>12 DEF CleanWeeks


\* The steps of a request that has loaded a week.
LEMMA SyncClean ==
  ASSUME PulseInv, clean, NEW c \in Callers, SavePulse(c) \/ SumPulses(c)
  PROVE  (cron' = "idle" => JobsDone') /\ CleanWeeks'
<1>1. /\ PulseShape /\ PulseTypes /\ CleanWeeks /\ c \in Processes /\ target[c] \in Weeks
      /\ pc[c] \in {"syncing", "summing"} /\ Changes(c) /\ entity[c] \in Row
  BY DEF PulseInv, PulseShape, CleanWeeks, SavePulse, SumPulses, Processes
<1>2. Undisturbed(c)
  BY <1>1, NobodyElse
<1>3. /\ UNCHANGED <<week, op, target, given, cron, today, loose>>
      /\ \A y \in Processes \ {c} : pc'[y] = "idle"
      /\ pc'[c] \in {"summing", "storing"}
  BY <1>1, <1>2 DEF Undisturbed, SavePulse, SumPulses, Goto, PulseTypes, weekVars, cronVars
<1>4. cron' = "idle" => JobsDone'
  BY <1>3 DEF JobsDone, Processes, PulseInv
<1>5. OneAtATime' /\ OnePerPeriod'
  BY <1>1, <1>2, <1>3 DEF OneAtATime, OnePerPeriod, CleanWeeks, Undisturbed, Processes, Weeks
<1>6. \A y \in Processes : pc'[y] \notin {"looking", "creating"}
  BY <1>3
<1>7. \A w \in Weeks \ {target[c]} : w \notin loose => week[w].total = SumOfPulses(w)
  BY <1>1, <1>2 DEF CleanWeeks, Summed, Undisturbed, Processes
<1>8. CASE SavePulse(c)
  <2>1. pc'[c] = "summing" /\ entity' = entity /\ pc[c] = "syncing" /\ given[c] \in Nat
    BY <1>1, <1>8 DEF SavePulse, Goto, PulseTypes
  <2>2. \A w \in Weeks \ {target[c]} : others'[w] = others[w] /\ logged'[w] = logged[w]
    BY <2>1, <1>1, <1>8, Rewritten DEF SavePulse
  <2>3. \A w \in Weeks' : Summed(w)'
    BY <1>3, <1>7, <2>1, <2>2 DEF Summed, Weeks, SumOfPulses
  <2>4. Changes(c)'
    BY <1>1, <1>3, <2>1 DEF Changes
  <2> QED
    BY <1>3, <1>4, <1>5, <1>6, <2>3, <2>4 DEF CleanWeeks, Processes
<1>9. CASE SumPulses(c)
  <2>1. /\ pc'[c] = "storing" /\ UNCHANGED <<others, logged>> /\ pc[c] = "summing"
        /\ entity'[c] = [entity[c] EXCEPT !.total = SumOfPulses(target[c])]
    BY <1>1, <1>9 DEF SumPulses, Goto, PulseTypes, PulseShape, weekVars
  <2>2. \A w \in Weeks' : Summed(w)'
    BY <1>3, <1>7, <2>1 DEF Summed, Weeks, SumOfPulses
  <2>3. /\ entity'[c].user = entity[c].user /\ entity'[c].period = entity[c].period
        /\ entity'[c].status = entity[c].status /\ entity'[c].to = entity[c].to
        /\ entity'[c].total = SumOfPulses(target[c])
    BY <2>1, <1>1 DEF Row
  <2>4. SumOfPulses(target[c])' = SumOfPulses(target[c])
    BY <1>3, <2>1 DEF SumOfPulses
  <2>5. Changes(c)'
    BY <1>1, <1>3, <2>1, <2>3, <2>4 DEF Changes, SameWeek
  <2> QED
    BY <1>3, <1>4, <1>5, <1>6, <2>2, <2>5 DEF CleanWeeks, Processes
<1> QED
  BY <1>8, <1>9

LEMMA EditClean ==
  ASSUME PulseInv, clean, NEW c \in Callers, SaveEdit(c)
  PROVE  (cron' = "idle" => JobsDone') /\ CleanWeeks'
<1>1. /\ PulseShape /\ PulseTypes /\ CleanWeeks /\ c \in Processes /\ target[c] \in Weeks
      /\ pc[c] = "editing" /\ given[c] \in Nat
  BY DEF PulseInv, PulseShape, PulseTypes, SaveEdit, Processes
<1>2. Undisturbed(c)
  BY <1>1, NobodyElse
<1>3. Finish(c) /\ UNCHANGED <<week, cron, today>> /\ loose' = loose \cup {target[c]}
  BY DEF SaveEdit, cronVars
<1>4. \A y \in Processes : pc'[y] = "idle"
  BY <1>1, <1>2, <1>3, FinishShape DEF Undisturbed
<1>5. (cron' = "idle" => JobsDone') /\ OneAtATime'
  BY <1>4 DEF JobsDone, OneAtATime, Processes
<1>6. OnePerPeriod'
  BY <1>1, <1>3 DEF CleanWeeks, OnePerPeriod, Weeks
<1>7. \A w \in Weeks \ {target[c]} : w \notin loose => week[w].total = SumOfPulses(w)
  BY <1>1, <1>2 DEF CleanWeeks, Summed, Undisturbed, Processes
<1>8. \A w \in Weeks \ {target[c]} : others'[w] = others[w] /\ logged'[w] = logged[w]
  BY <1>1, Rewritten DEF SaveEdit
<1>9. \A w \in Weeks' : Summed(w)'
  BY <1>3, <1>7, <1>8 DEF Summed, Weeks, SumOfPulses
<1> QED
  BY <1>4, <1>5, <1>6, <1>9 DEF CleanWeeks, Processes

LEMMA StoreClean ==
  ASSUME PulseInv, clean, NEW c \in Callers, Store(c) \/ CommitLog(c)
  PROVE  (cron' = "idle" => JobsDone') /\ CleanWeeks'
<1>1. /\ PulseShape /\ PulseTypes /\ CleanWeeks /\ c \in Processes /\ target[c] \in Weeks
      /\ pc[c] \in {"storing", "logging"} /\ Changes(c) /\ entity[c] \in Row /\ given[c] \in Nat
  BY DEF PulseInv, PulseShape, PulseTypes, CleanWeeks, Store, CommitLog, Processes
<1>2. Undisturbed(c)
  BY <1>1, NobodyElse
<1>3. Finish(c) /\ UNCHANGED <<others, cron, today>> /\ week' = [week EXCEPT ![target[c]] = entity[c]]
  BY DEF Store, CommitLog, cronVars
<1>4. \A y \in Processes : pc'[y] = "idle"
  BY <1>1, <1>2, <1>3, FinishShape DEF Undisturbed
<1>5. (cron' = "idle" => JobsDone') /\ OneAtATime'
  BY <1>4 DEF JobsDone, OneAtATime, Processes
<1>6. /\ Weeks' = Weeks /\ week'[target[c]] = entity[c]
      /\ \A w \in Weeks \ {target[c]} : week'[w] = week[w]
  BY <1>1, <1>3 DEF Weeks
<1>7. \A w \in Weeks : week'[w].user = week[w].user /\ week'[w].period = week[w].period
  BY <1>1, <1>6 DEF Changes, SameWeek
<1>8. OnePerPeriod'
  BY <1>1, <1>6, <1>7 DEF CleanWeeks, OnePerPeriod
<1>9. \A w \in Weeks \ {target[c]} : w \notin loose => week[w].total = SumOfPulses(w)
  BY <1>1, <1>2 DEF CleanWeeks, Summed, Undisturbed, Processes
<1>10. ASSUME NEW w \in Weeks' PROVE Summed(w)'
  <2>1. CASE Store(c)
    BY <2>1, <1>1, <1>3, <1>6, <1>9 DEF Store, Changes, Summed, SumOfPulses
  <2>2. CASE CommitLog(c)
    <3>1. pc[c] = "logging" /\ logged' = [logged EXCEPT ![target[c]] = given[c]]
      BY <2>2 DEF CommitLog
    <3>2. /\ logged'[target[c]] = given[c]
          /\ \A v \in Weeks \ {target[c]} : logged'[v] = logged[v]
      BY <3>1, <1>1 DEF PulseTypes, Weeks
    <3>3. (target[c] \notin loose => week[target[c]].total = SumOfPulses(target[c])) /\ loose' = loose
      BY <3>1, <2>2, <1>1, <1>2 DEF CleanWeeks, Summed, Undisturbed, Processes, CommitLog
    <3>4. week'[target[c]].total = week[target[c]].total + given[c] - logged[target[c]]
      BY <3>1, <1>1, <1>6 DEF Changes
    <3>5. others[target[c]] \in Nat /\ logged[target[c]] \in Nat
      BY SMTT(60), <1>1 DEF PulseTypes, Weeks
    <3> QED
      BY <3>2, <3>3, <3>4, <3>5, <1>1, <1>3, <1>6, <1>9 DEF Summed, SumOfPulses
  <2> QED BY <2>1, <2>2
<1> QED
  BY <1>4, <1>5, <1>8, <1>10 DEF CleanWeeks, Processes

\* The steps of the cron, and of time.
LEMMA CronClean ==
  ASSUME PulseInv, clean', NextPeriod \/ List \/ StartChunk \/ EndCron
  PROVE  (cron' = "idle" => JobsDone') /\ CleanWeeks'
<1>1. PulseShape /\ PulseTypes /\ clean /\ CleanWeeks /\ UNCHANGED <<week, others, logged, target, loose>>
  BY DEF PulseInv, PulseShape, PulseTypes, NextPeriod, List, StartChunk, EndCron, weekVars, procVars
<1>2. CASE NextPeriod \/ List \/ EndCron
  <2>1. UNCHANGED <<pc, op, entity, given>>
    BY <1>2 DEF NextPeriod, List, EndCron, procVars
  <2>2. cron' = "idle" => JobsDone'
    BY <1>2, <2>1 DEF NextPeriod, List, EndCron, PulseInv, JobsDone, Processes
  <2>0. cron' = "running" => \A c \in Callers : pc[c] = "idle"
    <3>1. CASE List
      BY <3>1 DEF List, Processes
    <3>2. CASE NextPeriod \/ EndCron
      BY <3>2, <1>1 DEF NextPeriod, EndCron, CleanWeeks, OneAtATime, cronVars
    <3> QED BY <1>2, <3>1, <3>2
  <2>3. OneAtATime'
    BY <2>0, <1>1, <2>1 DEF CleanWeeks, OneAtATime
  <2>4. OnePerPeriod'
    BY <1>1 DEF CleanWeeks, OnePerPeriod, Weeks
  <2>5. ASSUME NEW x \in Processes, pc'[x] \in {"looking", "creating"} PROVE KnowsRow(x)'
    <3>1. x \in Users => today' = today
      BY <2>1, <2>5, <1>2 DEF NextPeriod, List, EndCron, PulseInv, JobsDone
    <3>2. KnowsRow(x)
      BY <2>1, <2>5, <1>1 DEF CleanWeeks
    <3> QED
      BY <3>1, <3>2, <2>1, <1>1 DEF KnowsRow, Of, Weeks
  <2>6. ASSUME NEW c \in Callers, pc'[c] \in {"syncing", "summing", "storing", "logging", "editing"} PROVE Changes(c)'
    <3>1. Changes(c)
      BY <2>1, <2>6, <1>1 DEF CleanWeeks
    <3> QED
      BY <3>1, <2>1, <1>1 DEF Changes, SumOfPulses
  <2>7. \A w \in Weeks' : Summed(w)'
    BY <2>1, <1>1 DEF CleanWeeks, Summed, Weeks, SumOfPulses
  <2> QED
    BY <2>2, <2>3, <2>4, <2>5, <2>6, <2>7 DEF CleanWeeks
<1>3. CASE StartChunk
  <2>1. PICK C \in Chunks : \E t \in [C -> Hours \cup {0}] :
       /\ entity' = [x \in Processes |->
                       IF x \in C THEN Fresh(x, x, today, "DRAFT", t[x]) ELSE entity[x]]
       /\ pc' = [x \in Processes |-> IF x \in C THEN "looking" ELSE pc[x]]
    BY <1>3 DEF StartChunk
  <2>2. PICK t \in [C -> Hours \cup {0}] :
       /\ entity' = [x \in Processes |->
                       IF x \in C THEN Fresh(x, x, today, "DRAFT", t[x]) ELSE entity[x]]
       /\ pc' = [x \in Processes |-> IF x \in C THEN "looking" ELSE pc[x]]
    BY <2>1
  <2>3. C \subseteq Users /\ \A x \in C : t[x] \in Nat
    <3>1. C \subseteq Users
      BY <1>1 DEF PulseTypes, Chunks
    <3>2. Hours \cup {0} \subseteq Nat
      OBVIOUS
    <3>3. \A x \in C : t[x] \in Hours \cup {0}
      OBVIOUS
    <3> QED
      BY <3>1, <3>2, <3>3, Zenon
  <2>4. cron = "running" /\ UNCHANGED <<cron, today>> /\ \A u \in Users : pc[u] = "idle"
    BY <1>3 DEF StartChunk, JobsDone
  <2>5. \A c \in Callers : pc[c] = "idle"
    BY <2>4, <1>1 DEF CleanWeeks, OneAtATime
  <2>6. \A c \in Callers : pc'[c] = "idle"
    BY <2>2, <2>3, <2>5 DEF Processes
  <2>7. ASSUME NEW x \in Processes, pc'[x] \in {"looking", "creating"} PROVE KnowsRow(x)'
    <3>1. x \in C
      BY <2>2, <2>4, <2>5, <2>7 DEF Processes
    <3>2. pc'[x] = "looking" /\ entity'[x] = Fresh(x, x, today, "DRAFT", t[x])
      BY <3>1, <2>2 DEF Processes
    <3>3. x \in Users /\ today \in Periods /\ t[x] \in Nat /\ "DRAFT" \in Statuses
      BY <3>1, <2>3, <1>1 DEF PulseTypes, Statuses
    <3>4. /\ Fresh(x, x, today, "DRAFT", t[x]).user = x
          /\ Fresh(x, x, today, "DRAFT", t[x]).period = today
      BY <3>3, FreshRow
    <3>5. entity'[x].user = x /\ entity'[x].period = today
      BY <3>2, <3>4
    <3> QED
      BY <3>2, <3>5, <2>4 DEF KnowsRow
  <2>8. OneAtATime'
    BY <2>6 DEF OneAtATime
  <2>9. OnePerPeriod'
    BY <1>1 DEF CleanWeeks, OnePerPeriod, Weeks
  <2>10. \A w \in Weeks' : Summed(w)'
    BY <1>1, <2>5 DEF CleanWeeks, Summed, Weeks, SumOfPulses
  <2> QED
    BY <2>4, <2>6, <2>7, <2>8, <2>9, <2>10 DEF CleanWeeks
<1> QED
  BY <1>2, <1>3

LEMMA InitClean == PulseInit => PulseInv
<1> SUFFICES ASSUME PulseInit PROVE PulseInv
  OBVIOUS
<1>1. PulseShape
  BY InitShape
<1>2. Weeks = {} /\ \A x \in Processes : pc[x] = "idle"
  BY DEF PulseInit, Weeks
<1>3. JobsDone /\ CleanWeeks
  BY <1>2 DEF PulseInit, JobsDone, CleanWeeks, OneAtATime, OnePerPeriod, Processes
<1> QED
  BY <1>1, <1>3 DEF PulseInv

\* The calls of the handlers, with what they take along.
LEMMA HandlersClean ==
  ASSUME PulseInv, clean', NEW c \in Callers,
         \/ BeginCreate(c) \/ Submit(c) \/ Forward(c) \/ Approve(c) \/ Reject(c)
         \/ BeginSync(c) \/ BeginEdit(c) \/ BeginLog(c)
  PROVE  (cron' = "idle" => JobsDone') /\ CleanWeeks'
<1>a. PulseTypes
  BY DEF PulseInv, PulseShape
<1>rows. \A w \in Weeks : week[w] \in Row /\ others[w] \in Nat /\ logged[w] \in Nat
  BY <1>a DEF PulseTypes, Weeks
<1>1. CASE BeginCreate(c)
  <2>1. PICK u \in Users, p \in {today} \cup ({today - 1} \cap Periods),
             s \in ClientStatuses \cup {"PENDING"}, t \in Hours \cup {0}, h \in Hours :
          Call(c, "create", "looking", 0, Fresh(c, u, p, s, t), h)
    BY <1>1 DEF BeginCreate
  <2>2. p \in Periods /\ h \in Nat /\ t \in Nat /\ s \in Statuses
    BY <1>a, StatusAssumption DEF PulseTypes, Statuses
  <2>3. Fresh(c, u, p, s, t) \in Row
    BY <2>2, FreshRow
  <2> QED
    BY <2>1, <2>2, <2>3, CallClean DEF PCs
<1>2. ASSUME NEW w \in Weeks, NEW o, NEW m \in Row, SameWeek(m, week[w]), m.total = week[w].total,
             m.status # "DRAFT", m.to = "nobody" => week[w].to = "nobody", o # "sync",
             Call(c, o, "storing", w, m, 0)
      PROVE  (cron' = "idle" => JobsDone') /\ CleanWeeks'
  BY <1>2, CallClean DEF PCs
<1>3. CASE Submit(c)
  <2>1. PICK w \in Weeks :
          Call(c, "submit", "storing", w, [week[w] EXCEPT !.status = "PENDING", !.to = "reporter"], 0)
    BY <1>3 DEF Submit
  <2> DEFINE m == [week[w] EXCEPT !.status = "PENDING", !.to = "reporter"]
  <2>2. /\ m \in Row /\ m.user = week[w].user /\ m.period = week[w].period
        /\ m.status = "PENDING" /\ m.to = "reporter" /\ m.total = week[w].total
    BY <1>rows DEF Row, Statuses
  <2> QED
    BY <2>1, <2>2, <1>2 DEF SameWeek
<1>4. CASE Forward(c)
  <2>1. PICK w \in Weeks :
          Call(c, "forward", "storing", w, [week[w] EXCEPT !.status = "FORWARDED", !.to = "other"], 0)
    BY <1>4 DEF Forward
  <2> DEFINE m == [week[w] EXCEPT !.status = "FORWARDED", !.to = "other"]
  <2>2. /\ m \in Row /\ m.user = week[w].user /\ m.period = week[w].period
        /\ m.status = "FORWARDED" /\ m.to = "other" /\ m.total = week[w].total
    BY <1>rows DEF Row, Statuses
  <2> QED
    BY <2>1, <2>2, <1>2 DEF SameWeek
<1>5. CASE Approve(c)
  <2>1. PICK w \in Weeks : Call(c, "approve", "storing", w, [week[w] EXCEPT !.status = "APPROVED"], 0)
    BY <1>5 DEF Approve
  <2> QED
    BY <2>1, <1>2, <1>rows DEF Row, Statuses, SameWeek
<1>6. CASE Reject(c)
  <2>1. PICK w \in Weeks : Call(c, "reject", "storing", w, [week[w] EXCEPT !.status = "REJECTED"], 0)
    BY <1>6 DEF Reject
  <2> QED
    BY <2>1, <1>2, <1>rows DEF Row, Statuses, SameWeek
<1>7. CASE BeginSync(c)
  <2>1. PICK w \in Weeks, h \in Hours : Call(c, "sync", "syncing", w, week[w], h)
    BY <1>7 DEF BeginSync
  <2> QED
    BY <2>1, <1>rows, CallClean DEF PCs, SameWeek
<1>8. CASE BeginLog(c)
  <2>1. PICK w \in Weeks, h \in Hours :
          /\ week[w].status \in {"DRAFT", "REJECTED"}
          /\ Call(c, "log", "logging", w, [week[w] EXCEPT !.total = @ + h - logged[w]], h)
    BY <1>8 DEF BeginLog
  <2> DEFINE m == [week[w] EXCEPT !.total = @ + h - logged[w]]
  <2>2. /\ m \in Row /\ m.user = week[w].user /\ m.period = week[w].period
        /\ m.status = week[w].status /\ m.to = week[w].to /\ m.total = week[w].total + h - logged[w]
    BY <1>rows DEF Row
  <2> QED
    BY <2>1, <2>2, CallClean DEF PCs, SameWeek
<1>9. CASE BeginEdit(c)
  <2>1. PICK w \in Weeks, h \in Hours : Call(c, "edit", "editing", w, week[w], h)
    BY <1>9 DEF BeginEdit
  <2> QED
    BY <2>1, <1>rows, CallClean DEF PCs, SameWeek
<1> QED
  BY <1>1, <1>3, <1>4, <1>5, <1>6, <1>7, <1>8, <1>9

LEMMA NextClean == PulseInv /\ [PulseNext]_pulseVars => PulseInv'
<1> SUFFICES ASSUME PulseInv, [PulseNext]_pulseVars
             PROVE  (cron' = "idle" => JobsDone') /\ (clean' => CleanWeeks')
  BY NextShape DEF PulseInv
<1>0. clean \in BOOLEAN /\ clean' \in BOOLEAN
  BY NextShape DEF PulseInv, PulseShape, PulseTypes
<1>a. cron = "idle" => JobsDone
  BY DEF PulseInv
<1>1. CASE UNCHANGED pulseVars
  BY <1>1 DEF PulseInv, pulseVars, weekVars, procVars, cronVars, JobsDone, CleanWeeks, OneAtATime,
     OnePerPeriod, KnowsRow, Changes, Summed, Of, Weeks, SumOfPulses
<1>2. CASE NextPeriod \/ List \/ StartChunk \/ EndCron
  <2>1. cron' = "idle" => JobsDone'
    BY <1>2, <1>a DEF NextPeriod, List, StartChunk, EndCron, JobsDone, procVars, cronVars
  <2> QED
    BY <1>2, <2>1, CronClean
<1>3. ASSUME NEW x \in Processes, Finish(x), UNCHANGED cron PROVE cron' = "idle" => JobsDone'
  BY <1>3, <1>a, FinishShape DEF JobsDone, PulseInv, PulseShape, Processes
<1>4. ASSUME NEW x \in Processes, NEW step, pc[x] # "idle" \/ x \in Callers,
             pc' = [pc EXCEPT ![x] = step], UNCHANGED cron
      PROVE  cron' = "idle" => JobsDone'
  BY <1>4, <1>a DEF JobsDone, PulseInv, PulseShape, PulseTypes, Processes
<1>5. ASSUME NEW x \in Processes, LookUp(x) PROVE (cron' = "idle" => JobsDone') /\ (clean' => CleanWeeks')
  <2>1. cron' = "idle" => JobsDone'
    BY <1>4, <1>5 DEF LookUp, Goto, cronVars
  <2>2. clean' = clean
    BY <1>5 DEF LookUp
  <2> QED
    BY <1>5, <2>1, <2>2, LookUpClean
<1>6. ASSUME NEW x \in Processes, Write(x) PROVE (cron' = "idle" => JobsDone') /\ (clean' => CleanWeeks')
  <2>1. cron' = "idle" => JobsDone'
    BY <1>3, <1>6 DEF Write, cronVars
  <2>2. clean' = clean
    BY <1>6 DEF Write
  <2> QED
    BY <1>6, <2>1, <2>2, WriteClean
<1>7. ASSUME NEW x \in Processes, JobFails(x) \/ RefuseRequest(x)
      PROVE  (cron' = "idle" => JobsDone') /\ (clean' => CleanWeeks')
  <2>1. /\ pc[x] = "looking" /\ Finish(x) /\ clean' = clean
        /\ UNCHANGED <<week, others, logged, cron, today, loose>>
    BY <1>7 DEF JobFails, RefuseRequest, weekVars, cronVars
  <2> QED
    BY <1>3, <2>1, EndClean
<1>8. ASSUME NEW c \in Callers,
             \/ BeginCreate(c) \/ Submit(c) \/ Forward(c) \/ Approve(c) \/ Reject(c)
             \/ BeginSync(c) \/ BeginEdit(c) \/ BeginLog(c)
      PROVE  (cron' = "idle" => JobsDone') /\ (clean' => CleanWeeks')
  <2>1. c \in Processes /\ UNCHANGED cron /\ \E step : pc' = [pc EXCEPT ![c] = step]
    BY <1>8 DEF BeginCreate, Submit, Forward, Approve, Reject, BeginSync, BeginEdit, BeginLog, Call, Start, Goto,
       cronVars, Processes
  <2>2. cron' = "idle" => JobsDone'
    BY <1>4, <2>1
  <2> QED
    BY <1>8, <2>2, HandlersClean
<1>9. ASSUME NEW c \in Callers, SavePulse(c) \/ SumPulses(c)
      PROVE  (cron' = "idle" => JobsDone') /\ (clean' => CleanWeeks')
  <2>1. c \in Processes /\ UNCHANGED <<cron, clean>> /\ \E step : pc' = [pc EXCEPT ![c] = step]
    BY <1>9 DEF SavePulse, SumPulses, Goto, cronVars, Processes
  <2> QED
    BY <1>4, <1>9, <2>1, SyncClean
<1>11. ASSUME NEW c \in Callers, SaveEdit(c)
       PROVE  (cron' = "idle" => JobsDone') /\ (clean' => CleanWeeks')
  <2>1. c \in Processes /\ UNCHANGED <<cron, clean>> /\ Finish(c)
    BY <1>11 DEF SaveEdit, cronVars, Processes
  <2> QED
    BY <1>3, <1>11, <2>1, EditClean
<1>10. ASSUME NEW c \in Callers, Store(c) \/ CommitLog(c)
       PROVE  (cron' = "idle" => JobsDone') /\ (clean' => CleanWeeks')
  <2>1. c \in Processes /\ UNCHANGED <<cron, clean>> /\ Finish(c)
    BY <1>10 DEF Store, CommitLog, cronVars, Processes
  <2> QED
    BY <1>3, <1>10, <2>1, StoreClean
<1> QED
  BY <1>1, <1>2, <1>5, <1>6, <1>7, <1>8, <1>9, <1>10, <1>11
  DEF PulseNext, Cron, RequestStep, CreateStep, Processes

\* PulseInv holds of every reachable state: it gives the types, and what is said of
\* the snapshots while nothing overlaps.
THEOREM PulseInvariant == PulseSpec => []PulseInv
BY InitClean, NextClean, PTL DEF PulseSpec

\* Whatever requests, the cron and its jobs do to one another, the columns hold what
\* they may hold, and a process works on a week that is there.
THEOREM PulseTypesHold == PulseSpec => []PulseTypes
BY PulseInvariant, PTL DEF PulseInv, PulseShape

\* While nothing overlaps, a user has one snapshot of a period, and a week that a sync
\* has summed shows the hours of its pulses, whichever request wrote it last, until it
\* is created again or a pulse of it is edited.
THEOREM SnapshotsAlwaysRight == PulseSpec => []SnapshotsRight
<1>1. PulseInv => SnapshotsRight
  <2> SUFFICES ASSUME PulseInv, clean PROVE
        /\ \A v, w \in Weeks :
             week[v].user = week[w].user /\ week[v].period = week[w].period => v = w
        /\ AllIdle => \A w \in Weeks \ loose : week[w].total = SumOfPulses(w)
    BY DEF SnapshotsRight
  <2> QED
    BY DEF PulseInv, CleanWeeks, OnePerPeriod, Summed, AllIdle, Processes
<1> QED
  BY <1>1, PulseInvariant, PTL

\* No step drafts a submitted week again, moves it to another period or takes it from
\* the person who is to answer it.
THEOREM SubmittedAlwaysStays == PulseSpec => SubmittedStays
<1> DEFINE Stays == clean' => \A w \in Weeks : week[w].status \in {"PENDING", "FORWARDED", "APPROVED"} =>
       /\ week'[w].status # "DRAFT" /\ week'[w].period = week[w].period
       /\ week[w].to # "nobody" => week'[w].to # "nobody"
<1>1. PulseInv /\ [PulseNext]_pulseVars => Stays
  <2> SUFFICES ASSUME PulseInv, [PulseNext]_pulseVars, clean', NEW w \in Weeks,
                      week[w].status \in {"PENDING", "FORWARDED", "APPROVED"}
               PROVE  /\ week'[w].status # "DRAFT" /\ week'[w].period = week[w].period
                      /\ week[w].to # "nobody" => week'[w].to # "nobody"
    OBVIOUS
  <2>2. ASSUME NEW x \in Processes, Write(x)
        PROVE  week'[w] = week[w]
    BY <2>2, WrittenRows DEF Write
  <2>4. ASSUME NEW c \in Callers, Store(c) \/ CommitLog(c)
        PROVE  /\ week'[w].status # "DRAFT" /\ week'[w].period = week[w].period
               /\ week[w].to # "nobody" => week'[w].to # "nobody"
    <3>1. /\ clean /\ week' = [week EXCEPT ![target[c]] = entity[c]]
          /\ pc[c] \in {"storing", "logging"}
      BY <2>4 DEF Store, CommitLog
    <3>2. Changes(c)
      BY <3>1 DEF PulseInv, CleanWeeks
    <3> QED
      BY <3>1, <3>2 DEF Changes, SameWeek, Weeks
  <2>5. \/ week' = week
        \/ \E x \in Processes : Write(x)
        \/ \E c \in Callers : Store(c) \/ CommitLog(c)
    BY ZenonT(60) DEF PulseNext, Cron, RequestStep, CreateStep, Processes, NextPeriod, List, StartChunk, EndCron,
       JobFails, LookUp, RefuseRequest, SavePulse, SaveEdit, SumPulses, BeginCreate, Submit, Forward, Approve,
       Reject, BeginSync, BeginEdit, BeginLog, Call, pulseVars, weekVars
  <2> QED
    BY <2>2, <2>4, <2>5
<1>2. PulseInv /\ [PulseNext]_pulseVars => [Stays]_pulseVars
  BY <1>1
<1> QED
  BY <1>2, PulseInvariant, PTL DEF PulseSpec, SubmittedStays


-----------------------------------------------------------------------------
(* The run of the cron *)

\* A job writes the snapshot of its user for the day, and no other user's.
LEMMA WriteCovers ==
  ASSUME PulseInv, Covering, clean, cron = "running", NEW x \in Processes, Write(x)
  PROVE  Covering'
<1>1. /\ PulseShape /\ PulseTypes /\ CleanWeeks /\ pc[x] = "creating" /\ KnowsRow(x)
      /\ UNCHANGED <<cron, waiting, today>> /\ Finish(x)
  BY DEF PulseInv, PulseShape, CleanWeeks, Write, cronVars
<1>2. x \in Users /\ entity[x].user = x /\ entity[x].period = today
  BY <1>1, NobodyElse DEF Undisturbed, KnowsRow, Processes
<1>3. PICK i \in Weeks' :
           /\ Weeks \subseteq Weeks' /\ \A v \in Weeks' : v = i \/ v \in Weeks
           /\ i \in Weeks => week[i].user = entity[x].user
           /\ week'[i] = entity[x]
           /\ \A v \in Weeks \ {i} : week'[v] = week[v]
  BY WrittenRows
<1>4. /\ pc'[x] = "idle"
      /\ \A y \in Processes \ {x} : pc'[y] = pc[y]
  BY <1>1, FinishShape
<1>5. i \in Of(x, today)'
  BY <1>1, <1>2, <1>3 DEF Of
<1>6. \A u \in Users \ {x} : Of(u, today)' = Of(u, today)
  BY <1>1, <1>2, <1>3 DEF Of
<1>7. \A u \in Users : Of(u, today)' # {} \/ u \in waiting' \/ pc'[u] # "idle"
  BY <1>1, <1>4, <1>5, <1>6 DEF Covering, Processes
<1>8. \A u \in Users : u \in waiting' => pc'[u] = "idle"
  BY <1>1, <1>4 DEF Covering, Processes
<1>9. x \notin waiting' /\ pc'[x] # "looking"
  BY <1>1, <1>2, <1>4 DEF Covering
<1>10. \A u \in Users : u \in waiting' \/ pc'[u] = "looking" => Of(u, today)' = {}
  BY <1>1, <1>4, <1>6, <1>9 DEF Covering, Processes
<1> QED
  BY <1>7, <1>8, <1>10 DEF Covering

LEMMA NextCovering ==
  ASSUME Linked = Users
  PROVE  PulseInv /\ Covering /\ [PulseNext]_pulseVars => Covering'
<1> SUFFICES ASSUME PulseInv, Covering, [PulseNext]_pulseVars, clean', cron' = "running"
             PROVE  Covering'
  BY DEF Covering
<1>a. PulseShape /\ PulseTypes
  BY DEF PulseInv, PulseShape
<1>1. CASE UNCHANGED pulseVars
  BY <1>1 DEF Covering, pulseVars, weekVars, procVars, cronVars, Of, Weeks
<1>2. CASE List
  <2>1. /\ waiting' = {u \in Users : Listed(u)} /\ UNCHANGED <<week, pc, today>>
        /\ \A x \in Processes : pc[x] = "idle"
    BY <1>2 DEF List, weekVars, procVars
  <2>2. \A u \in Users : Listed(u) <=> Of(u, today) = {}
    BY DEF Listed
  <2> QED
    BY <2>1, <2>2 DEF Covering, Of, Weeks, Processes
<1>3. CASE StartChunk
  <2>1. PICK C \in Chunks :
          /\ pc' = [x \in Processes |-> IF x \in C THEN "looking" ELSE pc[x]]
          /\ waiting' = waiting \ C
    BY <1>3 DEF StartChunk
  <2>2. C \subseteq waiting /\ waiting \subseteq Users
    BY <1>a DEF Chunks, PulseTypes
  <2>3. UNCHANGED <<week, today, cron, clean>> /\ \A u \in Users : pc[u] = "idle"
    BY <1>3 DEF StartChunk, JobsDone, weekVars
  <2>4. \A u \in Users : pc'[u] = IF u \in C THEN "looking" ELSE "idle"
    BY <2>1, <2>3 DEF Processes
  <2>5. /\ \A u \in Users : Of(u, today) # {} \/ u \in waiting \/ pc[u] # "idle"
        /\ \A u \in Users : u \in waiting => Of(u, today) = {}
    BY <2>3 DEF Covering
  <2>6. \A u \in Users : Of(u, today)' = Of(u, today)
    BY <2>3 DEF Of, Weeks
  <2> QED
    BY <2>1, <2>2, <2>3, <2>4, <2>5, <2>6 DEF Covering
<1>4. ASSUME NEW u \in Users, JobFails(u) PROVE FALSE
  <2>1. /\ pc[u] = "looking" /\ Refused(u) /\ clean /\ cron = "running"
    BY <1>4 DEF JobFails
  <2>2. KnowsRow(u) /\ Of(u, today) = {}
    BY <2>1, <1>4 DEF PulseInv, CleanWeeks, Covering, Processes
  <2>3. PICK w \in Candidates(u, today) : w # 0 /\ Submitted(week[w].status)
    BY <2>1, <2>2 DEF Refused, KnowsRow
  <2>4. Candidates(u, today) = IF Rejected(u) # {} THEN {Max(Rejected(u))} ELSE {0}
    BY <2>2 DEF Candidates
  <2>5. Rejected(u) # {} /\ w = Max(Rejected(u))
    BY <2>3, <2>4
  <2>6. w \in Rejected(u)
    <3>1. Rejected(u) \in SUBSET (1..Len(week)) /\ Len(week) \in Nat
      BY <1>a DEF Rejected, Weeks, PulseTypes
    <3>2. \E x \in Rejected(u) : \A y \in Rejected(u) : x >= y
      BY <2>5, <3>1, BoundedMax
    <3> QED
      BY <2>5, <3>2 DEF Max
  <2> QED
    BY <2>3, <2>6 DEF Rejected, Submitted
<1>5. ASSUME NEW x \in Processes, LookUp(x) PROVE Covering'
  <2>1. /\ pc[x] = "looking" /\ pc' = [pc EXCEPT ![x] = "creating"]
        /\ UNCHANGED <<week, cron, waiting, today, clean>>
    BY <1>5 DEF LookUp, weekVars, cronVars, Goto
  <2>2. pc'[x] = "creating" /\ \A y \in Processes \ {x} : pc'[y] = pc[y]
    BY <2>1, <1>a DEF PulseTypes
  <2> QED
    BY <2>1, <2>2 DEF Covering, Of, Weeks, Processes
<1>6. ASSUME NEW x \in Processes, Write(x) PROVE Covering'
  BY <1>6, WriteCovers DEF Write, cronVars
<1>7. ASSUME NEW c \in Callers, UNCHANGED <<cron, clean>>, pc[c] # "idle" PROVE FALSE
  BY <1>7 DEF PulseInv, CleanWeeks, OneAtATime
<1>8. CASE NextPeriod \/ EndCron
  BY <1>8 DEF NextPeriod, EndCron, cronVars
<1>9. ASSUME NEW c \in Callers,
             \/ BeginCreate(c) \/ Submit(c) \/ Forward(c) \/ Approve(c) \/ Reject(c)
             \/ BeginSync(c) \/ BeginEdit(c) \/ BeginLog(c)
      PROVE  FALSE
  <2>1. clean' = (clean /\ cron = "idle" /\ \A x \in Processes : pc[x] = "idle") /\ UNCHANGED cron
    BY <1>9 DEF BeginCreate, Submit, Forward, Approve, Reject, BeginSync, BeginEdit, BeginLog, Call, cronVars
  <2> QED
    BY <2>1
<1>10. ASSUME NEW c \in Callers, RequestStep(c) PROVE FALSE
  BY <1>7, <1>10 DEF RequestStep, RefuseRequest, SavePulse, SaveEdit, SumPulses, Store,
     CommitLog, cronVars
<1> QED
  BY <1>1, <1>2, <1>3, <1>4, <1>5, <1>6, <1>8, <1>9, <1>10 DEF PulseNext, Cron, CreateStep, Processes

\* The cron, run alone, leaves every user with a snapshot of the day's period, if
\* every resource holds the id of its user.
THEOREM CronAlwaysCovers ==
  ASSUME Linked = Users
  PROVE  PulseSpec => CronCovers
<1> DEFINE Covers == clean' /\ cron = "running" /\ cron' = "idle" => \A u \in Users : Of(u, today) # {}
<1>1. PulseInit => Covering
  BY DEF PulseInit, Covering
<1>2. PulseInv /\ Covering /\ [PulseNext]_pulseVars => Covering'
  BY NextCovering
<1>3. PulseSpec => [](PulseInv /\ Covering)
  BY <1>1, <1>2, PulseInvariant, PTL DEF PulseSpec
<1>4. PulseInv /\ Covering /\ [PulseNext]_pulseVars => [Covers]_pulseVars
  <2> SUFFICES ASSUME PulseInv, Covering, [PulseNext]_pulseVars, clean', cron = "running", cron' = "idle"
               PROVE  \A u \in Users : Of(u, today) # {}
    OBVIOUS
  <2>1. EndCron
    BY DEF PulseNext, Cron, RequestStep, CreateStep, NextPeriod, List, StartChunk,
       JobFails, LookUp, Write, RefuseRequest, SavePulse, SaveEdit, SumPulses, Store, CommitLog, BeginCreate,
       Submit, Forward, Approve, Reject, BeginSync, BeginEdit, BeginLog, Call, pulseVars, cronVars
  <2>2. waiting = {} /\ clean /\ \A u \in Users : pc[u] = "idle"
    BY <2>1 DEF EndCron, NothingLeft, JobsDone
  <2> QED
    BY <2>2 DEF Covering
<1> QED
  BY <1>3, <1>4, PTL DEF PulseSpec, CronCovers
=============================================================================
