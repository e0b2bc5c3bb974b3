----------------------------- MODULE Membership -----------------------------
(***************************************************************************)
(* An account, the companies it belongs to, the roles it holds there, and  *)
(* the two Redis caches derived from them: the privileges that go into     *)
(* access tokens, and the companies the authorization guard looks up.      *)
(*                                                                         *)
(* Most handlers of UserService, RoleService and CompanyService are a list *)
(* of statements without a transaction.  A request is modelled by the list *)
(* of the statements it has still to run, its plan; each action is one     *)
(* statement, so statements of different requests interleave.  Loading a   *)
(* user and saving it later writes the loaded companies back, those that   *)
(* somebody else added or removed meanwhile included.                      *)
(*                                                                         *)
(* One e-mail address is modelled.  Redis errors are swallowed: a call to  *)
(* the cache may do nothing.                                               *)
(***************************************************************************)
EXTENDS RequestPlans

CONSTANTS
  Companies,
  Roles,
  HomeOf,       \* the company of each role
  Privileges,
  First,        \* the company a first account began in
  NoCompany,
  Absent        \* a key the cache does not hold

ASSUME MembershipAssumption ==
  /\ HomeOf \in [Roles -> Companies] /\ NoCompany \notin Companies
  /\ First \in Companies

VARIABLES
  account,     \* the row of user with its companies, NoAccount when there is none
  grants,      \* the rows of user_company_role
  granted,     \* the privileges of each role
  privCache,   \* user_privileges:<id>
  compCache,   \* user_companies:<id>
  made,        \* accounts created so far: the id of the latest
  lent,        \* the roles an update gave where the account did not belong
  stranded     \* a delete took a company away and could not take the account

ghostVars == <<lent, stranded>>
tableVars == <<account, grants, granted, made, ghostVars>>
cacheVars == <<privCache, compCache>>
vars      == <<tableVars, cacheVars, requestVars>>

Account == [id : Nat, active : BOOLEAN, companies : SUBSET Companies,
            default : Companies \cup {NoCompany}]
NoAccount == [id |-> 0]
NoMemory == [account |-> NoAccount, grants |-> {}, privileges |-> {}, companies |-> {}]

\* user_privilege_view and user_company_view, for the account.  The activity of
\* a role plays no part in the view.
OnlyCompanies(G, P) == {HomeOf[r] : r \in {s \in G : P[s] # {}}}
View(G, P) == UNION {{HomeOf[r]} \X P[r] : r \in G}
CompaniesOf(a) == IF a = NoAccount THEN {} ELSE a.companies

\* At the start there is no account, or one that holds the roles of its
\* companies, with its keys cached.
Init ==
  /\ made \in {0, 1}
  /\ granted = [r \in Roles |-> Privileges]
  /\ IF made = 0
       THEN account = NoAccount /\ grants = {} /\ privCache = Absent /\ compCache = Absent
       ELSE \E S \in {T \in SUBSET Companies : First \in T} :
              /\ account = [id |-> 1, active |-> TRUE, companies |-> S, default |-> First]
              /\ grants = {r \in Roles : HomeOf[r] \in S}
              /\ privCache = View(grants, granted) /\ compCache = S
  /\ lent = {} /\ stranded = FALSE
  /\ InitRequests

\* The process listens once ScheduleService has warmed the caches.
Listening == \A c \in Requests : req[c].op # "warm"
Ask(c, r, m, p) == Listening /\ Arrive(c, r, m, p) /\ UNCHANGED <<tableVars, cacheVars>>
Stop(c) == End(c) /\ UNCHANGED <<tableVars, cacheVars>>

\* The account is still the one the request began with; another one, or none,
\* has other rows and other keys.
Mine(c) == account # NoAccount /\ mem[c].account.id = account.id

-----------------------------------------------------------------------------
(* Requests *)

Loaded == [NoMemory EXCEPT !.account = account, !.grants = grants]

RefreshPrivileges == <<"dropPrivileges", "readPrivileges", "putPrivileges">>
RefreshCompanies  == <<"readCompanies", "putCompanies">>
\* A bug would refresh one of the two keys only.
OtherKey == RefreshCompanies
Refresh  == RefreshPrivileges \o RefreshCompanies

\* createUser, for a company that does not have the user yet; it runs in one
\* transaction and refreshes the caches after it.
CreateUser(c) == \E k \in Companies :
  /\ k \notin CompaniesOf(account)
  /\ \E R \in SUBSET {r \in Roles : HomeOf[r] = k} :
       Ask(c, [op |-> "create", company |-> k, roles |-> R], Loaded, <<"commitUser">> \o Refresh)

\* updateUser, with roles or without: they are put in the active company of the
\* caller, whether or not the user belongs to it.
UpdateUser(c) ==
  /\ account # NoAccount
  /\ \E k \in Companies, b \in BOOLEAN,
        p \in {<<"deleteRoles", "insertRoles", "reloadRoles">>, <<>>} :
       \E R \in SUBSET {r \in Roles : HomeOf[r] = k} :
         Ask(c, [op |-> "update", company |-> k, roles |-> R],
                [Loaded EXCEPT !.account.active = b], p \o <<"saveUser">> \o Refresh)

\* disableUser: toggles, then refreshes or deletes the cached keys
DisableUser(c) == \E k \in CompaniesOf(account) :
  Ask(c, [op |-> "disable", company |-> k], Loaded,
         <<"toggle">> \o IF account.active THEN <<"dropPrivileges", "dropCompanies">> ELSE Refresh)

\* deleteUser: the user leaves the active company.  It was loaded with that one
\* company, so none seems to remain and the account is deleted every time.
DeleteUser(c) == \E k \in CompaniesOf(account) :
  Ask(c, [op |-> "delete", company |-> k], Loaded,
         <<"deleteRoles", "leaveCompany", "deleteUser">>)

\* setDefaultCompany
SetDefaultCompany(c) == \E k \in CompaniesOf(account) :
  Ask(c, [op |-> "default", company |-> k],
         [Loaded EXCEPT !.account.default = k], <<"saveUser">>)

\* createCompany with the user in its list: the new company is pushed on to the
\* loaded ones.
CreateCompany(c) ==
  /\ account # NoAccount
  /\ \E k \in Companies \ account.companies :
       Ask(c, [op |-> "company", company |-> k],
              [Loaded EXCEPT !.account.companies = @ \cup {k}], <<"saveUser">> \o Refresh)

\* assignPrivilegeToRole: a privilege the role has is taken away, another added.
AssignPrivilege(c) == \E r \in Roles, p \in Privileges :
  Ask(c, [op |-> "assign", role |-> r],
         [NoMemory EXCEPT !.privileges =
            IF p \in granted[r] THEN granted[r] \ {p} ELSE granted[r] \cup {p}],
         <<"saveRole", "findAffected", "readPrivileges", "putIfAny">>)

\* disableRole, updateRole: nothing the view depends on
UpdateRole(c) == \E r \in Roles :
  Ask(c, [op |-> "assign", role |-> r], [NoMemory EXCEPT !.privileges = granted[r]],
         <<"findAffected", "readPrivileges", "putIfAny">>)

\* login of an active user: the cached privileges, else those of the database
Login(c) ==
  /\ account # NoAccount /\ account.active
  /\ Ask(c, [op |-> "login"], Loaded, <<"getPrivileges", "readPrivileges", "putIfAny">>)

\* The guard of any request of a logged-in user
Guard(c) ==
  /\ account # NoAccount
  /\ \E k \in Companies :
       Ask(c, [op |-> "guard", company |-> k], Loaded, <<"getCompanies", "readCompanies", "putIfMember">>)

\* ScheduleService at the start of the process
Warm(c) ==
  /\ Quiet
  /\ Ask(c, [op |-> "warm"], Loaded,
          <<"readPrivileges", "putIfAny", "readCompanies", "putIfMember">>)

-----------------------------------------------------------------------------
(* Statements on the tables *)

\* save(User): the row is written and its companies become those in memory; a
\* row that is gone is inserted again, unless its e-mail is taken.  Roles saved
\* with the user replace the rows likewise, but a row that was inserted
\* meanwhile would lose its user, which is an error.
CanSave(a) == account = NoAccount \/ account.id = a.id
CanSaveRoles(c) == grants \subseteq mem[c].grants

\* The first company of a user becomes the default.
DefaultFor(a, k) == IF a.companies = {} \/ a.default = NoCompany THEN k ELSE a.default

NewAccount == [id |-> made + 1, active |-> TRUE, companies |-> {}, default |-> NoCompany]
Joined(a, k) == [a EXCEPT !.active = TRUE, !.companies = @ \cup {k}, !.default = DefaultFor(a, k)]

CommitNewUser(c) ==
  /\ At(c, "commitUser") /\ mem[c].account = NoAccount /\ account = NoAccount
  /\ account' = Joined(NewAccount, req[c].company)
  /\ grants' = req[c].roles
  /\ made' = made + 1
  /\ privCache' = Absent /\ compCache' = Absent
  /\ Proceed(c, [mem[c] EXCEPT !.account = account'])
  /\ UNCHANGED <<granted, ghostVars>>

CommitKnownUser(c) ==
  /\ At(c, "commitUser") /\ mem[c].account # NoAccount
  /\ CanSave(mem[c].account) /\ CanSaveRoles(c)
  /\ account' = Joined(mem[c].account, req[c].company)
  /\ grants' = mem[c].grants \cup req[c].roles
  /\ Done(c)
  /\ UNCHANGED <<granted, made, ghostVars, cacheVars>>

\* The transaction is rolled back.
CommitFails(c) ==
  /\ At(c, "commitUser")
  /\ IF mem[c].account = NoAccount THEN account # NoAccount
     ELSE ~CanSave(mem[c].account) \/ ~CanSaveRoles(c)
  /\ Stop(c)

\* A bug would leave the roles of the company.
AllRoles(G, k) == G
RolesElsewhere(G, k) == {r \in G : HomeOf[r] # k}

DeleteRoles(c) ==
  /\ At(c, "deleteRoles")
  /\ grants' = IF Mine(c) THEN RolesElsewhere(grants, req[c].company) ELSE grants
  /\ lent' = IF Mine(c) THEN RolesElsewhere(lent, req[c].company) ELSE lent
  /\ Done(c)
  /\ UNCHANGED <<account, granted, made, stranded, cacheVars>>

\* A row another request has inserted, or a user that is gone, is an error.
InsertRoles(c) ==
  /\ At(c, "insertRoles")
  /\ IF Mine(c) /\ grants \cap req[c].roles = {}
       THEN /\ grants' = grants \cup req[c].roles
            /\ lent' = IF req[c].company \in account.companies THEN lent
                       ELSE lent \cup req[c].roles
            /\ Done(c)
            /\ UNCHANGED <<account, granted, made, stranded, cacheVars>>
       ELSE Stop(c)

ReloadRoles(c) ==
  /\ At(c, "reloadRoles")
  /\ Proceed(c, [mem[c] EXCEPT !.grants = grants])
  /\ UNCHANGED <<tableVars, cacheVars>>

\* updateUser saves the roles with the user.
SaveUser(c) ==
  /\ At(c, "saveUser")
  /\ IF CanSave(mem[c].account) /\ (req[c].op = "update" => CanSaveRoles(c))
       THEN /\ account' = mem[c].account
            /\ grants' = IF req[c].op = "update" THEN mem[c].grants ELSE grants
            /\ Done(c)
            /\ UNCHANGED <<granted, made, ghostVars, cacheVars>>
       ELSE Stop(c)

\* An UPDATE or a DELETE of rows that are gone changes nothing.
Toggle(c) ==
  /\ At(c, "toggle")
  /\ account' = IF Mine(c) THEN [account EXCEPT !.active = ~mem[c].account.active] ELSE account
  /\ Done(c)
  /\ UNCHANGED <<grants, granted, made, ghostVars, cacheVars>>

LeaveCompany(c) ==
  /\ At(c, "leaveCompany")
  /\ account' = IF Mine(c) THEN [account EXCEPT !.companies = @ \ {req[c].company}] ELSE account
  /\ Done(c)
  /\ UNCHANGED <<grants, granted, made, ghostVars, cacheVars>>

\* The account goes, and with it by cascade what refers to it.
RemoveUser(c) ==
  /\ At(c, "deleteUser")
  /\ IF Mine(c)
       THEN account' = NoAccount /\ grants' = {} /\ lent' = {} /\ stranded' = FALSE
       ELSE UNCHANGED <<account, grants, ghostVars>>
  /\ Done(c)
  /\ UNCHANGED <<granted, made, cacheVars>>

\* A row that refers to the user without a cascade (a pulse week, a pool it owns
\* elsewhere) refuses the DELETE: the request ends with what it has taken away.
RefuseDelete(c) ==
  /\ At(c, "deleteUser") /\ Mine(c)
  /\ stranded' = TRUE
  /\ End(c)
  /\ UNCHANGED <<account, grants, granted, made, lent, cacheVars>>

SaveRole(c) ==
  /\ At(c, "saveRole")
  /\ granted' = [granted EXCEPT ![req[c].role] = mem[c].privileges]
  /\ Done(c)
  /\ UNCHANGED <<account, grants, made, ghostVars, cacheVars>>

-----------------------------------------------------------------------------
(* Statements on the caches *)

DropPrivileges(c) ==
  /\ At(c, "dropPrivileges")
  /\ privCache' = IF Mine(c) THEN Absent ELSE privCache
  /\ Done(c)
  /\ UNCHANGED <<tableVars, compCache>>

DropCompanies(c) ==
  /\ At(c, "dropCompanies")
  /\ compCache' = IF Mine(c) THEN Absent ELSE compCache
  /\ Done(c)
  /\ UNCHANGED <<tableVars, privCache>>

\* invalidateCacheForRole: the users of the role that have some privilege left;
\* the key is deleted first.
FindAffected(c) ==
  /\ At(c, "findAffected")
  /\ IF account # NoAccount /\ req[c].role \in grants /\ View(grants, granted) # {}
       THEN /\ privCache' = Absent
            /\ Proceed(c, [mem[c] EXCEPT !.account = account])
            /\ UNCHANGED <<tableVars, compCache>>
       ELSE Stop(c)

\* getPrivilegesWithFallback: an empty list counts as none.
GetPrivileges(c) ==
  /\ At(c, "getPrivileges")
  /\ IF Mine(c) /\ privCache \notin {Absent, {}}
       THEN Stop(c)
       ELSE Done(c) /\ UNCHANGED <<tableVars, cacheVars>>

ReadPrivileges(c) ==
  /\ At(c, "readPrivileges")
  /\ Proceed(c, [mem[c] EXCEPT !.privileges = IF Mine(c) THEN View(grants, granted) ELSE {}])
  /\ UNCHANGED <<tableVars, cacheVars>>

\* The refresh stores an empty list too; the others store none.
PutPrivileges(c) ==
  /\ At(c, "putPrivileges") \/ At(c, "putIfAny")
  /\ privCache' = IF Mine(c) /\ (At(c, "putPrivileges") \/ mem[c].privileges # {})
                    THEN mem[c].privileges ELSE privCache
  /\ Done(c)
  /\ UNCHANGED <<tableVars, compCache>>

\* AuthorizationGuard: the cached companies will do when the company is there.
GetCompanies(c) ==
  /\ At(c, "getCompanies")
  /\ IF Mine(c) /\ compCache # Absent /\ req[c].company \in compCache
       THEN Stop(c)
       ELSE Done(c) /\ UNCHANGED <<tableVars, cacheVars>>

ReadCompanies(c) ==
  /\ At(c, "readCompanies")
  /\ Proceed(c, [mem[c] EXCEPT !.companies = IF Mine(c) THEN account.companies ELSE {}])
  /\ UNCHANGED <<tableVars, cacheVars>>

PutCompanies(c) ==
  /\ At(c, "putCompanies") \/ At(c, "putIfMember")
  /\ compCache' = IF Mine(c) /\ (At(c, "putCompanies") \/ mem[c].companies # {})
                    THEN mem[c].companies ELSE compCache
  /\ Done(c)
  /\ UNCHANGED <<tableVars, privCache>>

-----------------------------------------------------------------------------
(* Failures *)

Fail(c) == Break(c) /\ UNCHANGED <<tableVars, cacheVars>>

\* safeExec: a cache call that fails is logged, and the request goes on.
CacheCalls == {"dropPrivileges", "dropCompanies", "putPrivileges", "putIfAny",
               "putCompanies", "putIfMember", "getPrivileges", "getCompanies"}
CacheFails(c) ==
  /\ \E s \in CacheCalls : Shrug(c, s)
  /\ UNCHANGED <<tableVars, cacheVars>>

-----------------------------------------------------------------------------
Request(c) ==
  \/ CreateUser(c) \/ UpdateUser(c) \/ DisableUser(c) \/ DeleteUser(c)
  \/ SetDefaultCompany(c) \/ CreateCompany(c)
  \/ AssignPrivilege(c) \/ UpdateRole(c)
  \/ Login(c) \/ Guard(c) \/ Warm(c)

Statement(c) ==
  \/ CommitNewUser(c) \/ CommitKnownUser(c) \/ CommitFails(c)
  \/ DeleteRoles(c) \/ InsertRoles(c) \/ ReloadRoles(c) \/ SaveUser(c)
  \/ Toggle(c) \/ LeaveCompany(c) \/ RemoveUser(c) \/ RefuseDelete(c) \/ SaveRole(c)
  \/ DropPrivileges(c) \/ DropCompanies(c) \/ FindAffected(c)
  \/ GetPrivileges(c) \/ ReadPrivileges(c) \/ PutPrivileges(c)
  \/ GetCompanies(c) \/ ReadCompanies(c) \/ PutCompanies(c)

Next == \E c \in Requests : Request(c) \/ Statement(c) \/ Fail(c) \/ CacheFails(c)

Spec == Init /\ [][Next]_vars

-----------------------------------------------------------------------------
(* Correctness *)

Statements ==
  {"commitUser", "deleteRoles", "insertRoles", "reloadRoles", "saveUser", "toggle",
   "leaveCompany", "deleteUser", "saveRole", "findAffected",
   "readPrivileges", "readCompanies"} \cup CacheCalls

TypeOK ==
  /\ account \in Account \cup {NoAccount}
  /\ grants \subseteq Roles /\ granted \in [Roles -> SUBSET Privileges]
  /\ privCache \in (SUBSET (Companies \X Privileges)) \cup {Absent}
  /\ compCache \in (SUBSET Companies) \cup {Absent}
  /\ plan \in [Requests -> Seq(Statements)]
  /\ made \in Nat /\ lent \subseteq Roles /\ stranded \in BOOLEAN
  /\ RequestsOK

\* While requests follow one another and nothing fails, a user holds roles in
\* its own companies only, but for those an update gave it elsewhere; and it has
\* a company, its default among them, unless a refused delete took one away ...
AtHome ==
  Clean /\ Quiet =>
    /\ \A r \in grants \ lent : HomeOf[r] \in CompaniesOf(account)
    /\ account # NoAccount /\ ~stranded =>
         account.companies # {} /\ account.default \in account.companies

\* ... and finds the privileges of the database in the cache, as long as some
\* are left ("Invalidate Redis cache for all users who have this role"), and its
\* companies; a refused delete forgets both keys.
CachesFresh ==
  Clean /\ Quiet /\ ~stranded =>
    /\ View(grants, granted) # {} => privCache \in {Absent, {}, View(grants, granted)}
    /\ account # NoAccount => compCache \in {Absent, account.companies}
=============================================================================
