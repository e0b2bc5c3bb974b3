---------------------------- MODULE Registration ----------------------------
(***************************************************************************)
(* Self-registration: a code is mailed, verified against a cap of          *)
(* attempts and exchanged for a token; the token is exchanged for a user,  *)
(* a company and its administrator, statement by statement.  With it, the  *)
(* Google sign-in and the two ways to change a password.                   *)
(*                                                                         *)
(* One e-mail address is modelled.  Codes, companies, passwords and reset  *)
(* links are numbered in the order they are made; every one is new.  A     *)
(* registration token never expires here: that it may be used late is      *)
(* the harder case.                                                        *)
(***************************************************************************)
EXTENDS RequestPlans

CONSTANT MaxAttempts    \* MAX_VERIFICATION_ATTEMPTS
ASSUME AttemptsAssumption == MaxAttempts \in Nat \ {0}

VARIABLES
  pending,   \* the row of otp_verifications, NoRow when there is none
  codes,     \* codes generated so far
  mailed,    \* the code mailed last, 0 when none was
  tokens,    \* for each code, the registration tokens issued for it
  tries,     \* for each code, the guesses compared with it
  user,      \* the row of user with its companies, NoRow when there is none
  firms,     \* for each company made, what has been set up in it
  passwords  \* passwords and reset links made so far

tables == <<pending, codes, mailed, tokens, tries, user, firms, passwords>>
vars   == <<tables, requestVars>>

NoRow == [id |-> 0]
Codes == 1..MaxServed + 1    \* bound
Parts == {"role", "grant", "division", "member", "resource"}

Pending == [id : Codes, attempts : 0..MaxAttempts, live : BOOLEAN]
User == [password : Nat, reset : Nat, live : BOOLEAN, picture : BOOLEAN,
         companies : SUBSET Nat, default : Nat]
NewUser(p) == [password |-> p, reset |-> 0, live |-> FALSE, picture |-> FALSE,
               companies |-> {}, default |-> 0]

\* At the start nothing is known of the address, or a code is out, or a token,
\* or the address has an account with a company.
Init ==
  /\ \E stage \in {"new", "code", "token", "user"} :
       /\ codes = IF stage = "new" THEN 0 ELSE 1
       /\ mailed = codes
       /\ pending = IF stage = "code" THEN [id |-> 1, attempts |-> 0, live |-> TRUE] ELSE NoRow
       /\ tokens = [k \in Codes |-> IF k = 1 /\ stage \in {"token", "user"} THEN 1 ELSE 0]
       /\ tries = [k \in Codes |-> IF k = 1 /\ stage \in {"token", "user"} THEN 1 ELSE 0]
       /\ user = IF stage = "user"
                   THEN [NewUser(0) EXCEPT !.companies = {1}, !.default = 1] ELSE NoRow
       /\ firms = IF stage = "user" THEN <<Parts>> ELSE <<>>
  /\ passwords = 0
  /\ InitRequests

Stop(c) == End(c) /\ UNCHANGED tables

-----------------------------------------------------------------------------
(* Sending and verifying a code *)

\* register: generates a code, and sends it when it is stored.
KeepOld  == <<"checkUser", "insertPending", "mailCode">>
Register == <<"checkUser", "dropPending", "insertPending", "mailCode">>

StartRegister(c) ==
  /\ codes + 1 \in Codes
  /\ Arrive(c, [op |-> "register", code |-> codes + 1], <<>>, Register)
  /\ codes' = codes + 1
  /\ UNCHANGED <<pending, mailed, tokens, tries, user, firms, passwords>>

CheckUser(c) ==
  /\ At(c, "checkUser")
  /\ IF user # NoRow THEN Stop(c) ELSE Done(c) /\ UNCHANGED tables

DropPending(c) ==
  /\ At(c, "dropPending")
  /\ pending' = NoRow
  /\ Done(c)
  /\ UNCHANGED <<codes, mailed, tokens, tries, user, firms, passwords>>

\* The e-mail is unique: of two inserts the second fails.
InsertPending(c) ==
  /\ At(c, "insertPending")
  /\ IF pending # NoRow
       THEN Stop(c)
       ELSE /\ pending' = [id |-> req[c].code, attempts |-> 0, live |-> TRUE]
            /\ Done(c)
            /\ UNCHANGED <<codes, mailed, tokens, tries, user, firms, passwords>>

MailCode(c) ==
  /\ At(c, "mailCode")
  /\ mailed' = req[c].code
  /\ Done(c)
  /\ UNCHANGED <<pending, codes, tokens, tries, user, firms, passwords>>

\* verifyOtp, with some code that was generated or with none of them
StartVerify(c) ==
  /\ \E guess \in {0, mailed} :
       Arrive(c, [op |-> "verify", guess |-> guess], <<>>,
              <<"findPending", "takeAttempt", "dropOwn">>)
  /\ UNCHANGED tables

FindPending(c) ==
  /\ At(c, "findPending")
  /\ IF pending = NoRow \/ ~pending.live
       THEN Stop(c) ELSE Proceed(c, pending) /\ UNCHANGED tables

\* "a single conditional UPDATE so concurrent guesses can't bypass the cap".  A
\* bug would compare with the attempts that were loaded, or not at all.
AnyAttempt(row, loaded) == row.id = loaded.id
LoadedBelowCap(row, loaded) == row.id = loaded.id /\ loaded.attempts < MaxAttempts
BelowCap(row, loaded) == row.id = loaded.id /\ row.attempts < MaxAttempts

\* The guess is compared with the code that was loaded.
TakeAttempt(c) ==
  /\ At(c, "takeAttempt")
  /\ IF pending # NoRow /\ BelowCap(pending, mem[c])
       THEN /\ pending' = [pending EXCEPT !.attempts = @ + 1]
            /\ tries' = [tries EXCEPT ![mem[c].id] = @ + 1]
            /\ IF req[c].guess = mem[c].id THEN Done(c) ELSE End(c)
            /\ UNCHANGED <<codes, mailed, tokens, user, firms, passwords>>
       ELSE Stop(c)

\* The row is deleted, then the token is signed and returned.
DropOwn(c) ==
  /\ At(c, "dropOwn")
  /\ pending' = IF pending.id = mem[c].id THEN NoRow ELSE pending
  /\ tokens' = [tokens EXCEPT ![mem[c].id] = @ + 1]
  /\ Done(c)
  /\ UNCHANGED <<codes, mailed, tries, user, firms, passwords>>

\* Fifteen minutes, or the hour of a reset link, go by.
TimePasses ==
  /\ \/ /\ pending # NoRow /\ pending.live
        /\ pending' = [pending EXCEPT !.live = FALSE] /\ UNCHANGED user
     \/ /\ user # NoRow /\ user.live
        /\ user' = [user EXCEPT !.live = FALSE] /\ UNCHANGED pending
  /\ UNCHANGED <<codes, mailed, tokens, tries, firms, passwords, requestVars>>

-----------------------------------------------------------------------------
(* Completing a registration *)

\* onboardingSetupAdminRole
SetUp == <<"role", "grant", "division", "member", "resource">>

\* completeRegistration, with any token there is
StartComplete(c) ==
  /\ \E k \in Codes : tokens[k] > 0
  /\ Arrive(c, [op |-> "complete", password |-> passwords + 1], <<>>,
            <<"loadUser", "saveUser", "readFirms", "commitFirm">> \o SetUp)
  /\ passwords' = passwords + 1
  /\ UNCHANGED <<pending, codes, mailed, tokens, tries, user, firms>>

LoadUser(c) ==
  /\ At(c, "loadUser")
  /\ Proceed(c, user)
  /\ UNCHANGED tables

\* save(User): a user who is there keeps the password, and the companies as
\* they were loaded; the e-mail is unique.  A bug would save a user without them.
NoCompanies(u) == [u EXCEPT !.companies = {}]
Kept(u) == u

SaveUser(c) ==
  /\ At(c, "saveUser")
  /\ IF mem[c] = NoRow /\ user # NoRow
       THEN Stop(c)
       ELSE /\ user' = IF mem[c] = NoRow THEN NewUser(req[c].password) ELSE Kept(mem[c])
            /\ Done(c)
            /\ UNCHANGED <<pending, codes, mailed, tokens, tries, firms, passwords>>

\* onboardingCreateCompany, in one transaction: two companies of one name that
\* are made at the same time choose the same code.  The second insert fails,
\* and so do its retries, since the transaction has been aborted.
ReadFirms(c) ==
  /\ At(c, "readFirms")
  /\ Proceed(c, [taken |-> Len(firms)])
  /\ UNCHANGED tables

CommitFirm(c) ==
  /\ At(c, "commitFirm")
  /\ IF mem[c].taken # Len(firms)
       THEN Stop(c)
       ELSE /\ firms' = Append(firms, {})
            /\ user' = [user EXCEPT !.companies = @ \cup {Len(firms) + 1},
                                    !.default = Len(firms) + 1]
            /\ Proceed(c, [firm |-> Len(firms) + 1])
            /\ UNCHANGED <<pending, codes, mailed, tokens, tries, passwords>>

SetUpFirm(c) == \E s \in Parts :
  /\ At(c, s)
  /\ firms' = [firms EXCEPT ![mem[c].firm] = @ \cup {s}]
  /\ Done(c)
  /\ UNCHANGED <<pending, codes, mailed, tokens, tries, user, passwords>>

-----------------------------------------------------------------------------
(* Google sign-in and passwords *)

\* googleLogin: a user without a picture gets the one of the Google account; the
\* first sign-in creates the user, with a password nobody knows.
StartGoogle(c) ==
  /\ \E action \in {"login", "register"} :
       Arrive(c, [op |-> "google", action |-> action], user,
              IF user = NoRow /\ action = "login" THEN <<"answer">>
              ELSE IF user # NoRow /\ user.picture THEN <<"answer">> ELSE <<"savePicture">>)
  /\ UNCHANGED tables

Answer(c) == At(c, "answer") /\ Stop(c)

\* The relations were not loaded: the companies are left alone.
SavePicture(c) ==
  /\ At(c, "savePicture")
  /\ IF mem[c] = NoRow
       THEN IF user # NoRow THEN Stop(c)
            ELSE /\ user' = [NewUser(passwords + 1) EXCEPT !.picture = TRUE]
                 /\ passwords' = passwords + 1
                 /\ Done(c)
                 /\ UNCHANGED <<pending, codes, mailed, tokens, tries, firms>>
       ELSE /\ user' = [mem[c] EXCEPT !.picture = TRUE, !.companies = user.companies]
            /\ Done(c)
            /\ UNCHANGED <<pending, codes, mailed, tokens, tries, firms, passwords>>

\* forgotPassword: the link replaces an earlier one.
ForgotPassword(c) ==
  /\ user # NoRow
  /\ Arrive(c, [op |-> "forgot"], <<>>, <<"setLink">>)
  /\ UNCHANGED tables

SetLink(c) ==
  /\ At(c, "setLink")
  /\ user' = [user EXCEPT !.reset = passwords + 1, !.live = TRUE]
  /\ passwords' = passwords + 1
  /\ Done(c)
  /\ UNCHANGED <<pending, codes, mailed, tokens, tries, firms>>

\* resetPassword, with the link that is stored: no other one is found.
StartReset(c) ==
  /\ user # NoRow /\ user.reset # 0
  /\ Arrive(c, [op |-> "reset", link |-> user.reset], <<>>, <<"findLink", "setPassword">>)
  /\ UNCHANGED tables

FindLink(c) ==
  /\ At(c, "findLink")
  /\ IF user.reset # req[c].link \/ ~user.live
       THEN Stop(c) ELSE Done(c) /\ UNCHANGED tables

Reset(u, p) == [u EXCEPT !.password = p, !.reset = 0, !.live = FALSE]

SetPassword(c) ==
  /\ At(c, "setPassword")
  /\ passwords' = passwords + 1
  /\ user' = Reset(user, passwords + 1)
  /\ Done(c)
  /\ UNCHANGED <<pending, codes, mailed, tokens, tries, firms>>

-----------------------------------------------------------------------------
Fail(c) == Break(c) /\ UNCHANGED tables

\* An e-mail that cannot be sent is logged only.
MailFails(c) == Shrug(c, "mailCode") /\ UNCHANGED tables

Request(c) ==
  \/ StartRegister(c) \/ StartVerify(c) \/ StartComplete(c)
  \/ StartGoogle(c) \/ ForgotPassword(c) \/ StartReset(c)

Statement(c) ==
  \/ CheckUser(c) \/ DropPending(c) \/ InsertPending(c) \/ MailCode(c)
  \/ FindPending(c) \/ TakeAttempt(c) \/ DropOwn(c)
  \/ LoadUser(c) \/ SaveUser(c) \/ ReadFirms(c) \/ CommitFirm(c) \/ SetUpFirm(c)
  \/ Answer(c) \/ SavePicture(c) \/ SetLink(c) \/ FindLink(c) \/ SetPassword(c)

Next ==
  \/ TimePasses
  \/ \E c \in Requests : Request(c) \/ Statement(c) \/ Fail(c) \/ MailFails(c)

Spec == Init /\ [][Next]_vars

-----------------------------------------------------------------------------
(* Correctness *)

TypeOK ==
  /\ pending \in Pending \cup {NoRow}
  /\ codes \in Codes \cup {0} /\ mailed \in 0..codes
  /\ tokens \in [Codes -> Nat] /\ tries \in [Codes -> Nat]
  /\ user \in User \cup {NoRow}
  /\ firms \in Seq(SUBSET Parts)
  /\ user # NoRow =>
       user.companies \subseteq DOMAIN firms /\ user.default \in {0} \cup DOMAIN firms
  /\ passwords \in Nat
  /\ RequestsOK

\* However many verifications run at the same time, and whatever fails, no more
\* than MaxAttempts guesses are compared with a code.
AttemptsCapped == \A k \in Codes : tries[k] <= MaxAttempts

\* While requests follow one another, the code generated last is the one in the
\* mailbox and the one that verifies, until it has been exchanged for one token.
\* A used-up or expired code never keeps anybody from registering again.
LatestCodeWorks ==
  Clean /\ Quiet /\ user = NoRow /\ codes # 0 =>
    mailed = codes /\ tokens[codes] = IF pending.id = codes THEN 0 ELSE 1

\* A company that has been made has its administrator, division and resource,
\* also when registrations of one address overlap; when they do not, the user
\* belongs to every company made and the latest one is the default.
Onboarded ==
  /\ ~failed /\ Quiet => \A i \in DOMAIN firms : firms[i] = Parts
  /\ Clean /\ Quiet /\ user # NoRow =>
       user.companies = 1..Len(firms) /\ user.default = Len(firms)
=============================================================================
