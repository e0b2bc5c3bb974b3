------------------------- MODULE MeetingConnection -------------------------
(***************************************************************************)
(* The connection of a user to a meeting provider: the OAuth callback, the *)
(* disconnection and the syncs, on request or by the daily cron, that      *)
(* refresh the tokens on their way.                                        *)
(*                                                                         *)
(* A token is the number of its issue.  The provider accepts an access     *)
(* token until it dies, and gives new tokens for a refresh token that is   *)
(* live; one that rotates spends the old one.  A save reads the row again  *)
(* and updates the columns in which the entity differs from it.  The       *)
(* meetings themselves, the row of the sync state, and the providers a     *)
(* company has not allowed, which a sync skips, are left out.              *)
(***************************************************************************)
EXTENDS RequestPlans

CONSTANTS
  Kinds,     \* what the provider may be: whether it rotates its refresh tokens,
             \* whether its errors are classified, and whether the fetch of its
             \* meetings is a stub that never calls it
  MaxIssues  \* bound: times the provider gives tokens

ASSUME IssueAssumption == MaxIssues \in Nat
\* A stub has no errors to classify.
ASSUME KindAssumption == \A k \in Kinds : k.stub => ~k.classifies

VARIABLES
  provider,  \* the kind of the provider
  grant,     \* the refresh token of each issue: "live", "spent", "withdrawn" or "none"
  accepted,  \* the access tokens the provider accepts
  expired,   \* those whose advertised expiry has come
  row,       \* the row of meeting_integration_connection
  denied,    \* the provider refused a good token, and that was the last error saved
  forgotten  \* a disconnection was served alone, and no callback came since

world  == <<provider, grant, accepted, expired>>
ghosts == <<denied, forgotten>>
vars   == <<world, row, ghosts, requestVars>>

None == 0
NoRow == [status |-> "none"]
Tokens == DOMAIN grant
Row == [access : Tokens \cup {None}, refresh : Tokens \cup {None}, until : Tokens,
        status : {"connected", "error", "revoked"}]

Init ==
  /\ provider \in Kinds
  /\ grant = <<>> /\ accepted = {} /\ expired = {} /\ row = NoRow
  /\ denied = FALSE /\ forgotten = FALSE
  /\ InitRequests

Turn(c, p, m) == Continue(c, p \o Tail(plan[c]), m) /\ UNCHANGED failed

\* The two statements of a save: the row is read, and the columns of the entity r
\* that differ from what was read are updated.
Reread(c) ==
  /\ At(c, "reread")
  /\ Proceed(c, [mem[c] EXCEPT !.db = row])
  /\ UNCHANGED <<world, row, ghosts>>

Merged(db, r) == [k \in DOMAIN r |-> IF r[k] # db[k] THEN r[k] ELSE row[k]]
SaveAs(c, r) == row' = Merged(mem[c].db, r) /\ UNCHANGED world

-----------------------------------------------------------------------------
(* The provider *)

Number == Len(grant) + 1
Issue(old, state) ==
  /\ Len(grant) < MaxIssues
  /\ grant' = Append(IF old = None THEN grant ELSE [grant EXCEPT ![old] = "spent"], state)
  /\ accepted' = accepted \cup {Number}
  /\ UNCHANGED <<provider, expired>>

Renew(r) == IF provider.rotates THEN Issue(r, "live") ELSE Issue(None, "none")

\* The access token of the row dies, when its time has come or before.  One that
\* has worked in a sync lasts to its end: a death after that call is one after
\* the sync.
Age ==
  /\ row # NoRow /\ row.access \in accepted
  /\ \A c \in Requests : req[c].op = "sync" => mem[c].worked # row.access
  /\ accepted' = accepted \ {row.access}
  /\ expired' \in {expired, expired \cup {row.access}}
  /\ UNCHANGED <<provider, grant, row, ghosts, requestVars>>

\* The user withdraws the consent at the provider.
Withdraw ==
  /\ Instant("withdraw")
  /\ accepted' = {}
  /\ grant' = [t \in Tokens |-> IF grant[t] = "live" THEN "withdrawn" ELSE grant[t]]
  /\ UNCHANGED <<provider, expired, row, ghosts>>

-----------------------------------------------------------------------------
(* Connecting and disconnecting *)

\* handleCallback: the code is exchanged, the row looked up, and saved.
StartConnect(c) ==
  /\ Arrive(c, [op |-> "connect"], <<>>, <<"exchange", "find">>)
  /\ forgotten' = FALSE
  /\ UNCHANGED <<world, row, denied>>

\* The provider may give no refresh token.
Exchange(c) ==
  /\ At(c, "exchange")
  /\ \E state \in {"live", "none"} :
       /\ Issue(None, state)
       /\ Proceed(c, [got |-> Number, refresh |-> IF state = "live" THEN Number ELSE None])
  /\ UNCHANGED <<row, ghosts>>

\* The connection as it is to be saved.  One without a refresh token keeps the
\* stored one, except for the provider that answers an empty token.
Own(m) == [access |-> m.got, until |-> m.got, status |-> "connected",
           refresh |-> IF m.refresh # None \/ provider.stub \/ row = NoRow THEN m.refresh
                       ELSE row.refresh]

Find(c) ==
  /\ At(c, "find")
  /\ Continue(c, IF row = NoRow THEN <<"insert">> ELSE <<"reread", "saveOwn">>,
              [conn |-> Own(mem[c]), db |-> NoRow])
  /\ UNCHANGED <<world, row, ghosts, failed>>

\* A second row for the provider is refused by the unique index.
Insert(c) ==
  /\ At(c, "insert")
  /\ row' = IF row = NoRow THEN mem[c].conn ELSE row
  /\ Done(c)
  /\ UNCHANGED <<world, ghosts>>

SaveOwn(c) ==
  /\ At(c, "saveOwn")
  /\ SaveAs(c, mem[c].conn)
  /\ Done(c)
  /\ UNCHANGED ghosts

\* disconnect: the tokens go, their expiry stays.  A bug would keep the refresh
\* token.
StillRefreshing(r) == [r EXCEPT !.access = None, !.status = "revoked"]
Cleared(r) == [r EXCEPT !.access = None, !.refresh = None, !.status = "revoked"]

\* since tells whether it is served alone.
StartDisconnect(c) ==
  /\ row # NoRow
  /\ Arrive(c, [op |-> "disconnect"],
            [conn |-> Cleared(row), db |-> NoRow, since |-> IF Quiet THEN served' ELSE 0],
            <<"reread", "saveRevoked">>)
  /\ UNCHANGED <<world, row, ghosts>>

SaveRevoked(c) ==
  /\ At(c, "saveRevoked")
  /\ SaveAs(c, mem[c].conn)
  /\ Done(c)
  /\ forgotten' = (forgotten \/ served = mem[c].since)
  /\ UNCHANGED denied

-----------------------------------------------------------------------------
(* Syncs *)

\* ensureFreshToken, and what follows it: a connection without a refresh token
\* is a dead grant.
Fresh(conn, forced, next) ==
  IF conn.until \notin expired /\ ~forced THEN next
  ELSE IF conn.refresh = None THEN <<"reread", "saveError">>
  ELSE <<"refresh", "reread", "saveTokens">> \o next

\* A sync of the provider takes the connection whatever its status; one of all
\* of them, as the cron's, only what is connected.
StartSync(c) ==
  /\ row # NoRow
  /\ \E all \in BOOLEAN :
       /\ all => row.status = "connected"
       /\ Arrive(c, [op |-> "sync"],
                 [conn |-> row, db |-> NoRow, worked |-> None, denied |-> FALSE],
                 Fresh(row, FALSE, <<"fetch">>))
  /\ UNCHANGED <<world, row, ghosts>>

\* What a refusal of the provider does to the connection: it drops it where
\* errors are classified, and nowhere else.  The answer of the stub's provider
\* makes a date that no save takes: the request ends.  A bug would not tell.
Kept == <<"reread", "saveKept">>
Refused ==
  IF provider.classifies THEN <<"reread", "saveError">>
  ELSE IF provider.stub THEN <<>> ELSE Kept

\* The provider may keep its refresh token.  A bug would take what it did not
\* send, or forget what it did.
Sent(old, new) == new
Stored(old, new) == old
NextRefresh(old, new) == IF provider.rotates THEN new ELSE old

Refresh(c) ==
  /\ At(c, "refresh")
  /\ LET conn == mem[c].conn IN
       IF grant[conn.refresh] # "live"
         THEN Continue(c, Refused, mem[c]) /\ UNCHANGED <<world, failed>>
         ELSE /\ Renew(conn.refresh)
              /\ Proceed(c, [mem[c] EXCEPT
                   !.conn = [conn EXCEPT !.access = Number, !.until = Number,
                                         !.refresh = NextRefresh(@, Number)]])
  /\ UNCHANGED <<row, ghosts>>

SaveTokens(c) ==
  /\ At(c, "saveTokens")
  /\ SaveAs(c, mem[c].conn)
  /\ Done(c)
  /\ UNCHANGED ghosts

\* The call of the provider, which a stub does not make.
Works(c) == provider.stub \/ mem[c].conn.access \in accepted
Synced(c) == Turn(c, <<"reread", "saveSynced">>, [mem[c] EXCEPT !.worked = mem[c].conn.access])

\* The first refusal forces a refresh and a second attempt.
Fetch(c) ==
  /\ At(c, "fetch")
  /\ IF Works(c) THEN Synced(c) ELSE Turn(c, Fresh(mem[c].conn, TRUE, <<"fetchAgain">>), mem[c])
  /\ UNCHANGED <<world, row, ghosts>>

\* A refusal of the token just given is one of a grant that may be live.
FetchAgain(c) ==
  /\ At(c, "fetchAgain")
  /\ IF Works(c) THEN Synced(c) ELSE Turn(c, Refused, [mem[c] EXCEPT !.denied = TRUE])
  /\ UNCHANGED <<world, row, ghosts>>

\* The provider refuses a good token: the client's credentials or the scope at the
\* token endpoint, or a 403 of the call.
Denied(c) ==
  /\ \/ At(c, "refresh") /\ grant[mem[c].conn.refresh] = "live"
     \/ (At(c, "fetch") \/ At(c, "fetchAgain")) /\ ~provider.stub /\ Works(c)
  /\ Continue(c, Refused, [mem[c] EXCEPT !.denied = TRUE])
  /\ UNCHANGED <<world, row, ghosts, failed>>

\* The last save of a sync: the connection as it was loaded and refreshed.
SaveSynced(c) ==
  /\ At(c, "saveSynced") \/ At(c, "saveKept")
  /\ SaveAs(c, [mem[c].conn EXCEPT !.status = "connected"])
  /\ Done(c)
  /\ UNCHANGED ghosts

SaveError(c) ==
  /\ At(c, "saveError")
  /\ SaveAs(c, [mem[c].conn EXCEPT !.status = "error"])
  /\ Done(c)
  /\ denied' = mem[c].denied
  /\ UNCHANGED forgotten

-----------------------------------------------------------------------------
(* Faults *)

\* A call of the provider or a save of a sync fails, but not for good.  The stub
\* does not fail.
Transient(c) ==
  /\ Faulty /\ ~failed
  /\ \/ \E s \in {"refresh", "saveTokens", "saveSynced"} : At(c, s)
     \/ (At(c, "fetch") \/ At(c, "fetchAgain")) /\ ~provider.stub
  /\ failed' = TRUE
  /\ Continue(c, Kept, mem[c])
  /\ UNCHANGED <<world, row, ghosts>>

\* The provider has refreshed the tokens, and its answer is lost.
AnswerLost(c) ==
  /\ Faulty /\ ~failed /\ At(c, "refresh") /\ grant[mem[c].conn.refresh] = "live"
  /\ failed' = TRUE
  /\ Renew(mem[c].conn.refresh)
  /\ Continue(c, Kept, mem[c])
  /\ UNCHANGED <<row, ghosts>>

Fail(c) == Break(c) /\ UNCHANGED <<world, row, ghosts>>

-----------------------------------------------------------------------------
Request(c) == StartConnect(c) \/ StartDisconnect(c) \/ StartSync(c)
Statement(c) ==
  \/ Reread(c) \/ Exchange(c) \/ Find(c) \/ Insert(c) \/ SaveOwn(c) \/ SaveRevoked(c)
  \/ Refresh(c) \/ SaveTokens(c) \/ Fetch(c) \/ FetchAgain(c) \/ Denied(c)
  \/ SaveSynced(c) \/ SaveError(c)
Fault(c) == Transient(c) \/ AnswerLost(c) \/ Fail(c)

Next ==
  \/ Age \/ Withdraw
  \/ \E c \in Requests : Request(c) \/ Statement(c) \/ Fault(c)

Spec == Init /\ [][Next]_vars

-----------------------------------------------------------------------------
(* Correctness *)

\* The refresh token of the row is one the provider gave as such.
TypeOK ==
  /\ provider \in Kinds
  /\ grant \in Seq({"live", "spent", "withdrawn", "none"})
  /\ accepted \subseteq Tokens /\ expired \subseteq Tokens
  /\ row \in Row \cup {NoRow}
  /\ row # NoRow /\ row.refresh # None => grant[row.refresh] # "none"
  /\ denied \in BOOLEAN /\ forgotten \in BOOLEAN
  /\ RequestsOK

\* A connection that was given up, by a disconnection served alone, holds no
\* tokens until a callback brings new ones: no sync or disconnection that comes
\* later, whichever of their statements interleave, fail or are refused, finds one
\* to save, and none of the status they leave behind has tokens again.
StaysForgotten ==
  forgotten => row.access = None /\ row.refresh = None

\* "Only a dead grant justifies dropping the connection": while requests do not
\* overlap, and whatever fails, the user is asked to reconnect only when the
\* refresh token is of no use any more, or the provider has refused a good token
\* for another reason than a passing one; and while nothing fails either, one that
\* is up never holds a refresh token the provider has replaced, so that the next
\* sync can refresh it unless the user has withdrawn the consent.
StatusTrue ==
  /\ ~overlapped /\ row.status = "error" =>
       row.refresh = None \/ grant[row.refresh] # "live" \/ denied
  /\ Clean /\ Quiet /\ row.status = "connected" /\ row.refresh # None =>
       grant[row.refresh] # "spent"

\* A sync leaves the connection up only when it holds a token that works, when
\* errors are classified: otherwise the user is asked to reconnect.
SyncTells ==
  [][Clean' /\ provider.classifies =>
       \A c \in Requests : req[c].op = "sync" /\ Idle(c)' /\ row'.status = "connected" =>
         \/ row'.access \in accepted'
         \/ row'.refresh # None /\ grant'[row'.refresh] = "live"]_vars
=============================================================================
