----------------------- MODULE MeetingConnectionProofs -----------------------
(***************************************************************************)
(* What holds of MeetingConnection for any number of requests served at    *)
(* the same time: a connection that was given up, by a disconnection       *)
(* served alone, holds no tokens until a callback; the types; and, while   *)
(* requests follow one another, that the status of the connection is true  *)
(* and that a sync leaves it so.                                           *)
(***************************************************************************)
EXTENDS MeetingConnection, SequenceTheorems, TLAPS

-----------------------------------------------------------------------------
(* What the requests know, whatever interleaves *)

\* For the refresh tokens g: a token that is one, and a connection whose tokens
\* the provider has given.
GrantStates == {"live", "spent", "withdrawn", "none"}
Given(g, t) == t \in DOMAIN g /\ g[t] # "none"
Rows(g) == [access : DOMAIN g \cup {None}, refresh : DOMAIN g \cup {None}, until : DOMAIN g,
            status : {"connected", "error", "revoked"}]
Holds(g, k) == k \in Rows(g) /\ (k.refresh # None => Given(g, k.refresh))

\* The plans of a callback once it has looked for the row, of a disconnection, and
\* of a sync: before a refresh, with new tokens to save, before a fetch, and with
\* the last save to do
StorePlans == {<<"reread", "saveOwn">>, <<"saveOwn">>}
OwnPlans == StorePlans \cup {<<"insert">>}
RevokePlans == {<<"reread", "saveRevoked">>, <<"saveRevoked">>}
RefreshPlans == {<<"refresh", "reread", "saveTokens", "fetch">>,
                 <<"refresh", "reread", "saveTokens", "fetchAgain">>}
StalePlans == {<<"reread", "saveTokens", "fetch">>, <<"reread", "saveTokens", "fetchAgain">>}
FreshPlans == {<<"saveTokens", "fetch">>, <<"saveTokens", "fetchAgain">>}
TokenPlans == StalePlans \cup FreshPlans
FetchPlans == {<<"fetch">>, <<"fetchAgain">>}
SyncedPlans == {<<"reread", "saveSynced">>, <<"saveSynced">>}
KeptPlans == {<<"reread", "saveKept">>, <<"saveKept">>}
ErrorPlans == {<<"reread", "saveError">>, <<"saveError">>}
EndPlans == SyncedPlans \cup KeptPlans \cup ErrorPlans
SyncPlans == RefreshPlans \cup TokenPlans \cup FetchPlans \cup EndPlans

\* The plans whose next statement updates the row that was read
ReadPlans == {<<"saveOwn">>, <<"saveRevoked">>, <<"saveSynced">>, <<"saveKept">>, <<"saveError">>}
             \cup FreshPlans

\* What a request with the plan p, asked with o, has in m
Knows(g, r, p, o, m) ==
  \/ p = <<>> /\ o = "none"
  \/ p = <<"exchange", "find">> /\ o = "connect"
  \/ /\ p = <<"find">> /\ o = "connect"
     /\ m.got \in DOMAIN g /\ (m.refresh # None => Given(g, m.refresh))
  \/ /\ p \in OwnPlans /\ o = "connect" /\ DOMAIN m = {"conn", "db"}
     /\ Holds(g, m.conn) /\ m.conn.status = "connected"
     /\ p \in StorePlans => r # NoRow
  \/ /\ p \in RevokePlans /\ o = "disconnect" /\ DOMAIN m = {"conn", "db", "since"}
     /\ Holds(g, m.conn) /\ m.conn.status = "revoked" /\ r # NoRow
  \/ /\ p \in SyncPlans /\ o = "sync" /\ DOMAIN m = {"conn", "db", "worked", "denied"}
     /\ Holds(g, m.conn) /\ m.denied \in BOOLEAN /\ r # NoRow
     /\ p \in RefreshPlans => m.conn.refresh # None

KnownInv ==
  /\ provider \in Kinds
  /\ grant \in Seq(GrantStates)
  /\ accepted \subseteq Tokens /\ expired \subseteq Tokens
  /\ row = NoRow \/ Holds(grant, row)
  /\ denied \in BOOLEAN /\ forgotten \in BOOLEAN
  /\ RequestsOK
  /\ \A c \in Requests : Knows(grant, row, plan[c], req[c].op, mem[c])

-----------------------------------------------------------------------------
(* What holds of a connection that was given up *)

Empty(k) == k.access = None /\ k.refresh = None

\* Nobody has a token left.  A disconnection that is served alone updates the row
\* it has read.
ForgetInv ==
  /\ forgotten =>
       /\ row # NoRow /\ Empty(row)
       /\ \A c \in Requests : ~Idle(c) => req[c].op # "connect" /\ Empty(mem[c].conn)
  /\ \A c \in Requests : req[c].op = "disconnect" =>
       /\ Empty(mem[c].conn) /\ mem[c].since \in 0..served
       /\ mem[c].since = served =>
            /\ \A d \in Requests : d # c => Idle(d)
            /\ plan[c] = <<"saveRevoked">> => mem[c].db = row

-----------------------------------------------------------------------------
(* What holds while requests do not overlap *)

\* Nothing can be refreshed with the connection; its refresh token was not
\* replaced.
Dead(g, k) == k.refresh = None \/ g[k.refresh] # "live"
Unspent(g, k) == k.refresh # None => g[k.refresh] # "spent"

Alone == \A c, d \in Requests : ~Idle(c) /\ ~Idle(d) => c = d

\* An error that is stored, or that a sync is about to store, is a true one.
ErrorTrue(g, x, k) == k.status = "error" => Dead(g, k) \/ x
AloneKnows(g, r, x, p, m) ==
  /\ p \in ReadPlans => m.db = r
  /\ p \in SyncPlans => ErrorTrue(g, x, m.conn)
  /\ p \in ErrorPlans => Dead(g, m.conn) \/ m.denied

\* What a sync is about to save as connected works, or the provider does not say
\* that it does not.
CleanKnows(v, g, a, p, m) ==
  /\ p = <<"find">> /\ m.refresh # None => g[m.refresh] # "spent"
  /\ p \in OwnPlans \cup RevokePlans \cup SyncPlans => Unspent(g, m.conn)
  /\ p \in SyncedPlans /\ v.classifies => m.conn.access \in a /\ m.worked = m.conn.access
  /\ p \in KeptPlans => ~v.classifies

\* Between the refresh and the save of the new tokens the row holds the old ones.
SerialInv ==
  /\ ~overlapped =>
       /\ Alone
       /\ row # NoRow => ErrorTrue(grant, denied, row)
       /\ \A c \in Requests : AloneKnows(grant, row, denied, plan[c], mem[c])
  /\ Clean =>
       /\ row # NoRow /\ (\A c \in Requests : plan[c] \notin TokenPlans) => Unspent(grant, row)
       /\ \A c \in Requests : CleanKnows(provider, grant, accepted, plan[c], mem[c])

IInv == KnownInv /\ ForgetInv /\ SerialInv
-----------------------------------------------------------------------------
(* Plans *)

EndOf(p) == p[Len(p)]

\* The last statement of a plan, how many there are, and the first say of which
\* kind it is.
LEMMA PlanEnds ==
  /\ Len(<<>>) = 0
  /\ EndOf(<<"exchange", "find">>) = "find" /\ Len(<<"exchange", "find">>) = 2
  /\ EndOf(<<"find">>) = "find" /\ Len(<<"find">>) = 1
  /\ EndOf(<<"insert">>) = "insert" /\ Len(<<"insert">>) = 1
  /\ \A p \in StorePlans : EndOf(p) = "saveOwn" /\ Len(p) \in {1, 2}
  /\ \A p \in RevokePlans : EndOf(p) = "saveRevoked" /\ Len(p) \in {1, 2}
  /\ \A p \in RefreshPlans : EndOf(p) \in {"fetch", "fetchAgain"} /\ Len(p) = 4
  /\ \A p \in StalePlans : EndOf(p) \in {"fetch", "fetchAgain"} /\ Len(p) = 3
  /\ \A p \in FreshPlans : EndOf(p) \in {"fetch", "fetchAgain"} /\ Len(p) = 2
  /\ \A p \in FetchPlans : EndOf(p) \in {"fetch", "fetchAgain"} /\ Len(p) = 1
  /\ \A p \in SyncedPlans : EndOf(p) = "saveSynced" /\ Len(p) \in {1, 2}
  /\ \A p \in KeptPlans : EndOf(p) = "saveKept" /\ Len(p) \in {1, 2}
  /\ \A p \in ErrorPlans : EndOf(p) = "saveError" /\ Len(p) \in {1, 2}
<1>1. \A s : Len(<<s>>) = 1 /\ EndOf(<<s>>) = s
  BY DEF EndOf
<1>2. \A s, t : Len(<<s, t>>) = 2 /\ EndOf(<<s, t>>) = t
  BY DEF EndOf
<1>3. \A s, t, u : Len(<<s, t, u>>) = 3 /\ EndOf(<<s, t, u>>) = u
  BY DEF EndOf
<1>4. \A s, t, u, v : Len(<<s, t, u, v>>) = 4 /\ EndOf(<<s, t, u, v>>) = v
  BY DEF EndOf
<1> HIDE DEF EndOf
<1>5. Len(<<>>) = 0
  OBVIOUS
<1>6. /\ \A p \in StorePlans : EndOf(p) = "saveOwn" /\ Len(p) \in {1, 2}
      /\ \A p \in RevokePlans : EndOf(p) = "saveRevoked" /\ Len(p) \in {1, 2}
  BY <1>1, <1>2 DEF StorePlans, RevokePlans
<1>7. /\ \A p \in RefreshPlans : EndOf(p) \in {"fetch", "fetchAgain"} /\ Len(p) = 4
      /\ \A p \in StalePlans : EndOf(p) \in {"fetch", "fetchAgain"} /\ Len(p) = 3
  BY <1>3, <1>4 DEF RefreshPlans, StalePlans
<1>8. /\ \A p \in FreshPlans : EndOf(p) \in {"fetch", "fetchAgain"} /\ Len(p) = 2
      /\ \A p \in FetchPlans : EndOf(p) \in {"fetch", "fetchAgain"} /\ Len(p) = 1
  BY <1>1, <1>2 DEF FreshPlans, FetchPlans
<1>9. /\ \A p \in SyncedPlans : EndOf(p) = "saveSynced" /\ Len(p) \in {1, 2}
      /\ \A p \in KeptPlans : EndOf(p) = "saveKept" /\ Len(p) \in {1, 2}
      /\ \A p \in ErrorPlans : EndOf(p) = "saveError" /\ Len(p) \in {1, 2}
  BY <1>1, <1>2 DEF SyncedPlans, KeptPlans, ErrorPlans
<1>10. EndOf(<<"exchange", "find">>) = "find" /\ Len(<<"exchange", "find">>) = 2
  BY <1>2
<1>11. /\ EndOf(<<"find">>) = "find" /\ Len(<<"find">>) = 1
       /\ EndOf(<<"insert">>) = "insert" /\ Len(<<"insert">>) = 1
  BY <1>1
<1> QED
  BY <1>5, <1>6, <1>7, <1>8, <1>9, <1>10, <1>11, Zenon

\* A plan is of one kind only.
LEMMA Kinds1 ==
  /\ \A p \in StorePlans \cup {<<"insert">>} :
       p \notin RevokePlans \cup SyncPlans \cup {<<>>, <<"exchange", "find">>, <<"find">>}
  /\ \A p \in RevokePlans :
       p \notin OwnPlans \cup SyncPlans \cup {<<>>, <<"exchange", "find">>, <<"find">>}
  /\ \A p \in SyncPlans :
       p \notin OwnPlans \cup RevokePlans \cup {<<>>, <<"exchange", "find">>, <<"find">>}
  /\ <<"exchange", "find">> # <<>> /\ <<"find">> # <<>> /\ <<"exchange", "find">> # <<"find">>
  /\ \A p \in {<<>>, <<"exchange", "find">>, <<"find">>} : p \notin OwnPlans \cup RevokePlans \cup SyncPlans
  /\ <<"insert">> \notin StorePlans
<1>1. 0 # 1 /\ 0 # 2 /\ 0 # 3 /\ 0 # 4 /\ 1 # 2 /\ 0 \notin {1, 2}
  OBVIOUS
<1>2. \A p \in SyncPlans : EndOf(p) \in {"fetch", "fetchAgain", "saveSynced", "saveKept", "saveError"}
                           /\ Len(p) # 0
  BY <1>1, PlanEnds DEF SyncPlans, TokenPlans, EndPlans
<1>3. \A p \in OwnPlans : EndOf(p) \in {"insert", "saveOwn"} /\ Len(p) # 0
  BY <1>1, PlanEnds DEF OwnPlans
<1>4. \A p \in RevokePlans : EndOf(p) = "saveRevoked" /\ Len(p) # 0
  BY <1>1, PlanEnds
<1> QED
  BY <1>1, <1>2, <1>3, <1>4, PlanEnds DEF OwnPlans

\* The plans of a sync are of one kind only.
LEMMA Kinds2 ==
  /\ \A p \in RefreshPlans : p \in SyncPlans /\ p \notin TokenPlans \cup FetchPlans \cup EndPlans
  /\ \A p \in StalePlans : p \in SyncPlans \cap TokenPlans
                           /\ p \notin RefreshPlans \cup FreshPlans \cup FetchPlans \cup EndPlans
  /\ \A p \in FreshPlans : p \in SyncPlans \cap TokenPlans
                           /\ p \notin RefreshPlans \cup StalePlans \cup FetchPlans \cup EndPlans
  /\ \A p \in FetchPlans : p \in SyncPlans /\ p \notin RefreshPlans \cup TokenPlans \cup EndPlans
  /\ \A p \in EndPlans : p \in SyncPlans /\ p \notin RefreshPlans \cup TokenPlans \cup FetchPlans
  /\ \A p \in SyncedPlans : p \in EndPlans /\ p \notin KeptPlans \cup ErrorPlans
  /\ \A p \in KeptPlans : p \in EndPlans /\ p \notin SyncedPlans \cup ErrorPlans
  /\ \A p \in ErrorPlans : p \in EndPlans /\ p \notin SyncedPlans \cup KeptPlans
<1>1. \A p \in EndPlans : EndOf(p) \in {"saveSynced", "saveKept", "saveError"}
  BY PlanEnds DEF EndPlans
<1>2. \A p \in RefreshPlans \cup TokenPlans \cup FetchPlans : EndOf(p) \in {"fetch", "fetchAgain"}
  BY PlanEnds DEF TokenPlans
<1>3. 1 # 2 /\ 1 # 3 /\ 1 # 4 /\ 2 # 3 /\ 2 # 4 /\ 3 # 4
  OBVIOUS
<1>4. /\ \A p \in RefreshPlans : p \notin TokenPlans \cup FetchPlans
      /\ \A p \in StalePlans : p \notin RefreshPlans \cup FreshPlans \cup FetchPlans
      /\ \A p \in FreshPlans : p \notin RefreshPlans \cup StalePlans \cup FetchPlans
      /\ \A p \in FetchPlans : p \notin RefreshPlans \cup TokenPlans
  BY <1>3, PlanEnds DEF TokenPlans
<1>5. \A p \in EndPlans : p \notin RefreshPlans \cup TokenPlans \cup FetchPlans
  BY <1>1, <1>2
<1>6. /\ \A p \in SyncedPlans : p \in EndPlans /\ p \notin KeptPlans \cup ErrorPlans
      /\ \A p \in KeptPlans : p \in EndPlans /\ p \notin SyncedPlans \cup ErrorPlans
      /\ \A p \in ErrorPlans : p \in EndPlans /\ p \notin SyncedPlans \cup KeptPlans
  BY PlanEnds DEF EndPlans
<1> QED
  BY <1>4, <1>5, <1>6 DEF SyncPlans, TokenPlans

\* The first statement of a plan, and those that are left after it
LEMMA Heads ==
  /\ Head(<<"exchange", "find">>) = "exchange" /\ Tail(<<"exchange", "find">>) = <<"find">>
  /\ \A s : Head(<<s>>) = s /\ Tail(<<s>>) = <<>> /\ <<s>> # <<>>
  /\ \A s : Head(<<"reread", s>>) = "reread" /\ Tail(<<"reread", s>>) = <<s>> /\ <<"reread", s>> # <<>>
  /\ \A p \in RefreshPlans : Head(p) = "refresh" /\ Tail(p) \in StalePlans
  /\ \A p \in StalePlans : Head(p) = "reread" /\ Tail(p) \in FreshPlans
  /\ \A p \in FreshPlans : Head(p) = "saveTokens" /\ Tail(p) \in FetchPlans
<1>1. \A s : Head(<<s>>) = s /\ Tail(<<s>>) = <<>> /\ <<s>> # <<>>
  OBVIOUS
<1>2. \A s, t : Head(<<s, t>>) = s /\ Tail(<<s, t>>) = <<t>> /\ <<s, t>> # <<>>
  OBVIOUS
<1>3. \A s, t, u : Head(<<s, t, u>>) = s /\ Tail(<<s, t, u>>) = <<t, u>>
  OBVIOUS
<1>4. \A s, t, u, v : Head(<<s, t, u, v>>) = s /\ Tail(<<s, t, u, v>>) = <<t, u, v>>
  OBVIOUS
<1>5. \A p \in RefreshPlans : Head(p) = "refresh" /\ Tail(p) \in StalePlans
  <2>1. /\ Head(<<"refresh", "reread", "saveTokens", "fetch">>) = "refresh"
        /\ Tail(<<"refresh", "reread", "saveTokens", "fetch">>) = <<"reread", "saveTokens", "fetch">>
    BY SMTT(60), <1>4
  <2>2. /\ Head(<<"refresh", "reread", "saveTokens", "fetchAgain">>) = "refresh"
        /\ Tail(<<"refresh", "reread", "saveTokens", "fetchAgain">>) = <<"reread", "saveTokens", "fetchAgain">>
    BY SMTT(60), <1>4
  <2> QED
    BY <2>1, <2>2, Zenon DEF RefreshPlans, StalePlans
<1>6. \A p \in StalePlans : Head(p) = "reread" /\ Tail(p) \in FreshPlans
  BY ZenonT(60), <1>3 DEF StalePlans, FreshPlans
<1>7. \A p \in FreshPlans : Head(p) = "saveTokens" /\ Tail(p) \in FetchPlans
  BY <1>2 DEF FreshPlans, FetchPlans
<1> QED
  BY <1>1, <1>2, <1>5, <1>6, <1>7, Zenon

\* Which plans update a row that was read
LEMMA Readers ==
  /\ \A s : <<"reread", s>> \notin ReadPlans
  /\ \A s \in {"saveOwn", "saveRevoked", "saveSynced", "saveKept", "saveError"} : <<s>> \in ReadPlans
  /\ \A p \in RefreshPlans \cup StalePlans \cup FetchPlans : p \notin ReadPlans
  /\ \A p \in FreshPlans : p \in ReadPlans
  /\ \A p \in {<<>>, <<"exchange", "find">>, <<"find">>, <<"insert">>} : p \notin ReadPlans
<1> DEFINE saves == {"saveOwn", "saveRevoked", "saveSynced", "saveKept", "saveError", "saveTokens"}
<1>1. \A p \in ReadPlans : Head(p) \in saves /\ Len(p) # 0
  <2>1. \A p \in FreshPlans : Head(p) \in saves /\ Len(p) # 0
    BY Heads, PlanEnds
  <2>2. \A s : Head(<<s>>) = s /\ Len(<<s>>) = 1
    OBVIOUS
  <2> QED
    BY <2>1, <2>2 DEF ReadPlans
<1>2. \A p \in FetchPlans : Head(p) \in {"fetch", "fetchAgain"}
  BY Heads DEF FetchPlans
<1> QED
  BY <1>1, <1>2, Heads, PlanEnds DEF ReadPlans

\* What is left of a plan after the statement s
LEMMA AtKnows ==
  ASSUME KnownInv, NEW c \in Requests, NEW s, At(c, s)
  PROVE  /\ plan[c] # <<>>
         /\ s = "exchange" => plan[c] = <<"exchange", "find">> /\ Tail(plan[c]) = <<"find">>
         /\ s \in {"find", "insert", "saveOwn", "saveRevoked", "fetch", "fetchAgain",
                   "saveSynced", "saveKept", "saveError"} =>
              plan[c] = <<s>> /\ Tail(plan[c]) = <<>>
         /\ s = "refresh" => plan[c] \in RefreshPlans /\ Tail(plan[c]) \in StalePlans
         /\ s = "saveTokens" => plan[c] \in FreshPlans /\ Tail(plan[c]) \in FetchPlans
         /\ s = "reread" =>
              \/ plan[c] \in StorePlans /\ Tail(plan[c]) = <<"saveOwn">>
              \/ plan[c] \in RevokePlans /\ Tail(plan[c]) = <<"saveRevoked">>
              \/ plan[c] \in StalePlans /\ Tail(plan[c]) \in FreshPlans
              \/ plan[c] \in SyncedPlans /\ Tail(plan[c]) = <<"saveSynced">>
              \/ plan[c] \in KeptPlans /\ Tail(plan[c]) = <<"saveKept">>
              \/ plan[c] \in ErrorPlans /\ Tail(plan[c]) = <<"saveError">>
<1> DEFINE p == plan[c]
<1>1. p # <<>> /\ Head(p) = s /\ Knows(grant, row, p, req[c].op, mem[c])
  BY DEF At, KnownInv
<1>2. \/ p = <<"exchange", "find">>
      \/ \E t : p = <<t>> /\ t \in {"find", "insert", "saveOwn", "saveRevoked", "fetch", "fetchAgain",
                                   "saveSynced", "saveKept", "saveError"}
      \/ p = <<"reread", "saveOwn">> \/ p = <<"reread", "saveRevoked">>
      \/ p = <<"reread", "saveSynced">> \/ p = <<"reread", "saveKept">> \/ p = <<"reread", "saveError">>
      \/ p \in RefreshPlans \/ p \in StalePlans \/ p \in FreshPlans
  BY <1>1 DEF Knows, OwnPlans, StorePlans, RevokePlans, SyncPlans, TokenPlans, FetchPlans, EndPlans,
              SyncedPlans, KeptPlans, ErrorPlans
<1> HIDE DEF p
<1>3. CASE p = <<"exchange", "find">>
  BY <1>1, <1>3, Heads DEF p
<1>4. ASSUME NEW t, p = <<t>>, t \in {"find", "insert", "saveOwn", "saveRevoked", "fetch", "fetchAgain",
                                   "saveSynced", "saveKept", "saveError"}
      PROVE  p = <<s>> /\ Tail(p) = <<>> /\ s = t
  BY <1>1, <1>4, Heads
<1>5. CASE p = <<"reread", "saveOwn">>
  BY <1>1, <1>5, Heads DEF p, StorePlans
<1>6. CASE p = <<"reread", "saveRevoked">>
  BY <1>1, <1>6, Heads DEF p, RevokePlans
<1>7. CASE p = <<"reread", "saveSynced">>
  BY <1>1, <1>7, Heads DEF p, SyncedPlans
<1>8. CASE p = <<"reread", "saveKept">>
  BY <1>1, <1>8, Heads DEF p, KeptPlans
<1>9. CASE p = <<"reread", "saveError">>
  BY <1>1, <1>9, Heads DEF p, ErrorPlans
<1>10. CASE p \in RefreshPlans
  BY <1>1, <1>10, Heads DEF p
<1>11. CASE p \in StalePlans
  BY <1>1, <1>11, Heads DEF p
<1>12. CASE p \in FreshPlans
  BY <1>1, <1>12, Heads DEF p
<1>13. CASE \E t : p = <<t>> /\ t \in {"find", "insert", "saveOwn", "saveRevoked", "fetch", "fetchAgain",
                                   "saveSynced", "saveKept", "saveError"}
  BY <1>1, <1>4, <1>13 DEF p
<1> QED
  BY <1>2, <1>3, <1>5, <1>6, <1>7, <1>8, <1>9, <1>10, <1>11, <1>12, <1>13

\* What a request has in memory, by its plan
LEMMA HasKnown ==
  ASSUME KnownInv, NEW c \in Requests
  PROVE  /\ req[c].op = "disconnect" <=> plan[c] \in RevokePlans
         /\ req[c].op = "sync" <=> plan[c] \in SyncPlans
         /\ plan[c] \in OwnPlans \cup {<<"exchange", "find">>, <<"find">>} => req[c].op = "connect"
         /\ plan[c] = <<"find">> =>
              mem[c].got \in DOMAIN grant /\ (mem[c].refresh # None => Given(grant, mem[c].refresh))
         /\ plan[c] \in OwnPlans =>
              /\ DOMAIN mem[c] = {"conn", "db"} /\ Holds(grant, mem[c].conn)
              /\ mem[c].conn.status = "connected" /\ (plan[c] \in StorePlans => row # NoRow)
         /\ plan[c] \in RevokePlans =>
              /\ DOMAIN mem[c] = {"conn", "db", "since"} /\ Holds(grant, mem[c].conn)
              /\ mem[c].conn.status = "revoked" /\ row # NoRow
         /\ plan[c] \in SyncPlans =>
              /\ DOMAIN mem[c] = {"conn", "db", "worked", "denied"} /\ Holds(grant, mem[c].conn)
              /\ mem[c].denied \in BOOLEAN /\ row # NoRow
              /\ plan[c] \in RefreshPlans => mem[c].conn.refresh # None
<1>1. Knows(grant, row, plan[c], req[c].op, mem[c])
  BY DEF KnownInv
<1>2. /\ \A p \in OwnPlans : p \notin RevokePlans \cup SyncPlans \cup {<<>>, <<"exchange", "find">>, <<"find">>}
      /\ \A p \in RevokePlans : p \notin OwnPlans \cup SyncPlans \cup {<<>>, <<"exchange", "find">>, <<"find">>}
      /\ \A p \in SyncPlans : p \notin OwnPlans \cup RevokePlans \cup {<<>>, <<"exchange", "find">>, <<"find">>}
      /\ <<"exchange", "find">> # <<>> /\ <<"find">> # <<>> /\ <<"exchange", "find">> # <<"find">>
      /\ \A p \in {<<>>, <<"exchange", "find">>, <<"find">>} : p \notin OwnPlans \cup RevokePlans \cup SyncPlans
  BY Kinds1 DEF OwnPlans
<1> QED
  BY <1>1, <1>2 DEF Knows
-----------------------------------------------------------------------------
(* A request that goes on *)

\* The provider never takes back that a token is a refresh token.
Grows(g, h) ==
  /\ g \in Seq(GrantStates) /\ h \in Seq(GrantStates) /\ DOMAIN g \subseteq DOMAIN h
  /\ \A t \in DOMAIN g : g[t] # "none" => h[t] # "none"

LEMMA StillKnown ==
  ASSUME NEW g, NEW h, Grows(g, h), NEW r, NEW q, r # NoRow => q # NoRow
  PROVE  /\ \A t : Given(g, t) => Given(h, t)
         /\ \A k : Holds(g, k) => Holds(h, k)
         /\ \A p, o, m : Knows(g, r, p, o, m) => Knows(h, q, p, o, m)
<1>1. \A t : Given(g, t) => Given(h, t)
  BY DEF Grows, Given
<1>2. \A k : Holds(g, k) => Holds(h, k)
  BY <1>1 DEF Grows, Holds, Rows
<1>3. DOMAIN g \subseteq DOMAIN h
  BY DEF Grows
<1> QED
  BY <1>1, <1>2, <1>3 DEF Knows

LEMMA NotNoRow == ASSUME NEW g, NEW k, Holds(g, k) PROVE k # NoRow
BY DEF Holds, Rows, NoRow

\* What a request that goes on leaves to the others
LEMMA Others ==
  ASSUME KnownInv, NEW c \in Requests, NEW p, NEW m, Continue(c, p, m)
  PROVE  /\ plan'[c] = p /\ (p = <<>> => req'[c].op = "none")
         /\ p # <<>> => req'[c] = req[c] /\ mem'[c] = m
         /\ \A d \in Requests : d # c => plan'[d] = plan[d] /\ req'[d] = req[d] /\ mem'[d] = mem[d]
         /\ DOMAIN plan' = Requests /\ DOMAIN req' = Requests /\ DOMAIN mem' = Requests
         /\ served' = served /\ overlapped' = overlapped
<1>1. DOMAIN plan = Requests /\ DOMAIN req = Requests /\ DOMAIN mem = Requests
  BY DEF KnownInv, RequestsOK
<1> QED
  BY <1>1 DEF Continue, NoRequest

LEMMA GoesOnKnown ==
  ASSUME KnownInv, NEW c \in Requests, NEW p, NEW m, Continue(c, p, m), failed' \in BOOLEAN,
         Grows(grant, grant'), accepted' \subseteq DOMAIN grant', expired' \subseteq DOMAIN grant',
         provider' = provider, row' = row \/ Holds(grant', row'),
         denied' \in BOOLEAN, forgotten' \in BOOLEAN,
         p = <<>> \/ Knows(grant', row', p, req[c].op, m)
  PROVE  KnownInv'
<1>0. row # NoRow => row' # NoRow
  BY NotNoRow
<1>1. row' = NoRow \/ Holds(grant', row')
  BY StillKnown DEF KnownInv
<1>2. \A d \in Requests : Knows(grant', row', plan'[d], req'[d].op, mem'[d])
  <2>2. ASSUME NEW d \in Requests, d # c PROVE Knows(grant', row', plan'[d], req'[d].op, mem'[d])
    <3>1. plan'[d] = plan[d] /\ req'[d] = req[d] /\ mem'[d] = mem[d]
      BY <2>2, Others
    <3>2. Knows(grant, row, plan[d], req[d].op, mem[d])
      BY DEF KnownInv
    <3> QED
      BY <1>0, <3>1, <3>2, StillKnown
  <2>3. Knows(grant', row', plan'[c], req'[c].op, mem'[c])
    <3>1. CASE p = <<>>
      BY <3>1, Others DEF Knows
    <3>2. CASE p # <<>>
      BY <3>2, Others
    <3> QED
      BY <3>1, <3>2
  <2> QED
    BY <2>2, <2>3
<1>3. RequestsOK'
  BY Others DEF KnownInv, RequestsOK
<1> QED
  BY <1>1, <1>2, <1>3 DEF KnownInv, Grows, Tokens

\* The row of a connection that is forgotten stays empty, and its requests too.
LEMMA GoesOnForgotten ==
  ASSUME KnownInv, ForgetInv, NEW c \in Requests, NEW p, NEW m, Continue(c, p, m), ~Idle(c),
         forgotten' => forgotten \/ \A d \in Requests : d # c => Idle(d),
         forgotten' => row' # NoRow /\ Empty(row')
                       /\ (p # <<>> => req[c].op # "connect" /\ Empty(m.conn)),
         req[c].op = "disconnect" /\ p # <<>> =>
           /\ m.since = mem[c].since /\ m.conn = mem[c].conn
           /\ p = <<"saveRevoked">> => m.db = row'
  PROVE  ForgetInv'
<1>1. ASSUME forgotten', NEW d \in Requests, ~Idle(d)'
      PROVE  req'[d].op # "connect" /\ Empty(mem'[d].conn)
  <2>1. CASE d = c
    BY <1>1, <2>1, Others DEF Idle
  <2>2. CASE d # c
    BY <1>1, <2>2, Others DEF Idle, ForgetInv
  <2> QED
    BY <2>1, <2>2
<1>2. ASSUME NEW d \in Requests, req'[d].op = "disconnect"
      PROVE  /\ Empty(mem'[d].conn) /\ mem'[d].since \in 0..served'
             /\ mem'[d].since = served' =>
                  /\ \A e \in Requests : e # d => Idle(e)'
                  /\ plan'[d] = <<"saveRevoked">> => mem'[d].db = row'
  <2>1. CASE d = c
    <3>1. p # <<>> /\ req[c].op = "disconnect" /\ mem'[c] = m /\ plan'[c] = p /\ served' = served
      BY <1>2, <2>1, Others
    <3> QED
      BY <2>1, <3>1, Others DEF ForgetInv, Idle
  <2>2. CASE d # c
    <3>1. req[d].op = "disconnect" /\ mem'[d] = mem[d] /\ served' = served
      BY <1>2, <2>2, Others
    <3>2. mem[d].since # served
      BY <2>2, <3>1 DEF ForgetInv
    <3> QED
      BY <3>1, <3>2 DEF ForgetInv
  <2> QED
    BY <2>1, <2>2
<1> QED
  BY <1>1, <1>2 DEF ForgetInv

\* A plan that is finished knows nothing.
LEMMA NothingLeft ==
  ASSUME NEW g, NEW r, NEW x, NEW v, NEW a, NEW m
  PROVE  AloneKnows(g, r, x, <<>>, m) /\ CleanKnows(v, g, a, <<>>, m)
<1>1. /\ <<>> \notin ReadPlans \cup SyncPlans \cup OwnPlans \cup RevokePlans /\ <<>> # <<"find">>
      /\ <<>> \notin ErrorPlans \cup SyncedPlans \cup KeptPlans
  BY Readers, Kinds1 DEF SyncPlans, EndPlans
<1> QED
  BY <1>1 DEF AloneKnows, CleanKnows

LEMMA GoesOnSerial ==
  ASSUME KnownInv, SerialInv, NEW c \in Requests, NEW p, NEW m, Continue(c, p, m), ~Idle(c),
         failed' = failed \/ failed' = TRUE,
         ~overlapped => AloneKnows(grant', row', denied', p, m)
                        /\ (row' # NoRow => ErrorTrue(grant', denied', row')),
         Clean /\ ~failed' => /\ CleanKnows(provider', grant', accepted', p, m)
                              /\ row' # NoRow /\ p \notin TokenPlans => Unspent(grant', row')
  PROVE  SerialInv'
<1>2. ~overlapped => \A d \in Requests : d # c => plan'[d] = <<>>
  BY Others DEF SerialInv, Alone, Idle
<1>3. <<>> \notin TokenPlans
  BY Kinds1 DEF SyncPlans
<1>4. ASSUME ~overlapped'
      PROVE  /\ Alone' /\ (row' # NoRow => ErrorTrue(grant', denied', row'))
             /\ \A d \in Requests : AloneKnows(grant', row', denied', plan'[d], mem'[d])
  <2>1. ~overlapped
    BY <1>4, Others
  <2>2. ASSUME NEW d \in Requests PROVE AloneKnows(grant', row', denied', plan'[d], mem'[d])
    <3>1. CASE plan'[d] = <<>>
      BY <3>1, NothingLeft
    <3>2. CASE plan'[d] # <<>>
      <4>1. d = c /\ plan'[c] = p /\ mem'[c] = m
        BY <1>2, <2>1, <3>2, Others
      <4> QED
        BY <2>1, <4>1
    <3> QED
      BY <3>1, <3>2
  <2>3. Alone'
    BY <1>2, <2>1 DEF Alone, Idle
  <2> QED
    BY <2>1, <2>2, <2>3
<1>5. ASSUME Clean'
      PROVE  /\ row' # NoRow /\ (\A d \in Requests : plan'[d] \notin TokenPlans) => Unspent(grant', row')
             /\ \A d \in Requests : CleanKnows(provider', grant', accepted', plan'[d], mem'[d])
  <2>1. Clean /\ ~failed' /\ ~overlapped
    BY <1>5, Others DEF Clean
  <2>2. ASSUME NEW d \in Requests PROVE CleanKnows(provider', grant', accepted', plan'[d], mem'[d])
    <3>1. CASE plan'[d] = <<>>
      BY <3>1, NothingLeft
    <3>2. CASE plan'[d] # <<>>
      <4>1. d = c /\ plan'[c] = p /\ mem'[c] = m
        BY <1>2, <2>1, <3>2, Others
      <4> QED
        BY <2>1, <4>1
    <3> QED
      BY <3>1, <3>2
  <2>3. plan'[c] = p
    BY Others
  <2> QED
    BY <2>1, <2>2, <2>3
<1> QED
  BY <1>4, <1>5 DEF SerialInv

\* Nothing the provider does in this step
LEMMA SameWorld ==
  ASSUME KnownInv, UNCHANGED world
  PROVE  /\ Grows(grant, grant') /\ accepted' \subseteq DOMAIN grant' /\ expired' \subseteq DOMAIN grant'
         /\ provider' = provider /\ grant' = grant /\ accepted' = accepted
BY DEF KnownInv, Grows, world, Tokens

\* While a request is alone and has no new tokens to save, the row holds none that
\* was replaced.
LEMMA RowNow ==
  ASSUME SerialInv, Clean, NEW c \in Requests, ~Idle(c), plan[c] \notin TokenPlans
  PROVE  row # NoRow => Unspent(grant, row)
<1>1. \A d \in Requests : d # c => plan[d] = <<>>
  BY DEF SerialInv, Alone, Idle, Clean
<1>2. <<>> \notin TokenPlans
  BY Kinds1 DEF SyncPlans
<1> QED
  BY <1>1, <1>2 DEF SerialInv

\* A save writes a connection, and the entity itself when the row is as it was read.
LEMMA MergedRow ==
  ASSUME NEW g, NEW db, NEW k, Holds(g, row), Holds(g, k)
  PROVE  /\ Holds(g, Merged(db, k))
         /\ db = row => Merged(db, k) = k
         /\ Empty(row) /\ Empty(k) => Empty(Merged(db, k))
<1> DEFINE n == Merged(db, k)
<1> DEFINE f(x) == IF k[x] # db[x] THEN k[x] ELSE row[x]
<1>1. /\ k \in Rows(g) /\ row \in Rows(g)
      /\ k.refresh # None => Given(g, k.refresh)
      /\ row.refresh # None => Given(g, row.refresh)
  BY DEF Holds
<1>2. DOMAIN k = {"access", "refresh", "until", "status"}
  BY <1>1 DEF Rows
<1>3. n = [x \in {"access", "refresh", "until", "status"} |-> f(x)]
  BY <1>2 DEF Merged
<1>4. \A x \in {"access", "refresh", "until", "status"} : n[x] = f(x) /\ (f(x) = k[x] \/ f(x) = row[x])
  BY <1>3
<1>5. n = [access |-> f("access"), refresh |-> f("refresh"), until |-> f("until"), status |-> f("status")]
  BY <1>3
<1>6. n \in Rows(g)
  <2>1. f("access") \in DOMAIN g \cup {None} /\ f("refresh") \in DOMAIN g \cup {None}
    BY <1>1 DEF Rows
  <2>2. f("until") \in DOMAIN g /\ f("status") \in {"connected", "error", "revoked"}
    BY <1>1 DEF Rows
  <2> HIDE DEF n, f
  <2> QED
    BY <1>5, <2>1, <2>2 DEF Rows
<1>7. n.refresh # None => Given(g, n.refresh)
  BY <1>1, <1>4
<1>8. db = row => n = k
  <2>1. db = row => \A x \in {"access", "refresh", "until", "status"} : f(x) = k[x]
    OBVIOUS
  <2>2. k = [x \in {"access", "refresh", "until", "status"} |-> k[x]]
    BY <1>1, <1>2 DEF Rows
  <2> HIDE DEF n, f
  <2> QED
    BY <1>3, <2>1, <2>2
<1>9. Empty(row) /\ Empty(k) => Empty(n)
  BY <1>4 DEF Empty
<1> QED
  BY <1>6, <1>7, <1>8, <1>9 DEF Holds
-----------------------------------------------------------------------------
(* The provider *)

\* What the provider does when it issues tokens
LEMMA IssueFacts ==
  ASSUME KnownInv, NEW old, old = None \/ Given(grant, old), NEW state \in GrantStates,
         Issue(old, state)
  PROVE  /\ Grows(grant, grant') /\ Number \in DOMAIN grant' /\ Number \notin DOMAIN grant
         /\ grant'[Number] = state
         /\ \A t \in DOMAIN grant : grant'[t] = IF t = old THEN "spent" ELSE grant[t]
         /\ accepted' = accepted \cup {Number} /\ accepted' \subseteq DOMAIN grant'
         /\ UNCHANGED <<provider, expired>> /\ Number # None
<1> DEFINE g == IF old = None THEN grant ELSE [grant EXCEPT ![old] = "spent"]
<1>1. grant \in Seq(GrantStates) /\ accepted \subseteq DOMAIN grant /\ Len(grant) \in Nat
      /\ DOMAIN grant = 1..Len(grant)
  BY DEF KnownInv, Tokens
<1>2. g \in Seq(GrantStates) /\ Len(g) = Len(grant) /\ DOMAIN g = DOMAIN grant
      /\ \A t \in DOMAIN grant : g[t] = IF t = old THEN "spent" ELSE grant[t]
  <2>1. CASE old = None
    <3>1. \A t \in DOMAIN grant : t # old
      BY <1>1, <2>1 DEF None
    <3> QED
      BY <1>1, <2>1, <3>1
  <2>2. CASE old # None
    BY <1>1, <2>2 DEF Given, GrantStates
  <2> QED
    BY <2>1, <2>2
<1>3. grant' = Append(g, state) /\ accepted' = accepted \cup {Number}
      /\ UNCHANGED <<provider, expired>>
  BY DEF Issue
<1> HIDE DEF g
<1>4. /\ grant' \in Seq(GrantStates) /\ DOMAIN grant' = 1..(Len(grant) + 1)
      /\ grant'[Len(grant) + 1] = state
      /\ \A t \in DOMAIN grant : grant'[t] = g[t]
  BY <1>1, <1>2, <1>3
<1>5. /\ DOMAIN grant \subseteq DOMAIN grant' /\ Number \in DOMAIN grant'
      /\ Number \notin DOMAIN grant /\ Number # None
  BY <1>1, <1>4 DEF Number, None
<1>6. \A t \in DOMAIN grant : grant'[t] = IF t = old THEN "spent" ELSE grant[t]
  BY <1>2, <1>4
<1> QED
  BY <1>1, <1>3, <1>4, <1>5, <1>6 DEF Number, Grows

\* Renewing a live token gives an access token, and a refresh token when the
\* provider rotates.
LEMMA RenewFacts ==
  ASSUME KnownInv, NEW r, Given(grant, r), Renew(r), grant[r] = "live", r # None
  PROVE  /\ Grows(grant, grant') /\ Number \in DOMAIN grant' /\ Number # None
         /\ Number \notin DOMAIN grant
         /\ NextRefresh(r, Number) # None /\ Given(grant', NextRefresh(r, Number))
         /\ grant'[NextRefresh(r, Number)] = "live"
         /\ \A t \in DOMAIN grant : grant[t] # "live" => grant'[t] # "live"
         /\ accepted' = accepted \cup {Number} /\ accepted' \subseteq DOMAIN grant'
         /\ UNCHANGED <<provider, expired>>
<1>1. CASE provider.rotates
  <2>1. Issue(r, "live") /\ NextRefresh(r, Number) = Number
    BY <1>1 DEF Renew, NextRefresh
  <2>2. "live" \in GrantStates
    BY DEF GrantStates
  <2> QED
    BY <2>1, <2>2, IssueFacts DEF Given
<1>2. CASE ~provider.rotates
  <2>1. Issue(None, "none") /\ NextRefresh(r, Number) = r
    BY <1>2 DEF Renew, NextRefresh
  <2>2. "none" \in GrantStates
    BY DEF GrantStates
  <2>3. None \notin DOMAIN grant
    BY DEF KnownInv, None
  <2> QED
    BY <2>1, <2>2, <2>3, IssueFacts DEF Given, Grows
<1> QED
  BY <1>1, <1>2

\* Tokens given to nobody's account: the grants of before stay what they were.
LEMMA IssueNew ==
  ASSUME KnownInv, NEW state \in GrantStates, Issue(None, state)
  PROVE  /\ Grows(grant, grant') /\ Number \in DOMAIN grant' /\ Number \notin DOMAIN grant
         /\ grant'[Number] = state /\ Number # None
         /\ \A t \in DOMAIN grant : grant'[t] = grant[t]
         /\ accepted' = accepted \cup {Number} /\ accepted' \subseteq DOMAIN grant'
         /\ UNCHANGED <<provider, expired>>
<1>1. None \notin DOMAIN grant
  BY DEF KnownInv, None
<1> QED
  BY <1>1, IssueFacts

\* What was known of the connections stays so when grants are only spent or
\* withdrawn that were live.
LEMMA StillTrue ==
  ASSUME NEW g, NEW h, NEW x, NEW k, k.refresh # None => k.refresh \in DOMAIN g,
         \A t \in DOMAIN g : g[t] # "live" => h[t] # "live"
  PROVE  /\ Dead(g, k) => Dead(h, k)
         /\ ErrorTrue(g, x, k) => ErrorTrue(h, x, k)
BY DEF Dead, ErrorTrue

-----------------------------------------------------------------------------
(* Requests that arrive *)

LEMMA JoinThree ==
  ASSUME NEW s, NEW t, NEW u, NEW v
  PROVE  <<s, t, u>> \o <<v>> = <<s, t, u, v>>
<1> DEFINE S == {s, t, u, v}
<1> DEFINE p == <<s, t, u>>
<1> DEFINE q == <<v>>
<1> DEFINE r == <<s, t, u, v>>
<1> SUFFICES p \o q = r
  OBVIOUS
<1>1. p \in Seq(S) /\ Len(p) = 3 /\ p[1] = s /\ p[2] = t /\ p[3] = u
  OBVIOUS
<1>2. q \in Seq(S) /\ Len(q) = 1 /\ q[1] = v
  OBVIOUS
<1>3. r \in Seq(S) /\ Len(r) = 4 /\ r[1] = s /\ r[2] = t /\ r[3] = u /\ r[4] = v
  OBVIOUS
<1> HIDE DEF p, q, r, S
<1>4. /\ p \o q \in Seq(S) /\ Len(p \o q) = 4
      /\ \A i \in 1..4 : (p \o q)[i] = IF i <= 3 THEN p[i] ELSE q[i - 3]
  <2>1. /\ p \o q \in Seq(S) /\ Len(p \o q) = Len(p) + Len(q)
        /\ \A i \in 1 .. Len(p) + Len(q) : (p \o q)[i] = IF i <= Len(p) THEN p[i] ELSE q[i - Len(p)]
    BY <1>1, <1>2, ConcatProperties, Zenon
  <2>2. Len(p) + Len(q) = 4
    BY <1>1, <1>2
  <2> QED
    BY <1>1, <2>1, <2>2
<1>5. \A i \in 1..4 : (p \o q)[i] = r[i]
  <2>1. (p \o q)[1] = p[1] /\ (p \o q)[2] = p[2] /\ (p \o q)[3] = p[3] /\ (p \o q)[4] = q[1]
    BY <1>4
  <2>2. \A i \in 1..4 : i = 1 \/ i = 2 \/ i = 3 \/ i = 4
    OBVIOUS
  <2> QED
    BY <1>1, <1>2, <1>3, <2>1, <2>2
<1> QED
  BY <1>3, <1>4, <1>5, SeqEqual

\* A plan is itself with nothing after it.
LEMMA NothingAfter == \A p \in SyncPlans \cup {<<>>} : p \o <<>> = p
<1>1. \A s : <<s>> \o <<>> = <<s>>
  OBVIOUS
<1>2. \A s, t : <<s, t>> \o <<>> = <<s, t>>
  OBVIOUS
<1>3. \A s, t, u : <<s, t, u>> \o <<>> = <<s, t, u>>
  OBVIOUS
<1>4. \A s, t, u, v : <<s, t, u, v>> \o <<>> = <<s, t, u, v>>
  <2> SUFFICES ASSUME NEW s, NEW t, NEW u, NEW v PROVE <<s, t, u, v>> \o <<>> = <<s, t, u, v>>
    OBVIOUS
  <2>1. <<s, t, u, v>> \in Seq({s, t, u, v})
    OBVIOUS
  <2> QED
    BY <2>1, ConcatEmptySeq
<1>5. <<>> \o <<>> = <<>>
  OBVIOUS
<1>6. \A p \in RefreshPlans \cup TokenPlans : p \o <<>> = p
  BY <1>2, <1>3, <1>4, Zenon DEF RefreshPlans, TokenPlans, StalePlans, FreshPlans
<1>7. \A p \in FetchPlans \cup EndPlans : p \o <<>> = p
  BY <1>1, <1>2, Zenon DEF FetchPlans, EndPlans, SyncedPlans, KeptPlans, ErrorPlans
<1> QED
  BY <1>5, <1>6, <1>7 DEF SyncPlans

\* ensureFreshToken: the plan is next, an error for want of a refresh token, or
\* a refresh.
LEMMA FreshPlan ==
  ASSUME NEW k, NEW forced \in BOOLEAN, NEW next \in FetchPlans
  PROVE  \/ Fresh(k, forced, next) = next /\ ~forced
         \/ Fresh(k, forced, next) = <<"reread", "saveError">> /\ k.refresh = None
         \/ Fresh(k, forced, next) \in RefreshPlans /\ k.refresh # None
<1>1. <<"refresh", "reread", "saveTokens">> \o <<"fetch">> = <<"refresh", "reread", "saveTokens", "fetch">>
  BY JoinThree, Zenon
<1>2. <<"refresh", "reread", "saveTokens">> \o <<"fetchAgain">>
        = <<"refresh", "reread", "saveTokens", "fetchAgain">>
  BY JoinThree, Zenon
<1> QED
  BY <1>1, <1>2 DEF Fresh, RefreshPlans, FetchPlans

\* A request that starts: when it is alone, it starts from a row that is true.
LEMMA ArriveInv ==
  ASSUME IInv, NEW c \in Requests, NEW r, NEW m, NEW p, Arrive(c, r, m, p),
         UNCHANGED <<world, row, denied>>, p # <<>>, p \notin TokenPlans, p \notin ReadPlans,
         Knows(grant, row, p, r.op, m), forgotten' \in BOOLEAN,
         forgotten' => forgotten /\ r.op # "connect" /\ (Empty(row) => Empty(m.conn)),
         r.op = "disconnect" =>
           Empty(m.conn) /\ m.since = IF Quiet THEN served' ELSE 0,
         row = NoRow \/ ErrorTrue(grant, denied, row) => AloneKnows(grant, row, denied, p, m),
         row = NoRow \/ Unspent(grant, row) => CleanKnows(provider, grant, accepted, p, m)
  PROVE  IInv'
<1>1. DOMAIN plan = Requests /\ DOMAIN req = Requests /\ DOMAIN mem = Requests /\ KnownInv
      /\ served \in 0..MaxServed /\ MaxServed \in Nat
  BY RequestAssumption DEF IInv, KnownInv, RequestsOK
<1>2. /\ plan' = [plan EXCEPT ![c] = p] /\ req' = [req EXCEPT ![c] = r] /\ mem' = [mem EXCEPT ![c] = m]
      /\ overlapped' = (overlapped \/ ~Quiet) /\ failed' = failed
      /\ served' = served + 1 /\ served < MaxServed /\ plan[c] = <<>>
      /\ UNCHANGED <<provider, grant, accepted, expired, row, denied>>
  BY DEF Arrive, Begin, world, Idle
<1>3. /\ plan'[c] = p /\ req'[c] = r /\ mem'[c] = m
      /\ \A d \in Requests : d # c => plan'[d] = plan[d] /\ req'[d] = req[d] /\ mem'[d] = mem[d]
  BY <1>1, <1>2
<1>4. KnownInv'
  <2>1. RequestsOK'
    <3>1. overlapped' \in BOOLEAN
      BY <1>2, Zenon DEF Quiet
    <3>2. served' \in 0..MaxServed
      BY <1>1, <1>2
    <3> QED
      BY <1>1, <1>2, <3>1, <3>2 DEF KnownInv, RequestsOK
  <2>2. \A d \in Requests : Knows(grant', row', plan'[d], req'[d].op, mem'[d])
    BY <1>1, <1>2, <1>3 DEF KnownInv
  <2> QED
    BY <1>1, <1>2, <2>1, <2>2 DEF KnownInv, Tokens
<1>5. ForgetInv'
  <2>1. ASSUME forgotten'
        PROVE  /\ row' # NoRow /\ Empty(row')
               /\ \A d \in Requests : ~Idle(d)' => req'[d].op # "connect" /\ Empty(mem'[d].conn)
    BY <1>2, <1>3, <2>1 DEF IInv, ForgetInv, Idle
  <2>2. ASSUME NEW d \in Requests, req'[d].op = "disconnect"
        PROVE  /\ Empty(mem'[d].conn) /\ mem'[d].since \in 0..served'
               /\ mem'[d].since = served' =>
                    /\ \A e \in Requests : e # d => Idle(e)'
                    /\ plan'[d] = <<"saveRevoked">> => mem'[d].db = row'
    <3>1. CASE d = c
      <4>1. Empty(m.conn) /\ m.since = IF Quiet THEN served' ELSE 0
        BY <1>3, <2>2, <3>1
      <4>2. plan'[d] # <<"saveRevoked">>
        BY <1>3, <3>1, Readers
      <4>3. m.since = served' => Quiet
        BY <1>1, <1>2, <4>1
      <4>4. Quiet => \A e \in Requests : e # c => Idle(e)'
        BY <1>3 DEF Quiet, Idle
      <4>5. m.since \in 0..served'
        BY <1>1, <1>2, <4>1
      <4> QED
        BY <1>3, <3>1, <4>1, <4>2, <4>3, <4>4, <4>5
    <3>2. CASE d # c
      <4>1. Empty(mem[d].conn) /\ mem[d].since \in 0..served /\ mem'[d] = mem[d]
        BY <1>3, <2>2, <3>2 DEF IInv, ForgetInv
      <4>2. mem[d].since \in 0..served' /\ mem[d].since # served'
        BY <1>1, <1>2, <4>1
      <4> QED
        BY <4>1, <4>2
    <3> QED
      BY <3>1, <3>2
  <2> QED
    BY <2>1, <2>2 DEF ForgetInv
<1>6. ~overlapped' => ~overlapped /\ \A d \in Requests : plan[d] = <<>>
  BY <1>2 DEF Quiet, Idle
<1>7. ASSUME ~overlapped'
      PROVE  /\ Alone' /\ (row' # NoRow => ErrorTrue(grant', denied', row'))
             /\ \A d \in Requests : AloneKnows(grant', row', denied', plan'[d], mem'[d])
  <2>1. \A d \in Requests : d # c => plan'[d] = <<>>
    BY <1>3, <1>6, <1>7
  <2>2. row # NoRow => ErrorTrue(grant, denied, row)
    BY <1>6, <1>7 DEF IInv, SerialInv
  <2>3. Alone'
    BY <2>1 DEF Alone, Idle
  <2> QED
    BY <1>2, <1>3, <2>1, <2>2, <2>3, NothingLeft
<1>8. ASSUME Clean'
      PROVE  /\ row' # NoRow /\ (\A d \in Requests : plan'[d] \notin TokenPlans) => Unspent(grant', row')
             /\ \A d \in Requests : CleanKnows(provider', grant', accepted', plan'[d], mem'[d])
  <2>1. Clean /\ ~overlapped'
    BY <1>2, <1>8 DEF Clean
  <2>2. <<>> \notin TokenPlans
    BY Kinds1 DEF SyncPlans
  <2>3. \A d \in Requests : (d # c => plan'[d] = <<>>) /\ plan[d] \notin TokenPlans
    BY <1>3, <1>6, <2>1, <2>2
  <2>4. row # NoRow => Unspent(grant, row)
    BY <2>1, <2>3 DEF IInv, SerialInv
  <2>5. CleanKnows(provider', grant', accepted', p, m)
    BY <1>2, <2>4
  <2>6. \A d \in Requests : CleanKnows(provider', grant', accepted', plan'[d], mem'[d])
    BY <1>3, <2>3, <2>5, NothingLeft
  <2>7. row' # NoRow => Unspent(grant', row')
    BY <1>2, <2>4
  <2> QED
    BY <2>6, <2>7
<1>9. SerialInv'
  BY <1>7, <1>8 DEF SerialInv
<1> QED
  BY <1>4, <1>5, <1>9 DEF IInv

LEMMA RequestInv ==
  ASSUME IInv, NEW c \in Requests, Request(c)
  PROVE  IInv'
<1>0. KnownInv /\ forgotten \in BOOLEAN
  BY DEF IInv, KnownInv
<1>1. CASE StartConnect(c)
  <2> DEFINE p == <<"exchange", "find">>
  <2>1. p # <<>> /\ p \notin TokenPlans /\ p \notin ReadPlans /\ p # <<"find">>
        /\ p \notin SyncPlans \cup OwnPlans \cup RevokePlans
        /\ p \notin ErrorPlans \cup SyncedPlans \cup KeptPlans
    BY Kinds1, Readers DEF SyncPlans, EndPlans
  <2>2. Arrive(c, [op |-> "connect"], <<>>, p) /\ UNCHANGED <<world, row, denied>> /\ forgotten' = FALSE
    BY <1>1 DEF StartConnect
  <2>3. Knows(grant, row, p, "connect", <<>>)
    BY DEF Knows
  <2> HIDE DEF p
  <2>4. AloneKnows(grant, row, denied, p, <<>>) /\ CleanKnows(provider, grant, accepted, p, <<>>)
    BY <2>1 DEF AloneKnows, CleanKnows
  <2> QED
    BY <2>1, <2>2, <2>3, <2>4, ArriveInv
<1>2. CASE StartDisconnect(c)
  <2> DEFINE p == <<"reread", "saveRevoked">>
  <2> DEFINE since == IF Quiet THEN served' ELSE 0
  <2> DEFINE m == [conn |-> Cleared(row), db |-> NoRow, since |-> since]
  <2>1. p # <<>> /\ p \in RevokePlans /\ p \notin ReadPlans
    BY Heads, Readers DEF RevokePlans
  <2>2. p \notin SyncPlans /\ p # <<"find">> /\ p \notin TokenPlans
        /\ p \notin ErrorPlans \cup SyncedPlans \cup KeptPlans
    BY <2>1, Kinds1 DEF SyncPlans, EndPlans
  <2>3. /\ Arrive(c, [op |-> "disconnect"], m, p) /\ UNCHANGED <<world, row, denied>> /\ row # NoRow
        /\ forgotten' = forgotten
    BY <1>2 DEF StartDisconnect, ghosts
  <2>4. Holds(grant, row)
    BY <1>0, <2>3 DEF KnownInv
  <2>5. Holds(grant, Cleared(row)) /\ Cleared(row).status = "revoked" /\ Empty(Cleared(row))
    BY <2>4 DEF Holds, Rows, Cleared, Empty
  <2>6. m.conn = Cleared(row) /\ DOMAIN m = {"conn", "db", "since"} /\ m.since = since
    OBVIOUS
  <2> HIDE DEF p, m
  <2>7. Knows(grant, row, p, "disconnect", m)
    BY <2>1, <2>3, <2>5, <2>6 DEF Knows
  <2>8. AloneKnows(grant, row, denied, p, m) /\ CleanKnows(provider, grant, accepted, p, m)
    BY <2>1, <2>2, <2>5, <2>6 DEF AloneKnows, CleanKnows, Unspent, Empty
  <2> QED
    BY <1>0, <2>1, <2>2, <2>3, <2>5, <2>6, <2>7, <2>8, ArriveInv
<1>3. CASE StartSync(c)
  <2> DEFINE p == Fresh(row, FALSE, <<"fetch">>)
  <2> DEFINE m == [conn |-> row, db |-> NoRow, worked |-> None, denied |-> FALSE]
  <2>1. /\ row # NoRow /\ forgotten' = forgotten
        /\ Arrive(c, [op |-> "sync"], m, p) /\ UNCHANGED <<world, row, denied>>
    BY <1>3 DEF StartSync, ghosts
  <2>2. Holds(grant, row)
    BY <1>0, <2>1 DEF KnownInv
  <2>3. \/ p \in FetchPlans
        \/ p \in ErrorPlans /\ p = <<"reread", "saveError">> /\ row.refresh = None
        \/ p \in RefreshPlans /\ row.refresh # None
    BY FreshPlan DEF FetchPlans, ErrorPlans
  <2>4. m.conn = row /\ DOMAIN m = {"conn", "db", "worked", "denied"} /\ m.denied = FALSE
    OBVIOUS
  <2> HIDE DEF p, m
  <2>5. /\ p \in SyncPlans /\ p \notin TokenPlans /\ p # <<>> /\ p # <<"find">>
        /\ p \notin SyncedPlans \cup KeptPlans /\ p \notin ReadPlans
        /\ p \in RefreshPlans => row.refresh # None
        /\ p \in ErrorPlans => row.refresh = None
    BY <2>3, Kinds1, Kinds2, Readers DEF EndPlans
  <2>6. Knows(grant, row, p, "sync", m)
    BY <2>1, <2>2, <2>4, <2>5 DEF Knows
  <2>7. ErrorTrue(grant, denied, row) => AloneKnows(grant, row, denied, p, m)
    BY <2>4, <2>5 DEF AloneKnows, Dead
  <2>8. Unspent(grant, row) => CleanKnows(provider, grant, accepted, p, m)
    BY <2>4, <2>5 DEF CleanKnows
  <2> QED
    BY <1>0, <2>1, <2>4, <2>5, <2>6, <2>7, <2>8, ArriveInv
<1> QED
  BY <1>1, <1>2, <1>3 DEF Request
-----------------------------------------------------------------------------
(* The statements *)

\* A save reads the row: what it has read is the row, while nobody else is served.
LEMMA RereadInv ==
  ASSUME IInv, NEW c \in Requests, Reread(c)
  PROVE  IInv'
<1> DEFINE p == Tail(plan[c])
<1> DEFINE m == [mem[c] EXCEPT !.db = row]
<1>1. KnownInv /\ ForgetInv /\ SerialInv
  BY DEF IInv
<1>2. /\ Continue(c, p, m) /\ failed' = failed /\ UNCHANGED world /\ UNCHANGED <<row, denied, forgotten>>
      /\ At(c, "reread") /\ ~Idle(c)
  BY DEF Reread, Proceed, Rest, ghosts, At, Idle
<1>3. \/ plan[c] \in StorePlans /\ p = <<"saveOwn">>
      \/ plan[c] \in RevokePlans /\ p = <<"saveRevoked">>
      \/ plan[c] \in StalePlans /\ p \in FreshPlans
      \/ plan[c] \in SyncedPlans /\ p = <<"saveSynced">>
      \/ plan[c] \in KeptPlans /\ p = <<"saveKept">>
      \/ plan[c] \in ErrorPlans /\ p = <<"saveError">>
  BY <1>1, <1>2, AtKnows
<1>4. /\ p \in ReadPlans /\ p # <<>> /\ p # <<"find">>
      /\ \/ plan[c] \in StorePlans /\ p \in StorePlans
         \/ plan[c] \in RevokePlans /\ p \in RevokePlans
         \/ plan[c] \in SyncPlans /\ p \in SyncPlans
      /\ p \notin RefreshPlans
      /\ p \in SyncedPlans => plan[c] \in SyncedPlans
      /\ p \in KeptPlans => plan[c] \in KeptPlans
      /\ p \in ErrorPlans => plan[c] \in ErrorPlans
      /\ p \notin TokenPlans => plan[c] \notin TokenPlans
      /\ p = <<"saveRevoked">> \/ p \notin RevokePlans
  <2> HIDE DEF p, m
  <2>1. /\ <<"saveOwn">> \in StorePlans /\ <<"saveRevoked">> \in RevokePlans
        /\ <<"saveSynced">> \in SyncedPlans /\ <<"saveKept">> \in KeptPlans /\ <<"saveError">> \in ErrorPlans
    BY DEF StorePlans, RevokePlans, SyncedPlans, KeptPlans, ErrorPlans
  <2>2. \A q \in StorePlans \cup RevokePlans :
          q \notin SyncPlans /\ q \notin RefreshPlans \cup TokenPlans \cup SyncedPlans \cup KeptPlans \cup ErrorPlans
          /\ q # <<>> /\ q # <<"find">>
    BY Kinds1 DEF OwnPlans, SyncPlans, EndPlans
  <2>3. \A q \in SyncPlans : q # <<>> /\ q # <<"find">> /\ q \notin RevokePlans
    BY Kinds1
  <2>4. \A q \in FreshPlans : q \in SyncPlans /\ q \in TokenPlans /\ q \notin RefreshPlans
                              /\ q \notin SyncedPlans \cup KeptPlans \cup ErrorPlans
    BY Kinds2 DEF EndPlans
  <2>5. \A q \in SyncedPlans \cup KeptPlans \cup ErrorPlans :
          q \in SyncPlans /\ q \notin RefreshPlans /\ q \notin TokenPlans
    BY Kinds2 DEF EndPlans
  <2>6. \A q \in StorePlans : q \notin RevokePlans
    BY Kinds1
  <2>7. p \in ReadPlans
    BY <1>3, Readers
  <2>8. CASE plan[c] \in StorePlans /\ p = <<"saveOwn">>
    BY <2>1, <2>2, <2>6, <2>7, <2>8
  <2>9. CASE plan[c] \in RevokePlans /\ p = <<"saveRevoked">>
    BY <2>1, <2>2, <2>7, <2>9
  <2>14. \A q \in StalePlans : q \in SyncPlans
    BY Kinds2
  <2>10. CASE plan[c] \in StalePlans /\ p \in FreshPlans
    <3>1. p \in SyncPlans /\ p \in TokenPlans /\ p \notin RefreshPlans
          /\ p \notin SyncedPlans \cup KeptPlans \cup ErrorPlans /\ plan[c] \in SyncPlans
      BY <2>4, <2>10, <2>14
    <3> QED
      BY <2>3, <2>7, <3>1
  <2>11. CASE plan[c] \in SyncedPlans /\ p = <<"saveSynced">>
    BY <2>1, <2>3, <2>5, <2>7, <2>11, Kinds2
  <2>12. CASE plan[c] \in KeptPlans /\ p = <<"saveKept">>
    BY <2>1, <2>3, <2>5, <2>7, <2>12, Kinds2
  <2>13. CASE plan[c] \in ErrorPlans /\ p = <<"saveError">>
    BY <2>1, <2>3, <2>5, <2>7, <2>13, Kinds2
  <2> QED
    BY <1>3, <2>8, <2>9, <2>10, <2>11, <2>12, <2>13
<1>5. /\ DOMAIN m = DOMAIN mem[c] /\ m.db = row /\ m.conn = mem[c].conn
      /\ plan[c] \in RevokePlans => m.since = mem[c].since
      /\ plan[c] \in SyncPlans => m.denied = mem[c].denied /\ m.worked = mem[c].worked
  <2>1. CASE plan[c] \in StorePlans
    BY <1>1, <2>1, HasKnown, Kinds1 DEF OwnPlans
  <2>2. CASE plan[c] \in RevokePlans
    BY <1>1, <2>2, HasKnown, Kinds1
  <2>3. CASE plan[c] \in SyncPlans
    BY <1>1, <2>3, HasKnown, Kinds1
  <2> HIDE DEF p, m
  <2> QED
    BY <1>4, <2>1, <2>2, <2>3
<1> HIDE DEF p, m
<1>6. KnownInv'
  <2>1. Knows(grant, row, p, req[c].op, m)
    BY <1>1, <1>4, <1>5, HasKnown DEF Knows, OwnPlans
  <2>2. failed \in BOOLEAN /\ denied \in BOOLEAN /\ forgotten \in BOOLEAN
    BY <1>1 DEF KnownInv, RequestsOK
  <2> QED
    BY <1>1, <1>2, <2>1, <2>2, SameWorld, GoesOnKnown
<1>7. ForgetInv'
  <2>1. forgotten => row # NoRow /\ Empty(row) /\ req[c].op # "connect" /\ Empty(m.conn)
    BY <1>1, <1>2, <1>5 DEF ForgetInv
  <2>2. req[c].op = "disconnect" => m.since = mem[c].since
    BY <1>1, <1>5, HasKnown
  <2> QED
    BY <1>1, <1>2, <1>5, <2>1, <2>2, GoesOnForgotten
<1>8. SerialInv'
  <2>1. ~overlapped => AloneKnows(grant, row, denied, p, m) /\ (row # NoRow => ErrorTrue(grant, denied, row))
    <3>1. ~overlapped => AloneKnows(grant, row, denied, plan[c], mem[c])
                         /\ (row # NoRow => ErrorTrue(grant, denied, row))
      BY <1>1 DEF SerialInv
    <3>2. p \in SyncPlans => plan[c] \in SyncPlans
      BY <1>4, Kinds1 DEF OwnPlans
    <3>3. p \in ErrorPlans => plan[c] \in SyncPlans
      BY <1>4, Kinds2
    <3> QED
      BY <1>4, <1>5, <3>1, <3>2, <3>3 DEF AloneKnows
  <2>2. Clean => CleanKnows(provider, grant, accepted, p, m)
    <3>1. Clean => CleanKnows(provider, grant, accepted, plan[c], mem[c])
      BY <1>1 DEF SerialInv
    <3>2. plan[c] \in OwnPlans \cup RevokePlans \cup SyncPlans
      BY <1>4 DEF OwnPlans
    <3>3. p \in SyncedPlans \/ p \in KeptPlans => plan[c] \in SyncPlans
      BY <1>4, Kinds2
    <3> QED
      BY <1>4, <1>5, <3>1, <3>2, <3>3 DEF CleanKnows
  <2>3. Clean /\ row # NoRow /\ p \notin TokenPlans => Unspent(grant, row)
    BY <1>1, <1>2, <1>4, RowNow
  <2> QED
    BY <1>1, <1>2, <2>1, <2>2, <2>3, SameWorld, GoesOnSerial
<1> QED
  BY <1>6, <1>7, <1>8 DEF IInv

\* The callback: the tokens it is given, and the connection it is to save
LEMMA ExchangeInv ==
  ASSUME IInv, NEW c \in Requests, Exchange(c)
  PROVE  IInv'
<1>1. KnownInv /\ ForgetInv /\ SerialInv
  BY DEF IInv
<1>2. PICK state \in {"live", "none"} :
        /\ Issue(None, state)
        /\ Proceed(c, [got |-> Number, refresh |-> IF state = "live" THEN Number ELSE None])
  BY DEF Exchange
<1> DEFINE m == [got |-> Number, refresh |-> IF state = "live" THEN Number ELSE None]
<1> DEFINE p == <<"find">>
<1>3. At(c, "exchange") /\ UNCHANGED <<row, denied, forgotten>> /\ ~Idle(c)
  BY DEF Exchange, ghosts, At, Idle
<1>4. plan[c] = <<"exchange", "find">> /\ Tail(plan[c]) = p
  BY <1>1, <1>3, AtKnows
<1>5. Continue(c, p, m) /\ failed' = failed /\ req[c].op = "connect"
  BY <1>1, <1>2, <1>4, HasKnown DEF Proceed, Rest
<1>6. state \in GrantStates
  BY DEF GrantStates
<1>7. /\ Grows(grant, grant') /\ Number \in DOMAIN grant' /\ Number \notin DOMAIN grant
      /\ grant'[Number] = state /\ Number # None
      /\ \A t \in DOMAIN grant : grant'[t] = grant[t]
      /\ accepted' = accepted \cup {Number} /\ accepted' \subseteq DOMAIN grant'
      /\ UNCHANGED <<provider, expired>>
  BY <1>1, <1>2, <1>6, IssueNew
<1>8. m.got \in DOMAIN grant' /\ (m.refresh # None => m.refresh = Number /\ state = "live")
  BY <1>7
<1>9. p # <<>> /\ p \notin SyncPlans \cup OwnPlans \cup RevokePlans \cup ReadPlans \cup TokenPlans
      /\ p \notin ErrorPlans \cup SyncedPlans \cup KeptPlans /\ plan[c] \notin TokenPlans
  BY <1>4, Kinds1, Readers DEF SyncPlans, EndPlans
<1> HIDE DEF m
<1>10. KnownInv'
  <2>1. Knows(grant', row', p, req[c].op, m)
    BY <1>5, <1>7, <1>8 DEF Knows, Given
  <2>2. expired' \subseteq DOMAIN grant'
    BY <1>1, <1>7 DEF KnownInv, Grows, Tokens
  <2>3. failed \in BOOLEAN /\ denied \in BOOLEAN /\ forgotten \in BOOLEAN
    BY <1>1 DEF KnownInv, RequestsOK
  <2> QED
    BY <1>1, <1>3, <1>5, <1>7, <2>1, <2>2, <2>3, GoesOnKnown
<1>11. ForgetInv'
  <2>1. ~forgotten
    BY <1>1, <1>3, <1>5 DEF ForgetInv
  <2> QED
    BY <1>1, <1>3, <1>5, <2>1, GoesOnForgotten
<1>12. row # NoRow => (row.refresh # None => row.refresh \in DOMAIN grant)
  BY <1>1 DEF KnownInv, Holds, Given
<1>13. SerialInv'
  <2>1. AloneKnows(grant', row', denied', p, m)
    BY <1>9 DEF AloneKnows
  <2>2. CleanKnows(provider', grant', accepted', p, m)
    BY <1>7, <1>8, <1>9 DEF CleanKnows
  <2>3. ~overlapped /\ row' # NoRow => ErrorTrue(grant', denied', row')
    BY <1>1, <1>3, <1>7, <1>12 DEF SerialInv, ErrorTrue, Dead
  <2>4. Clean /\ row' # NoRow => Unspent(grant', row')
    BY <1>1, <1>3, <1>7, <1>9, <1>12, RowNow DEF Unspent
  <2> QED
    BY <1>1, <1>3, <1>5, <2>1, <2>2, <2>3, <2>4, GoesOnSerial
<1> QED
  BY <1>10, <1>11, <1>13 DEF IInv

LEMMA FindInv ==
  ASSUME IInv, NEW c \in Requests, Find(c)
  PROVE  IInv'
<1>1. KnownInv /\ ForgetInv /\ SerialInv
  BY DEF IInv
<1> DEFINE k == Own(mem[c])
<1> DEFINE m == [conn |-> k, db |-> NoRow]
<1> DEFINE p == IF row = NoRow THEN <<"insert">> ELSE <<"reread", "saveOwn">>
<1>2. /\ Continue(c, p, m) /\ failed' = failed /\ UNCHANGED world /\ UNCHANGED <<row, denied, forgotten>>
      /\ At(c, "find") /\ ~Idle(c)
  BY DEF Find, ghosts, At, Idle
<1>3. /\ plan[c] = <<"find">> /\ req[c].op = "connect" /\ mem[c].got \in DOMAIN grant
      /\ mem[c].refresh # None => Given(grant, mem[c].refresh)
  BY <1>1, <1>2, AtKnows, HasKnown
<1>4. row = NoRow \/ Holds(grant, row)
  BY <1>1 DEF KnownInv
<1>5. /\ Holds(grant, k) /\ k.status = "connected"
      /\ k.refresh = mem[c].refresh \/ (row # NoRow /\ k.refresh = row.refresh)
  <2>1. k.refresh = mem[c].refresh \/ (row # NoRow /\ k.refresh = row.refresh)
    BY DEF Own
  <2>2. row # NoRow /\ row.refresh # None => Given(grant, row.refresh)
    BY <1>4 DEF Holds
  <2>3. k.refresh # None => Given(grant, k.refresh)
    BY <1>3, <2>1, <2>2
  <2>4. k.access \in DOMAIN grant /\ k.until \in DOMAIN grant /\ k.status = "connected"
    BY <1>3 DEF Own
  <2>5. k \in Rows(grant)
    BY <2>3, <2>4 DEF Own, Rows, Given
  <2> QED
    BY <2>1, <2>3, <2>4, <2>5 DEF Holds
<1>6. /\ p \in OwnPlans /\ (p \in StorePlans => row # NoRow) /\ p # <<>> /\ p # <<"find">>
      /\ p \notin SyncPlans \cup RevokePlans \cup ReadPlans
      /\ p \notin ErrorPlans \cup SyncedPlans \cup KeptPlans \cup TokenPlans /\ plan[c] \notin TokenPlans
  <2>1. p \in OwnPlans /\ (p \in StorePlans => row # NoRow) /\ p \notin ReadPlans
    BY Kinds1, Readers DEF OwnPlans, StorePlans
  <2>2. \A q \in OwnPlans : q # <<>> /\ q # <<"find">> /\ q \notin SyncPlans \cup RevokePlans
    BY Kinds1 DEF OwnPlans
  <2> QED
    BY <1>3, <2>1, <2>2, Kinds1 DEF SyncPlans, EndPlans
<1>7. m.conn = k /\ DOMAIN m = {"conn", "db"}
  OBVIOUS
<1> HIDE DEF m, p, k
<1>8. KnownInv'
  <2>1. Knows(grant, row, p, req[c].op, m)
    BY <1>3, <1>5, <1>6, <1>7 DEF Knows
  <2>3. failed \in BOOLEAN /\ denied \in BOOLEAN /\ forgotten \in BOOLEAN
    BY <1>1 DEF KnownInv, RequestsOK
  <2> QED
    BY <1>1, <1>2, <2>1, <2>3, SameWorld, GoesOnKnown
<1>9. ForgetInv'
  <2>1. ~forgotten
    BY <1>1, <1>2, <1>3 DEF ForgetInv
  <2> QED
    BY <1>1, <1>2, <1>3, <2>1, GoesOnForgotten
<1>10. SerialInv'
  <2>1. AloneKnows(grant, row, denied, p, m)
    BY <1>6 DEF AloneKnows
  <2>2. Clean /\ row # NoRow => Unspent(grant, row)
    BY <1>1, <1>2, <1>6, RowNow
  <2>3. Clean => CleanKnows(provider, grant, accepted, p, m)
    <3>1. Clean => (mem[c].refresh # None => grant[mem[c].refresh] # "spent")
      BY <1>1, <1>3 DEF SerialInv, CleanKnows
    <3> QED
      BY <1>5, <1>6, <1>7, <2>2, <3>1 DEF CleanKnows, Unspent
  <2>4. ~overlapped /\ row # NoRow => ErrorTrue(grant, denied, row)
    BY <1>1 DEF SerialInv
  <2> QED
    BY <1>1, <1>2, <2>1, <2>2, <2>3, <2>4, SameWorld, GoesOnSerial
<1> QED
  BY <1>8, <1>9, <1>10 DEF IInv
-----------------------------------------------------------------------------
(* The saves *)

\* A request that ends with the update of the row by the entity k
LEMMA LastSave ==
  ASSUME IInv, NEW c \in Requests, NEW k, Holds(grant, k), row # NoRow, ~Idle(c),
         plan[c] \in ReadPlans, Continue(c, <<>>, mem[c]), failed' = failed, UNCHANGED world,
         row' = Merged(mem[c].db, k), denied' \in BOOLEAN, forgotten' \in BOOLEAN,
         forgotten' => forgotten \/ \A d \in Requests : d # c => Idle(d),
         forgotten' => Empty(row'),
         ~overlapped => ErrorTrue(grant, denied', k),
         Clean => Unspent(grant, k)
  PROVE  IInv'
<1>1. KnownInv /\ ForgetInv /\ SerialInv /\ Holds(grant, row) /\ failed \in BOOLEAN
  BY DEF IInv, KnownInv, RequestsOK
<1>2. /\ Holds(grant, row') /\ (mem[c].db = row => row' = k)
  BY <1>1, MergedRow
<1>3. row' # NoRow
  BY <1>2, NotNoRow
<1>4. KnownInv'
  BY <1>1, <1>2, SameWorld, GoesOnKnown
<1>5. ForgetInv'
  BY <1>1, <1>3, GoesOnForgotten
<1>6. SerialInv'
  <2>1. ~overlapped => row' = k
    BY <1>1, <1>2 DEF SerialInv, AloneKnows
  <2>2. ~overlapped => AloneKnows(grant', row', denied', <<>>, mem[c]) /\ ErrorTrue(grant', denied', row')
    BY <1>1, <2>1, SameWorld, NothingLeft
  <2>3. Clean => CleanKnows(provider', grant', accepted', <<>>, mem[c]) /\ Unspent(grant', row')
    BY <1>1, <2>1, SameWorld, NothingLeft DEF Clean
  <2> QED
    BY <1>1, <2>2, <2>3, GoesOnSerial
<1> QED
  BY <1>4, <1>5, <1>6 DEF IInv

LEMMA InsertInv ==
  ASSUME IInv, NEW c \in Requests, Insert(c)
  PROVE  IInv'
<1>1. KnownInv /\ ForgetInv /\ SerialInv
  BY DEF IInv
<1>2. /\ Continue(c, Tail(plan[c]), mem[c]) /\ failed' = failed /\ UNCHANGED world
      /\ UNCHANGED <<denied, forgotten>> /\ At(c, "insert") /\ ~Idle(c)
      /\ row' = IF row = NoRow THEN mem[c].conn ELSE row
  BY DEF Insert, Done, Proceed, Rest, ghosts, At, Idle
<1>3. plan[c] = <<"insert">> /\ Tail(plan[c]) = <<>> /\ plan[c] \in OwnPlans
  BY <1>1, <1>2, AtKnows DEF OwnPlans
<1>4. /\ Holds(grant, mem[c].conn) /\ mem[c].conn.status = "connected" /\ req[c].op = "connect"
  BY <1>1, <1>3, HasKnown
<1>5. plan[c] \notin TokenPlans
  BY <1>3, Kinds1 DEF SyncPlans
<1>6. KnownInv'
  <2>1. row' = row \/ Holds(grant, row')
    BY <1>2, <1>4
  <2>2. failed \in BOOLEAN /\ denied \in BOOLEAN /\ forgotten \in BOOLEAN
    BY <1>1 DEF KnownInv, RequestsOK
  <2> QED
    BY <1>1, <1>2, <1>3, <2>1, <2>2, SameWorld, GoesOnKnown
<1>7. ForgetInv'
  <2>1. ~forgotten
    BY <1>1, <1>2, <1>4 DEF ForgetInv
  <2> QED
    BY <1>1, <1>2, <1>3, <1>4, <2>1, GoesOnForgotten
<1>8. SerialInv'
  <2>1. ~overlapped /\ row' # NoRow => ErrorTrue(grant, denied, row')
    <3>1. ErrorTrue(grant, denied, mem[c].conn)
      BY <1>4 DEF ErrorTrue
    <3> QED
      BY <1>1, <1>2, <3>1 DEF SerialInv
  <2>2. Clean /\ row' # NoRow => Unspent(grant, row')
    <3>1. Clean => Unspent(grant, mem[c].conn)
      BY <1>1, <1>3 DEF SerialInv, CleanKnows
    <3>2. Clean /\ row # NoRow => Unspent(grant, row)
      BY <1>1, <1>2, <1>5, RowNow
    <3> QED
      BY <1>2, <3>1, <3>2
  <2> QED
    BY <1>1, <1>2, <1>3, <2>1, <2>2, SameWorld, NothingLeft, GoesOnSerial
<1> QED
  BY <1>6, <1>7, <1>8 DEF IInv

\* The callback's save brings tokens: it is not given up any more.
LEMMA SaveOwnInv ==
  ASSUME IInv, NEW c \in Requests, SaveOwn(c)
  PROVE  IInv'
<1> DEFINE k == mem[c].conn
<1>1. KnownInv /\ ForgetInv /\ SerialInv /\ denied \in BOOLEAN /\ forgotten \in BOOLEAN
  BY DEF IInv, KnownInv
<1>2. /\ Continue(c, Tail(plan[c]), mem[c]) /\ failed' = failed /\ UNCHANGED world
      /\ UNCHANGED <<denied, forgotten>> /\ At(c, "saveOwn") /\ ~Idle(c)
      /\ row' = Merged(mem[c].db, k)
  BY DEF SaveOwn, SaveAs, Done, Proceed, Rest, ghosts, At, Idle
<1>3. /\ plan[c] = <<"saveOwn">> /\ Tail(plan[c]) = <<>> /\ plan[c] \in StorePlans
      /\ plan[c] \in OwnPlans /\ plan[c] \in ReadPlans
  BY <1>1, <1>2, AtKnows, Readers DEF OwnPlans, StorePlans
<1>4. Holds(grant, k) /\ k.status = "connected" /\ req[c].op = "connect" /\ row # NoRow
  BY <1>1, <1>3, HasKnown
<1>5. ~forgotten
  BY <1>1, <1>2, <1>4 DEF ForgetInv
<1>6. ErrorTrue(grant, denied, k)
  BY <1>4 DEF ErrorTrue
<1>7. Clean => Unspent(grant, k)
  BY <1>1, <1>3 DEF SerialInv, CleanKnows
<1> HIDE DEF k
<1> QED
  BY <1>1, <1>2, <1>3, <1>4, <1>5, <1>6, <1>7, LastSave

\* The disconnection's save: one that is served alone forgets the tokens.
LEMMA SaveRevokedInv ==
  ASSUME IInv, NEW c \in Requests, SaveRevoked(c)
  PROVE  IInv'
<1> DEFINE k == mem[c].conn
<1>1. KnownInv /\ ForgetInv /\ SerialInv /\ denied \in BOOLEAN /\ forgotten \in BOOLEAN
  BY DEF IInv, KnownInv
<1>2. /\ Continue(c, Tail(plan[c]), mem[c]) /\ failed' = failed /\ UNCHANGED world
      /\ UNCHANGED denied /\ At(c, "saveRevoked") /\ ~Idle(c)
      /\ row' = Merged(mem[c].db, k) /\ forgotten' = (forgotten \/ served = mem[c].since)
  BY DEF SaveRevoked, SaveAs, Done, Proceed, Rest, At, Idle
<1>3. /\ plan[c] = <<"saveRevoked">> /\ Tail(plan[c]) = <<>> /\ plan[c] \in RevokePlans
      /\ plan[c] \in ReadPlans
  BY <1>1, <1>2, AtKnows, Readers DEF RevokePlans
<1>4. /\ Holds(grant, k) /\ k.status = "revoked" /\ req[c].op = "disconnect" /\ row # NoRow
      /\ Empty(k)
  BY <1>1, <1>3, HasKnown DEF ForgetInv
<1>5. forgotten' \in BOOLEAN
  BY <1>2, Zenon
<1>6. forgotten' => forgotten \/ \A d \in Requests : d # c => Idle(d)
  BY <1>1, <1>2, <1>4 DEF ForgetInv
<1>7. forgotten' => Empty(row')
  <2>1. Holds(grant, row)
    BY <1>1, <1>4 DEF KnownInv
  <2>2. forgotten => Empty(row')
    BY <1>1, <1>2, <1>4, <2>1, MergedRow DEF ForgetInv
  <2>3. served = mem[c].since => row' = k
    <3>1. served = mem[c].since => mem[c].db = row
      BY <1>1, <1>3, <1>4 DEF ForgetInv
    <3>2. mem[c].db = row => Merged(mem[c].db, k) = k
      BY <1>4, <2>1, MergedRow
    <3> QED
      BY <1>2, <3>1, <3>2
  <2> QED
    BY <1>2, <1>4, <2>2, <2>3
<1>8. ErrorTrue(grant, denied, k)
  BY <1>4 DEF ErrorTrue
<1>9. Unspent(grant, k)
  BY <1>4 DEF Unspent, Empty
<1> HIDE DEF k
<1> QED
  BY <1>1, <1>2, <1>3, <1>4, <1>5, <1>6, <1>7, <1>8, <1>9, LastSave

\* A connection in memory with another status
LEMMA Restated ==
  ASSUME NEW g, NEW k, Holds(g, k), NEW st \in {"connected", "error", "revoked"}
  PROVE  LET n == [k EXCEPT !.status = st] IN
         /\ Holds(g, n) /\ n.status = st /\ n.access = k.access /\ n.refresh = k.refresh
BY DEF Holds, Rows

LEMMA SaveEndInv ==
  ASSUME IInv, NEW c \in Requests, SaveSynced(c) \/ SaveError(c)
  PROVE  IInv'
<1> DEFINE conn == mem[c].conn
<1>1. KnownInv /\ ForgetInv /\ SerialInv /\ denied \in BOOLEAN /\ forgotten \in BOOLEAN
  BY DEF IInv, KnownInv
<1>2. PICK s \in {"saveSynced", "saveKept", "saveError"} :
        At(c, s) /\ (s = "saveError" <=> SaveError(c)) /\ (s # "saveError" <=> SaveSynced(c))
  BY DEF SaveSynced, SaveError, At
<1>3. /\ plan[c] = <<s>> /\ Tail(plan[c]) = <<>> /\ plan[c] \in SyncPlans /\ plan[c] \in ReadPlans
      /\ s = "saveError" => plan[c] \in ErrorPlans
  <2>1. plan[c] = <<s>> /\ Tail(plan[c]) = <<>>
    BY <1>1, <1>2, AtKnows
  <2>2. <<s>> \in EndPlans /\ (s = "saveError" => <<s>> \in ErrorPlans)
    BY DEF EndPlans, SyncedPlans, KeptPlans, ErrorPlans
  <2> QED
    BY <2>1, <2>2, Kinds2, Readers
<1>4. /\ Continue(c, <<>>, mem[c]) /\ failed' = failed /\ UNCHANGED world /\ UNCHANGED forgotten
      /\ ~Idle(c)
  BY <1>2, <1>3 DEF SaveSynced, SaveError, SaveAs, Done, Proceed, Rest, ghosts, At, Idle
<1>5. Holds(grant, conn) /\ row # NoRow /\ mem[c].denied \in BOOLEAN /\ req[c].op = "sync"
  BY <1>1, <1>3, HasKnown
<1>6. PICK st \in {"connected", "error"} :
        /\ row' = Merged(mem[c].db, [conn EXCEPT !.status = st])
        /\ \/ st = "connected" /\ denied' = denied
           \/ st = "error" /\ denied' = mem[c].denied /\ s = "saveError"
  <2>1. CASE SaveSynced(c)
    <3>1. row' = Merged(mem[c].db, [conn EXCEPT !.status = "connected"]) /\ denied' = denied
      BY <2>1 DEF SaveSynced, SaveAs, ghosts
    <3> QED
      BY <3>1, Zenon
  <2>2. CASE SaveError(c)
    <3>1. row' = Merged(mem[c].db, [conn EXCEPT !.status = "error"]) /\ denied' = mem[c].denied
      BY <2>2 DEF SaveError, SaveAs
    <3> QED
      BY <1>2, <2>2, <3>1, Zenon
  <2> QED
    BY <2>1, <2>2
<1> DEFINE k == [conn EXCEPT !.status = st]
<1>7. Holds(grant, k) /\ k.status = st /\ k.access = conn.access /\ k.refresh = conn.refresh
  <2>1. st \in {"connected", "error", "revoked"}
    OBVIOUS
  <2> HIDE DEF conn
  <2> QED
    BY ZenonT(60), <1>5, <2>1, Restated
<1>8. row' = Merged(mem[c].db, k)
  BY <1>6
<1> HIDE DEF k
<1>9. denied' \in BOOLEAN
  BY <1>1, <1>5, <1>6
<1>10. forgotten' => Empty(row')
  <2>1. forgotten => Empty(row) /\ Empty(conn)
    BY <1>1, <1>4 DEF ForgetInv
  <2>2. Holds(grant, row)
    BY <1>1, <1>5 DEF KnownInv
  <2>3. Empty(conn) => Empty(k)
    BY <1>7 DEF Empty
  <2> QED
    BY <1>4, <1>7, <1>8, <2>1, <2>2, <2>3, MergedRow
<1>11. ~overlapped => ErrorTrue(grant, denied', k)
  <2>1. ~overlapped /\ s = "saveError" => Dead(grant, conn) \/ mem[c].denied
    BY <1>1, <1>3 DEF SerialInv, AloneKnows
  <2> QED
    BY <1>6, <1>7, <2>1 DEF ErrorTrue, Dead
<1>12. Clean => Unspent(grant, k)
  <2>1. Clean => Unspent(grant, conn)
    BY <1>1, <1>3 DEF SerialInv, CleanKnows
  <2> QED
    BY <1>7, <2>1 DEF Unspent
<1> QED
  BY <1>1, <1>3, <1>4, <1>5, <1>7, <1>8, <1>9, <1>10, <1>11, <1>12, LastSave

\* The new tokens are saved, and the sync goes on.
LEMMA SaveTokensInv ==
  ASSUME IInv, NEW c \in Requests, SaveTokens(c)
  PROVE  IInv'
<1> DEFINE k == mem[c].conn
<1> DEFINE p == Tail(plan[c])
<1>1. KnownInv /\ ForgetInv /\ SerialInv
  BY DEF IInv
<1>2. /\ Continue(c, p, mem[c]) /\ failed' = failed /\ UNCHANGED world
      /\ UNCHANGED <<denied, forgotten>> /\ At(c, "saveTokens") /\ ~Idle(c)
      /\ row' = Merged(mem[c].db, k)
  BY DEF SaveTokens, SaveAs, Done, Proceed, Rest, ghosts, At, Idle
<1>3. plan[c] \in FreshPlans /\ p \in FetchPlans
  BY <1>1, <1>2, AtKnows
<1> HIDE DEF p
<1>4. /\ plan[c] \in SyncPlans /\ plan[c] \in ReadPlans /\ p \in SyncPlans /\ p # <<>>
      /\ p \notin RefreshPlans \cup TokenPlans \cup SyncedPlans \cup KeptPlans \cup ErrorPlans
      /\ p \notin ReadPlans /\ p # <<"find">> /\ p # <<"saveRevoked">>
  <2>1. plan[c] \in SyncPlans /\ plan[c] \in ReadPlans
    BY <1>3, Kinds2, Readers
  <2>2. p \in SyncPlans /\ p \notin ReadPlans
        /\ p \notin RefreshPlans \cup TokenPlans \cup SyncedPlans \cup KeptPlans \cup ErrorPlans
    BY <1>3, Kinds2, Readers DEF EndPlans
  <2>3. p # <<>> /\ p # <<"find">> /\ p \notin RevokePlans
    BY <2>2, Kinds1
  <2> QED
    BY <2>1, <2>2, <2>3 DEF RevokePlans
<1>5. /\ Holds(grant, k) /\ row # NoRow /\ mem[c].denied \in BOOLEAN /\ req[c].op = "sync"
      /\ DOMAIN mem[c] = {"conn", "db", "worked", "denied"}
  BY <1>1, <1>4, HasKnown
<1>6. Holds(grant, row)
  BY <1>1, <1>5 DEF KnownInv
<1>7. Holds(grant, row') /\ (mem[c].db = row => row' = k) /\ row' # NoRow
      /\ (Empty(row) /\ Empty(k) => Empty(row'))
  BY <1>2, <1>5, <1>6, MergedRow, NotNoRow
<1>8. KnownInv'
  <2>1. Knows(grant, row', p, req[c].op, mem[c])
    BY <1>4, <1>5, <1>7 DEF Knows
  <2>2. failed \in BOOLEAN /\ denied \in BOOLEAN /\ forgotten \in BOOLEAN
    BY <1>1 DEF KnownInv, RequestsOK
  <2> QED
    BY <1>1, <1>2, <1>7, <2>1, <2>2, SameWorld, GoesOnKnown
<1>9. ForgetInv'
  <2>1. forgotten => Empty(row) /\ Empty(k)
    BY <1>1, <1>2 DEF ForgetInv
  <2> QED
    BY <1>1, <1>2, <1>5, <1>7, <2>1, GoesOnForgotten
<1>10. SerialInv'
  <2>1. ~overlapped => row' = k /\ ErrorTrue(grant, denied, k)
    BY <1>1, <1>4, <1>7 DEF SerialInv, AloneKnows
  <2>2. ~overlapped => AloneKnows(grant, row', denied, p, mem[c]) /\ ErrorTrue(grant, denied, row')
    BY <1>4, <2>1 DEF AloneKnows
  <2>3. Clean => Unspent(grant, k)
    BY <1>1, <1>4 DEF SerialInv, CleanKnows
  <2>4. Clean => CleanKnows(provider, grant, accepted, p, mem[c]) /\ Unspent(grant, row')
    BY <1>4, <2>1, <2>3 DEF CleanKnows, Clean
  <2> QED
    BY <1>1, <1>2, <2>2, <2>4, SameWorld, GoesOnSerial
<1> QED
  BY <1>8, <1>9, <1>10 DEF IInv
-----------------------------------------------------------------------------
(* The calls of the provider *)

\* A sync that goes on, with no tokens to save, from a row nobody writes
LEMMA SyncGoesOn ==
  ASSUME IInv, NEW c \in Requests, NEW p, NEW m, Continue(c, p, m), ~Idle(c),
         failed' = failed \/ failed' = TRUE, UNCHANGED world, UNCHANGED <<row, denied, forgotten>>,
         plan[c] \in SyncPlans, plan[c] \notin TokenPlans \/ failed' = TRUE,
         p = <<>> \/ p \in FetchPlans \cup RefreshPlans \cup
                          {<<"reread", "saveSynced">>, <<"reread", "saveKept">>, <<"reread", "saveError">>},
         p # <<>> => /\ DOMAIN m = {"conn", "db", "worked", "denied"}
                     /\ m.conn = mem[c].conn /\ m.denied \in BOOLEAN,
         p \in RefreshPlans => mem[c].conn.refresh # None,
         p = <<"reread", "saveError">> => Dead(grant, mem[c].conn) \/ m.denied,
         p = <<"reread", "saveSynced">> /\ provider.classifies =>
           mem[c].conn.access \in accepted /\ m.worked = mem[c].conn.access,
         p = <<"reread", "saveKept">> /\ ~failed' => ~provider.classifies
  PROVE  IInv'
<1>1. KnownInv /\ ForgetInv /\ SerialInv
  BY DEF IInv
<1>2. /\ Holds(grant, mem[c].conn) /\ row # NoRow /\ req[c].op = "sync"
  BY <1>1, HasKnown
<1>3. failed' \in BOOLEAN /\ denied \in BOOLEAN /\ forgotten \in BOOLEAN
  BY <1>1 DEF KnownInv, RequestsOK
<1>4. p # <<>> =>
        /\ p \in SyncPlans /\ p \notin ReadPlans /\ p \notin TokenPlans
        /\ p # <<"find">> /\ p # <<"saveRevoked">>
        /\ p \in ErrorPlans => p = <<"reread", "saveError">>
        /\ p \in SyncedPlans => p = <<"reread", "saveSynced">>
        /\ p \in KeptPlans => p = <<"reread", "saveKept">>
  <2>1. /\ <<"reread", "saveSynced">> \in SyncedPlans /\ <<"reread", "saveKept">> \in KeptPlans
        /\ <<"reread", "saveError">> \in ErrorPlans
    BY DEF SyncedPlans, KeptPlans, ErrorPlans
  <2>2. ASSUME p # <<>> PROVE p \notin ReadPlans
    BY <2>2, Readers
  <2>3. ASSUME p # <<>> PROVE p \in SyncPlans /\ p \notin TokenPlans
    BY <2>1, <2>3, Kinds2
  <2>4. ASSUME p # <<>> PROVE p # <<"find">> /\ p # <<"saveRevoked">>
    BY <2>2, <2>3, <2>4, Kinds1, Readers
  <2>5. \A q \in FetchPlans \cup RefreshPlans : q \notin ErrorPlans \cup SyncedPlans \cup KeptPlans
    BY Kinds2 DEF EndPlans
  <2>6. /\ \A q \in SyncedPlans : q \notin KeptPlans \cup ErrorPlans
        /\ \A q \in KeptPlans : q \notin SyncedPlans \cup ErrorPlans
        /\ \A q \in ErrorPlans : q \notin SyncedPlans \cup KeptPlans
    BY Kinds2
  <2> QED
    BY <2>1, <2>2, <2>3, <2>4, <2>5, <2>6
<1>5. KnownInv'
  <2>1. p = <<>> \/ Knows(grant, row, p, req[c].op, m)
    BY <1>2, <1>4 DEF Knows
  <2> QED
    BY <1>1, <1>3, <2>1, SameWorld, GoesOnKnown
<1>6. ForgetInv'
  <2>1. forgotten => row # NoRow /\ Empty(row) /\ Empty(mem[c].conn)
    BY <1>1 DEF ForgetInv
  <2> QED
    BY <1>1, <1>2, <2>1, GoesOnForgotten
<1>7. SerialInv'
  <2>1. ~overlapped => /\ ErrorTrue(grant, denied, mem[c].conn)
                       /\ row # NoRow => ErrorTrue(grant, denied, row)
    BY <1>1 DEF SerialInv, AloneKnows
  <2>2. ~overlapped => AloneKnows(grant, row, denied, p, m)
    <3>1. CASE p = <<>>
      BY <3>1, NothingLeft
    <3>2. CASE p # <<>>
      BY <1>4, <2>1, <3>2 DEF AloneKnows
    <3> QED
      BY <3>1, <3>2
  <2>3. Clean => Unspent(grant, mem[c].conn)
    BY <1>1 DEF SerialInv, CleanKnows
  <2>4. Clean /\ ~failed' => CleanKnows(provider, grant, accepted, p, m)
    <3>1. CASE p = <<>>
      BY <3>1, NothingLeft
    <3>2. CASE p # <<>>
      BY <1>4, <2>3, <3>2 DEF CleanKnows
    <3> QED
      BY <3>1, <3>2
  <2>5. Clean /\ ~failed' => Unspent(grant, row)
    BY <1>1, <1>2, RowNow
  <2> QED
    BY <1>1, <2>1, <2>2, <2>4, <2>5, SameWorld, GoesOnSerial
<1> QED
  BY <1>5, <1>6, <1>7 DEF IInv

\* What a refusal does
LEMMA RefusedPlans ==
  /\ Refused \in {<<>>, <<"reread", "saveKept">>, <<"reread", "saveError">>}
  /\ Refused = <<"reread", "saveKept">> => ~provider.classifies
  /\ provider.classifies => Refused = <<"reread", "saveError">>
<1>1. <<"reread", "saveKept">> # <<"reread", "saveError">> /\ <<>> # <<"reread", "saveKept">>
  OBVIOUS
<1> QED
  BY <1>1, Zenon DEF Refused, Kept

\* What a sync has in memory before a call of the provider
LEMMA Calling ==
  ASSUME IInv, NEW c \in Requests, NEW s \in {"refresh", "fetch", "fetchAgain"}, At(c, s)
  PROVE  /\ plan[c] \in SyncPlans /\ plan[c] \notin TokenPlans /\ ~Idle(c)
         /\ req[c].op = "sync" /\ row # NoRow /\ Holds(grant, mem[c].conn)
         /\ DOMAIN mem[c] = {"conn", "db", "worked", "denied"} /\ mem[c].denied \in BOOLEAN
         /\ s = "refresh" => /\ plan[c] \in RefreshPlans /\ Tail(plan[c]) \in StalePlans
                             /\ mem[c].conn.refresh # None /\ Given(grant, mem[c].conn.refresh)
         /\ s # "refresh" => plan[c] \in FetchPlans /\ Tail(plan[c]) = <<>>
<1>1. KnownInv /\ ~Idle(c)
  BY DEF IInv, At, Idle
<1>2. /\ s = "refresh" => plan[c] \in RefreshPlans /\ Tail(plan[c]) \in StalePlans
      /\ s # "refresh" => plan[c] = <<s>> /\ Tail(plan[c]) = <<>>
  BY <1>1, AtKnows
<1>3. s # "refresh" => plan[c] \in FetchPlans
  BY <1>2 DEF FetchPlans
<1>4. plan[c] \in SyncPlans /\ plan[c] \notin TokenPlans
  BY <1>2, <1>3, Kinds2
<1>5. /\ DOMAIN mem[c] = {"conn", "db", "worked", "denied"} /\ Holds(grant, mem[c].conn)
      /\ mem[c].denied \in BOOLEAN /\ row # NoRow /\ req[c].op = "sync"
      /\ plan[c] \in RefreshPlans => mem[c].conn.refresh # None
  BY <1>1, <1>4, HasKnown
<1> QED
  BY <1>1, <1>2, <1>3, <1>4, <1>5 DEF Holds

\* The refresh of the tokens: what is refused is dead, and what is given is not
\* yet saved.
LEMMA RefreshInv ==
  ASSUME IInv, NEW c \in Requests, Refresh(c)
  PROVE  IInv'
<1> DEFINE conn == mem[c].conn
<1>1. KnownInv /\ ForgetInv /\ SerialInv /\ failed \in BOOLEAN /\ denied \in BOOLEAN /\ forgotten \in BOOLEAN
  BY DEF IInv, KnownInv, RequestsOK
<1>2. At(c, "refresh") /\ UNCHANGED <<row, denied, forgotten>>
  BY DEF Refresh, ghosts
<1>3. /\ plan[c] \in SyncPlans /\ plan[c] \notin TokenPlans /\ ~Idle(c)
      /\ req[c].op = "sync" /\ row # NoRow /\ Holds(grant, conn)
      /\ DOMAIN mem[c] = {"conn", "db", "worked", "denied"} /\ mem[c].denied \in BOOLEAN
      /\ plan[c] \in RefreshPlans /\ Tail(plan[c]) \in StalePlans
      /\ conn.refresh # None /\ Given(grant, conn.refresh)
  BY <1>2, Calling
<1>4. CASE grant[conn.refresh] # "live"
  <2>1. Continue(c, Refused, mem[c]) /\ UNCHANGED world /\ failed' = failed
    BY <1>4 DEF Refresh
  <2>2. Dead(grant, conn)
    BY <1>4 DEF Dead
  <2> DEFINE p == Refused
  <2>3. /\ p \in {<<>>, <<"reread", "saveKept">>, <<"reread", "saveError">>}
        /\ p = <<"reread", "saveKept">> => ~provider.classifies
        /\ p # <<"reread", "saveSynced">> /\ p \notin RefreshPlans
    <3>1. p \in {<<>>, <<"reread", "saveKept">>, <<"reread", "saveError">>}
      BY RefusedPlans
    <3>2. <<"reread", "saveKept">> # <<"reread", "saveSynced">>
          /\ <<"reread", "saveError">> # <<"reread", "saveSynced">> /\ <<>> # <<"reread", "saveSynced">>
      OBVIOUS
    <3>3. \A q \in RefreshPlans : Head(q) = "refresh" /\ Len(q) # 0
      BY Heads, PlanEnds
    <3> HIDE DEF p
    <3> QED
      BY <3>1, <3>2, <3>3, Heads, PlanEnds, RefusedPlans DEF p
  <2> HIDE DEF p
  <2>4. Continue(c, p, mem[c])
    BY <2>1 DEF p
  <2> QED
    BY <1>2, <1>3, <2>1, <2>2, <2>3, <2>4, SyncGoesOn
<1>5. CASE grant[conn.refresh] = "live"
  <2> DEFINE r == NextRefresh(conn.refresh, Number)
  <2> DEFINE k == [conn EXCEPT !.access = Number, !.until = Number, !.refresh = r]
  <2> DEFINE m == [mem[c] EXCEPT !.conn = k]
  <2> DEFINE p == Tail(plan[c])
  <2>1. Renew(conn.refresh) /\ Continue(c, p, m) /\ failed' = failed
    <3>1. k = [conn EXCEPT !.access = Number, !.until = Number, !.refresh = NextRefresh(@, Number)]
      BY <1>3 DEF Holds, Rows
    <3> QED
      BY <1>5, <3>1 DEF Refresh, Proceed, Rest
  <2>2. /\ Grows(grant, grant') /\ Number \in DOMAIN grant' /\ Number # None
        /\ Number \notin DOMAIN grant /\ r # None /\ Given(grant', r) /\ grant'[r] = "live"
        /\ \A t \in DOMAIN grant : grant[t] # "live" => grant'[t] # "live"
        /\ accepted' = accepted \cup {Number} /\ accepted' \subseteq DOMAIN grant'
        /\ UNCHANGED <<provider, expired>>
    BY <1>1, <1>3, <1>5, <2>1, RenewFacts
  <2>3. /\ k.access = Number /\ k.refresh = r /\ k.until = Number /\ k.status = conn.status
        /\ DOMAIN k = {"access", "refresh", "until", "status"}
    BY <1>3 DEF Holds, Rows
  <2>4. m.conn = k /\ m.denied = mem[c].denied /\ DOMAIN m = {"conn", "db", "worked", "denied"}
    BY <1>3
  <2>5. Holds(grant', k)
    <3>1. k \in Rows(grant')
      BY <1>3, <2>2 DEF Holds, Rows, Given
    <3> QED
      BY <2>2, <2>3, <3>1 DEF Holds
  <2>6. p \in StalePlans
    BY <1>3
  <2>7. /\ p \in SyncPlans /\ p \in TokenPlans /\ p # <<>> /\ p \notin ReadPlans
        /\ p \notin RefreshPlans \cup SyncedPlans \cup KeptPlans \cup ErrorPlans
        /\ p # <<"find">> /\ p # <<"saveRevoked">>
    <3> HIDE DEF p
    <3>1. p \in SyncPlans /\ p \in TokenPlans /\ p \notin ReadPlans
          /\ p \notin RefreshPlans \cup SyncedPlans \cup KeptPlans \cup ErrorPlans
      BY <2>6, Kinds2, Readers DEF EndPlans
    <3>2. p # <<>> /\ p # <<"find">> /\ p \notin RevokePlans
      BY <3>1, Kinds1
    <3> QED
      BY <3>1, <3>2 DEF RevokePlans
  <2> HIDE DEF m, k, p, r
  <2>8. KnownInv'
    <3>1. Knows(grant', row', p, req[c].op, m)
      BY <1>2, <1>3, <2>4, <2>5, <2>7 DEF Knows
    <3>2. expired' \subseteq DOMAIN grant'
      BY <1>1, <2>2 DEF KnownInv, Tokens, Grows
    <3> QED
      BY <1>1, <1>2, <2>1, <2>2, <3>1, <3>2, GoesOnKnown
  <2>9. ForgetInv'
    <3>1. ~forgotten
      BY <1>1, <1>3 DEF ForgetInv, Empty
    <3> QED
      BY <1>1, <1>2, <1>3, <2>1, <3>1, GoesOnForgotten
  <2>10. SerialInv'
    <3>1. row.refresh # None => row.refresh \in DOMAIN grant
      BY <1>1, <1>3 DEF KnownInv, Holds, Given
    <3>2. ~overlapped => ErrorTrue(grant, denied, conn) /\ ErrorTrue(grant, denied, row)
      BY <1>1, <1>3 DEF SerialInv, AloneKnows
    <3>3. ~overlapped => ErrorTrue(grant', denied, row)
      BY <2>2, <3>1, <3>2 DEF ErrorTrue, Dead
    <3>4. ~overlapped => ErrorTrue(grant', denied, k)
      BY <1>3, <1>5, <2>3, <3>2 DEF ErrorTrue, Dead
    <3>5. ~overlapped => AloneKnows(grant', row', denied', p, m)
      BY <1>2, <2>4, <2>7, <3>4 DEF AloneKnows
    <3>6. CleanKnows(provider', grant', accepted', p, m)
      BY <2>2, <2>3, <2>4, <2>7 DEF CleanKnows, Unspent
    <3> QED
      BY <1>1, <1>2, <1>3, <2>1, <2>7, <3>3, <3>5, <3>6, GoesOnSerial
  <2> QED
    BY <2>8, <2>9, <2>10 DEF IInv
<1> QED
  BY <1>4, <1>5

\* The call of the provider: it works, or it is refused and the sync refreshes, or
\* gives up.
LEMMA FetchInv ==
  ASSUME IInv, NEW c \in Requests, Fetch(c) \/ FetchAgain(c) \/ Denied(c)
  PROVE  IInv'
<1> DEFINE conn == mem[c].conn
<1>1. PICK s \in {"refresh", "fetch", "fetchAgain"} :
        /\ At(c, s)
        /\ s = "refresh" => Denied(c)
  BY DEF Fetch, FetchAgain, Denied
<1>2. /\ plan[c] \in SyncPlans /\ plan[c] \notin TokenPlans /\ ~Idle(c)
      /\ DOMAIN mem[c] = {"conn", "db", "worked", "denied"} /\ mem[c].denied \in BOOLEAN
      /\ s # "refresh" => Tail(plan[c]) = <<>>
  BY <1>1, Calling
<1>3. UNCHANGED world /\ UNCHANGED <<row, denied, forgotten>> /\ failed' = failed
  BY DEF Fetch, FetchAgain, Denied, Synced, Turn, ghosts
<1> DEFINE worked == [mem[c] EXCEPT !.worked = conn.access]
<1> DEFINE refused == [mem[c] EXCEPT !.denied = TRUE]
<1>4. /\ worked.conn = conn /\ worked.worked = conn.access /\ worked.denied = mem[c].denied
      /\ refused.conn = conn /\ refused.denied = TRUE
      /\ DOMAIN worked = DOMAIN mem[c] /\ DOMAIN refused = DOMAIN mem[c]
  BY <1>2
\* The four ways to go on
<1>5. PICK p, m :
        /\ Continue(c, p, m)
        /\ \/ p = <<"reread", "saveSynced">> /\ m = worked /\ Works(c)
           \/ p \in RefreshPlans /\ m = mem[c] /\ conn.refresh # None
           \/ p = <<"reread", "saveError">> /\ m = mem[c] /\ conn.refresh = None
           \/ p = Refused /\ m = refused
  <2> HIDE DEF worked, refused
  <2>1. /\ <<"reread", "saveSynced">> \in SyncPlans /\ <<"reread", "saveError">> \in SyncPlans
        /\ <<"reread", "saveKept">> \in SyncPlans
    BY DEF SyncPlans, EndPlans, SyncedPlans, ErrorPlans, KeptPlans
  <2>2. CASE Denied(c)
    <3>1. Continue(c, Refused, refused)
      BY <2>2 DEF Denied, refused
    <3> QED
      BY <3>1
  <2>3. CASE (Fetch(c) \/ FetchAgain(c)) /\ Works(c)
    <3>1. Synced(c) /\ Tail(plan[c]) = <<>>
      <4>1. At(c, "fetch") \/ At(c, "fetchAgain")
        BY <2>3 DEF Fetch, FetchAgain
      <4>2. Tail(plan[c]) = <<>>
        BY <4>1, Calling
      <4> QED
        BY <2>3, <4>2 DEF Fetch, FetchAgain
    <3>2. Continue(c, <<"reread", "saveSynced">> \o <<>>, worked)
      BY <3>1 DEF Synced, Turn, worked
    <3>3. Continue(c, <<"reread", "saveSynced">>, worked)
      BY <2>1, <3>2, NothingAfter
    <3> QED
      BY <2>3, <3>3
  <2>4. CASE Fetch(c) /\ ~Works(c)
    <3> DEFINE q == Fresh(conn, TRUE, <<"fetchAgain">>)
    <3>1. Tail(plan[c]) = <<>>
      <4>1. At(c, "fetch")
        BY <2>4 DEF Fetch
      <4> QED
        BY <4>1, Calling
    <3>2. Continue(c, q \o <<>>, mem[c])
      BY <2>4, <3>1 DEF Fetch, Turn
    <3>3. \/ q = <<"reread", "saveError">> /\ conn.refresh = None
          \/ q \in RefreshPlans /\ conn.refresh # None
      BY FreshPlan DEF FetchPlans
    <3> HIDE DEF q
    <3>4. q \in SyncPlans
      BY <2>1, <3>3, Kinds2
    <3>5. Continue(c, q, mem[c])
      BY <3>2, <3>4, NothingAfter
    <3> QED
      BY <3>3, <3>5
  <2>5. CASE FetchAgain(c) /\ ~Works(c)
    <3>1. Tail(plan[c]) = <<>>
      <4>1. At(c, "fetchAgain")
        BY <2>5 DEF FetchAgain
      <4> QED
        BY <4>1, Calling
    <3>2. Continue(c, Refused \o <<>>, refused)
      BY <2>5, <3>1 DEF FetchAgain, Turn, refused
    <3>3. Refused \in SyncPlans \cup {<<>>}
      BY <2>1, RefusedPlans
    <3>4. Continue(c, Refused, refused)
      BY <3>2, <3>3, NothingAfter
    <3> QED
      BY <3>4
  <2> QED
    BY <2>2, <2>3, <2>4, <2>5
<1> HIDE DEF worked, refused
<1>6. /\ <<"reread", "saveSynced">> # <<"reread", "saveKept">>
      /\ <<"reread", "saveSynced">> # <<"reread", "saveError">>
      /\ <<"reread", "saveKept">> # <<"reread", "saveError">>
      /\ <<"reread", "saveSynced">> # <<>> /\ <<"reread", "saveKept">> # <<>> /\ <<"reread", "saveError">> # <<>>
  OBVIOUS
<1>7. \A q \in RefreshPlans : Head(q) = "refresh" /\ q # <<>>
  BY Heads, PlanEnds
<1>8. \A q \in RefreshPlans : q # <<"reread", "saveSynced">> /\ q # <<"reread", "saveKept">>
                              /\ q # <<"reread", "saveError">>
  BY <1>7, Heads
<1>9. Works(c) /\ provider.classifies => conn.access \in accepted
  <2>1. provider.classifies => ~provider.stub
    BY KindAssumption DEF IInv, KnownInv
  <2> QED
    BY <2>1 DEF Works
<1>10. CASE p = <<"reread", "saveSynced">> /\ m = worked /\ Works(c)
  BY <1>2, <1>3, <1>4, <1>5, <1>6, <1>8, <1>9, <1>10, SyncGoesOn
<1>11. CASE p \in RefreshPlans /\ m = mem[c] /\ conn.refresh # None
  BY <1>2, <1>3, <1>5, <1>8, <1>11, SyncGoesOn
<1>12. CASE p = <<"reread", "saveError">> /\ m = mem[c] /\ conn.refresh = None
  <2>1. Dead(grant, conn)
    BY <1>12 DEF Dead
  <2> QED
    BY <1>2, <1>3, <1>5, <1>6, <1>8, <1>12, <2>1, SyncGoesOn
<1>13. CASE p = Refused /\ m = refused
  <2>1. /\ p \in {<<>>, <<"reread", "saveKept">>, <<"reread", "saveError">>}
        /\ p = <<"reread", "saveKept">> => ~provider.classifies
        /\ p # <<"reread", "saveSynced">> /\ p \notin RefreshPlans
    BY <1>6, <1>7, <1>8, <1>13, RefusedPlans
  <2> QED
    BY <1>2, <1>3, <1>4, <1>5, <1>13, <2>1, SyncGoesOn
<1> QED
  BY <1>5, <1>10, <1>11, <1>12, <1>13

\* A fault: the request ends, or a sync keeps the connection it has.
LEMMA FaultInv ==
  ASSUME IInv, NEW c \in Requests, Fault(c)
  PROVE  IInv'
<1> DEFINE conn == mem[c].conn
<1>1. KnownInv /\ ForgetInv /\ SerialInv /\ denied \in BOOLEAN /\ forgotten \in BOOLEAN
  BY DEF IInv, KnownInv
<1>2. ~Idle(c) /\ failed' = TRUE /\ UNCHANGED <<row, denied, forgotten>>
  BY DEF Fault, Transient, AnswerLost, Fail, Break, At, Idle, ghosts
<1> DEFINE p == <<"reread", "saveKept">>
<1>3. /\ p \in KeptPlans /\ p \in SyncPlans /\ p # <<>> /\ p # <<"reread", "saveSynced">>
      /\ p # <<"reread", "saveError">> /\ p \notin ErrorPlans /\ p \notin RefreshPlans /\ p \notin ReadPlans
      /\ p # <<"saveRevoked">>
  <2>1. p \in KeptPlans
    BY DEF KeptPlans
  <2>2. p \in SyncPlans /\ p \notin ErrorPlans /\ p \notin RefreshPlans
    BY <2>1, Kinds2
  <2>3. p # <<>> /\ p # <<"reread", "saveSynced">> /\ p # <<"reread", "saveError">>
        /\ p # <<"saveRevoked">>
    OBVIOUS
  <2>4. p \notin ReadPlans
    BY Readers
  <2> QED
    BY <2>1, <2>2, <2>3, <2>4
<1>4. CASE Fail(c)
  <2>1. Continue(c, <<>>, <<>>) /\ UNCHANGED world
    BY <1>4 DEF Fail, Break
  <2>2. KnownInv'
    BY <1>1, <1>2, <2>1, SameWorld, GoesOnKnown
  <2>3. ForgetInv'
    <3>1. forgotten => row # NoRow /\ Empty(row)
      BY <1>1 DEF ForgetInv
    <3> QED
      BY <1>1, <1>2, <2>1, <3>1, GoesOnForgotten
  <2>4. SerialInv'
    <3>1. ~overlapped /\ row # NoRow => ErrorTrue(grant, denied, row)
      BY <1>1 DEF SerialInv
    <3>2. AloneKnows(grant', row', denied', <<>>, <<>>)
      BY NothingLeft
    <3> QED
      BY <1>1, <1>2, <2>1, <3>1, <3>2, SameWorld, NothingLeft, GoesOnSerial
  <2> QED
    BY <2>2, <2>3, <2>4 DEF IInv
<1>5. CASE Transient(c)
  <2>1. Continue(c, p, mem[c]) /\ UNCHANGED world
    BY <1>5 DEF Transient, Kept
  <2>2. plan[c] \in SyncPlans
    <3>1. PICK s \in {"refresh", "saveTokens", "saveSynced", "fetch", "fetchAgain"} : At(c, s)
      BY <1>5 DEF Transient
    <3>2. CASE s \in {"refresh", "fetch", "fetchAgain"}
      BY <3>1, <3>2, Calling
    <3>3. CASE s = "saveTokens"
      BY <1>1, <3>1, <3>3, AtKnows, Kinds2
    <3>4. CASE s = "saveSynced"
      <4>1. plan[c] = <<"saveSynced">>
        BY <1>1, <3>1, <3>4, AtKnows
      <4>2. plan[c] \in SyncedPlans
        BY <4>1 DEF SyncedPlans
      <4> QED
        BY <4>2, Kinds2
    <3> QED
      BY <3>1, <3>2, <3>3, <3>4
  <2>3. DOMAIN mem[c] = {"conn", "db", "worked", "denied"} /\ mem[c].denied \in BOOLEAN
    BY <1>1, <2>2, HasKnown
  <2> HIDE DEF p
  <2>4. p = <<"reread", "saveKept">>
    BY DEF p
  <2> QED
    BY <1>2, <1>3, <2>1, <2>2, <2>3, <2>4, SyncGoesOn
<1>6. CASE AnswerLost(c)
  <2>1. /\ Continue(c, p, mem[c]) /\ Renew(conn.refresh) /\ grant[conn.refresh] = "live"
        /\ At(c, "refresh")
    BY <1>6 DEF AnswerLost, Kept
  <2>2. /\ plan[c] \in SyncPlans /\ req[c].op = "sync" /\ row # NoRow /\ Holds(grant, conn)
        /\ DOMAIN mem[c] = {"conn", "db", "worked", "denied"} /\ mem[c].denied \in BOOLEAN
        /\ conn.refresh # None /\ Given(grant, conn.refresh)
    BY <2>1, Calling
  <2>3. /\ Grows(grant, grant') /\ accepted' \subseteq DOMAIN grant'
        /\ \A t \in DOMAIN grant : grant[t] # "live" => grant'[t] # "live"
        /\ UNCHANGED <<provider, expired>>
    BY <1>1, <2>1, <2>2, RenewFacts
  <2> HIDE DEF p
  <2>4. KnownInv'
    <3>3. Holds(grant', conn)
      BY <2>2, <2>3, StillKnown
    <3>1. Knows(grant', row', p, req[c].op, mem[c])
      BY <1>2, <1>3, <2>2, <3>3 DEF Knows
    <3>2. expired' \subseteq DOMAIN grant'
      BY <1>1, <2>3 DEF KnownInv, Tokens, Grows
    <3> QED
      BY <1>1, <1>2, <2>1, <2>3, <3>1, <3>2, GoesOnKnown
  <2>5. ForgetInv'
    <3>1. ~forgotten
      BY <1>1, <1>2, <2>2 DEF ForgetInv, Empty
    <3> QED
      BY <1>1, <1>2, <2>1, <2>2, <3>1, GoesOnForgotten
  <2>6. SerialInv'
    <3>1. row.refresh # None => row.refresh \in DOMAIN grant
      BY <1>1, <2>2 DEF KnownInv, Holds, Given
    <3>2. ~overlapped => ErrorTrue(grant, denied, conn) /\ ErrorTrue(grant, denied, row)
      BY <1>1, <2>2 DEF SerialInv, AloneKnows
    <3>3. ~overlapped => ErrorTrue(grant', denied, row)
      BY <2>3, <3>1, <3>2 DEF ErrorTrue, Dead
    <3>4. ~overlapped => ErrorTrue(grant', denied, conn)
      BY <2>1, <2>2, <2>3, <3>2 DEF ErrorTrue, Dead, Given
    <3>5. ~overlapped => AloneKnows(grant', row', denied', p, mem[c])
      BY <1>2, <1>3, <3>4 DEF AloneKnows
    <3> QED
      BY <1>1, <1>2, <2>1, <3>3, <3>5, GoesOnSerial
  <2> QED
    BY <2>4, <2>5, <2>6 DEF IInv
<1> QED
  BY <1>4, <1>5, <1>6 DEF Fault

\* The access token of the row dies: no sync counts on it to have worked.
LEMMA AgeInv ==
  ASSUME IInv, Age
  PROVE  IInv'
<1>0. KnownInv /\ ForgetInv /\ SerialInv
  BY DEF IInv
<1>1. /\ row # NoRow /\ row.access \in accepted /\ accepted' = accepted \ {row.access}
      /\ expired' \subseteq DOMAIN grant
      /\ UNCHANGED <<provider, grant, row, denied, forgotten, plan, req, mem, served, overlapped, failed>>
  BY <1>0 DEF Age, requestVars, ghosts, KnownInv, Tokens
<1>2. KnownInv'
  BY <1>0, <1>1 DEF KnownInv, RequestsOK, Tokens
<1>3. ForgetInv'
  BY <1>0, <1>1 DEF ForgetInv, Idle
<1>4. ASSUME NEW c \in Requests, CleanKnows(provider, grant, accepted, plan[c], mem[c])
      PROVE  CleanKnows(provider, grant, accepted', plan[c], mem[c])
  <2>1. plan[c] \in SyncedPlans => req[c].op = "sync"
    BY <1>0, HasKnown, Kinds2
  <2>2. plan[c] \in SyncedPlans => mem[c].worked # row.access
    BY <2>1 DEF Age
  <2> QED
    BY <1>1, <1>4, <2>2 DEF CleanKnows
<1>5. SerialInv'
  BY <1>0, <1>1, <1>4 DEF SerialInv, Alone, Idle, Clean
<1> QED
  BY <1>2, <1>3, <1>5 DEF IInv

\* No request is under way when the consent is withdrawn, or it has overlapped.
LEMMA WithdrawInv ==
  ASSUME IInv, Withdraw
  PROVE  IInv'
<1> DEFINE left(t) == IF grant[t] = "live" THEN "withdrawn" ELSE grant[t]
<1>0. KnownInv /\ ForgetInv /\ SerialInv
  BY DEF IInv
<1>1. /\ accepted' = {} /\ grant' = [t \in DOMAIN grant |-> left(t)]
      /\ served' = served + 1 /\ served < MaxServed /\ overlapped' = (overlapped \/ ~Quiet)
      /\ UNCHANGED <<provider, expired, row, denied, forgotten, plan, req, mem, failed>>
  BY DEF Withdraw, Instant, Tokens, ghosts
<1>2. Grows(grant, grant')
  <2>1. grant \in Seq(GrantStates)
    BY <1>0 DEF KnownInv
  <2>2. Len(grant) \in Nat /\ DOMAIN grant = 1..Len(grant) /\ \A t \in DOMAIN grant : left(t) \in GrantStates
    BY <2>1 DEF GrantStates
  <2>3. grant' \in Seq(GrantStates)
    BY <1>1, <2>2
  <2> QED
    BY <1>1, <2>1, <2>3 DEF Grows
<1>3. KnownInv'
  <2>1. RequestsOK'
    <3>1. overlapped' \in BOOLEAN
      BY <1>1, Zenon DEF Quiet
    <3>2. served' \in 0..MaxServed
      BY <1>0, <1>1, RequestAssumption DEF KnownInv, RequestsOK
    <3> QED
      BY <1>0, <1>1, <3>1, <3>2 DEF KnownInv, RequestsOK
  <2>2. \A c \in Requests : Knows(grant', row', plan'[c], req'[c].op, mem'[c])
    <3>1. \A c \in Requests : Knows(grant, row, plan[c], req[c].op, mem[c])
      BY <1>0 DEF KnownInv
    <3>2. \A p, o, m : Knows(grant, row, p, o, m) => Knows(grant', row', p, o, m)
      BY <1>1, <1>2, StillKnown
    <3> QED
      BY <1>1, <3>1, <3>2
  <2>3. row' = NoRow \/ Holds(grant', row')
    <3>1. row = NoRow \/ Holds(grant, row)
      BY <1>0 DEF KnownInv
    <3>2. \A k : Holds(grant, k) => Holds(grant', k)
      BY <1>2, StillKnown
    <3> QED
      BY <1>1, <3>1, <3>2
  <2>4. expired' \subseteq DOMAIN grant'
    BY <1>0, <1>1, <1>2 DEF KnownInv, Grows, Tokens
  <2> QED
    BY <1>0, <1>1, <1>2, <2>1, <2>2, <2>3, <2>4 DEF KnownInv, Grows, Tokens
<1>4. ForgetInv'
  <2>1. ASSUME NEW d \in Requests, req'[d].op = "disconnect"
        PROVE  /\ Empty(mem'[d].conn) /\ mem'[d].since \in 0..served' /\ mem'[d].since # served'
    <3>1. Empty(mem[d].conn) /\ mem[d].since \in 0..served
      BY <1>0, <1>1, <2>1 DEF ForgetInv
    <3>2. served \in Nat
      BY <1>0, RequestAssumption DEF KnownInv, RequestsOK
    <3>3. mem[d].since \in 0..(served + 1) /\ mem[d].since # served + 1
      BY <3>1, <3>2
    <3> QED
      BY <1>1, <3>1, <3>3
  <2> QED
    BY <1>0, <1>1, <2>1 DEF ForgetInv, Idle
<1>5. ASSUME ~overlapped'
      PROVE  ~overlapped /\ \A c \in Requests : plan[c] = <<>>
  BY <1>1, <1>5 DEF Quiet, Idle
<1>6. row # NoRow /\ row.refresh # None => row.refresh \in DOMAIN grant
  BY <1>0 DEF KnownInv, Holds, Given
<1>7. ~overlapped' => /\ Alone'
                      /\ row' # NoRow => ErrorTrue(grant', denied', row')
                      /\ \A c \in Requests : AloneKnows(grant', row', denied', plan'[c], mem'[c])
  <2>1. ~overlapped' /\ row # NoRow => ErrorTrue(grant, denied, row)
    BY <1>0, <1>5 DEF SerialInv
  <2>2. ~overlapped' /\ row' # NoRow => ErrorTrue(grant', denied', row')
    BY <1>1, <1>6, <2>1 DEF ErrorTrue, Dead
  <2>3. ~overlapped' => Alone'
    BY <1>1, <1>5 DEF Alone, Idle
  <2> QED
    BY <1>1, <1>5, <2>2, <2>3, NothingLeft
<1>8. Clean' => /\ row' # NoRow => Unspent(grant', row')
                /\ \A c \in Requests : CleanKnows(provider', grant', accepted', plan'[c], mem'[c])
  <2>1. Clean' => Clean /\ ~overlapped'
    BY <1>1, <1>5 DEF Clean
  <2>2. <<>> \notin TokenPlans
    BY Kinds1 DEF SyncPlans
  <2>3. Clean' /\ row # NoRow => Unspent(grant, row)
    BY <1>0, <1>5, <2>1, <2>2 DEF SerialInv
  <2>4. Clean' /\ row' # NoRow => Unspent(grant', row')
    BY <1>1, <1>6, <2>3 DEF Unspent
  <2> QED
    BY <1>1, <1>5, <2>1, <2>4, NothingLeft
<1> QED
  BY <1>3, <1>4, <1>7, <1>8 DEF SerialInv, IInv

LEMMA InitInv == Init => IInv
<1> SUFFICES ASSUME Init PROVE IInv
  OBVIOUS
<1>1. grant \in Seq(GrantStates) /\ denied = FALSE /\ forgotten = FALSE /\ row = NoRow
  BY DEF Init
<1>2. \A c \in Requests : plan[c] = <<>> /\ req[c].op = "none"
  BY DEF Init, InitRequests, NoRequest
<1>3. KnownInv
  <2>1. RequestsOK
    <3>1. overlapped \in BOOLEAN /\ failed \in BOOLEAN
      BY Zenon DEF Init, InitRequests
    <3>2. served \in 0..MaxServed
      BY RequestAssumption DEF Init, InitRequests
    <3> QED
      BY <3>1, <3>2 DEF Init, InitRequests, RequestsOK
  <2>2. \A c \in Requests : Knows(grant, row, plan[c], req[c].op, mem[c])
    BY <1>2 DEF Knows
  <2> QED
    BY <1>1, <2>1, <2>2 DEF Init, KnownInv
<1>4. ForgetInv
  BY <1>1, <1>2 DEF ForgetInv
<1>5. SerialInv
  BY <1>1, <1>2, NothingLeft DEF SerialInv, Alone, Idle
<1> QED
  BY <1>3, <1>4, <1>5 DEF IInv

LEMMA NextInv == IInv /\ [Next]_vars => IInv'
<1> SUFFICES ASSUME IInv, [Next]_vars PROVE IInv'
  OBVIOUS
<1>1. CASE UNCHANGED vars
  <2>1. UNCHANGED <<provider, grant, accepted, expired, row, denied, forgotten, plan, req, mem,
                    served, overlapped, failed>>
    BY <1>1 DEF vars, world, ghosts, requestVars
  <2>2. KnownInv'
    BY <2>1 DEF IInv, KnownInv, RequestsOK, Tokens
  <2>3. ForgetInv'
    BY <2>1 DEF IInv, ForgetInv, Idle
  <2>4. SerialInv'
    BY <2>1 DEF IInv, SerialInv, Alone, Idle, Clean
  <2> QED
    BY <2>2, <2>3, <2>4 DEF IInv
<1>2. ASSUME NEW c \in Requests, Request(c) \/ Statement(c) \/ Fault(c) PROVE IInv'
  BY <1>2, RequestInv, RereadInv, ExchangeInv, FindInv, InsertInv, SaveOwnInv, SaveRevokedInv,
     RefreshInv, SaveTokensInv, FetchInv, SaveEndInv, FaultInv DEF Statement
<1> QED
  BY <1>1, <1>2, AgeInv, WithdrawInv DEF Next

\* The invariant holds: what every request knows of the stored connection and of
\* the provider is true of them, as far as it can be while the two statements of
\* the saves interleave.
THEOREM ConnectionInvariant == Spec => []IInv
BY InitInv, NextInv, PTL DEF Spec

\* Types, for any number of requests: whatever interleaves, the row that the saves
\* merge holds tokens the provider has given, its refresh token one that was given
\* as such.
THEOREM MeetingTypes == Spec => []TypeOK
<1>1. IInv => TypeOK
  BY DEF IInv, KnownInv, TypeOK, Holds, Rows, Row, Tokens, Given, GrantStates
<1> QED
  BY <1>1, ConnectionInvariant, PTL

\* A connection that was given up by a disconnection served alone holds no tokens
\* until a callback, however many syncs and disconnections interleave after it.
THEOREM GivenUpStaysEmpty == Spec => []StaysForgotten
<1>1. IInv => StaysForgotten
  BY DEF IInv, ForgetInv, Empty, StaysForgotten
<1> QED
  BY <1>1, ConnectionInvariant, PTL

\* The user is asked to reconnect only when the refresh token is of no use any
\* more or the provider has refused a good one, whatever fails, while requests do
\* not overlap; and while nothing fails either, a connection that is up holds no
\* refresh token that was replaced.
THEOREM StatusAlwaysTrue == Spec => []StatusTrue
<1>1. IInv => StatusTrue
  <2> SUFFICES ASSUME IInv PROVE StatusTrue
    OBVIOUS
  <2>1. NoRow.status # "error" /\ NoRow.status # "connected"
    BY DEF NoRow
  <2>2. ~overlapped /\ row.status = "error" => row.refresh = None \/ grant[row.refresh] # "live" \/ denied
    BY <2>1 DEF IInv, SerialInv, ErrorTrue, Dead
  <2>3. <<>> \notin TokenPlans
    BY Kinds1 DEF SyncPlans
  <2>4. Clean /\ Quiet /\ row.status = "connected" => Unspent(grant, row)
    BY <2>1, <2>3 DEF IInv, SerialInv, Quiet, Idle
  <2> QED
    BY <2>2, <2>4 DEF StatusTrue, Unspent
<1> QED
  BY <1>1, ConnectionInvariant, PTL

\* A sync of a provider with classified errors leaves the connection up only when
\* the access token it has seen work is still accepted, or its refresh token is
\* live.
THEOREM SyncAlwaysTells == Spec => SyncTells
<1> DEFINE Tells == Clean' /\ provider.classifies =>
      \A c \in Requests : req[c].op = "sync" /\ Idle(c)' /\ row'.status = "connected" =>
         \/ row'.access \in accepted'
         \/ row'.refresh # None /\ grant'[row'.refresh] = "live"
<1>1. IInv /\ [Next]_vars => [Tells]_vars
  <2> SUFFICES ASSUME IInv, Next, Clean', provider.classifies,
                      NEW c \in Requests, req[c].op = "sync", plan'[c] = <<>>,
                      row'.status = "connected"
               PROVE  row'.access \in accepted'
    BY DEF Idle
  <2>1. plan[c] \in SyncPlans /\ ~Idle(c) /\ KnownInv
    <3>1. KnownInv
      BY DEF IInv
    <3> QED
      BY <3>1, HasKnown, Kinds1 DEF Idle
  <2>2. DOMAIN plan = Requests
    BY <2>1 DEF KnownInv, RequestsOK
  <2>3. ~Age /\ ~Withdraw
    BY <2>1 DEF Age, Withdraw, Instant, requestVars, Idle
  <2>4. PICK d \in Requests : Request(d) \/ Statement(d) \/ Fault(d)
    BY <2>3 DEF Next
  <2>5. ~Request(d)
    <3>1. Request(d) => overlapped'
      BY <2>1, Zenon DEF Request, StartConnect, StartDisconnect, StartSync, Arrive, Begin, Quiet
    <3> QED
      BY <3>1 DEF Clean
  <2>6. ~Fault(d)
    BY DEF Fault, Transient, AnswerLost, Fail, Break, Clean
  <2>7. Statement(d)
    BY <2>4, <2>5, <2>6
  <2>8. PICK p, m : Continue(d, p, m) /\ failed' = failed
    BY <2>7, Zenon DEF Statement, Reread, Exchange, Find, Insert, SaveOwn, SaveRevoked, Refresh,
       SaveTokens, Fetch, FetchAgain, Denied, SaveSynced, SaveError, Synced, Turn, Done, Proceed
  <2>9. d = c /\ p = <<>>
    <3>1. \A e \in Requests : e # d => plan'[e] = plan[e]
      BY <2>2, <2>8 DEF Continue
    <3>2. d = c
      BY <2>1, <3>1 DEF Idle
    <3> QED
      BY <2>2, <2>8, <3>2 DEF Continue
  <2>10. Clean
    BY <2>8 DEF Clean, Continue
  <2>11. \A q, n : Continue(c, q, n) => q = <<>>
    BY <2>2 DEF Continue
  <2>12. /\ AloneKnows(grant, row, denied, plan[c], mem[c])
         /\ CleanKnows(provider, grant, accepted, plan[c], mem[c])
    BY <2>10 DEF IInv, SerialInv, Clean
  <2>13. Holds(grant, mem[c].conn) /\ Holds(grant, row)
    <3>1. Holds(grant, mem[c].conn) /\ row # NoRow
      BY <2>1, HasKnown
    <3> QED
      BY <2>1, <3>1 DEF KnownInv
  <2>14. ~Exchange(c) /\ ~Find(c) /\ ~Insert(c) /\ ~SaveOwn(c) /\ ~SaveRevoked(c)
    <3>1. ~At(c, "exchange") /\ ~At(c, "find") /\ ~At(c, "insert") /\ ~At(c, "saveOwn")
          /\ ~At(c, "saveRevoked")
      <4>1. \A s \in {"exchange", "find", "insert", "saveOwn", "saveRevoked"} :
              At(c, s) => plan[c] \in OwnPlans \cup RevokePlans \cup {<<"exchange", "find">>, <<"find">>}
        <5>1. <<"insert">> \in OwnPlans /\ <<"saveOwn">> \in OwnPlans /\ <<"saveRevoked">> \in RevokePlans
          BY DEF OwnPlans, StorePlans, RevokePlans
        <5> QED
          BY <2>1, <5>1, AtKnows
      <4> QED
        BY <2>1, <4>1, Kinds1
    <3> QED
      BY <3>1 DEF Exchange, Find, Insert, SaveOwn, SaveRevoked
  <2>15. ~SaveTokens(c)
    <3>1. At(c, "saveTokens") => Tail(plan[c]) # <<>>
      BY <2>1, AtKnows, Kinds1, Kinds2
    <3> QED
      BY <2>11, <3>1, Zenon DEF SaveTokens, Done, Proceed, Rest
  <2>16. ~Reread(c)
    <3>1. At(c, "reread") => Tail(plan[c]) # <<>>
      <4>1. \A s : <<s>> # <<>>
        OBVIOUS
      <4>2. \A q \in FreshPlans : q # <<>>
        BY PlanEnds
      <4> QED
        BY <2>1, <4>1, <4>2, AtKnows
    <3> QED
      BY <2>11, <3>1, Zenon DEF Reread, Proceed, Rest
  <2>17. Refused # <<>>
    <3>1. <<"reread", "saveError">> # <<>>
      OBVIOUS
    <3> QED
      BY <3>1, RefusedPlans
  <2>18. ~Refresh(c) /\ ~Denied(c)
    <3>1. At(c, "refresh") => Tail(plan[c]) # <<>>
      BY <2>1, AtKnows, Kinds1, Kinds2
    <3>2. ~Denied(c)
      BY <2>11, <2>17, Zenon DEF Denied
    <3>3. ~Refresh(c)
      BY <2>11, <2>17, <3>1, Zenon DEF Refresh, Proceed, Rest
    <3> QED
      BY <3>2, <3>3
  <2>19. ~Fetch(c) /\ ~FetchAgain(c)
    <3>1. At(c, "fetch") \/ At(c, "fetchAgain") => Tail(plan[c]) = <<>>
      BY <2>1, AtKnows
    <3>2. /\ <<"reread", "saveSynced">> \in SyncPlans /\ <<"reread", "saveError">> \in SyncPlans
      BY DEF SyncPlans, EndPlans, SyncedPlans, ErrorPlans
    <3>3. Fresh(mem[c].conn, TRUE, <<"fetchAgain">>) \in SyncPlans
      <4>1. <<"fetchAgain">> \in FetchPlans
        BY DEF FetchPlans
      <4> QED
        BY <3>2, <4>1, FreshPlan, Kinds2
    <3>4. Refused \in SyncPlans
      BY <3>2, RefusedPlans
    <3>5. \A q \in SyncPlans : q \o <<>> # <<>>
      BY NothingAfter, Kinds1
    <3> QED
      BY <2>11, <3>1, <3>2, <3>3, <3>4, <3>5, Zenon DEF Fetch, FetchAgain, Synced, Turn
  <2>20. ~SaveError(c)
    <3>1. ASSUME SaveError(c) PROVE FALSE
      <4> DEFINE k == [mem[c].conn EXCEPT !.status = "error"]
      <4>1. row' = Merged(mem[c].db, k) /\ plan[c] = <<"saveError">>
        BY <2>1, <3>1, AtKnows DEF SaveError, SaveAs
      <4>2. mem[c].db = row
        BY <2>12, <4>1, Readers DEF AloneKnows
      <4>3. Holds(grant, k) /\ k.status = "error"
        BY <2>13 DEF Holds, Rows
      <4> HIDE DEF k
      <4>4. Merged(mem[c].db, k) = k
        BY <2>13, <4>2, <4>3, MergedRow
      <4>5. row'.status = "error"
        BY <4>1, <4>3, <4>4
      <4> QED
        BY <4>5
    <3> QED
      BY <3>1
  <2>21. SaveSynced(c)
    BY <2>7, <2>9, <2>14, <2>15, <2>16, <2>18, <2>19, <2>20 DEF Statement
  <2> DEFINE k == [mem[c].conn EXCEPT !.status = "connected"]
  <2>22. /\ row' = Merged(mem[c].db, k) /\ accepted' = accepted
         /\ plan[c] = <<"saveSynced">> \/ plan[c] = <<"saveKept">>
    BY <2>1, <2>21, AtKnows DEF SaveSynced, SaveAs, world
  <2>23. Holds(grant, k) /\ k.access = mem[c].conn.access
    BY ZenonT(60), <2>13, Restated
  <2>24. mem[c].conn.access \in accepted
    <3>1. <<"saveSynced">> \in SyncedPlans /\ <<"saveKept">> \in KeptPlans
      BY DEF SyncedPlans, KeptPlans
    <3> QED
      BY <2>12, <2>22, <3>1 DEF CleanKnows
  <2>25. mem[c].db = row
    BY <2>12, <2>22, Readers DEF AloneKnows
  <2> HIDE DEF k
  <2> QED
    BY <2>13, <2>22, <2>23, <2>24, <2>25, MergedRow
<1> QED
  BY <1>1, ConnectionInvariant, PTL DEF Spec, SyncTells
=============================================================================
