--------------------------- MODULE MCPostSequence ---------------------------
(***************************************************************************)
(* Instances of PostSequence for TLC: tickets and tasks, two spaces, up to *)
(* two items in a request.                                                 *)
(***************************************************************************)
EXTENDS PostSequence, TLC

CONSTANTS c1, c2, s1, s2, r1, r2, i1, i2, i3

TwoClients == {c1, c2}

OneSpace == {s1}
TwoSpaces == {s1, s2}
OwnPrefix == [s \in Spaces |-> s]

OneRowEach == (r1 :> s1) @@ (r2 :> s2)
OneRow == r1 :> s1
NoRow == [r \in RowIds |-> NoSpace]

\* The requests carry one or two items, for one space or two ...
AnySpaces == {<<s>> : s \in Spaces} \cup {<<s, t>> : s, t \in Spaces}
\* ... or one item, as every create of a task does.
OneItem == {<<s>> : s \in Spaces}

\* Users press "create", look at the next code, and delete ...
Backend == {"create", "preview", "delete"}
\* ... and, for tasks, may send back the code they were shown.
PeekForms == {"create", "peek", "submit", "delete"}

Symmetry == Permutations(Clients) \cup Permutations(Ids)
=============================================================================
