------------------------- MODULE PostSequenceProofs -------------------------
(***************************************************************************)
(* The ticket regime of PostSequence, for any number of clients, spaces    *)
(* and tickets: the invariant IInv is inductive, so a drawn code is always *)
(* free when its ticket is inserted, the counter is never behind, and the  *)
(* committed codes implement the registry of CodeRegistry.                 *)
(*                                                                         *)
(* Each lemma takes one action; its steps are the conjuncts of IInv.       *)
(***************************************************************************)
EXTENDS PostSequence, TLAPS

-----------------------------------------------------------------------------
\* The initial states satisfy the invariant.
LEMMA InitInv == ASSUME TicketRegime, Init PROVE IInv
BY SentinelAssumption, ConfigAssumption DEF Init, IInv, TypeOK, RowsFixed,
       ControlOK, IdsDistinct, RemovalsDistinct, NumbersDistinct, CounterOK,
       MadeOK, CodeInHand, DenseOK, TicketRegime, Follows, Code, Post,
       Number, CodeOf, Held, Visible, Removed, Removing, rowVars, postVars,
       clientVars, PCs, Ops

\* A request that starts has done nothing yet.
LEMMA BeginInv ==
  ASSUME TicketRegime, IInv, NEW c \in Clients,
         NEW o \in {"create", "preview"}, NEW b \in Seq(Spaces) \ {<<>>}, Begin(c, o, b)
  PROVE  IInv'
<1> USE SentinelAssumption, ConfigAssumption DEF IInv
<1>1. TypeOK'
  BY DEF TypeOK, Code, Post, Number, PCs, Ops, Begin, rowVars, postVars,
         clientVars
<1>2. RowsFixed'
  BY DEF RowsFixed, TypeOK, Begin, rowVars, postVars, clientVars
<1>3. ControlOK'
  BY DEF ControlOK, TypeOK, Held, Code, CodeOf, Post, Begin, rowVars,
         postVars, clientVars
<1>4. IdsDistinct'
  BY DEF IdsDistinct, TypeOK, CodeOf, Begin, rowVars, postVars, clientVars
<1>5. RemovalsDistinct'
  <2>1. \A d \in Clients : Removing(d)' => Removing(d)
    BY DEF Removing, TypeOK, Begin, rowVars, postVars, clientVars
  <2>2. posts' = posts /\ target' = target
    BY DEF Begin, rowVars, postVars, clientVars
  <2> QED BY <2>1, <2>2 DEF RemovalsDistinct, Removing
<1>6. NumbersDistinct'
  BY DEF NumbersDistinct, CodeOf, TypeOK, Begin, rowVars, postVars,
         clientVars
<1>7. CounterOK'
  BY DEF CounterOK, Held, Visible, Removed, Removing, TypeOK, Begin,
         rowVars, postVars, clientVars
<1>8. MadeOK'
  BY DEF MadeOK, Held, TypeOK, Begin, rowVars, postVars, clientVars
<1>9. CodeInHand'
  BY DEF CodeInHand, Held, Visible, Removed, Removing, TypeOK, Begin,
         rowVars, postVars, clientVars
<1>10. DenseOK'
  BY DEF DenseOK, Follows, Visible, Removed, Removing, TypeOK, Begin,
         rowVars, postVars, clientVars
<1> QED
  BY <1>1, <1>2, <1>3, <1>4, <1>5, <1>6, <1>7, <1>8, <1>9, <1>10 DEF IInv

\* A delete has read its post.
LEMMA BeginDeleteInv ==
  ASSUME TicketRegime, IInv, NEW c \in Clients, BeginDelete(c)
  PROVE  IInv'
<1> USE SentinelAssumption, ConfigAssumption DEF IInv
<1>1. TypeOK'
  BY DEF TypeOK, Code, Post, Number, PCs, Ops, BeginDelete, CodeOf,
         rowVars, postVars, clientVars
<1>2. RowsFixed'
  BY DEF RowsFixed, TypeOK, BeginDelete, rowVars, postVars, clientVars
<1>3. ControlOK'
  BY DEF ControlOK, TypeOK, Held, Code, CodeOf, Post, BeginDelete,
         rowVars, postVars, clientVars
<1>4. IdsDistinct'
  <2>1. PICK x \in posts :
          /\ target' = [target EXCEPT ![c] = x.id]
          /\ code' = [code EXCEPT ![c] = CodeOf(x)]
    BY DEF BeginDelete
  <2>2. posts' = posts /\ made' = made /\ op' = [op EXCEPT ![c] = "delete"]
    BY DEF BeginDelete, postVars
  <2>3. \A d \in Clients, p \in posts :
          op'[d] = "delete" /\ p.id = target'[d] => CodeOf(p) = code'[d]
    BY <2>1, <2>2 DEF IdsDistinct, TypeOK
  <2>4. \A d, e \in Clients : \A p \in made[d] : target'[e] # p.id
    BY <2>1, <2>2 DEF IdsDistinct, TypeOK
  <2> QED BY <2>2, <2>3, <2>4 DEF IdsDistinct, CodeOf
<1>5. RemovalsDistinct'
  BY DEF RemovalsDistinct, Removing, TypeOK, BeginDelete, rowVars,
         postVars, clientVars
<1>6. NumbersDistinct'
  BY DEF NumbersDistinct, CodeOf, TypeOK, BeginDelete, rowVars, postVars,
         clientVars
<1>7. CounterOK'
  BY DEF CounterOK, Held, Visible, Removed, Removing, TypeOK, BeginDelete,
         rowVars, postVars, clientVars
<1>8. MadeOK'
  BY DEF MadeOK, Held, TypeOK, BeginDelete, rowVars, postVars, clientVars
<1>9. CodeInHand'
  BY DEF CodeInHand, Held, Visible, Removed, Removing, TypeOK,
         BeginDelete, rowVars, postVars, clientVars
<1>10. DenseOK'
  <2>1. \A d \in Clients : Visible(d)' = Visible(d) /\ made'[d] = made[d]
    BY DEF BeginDelete, Visible, Removed, Removing, TypeOK, postVars
  <2>2. \A d \in Clients : pc'[d] = "inserting" => pc[d] = "inserting" /\ code'[d] = code[d]
    BY DEF BeginDelete, TypeOK
  <2> QED BY <2>1, <2>2 DEF DenseOK, Follows
<1> QED
  BY <1>1, <1>2, <1>3, <1>4, <1>5, <1>6, <1>7, <1>8, <1>9, <1>10 DEF IInv

\* A rollback leaves no trace: rows, posts and counters are as committed.
LEMMA RollbackInv ==
  ASSUME TicketRegime, IInv, NEW c \in Clients, pc[c] # "idle", Rollback(c)
  PROVE  IInv'
<1> USE SentinelAssumption, ConfigAssumption DEF IInv
<1>1. TypeOK'
  BY DEF TypeOK, Code, Post, Number, PCs, Ops, Rollback, Finish, Released, rowVars,
         postVars, clientVars
<1>2. RowsFixed'
  BY DEF RowsFixed, TypeOK, Rollback, Finish, Released, rowVars, postVars,
         clientVars
<1>3. ControlOK'
  BY DEF ControlOK, TypeOK, Held, Code, CodeOf, Post, Rollback, Finish, Released,
         rowVars, postVars, clientVars
<1>4. IdsDistinct'
  BY DEF IdsDistinct, TypeOK, CodeOf, Rollback, Finish, Released, Post, rowVars,
         postVars, clientVars
<1>5. RemovalsDistinct'
  BY DEF RemovalsDistinct, Removing, TypeOK, Rollback, Finish, Released, rowVars,
         postVars, clientVars
<1>6. NumbersDistinct'
  BY DEF NumbersDistinct, CodeOf, TypeOK, Rollback, Finish, Released, rowVars,
         postVars, clientVars
<1>7. CounterOK'
  BY DEF CounterOK, Held, Visible, Removed, Removing, TypeOK, Rollback,
         Finish, Released, RowsFixed, rowVars, postVars, clientVars
<1>8. MadeOK'
  BY DEF MadeOK, Held, TypeOK, Rollback, Finish, Released, rowVars, postVars,
         clientVars
<1>9. CodeInHand'
  BY DEF CodeInHand, Held, Visible, Removed, Removing, TypeOK, Rollback,
         Finish, Released, rowVars, postVars, clientVars
<1>10. DenseOK'
  <2>1. \A d \in Clients : d # c => Visible(d)' = Visible(d) /\ made'[d] = made[d]
    BY DEF Rollback, Finish, Released, Visible, Removed, Removing, TypeOK
  <2>2. \A d \in Clients : d # c => pc'[d] = pc[d] /\ code'[d] = code[d]
    BY DEF Rollback, Finish, Released, TypeOK
  <2>3. made'[c] = {} /\ pc'[c] = "idle"
    BY DEF Rollback, Finish, Released, TypeOK
  <2> QED BY <2>1, <2>2, <2>3 DEF DenseOK, Follows
<1> QED
  BY <1>1, <1>2, <1>3, <1>4, <1>5, <1>6, <1>7, <1>8, <1>9, <1>10 DEF IInv

\* Whoever gets the row reads the committed counter, which is ahead.
LEMMA LockRowInv ==
  ASSUME TicketRegime, IInv, NEW c \in Clients, NEW r \in RowIds, LockRow(c, r)
  PROVE  IInv'
<1> USE SentinelAssumption, ConfigAssumption DEF IInv
<1>1. TypeOK'
  BY DEF TypeOK, Code, Post, Number, PCs, Ops, LockRow, Available, rowVars, postVars,
         clientVars
<1>2. RowsFixed'
  BY DEF RowsFixed, TypeOK, LockRow, Available, rowVars, postVars, clientVars
<1>3. ControlOK'
  BY DEF ControlOK, TypeOK, Held, Code, CodeOf, Post, LockRow, Available, rowVars,
         postVars, clientVars
<1>4. IdsDistinct'
  BY DEF IdsDistinct, TypeOK, CodeOf, LockRow, Available, rowVars, postVars,
         clientVars
<1>5. RemovalsDistinct'
  <2>1. \A d \in Clients : Removing(d)' <=> Removing(d)
    BY DEF Removing, TypeOK, LockRow, Available, clientVars
  <2>2. posts' = posts /\ target' = target
    BY DEF LockRow, Available, postVars, clientVars
  <2> QED BY <2>1, <2>2 DEF RemovalsDistinct
<1>6. NumbersDistinct'
  BY DEF NumbersDistinct, CodeOf, TypeOK, LockRow, Available, rowVars, postVars,
         clientVars
<1>7. CounterOK'
  BY DEF CounterOK, Held, Visible, Removed, Removing, TypeOK, LockRow, Available,
         MadeOK, rowVars, postVars, clientVars
<1>8. MadeOK'
  BY DEF MadeOK, Held, TypeOK, LockRow, Available, rowVars, postVars, clientVars
<1>9. CodeInHand'
  <2> SUFFICES ASSUME NEW d \in Clients, pc'[d] = "inserting"
               PROVE  /\ code'[d] \in Code /\ code'[d].space = Head(todo'[d])
                      /\ \E q \in Held(d)' : rowSpace'[q] = code'[d].space /\ draft'[q] = code'[d].num + 1
                      /\ \A p \in Visible(d)' : p.space = code'[d].space => p.num < code'[d].num
    BY DEF CodeInHand
  <2>1. d # c /\ pc[d] = "inserting"
    BY DEF LockRow, Available, TypeOK
  <2>2. UNCHANGED <<code, todo, rowSpace, draft, posts, made>>
    BY DEF LockRow, Available, postVars
  <2>3. Held(d)' = Held(d)
    BY <2>1, SentinelAssumption DEF Held, LockRow, Available, TypeOK
  <2>4. Visible(d)' = Visible(d)
    BY <2>1, <2>2 DEF Visible, Removed, Removing, LockRow, Available, TypeOK
  <2> QED BY <2>1, <2>2, <2>3, <2>4 DEF CodeInHand
<1>10. DenseOK'
  BY DEF DenseOK, Follows, Visible, Removed, Removing, TypeOK, LockRow, Available,
         rowVars, postVars, clientVars
<1> QED
  BY <1>1, <1>2, <1>3, <1>4, <1>5, <1>6, <1>7, <1>8, <1>9, <1>10 DEF IInv


\* Two transactions never work in the same space: what one has inserted is in
\* no space whose row another holds.
LEMMA OwnSpace ==
  ASSUME TicketRegime, IInv, NEW c \in Clients, NEW d \in Clients, c # d,
         NEW p \in made[c], NEW r \in Held(d)
  PROVE  rowSpace[r] # p.space
<1>1. PICK q \in Held(c) : rowSpace[q] = p.space
  BY DEF IInv, MadeOK
<1>2. q # r
  BY DEF Held
<1>3. p.space \in Spaces
  BY DEF IInv, TypeOK, Post
<1> QED
  BY <1>1, <1>2, <1>3, SentinelAssumption DEF TicketRegime, IInv, RowsFixed, Held

\* A commit publishes what the holder of the rows saw.
LEMMA CommitInv ==
  ASSUME TicketRegime, IInv, NEW c \in Clients, Commit(c)
  PROVE  IInv'
<1> USE SentinelAssumption, ConfigAssumption DEF IInv
<1>0. /\ pc[c] = "committing"
      /\ holder' = [r \in RowIds |-> IF holder[r] = c THEN NoClient ELSE holder[r]]
      /\ made' = [made EXCEPT ![c] = {}]
      /\ pc' = [pc EXCEPT ![c] = "idle"]
      /\ op' = [op EXCEPT ![c] = "none"]
      /\ todo' = [todo EXCEPT ![c] = <<>>]
      /\ code' = [code EXCEPT ![c] = NoCode]
      /\ target' = [target EXCEPT ![c] = NoId]
      /\ next' = [r \in RowIds |-> IF holder[r] = c THEN draft[r] ELSE next[r]]
      /\ posts' = Visible(c)
      /\ UNCHANGED <<rowSpace, draft>>
  BY DEF Commit, Finish, Released
<1>1. TypeOK'
  BY DEF TypeOK, Code, Post, Number, PCs, Ops, Commit, Finish, Released, Visible,
         Removed, Held, rowVars, postVars, clientVars
<1>2. RowsFixed'
  BY DEF RowsFixed, TypeOK, Commit, Finish, Released, Held, rowVars, postVars,
         clientVars
<1>3. ControlOK'
  BY DEF ControlOK, TypeOK, Held, Code, CodeOf, Post, Commit, Finish, Released,
         rowVars, postVars, clientVars
<1>4. IdsDistinct'
  <2>1. \A p, q \in posts' : p.id = q.id => p = q
    BY <1>0 DEF IdsDistinct, Visible
  <2>2. \A d \in Clients : \A p \in made'[d] : p \in made[d] /\ d # c
    BY <1>0 DEF TypeOK
  <2>3. \A d \in Clients : \A p \in made'[d] : \A q \in posts' : p.id # q.id
    BY <1>0, <2>2 DEF IdsDistinct, Visible
  <2>4. \A d, e \in Clients : \A p \in made'[d] : target'[e] # p.id
    BY <1>0, <2>2, SentinelAssumption DEF IdsDistinct, TypeOK, Post
  <2>5. \A d \in Clients : \A p \in posts' :
          op'[d] = "delete" /\ p.id = target'[d] => d # c /\ p \in posts
    BY <1>0 DEF IdsDistinct, Visible, TypeOK
  <2>6. \A d \in Clients : d # c => op'[d] = op[d] /\ target'[d] = target[d] /\ code'[d] = code[d]
    BY <1>0 DEF TypeOK
  <2> QED BY <2>1, <2>2, <2>3, <2>4, <2>5, <2>6 DEF IdsDistinct, CodeOf
<1>5. RemovalsDistinct'
  <2>1. \A d \in Clients : Removing(d)' => Removing(d) /\ d # c /\ target'[d] = target[d]
    BY <1>0 DEF Removing, TypeOK
  <2>2. ASSUME NEW d \in Clients, Removing(d)'
        PROVE  \E p \in posts' : p.id = target'[d]
    <3>1. PICK p \in posts : p.id = target[d]
      BY <2>1, <2>2 DEF RemovalsDistinct
    <3>2. p \notin Removed(c)
      BY <2>1, <2>2, <3>1 DEF RemovalsDistinct, Removed
    <3> QED BY <1>0, <2>1, <2>2, <3>1, <3>2 DEF Visible
  <2> QED BY <2>1, <2>2 DEF RemovalsDistinct
<1>6. NumbersDistinct'
  BY DEF NumbersDistinct, CodeOf, TypeOK, Commit, Finish, Released, Visible,
         Removed, MadeOK, Post, Number, rowVars, postVars, clientVars
<1>7. CounterOK'
  <2>1. \A r \in RowIds : holder'[r] = NoClient => draft'[r] = next'[r]
    BY <1>0, SentinelAssumption DEF CounterOK, TypeOK
  <2>2. ASSUME NEW r \in RowIds, NEW p \in posts', p.space = rowSpace'[r]
        PROVE  p.num < next'[r]
    <3>1. CASE holder[r] = c
      BY <1>0, <2>2, <3>1 DEF CounterOK, Held, TypeOK
    <3>2. CASE holder[r] # c
      <4>1. p \in posts
        <5> SUFFICES ASSUME p \in made[c] PROVE FALSE
          BY <1>0 DEF Visible
        <5>1. PICK q \in Held(c) : rowSpace[q] = p.space
          BY DEF MadeOK
        <5>2. p.space \in Spaces
          BY DEF TypeOK, Post
        <5> QED BY <1>0, <2>2, <3>2, <5>1, <5>2, SentinelAssumption
                DEF TicketRegime, RowsFixed, Held
      <4> QED BY <1>0, <2>2, <3>2, <4>1 DEF CounterOK, TypeOK
    <3> QED BY <3>1, <3>2
  <2>3. ASSUME NEW d \in Clients, NEW r \in Held(d)', NEW p \in Visible(d)', p.space = rowSpace'[r]
        PROVE  p.num < draft'[r]
    <3>1. d # c /\ r \in Held(d)
      BY <1>0, SentinelAssumption DEF Held
    <3>2. p \in Visible(d) \cup made[c]
      BY <1>0, <3>1 DEF Visible, Removed, Removing, TypeOK
    <3>3. p \notin made[c]
      BY <1>0, <2>3, <3>1, OwnSpace
    <3> QED BY <1>0, <2>3, <3>1, <3>2, <3>3 DEF CounterOK
  <2> QED BY <2>1, <2>2, <2>3 DEF CounterOK
<1>8. MadeOK'
  <2> SUFFICES ASSUME NEW d \in Clients, NEW p \in made'[d]
               PROVE  /\ \E r \in Held(d)' : rowSpace'[r] = p.space
                      /\ \A q \in posts' : q.space = p.space => q.num < p.num
    BY DEF MadeOK
  <2>1. d # c /\ p \in made[d]
    BY <1>0 DEF TypeOK
  <2>2. PICK r \in Held(d) : rowSpace[r] = p.space
    BY <2>1 DEF MadeOK
  <2>3. r \in Held(d)'
    BY <1>0, <2>1, <2>2 DEF Held
  <2>4. ASSUME NEW q \in posts', q.space = p.space PROVE q \in posts
    BY <1>0, <2>1, <2>2, <2>4, OwnSpace DEF Visible
  <2> QED BY <1>0, <2>1, <2>2, <2>3, <2>4 DEF MadeOK
<1>9. CodeInHand'
  <2> SUFFICES ASSUME NEW d \in Clients, pc'[d] = "inserting"
               PROVE  /\ code'[d] \in Code /\ code'[d].space = Head(todo'[d])
                      /\ \E q \in Held(d)' : rowSpace'[q] = code'[d].space /\ draft'[q] = code'[d].num + 1
                      /\ \A p \in Visible(d)' : p.space = code'[d].space => p.num < code'[d].num
    BY DEF CodeInHand
  <2>1. d # c /\ pc[d] = "inserting" /\ code'[d] = code[d] /\ todo'[d] = todo[d]
    BY <1>0 DEF TypeOK
  <2>2. PICK r \in Held(d) : rowSpace[r] = code[d].space /\ draft[r] = code[d].num + 1
    BY <2>1 DEF CodeInHand
  <2>3. r \in Held(d)'
    BY <1>0, <2>1, <2>2 DEF Held
  <2>4. ASSUME NEW p \in Visible(d)', p.space = code[d].space PROVE p \in Visible(d)
    <3>1. p \in Visible(d) \cup made[c]
      BY <1>0, <2>1 DEF Visible, Removed, Removing, TypeOK
    <3>2. p \notin made[c]
      BY <2>1, <2>2, <2>4, OwnSpace
    <3> QED BY <3>1, <3>2
  <2> QED BY <1>0, <2>1, <2>2, <2>3, <2>4 DEF CodeInHand
<1>10. DenseOK'
  <2>1. ASSUME NEW d \in Clients, d # c, NEW x, Follows(x, d),
               NEW r \in Held(d), rowSpace[r] = x.space
        PROVE  Follows(x, d)'
    <3>1. ASSUME NEW q \in Visible(d), q.space = x.space PROVE q \in Visible(d)'
      <4>1. CASE q \in made[d]
        BY <1>0, <2>1, <4>1 DEF Visible, TypeOK
      <4>2. CASE q \in posts \ Removed(d)
        <5>1. q \notin Removed(c)
          <6> SUFFICES ASSUME q \in Removed(c) PROVE FALSE
            OBVIOUS
          <6>1. op[c] = "delete" /\ q.space = code[c].space /\ code[c].space \in Spaces
            <7>1. op[c] = "delete" /\ q \in posts /\ q.id = target[c]
              BY DEF Removed, Removing
            <7>2. CodeOf(q) = code[c]
              BY <7>1 DEF IdsDistinct
            <7>3. code[c] \in Code /\ q.space = code[c].space
              BY <7>1, <7>2 DEF ControlOK, CodeOf
            <7> QED BY <7>1, <7>3 DEF Code
          <6>2. PICK t \in Held(c) : rowSpace[t] = Head(todo[c])
            BY <1>0, <6>1 DEF ControlOK
          <6>3. rowSpace[t] = rowSpace[r]
            BY <2>1, <3>1, <6>1, <6>2 DEF ControlOK
          <6> QED BY <2>1, <6>1, <6>2, <6>3, SentinelAssumption
                  DEF TicketRegime, RowsFixed, Held, ControlOK
        <5>2. Removed(d)' \subseteq Removed(d) \cup made[c]
          BY <1>0, <2>1 DEF Removed, Removing, Visible, TypeOK
        <5>3. q \notin Removed(d)'
          BY <1>0, <2>1, <4>2 DEF Removed, Removing, TypeOK
        <5> QED BY <1>0, <4>2, <5>1, <5>3 DEF Visible
      <4> QED BY <4>1, <4>2 DEF Visible
    <3> QED BY <2>1, <3>1 DEF Follows
  <2>2. ASSUME NEW d \in Clients, NEW p \in made'[d] PROVE Follows(p, d)'
    <3>1. d # c /\ p \in made[d]
      BY <1>0, <2>2 DEF TypeOK
    <3>2. PICK r \in Held(d) : rowSpace[r] = p.space
      BY <3>1 DEF MadeOK
    <3> QED BY <2>1, <3>1, <3>2 DEF DenseOK
  <2>3. ASSUME NEW d \in Clients, pc'[d] = "inserting" PROVE Follows(code[d], d)' /\ code'[d] = code[d]
    <3>1. d # c /\ pc[d] = "inserting" /\ code'[d] = code[d]
      BY <1>0, <2>3 DEF TypeOK
    <3>2. PICK r \in Held(d) : rowSpace[r] = code[d].space
      BY <3>1 DEF CodeInHand
    <3>3. Follows(code[d], d)
      BY <3>1 DEF DenseOK
    <3>4. ASSUME NEW x, x = code[d] PROVE Follows(x, d)'
      BY <2>1, <3>1, <3>2, <3>3, <3>4
    <3> QED BY <3>1, <3>4 DEF Follows
  <2> QED BY <2>2, <2>3 DEF DenseOK, Follows
<1> QED
  BY <1>1, <1>2, <1>3, <1>4, <1>5, <1>6, <1>7, <1>8, <1>9, <1>10 DEF IInv

\* The correction yields the successor of the real maximum.
LEMMA ComputeInv ==
  ASSUME TicketRegime, IInv, NEW c \in Clients, NEW r \in RowIds, ComputeCode(c, r)
  PROVE  IInv'
<1> USE SentinelAssumption, ConfigAssumption DEF IInv
<1> DEFINE s == Head(todo[c])
<1>0. PICK m \in 0..MaxInt :
        /\ IsActualMax(m, c, s)
        /\ Draw(c, r, Corrected(draft[r], m))
  BY DEF ComputeCode
<1> DEFINE n == Corrected(draft[r], m)
<1>a. /\ pc[c] = "computing" /\ op[c] \in {"create", "preview"}
      /\ r \in Held(c) /\ rowSpace[r] = s /\ s \in Spaces /\ todo[c] # <<>>
  <2>1. todo[c] # <<>> /\ todo[c] \in Seq(Spaces)
    BY DEF ComputeCode, TypeOK, ControlOK
  <2>2. s \in Spaces
    BY <2>1
  <2> QED BY <2>1, <2>2 DEF ComputeCode, TypeOK, ControlOK
<1>b. /\ code' = [code EXCEPT ![c] = [space |-> s, num |-> n]]
      /\ draft' = [draft EXCEPT ![r] = n + 1]
      /\ pc' = [pc EXCEPT ![c] = IF op[c] = "preview" THEN "committing" ELSE "inserting"]
      /\ UNCHANGED <<rows, rowSpace, next, holder, posts, made, op, todo, target, form>>
  BY <1>0 DEF Draw, ComputeCode, postVars
<1>c. \A d \in Clients : Visible(d)' = Visible(d) /\ Removed(d)' = Removed(d) /\ Held(d)' = Held(d)
  BY <1>a, <1>b DEF Visible, Removed, Removing, Held, TypeOK
<1>d. \A p \in Visible(c) : p \in Post
  BY DEF Visible, TypeOK
\* The correction always yields the maximum's successor: the copy is never behind.
<1>e. m \in Nat /\ m < draft[r] /\ draft[r] \in Nat /\ draft[r] > 0
  BY <1>0, <1>a, <1>d, ConfigAssumption DEF IsActualMax, CounterOK, TypeOK, Number, Post
<1>f. n = m + 1
  BY <1>e DEF Corrected
<1>g. \A p \in Visible(c) : p.space = s => p.num < n
  <2> SUFFICES ASSUME NEW p \in Visible(c), p.space = s PROVE p.num < n
    OBVIOUS
  <2>1. p.num \in {q.num : q \in {q \in Visible(c) : q.space = s}}
    OBVIOUS
  <2>2. p.num <= m
    BY <1>0, <2>1 DEF IsActualMax
  <2> QED BY <1>d, <1>e, <1>f, <2>2 DEF Post, Number
<1> HIDE DEF n, s
<1>1. TypeOK'
  <2>1. n \in Number /\ n + 1 \in Number
    BY <1>e, <1>f DEF Number
  <2> QED BY <1>a, <1>b, <2>1 DEF TypeOK, Code, PCs
<1>2. RowsFixed'
  BY <1>a, <1>b DEF RowsFixed, TypeOK
<1>3. ControlOK'
  <2>1. \A d \in Clients : d # c => pc'[d] = pc[d] /\ code'[d] = code[d]
    BY <1>b DEF TypeOK
  <2>2. pc'[c] = IF op[c] = "preview" THEN "committing" ELSE "inserting"
    BY <1>b DEF TypeOK
  <2> QED BY <1>a, <1>b, <1>c, <2>1, <2>2 DEF ControlOK
<1>4. IdsDistinct'
  BY <1>a, <1>b DEF IdsDistinct, TypeOK, CodeOf
<1>5. RemovalsDistinct'
  <2>1. \A d \in Clients : Removing(d)' <=> Removing(d)
    BY <1>a, <1>b DEF Removing, TypeOK
  <2> QED BY <1>b, <2>1 DEF RemovalsDistinct
<1>6. NumbersDistinct'
  BY <1>b DEF NumbersDistinct, CodeOf
<1>7. CounterOK'
  <2>1. \A q \in RowIds : holder'[q] = NoClient => draft'[q] = next'[q]
    BY <1>a, <1>b, SentinelAssumption DEF CounterOK, Held, TypeOK
  <2>2. ASSUME NEW d \in Clients, NEW q \in Held(d)', NEW p \in Visible(d)', p.space = rowSpace'[q]
        PROVE  p.num < draft'[q]
    <3>1. CASE q = r
      <4>1. d = c
        BY <1>a, <1>c, <3>1, <2>2 DEF Held
      <4>2. p.num \in Nat /\ n \in Nat /\ p.num < n
        BY <1>a, <1>b, <1>c, <1>d, <1>e, <1>f, <1>g, <2>2, <3>1, <4>1 DEF Post, Number
      <4>3. draft'[q] = n + 1
        BY <1>a, <1>b, <3>1 DEF TypeOK, Held
      <4> QED BY <4>2, <4>3
    <3>2. CASE q # r
      BY <1>b, <1>c, <2>2, <3>2 DEF CounterOK, TypeOK, Held
    <3> QED BY <3>1, <3>2
  <2>3. \A q \in RowIds : \A p \in posts' : p.space = rowSpace'[q] => p.num < next'[q]
    BY <1>b DEF CounterOK
  <2> QED BY <2>1, <2>2, <2>3 DEF CounterOK
<1>8. MadeOK'
  BY <1>b, <1>c DEF MadeOK
<1>9. CodeInHand'
  <2> SUFFICES ASSUME NEW d \in Clients, pc'[d] = "inserting"
               PROVE  /\ code'[d] \in Code /\ code'[d].space = Head(todo'[d])
                      /\ \E q \in Held(d)' : rowSpace'[q] = code'[d].space /\ draft'[q] = code'[d].num + 1
                      /\ \A p \in Visible(d)' : p.space = code'[d].space => p.num < code'[d].num
    BY DEF CodeInHand
  <2>1. CASE d = c
    <3>1. code'[c] = [space |-> s, num |-> n] /\ draft'[r] = n + 1
      BY <1>a, <1>b DEF TypeOK, Held
    <3>2. [space |-> s, num |-> n] \in Code
      BY <1>a, <1>e, <1>f DEF Code, Number
    <3>3. todo'[c] = todo[c] /\ rowSpace' = rowSpace
      BY <1>b
    <3> QED BY <1>a, <1>c, <1>g, <2>1, <3>1, <3>2, <3>3 DEF s
  <2>2. CASE d # c
    <3>1. pc[d] = "inserting" /\ code'[d] = code[d] /\ todo'[d] = todo[d]
      BY <1>b, <2>2 DEF TypeOK
    <3>2. \A q \in Held(d) : draft'[q] = draft[q]
      BY <1>a, <1>b, <2>2 DEF Held, TypeOK
    <3> QED BY <1>b, <1>c, <3>1, <3>2 DEF CodeInHand
  <2> QED BY <2>1, <2>2
<1>10. DenseOK'
  <2>1. \A d \in Clients : \A x : Follows(x, d)' <=> Follows(x, d)
    BY <1>c DEF Follows
  <2>2. \A d \in Clients : d # c => pc'[d] = pc[d] /\ code'[d] = code[d]
    BY <1>b DEF TypeOK
  <2>3. Follows([space |-> s, num |-> n], c)
    <3>1. CASE m = 0
      BY <1>f, <3>1 DEF Follows
    <3>2. CASE m # 0
      <4>1. PICK q \in Visible(c) : q.space = s /\ q.num = m
        BY <1>0, <3>2 DEF IsActualMax
      <4> QED BY <1>e, <1>f, <4>1 DEF Follows
    <3> QED BY <3>1, <3>2
  <2>4. code'[c] = [space |-> s, num |-> n]
    BY <1>b DEF TypeOK
  <2> QED BY <1>b, <2>1, <2>2, <2>3, <2>4 DEF DenseOK, Follows
<1> QED
  BY <1>1, <1>2, <1>3, <1>4, <1>5, <1>6, <1>7, <1>8, <1>9, <1>10 DEF IInv

\* The code in hand is above everything, so it stays so as an item.
LEMMA InsertInv ==
  ASSUME TicketRegime, IInv, NEW c \in Clients, NEW i \in Ids, Insert(c, i)
  PROVE  IInv'
<1> USE SentinelAssumption, ConfigAssumption DEF IInv
<1> DEFINE new == [id |-> i, space |-> code[c].space, num |-> code[c].num]
<1>a. /\ pc[c] = "inserting" /\ op[c] = "create" /\ todo[c] # <<>> /\ todo[c] \in Seq(Spaces)
      /\ code[c] \in Code /\ code[c].space = Head(todo[c])
  BY DEF Insert, ControlOK, CodeInHand, TypeOK
<1>b. /\ made' = [made EXCEPT ![c] = @ \cup {new}]
      /\ todo' = [todo EXCEPT ![c] = Tail(@)]
      /\ pc' = [pc EXCEPT ![c] = IF Tail(todo[c]) = <<>> THEN "committing" ELSE "locking"]
      /\ UNCHANGED <<rows, rowSpace, next, draft, holder, posts, op, code, target, form>>
      /\ Unused(i)
  BY DEF Insert, rowVars
<1>c. new \in Post /\ CodeOf(new) = code[c] /\ new.space = code[c].space /\ new.num = code[c].num
  BY <1>a DEF Post, Code, CodeOf
<1>d. \A d \in Clients : made'[d] = IF d = c THEN made[c] \cup {new} ELSE made[d]
  BY <1>b DEF TypeOK
<1>e. \A d \in Clients : Removing(d)' = Removing(d) /\ Removed(d)' = Removed(d) /\ Held(d)' = Held(d)
  BY <1>a, <1>b DEF Removed, Removing, Held, TypeOK
<1>f. \A d \in Clients : Visible(d)' = IF d = c THEN Visible(c) \cup {new} ELSE Visible(d)
  BY <1>b, <1>d, <1>e DEF Visible
<1>g. PICK r \in Held(c) : rowSpace[r] = new.space /\ draft[r] = new.num + 1
  BY <1>a, <1>c DEF CodeInHand
<1>h. /\ \A p \in Visible(c) : p.space = new.space => p.num < new.num
      /\ Visible(c) = posts \cup made[c]
  BY <1>a, <1>c DEF CodeInHand, Visible, Removed, Removing
<1> HIDE DEF new
<1>1. TypeOK'
  <2>1. Tail(todo[c]) \in Seq(Spaces)
    BY <1>a
  <2> QED BY <1>b, <1>c, <1>d, <2>1 DEF TypeOK, PCs
<1>2. RowsFixed'
  BY <1>b DEF RowsFixed, TypeOK
<1>3. ControlOK'
  <2>1. \A d \in Clients : d # c => pc'[d] = pc[d] /\ todo'[d] = todo[d] /\ made'[d] = made[d]
    BY <1>b DEF TypeOK
  <2>2. /\ pc'[c] \in {"committing", "locking"}
        /\ pc'[c] = "locking" => todo'[c] # <<>>
    BY <1>b DEF TypeOK
  <2> QED BY <1>a, <1>b, <1>e, <2>1, <2>2 DEF ControlOK
<1>4. IdsDistinct'
  <2>1. new.id = i
    BY DEF new
  <2> QED BY <1>a, <1>b, <1>d, <2>1 DEF IdsDistinct, Unused
<1>5. RemovalsDistinct'
  BY <1>b, <1>e DEF RemovalsDistinct
<1>6. NumbersDistinct'
  <2>1. ASSUME NEW d \in Clients, NEW p \in made'[d], NEW q \in made'[d], CodeOf(p) = CodeOf(q)
        PROVE  p = q
    <3>1. CASE d # c \/ (p # new /\ q # new)
      BY <1>d, <2>1, <3>1 DEF NumbersDistinct
    <3>2. CASE d = c /\ (p = new \/ q = new)
      <4>1. \A x \in made[c] : x.space = new.space => x.num < new.num
        BY <1>h
      <4>2. \A x \in made[c] : x.num \in Nat /\ new.num \in Nat
        BY <1>c DEF TypeOK, Post, Number
      <4>3. \A x \in made[c] : CodeOf(x) # CodeOf(new)
        BY <4>1, <4>2 DEF CodeOf
      <4> QED BY <1>d, <2>1, <3>2, <4>3
    <3> QED BY <3>1, <3>2
  <2> QED BY <1>b, <2>1 DEF NumbersDistinct, CodeOf
<1>7. CounterOK'
  <2>1. ASSUME NEW d \in Clients, NEW q \in Held(d)', NEW p \in Visible(d)', p.space = rowSpace'[q]
        PROVE  p.num < draft'[q]
    <3>1. CASE p = new /\ d = c
      <4>1. q = r
        BY <1>b, <1>c, <1>e, <1>g, <2>1, <3>1, SentinelAssumption
           DEF TicketRegime, RowsFixed, Held, Post
      <4> QED BY <1>b, <1>c, <1>g, <3>1, <4>1 DEF Post, Number
    <3>2. CASE ~(p = new /\ d = c)
      BY <1>b, <1>e, <1>f, <2>1, <3>2 DEF CounterOK
    <3> QED BY <3>1, <3>2
  <2> QED BY <1>b, <2>1 DEF CounterOK
<1>8. MadeOK'
  BY <1>b, <1>d, <1>e, <1>g, <1>h DEF MadeOK
<1>9. CodeInHand'
  <2> SUFFICES ASSUME NEW d \in Clients, pc'[d] = "inserting"
               PROVE  /\ code'[d] \in Code /\ code'[d].space = Head(todo'[d])
                      /\ \E q \in Held(d)' : rowSpace'[q] = code'[d].space /\ draft'[q] = code'[d].num + 1
                      /\ \A p \in Visible(d)' : p.space = code'[d].space => p.num < code'[d].num
    BY DEF CodeInHand
  <2>1. d # c /\ pc[d] = "inserting" /\ todo'[d] = todo[d]
    BY <1>b DEF TypeOK
  <2> QED BY <1>b, <1>e, <1>f, <2>1 DEF CodeInHand
<1>10. DenseOK'
  <2>1. \A d \in Clients : \A x : Follows(x, d) => Follows(x, d)'
    BY <1>f DEF Follows
  <2>2. Follows(new, c)
    BY <1>a, <1>c DEF DenseOK, Follows
  <2>3. \A d \in Clients : pc'[d] = "inserting" => pc[d] = "inserting"
    BY <1>b DEF TypeOK
  <2>4. \A d \in Clients : pc'[d] = "inserting" => Follows(code[d], d)
    BY <2>3 DEF DenseOK
  <2>5. \A d \in Clients : \A p \in made'[d] : Follows(p, d)
    BY <1>d, <2>2 DEF DenseOK
  <2>6. code' = code
    BY <1>b
  <2> QED BY <2>1, <2>4, <2>5, <2>6 DEF DenseOK, Follows
<1> QED
  BY <1>1, <1>2, <1>3, <1>4, <1>5, <1>6, <1>7, <1>8, <1>9, <1>10 DEF IInv

\* A removal is invisible until it commits.
LEMMA DeletePostInv ==
  ASSUME TicketRegime, IInv, NEW c \in Clients, DeletePost(c)
  PROVE  IInv'
<1> USE SentinelAssumption, ConfigAssumption DEF IInv
<1>1. TypeOK'
  BY DEF TypeOK, Code, Post, Number, PCs, Ops, DeletePost, TicketRegime,
         rowVars, postVars, clientVars
<1>2. RowsFixed'
  BY DEF RowsFixed, TypeOK, DeletePost, TicketRegime, rowVars, postVars,
         clientVars
<1>3. ControlOK'
  BY DEF ControlOK, TypeOK, Held, Code, CodeOf, Post, DeletePost,
         TicketRegime, rowVars, postVars, clientVars
<1>4. IdsDistinct'
  BY DEF IdsDistinct, TypeOK, CodeOf, DeletePost, TicketRegime, rowVars,
         postVars, clientVars
<1>5. RemovalsDistinct'
  <2>1. /\ op[c] = "delete" /\ UNCHANGED <<posts, target, op>>
        /\ \E p \in posts : p.id = target[c]
        /\ \A d \in Clients \ {c} : ~(Removing(d) /\ target[d] = target[c])
    BY DEF DeletePost, TicketRegime, ControlOK
  <2>2. \A d \in Clients : d # c => (Removing(d)' <=> Removing(d))
    BY DEF DeletePost, Removing, TypeOK
  <2> QED BY <2>1, <2>2 DEF RemovalsDistinct
<1>6. NumbersDistinct'
  BY DEF NumbersDistinct, CodeOf, TypeOK, DeletePost, TicketRegime,
         rowVars, postVars, clientVars
<1>7. CounterOK'
  BY DEF CounterOK, Held, Visible, Removed, Removing, TypeOK, DeletePost,
         TicketRegime, rowVars, postVars, clientVars
<1>8. MadeOK'
  BY DEF MadeOK, Held, TypeOK, DeletePost, TicketRegime, rowVars,
         postVars, clientVars
<1>9. CodeInHand'
  BY DEF CodeInHand, Held, Visible, Removed, Removing, TypeOK, DeletePost,
         TicketRegime, rowVars, postVars, clientVars
<1>10. DenseOK'
  <2>1. /\ op[c] = "delete" /\ made[c] = {} /\ UNCHANGED <<posts, target, op, made, code>>
        /\ pc' = [pc EXCEPT ![c] = "locking"]
    BY DEF DeletePost, TicketRegime, ControlOK
  <2>2. ASSUME NEW d \in Clients, d # c PROVE pc'[d] = pc[d] /\ Visible(d)' = Visible(d)
    BY <2>1, <2>2 DEF Visible, Removed, Removing, TypeOK
  <2>3. pc'[c] # "inserting" /\ made'[c] = {}
    BY <2>1 DEF TypeOK
  <2> QED BY <2>1, <2>2, <2>3 DEF DenseOK, Follows
<1> QED
  BY <1>1, <1>2, <1>3, <1>4, <1>5, <1>6, <1>7, <1>8, <1>9, <1>10 DEF IInv

\* A decrement gives back the number of the post being removed, which was the
\* largest: the others keep below.
LEMMA ReduceInv ==
  ASSUME TicketRegime, IInv, NEW c \in Clients, NEW r \in RowIds, ReduceSequence(c, r)
  PROVE  IInv'
<1> USE SentinelAssumption, ConfigAssumption DEF IInv
<1> DEFINE s == code[c].space
<1>a. /\ pc[c] = "computing" /\ op[c] = "delete" /\ r \in Held(c)
      /\ code[c] \in Code /\ target[c] \in Ids /\ made[c] = {} /\ todo[c] # <<>>
      /\ Head(todo[c]) = s /\ rowSpace[r] = s
  BY DEF ReduceSequence, ControlOK
<1>b. /\ draft' = IF code[c].num = draft[r] - 1 THEN [draft EXCEPT ![r] = draft[r] - 1] ELSE draft
      /\ pc' = [pc EXCEPT ![c] = "committing"]
      /\ UNCHANGED <<rows, rowSpace, next, holder, posts, made, op, todo, code, target, form>>
  BY DEF ReduceSequence, IsLastNumber, postVars
<1>c. \A d \in Clients : /\ Removing(d)' = Removing(d) /\ Removed(d)' = Removed(d)
                          /\ Visible(d)' = Visible(d) /\ Held(d)' = Held(d)
  BY <1>a, <1>b DEF Visible, Removed, Removing, Held, TypeOK
<1>d. draft[r] \in Nat /\ code[c].num \in Nat /\ code[c].num > 0 /\ r \in RowIds
  BY <1>a DEF TypeOK, Code, Number, Held
<1>1. TypeOK'
  <2>1. draft' \in [RowIds -> Number]
    BY <1>b, <1>d DEF TypeOK, Number
  <2> QED BY <1>b, <2>1 DEF TypeOK, PCs
<1>2. RowsFixed'
  BY <1>b DEF RowsFixed, TypeOK
<1>3. ControlOK'
  <2>1. \A d \in Clients : d # c => pc'[d] = pc[d]
    BY <1>b DEF TypeOK
  <2>2. pc'[c] = "committing"
    BY <1>b DEF TypeOK
  <2>3. \E q \in Held(c) : rowSpace[q] = Head(todo[c])
    BY <1>a DEF ControlOK
  <2> QED BY <1>a, <1>b, <1>c, <2>1, <2>2, <2>3 DEF ControlOK
<1>4. IdsDistinct'
  BY <1>b DEF IdsDistinct, CodeOf
<1>5. RemovalsDistinct'
  BY <1>b, <1>c DEF RemovalsDistinct
<1>6. NumbersDistinct'
  BY <1>b DEF NumbersDistinct, CodeOf
<1>7. CounterOK'
  <2>1. \A q \in RowIds : holder'[q] = NoClient => draft'[q] = next'[q]
    BY <1>a, <1>b, SentinelAssumption DEF CounterOK, Held, TypeOK
  <2>2. ASSUME NEW d \in Clients, NEW q \in Held(d)', NEW p \in Visible(d)', p.space = rowSpace'[q]
        PROVE  p.num < draft'[q]
    <3>0. p.num < draft[q]
      BY <1>b, <1>c, <2>2 DEF CounterOK
    <3>1. CASE q = r /\ code[c].num = draft[r] - 1
      <4>1. d = c
        BY <1>a, <1>c, <2>2, <3>1 DEF Held
      <4>2. p \in posts /\ p \notin Removed(c) /\ p \in Post
        BY <1>a, <1>c, <2>2, <4>1 DEF Visible, TypeOK
      <4>3. PICK t \in posts : t.id = target[c] /\ CodeOf(t) = code[c] /\ t \in Removed(c)
        BY <1>a DEF RemovalsDistinct, Removing, Removed, IdsDistinct, TicketRegime
      <4>4. CodeOf(p) # code[c]
        BY <4>2, <4>3 DEF NumbersDistinct
      <4>5. p.space = code[c].space
        BY <1>a, <1>b, <2>2, <3>1
      <4>6. p.num # code[c].num
        BY <1>a, <4>2, <4>4, <4>5 DEF CodeOf, Code
      <4>7. draft'[q] = code[c].num
        BY <1>b, <1>d, <3>1 DEF TypeOK
      <4> QED BY <1>d, <3>0, <3>1, <4>2, <4>6, <4>7 DEF Post, Number
    <3>2. CASE q # r \/ code[c].num # draft[r] - 1
      BY <1>b, <3>0, <3>2 DEF TypeOK
    <3> QED BY <3>1, <3>2
  <2>3. \A q \in RowIds : \A p \in posts' : p.space = rowSpace'[q] => p.num < next'[q]
    BY <1>b DEF CounterOK
  <2> QED BY <2>1, <2>2, <2>3 DEF CounterOK
<1>8. MadeOK'
  BY <1>b, <1>c DEF MadeOK
<1>9. CodeInHand'
  <2> SUFFICES ASSUME NEW d \in Clients, pc'[d] = "inserting"
               PROVE  /\ code'[d] \in Code /\ code'[d].space = Head(todo'[d])
                      /\ \E q \in Held(d)' : rowSpace'[q] = code'[d].space /\ draft'[q] = code'[d].num + 1
                      /\ \A p \in Visible(d)' : p.space = code'[d].space => p.num < code'[d].num
    BY DEF CodeInHand
  <2>1. d # c /\ pc[d] = "inserting"
    BY <1>b DEF TypeOK
  <2>2. \A q \in Held(d) : draft'[q] = draft[q]
    BY <1>a, <1>b, <2>1 DEF Held, TypeOK
  <2> QED BY <1>b, <1>c, <2>1, <2>2 DEF CodeInHand
<1>10. DenseOK'
  <2>1. \A d \in Clients : pc'[d] = "inserting" => pc[d] = "inserting"
    BY <1>b DEF TypeOK
  <2> QED BY <1>b, <1>c, <2>1 DEF DenseOK, Follows
<1> QED
  BY <1>1, <1>2, <1>3, <1>4, <1>5, <1>6, <1>7, <1>8, <1>9, <1>10 DEF IInv

-----------------------------------------------------------------------------
\* In the ticket regime a row always exists, so nobody bootstraps, and nobody
\* types a code in.
LEMMA RegimeActions ==
  ASSUME TicketRegime, IInv, NEW c \in Clients
  PROVE  /\ ~SubmitForm(c) /\ ~PeekCode(c) /\ ~FindNoRow(c)
         /\ \A r \in RowIds : ~Bootstrap(c, r)
<1>1. ~SubmitForm(c) /\ ~PeekCode(c)
  BY DEF TicketRegime, SubmitForm, PeekCode
<1>2. \A r \in RowIds : ~Bootstrap(c, r)
  BY DEF IInv, RowsFixed, Bootstrap
<1>3. ~FindNoRow(c)
  <2> SUFFICES ASSUME FindNoRow(c) PROVE FALSE
    OBVIOUS
  <2>1. todo[c] # <<>> /\ todo[c] \in Seq(Spaces)
    BY DEF FindNoRow, IInv, ControlOK, TypeOK
  <2>2. Head(todo[c]) \in Spaces
    BY <2>1
  <2>3. PICK r \in RowIds : Seed[r] = Head(todo[c])
    BY <2>2 DEF TicketRegime
  <2> QED BY <2>2, <2>3, SentinelAssumption DEF IInv, RowsFixed, FindNoRow
<1> QED BY <1>1, <1>2, <1>3

\* Every step of the program preserves the invariant.
LEMMA NextInv ==
  ASSUME TicketRegime, IInv, [Next]_vars
  PROVE  IInv'
<1>1. CASE UNCHANGED vars
  BY <1>1 DEF IInv, vars, rowVars, postVars, clientVars, TypeOK, RowsFixed, ControlOK,
       IdsDistinct, RemovalsDistinct, NumbersDistinct, CounterOK, MadeOK, CodeInHand,
       DenseOK, Follows, Held, Visible, Removed, Removing, CodeOf
<1>2. ASSUME NEW c \in Clients, BeginCreate(c) \/ BeginPreview(c) PROVE IInv'
  <2>1. PICK o \in {"create", "preview"}, b \in Seq(Spaces) \ {<<>>} : Begin(c, o, b)
    <3>1. \A b \in Batches : b \in Seq(Spaces) \ {<<>>}
      BY ConfigAssumption
    <3>2. \A s \in Spaces : <<s>> \in Seq(Spaces) \ {<<>>}
      OBVIOUS
    <3> QED BY <1>2, <3>1, <3>2 DEF BeginCreate, BeginPreview
  <2> QED BY <2>1, BeginInv
<1>3. ASSUME NEW c \in Clients, BeginDelete(c) PROVE IInv'
  BY <1>3, BeginDeleteInv
<1>4. ASSUME NEW c \in Clients,
             \/ Fail(c) \/ OutOfRange(c) \/ InsertRefused(c)
             \/ DeleteNotFound(c) \/ DeadlockDetected(c)
      PROVE  IInv'
  <2>1. Rollback(c)
    BY <1>4 DEF Fail, OutOfRange, InsertRefused, DeleteNotFound, DeadlockDetected
  <2>2. pc[c] # "idle"
    <3>1. CASE DeadlockDetected(c)
      <4>1. PICK y : WaitsFor(c, y)
        BY <3>1 DEF DeadlockDetected, InCircle
      <4> QED BY <4>1 DEF WaitsFor
    <3>2. CASE ~DeadlockDetected(c)
      BY <1>4, <3>2 DEF Fail, OutOfRange, InsertRefused, DeleteNotFound
    <3> QED BY <3>1, <3>2
  <2> QED BY <2>1, <2>2, RollbackInv
<1>5. ASSUME NEW c \in Clients, Commit(c) PROVE IInv'
  BY <1>5, CommitInv
<1>6. ASSUME NEW c \in Clients, NEW r \in RowIds, LockRow(c, r) PROVE IInv'
  BY <1>6, LockRowInv
<1>7. ASSUME NEW c \in Clients, NEW r \in RowIds, ComputeCode(c, r) PROVE IInv'
  BY <1>7, ComputeInv
<1>8. ASSUME NEW c \in Clients, NEW r \in RowIds, ReduceSequence(c, r) PROVE IInv'
  BY <1>8, ReduceInv
<1>9. ASSUME NEW c \in Clients, NEW i \in Ids, Insert(c, i) PROVE IInv'
  BY <1>9, InsertInv
<1>10. ASSUME NEW c \in Clients, DeletePost(c) PROVE IInv'
  BY <1>10, DeletePostInv
<1> QED
  BY <1>1, <1>2, <1>3, <1>4, <1>5, <1>6, <1>7, <1>8, <1>9, <1>10, RegimeActions
     DEF Next, Statement

\* The invariant holds in every reachable state.
THEOREM InvariantHolds == ASSUME TicketRegime PROVE Spec => []IInv
<1>1. Init => IInv
  BY InitInv
<1>2. IInv /\ [Next]_vars => IInv'
  BY NextInv
<1> QED BY <1>1, <1>2, PTL DEF Spec

\* Every variable keeps its type.
THEOREM TypeCorrect == ASSUME TicketRegime PROVE Spec => []TypeOK
<1>1. IInv => TypeOK
  BY DEF IInv
<1> QED BY <1>1, InvariantHolds, PTL

\* A drawn code is free until its ticket is inserted, whoever else creates,
\* previews, fails or deletes meanwhile: the lock of generateAndAssignCode and
\* its downward correction are enough.
THEOREM DrawnCodesFresh == ASSUME TicketRegime PROVE Spec => []AutoCodeFresh
<1>1. ASSUME IInv, NEW c \in Clients, pc[c] = "inserting", op[c] = "create", NEW d \in Clients,
             NEW p \in posts \cup made[d], Text(p) = Text(code[c])
      PROVE  FALSE
  <2>1. code[c] \in Code /\ p \in Post
    BY <1>1 DEF IInv, CodeInHand, TypeOK
  <2>2. p.space = code[c].space /\ p.num = code[c].num
    BY <1>1, <2>1 DEF Text, TicketRegime, Code, Post
  <2>3. p \notin Visible(c)
    BY <1>1, <2>1, <2>2 DEF IInv, CodeInHand, Post, Number
  <2>4. d # c /\ p \in made[d]
    BY <1>1, <2>3 DEF Visible, Removed, Removing
  <2>5. PICK r \in Held(c) : rowSpace[r] = code[c].space
    BY <1>1 DEF IInv, CodeInHand
  <2> QED BY <1>1, <2>2, <2>4, <2>5, OwnSpace
<1>2. IInv => AutoCodeFresh
  BY <1>1 DEF AutoCodeFresh
<1> QED BY <1>2, InvariantHolds, PTL

\* No sequence of previews, failures and deletes leaves the counter behind the
\* codes of its space.
THEOREM CounterStaysAhead == ASSUME TicketRegime PROVE Spec => []CounterAhead
<1>1. IInv => CounterAhead
  BY DEF IInv, CounterOK, CounterAhead, TypeOK
<1> QED BY <1>1, InvariantHolds, PTL

\* No two tickets carry one code, also where no unique index sees to it: the lock
\* and the decrement in the transaction of the delete are enough.
THEOREM CodesStayUnique == ASSUME TicketRegime PROVE Spec => []CodesUnique
<1>1. ASSUME IInv, NEW p \in posts, NEW q \in posts, Text(p) = Text(q)
      PROVE  p = q
  <2>1. p \in Post /\ q \in Post
    BY <1>1 DEF IInv, TypeOK
  <2>2. p.space = q.space /\ p.num = q.num
    BY <1>1, <2>1 DEF Text, TicketRegime, Post
  <2> QED
    BY <1>1, <2>2 DEF IInv, NumbersDistinct, CodeOf
<1>2. IInv => CodesUnique
  BY <1>1 DEF CodesUnique
<1> QED BY <1>2, InvariantHolds, PTL

-----------------------------------------------------------------------------
\* A commit publishes new codes that continue the numbering, or retires one.
LEMMA CommitRefines ==
  ASSUME TicketRegime, IInv, NEW c \in Clients, Commit(c)
  PROVE  Registry!Next \/ Live' = Live
<1>1. posts' = (posts \ Removed(c)) \cup made[c]
  BY DEF Commit, Visible
<1>2. pc[c] = "committing" /\ op[c] \in {"create", "preview", "delete"}
  BY DEF Commit, IInv, ControlOK
<1>3. CASE op[c] # "delete"
  <2>1. posts' = posts \cup made[c]
    BY <1>1, <1>3 DEF Removed, Removing
  <2>2. Live \subseteq Live'
    BY <2>1 DEF Live
  <2>3. ASSUME NEW x \in Live' \ Live
        PROVE  x.space \in Spaces /\ x.num \in Nat \ {0} /\ Registry!Continues(x)
    <3>1. PICK p \in made[c] : x = CodeOf(p)
      BY <2>1 DEF Live
    <3>2. p \in Post /\ x.space = p.space /\ x.num = p.num
      BY <3>1 DEF IInv, TypeOK, CodeOf
    <3>3. \A y \in Live : y.space = x.space => y.num < x.num
      BY <3>2 DEF Live, CodeOf, IInv, MadeOK
    <3>4. x.num = 1 \/ [space |-> x.space, num |-> x.num - 1] \in Live'
      <4>1. CASE p.num = 1
        BY <3>2, <4>1
      <4>2. CASE p.num # 1
        <5>1. PICK q \in Visible(c) : q.space = p.space /\ q.num = p.num - 1
          BY <4>2 DEF IInv, DenseOK, Follows
        <5>2. q \in posts'
          BY <5>1 DEF Commit
        <5> QED BY <3>2, <5>1, <5>2 DEF Live, CodeOf
      <4> QED BY <4>1, <4>2
    <3> QED BY <3>2, <3>3, <3>4 DEF Registry!Continues, Post, Number
  <2> QED BY <2>2, <2>3 DEF Registry!Next, Registry!Issue
<1>4. CASE op[c] = "delete"
  <2>1. made[c] = {} /\ Removing(c)
    BY <1>2, <1>4 DEF IInv, ControlOK, Removing, TicketRegime
  <2>2. PICK t \in posts : t.id = target[c]
    BY <2>1 DEF IInv, RemovalsDistinct
  <2>3. posts' = posts \ {t}
    BY <1>1, <2>1, <2>2 DEF Removed, IInv, IdsDistinct
  <2>4. Live' = Live \ {CodeOf(t)}
    BY <2>2, <2>3 DEF Live, IInv, NumbersDistinct
  <2> QED BY <2>2, <2>4 DEF Live, Registry!Next, Registry!Retire
<1> QED BY <1>3, <1>4

\* The allocation implements the registry: committed codes are numbered densely
\* from the largest one in use, none twice and none skipped.
THEOREM CodesAreDense == ASSUME TicketRegime PROVE Spec => DenseCodes
<1>1. Init => Registry!Init
  BY DEF Init, Registry!Init, Live
<1>2. IInv /\ [Next]_vars => [Registry!Next]_Live
  <2> SUFFICES ASSUME IInv, [Next]_vars PROVE Registry!Next \/ Live' = Live
    OBVIOUS
  <2>1. CASE \E c \in Clients : Commit(c)
    BY <2>1, CommitRefines
  <2>2. CASE ~\E c \in Clients : Commit(c)
    <3>1. posts' = posts
      BY <2>2, RegimeActions
         DEF Next, Statement, vars, postVars, rowVars, clientVars, BeginCreate, BeginPreview, Begin,
             BeginDelete, Fail, Rollback, LockRow, Available, ComputeCode, Draw, ReduceSequence, Insert,
             OutOfRange, InsertRefused, DeletePost, DeleteNotFound, DeadlockDetected, TicketRegime
    <3> QED BY <3>1 DEF Live
  <2> QED BY <2>1, <2>2
<1> QED BY <1>1, <1>2, InvariantHolds, PTL DEF Spec, DenseCodes, Registry!Spec
=============================================================================
