--------------------------- MODULE TicketRowProofs ---------------------------
(***************************************************************************)
(* What holds of TicketRow for any number of requests, any severities and  *)
(* any bound: the types, that the event log adds up to the row, that the   *)
(* deadline fits the row once its refreshes have run, and, while only the  *)
(* handlers that send one UPDATE are used, that the version counts the     *)
(* changes.                                                                *)
(***************************************************************************)
EXTENDS TicketRow, TLAPS

USE TicketAssumption

-----------------------------------------------------------------------------
(* The triggers *)

\* Two rows with no changed column have the same content, and conversely.
LEMMA ChangedContent ==
  ASSUME NEW old \in Row, NEW new \in Row
  PROVE  Changed(old, new) = {} <=> Content(new) = Content(old)
BY DEF Row, Changed, Tracked, Content

\* The version trigger yields a row with the same content, one version on if
\* the content has changed.
LEMMA VersionedRow ==
  ASSUME NEW old \in Row, NEW new \in Row
  PROVE  /\ Versioned(old, new) \in Row
         /\ Content(Versioned(old, new)) = Content(new)
         /\ Changed(old, new) # {} => Versioned(old, new).version = old.version + 1
         /\ Changed(old, new) = {} => Versioned(old, new) = new
BY DEF Row, Versioned, Content

\* The merge of two rows is a row.
LEMMA OverwriteRow ==
  ASSUME NEW old \in Row, NEW new \in Row, NEW ks
  PROVE  Overwrite(old, new, ks) \in Row
BY DEF Row, Overwrite, Columns, Tracked

\* When every change moves the version, the log keeps up with the row.
LEMMA LoggedContent ==
  ASSUME NEW old \in Row, NEW new \in Row, replay = Content(old),
         Changed(old, new) # {} => new.version = old.version + 1
  PROVE  Logged(old, new) = Content(new)
<1>1. CASE Changed(old, new) = {}
  <2>1. Content(new) = Content(old)
    BY <1>1, ChangedContent
  <2>2. Logged(old, new) = [k \in Tracked |-> replay[k]] \/ Logged(old, new) = replay
    BY <1>1 DEF Logged
  <2>3. [k \in Tracked |-> replay[k]] = replay
    BY DEF Tracked, Content
  <2> QED
    BY <2>1, <2>2, <2>3
<1>2. CASE Changed(old, new) # {}
  <2>1. new.version # old.version
    BY <1>2 DEF Row
  <2>2. Logged(old, new) = [k \in Tracked |-> IF k \in Changed(old, new) THEN new[k] ELSE replay[k]]
    BY <2>1 DEF Logged
  <2> QED
    BY <2>2 DEF Row, Changed, Tracked, Content
<1> QED
  BY <1>1, <1>2

LEMMA ContentLog ==
  ASSUME NEW r \in Row
  PROVE  Content(r) \in Log
BY DEF Row, Log, Content

LEMMA DeadlineTime ==
  ASSUME NEW s, NEW m \in SlaTimes
  PROVE  Deadline(s, m) \in SlaTimes
BY DEF Deadline

-----------------------------------------------------------------------------
(* The log adds up to the row *)

LEMMA InitLog == Init => LogInv
<1> SUFFICES ASSUME Init PROVE LogInv
  OBVIOUS
<1>1. row \in Row /\ work \in Row
  <2>1. PICK s \in StartStatuses, m \in SlaTimes, t \in Texts :
          row = [status |-> s, sla |-> m, deadline |-> m, text |-> t, version |-> 1]
    BY DEF Init
  <2>2. s \in Statuses
    OBVIOUS
  <2> QED
    BY <2>1, <2>2 DEF Init, Row
<1>2. replay = Content(row) /\ replay \in Log
  BY <1>1, ContentLog DEF Init
<1>3. TypeOK
  BY <1>1, <1>2 DEF Init, TypeOK, PCs
<1> QED
  BY <1>2, <1>3 DEF Init, LogInv, LogAddsUp

\* An update of the row by itself keeps row and log in step.
LEMMA UpdateLog ==
  ASSUME LogInv, NEW new \in Row, Update(new)
  PROVE  /\ row' \in Row /\ work' \in Row /\ replay' \in Log
         /\ replay' = Content(row')
         /\ locker = NoRequest /\ locker' = locker
<1>1. row' \in Row /\ work' = row'
  BY VersionedRow DEF Update, LogInv, TypeOK
<1>2. Changed(row, row') # {} => row'.version = row.version + 1
  <2>1. Content(row') = Content(new)
    BY VersionedRow DEF Update, LogInv, TypeOK
  <2>2. Changed(row, row') # {} => Changed(row, new) # {}
    BY <1>1, <2>1, ChangedContent DEF LogInv, TypeOK
  <2> QED
    BY <2>2, VersionedRow DEF Update, LogInv, TypeOK
<1>3. replay' = Content(row')
  BY <1>1, <1>2, LoggedContent DEF Update, LogInv, TypeOK, LogAddsUp
<1> QED
  BY <1>1, <1>3, ContentLog DEF Update

LEMMA NextLog == LogInv /\ [Next]_vars => LogInv'
<1> SUFFICES ASSUME LogInv, [Next]_vars PROVE LogInv'
  OBVIOUS
<1> USE DEF LogInv, TypeOK, LogAddsUp
<1>1. ASSUME NEW c \in Requests, PatchStatus(c) PROVE LogInv'
  <2>1. PICK s \in Statuses : Update([row EXCEPT !.status = s]) /\ StartRefresh(c, s)
    BY <1>1 DEF PatchStatus
  <2>2. [row EXCEPT !.status = s] \in Row
    BY DEF Row
  <2> QED
    BY <1>1, <2>1, <2>2, UpdateLog DEF PatchStatus, Arrive, StartRefresh
<1>2. ASSUME NEW c \in Requests, PatchField(c) PROVE LogInv'
  <2>1. PICK t \in Texts : Update([row EXCEPT !.text = t])
    BY <1>2 DEF PatchField
  <2>2. [row EXCEPT !.text = t] \in Row
    BY DEF Row
  <2> QED
    BY <1>2, <2>1, <2>2, UpdateLog DEF PatchField, Arrive, jobVars
<1>3. ASSUME NEW c \in Requests, NEW entity \in Row,
             NEW h \in {"save", "participants", "severity", "patch"}, Load(c, h, entity)
      PROVE  LogInv'
  BY <1>3 DEF Load, Arrive, tableVars, jobVars, PCs
<1>4. ASSUME NEW c \in Requests, LoadToSave(c) PROVE LogInv'
  <2>1. PICK t \in Texts : Load(c, "save", [row EXCEPT !.text = t])
    BY <1>4 DEF LoadToSave
  <2>2. [row EXCEPT !.text = t] \in Row
    BY DEF Row
  <2> QED
    BY <1>3, <2>1, <2>2
<1>5. ASSUME NEW c \in Requests, LoadParticipants(c) PROVE LogInv'
  BY <1>3, <1>5 DEF LoadParticipants
<1>6. ASSUME NEW c \in Requests, LoadSeverity(c) PROVE LogInv'
  <2>1. PICK m \in SlaTimes :
          Load(c, "severity", [row EXCEPT !.sla = m, !.deadline = Deadline(row.status, m)])
    BY <1>6 DEF LoadSeverity
  <2>2. [row EXCEPT !.sla = m, !.deadline = Deadline(row.status, m)] \in Row
    BY DeadlineTime DEF Row
  <2> QED
    BY <1>3, <2>1, <2>2
<1>7. ASSUME NEW c \in Requests, LoadPatch(c) PROVE LogInv'
  <2>1. PICK s \in Statuses, m \in SlaTimes : Load(c, "patch", [row EXCEPT !.status = s, !.sla = m])
    BY <1>7 DEF LoadPatch
  <2>2. [row EXCEPT !.status = s, !.sla = m] \in Row
    BY DEF Row
  <2> QED
    BY <1>3, <2>1, <2>2
<1>8. ASSUME NEW c \in Requests, Compare(c) PROVE LogInv'
  BY <1>8 DEF Compare, tableVars, jobVars, PCs
<1>9. ASSUME NEW c \in Requests, Write(c) PROVE LogInv'
  <2> DEFINE new == Overwrite(row, mem[c], cols[c])
  <2>1. mem[c] \in Row
    BY <1>9 DEF Write
  <2>2. new \in Row
    BY <2>1, OverwriteRow
  <2>3. work' = Versioned(row, new)
    BY <1>9 DEF Write
  <2>4. work' \in Row /\ (Changed(row, work') # {} => work'.version = row.version + 1)
    <3> HIDE DEF new
    <3>1. work' \in Row /\ Content(work') = Content(new)
      BY <2>2, <2>3, VersionedRow
    <3>2. Changed(row, work') # {} => Changed(row, new) # {}
      BY <2>2, <3>1, ChangedContent
    <3> QED
      BY <2>2, <2>3, <3>1, <3>2, VersionedRow
  <2> QED
    BY <1>9, <2>4 DEF Write, jobVars, PCs, Changed
<1>10. ASSUME NEW c \in Requests, Spawn(c) PROVE LogInv'
  <2>1. row.status \in Statuses /\ work.status \in Statuses
    BY DEF Row
  <2> QED
    BY <1>10, <2>1 DEF Spawn, StartRefresh, tableVars, PCs
<1>11. ASSUME NEW c \in Requests, Commit(c) PROVE LogInv'
  <2>1. CASE locker = c
    <3>1. replay' = Content(work)
      BY <1>11, <2>1, LoggedContent DEF Commit
    <3> QED
      BY <1>11, <2>1, <3>1, ContentLog DEF Commit, Answer, FreeLock, jobVars, PCs
  <2>2. CASE locker # c
    BY <1>11, <2>2 DEF Commit, Answer, FreeLock, jobVars, PCs
  <2> QED
    BY <2>1, <2>2
<1>12. ASSUME NEW c \in Requests, Fail(c) PROVE LogInv'
  BY <1>12 DEF Fail, Answer, FreeLock, jobVars, PCs
<1>13. ASSUME NEW c \in Requests, ReadSla(c) PROVE LogInv'
  <2>1. Deadline(base[c], row.sla) \in SlaTimes
    BY DeadlineTime DEF Row
  <2> QED
    BY <1>13, <2>1 DEF ReadSla, tableVars, memoryVars
<1>14. ASSUME NEW c \in Requests, WriteDeadline(c) PROVE LogInv'
  <2>1. [row EXCEPT !.deadline = due[c]] \in Row
    BY DEF Row
  <2> QED
    BY <1>14, <2>1, UpdateLog DEF WriteDeadline, EndRefresh, memoryVars
<1>15. ASSUME NEW c \in Requests, RefreshFails(c) PROVE LogInv'
  BY <1>15 DEF RefreshFails, EndRefresh, memoryVars, tableVars
<1>16. CASE UNCHANGED vars
  BY <1>16 DEF vars, tableVars, memoryVars, jobVars
<1> QED
  BY <1>1, <1>2, <1>4, <1>5, <1>6, <1>7, <1>8, <1>9, <1>10, <1>11, <1>12, <1>13, <1>14,
     <1>15, <1>16 DEF Next, Continue, Refresh

\* The invariant that carries the others.
THEOREM LogInvariant == Spec => []LogInv
BY InitLog, NextLog, PTL DEF Spec

\* Types, for every value of the constants.
THEOREM TicketTypes == Spec => []TypeOK
BY LogInvariant, PTL DEF LogInv

\* The events of a ticket add up to its row, for any number of requests.
THEOREM LogAlwaysAddsUp == Spec => []LogAddsUp
BY LogInvariant, PTL DEF LogInv

-----------------------------------------------------------------------------
(* The version, while no handler saves an entity *)

\* Only PatchStatus and PatchField are used; a request is one step.
DirectInv == LogInv /\ locker = NoRequest /\ pc = [c \in Requests |-> "idle"]

LEMMA DirectInvariant ==
  ASSUME Handlers \subseteq {"status", "field"}
  PROVE  Spec => []DirectInv
<1>1. Init => DirectInv
  BY InitLog DEF Init, DirectInv
<1>2. DirectInv /\ [Next]_vars => DirectInv'
  <2> SUFFICES ASSUME DirectInv, [Next]_vars PROVE DirectInv'
    OBVIOUS
  <2>1. LogInv'
    BY NextLog DEF DirectInv
  <2>2. ASSUME NEW c \in Requests, PatchStatus(c) \/ PatchField(c) \/ ReadSla(c) \/ WriteDeadline(c) \/ RefreshFails(c)
        PROVE  locker' = locker /\ pc' = pc
    BY <2>2 DEF PatchStatus, PatchField, ReadSla, WriteDeadline, RefreshFails, Update, EndRefresh, tableVars, memoryVars
  <2>3. ASSUME NEW c \in Requests,
               LoadToSave(c) \/ LoadParticipants(c) \/ LoadSeverity(c) \/ LoadPatch(c)
        PROVE  FALSE
    BY <2>3 DEF LoadToSave, LoadParticipants, LoadSeverity, LoadPatch, Load, Arrive
  <2>4. ASSUME NEW c \in Requests, Continue(c) \/ Fail(c) PROVE FALSE
    BY <2>4 DEF DirectInv, Continue, Compare, Write, Spawn, Commit, Fail
  <2>5. CASE UNCHANGED vars
    BY <2>1, <2>5 DEF DirectInv, vars, tableVars, memoryVars
  <2> QED
    BY <2>1, <2>2, <2>3, <2>4, <2>5 DEF DirectInv, Next, Refresh
<1> QED
  BY <1>1, <1>2, PTL DEF Spec

\* While only status, name, queue, type and impact are patched, the version
\* counts the meaningful changes, whatever the requests do at the same time.
THEOREM DirectVersionCounts ==
  ASSUME Handlers \subseteq {"status", "field"}
  PROVE  Spec => VersionCounts
<1> DEFINE Step == row'.version = IF Content(row') # Content(row) THEN row.version + 1 ELSE row.version
<1>1. ASSUME DirectInv, NEW new \in Row, new.version = row.version, Update(new)
      PROVE  Step
  <2>1. row \in Row /\ row' = Versioned(row, new)
    BY <1>1 DEF DirectInv, LogInv, TypeOK, Update
  <2>2. Content(row') = Content(new)
    BY <2>1, VersionedRow
  <2>3. Content(row') # Content(row) <=> Changed(row, new) # {}
    BY <2>1, <2>2, ChangedContent
  <2> QED
    BY <1>1, <2>1, <2>3, VersionedRow
<1>2. DirectInv /\ [Next]_vars => [Step]_row
  <2> SUFFICES ASSUME DirectInv, Next, row' # row PROVE Step
    BY DEF vars, tableVars
  <2>1. row \in Row /\ (\A c \in Requests : due[c] \in SlaTimes)
    BY DEF DirectInv, LogInv, TypeOK
  <2>2. ASSUME NEW c \in Requests, PatchStatus(c) PROVE Step
    <3>1. PICK s \in Statuses : Update([row EXCEPT !.status = s])
      BY <2>2 DEF PatchStatus
    <3>2. [row EXCEPT !.status = s] \in Row /\ [row EXCEPT !.status = s].version = row.version
      BY <2>1 DEF Row
    <3> QED
      BY <1>1, <3>1, <3>2
  <2>3. ASSUME NEW c \in Requests, PatchField(c) PROVE Step
    <3>1. PICK t \in Texts : Update([row EXCEPT !.text = t])
      BY <2>3 DEF PatchField
    <3>2. [row EXCEPT !.text = t] \in Row /\ [row EXCEPT !.text = t].version = row.version
      BY <2>1 DEF Row
    <3> QED
      BY <1>1, <3>1, <3>2
  <2>4. ASSUME NEW c \in Requests, WriteDeadline(c) PROVE Step
    <3>1. /\ [row EXCEPT !.deadline = due[c]] \in Row
          /\ [row EXCEPT !.deadline = due[c]].version = row.version
      BY <2>1 DEF Row
    <3> QED
      BY <1>1, <2>4, <3>1 DEF WriteDeadline
  <2>5. ASSUME NEW c \in Requests, ReadSla(c) \/ RefreshFails(c) PROVE FALSE
    BY <2>5 DEF ReadSla, RefreshFails, tableVars
  <2>6. ASSUME NEW c \in Requests,
               LoadToSave(c) \/ LoadParticipants(c) \/ LoadSeverity(c) \/ LoadPatch(c)
        PROVE  FALSE
    BY <2>6 DEF LoadToSave, LoadParticipants, LoadSeverity, LoadPatch, Load, Arrive
  <2>7. ASSUME NEW c \in Requests, Continue(c) \/ Fail(c) PROVE FALSE
    BY <2>7 DEF DirectInv, Continue, Compare, Write, Spawn, Commit, Fail
  <2> QED
    BY <2>2, <2>3, <2>4, <2>5, <2>6, <2>7 DEF Next, Refresh
<1> QED
  BY <1>2, DirectInvariant, PTL DEF Spec, VersionCounts
-----------------------------------------------------------------------------
(* The deadline, while requests follow one another *)

Busy(c) == pc[c] # "idle" \/ job[c] # "none"
Fits(r) == r.deadline = Deadline(r.status, r.sla)
Differ(c) == {k \in Columns : mem[c][k] # row[k]}

\* What is so at every await of a request that nothing has overlapped: it is
\* alone, the row fits until a patch of the status has changed it, and what a
\* handler means to save, or a refresh to write, was made from the row as it is.
Alone == \A c, d \in Requests : Busy(c) /\ Busy(d) => c = d
RowFits == (\A c \in Requests : job[c] = "none") => Fits(row)
RefreshCurrent == \A c \in Requests :
  /\ job[c] = "reading" => base[c] = row.status
  /\ job[c] = "writing" => due[c] = Deadline(row.status, row.sla)
SaveCurrent == \A c \in Requests :
  /\ pc[c] # "idle" => job[c] = "none" /\ op[c] # "patch" /\ pc[c] # "spawning"
  /\ pc[c] \in {"loaded", "writing"} => Fits(mem[c])
  /\ pc[c] = "writing" => cols[c] = Differ(c)
LockHeld == locker # NoRequest => pc[locker] = "committing" /\ Fits(work)

SettledInv ==
  /\ LogInv
  /\ clean => Alone /\ RowFits /\ RefreshCurrent /\ SaveCurrent /\ LockHeld

\* The tables of a request that starts alone
LEMMA ArriveAlone ==
  ASSUME SettledInv, NEW c \in Requests, NEW h, Arrive(c, h), clean'
  PROVE  /\ clean /\ h # "patch"
         /\ \A d \in Requests : pc[d] = "idle" /\ job[d] = "none"
         /\ Fits(row) /\ locker = NoRequest
BY DEF SettledInv, LogInv, TypeOK, Arrive, Alone, RowFits, LockHeld, Busy

\* Both triggers leave the columns that say whether a row fits.
LEMMA VersionedFits ==
  ASSUME NEW old \in Row, NEW new \in Row
  PROVE  /\ Versioned(old, new).status = new.status /\ Versioned(old, new).sla = new.sla
         /\ Versioned(old, new).deadline = new.deadline
         /\ Fits(Versioned(old, new)) <=> Fits(new)
BY DEF Row, Versioned, Fits

LEMMA UpdateFits ==
  ASSUME row \in Row, NEW new \in Row, Update(new)
  PROVE  /\ row'.status = new.status
         /\ Fits(row)' <=> Fits(new)
         /\ locker = NoRequest /\ locker' = NoRequest
<1>1. row' = Versioned(row, new) /\ locker = NoRequest /\ locker' = NoRequest
  BY DEF Update
<1>2. row'.status = new.status /\ row'.sla = new.sla /\ row'.deadline = new.deadline
  BY <1>1, VersionedFits
<1> QED
  BY <1>1, <1>2 DEF Fits

\* Saving what differs from the row gives what is in memory.
LEMMA OverwriteFits ==
  ASSUME NEW old \in Row, NEW new \in Row, Fits(new)
  PROVE  Fits(Overwrite(old, new, {k \in Columns : new[k] # old[k]}))
BY DEF Row, Overwrite, Columns, Tracked, Fits

LEMMA InitSettled ==
  ASSUME "Finished" \notin StartStatuses
  PROVE  Init => SettledInv
<1> SUFFICES ASSUME Init PROVE SettledInv
  OBVIOUS
<1>1. LogInv
  BY InitLog
<1>2. Fits(row)
  BY DEF Init, Fits, Deadline
<1> QED
  BY <1>1, <1>2 DEF Init, SettledInv, Alone, Busy, RowFits, RefreshCurrent, SaveCurrent, LockHeld

LEMMA NextSettled == SettledInv /\ [Next]_vars => SettledInv'
<1> SUFFICES ASSUME SettledInv, [Next]_vars, clean'
             PROVE  (Alone /\ RowFits /\ RefreshCurrent /\ SaveCurrent /\ LockHeld)'
  BY NextLog DEF SettledInv
<1> DEFINE Current == Alone /\ RowFits /\ RefreshCurrent /\ SaveCurrent /\ LockHeld
<1>a. LogInv /\ TypeOK /\ row \in Row /\ work \in Row
  BY DEF SettledInv, LogInv, TypeOK
<1> USE DEF TypeOK
<1>1. ASSUME NEW c \in Requests, PatchStatus(c) PROVE Current'
  <2>1. PICK s \in Statuses : Update([row EXCEPT !.status = s]) /\ StartRefresh(c, s)
    BY <1>1 DEF PatchStatus
  <2>2. Arrive(c, "status") /\ UNCHANGED <<pc, op, mem, cols>>
    BY <1>1 DEF PatchStatus
  <2>3. /\ \A d \in Requests : pc[d] = "idle" /\ job[d] = "none"
        /\ locker = NoRequest
    BY <2>2, ArriveAlone
  <2>4. [row EXCEPT !.status = s] \in Row /\ [row EXCEPT !.status = s].status = s
    BY <1>a DEF Row
  <2>5. row'.status = s /\ locker' = NoRequest
    BY <1>a, <2>1, <2>4, UpdateFits
  <2>6. job' = [job EXCEPT ![c] = "reading"] /\ base' = [base EXCEPT ![c] = s]
    BY <2>1 DEF StartRefresh
  <2> QED
    BY <1>a, <2>2, <2>3, <2>5, <2>6 DEF Alone, Busy, RowFits, RefreshCurrent, SaveCurrent, LockHeld
<1>2. ASSUME NEW c \in Requests, PatchField(c) PROVE Current'
  <2>1. PICK t \in Texts : Update([row EXCEPT !.text = t])
    BY <1>2 DEF PatchField
  <2>2. Arrive(c, "field") /\ UNCHANGED <<pc, op, mem, cols, jobVars>>
    BY <1>2 DEF PatchField
  <2>3. /\ \A d \in Requests : pc[d] = "idle" /\ job[d] = "none"
        /\ locker = NoRequest /\ Fits(row)
    BY <2>2, ArriveAlone
  <2>4. [row EXCEPT !.text = t] \in Row /\ Fits([row EXCEPT !.text = t])
    BY <1>a, <2>3 DEF Row, Fits
  <2>5. Fits(row)' /\ locker' = NoRequest
    BY <1>a, <2>1, <2>4, UpdateFits
  <2> QED
    BY <1>a, <2>2, <2>3, <2>5 DEF Alone, Busy, RowFits, RefreshCurrent, SaveCurrent, LockHeld, jobVars
<1>3. ASSUME NEW c \in Requests, NEW h \in {"save", "participants", "severity", "patch"},
             NEW entity \in Row, Fits(row) /\ h # "patch" => Fits(entity), Load(c, h, entity)
      PROVE  Current'
  <2>1. Arrive(c, h)
    BY <1>3 DEF Load
  <2>2. /\ h # "patch" /\ \A d \in Requests : pc[d] = "idle" /\ job[d] = "none"
        /\ locker = NoRequest /\ Fits(row)
    BY <2>1, ArriveAlone
  <2>3. Fits(row)' /\ UNCHANGED <<row, work, locker, job, base, due, cols>>
    BY <1>3, <2>2 DEF Load, tableVars, jobVars, Fits
  <2>4. /\ pc' = [pc EXCEPT ![c] = "loaded"] /\ op' = [op EXCEPT ![c] = h]
        /\ mem' = [mem EXCEPT ![c] = entity] /\ Fits(entity)
    BY <1>3, <2>2 DEF Load
  <2>5. SaveCurrent'
    <3>1. mem'[c] = entity
      BY <1>a, <2>4
    <3>2. Fits(mem[c])'
      BY <2>4, <3>1 DEF Fits
    <3> QED
      BY <1>a, <2>2, <2>3, <2>4, <3>2 DEF SaveCurrent
  <2> QED
    BY <1>a, <2>2, <2>3, <2>4, <2>5 DEF Alone, Busy, RowFits, RefreshCurrent, LockHeld
<1>4. ASSUME NEW c \in Requests, LoadToSave(c) PROVE Current'
  <2>1. PICK t \in Texts : Load(c, "save", [row EXCEPT !.text = t])
    BY <1>4 DEF LoadToSave
  <2>2. [row EXCEPT !.text = t] \in Row /\ (Fits(row) => Fits([row EXCEPT !.text = t]))
    BY <1>a DEF Row, Fits
  <2> QED
    BY <1>3, <2>1, <2>2
<1>5. ASSUME NEW c \in Requests, LoadParticipants(c) PROVE Current'
  BY <1>a, <1>3, <1>5 DEF LoadParticipants
<1>6. ASSUME NEW c \in Requests, LoadSeverity(c) PROVE Current'
  <2>1. PICK m \in SlaTimes :
          Load(c, "severity", [row EXCEPT !.sla = m, !.deadline = Deadline(row.status, m)])
    BY <1>6 DEF LoadSeverity
  <2>2. /\ [row EXCEPT !.sla = m, !.deadline = Deadline(row.status, m)] \in Row
        /\ Fits([row EXCEPT !.sla = m, !.deadline = Deadline(row.status, m)])
    BY <1>a, DeadlineTime DEF Row, Fits
  <2> QED
    BY <1>3, <2>1, <2>2
<1>7. ASSUME NEW c \in Requests, LoadPatch(c) PROVE Current'
  <2>1. PICK s \in Statuses, m \in SlaTimes : Load(c, "patch", [row EXCEPT !.status = s, !.sla = m])
    BY <1>7 DEF LoadPatch
  <2>2. [row EXCEPT !.status = s, !.sla = m] \in Row
    BY <1>a DEF Row
  <2> QED
    BY <1>3, <2>1, <2>2
<1>8. ASSUME NEW c \in Requests, Compare(c) PROVE Current'
  <2>1. clean /\ op[c] # "patch" /\ Fits(mem[c]) /\ Current
    BY <1>8 DEF Compare, SettledInv, SaveCurrent
  <2>2. UNCHANGED <<row, work, locker, op, mem, job, base, due>>
    BY <1>8 DEF Compare, tableVars, jobVars
  <2>3. /\ cols' = [cols EXCEPT ![c] = Differ(c)]
        /\ pc' = [pc EXCEPT ![c] = IF Differ(c) # {} THEN "writing" ELSE "committing"]
    BY <1>8, <1>a, <2>1 DEF Compare, Differ
  <2>4. \A d \in Requests : Differ(d)' = Differ(d) /\ Fits(mem[d])' = Fits(mem[d])
    BY <2>2 DEF Differ, Fits
  <2>5. SaveCurrent'
    BY <1>8, <1>a, <2>1, <2>2, <2>3, <2>4 DEF Compare, SaveCurrent
  <2>6. Fits(row)' = Fits(row) /\ Fits(work)' = Fits(work)
    BY <2>2 DEF Fits
  <2> QED
    BY <1>8, <1>a, <2>1, <2>2, <2>3, <2>5, <2>6 DEF Compare, Alone, Busy, RowFits, RefreshCurrent, LockHeld
<1>9. ASSUME NEW c \in Requests, Write(c) PROVE Current'
  <2>1. clean /\ op[c] # "patch" /\ Fits(mem[c]) /\ cols[c] = Differ(c) /\ mem[c] \in Row /\ Current
    BY <1>9 DEF Write, SettledInv, SaveCurrent, LogInv
  <2>2. UNCHANGED <<row, op, mem, cols, job, base, due>>
    BY <1>9 DEF Write, jobVars
  <2>3. /\ pc' = [pc EXCEPT ![c] = "committing"] /\ locker' = c
        /\ work' = Versioned(row, Overwrite(row, mem[c], Differ(c)))
    BY <1>9, <2>1 DEF Write
  <2>4. Fits(work)'
    <3>1. Overwrite(row, mem[c], Differ(c)) \in Row /\ Fits(Overwrite(row, mem[c], Differ(c)))
      BY <1>a, <2>1, OverwriteRow, OverwriteFits DEF Differ
    <3>2. Fits(Versioned(row, Overwrite(row, mem[c], Differ(c))))
      BY <1>a, <3>1, VersionedFits
    <3> QED
      BY <2>3, <3>2 DEF Fits
  <2>5. /\ \A d \in Requests : Differ(d)' = Differ(d) /\ Fits(mem[d])' = Fits(mem[d])
        /\ Fits(row)' = Fits(row)
    BY <2>2 DEF Differ, Fits
  <2> QED
    BY <1>9, <1>a, <2>1, <2>2, <2>3, <2>4, <2>5
       DEF Write, SaveCurrent, Alone, Busy, RowFits, RefreshCurrent, LockHeld
<1>10. ASSUME NEW c \in Requests, Spawn(c) PROVE Current'
  BY <1>10 DEF Spawn, SettledInv, SaveCurrent
<1>11. ASSUME NEW c \in Requests, Commit(c) PROVE Current'
  <2>1. clean /\ job[c] = "none" /\ pc[c] # "idle" /\ Current
    BY <1>11 DEF Commit, SettledInv, SaveCurrent
  <2>2. \A d \in Requests : job[d] = "none" /\ (d # c => pc[d] = "idle")
    BY <2>1 DEF Alone, Busy
  <2>3. Fits(row)' /\ locker' = NoRequest
    <3>1. CASE locker = c
      BY <1>11, <2>1, <3>1 DEF Commit, Answer, FreeLock, LockHeld, Fits
    <3>2. CASE locker # c
      BY <1>11, <1>a, <2>1, <2>2, <3>2 DEF Commit, Answer, FreeLock, LockHeld, RowFits, Fits
    <3> QED
      BY <3>1, <3>2
  <2>4. pc' = [pc EXCEPT ![c] = "idle"] /\ UNCHANGED <<job, base, due>>
    BY <1>11 DEF Commit, Answer, jobVars
  <2> QED
    BY <1>a, <2>2, <2>3, <2>4 DEF SaveCurrent, Alone, Busy, RowFits, RefreshCurrent, LockHeld
<1>12. ASSUME NEW c \in Requests, Fail(c) PROVE Current'
  BY <1>12 DEF Fail
<1>13. ASSUME NEW c \in Requests, ReadSla(c) PROVE Current'
  <2>1. clean /\ Current /\ base[c] = row.status
    BY <1>13 DEF ReadSla, memoryVars, SettledInv, RefreshCurrent
  <2>2. UNCHANGED <<row, work, locker, pc, op, mem, cols, base>>
    BY <1>13 DEF ReadSla, tableVars, memoryVars
  <2>3. /\ due' = [due EXCEPT ![c] = Deadline(row.status, row.sla)]
        /\ job' = [job EXCEPT ![c] = "writing"] /\ job[c] = "reading"
    BY <1>13, <2>1 DEF ReadSla
  <2>4. \A d \in Requests : Differ(d)' = Differ(d) /\ Fits(mem[d])' = Fits(mem[d])
    BY <2>2 DEF Differ, Fits
  <2>5. Fits(work)' = Fits(work)
    BY <2>2 DEF Fits
  <2> QED
    BY <1>a, <2>1, <2>2, <2>3, <2>4, <2>5
       DEF SaveCurrent, Alone, Busy, RowFits, RefreshCurrent, LockHeld
<1>14. ASSUME NEW c \in Requests, WriteDeadline(c) PROVE Current'
  <2>1. clean /\ Current /\ due[c] = Deadline(row.status, row.sla) /\ job[c] = "writing"
    BY <1>14 DEF WriteDeadline, SettledInv, RefreshCurrent
  <2>2. \A d \in Requests : pc[d] = "idle" /\ (d # c => job[d] = "none")
    BY <2>1 DEF Alone, Busy, SaveCurrent
  <2>3. [row EXCEPT !.deadline = due[c]] \in Row /\ Fits([row EXCEPT !.deadline = due[c]])
    BY <1>a, <2>1, DeadlineTime DEF Row, Fits
  <2>4. Fits(row)' /\ locker' = NoRequest
    BY <1>14, <1>a, <2>3, UpdateFits DEF WriteDeadline
  <2>5. job' = [job EXCEPT ![c] = "none"] /\ UNCHANGED pc
    BY <1>14 DEF WriteDeadline, EndRefresh
  <2> QED
    BY <1>a, <2>2, <2>4, <2>5 DEF SaveCurrent, Alone, Busy, RowFits, RefreshCurrent, LockHeld
<1>15. ASSUME NEW c \in Requests, RefreshFails(c) PROVE Current'
  BY <1>15 DEF RefreshFails
<1>16. CASE UNCHANGED vars
  <2>1. UNCHANGED <<row, work, locker, pc, op, mem, cols, clean, job, base, due>>
    BY <1>16 DEF vars, tableVars, memoryVars, jobVars
  <2>2. /\ \A d \in Requests : Differ(d)' = Differ(d) /\ Fits(mem[d])' = Fits(mem[d])
        /\ Fits(work)' = Fits(work) /\ Fits(row)' = Fits(row)
    BY <2>1 DEF Differ, Fits
  <2> QED
    BY <2>1, <2>2 DEF SettledInv, SaveCurrent, Alone, Busy, RowFits, RefreshCurrent, LockHeld
<1> QED
  BY <1>1, <1>2, <1>4, <1>5, <1>6, <1>7, <1>8, <1>9, <1>10, <1>11, <1>12, <1>13, <1>14,
     <1>15, <1>16 DEF Next, Continue, Refresh

\* Between requests that nothing has overlapped and no failure has cut short, the
\* deadline of a ticket fits its status and severity, if tickets are not created
\* in a finished status: create does not freeze the clock, only the patches do.
THEOREM SettledDeadline ==
  ASSUME "Finished" \notin StartStatuses
  PROVE  Spec => []Settled
<1>1. SettledInv => Settled
  BY DEF SettledInv, Settled, Idle, RowFits, Fits, Deadline
<1> QED
  BY <1>1, InitSettled, NextSettled, PTL DEF Spec
=============================================================================
