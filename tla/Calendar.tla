------------------------------ MODULE Calendar ------------------------------
(***************************************************************************)
(* One calendar of a company: its days, the weekly pattern of repeated     *)
(* holidays on them, and the special holidays and special working days     *)
(* that override single days.                                              *)
(*                                                                         *)
(* A date is a number; a week has DaysInWeek days and every real year has  *)
(* YearLength.  The pattern is stored nowhere: it is what the flags of the *)
(* days say, so a day without its override, and a year that is added, are  *)
(* made from other days.  A save is one step here, so nothing is said of   *)
(* the columns two overlapping saves leave in one row.                     *)
(***************************************************************************)
EXTENDS RequestPlans, FiniteSets

CONSTANTS
  DaysInWeek, YearLength,
  FirstDate,   \* the date the calendar is created for, in real year 0
  NewStarts,   \* the year starts a calendar may be moved to
  Patterns,    \* weekday -> type: the patterns that are asked for
  LastToday,   \* bound: days that pass
  MaxRows      \* bound: days inserted in all

ASSUME CalendarAssumption ==
  /\ DaysInWeek \in Nat \ {0} /\ YearLength \in Nat \ {0}
  /\ FirstDate \in Nat /\ NewStarts \subseteq Nat /\ LastToday \in Nat /\ MaxRows \in Nat
ASSUME YearAssumption == DaysInWeek <= YearLength

Weekdays == 0..(DaysInWeek - 1)
Weekday(date) == date % DaysInWeek
YearOf(date) == date \div YearLength

Types == {"FULL", "HALF"}
None == "none"
ASSUME PatternAssumption == Patterns \subseteq [Weekdays -> Types \cup {None}]

VARIABLES
  exists,    \* the row of the calendar
  days,      \* its rows of calendar_days by id
  made,      \* ids given out
  followed,  \* resources use the calendar
  today,
  mixed      \* weekdays an edit of the pattern has split: their days in the
             \* past, or in another year, say something else

world == <<exists, days, made, followed, mixed>>
vars  == <<world, today, requestVars>>

Rows == DOMAIN days

-----------------------------------------------------------------------------
(* The flags of a day *)

\* composeDayFlags: the one place where the flags are decided.
Compose(holiday, weekend, special, type) ==
  [isHoliday |-> holiday, isWeekend |-> weekend, isSpecialWorkingDay |-> special,
   dayType |-> type,
   isWorkingDay |-> ~special /\ (type = "HALF" \/ (~holiday /\ ~weekend))]
Default == Compose(FALSE, FALSE, FALSE, "FULL")

Overridden(f) == f.isHoliday \/ f.isSpecialWorkingDay

\* What becomes of a day when the pattern gives its weekday the type t, or
\* takes the weekday out.  A bug would leave the special working day alone.
StaysSpecial(f) == IF Overridden(f) THEN [f EXCEPT !.isWeekend = FALSE] ELSE Default
OutOfPattern(f) == IF f.isHoliday THEN Compose(TRUE, FALSE, FALSE, f.dayType) ELSE Default
InPattern(f, t) ==
  IF Overridden(f) THEN Compose(f.isHoliday, TRUE, f.isSpecialWorkingDay, f.dayType)
  ELSE Compose(FALSE, TRUE, FALSE, t)

\* What a clean day, or one of the type it has underneath, becomes when it is
\* asked r.
Changed(r, f, base) ==
  CASE r.op = "holiday" -> Compose(TRUE, f.isWeekend, FALSE, r.type)
    [] r.op = "working" -> Compose(FALSE, TRUE, TRUE, r.type)
    [] r.op = "restore" -> Compose(FALSE, f.isWeekend, FALSE, IF f.isWeekend THEN base ELSE "FULL")

\* Whether the day may be asked r, and on top of which repeated holiday.
Accepts(r, f) ==
  CASE r.op = "holiday" -> ~f.isSpecialWorkingDay
    [] r.op = "working" -> f.isWeekend /\ ~f.isHoliday
    [] r.op = "restore" -> /\ r.kind = "holidays" => f.isHoliday
                           /\ r.kind = "specialWorkingDay" => f.isSpecialWorkingDay
AcceptsBase(r, f, base) ==
  CASE r.op = "holiday" -> f.isWeekend => base = "HALF" /\ r.type = "FULL"
    [] r.op = "working" -> base = "FULL" \/ r.type = "FULL"
    [] r.op = "restore" -> TRUE

-----------------------------------------------------------------------------
(* What other days say *)

OnWeekday(w) == {i \in Rows : Weekday(days[i].date) = w}
Weekends(w) == {i \in OnWeekday(w) : days[i].flags.isWeekend}
TypesOf(S) == {days[i].flags.dayType : i \in S}
CleanOf(S) == {i \in S : ~Overridden(days[i].flags)}

\* resolveWeekendBaseType: some clean day of the weekday, of whatever year, else
\* a full holiday.  A bug would take an overridden one.
AnySibling(w) == IF Weekends(w) = {} THEN {"FULL"} ELSE TypesOf(Weekends(w))
BaseTypes(w) == IF CleanOf(Weekends(w)) = {} THEN {"FULL"} ELSE TypesOf(CleanOf(Weekends(w)))

\* readWeekendPattern: the rows come in any order, and the days of the past too.
PatternTypes(w) ==
  IF Weekends(w) = {} THEN {None}
  ELSE IF CleanOf(Weekends(w)) = {} THEN TypesOf(Weekends(w))
  ELSE TypesOf(CleanOf(Weekends(w)))

-----------------------------------------------------------------------------
(* The days of a year *)

\* buildYearDays: a week belongs to the year when its middle lies before the
\* same date one year later.
WeekCount == Cardinality({k \in 0..YearLength : k * DaysInWeek + DaysInWeek \div 2 < YearLength})
YearDays == WeekCount * DaysInWeek

\* The rows of n years from the date on, with the ids after first, on the
\* pattern p.
YearStart(date, k) == date + (k \div YearDays) * YearDays
Built(date, n, first, p) ==
  [i \in (first + 1)..(first + n * YearDays) |->
     LET k == i - first - 1
         t == p[Weekday(date + k)]
     IN [date |-> date + k, start |-> YearStart(date, k),
         flags |-> IF t = None THEN Default ELSE Compose(FALSE, TRUE, FALSE, t)]]
ASSUME RowsAssumption == YearDays <= MaxRows
NoPattern == [w \in Weekdays |-> None]

Over(rows) == [i \in Rows \cup DOMAIN rows |-> IF i \in DOMAIN rows THEN rows[i] ELSE days[i]]

Init ==
  /\ exists = TRUE
  /\ \E p \in Patterns \cup {NoPattern} : days = Built(FirstDate, 1, 0, p)
  /\ made = YearDays
  /\ followed = FALSE /\ today = 0 /\ mixed = {}
  /\ InitRequests

-----------------------------------------------------------------------------
(* Requests about one day *)

\* assertNotPast.  A bug would allow yesterday.
BeforeYesterday(date) == date < today - 1
Past(date) == date < today

\* The day is loaded and may be asked r; the repeated holiday under an override
\* is looked up first, and then the day is saved.
AskDay(c, i, r) ==
  LET f == days[i].flags
      m == [rows |-> [j \in {i} |-> days[i]], asof |-> today]
  IN /\ ~Past(days[i].date)
     /\ Accepts(r, f)
     /\ IF f.isWeekend /\ (r.op = "restore" \/ Overridden(f))
          THEN Arrive(c, r, m, <<"readBase", "saveDays">>)
          ELSE /\ AcceptsBase(r, f, f.dayType)
               /\ Arrive(c, r, [m EXCEPT !.rows[i].flags = Changed(r, f, f.dayType)], <<"saveDays">>)
     /\ UNCHANGED <<world, today>>

SpecialHoliday(c) == \E i \in Rows, t \in Types : AskDay(c, i, [op |-> "holiday", type |-> t])
SpecialWorkingDay(c) == \E i \in Rows, t \in Types : AskDay(c, i, [op |-> "working", type |-> t])
RemoveOverride(c) == \E i \in Rows, k \in {"holidays", "specialWorkingDay", "other"} :
  AskDay(c, i, [op |-> "restore", kind |-> k])

ReadBase(c) ==
  /\ At(c, "readBase")
  /\ \E i \in DOMAIN mem[c].rows :
       LET day == mem[c].rows[i] IN
       \E base \in BaseTypes(Weekday(day.date)) :
         IF AcceptsBase(req[c], day.flags, base)
           THEN Proceed(c, [mem[c] EXCEPT !.rows[i].flags = Changed(req[c], day.flags, base)])
           ELSE End(c)
  /\ UNCHANGED <<world, today>>

-----------------------------------------------------------------------------
(* Requests about the pattern *)

\* The days that get other flags by the edit, from today on.
AskPattern(c, r, flags) ==
  LET changed == {i \in DOMAIN flags : ~Past(days[i].date) /\ flags[i] # days[i].flags} IN
  /\ exists /\ changed # {}
  /\ Arrive(c, r, [rows |-> [i \in changed |-> [days[i] EXCEPT !.flags = flags[i]]], asof |-> today],
            <<"saveDays">>)
  /\ UNCHANGED <<world, today>>

\* A new pattern for all years, or for one.
Years == {YearOf(days[i].date) : i \in Rows}
Patterned(f, t) == IF t = None THEN OutOfPattern(f) ELSE InPattern(f, t)
RepeatedHoliday(c) == \E p \in Patterns, ys \in {Years} \cup {{y} : y \in Years} :
  AskPattern(c, [op |-> "repeat"],
             [i \in {j \in Rows : YearOf(days[j].date) \in ys} |->
                Patterned(days[i].flags, p[Weekday(days[i].date)])])

DropRepeatedHoliday(c) == \E w \in Weekdays :
  AskPattern(c, [op |-> "drop"], [i \in OnWeekday(w) |-> OutOfPattern(days[i].flags)])

\* The days of a weekday say the same: weekend or not, and those without an
\* override the same type.
Agree(ds, w) ==
  LET On == {i \in DOMAIN ds : Weekday(ds[i].date) = w} IN
  \A i, j \in On :
    LET f == ds[i].flags  g == ds[j].flags IN
    /\ f.isWeekend = g.isWeekend
    /\ ~Overridden(f) /\ ~Overridden(g) => f.dayType = g.dayType

\* save: a row that is gone is inserted again, unless the calendar is gone too.
SaveDays(c) ==
  /\ At(c, "saveDays")
  /\ IF exists
       THEN /\ days' = Over(mem[c].rows)
            /\ mixed' = IF req[c].op \in {"repeat", "drop"}
                          THEN mixed \cup {w \in Weekdays : ~Agree(Over(mem[c].rows), w)}
                          ELSE mixed
       ELSE UNCHANGED <<days, mixed>>
  /\ Done(c)
  /\ UNCHANGED <<exists, made, followed, today>>

-----------------------------------------------------------------------------
(* Requests about the calendar *)

\* extendCalendar: on from the last day, in the real year of the next; without
\* days, on the first of January of the year asked for, one of those of NewStarts.
NextStarts ==
  IF Rows = {} THEN {YearOf(s) * YearLength : s \in NewStarts}
  ELSE {days[i].date + 1 : i \in {j \in Rows : \A k \in Rows : days[k].date <= days[j].date}}

Extend(c) == \E s \in NextStarts :
  /\ exists
  /\ Arrive(c, [op |-> "extend"], [start |-> s, asof |-> today], <<"readPattern", "insertYear">>)
  /\ UNCHANGED <<world, today>>

ReadPattern(c) ==
  /\ At(c, "readPattern")
  /\ \E p \in {q \in [Weekdays -> Types \cup {None}] : \A w \in Weekdays : q[w] \in PatternTypes(w)} :
       Proceed(c, [start |-> mem[c].start, asof |-> mem[c].asof, pattern |-> p])
  /\ UNCHANGED <<world, today>>

InsertYear(c) ==
  /\ At(c, "insertYear") /\ made + YearDays <= MaxRows
  /\ IF exists
       THEN /\ days' = Over(Built(mem[c].start, 1, made, mem[c].pattern))
            /\ made' = made + YearDays
       ELSE UNCHANGED <<days, made>>
  /\ Done(c)
  /\ UNCHANGED <<exists, followed, mixed, today>>

\* updateCalendar without a new year start: the row is saved, and inserted again
\* when it is gone.
Update(c) ==
  /\ exists
  /\ Arrive(c, [op |-> "update"], [asof |-> today], <<"saveCalendar">>)
  /\ UNCHANGED <<world, today>>

SaveCalendar(c) ==
  /\ At(c, "saveCalendar")
  /\ exists' = TRUE
  /\ Done(c)
  /\ UNCHANGED <<days, made, followed, mixed, today>>

\* With a new year start: only when nothing is configured and nobody follows.
Locked == followed \/ \E i \in Rows : days[i].flags # Default

FirstStarts == {days[i].start : i \in {j \in Rows : \A k \in Rows : days[j].date <= days[k].date}}

Move(c) == \E s \in NewStarts :
  /\ exists /\ FirstStarts # {s}
  /\ Arrive(c, [op |-> "move"], [start |-> s, asof |-> today], <<"countBlockers", "regenerate">>)
  /\ UNCHANGED <<world, today>>

CountBlockers(c) ==
  /\ At(c, "countBlockers")
  /\ IF Locked THEN End(c)
     ELSE LET n == Cardinality({days[i].start : i \in Rows}) IN
          Proceed(c, [start |-> mem[c].start, asof |-> mem[c].asof, years |-> IF n = 0 THEN 1 ELSE n])
  /\ UNCHANGED <<world, today>>

Regenerate(c) ==
  LET n == mem[c].years IN
  /\ At(c, "regenerate") /\ made + n * YearDays <= MaxRows
  /\ IF exists
       THEN /\ days' = Built(mem[c].start, n, made, NoPattern)
            /\ made' = made + n * YearDays
            /\ mixed' = {}
       ELSE UNCHANGED <<days, made, mixed>>
  /\ Done(c)
  /\ UNCHANGED <<exists, followed, today>>

\* deleteCalendar: the days and the row in two statements; the key of a day
\* keeps the row, those of resources become NULL.
Delete(c) ==
  /\ exists /\ ~followed
  /\ Arrive(c, [op |-> "delete"], [asof |-> today], <<"deleteDays", "deleteRow">>)
  /\ UNCHANGED <<world, today>>

DeleteDays(c) ==
  /\ At(c, "deleteDays")
  /\ days' = [i \in {} |-> 0]
  /\ Done(c)
  /\ UNCHANGED <<exists, made, followed, mixed, today>>

DeleteRow(c) ==
  /\ At(c, "deleteRow")
  /\ IF Rows = {} THEN exists' = FALSE /\ followed' = FALSE
     ELSE UNCHANGED <<exists, followed>>
  /\ Done(c)
  /\ UNCHANGED <<days, made, mixed, today>>

\* A resource is given the calendar, or the last one leaves it.
Follow ==
  /\ Instant("follow") /\ exists /\ ~followed
  /\ followed' = TRUE
  /\ UNCHANGED <<exists, days, made, mixed, today>>

Unfollow ==
  /\ Instant("follow") /\ followed
  /\ followed' = FALSE
  /\ UNCHANGED <<exists, days, made, mixed, today>>

Midnight ==
  /\ today < LastToday
  /\ today' = today + 1
  /\ UNCHANGED <<world, requestVars>>

Fail(c) == Break(c) /\ UNCHANGED <<world, today>>

-----------------------------------------------------------------------------
DayStep(c) == SpecialHoliday(c) \/ SpecialWorkingDay(c) \/ RemoveOverride(c) \/ ReadBase(c)
PatternStep(c) == RepeatedHoliday(c) \/ DropRepeatedHoliday(c) \/ SaveDays(c)
CalendarStep(c) ==
  \/ Extend(c) \/ ReadPattern(c) \/ InsertYear(c)
  \/ Update(c) \/ SaveCalendar(c) \/ Move(c) \/ CountBlockers(c) \/ Regenerate(c)
  \/ Delete(c) \/ DeleteDays(c) \/ DeleteRow(c)

Next ==
  \/ Follow \/ Unfollow \/ Midnight
  \/ \E c \in Requests : DayStep(c) \/ PatternStep(c) \/ CalendarStep(c) \/ Fail(c)

Spec == Init /\ [][Next]_vars

-----------------------------------------------------------------------------
(* Correctness *)

\* The states of a day the code lists over composeDayFlags, and one it does not:
\* a half special holiday on a day that became a repeated holiday later.
Matrix ==
  {Default} \cup {Compose(FALSE, TRUE, FALSE, t) : t \in Types}
  \cup {Compose(TRUE, FALSE, FALSE, t) : t \in Types} \cup {Compose(TRUE, TRUE, FALSE, "FULL")}
  \cup {Compose(FALSE, TRUE, TRUE, t) : t \in Types}
HalfHolidayOnWeekend == Compose(TRUE, TRUE, FALSE, "HALF")

\* The type invariant: every row has flags in the matrix of day states, whatever
\* requests came before, while they do not overlap.
TypeOK ==
  /\ exists \in BOOLEAN /\ followed \in BOOLEAN
  /\ made \in 0..MaxRows /\ today \in 0..LastToday /\ mixed \subseteq Weekdays
  /\ Rows \subseteq 1..made
  /\ \A i \in Rows : days[i].date \in Nat /\ days[i].start \in Nat
  /\ ~overlapped => \A i \in Rows : days[i].flags \in Matrix \cup {HalfHolidayOnWeekend}
  /\ RequestsOK

\* The days follow each other without gap or double, in whole weeks of whole
\* years that start where the one before ends.
Continuous ==
  LET n == Cardinality(Rows) IN
  /\ n % YearDays = 0
  /\ Rows # {} => \E first \in {days[i].date : i \in Rows} :
       {<<days[i].date, days[i].start>> : i \in Rows} =
         {<<first + k, first + (k \div YearDays) * YearDays>> : k \in 0..(n - 1)}

\* While requests do not overlap, the days are continuous, and those of a weekday
\* agree on the pattern, which is stored nowhere else: a removed override and a
\* year that is added find the pattern the others follow.
WeeksAgree ==
  ~overlapped /\ Quiet =>
    Continuous /\ \A w \in Weekdays \ mixed : Agree(days, w)

\* "Past days are frozen": whatever overlaps, a step changes a day only for a
\* request that came before the day was over; and while requests do not overlap,
\* a day goes away only with the calendar, or when nothing is configured on it
\* and nobody follows it.
DaysKept ==
  [][\A i \in Rows :
       IF i \in DOMAIN days'
         THEN days'[i] # days[i] =>
                \E c \in Requests : ~Idle(c) /\ mem[c].asof <= days[i].date
         ELSE ~overlapped' =>
                /\ ~followed
                /\ days[i].flags = Default \/ \E c \in Requests : req[c].op = "delete"]_vars
=============================================================================
