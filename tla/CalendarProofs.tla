--------------------------- MODULE CalendarProofs ---------------------------
(***************************************************************************)
(* What holds of Calendar for weeks and years of any length, any patterns  *)
(* and any number of requests served at the same time: the flags of every  *)
(* day stay in the matrix of day states, the days of a weekday agree, the  *)
(* years join, and the past stays as it is.  And of SpaceConfig for any    *)
(* masters, tasks, requests and columns: its types, with every task on     *)
(* rows that exist, the blob that no request will make true by leaving it, *)
(* and the order of the statuses.                                          *)
(***************************************************************************)
EXTENDS Calendar, SpaceConfig, SequenceTheorems, FiniteSetTheorems, WellFoundedInduction,
        TLAPS

-----------------------------------------------------------------------------
(* The states of a day *)

\* What the flags must satisfy, said flag by flag instead of state by state.
Sound(h, w, s, t) == (s => ~h /\ w) /\ (~h /\ ~w => t = "FULL")
States == {Compose(x[1], x[2], x[3], x[4]) :
             x \in {y \in BOOLEAN \X BOOLEAN \X BOOLEAN \X Types : Sound(y[1], y[2], y[3], y[4])}}

LEMMA ComposeSound ==
  ASSUME NEW h \in BOOLEAN, NEW w \in BOOLEAN, NEW s \in BOOLEAN, NEW t \in Types,
         Sound(h, w, s, t)
  PROVE  Compose(h, w, s, t) \in States
<1> DEFINE x == <<h, w, s, t>>
<1>1. x \in {y \in BOOLEAN \X BOOLEAN \X BOOLEAN \X Types : Sound(y[1], y[2], y[3], y[4])}
  OBVIOUS
<1>2. Compose(h, w, s, t) = Compose(x[1], x[2], x[3], x[4])
  OBVIOUS
<1> HIDE DEF x
<1> QED
  BY <1>1, <1>2, Zenon DEF States

LEMMA StateIsSound ==
  ASSUME NEW f \in States
  PROVE  /\ f.isHoliday \in BOOLEAN /\ f.isWeekend \in BOOLEAN
         /\ f.isSpecialWorkingDay \in BOOLEAN /\ f.dayType \in Types
         /\ Sound(f.isHoliday, f.isWeekend, f.isSpecialWorkingDay, f.dayType)
         /\ f = Compose(f.isHoliday, f.isWeekend, f.isSpecialWorkingDay, f.dayType)
<1>1. PICK x \in {y \in BOOLEAN \X BOOLEAN \X BOOLEAN \X Types : Sound(y[1], y[2], y[3], y[4])} :
        f = Compose(x[1], x[2], x[3], x[4])
  BY DEF States
<1>2. /\ f.isHoliday = x[1] /\ f.isWeekend = x[2]
      /\ f.isSpecialWorkingDay = x[3] /\ f.dayType = x[4]
  BY <1>1 DEF Compose
<1> QED
  BY <1>1, <1>2

LEMMA DefaultState == Default \in States
BY ComposeSound DEF Default, Sound, Types

\* These are the states of the matrix, and the one it does not list.
LEMMA StatesInMatrix == States \subseteq Matrix \cup {HalfHolidayOnWeekend}
<1> SUFFICES ASSUME NEW f \in States PROVE f \in Matrix \cup {HalfHolidayOnWeekend}
  OBVIOUS
<1> DEFINE h == f.isHoliday  w == f.isWeekend  s == f.isSpecialWorkingDay  t == f.dayType
<1>1. /\ h \in BOOLEAN /\ w \in BOOLEAN /\ s \in BOOLEAN /\ t \in Types
      /\ (s => ~h /\ w) /\ (~h /\ ~w => t = "FULL") /\ f = Compose(h, w, s, t)
  BY StateIsSound DEF Sound
<1>2. t = "FULL" \/ t = "HALF"
  BY <1>1 DEF Types
<1> HIDE DEF h, w, s, t
<1>3. CASE h = TRUE /\ w = TRUE
  <2>1. s = FALSE
    BY <1>1, <1>3
  <2> QED
    BY <1>1, <1>2, <1>3, <2>1 DEF Matrix, HalfHolidayOnWeekend
<1>4. CASE h = TRUE /\ w = FALSE
  <2>1. s = FALSE
    BY <1>1, <1>4
  <2> QED
    BY <1>1, <1>4, <2>1 DEF Matrix
<1>5. CASE h = FALSE /\ w = TRUE
  <2>1. s = FALSE \/ s = TRUE
    BY <1>1
  <2> QED
    BY <1>1, <1>5, <2>1 DEF Matrix
<1>6. CASE h = FALSE /\ w = FALSE
  <2>1. s = FALSE /\ t = "FULL"
    BY <1>1, <1>6
  <2> QED
    BY <1>1, <1>6, <2>1 DEF Matrix, Default
<1> QED
  BY <1>1, <1>3, <1>4, <1>5, <1>6

\* Edits of the pattern lead from state to state ...
LEMMA PatternedState ==
  ASSUME NEW f \in States, NEW t \in Types \cup {None}
  PROVE  Patterned(f, t) \in States /\ OutOfPattern(f) \in States
<1> USE DEF Sound
<1>1. OutOfPattern(f) \in States
  <2>1. CASE f.isHoliday
    BY <2>1, ComposeSound, StateIsSound DEF OutOfPattern
  <2>2. CASE ~f.isHoliday
    BY <2>2, DefaultState DEF OutOfPattern
  <2> QED
    BY <2>1, <2>2
<1>2. ASSUME t \in Types PROVE InPattern(f, t) \in States
  <2>1. CASE Overridden(f)
    <3>1. Compose(f.isHoliday, TRUE, f.isSpecialWorkingDay, f.dayType) \in States
      BY StateIsSound, ComposeSound
    <3> QED
      BY <2>1, <3>1 DEF InPattern
  <2>2. CASE ~Overridden(f)
    <3>1. Compose(FALSE, TRUE, FALSE, t) \in States
      BY <1>2, ComposeSound
    <3> QED
      BY <2>2, <3>1 DEF InPattern
  <2> QED
    BY <2>1, <2>2
<1> QED
  BY <1>1, <1>2 DEF Patterned

\* ... and so do the requests about one day, each on the days it accepts.
DayRequests ==
  [op : {"holiday", "working"}, type : Types]
  \cup [op : {"restore"}, kind : {"holidays", "specialWorkingDay", "other"}]

LEMMA ChangedState ==
  ASSUME NEW f \in States, NEW r \in DayRequests, NEW base \in Types,
         Accepts(r, f), AcceptsBase(r, f, base)
  PROVE  Changed(r, f, base) \in States
<1> USE DEF Sound
<1>0. f.isWeekend \in BOOLEAN
  BY StateIsSound
<1>1. CASE r.op = "holiday"
  <2>1. r.type \in Types /\ (f.isWeekend => r.type = "FULL")
    BY <1>1 DEF DayRequests, AcceptsBase
  <2>2. Compose(TRUE, f.isWeekend, FALSE, r.type) \in States
    BY <2>1, <1>0, ComposeSound
  <2> QED
    BY <1>1, <2>2 DEF Changed
<1>2. CASE r.op = "working"
  <2>1. r.type \in Types
    BY <1>2 DEF DayRequests
  <2>2. Compose(FALSE, TRUE, TRUE, r.type) \in States
    BY <2>1, ComposeSound
  <2> QED
    BY <1>2, <2>2 DEF Changed
<1>3. CASE r.op = "restore"
  <2>1. Compose(FALSE, f.isWeekend, FALSE, IF f.isWeekend THEN base ELSE "FULL") \in States
    <3>1. CASE f.isWeekend
      BY <3>1, <1>0, ComposeSound
    <3>2. CASE ~f.isWeekend
      BY <3>2, <1>0, ComposeSound DEF Types
    <3> QED
      BY <3>1, <3>2
  <2> QED
    BY <1>3, <2>1 DEF Changed
<1> QED
  BY <1>1, <1>2, <1>3 DEF DayRequests

-----------------------------------------------------------------------------
(* The inductive invariant *)

Day == [date : Nat, start : Nat, flags : States]
DaysOK(ds, n) == DOMAIN ds \subseteq 1..n /\ \A i \in DOMAIN ds : ds[i] \in Day
PatternType == [Weekdays -> Types \cup {None}]

\* What a request has in memory fits the statements it has still to run.
SavePlan(p, m, n) == p = <<"saveDays">> /\ DaysOK(m.rows, n)
BasePlan(p, r, m, n) ==
  /\ p = <<"readBase", "saveDays">>
  /\ DOMAIN m = {"rows", "asof"} /\ DaysOK(m.rows, n) /\ r \in DayRequests
  /\ \A i \in DOMAIN m.rows : Accepts(r, m.rows[i].flags)
ExtendPlan(p, m) == p = <<"readPattern", "insertYear">> /\ m.start \in Nat
InsertPlan(p, m) == p = <<"insertYear">> /\ m.start \in Nat /\ m.pattern \in PatternType
MovePlan(p, m) == p = <<"countBlockers", "regenerate">> /\ m.start \in Nat
RegeneratePlan(p, m) == p = <<"regenerate">> /\ m.start \in Nat /\ m.years \in Nat
OtherPlan(p) == p \in {<<>>, <<"saveCalendar">>, <<"deleteDays", "deleteRow">>, <<"deleteRow">>}

PlanOK(p, r, m, n) ==
  \/ SavePlan(p, m, n) \/ BasePlan(p, r, m, n) \/ ExtendPlan(p, m) \/ InsertPlan(p, m)
  \/ MovePlan(p, m) \/ RegeneratePlan(p, m) \/ OtherPlan(p)

PlansOK(n) == \A c \in Requests : PlanOK(plan[c], req[c], mem[c], n)

IInv ==
  /\ exists \in BOOLEAN /\ followed \in BOOLEAN
  /\ made \in 0..MaxRows /\ today \in 0..LastToday /\ mixed \subseteq Weekdays
  /\ DaysOK(days, made)
  /\ RequestsOK
  /\ PlansOK(made)

-----------------------------------------------------------------------------
(* Plans *)

LEMMA Heads ==
  ASSUME NEW c \in Requests, IInv
  PROVE  /\ At(c, "saveDays") => SavePlan(plan[c], mem[c], made)
         /\ At(c, "readBase") => BasePlan(plan[c], req[c], mem[c], made)
         /\ At(c, "readPattern") => ExtendPlan(plan[c], mem[c])
         /\ At(c, "insertYear") => InsertPlan(plan[c], mem[c])
         /\ At(c, "countBlockers") => MovePlan(plan[c], mem[c])
         /\ At(c, "regenerate") => RegeneratePlan(plan[c], mem[c])
         /\ At(c, "deleteDays") \/ At(c, "deleteRow") \/ At(c, "saveCalendar") =>
              OtherPlan(plan[c])
<1>1. PlanOK(plan[c], req[c], mem[c], made)
  BY DEF IInv, PlansOK
<1> QED
  BY <1>1 DEF PlanOK, At, SavePlan, BasePlan, ExtendPlan, InsertPlan, MovePlan, RegeneratePlan,
     OtherPlan

LEMMA EmptyOK == \A r, m, n : PlanOK(<<>>, r, m, n)
BY DEF PlanOK, OtherPlan

\* More ids make no plan worse.
LEMMA MoreIds ==
  ASSUME NEW k \in Nat, NEW n \in Nat, k <= n, NEW p, NEW r, NEW m, PlanOK(p, r, m, k)
  PROVE  PlanOK(p, r, m, n)
<1>1. 1..k \subseteq 1..n
  OBVIOUS
<1>2. SavePlan(p, m, k) => SavePlan(p, m, n)
  BY <1>1 DEF SavePlan, DaysOK
<1>3. BasePlan(p, r, m, k) => BasePlan(p, r, m, n)
  BY <1>1 DEF BasePlan, DaysOK
<1> QED
  BY <1>2, <1>3 DEF PlanOK

\* A request that arrives, or goes on, with a plan that fits its memory.
LEMMA ArriveOK ==
  ASSUME IInv, NEW c \in Requests, NEW r, NEW m, NEW p, Arrive(c, r, m, p),
         PlanOK(p, r, m, made)
  PROVE  RequestsOK' /\ \A d \in Requests : PlanOK(plan'[d], req'[d], mem'[d], made)
<1>1. \A d \in Requests : PlanOK(plan[d], req[d], mem[d], made)
  BY DEF IInv, PlansOK
<1>2. DOMAIN plan = Requests /\ DOMAIN req = Requests /\ DOMAIN mem = Requests
      /\ served \in 0..MaxServed /\ overlapped \in BOOLEAN /\ failed \in BOOLEAN
  BY DEF IInv, RequestsOK
<1>3. RequestsOK'
  BY <1>2, RequestAssumption DEF Arrive, Begin, RequestsOK, Quiet
<1>4. /\ plan' = [plan EXCEPT ![c] = p] /\ req' = [req EXCEPT ![c] = r]
      /\ mem' = [mem EXCEPT ![c] = m]
  BY DEF Arrive, Begin
<1> QED
  BY <1>1, <1>2, <1>3, <1>4

LEMMA ContinueOK ==
  ASSUME IInv, NEW c \in Requests, NEW p, NEW m, Continue(c, p, m), failed' \in BOOLEAN,
         PlanOK(p, req[c], m, made)
  PROVE  RequestsOK' /\ \A d \in Requests : PlanOK(plan'[d], req'[d], mem'[d], made)
<1>1. \A d \in Requests : PlanOK(plan[d], req[d], mem[d], made)
  BY DEF IInv, PlansOK
<1>2. DOMAIN plan = Requests /\ DOMAIN req = Requests /\ DOMAIN mem = Requests
      /\ served \in 0..MaxServed /\ overlapped \in BOOLEAN /\ failed \in BOOLEAN
  BY DEF IInv, RequestsOK
<1>3. RequestsOK'
  BY <1>2 DEF Continue, RequestsOK
<1>4. CASE p = <<>>
  <2>1. plan'[c] = <<>> /\ \A d \in Requests \ {c} :
          plan'[d] = plan[d] /\ req'[d] = req[d] /\ mem'[d] = mem[d]
    BY <1>2, <1>4 DEF Continue
  <2> QED
    BY <1>1, <1>3, <2>1, EmptyOK
<1>5. CASE p # <<>>
  <2>1. plan'[c] = p /\ req'[c] = req[c] /\ mem'[c] = m /\ \A d \in Requests \ {c} :
          plan'[d] = plan[d] /\ req'[d] = req[d] /\ mem'[d] = mem[d]
    BY <1>2, <1>5 DEF Continue
  <2> QED
    BY <1>1, <1>3, <2>1
<1> QED
  BY <1>4, <1>5

\* The last statement of a request, and any end of it.
LEMMA LastOK ==
  ASSUME IInv, NEW c \in Requests, NEW s, plan[c] = <<s>>, Done(c)
  PROVE  RequestsOK' /\ \A d \in Requests : PlanOK(plan'[d], req'[d], mem'[d], made)
<1>1. Tail(<<s>>) = <<>>
  OBVIOUS
<1>2. Continue(c, <<>>, mem[c]) /\ failed' = failed /\ failed \in BOOLEAN
  BY <1>1 DEF Done, Proceed, Rest, IInv, RequestsOK
<1> QED
  BY <1>2, ContinueOK, EmptyOK

LEMMA EndOK ==
  ASSUME IInv, NEW c \in Requests, End(c) \/ Break(c)
  PROVE  RequestsOK' /\ \A d \in Requests : PlanOK(plan'[d], req'[d], mem'[d], made)
<1>1. Continue(c, <<>>, <<>>) /\ failed' \in BOOLEAN
  BY DEF End, Break, IInv, RequestsOK
<1> QED
  BY <1>1, ContinueOK, EmptyOK

-----------------------------------------------------------------------------
(* Days *)

LEMMA YearDaysNat == YearDays \in Nat
<1> DEFINE ks == {k \in 0..YearLength : k * DaysInWeek + DaysInWeek \div 2 < YearLength}
<1>1. IsFiniteSet(0..YearLength)
  BY CalendarAssumption, FS_Interval
<1>2. IsFiniteSet(ks)
  BY <1>1, FS_Subset
<1>3. Cardinality(ks) \in Nat
  BY <1>2, FS_CardinalityType
<1> QED
  BY <1>3, CalendarAssumption DEF YearDays, WeekCount

LEMMA WeekdayOK == \A date \in Nat : Weekday(date) \in Weekdays
BY CalendarAssumption DEF Weekday, Weekdays

LEMMA YearStartNat ==
  ASSUME NEW date \in Nat, NEW k \in Nat, YearDays # 0
  PROVE  YearStart(date, k) \in Nat
<1>1. YearDays \in Nat \ {0}
  BY YearDaysNat
<1>2. k \div YearDays \in Nat
  BY <1>1
<1>3. (k \div YearDays) * YearDays \in Nat
  BY <1>1, <1>2
<1> QED
  BY <1>3 DEF YearStart

\* The days of new years are on the pattern, or plain.
LEMMA BuiltOK ==
  ASSUME NEW date \in Nat, NEW n \in Nat, NEW first \in Nat, NEW p \in PatternType
  PROVE  DaysOK(Built(date, n, first, p), first + n * YearDays)
<1> DEFINE b == Built(date, n, first, p)
<1>1. DOMAIN b = (first + 1)..(first + n * YearDays)
  BY DEF Built
<1>2. n * YearDays \in Nat
  BY YearDaysNat
<1>3. DOMAIN b \subseteq 1..(first + n * YearDays)
  BY <1>1, <1>2
<1>4. ASSUME NEW i \in DOMAIN b PROVE b[i] \in Day
  <2> DEFINE k == i - first - 1
             t == p[Weekday(date + k)]
             fs == IF t = None THEN Default ELSE Compose(FALSE, TRUE, FALSE, t)
  <2>1. i \in (first + 1)..(first + n * YearDays)
    BY <1>1, <1>4
  <2>2. k \in Nat /\ date + k \in Nat
    BY <1>2, <2>1
  <2>3. YearDays # 0
    <3>1. SUFFICES ASSUME YearDays = 0 PROVE FALSE
      OBVIOUS
    <3>2. n * YearDays = 0
      BY <3>1
    <3> QED
      BY <2>1, <3>2
  <2>4. YearStart(date, k) \in Nat
    BY <2>2, <2>3, YearStartNat
  <2>5. t \in Types \cup {None}
    BY <2>2, WeekdayOK DEF PatternType
  <2>6. fs \in States
    <3>1. t \in Types => Compose(FALSE, TRUE, FALSE, t) \in States
      BY ComposeSound DEF Sound
    <3> QED
      BY <2>5, <3>1, DefaultState
  <2>7. b[i] = [date |-> date + k, start |-> YearStart(date, k), flags |-> fs]
    BY <1>1, <1>4 DEF Built
  <2> HIDE DEF k, t, fs, b
  <2> QED
    BY <2>2, <2>4, <2>6, <2>7 DEF Day
<1> QED
  BY <1>3, <1>4 DEF DaysOK

\* A save keeps the days what they are.
LEMMA OverOK ==
  ASSUME NEW k \in Nat, NEW n \in Nat, k <= n, DaysOK(days, k), NEW rows, DaysOK(rows, n)
  PROVE  DaysOK(Over(rows), n)
<1>1. 1..k \subseteq 1..n
  OBVIOUS
<1> QED
  BY <1>1 DEF DaysOK, Over, Rows

LEMMA NoPatternOK == NoPattern \in PatternType
BY DEF NoPattern, PatternType

-----------------------------------------------------------------------------
(* Every step keeps the invariant *)

\* A step that touches the requests only.
LEMMA RequestsOnly ==
  ASSUME IInv, UNCHANGED <<world, today>>, RequestsOK',
         \A d \in Requests : PlanOK(plan'[d], req'[d], mem'[d], made)
  PROVE  IInv'
BY DEF IInv, world, DaysOK, PlansOK

\* A day with other flags, in memory.
LEMMA WithFlags ==
  ASSUME NEW m, DOMAIN m = {"rows", "asof"}, NEW n \in Nat, DaysOK(m.rows, n),
         NEW i \in DOMAIN m.rows, NEW f \in States
  PROVE  SavePlan(<<"saveDays">>, [m EXCEPT !.rows[i].flags = f], n)
<1> DEFINE rows == [m.rows EXCEPT ![i].flags = f]
<1>1. [m EXCEPT !.rows[i].flags = f].rows = rows
  OBVIOUS
<1>2. DOMAIN rows = DOMAIN m.rows
  OBVIOUS
<1>3. ASSUME NEW j \in DOMAIN rows PROVE rows[j] \in Day
  <2>1. m.rows[j] \in Day
    BY <1>2 DEF DaysOK
  <2>2. CASE j = i
    BY <2>1, <2>2 DEF Day
  <2>3. CASE j # i
    BY <2>1, <2>3
  <2> QED
    BY <2>2, <2>3
<1>4. DaysOK(rows, n)
  BY <1>2, <1>3 DEF DaysOK
<1> QED
  BY <1>1, <1>4 DEF SavePlan

LEMMA AskDayStep ==
  ASSUME IInv, NEW c \in Requests, NEW i \in Rows, NEW r \in DayRequests, AskDay(c, i, r)
  PROVE  IInv'
<1> DEFINE f == days[i].flags
           m == [rows |-> [j \in {i} |-> days[i]], asof |-> today]
<1>1. made \in Nat /\ i \in 1..made /\ days[i] \in Day /\ f \in States
  BY CalendarAssumption DEF IInv, DaysOK, Rows, Day
<1>2. DOMAIN m = {"rows", "asof"} /\ DOMAIN m.rows = {i} /\ m.rows[i] = days[i]
  OBVIOUS
<1>3. DaysOK(m.rows, made)
  BY <1>1, <1>2 DEF DaysOK
<1>4. Accepts(r, f) /\ UNCHANGED <<world, today>>
  BY DEF AskDay
<1>5. CASE Arrive(c, r, m, <<"readBase", "saveDays">>)
  <2>1. BasePlan(<<"readBase", "saveDays">>, r, m, made)
    BY <1>2, <1>3, <1>4 DEF BasePlan
  <2>2. PlanOK(<<"readBase", "saveDays">>, r, m, made)
    BY <2>1 DEF PlanOK
  <2> HIDE DEF m
  <2> QED
    BY <1>4, <1>5, <2>2, ArriveOK, RequestsOnly
<1>6. CASE /\ AcceptsBase(r, f, f.dayType)
           /\ Arrive(c, r, [m EXCEPT !.rows[i].flags = Changed(r, f, f.dayType)], <<"saveDays">>)
  <2>1. Changed(r, f, f.dayType) \in States
    BY <1>1, <1>4, <1>6, ChangedState, StateIsSound
  <2> DEFINE g == Changed(r, f, f.dayType)
             n == [m EXCEPT !.rows[i].flags = g]
  <2>2. SavePlan(<<"saveDays">>, n, made)
    <3> HIDE DEF m, g
    <3> QED
      BY <1>1, <1>2, <1>3, <2>1, WithFlags DEF g
  <2>3. PlanOK(<<"saveDays">>, r, n, made)
    BY <2>2 DEF PlanOK
  <2>4. Arrive(c, r, n, <<"saveDays">>)
    BY <1>6
  <2> HIDE DEF n
  <2> QED
    BY <1>4, <2>3, <2>4, ArriveOK, RequestsOnly
<1> QED
  BY <1>5, <1>6 DEF AskDay

LEMMA BaseTypesOK ==
  ASSUME IInv, NEW w
  PROVE  BaseTypes(w) \subseteq Types
<1>1. \A i \in Rows : days[i].flags.dayType \in Types
  BY StateIsSound DEF IInv, DaysOK, Rows, Day
<1>2. \A i \in CleanOf(Weekends(w)) : i \in Rows
  BY DEF CleanOf, Weekends, OnWeekday
<1>3. TypesOf(CleanOf(Weekends(w))) \subseteq Types
  BY <1>1, <1>2 DEF TypesOf
<1> QED
  BY <1>3 DEF BaseTypes, Types

LEMMA ReadBaseStep ==
  ASSUME IInv, NEW c \in Requests, ReadBase(c)
  PROVE  IInv'
<1>1. BasePlan(plan[c], req[c], mem[c], made) /\ UNCHANGED <<world, today>>
  BY Heads DEF ReadBase
<1>0. PICK i \in DOMAIN mem[c].rows : \E b \in BaseTypes(Weekday(mem[c].rows[i].date)) :
        IF AcceptsBase(req[c], mem[c].rows[i].flags, b)
          THEN Proceed(c, [mem[c] EXCEPT !.rows[i].flags =
                             Changed(req[c], mem[c].rows[i].flags, b)])
          ELSE End(c)
  BY DEF ReadBase
<1>2. PICK base \in BaseTypes(Weekday(mem[c].rows[i].date)) :
        IF AcceptsBase(req[c], mem[c].rows[i].flags, base)
          THEN Proceed(c, [mem[c] EXCEPT !.rows[i].flags =
                             Changed(req[c], mem[c].rows[i].flags, base)])
          ELSE End(c)
  BY <1>0
<1> DEFINE f == mem[c].rows[i].flags
           g == Changed(req[c], f, base)
<1>3. CASE ~AcceptsBase(req[c], f, base)
  BY <1>1, <1>2, <1>3, EndOK, RequestsOnly
<1>4. CASE AcceptsBase(req[c], f, base)
  <2>1. f \in States /\ base \in Types /\ made \in Nat
    BY <1>1, BaseTypesOK, CalendarAssumption DEF BasePlan, DaysOK, Day, IInv
  <2>2. g \in States
    BY <1>1, <1>4, <2>1, ChangedState DEF BasePlan
  <2> DEFINE n == [mem[c] EXCEPT !.rows[i].flags = g]
  <2>3. SavePlan(<<"saveDays">>, n, made)
    <3> HIDE DEF g
    <3> QED
      BY <1>1, <2>1, <2>2, WithFlags DEF BasePlan
  <2>4. PlanOK(<<"saveDays">>, req[c], n, made)
    BY <2>3 DEF PlanOK
  <2>5. Tail(plan[c]) = <<"saveDays">>
    BY <1>1 DEF BasePlan
  <2>6. Continue(c, <<"saveDays">>, n) /\ failed' \in BOOLEAN
    BY <1>2, <1>4, <2>5 DEF Proceed, Rest, IInv, RequestsOK
  <2> HIDE DEF n
  <2> QED
    BY <1>1, <2>4, <2>6, ContinueOK, RequestsOnly
<1> QED
  BY <1>3, <1>4

LEMMA AskPatternStep ==
  ASSUME IInv, NEW c \in Requests, NEW r, NEW flags, DOMAIN flags \subseteq Rows,
         \A i \in DOMAIN flags : flags[i] \in States,
         AskPattern(c, r, flags)
  PROVE  IInv'
<1> DEFINE changed == {i \in DOMAIN flags : ~Past(days[i].date) /\ flags[i] # days[i].flags}
           rows == [i \in changed |-> [days[i] EXCEPT !.flags = flags[i]]]
           m == [rows |-> rows, asof |-> today]
<1>1. /\ Arrive(c, r, m, <<"saveDays">>) /\ UNCHANGED <<world, today>>
  BY DEF AskPattern
<1>2. \A i \in changed : i \in 1..made /\ days[i] \in Day /\ flags[i] \in States
  BY DEF IInv, DaysOK, Rows
<1>3. \A i \in changed : rows[i] \in Day
  BY <1>2 DEF Day
<1>4. DaysOK(rows, made)
  BY <1>2, <1>3 DEF DaysOK
<1>5. PlanOK(<<"saveDays">>, r, m, made)
  BY <1>4 DEF PlanOK, SavePlan
<1> HIDE DEF m
<1> QED
  BY <1>1, <1>5, ArriveOK, RequestsOnly

LEMMA DayStepKeeps ==
  ASSUME IInv, NEW c \in Requests, DayStep(c)
  PROVE  IInv'
<1>1. ASSUME NEW i \in Rows, NEW t \in Types, NEW o \in {"holiday", "working"},
             AskDay(c, i, [op |-> o, type |-> t])
      PROVE  IInv'
  <2>1. [op |-> o, type |-> t] \in DayRequests
    BY DEF DayRequests
  <2> QED
    BY <1>1, <2>1, AskDayStep
<1>2. ASSUME NEW i \in Rows, NEW k \in {"holidays", "specialWorkingDay", "other"},
             AskDay(c, i, [op |-> "restore", kind |-> k])
      PROVE  IInv'
  <2>1. [op |-> "restore", kind |-> k] \in DayRequests
    BY DEF DayRequests
  <2> QED
    BY <1>2, <2>1, AskDayStep
<1>3. SpecialHoliday(c) => IInv'
  BY <1>1 DEF SpecialHoliday
<1>4. SpecialWorkingDay(c) => IInv'
  BY <1>1 DEF SpecialWorkingDay
<1>5. RemoveOverride(c) => IInv'
  BY <1>2 DEF RemoveOverride
<1> QED
  BY <1>3, <1>4, <1>5, ReadBaseStep DEF DayStep

LEMMA PatternStepKeeps ==
  ASSUME IInv, NEW c \in Requests, PatternStep(c)
  PROVE  IInv'
<1>1. \A i \in Rows : days[i] \in Day /\ days[i].flags \in States /\ days[i].date \in Nat
  BY DEF IInv, DaysOK, Rows, Day
<1>2. CASE RepeatedHoliday(c)
  <2>1. PICK p \in Patterns, ys \in {Years} \cup {{y} : y \in Years} :
          AskPattern(c, [op |-> "repeat"],
                     [i \in {j \in Rows : YearOf(days[j].date) \in ys} |->
                        Patterned(days[i].flags, p[Weekday(days[i].date)])])
    BY <1>2 DEF RepeatedHoliday
  <2> DEFINE flags == [i \in {j \in Rows : YearOf(days[j].date) \in ys} |->
                         Patterned(days[i].flags, p[Weekday(days[i].date)])]
  <2>2. \A i \in Rows : p[Weekday(days[i].date)] \in Types \cup {None}
    BY <1>1, WeekdayOK, PatternAssumption
  <2>3. DOMAIN flags \subseteq Rows /\ \A i \in DOMAIN flags : flags[i] \in States
    BY <1>1, <2>2, PatternedState
  <2> HIDE DEF flags
  <2> QED
    BY <2>1, <2>3, AskPatternStep DEF flags
<1>3. CASE DropRepeatedHoliday(c)
  <2>1. PICK w \in Weekdays :
          AskPattern(c, [op |-> "drop"], [i \in OnWeekday(w) |-> OutOfPattern(days[i].flags)])
    BY <1>3 DEF DropRepeatedHoliday
  <2> DEFINE flags == [i \in OnWeekday(w) |-> OutOfPattern(days[i].flags)]
  <2>2. OnWeekday(w) \subseteq Rows
    BY DEF OnWeekday
  <2>3. DOMAIN flags \subseteq Rows /\ \A i \in DOMAIN flags : flags[i] \in States
    BY <1>1, <2>2, PatternedState
  <2> HIDE DEF flags
  <2> QED
    BY <2>1, <2>3, AskPatternStep DEF flags
<1>4. CASE SaveDays(c)
  <2>1. SavePlan(plan[c], mem[c], made)
    BY <1>4, Heads DEF SaveDays
  <2>2. RequestsOK' /\ \A d \in Requests : PlanOK(plan'[d], req'[d], mem'[d], made)
    BY <1>4, <2>1, LastOK DEF SaveDays, SavePlan
  <2>3. made' = made /\ UNCHANGED <<exists, followed, today>> /\ made \in Nat
    BY <1>4, CalendarAssumption DEF SaveDays, IInv
  <2>4. DaysOK(Over(mem[c].rows), made) /\ DaysOK(days, made)
    BY <2>1, <2>3, OverOK DEF SavePlan, IInv
  <2>5. days' \in {days, Over(mem[c].rows)}
    BY <1>4 DEF SaveDays
  <2>6. mixed' \subseteq Weekdays
    BY <1>4 DEF SaveDays, IInv
  <2> QED
    BY <2>2, <2>3, <2>4, <2>5, <2>6 DEF IInv, PlansOK, DaysOK
<1> QED
  BY <1>2, <1>3, <1>4 DEF PatternStep

\* New years: the rows they add, or that replace the others, get new ids.
LEMMA NewDays ==
  ASSUME IInv, NEW c \in Requests, NEW s, plan[c] = <<s>>, Done(c),
         UNCHANGED <<exists, followed, today>>, mixed' \subseteq Weekdays,
         made' \in 0..MaxRows, made <= made', DaysOK(days', made')
  PROVE  IInv'
<1>1. RequestsOK' /\ \A d \in Requests : PlanOK(plan'[d], req'[d], mem'[d], made)
  BY LastOK
<1>2. made \in Nat /\ made' \in Nat
  BY CalendarAssumption DEF IInv
<1>3. \A d \in Requests : PlanOK(plan'[d], req'[d], mem'[d], made')
  BY <1>1, <1>2, MoreIds
<1> QED
  BY <1>1, <1>3 DEF IInv, PlansOK, DaysOK

LEMMA InsertYearStep ==
  ASSUME IInv, NEW c \in Requests, InsertYear(c)
  PROVE  IInv'
<1>1. InsertPlan(plan[c], mem[c])
  BY Heads DEF InsertYear
<1>2. made \in Nat /\ YearDays \in Nat /\ MaxRows \in Nat /\ made + YearDays <= MaxRows
      /\ made \in 0..MaxRows /\ DaysOK(days, made) /\ mixed \subseteq Weekdays
  BY YearDaysNat, CalendarAssumption DEF IInv, InsertYear
<1> DEFINE b == Built(mem[c].start, 1, made, mem[c].pattern)
<1>3. DaysOK(b, made + 1 * YearDays)
  BY <1>1, <1>2, BuiltOK DEF InsertPlan
<1>4. made + 1 * YearDays = made + YearDays
  BY <1>2
<1>5. DaysOK(b, made + YearDays)
  BY <1>3, <1>4
<1> HIDE DEF b
<1>6. DaysOK(Over(b), made + YearDays)
  BY <1>2, <1>5, OverOK
<1>7. CASE exists
  <2>1. days' = Over(b) /\ made' = made + YearDays
    BY <1>7 DEF InsertYear, b
  <2> QED
    BY <1>1, <1>2, <1>6, <2>1, NewDays DEF InsertYear, InsertPlan
<1>8. CASE ~exists
  BY <1>1, <1>2, <1>8, NewDays DEF InsertYear, InsertPlan
<1> QED
  BY <1>7, <1>8

LEMMA RegenerateStep ==
  ASSUME IInv, NEW c \in Requests, Regenerate(c)
  PROVE  IInv'
<1> DEFINE n == mem[c].years
           b == Built(mem[c].start, n, made, NoPattern)
<1>1. RegeneratePlan(plan[c], mem[c])
  BY Heads DEF Regenerate
<1>2. made \in Nat /\ n * YearDays \in Nat /\ MaxRows \in Nat /\ made + n * YearDays <= MaxRows
      /\ made \in 0..MaxRows /\ DaysOK(days, made) /\ mixed \subseteq Weekdays
  BY <1>1, YearDaysNat, CalendarAssumption DEF IInv, Regenerate, RegeneratePlan
<1>3. DaysOK(b, made + n * YearDays)
  BY <1>1, <1>2, BuiltOK, NoPatternOK DEF RegeneratePlan
<1>4. CASE exists
  <2>1. days' = b /\ made' = made + n * YearDays /\ mixed' = {}
    BY <1>4 DEF Regenerate
  <2> HIDE DEF b, n
  <2> QED
    BY <1>1, <1>2, <1>3, <2>1, NewDays DEF Regenerate, RegeneratePlan
<1>5. CASE ~exists
  BY <1>1, <1>2, <1>5, NewDays DEF Regenerate, RegeneratePlan
<1> QED
  BY <1>4, <1>5

LEMMA AskCalendarStep ==
  ASSUME IInv, NEW c \in Requests, Extend(c) \/ Update(c) \/ Move(c) \/ Delete(c)
  PROVE  IInv'
<1>1. CASE Extend(c)
  <2>1. PICK s \in NextStarts :
          /\ Arrive(c, [op |-> "extend"], [start |-> s, asof |-> today], <<"readPattern", "insertYear">>)
          /\ UNCHANGED <<world, today>>
    BY <1>1 DEF Extend
  <2>2. s \in Nat
    <3>1. \A i \in Rows : days[i].date \in Nat
      BY DEF IInv, DaysOK, Rows, Day
    <3>2. \A t \in NewStarts : YearOf(t) * YearLength \in Nat
      <4>1. \A t \in NewStarts : YearOf(t) \in Nat
        BY CalendarAssumption DEF YearOf
      <4> QED
        BY <4>1, CalendarAssumption
    <3> QED
      BY <2>1, <3>1, <3>2 DEF NextStarts
  <2>3. PlanOK(<<"readPattern", "insertYear">>, [op |-> "extend"], [start |-> s, asof |-> today], made)
    BY <2>2 DEF PlanOK, ExtendPlan
  <2> QED
    BY <2>1, <2>3, ArriveOK, RequestsOnly
<1>2. CASE Update(c)
  <2>1. PlanOK(<<"saveCalendar">>, [op |-> "update"], [asof |-> today], made)
    BY DEF PlanOK, OtherPlan
  <2> QED
    BY <1>2, <2>1, ArriveOK, RequestsOnly DEF Update
<1>3. CASE Move(c)
  <2>1. PICK s \in NewStarts :
          /\ Arrive(c, [op |-> "move"], [start |-> s, asof |-> today], <<"countBlockers", "regenerate">>)
          /\ UNCHANGED <<world, today>>
    BY <1>3 DEF Move
  <2>2. PlanOK(<<"countBlockers", "regenerate">>, [op |-> "move"], [start |-> s, asof |-> today], made)
    BY <2>1, CalendarAssumption DEF PlanOK, MovePlan
  <2> QED
    BY <2>1, <2>2, ArriveOK, RequestsOnly
<1>4. CASE Delete(c)
  <2>1. PlanOK(<<"deleteDays", "deleteRow">>, [op |-> "delete"], [asof |-> today], made)
    BY DEF PlanOK, OtherPlan
  <2> QED
    BY <1>4, <2>1, ArriveOK, RequestsOnly DEF Delete
<1> QED
  BY <1>1, <1>2, <1>3, <1>4

LEMMA ReadPatternStep ==
  ASSUME IInv, NEW c \in Requests, ReadPattern(c)
  PROVE  IInv'
<1>1. ExtendPlan(plan[c], mem[c]) /\ UNCHANGED <<world, today>>
  BY Heads DEF ReadPattern
<1>2. PICK p \in PatternType :
        Proceed(c, [start |-> mem[c].start, asof |-> mem[c].asof, pattern |-> p])
  BY DEF ReadPattern, PatternType
<1> DEFINE m == [start |-> mem[c].start, asof |-> mem[c].asof, pattern |-> p]
<1>3. Tail(plan[c]) = <<"insertYear">>
  BY <1>1 DEF ExtendPlan
<1>4. Continue(c, <<"insertYear">>, m) /\ failed' \in BOOLEAN
  BY <1>2, <1>3 DEF Proceed, Rest, IInv, RequestsOK
<1>5. PlanOK(<<"insertYear">>, req[c], m, made)
  BY <1>1 DEF PlanOK, ExtendPlan, InsertPlan
<1> HIDE DEF m
<1> QED
  BY <1>1, <1>4, <1>5, ContinueOK, RequestsOnly

LEMMA CountBlockersStep ==
  ASSUME IInv, NEW c \in Requests, CountBlockers(c)
  PROVE  IInv'
<1>1. MovePlan(plan[c], mem[c]) /\ UNCHANGED <<world, today>>
  BY Heads DEF CountBlockers
<1> DEFINE n == Cardinality({days[i].start : i \in Rows})
           m == [start |-> mem[c].start, asof |-> mem[c].asof, years |-> IF n = 0 THEN 1 ELSE n]
<1>2. CASE Locked
  BY <1>1, <1>2, EndOK, RequestsOnly DEF CountBlockers
<1>3. CASE ~Locked
  <2>1. n \in Nat
    <3> DEFINE start == [i \in Rows |-> days[i].start]
    <3>1. made \in Int /\ Rows \subseteq 1..made
      BY CalendarAssumption DEF IInv, DaysOK, Rows
    <3>2. IsFiniteSet(1..made)
      BY <3>1, FS_Interval
    <3>3. IsFiniteSet(Rows)
      BY <3>1, <3>2, FS_Subset
    <3>4. start \in Surjection(Rows, {days[i].start : i \in Rows})
      BY DEF Surjection
    <3>5. IsFiniteSet({days[i].start : i \in Rows})
      BY <3>3, <3>4, FS_Surjection
    <3> QED
      BY <3>5, FS_CardinalityType
  <2>2. Tail(plan[c]) = <<"regenerate">>
    BY <1>1 DEF MovePlan
  <2>3. Continue(c, <<"regenerate">>, m) /\ failed' \in BOOLEAN
    BY <1>3, <2>2 DEF CountBlockers, Proceed, Rest, IInv, RequestsOK
  <2>4. PlanOK(<<"regenerate">>, req[c], m, made)
    BY <1>1, <2>1 DEF PlanOK, MovePlan, RegeneratePlan
  <2> HIDE DEF m
  <2> QED
    BY <1>1, <2>3, <2>4, ContinueOK, RequestsOnly
<1> QED
  BY <1>2, <1>3

LEMMA HeadOfOther ==
  ASSUME IInv, NEW c \in Requests
  PROVE  /\ At(c, "saveCalendar") => plan[c] = <<"saveCalendar">>
         /\ At(c, "deleteDays") => plan[c] = <<"deleteDays", "deleteRow">>
         /\ At(c, "deleteRow") => plan[c] = <<"deleteRow">>
<1>1. /\ Head(<<"saveCalendar">>) = "saveCalendar"
      /\ Head(<<"deleteDays", "deleteRow">>) = "deleteDays"
      /\ Head(<<"deleteRow">>) = "deleteRow"
  OBVIOUS
<1>2. ASSUME At(c, "deleteDays") \/ At(c, "deleteRow") \/ At(c, "saveCalendar")
      PROVE  \/ plan[c] = <<"saveCalendar">>
             \/ plan[c] = <<"deleteDays", "deleteRow">>
             \/ plan[c] = <<"deleteRow">>
  BY <1>2, Heads DEF OtherPlan, At
<1> QED
  BY <1>1, <1>2 DEF At

LEMMA SaveCalendarStep ==
  ASSUME IInv, NEW c \in Requests, SaveCalendar(c)
  PROVE  IInv'
<1>1. plan[c] = <<"saveCalendar">>
  BY HeadOfOther DEF SaveCalendar
<1>2. RequestsOK' /\ \A d \in Requests : PlanOK(plan'[d], req'[d], mem'[d], made)
  BY <1>1, LastOK DEF SaveCalendar
<1> QED
  BY <1>2 DEF SaveCalendar, IInv, PlansOK, DaysOK

LEMMA DeleteSteps ==
  ASSUME IInv, NEW c \in Requests, DeleteDays(c) \/ DeleteRow(c)
  PROVE  IInv'
<1>1. CASE DeleteDays(c)
  <2>0. Tail(<<"deleteDays", "deleteRow">>) = <<"deleteRow">>
    OBVIOUS
  <2>1. plan[c] = <<"deleteDays", "deleteRow">> /\ Tail(plan[c]) = <<"deleteRow">>
    BY <1>1, <2>0, HeadOfOther DEF DeleteDays
  <2>2. Continue(c, <<"deleteRow">>, mem[c]) /\ failed' \in BOOLEAN
    BY <1>1, <2>1 DEF DeleteDays, Done, Proceed, Rest, IInv, RequestsOK
  <2>3. PlanOK(<<"deleteRow">>, req[c], mem[c], made)
    BY DEF PlanOK, OtherPlan
  <2>4. RequestsOK' /\ \A d \in Requests : PlanOK(plan'[d], req'[d], mem'[d], made)
    BY <2>2, <2>3, ContinueOK
  <2>5. DaysOK(days', made)
    BY <1>1 DEF DeleteDays, DaysOK
  <2> QED
    BY <1>1, <2>4, <2>5 DEF DeleteDays, IInv, PlansOK, DaysOK
<1>2. CASE DeleteRow(c)
  <2>1. plan[c] = <<"deleteRow">>
    BY <1>2, HeadOfOther DEF DeleteRow
  <2>2. RequestsOK' /\ \A d \in Requests : PlanOK(plan'[d], req'[d], mem'[d], made)
    BY <1>2, <2>1, LastOK DEF DeleteRow
  <2> QED
    BY <1>2, <2>2 DEF DeleteRow, IInv, PlansOK, DaysOK
<1> QED
  BY <1>1, <1>2

-----------------------------------------------------------------------------
(* The theorems *)

LEMMA Initially == Init => IInv
<1> SUFFICES ASSUME Init PROVE IInv
  OBVIOUS
<1>1. PICK p \in Patterns \cup {NoPattern} : days = Built(FirstDate, 1, 0, p)
  BY DEF Init
<1>2. p \in PatternType
  BY NoPatternOK, PatternAssumption DEF PatternType
<1>3. YearDays \in Nat /\ 0 + 1 * YearDays = YearDays
  BY YearDaysNat
<1>4. DaysOK(days, YearDays)
  BY <1>1, <1>2, <1>3, BuiltOK, CalendarAssumption
<1>5. made = YearDays /\ made \in 0..MaxRows
  BY <1>3, RowsAssumption, CalendarAssumption DEF Init
<1>6. RequestsOK
  <2>1. InitRequests
    BY DEF Init
  <2>2. served \in 0..MaxServed
    BY <2>1, RequestAssumption DEF InitRequests
  <2>3. DOMAIN plan = Requests /\ DOMAIN req = Requests /\ DOMAIN mem = Requests
    BY <2>1 DEF InitRequests
  <2>4. overlapped \in BOOLEAN /\ failed \in BOOLEAN
    BY <2>1, Zenon DEF InitRequests
  <2> QED
    BY <2>2, <2>3, <2>4 DEF RequestsOK
<1>7. \A c \in Requests : plan[c] = <<>>
  BY DEF Init, InitRequests
<1>8. PlansOK(made)
  BY <1>7, EmptyOK DEF PlansOK
<1>9. exists \in BOOLEAN /\ followed \in BOOLEAN /\ mixed \subseteq Weekdays /\ today \in 0..LastToday
  <2>1. exists = TRUE /\ followed = FALSE /\ mixed = {} /\ today = 0
    BY DEF Init
  <2>2. exists \in BOOLEAN /\ followed \in BOOLEAN
    BY <2>1, Zenon
  <2>3. mixed \subseteq Weekdays /\ today \in 0..LastToday
    BY <2>1, CalendarAssumption
  <2> QED
    BY <2>2, <2>3
<1>10. DaysOK(days, made)
  BY <1>4, <1>5
<1> QED
  BY <1>5, <1>6, <1>8, <1>9, <1>10 DEF IInv

LEMMA UserSteps ==
  ASSUME IInv, Follow \/ Unfollow \/ Midnight
  PROVE  IInv'
<1>0. followed \in BOOLEAN /\ today \in 0..LastToday /\ LastToday \in Nat
      /\ served \in 0..MaxServed /\ MaxServed \in Nat /\ overlapped \in BOOLEAN
  BY CalendarAssumption, RequestAssumption DEF IInv, RequestsOK
<1>1. UNCHANGED <<plan, req, mem, failed>> /\ UNCHANGED <<days, made, exists, mixed>>
      /\ followed' \in BOOLEAN /\ today' \in 0..LastToday
      /\ served' \in 0..MaxServed /\ overlapped' \in BOOLEAN
  <2>1. CASE Follow
    BY <1>0, <2>1 DEF Follow, Instant, Quiet
  <2>2. CASE Unfollow
    <3>1. Instant("follow") /\ followed' = FALSE /\ UNCHANGED <<exists, days, made, mixed, today>>
      BY <2>2 DEF Unfollow
    <3>2. followed' \in BOOLEAN
      BY <3>1, Zenon
    <3> QED
      BY <1>0, <3>1, <3>2 DEF Instant, Quiet
  <2>3. CASE Midnight
    BY <1>0, <2>3 DEF Midnight, world, requestVars
  <2> QED
    BY <2>1, <2>2, <2>3
<1> QED
  BY <1>1 DEF IInv, RequestsOK, PlansOK, DaysOK

LEMMA Keeps == IInv /\ [Next]_vars => IInv'
<1> SUFFICES ASSUME IInv, [Next]_vars PROVE IInv'
  OBVIOUS
<1>1. CASE UNCHANGED vars
  BY <1>1 DEF vars, world, requestVars, IInv, RequestsOK, PlansOK, DaysOK
<1>2. CASE Follow \/ Unfollow \/ Midnight
  BY <1>2, UserSteps
<1>3. ASSUME NEW c \in Requests, DayStep(c) \/ PatternStep(c)
      PROVE  IInv'
  BY <1>3, DayStepKeeps, PatternStepKeeps
<1>4. ASSUME NEW c \in Requests, CalendarStep(c)
      PROVE  IInv'
  BY <1>4, AskCalendarStep, ReadPatternStep, InsertYearStep, SaveCalendarStep,
     CountBlockersStep, RegenerateStep, DeleteSteps DEF CalendarStep
<1>5. ASSUME NEW c \in Requests, Fail(c)
      PROVE  IInv'
  BY <1>5, EndOK, RequestsOnly DEF Fail
<1> QED
  BY <1>1, <1>2, <1>3, <1>4, <1>5 DEF Next

\* The flags of every day are in the matrix of day states, every request holds
\* rows that are, and what it was asked fits the day it loaded.
THEOREM CalendarInvariant == Spec => []IInv
<1>1. Init => IInv
  BY Initially
<1>2. IInv /\ [Next]_vars => IInv'
  BY Keeps
<1> QED
  BY <1>1, <1>2, PTL DEF Spec

\* Every day of a calendar is in one of the states the matrix lists, or the half
\* holiday on a weekend, and all variables have their types.
THEOREM DaysStayInMatrix == Spec => []TypeOK
<1>1. IInv => TypeOK
  <2> SUFFICES ASSUME IInv PROVE TypeOK
    OBVIOUS
  <2>1. \A i \in Rows : days[i].date \in Nat /\ days[i].start \in Nat /\ days[i].flags \in States
    BY DEF IInv, DaysOK, Rows, Day
  <2>2. Rows \subseteq 1..made
    BY DEF IInv, DaysOK, Rows
  <2> QED
    BY <2>1, <2>2, StatesInMatrix DEF IInv, TypeOK
<1> QED
  BY <1>1, CalendarInvariant, PTL
-----------------------------------------------------------------------------
(* What requests know of the days, by the statement they are at *)

\* Two versions of one row: the date and the year never change.
SameDay(x, y) == x.date = y.date /\ x.start = y.start

\* The rows a request is about to save were not past when it came, whatever
\* overlaps, and are versions of the rows of the table and of those of others.
Saving(c) == At(c, "readBase") \/ At(c, "saveDays")
Timely(c) == \A i \in DOMAIN mem[c].rows :
  /\ mem[c].asof <= mem[c].rows[i].date
  /\ i \in Rows => SameDay(mem[c].rows[i], days[i])
  /\ \A d \in Requests : Saving(d) /\ i \in DOMAIN mem[d].rows =>
       SameDay(mem[c].rows[i], mem[d].rows[i])

\* A day with the flags g follows the pattern as day i does.
Follows(i, g) ==
  /\ g.isWeekend = days[i].flags.isWeekend
  /\ ~Overridden(g) /\ g.isWeekend => g.dayType \in BaseTypes(Weekday(days[i].date))

\* What a request with the memory m that was asked r knows at the statement s, if
\* nothing has overlapped it.
OneDay(rows) == DOMAIN rows \subseteq Rows /\ \A i, j \in DOMAIN rows : i = j
Knows(s, r, m) ==
  /\ s = "readBase" =>
       /\ r.op \in {"holiday", "working", "restore"} /\ OneDay(m.rows)
       /\ \A i \in DOMAIN m.rows : m.rows[i] = days[i]
  /\ s = "saveDays" =>
       /\ DOMAIN m.rows \subseteq Rows
       /\ r.op \notin {"repeat", "drop"} =>
            OneDay(m.rows) /\ \A i \in DOMAIN m.rows : Follows(i, m.rows[i].flags)
  /\ s = "readPattern" => m.start \in NextStarts
  /\ s = "insertYear" =>
       m.start \in NextStarts /\ \A w \in Weekdays : m.pattern[w] \in PatternTypes(w)
  /\ s = "regenerate" => ~Locked
  /\ s = "deleteDays" => ~followed /\ r.op = "delete"
Known(c) == \A s, r, m : At(c, s) /\ r = req[c] /\ m = mem[c] => Knows(s, r, m)

Alone == \A c, d \in Requests : ~Idle(c) /\ ~Idle(d) => c = d
Agreed == \A w \in Weekdays \ mixed : Agree(days, w)

WeeksInv ==
  /\ IInv
  /\ \A c \in Requests : Saving(c) => Timely(c)
  /\ ~overlapped => Alone /\ (\A c \in Requests : Known(c)) /\ Continuous /\ Agreed

-----------------------------------------------------------------------------
(* Whole years *)

\* A year has at least one week.
LEMMA YearDaysPositive == YearDays \in Nat \ {0}
<1> DEFINE ks == {k \in 0..YearLength : k * DaysInWeek + DaysInWeek \div 2 < YearLength}
<1>1. DaysInWeek \in Nat \ {0} /\ YearLength \in Nat \ {0} /\ DaysInWeek \div 2 < YearLength
  BY CalendarAssumption, YearAssumption
<1>2. 0 \in ks
  BY <1>1
<1>3. IsFiniteSet(ks)
  <2>1. IsFiniteSet(0..YearLength)
    BY <1>1, FS_Interval
  <2> QED
    BY <2>1, FS_Subset
<1>4. WeekCount \in Nat \ {0}
  BY <1>2, <1>3, FS_EmptySet, FS_CardinalityType DEF WeekCount
<1> QED
  BY <1>1, <1>4 DEF YearDays

\* Division by a length that is not known
LEMMA Quotient ==
  ASSUME NEW D \in Nat \ {0}, NEW q \in Nat, NEW j \in 0..(D - 1)
  PROVE  (q * D + j) \div D = q /\ (q * D + j) % D = j
<1> DEFINE x == q * D + j  a == x \div D  r == x % D
<1>1. x \in Nat /\ a \in Int /\ r \in 0..(D - 1) /\ x = D * a + r
  OBVIOUS
<1>2. D * (q - a) = r - j
  BY <1>1
<1>3. q - a < 1
  <2> SUFFICES ASSUME q - a >= 1 PROVE FALSE
    BY <1>1
  <2>1. D * (q - a) >= D
    BY <1>1
  <2> QED
    BY <1>1, <1>2, <2>1
<1>4. a - q < 1
  <2> SUFFICES ASSUME a - q >= 1 PROVE FALSE
    BY <1>1
  <2>1. D * (a - q) >= D
    BY <1>1
  <2>2. D * (a - q) = j - r
    BY <1>1
  <2> QED
    BY <1>1, <2>1, <2>2
<1>5. a = q
  BY <1>1, <1>3, <1>4
<1> QED
  BY <1>1, <1>5

LEMMA WholeYears ==
  ASSUME NEW D \in Nat \ {0}, NEW n \in Nat, n % D = 0
  PROVE  \E q \in Nat : n = q * D
<1>1. n = D * (n \div D) /\ n \div D \in Nat
  OBVIOUS
<1> QED
  BY <1>1

-----------------------------------------------------------------------------
(* The rows of new years *)

\* Days follow one another without a gap, by their dates and their years.
Pairs(ds) == {<<ds[i].date, ds[i].start>> : i \in DOMAIN ds}
YearsFrom(first, n) == {<<first + k, first + (k \div YearDays) * YearDays>> : k \in 0..(n - 1)}
Whole(ds) ==
  LET n == Cardinality(DOMAIN ds) IN
  /\ n % YearDays = 0
  /\ DOMAIN ds # {} => \E first \in {ds[i].date : i \in DOMAIN ds} : Pairs(ds) = YearsFrom(first, n)

OnPattern(f, p, date) ==
  f = IF p[Weekday(date)] = None THEN Default ELSE Compose(FALSE, TRUE, FALSE, p[Weekday(date)])
New(b, date, first, all, p) ==
  /\ DOMAIN b = (first + 1)..(first + all)
  /\ \A i \in DOMAIN b : b[i].date = date + (i - first - 1) /\ OnPattern(b[i].flags, p, b[i].date)
  /\ Pairs(b) = YearsFrom(date, all)
  /\ IsFiniteSet(DOMAIN b) /\ Cardinality(DOMAIN b) = all

LEMMA BuiltRows ==
  ASSUME NEW date \in Nat, NEW n \in Nat, NEW first \in Nat, NEW p
  PROVE  New(Built(date, n, first, p), date, first, n * YearDays, p)
<1> DEFINE b == Built(date, n, first, p)
           all == n * YearDays
           Pair(k) == <<date + k, date + (k \div YearDays) * YearDays>>
<1>1. YearDays \in Nat \ {0} /\ all \in Nat
  BY YearDaysPositive
<1>2. DOMAIN b = (first + 1)..(first + all)
  BY DEF Built
<1>3. ASSUME NEW i \in DOMAIN b
      PROVE  /\ b[i].date = date + (i - first - 1)
             /\ <<b[i].date, b[i].start>> = Pair(i - first - 1)
             /\ OnPattern(b[i].flags, p, b[i].date)
  <2> DEFINE k == i - first - 1
             t == p[Weekday(date + k)]
             fs == IF t = None THEN Default ELSE Compose(FALSE, TRUE, FALSE, t)
  <2>1. b[i] = [date |-> date + k, start |-> YearStart(date, k), flags |-> fs]
    BY <1>2, <1>3 DEF Built
  <2> HIDE DEF fs
  <2>2. b[i].date = date + k /\ b[i].start = YearStart(date, k) /\ b[i].flags = fs
    BY <2>1
  <2>3. b[i].start = date + (k \div YearDays) * YearDays
    BY <2>2 DEF YearStart
  <2> QED
    BY <2>2, <2>3 DEF fs, OnPattern
<1>4. \A i \in DOMAIN b : i - first - 1 \in 0..(all - 1)
  BY <1>1, <1>2
<1>5. \A k \in 0..(all - 1) : first + k + 1 \in DOMAIN b /\ (first + k + 1) - first - 1 = k
  BY <1>1, <1>2
<1>6. Pairs(b) = YearsFrom(date, all)
  <2>1. YearsFrom(date, all) = {Pair(k) : k \in 0..(all - 1)}
    BY DEF YearsFrom
  <2> HIDE DEF Pair, b, all
  <2>2. \A i \in DOMAIN b : <<b[i].date, b[i].start>> \in {Pair(k) : k \in 0..(all - 1)}
    BY <1>3, <1>4
  <2>3. ASSUME NEW k \in 0..(all - 1) PROVE Pair(k) \in Pairs(b)
    <3>1. first + k + 1 \in DOMAIN b /\ <<b[first + k + 1].date, b[first + k + 1].start>> = Pair(k)
      BY <1>3, <1>5
    <3> QED
      BY <3>1 DEF Pairs
  <2>4. Pairs(b) \subseteq {Pair(k) : k \in 0..(all - 1)}
    BY <2>2 DEF Pairs
  <2>5. Pairs(b) = {Pair(k) : k \in 0..(all - 1)}
    BY <2>3, <2>4
  <2> QED
    BY <2>1, <2>5
<1>7. IsFiniteSet(DOMAIN b) /\ Cardinality(DOMAIN b) = all
  <2>1. first + 1 \in Int /\ first + all \in Int /\ (first + all) - (first + 1) + 1 = all
    BY <1>1
  <2>2. /\ IsFiniteSet((first + 1)..(first + all))
        /\ Cardinality((first + 1)..(first + all)) =
             IF first + 1 > first + all THEN 0 ELSE (first + all) - (first + 1) + 1
    BY <2>1, FS_Interval
  <2> QED
    BY <1>1, <1>2, <2>1, <2>2
<1> QED
  BY <1>2, <1>3, <1>6, <1>7 DEF New

LEMMA ContinuousIsWhole == Continuous <=> Whole(days)
BY DEF Continuous, Whole, Pairs, YearsFrom, Rows

LEMMA WholeNext == Whole(days') => Continuous'
BY DEF Continuous, Whole, Pairs, YearsFrom, Rows

LEMMA NoDaysWhole ==
  ASSUME NEW ds, DOMAIN ds = {}
  PROVE  Whole(ds)
<1>1. Cardinality({}) = 0 /\ YearDays \in Nat \ {0}
  BY FS_EmptySet, YearDaysPositive
<1>2. 0 % YearDays = 0
  BY <1>1, Quotient
<1> QED
  BY <1>1, <1>2 DEF Whole

LEMMA BuiltWhole ==
  ASSUME NEW date \in Nat, NEW n \in Nat, NEW first \in Nat, NEW p
  PROVE  Whole(Built(date, n, first, p))
<1> DEFINE b == Built(date, n, first, p)
           all == n * YearDays
<1>1. YearDays \in Nat \ {0} /\ all \in Nat /\ 0 \in 0..(YearDays - 1) /\ n * YearDays + 0 = all
  BY YearDaysPositive
<1>2. all % YearDays = 0
  BY <1>1, Quotient
<1>3. /\ Pairs(b) = YearsFrom(date, all) /\ Cardinality(DOMAIN b) = all
      /\ DOMAIN b = (first + 1)..(first + all)
      /\ \A i \in DOMAIN b : b[i].date = date + (i - first - 1)
  <2>1. New(b, date, first, all, p)
    BY BuiltRows
  <2> QED
    BY <2>1 DEF New
<1>4. ASSUME DOMAIN b # {} PROVE date \in {b[i].date : i \in DOMAIN b}
  <2>1. first + 1 \in DOMAIN b /\ (first + 1) - first - 1 = 0
    BY <1>1, <1>3, <1>4
  <2>2. b[first + 1].date = date + 0
    BY <1>3, <2>1
  <2> QED
    BY <2>1, <2>2
<1> HIDE DEF b, all
<1> QED
  BY <1>2, <1>3, <1>4 DEF Whole, b

\* ... and so they are with a year that starts after the last day.
LEMMA ExtendedWhole ==
  ASSUME IInv, Continuous, NEW s \in NextStarts, NEW p
  PROVE  Whole(Over(Built(s, 1, made, p)))
<1> DEFINE b == Built(s, 1, made, p)
           D == YearDays
           n == Cardinality(Rows)
           ds == Over(b)
<1>1. D \in Nat \ {0} /\ made \in Nat /\ 1 * D = D /\ DaysOK(days, made) /\ Rows \subseteq 1..made
  BY YearDaysPositive, CalendarAssumption DEF IInv, DaysOK, Rows
<1>2. \A i \in Rows : days[i].date \in Nat
  BY <1>1 DEF DaysOK, Rows, Day
<1>3. s \in Nat
  <2>1. \A t \in NewStarts : YearOf(t) * YearLength \in Nat
    <3>1. \A t \in NewStarts : YearOf(t) \in Nat
      BY CalendarAssumption DEF YearOf
    <3> QED
      BY <3>1, CalendarAssumption
  <2> QED
    BY <1>2, <2>1 DEF NextStarts
<1>4. /\ DOMAIN b = (made + 1)..(made + D)
      /\ Pairs(b) = YearsFrom(s, D) /\ IsFiniteSet(DOMAIN b) /\ Cardinality(DOMAIN b) = D
  <2>1. New(b, s, made, 1 * YearDays, p)
    BY <1>1, <1>3, BuiltRows
  <2> HIDE DEF b
  <2> QED
    BY <1>1, <2>1 DEF New
<1>5. Rows \cap DOMAIN b = {}
  BY <1>1, <1>4
<1>6. DOMAIN ds = Rows \cup DOMAIN b
      /\ (\A i \in Rows : ds[i] = days[i]) /\ (\A i \in DOMAIN b : ds[i] = b[i])
  BY <1>5 DEF Over
<1>7. IsFiniteSet(Rows) /\ n \in Nat
  <2>1. IsFiniteSet(1..made)
    BY <1>1, FS_Interval
  <2> QED
    BY <1>1, <2>1, FS_Subset, FS_CardinalityType
<1>8. Cardinality(DOMAIN ds) = n + D
  <2>1. Cardinality(Rows \cup DOMAIN b) = n + D - Cardinality(Rows \cap DOMAIN b)
    BY <1>4, <1>7, FS_Union
  <2> QED
    <3>1. Cardinality(Rows \cap DOMAIN b) = 0
      BY <1>5, FS_EmptySet
    <3> HIDE DEF b, n, ds
    <3> QED
      BY <1>1, <1>6, <1>7, <2>1, <3>1
<1>9. Pairs(ds) = Pairs(days) \cup Pairs(b)
  <2> HIDE DEF b, ds
  <2> QED
    BY <1>6 DEF Pairs, Rows
<1>10. PICK q \in Nat : n = q * D
  <2>1. n % D = 0
    BY DEF Continuous
  <2> HIDE DEF n, D
  <2> QED
    BY <1>1, <1>7, <2>1, WholeYears
<1>11. ASSUME Rows = {} PROVE Whole(ds)
  <2>1. n = 0 /\ Pairs(days) = {}
    BY <1>11, FS_EmptySet DEF Pairs, Rows
  <2>2. Whole(b)
    BY <1>1, <1>3, BuiltWhole
  <2>3. DOMAIN ds = DOMAIN b /\ Pairs(ds) = Pairs(b) /\ {ds[i].date : i \in DOMAIN ds} = {b[i].date : i \in DOMAIN b}
    <3> HIDE DEF b, ds
    <3> QED
      BY <1>6, <1>9, <1>11, <2>1
  <2> HIDE DEF b, ds
  <2>4. Cardinality(DOMAIN ds) = Cardinality(DOMAIN b)
    BY <2>3
  <2>5. Cardinality(DOMAIN b) % YearDays = 0
    BY <2>2 DEF Whole
  <2>6. ASSUME DOMAIN ds # {}
        PROVE  \E first \in {ds[i].date : i \in DOMAIN ds} :
                 Pairs(ds) = YearsFrom(first, Cardinality(DOMAIN ds))
    <3>1. PICK first \in {b[i].date : i \in DOMAIN b} : Pairs(b) = YearsFrom(first, Cardinality(DOMAIN b))
      BY <2>2, <2>3, <2>6 DEF Whole
    <3> QED
      BY <2>3, <2>4, <3>1
  <2> QED
    BY <2>4, <2>5, <2>6 DEF Whole
<1>12. ASSUME Rows # {} PROVE Whole(ds)
  <2>1. PICK first \in {days[i].date : i \in Rows} : Pairs(days) = YearsFrom(first, n)
    BY <1>12 DEF Continuous, Pairs, YearsFrom, Rows
  <2>2. first \in Nat /\ n >= 1
    <3>1. n # 0
      BY <1>7, <1>12, FS_EmptySet
    <3> QED
      BY <1>2, <1>7, <2>1, <3>1
  <2>3. s = first + n
    <3>1. PICK l \in Rows : s = days[l].date + 1 /\ \A k \in Rows : days[k].date <= days[l].date
      BY <1>12 DEF NextStarts
    <3>2. \A i \in Rows : <<days[i].date, days[i].start>> \in YearsFrom(first, n)
      BY <2>1 DEF Pairs, Rows
    <3>3. \A i \in Rows : days[i].date <= first + n - 1
      BY <1>7, <2>2, <3>2 DEF YearsFrom
    <3>4. <<first + (n - 1), first + ((n - 1) \div D) * D>> \in Pairs(days)
      BY <1>7, <2>1, <2>2 DEF YearsFrom
    <3>5. PICK k \in Rows : days[k].date = first + (n - 1)
      BY <3>4 DEF Pairs, Rows
    <3> HIDE DEF n
    <3> QED
      BY <1>2, <1>7, <2>2, <3>1, <3>3, <3>5
  <2>4. YearsFrom(first, n + D) = YearsFrom(first, n) \cup YearsFrom(s, D)
    <3> DEFINE Pair(k) == <<first + k, first + (k \div D) * D>>
               all == n + D
    <3> HIDE DEF D, n, all
    <3>1. ASSUME NEW j \in 0..(D - 1) PROVE Pair(n + j) = <<s + j, s + (j \div D) * D>>
      <4>1. (n + j) \div D = q
        BY <1>1, <1>10, Quotient
      <4>2. j \div D = 0
        <5>1. 0 * D + j = j
          BY <1>1
        <5> QED
          BY <1>1, <5>1, Quotient
      <4>3. 0 * D = 0 /\ s + 0 = s
        BY <1>1, <1>3
      <4> QED
        BY <1>1, <1>7, <1>10, <2>2, <2>3, <4>1, <4>2, <4>3
    <3>2. 0..(all - 1) = 0..(n - 1) \cup {n + j : j \in 0..(D - 1)}
      <4>1. \A k \in 0..(all - 1) : k \notin 0..(n - 1) => k - n \in 0..(D - 1) /\ k = n + (k - n)
        BY <1>1, <1>7 DEF all
      <4> QED
        BY <1>1, <1>7, <4>1 DEF all
    <3>3. YearsFrom(first, all) = {Pair(k) : k \in 0..(all - 1)}
          /\ YearsFrom(first, n) = {Pair(k) : k \in 0..(n - 1)}
          /\ YearsFrom(s, D) = {<<s + j, s + (j \div D) * D>> : j \in 0..(D - 1)}
      <4> USE DEF D
      <4>1. YearsFrom(first, all) = {Pair(k) : k \in 0..(all - 1)}
        BY DEF YearsFrom
      <4>2. YearsFrom(first, n) = {Pair(k) : k \in 0..(n - 1)}
        BY DEF YearsFrom
      <4>3. YearsFrom(s, D) = {<<s + j, s + (j \div D) * D>> : j \in 0..(D - 1)}
        BY DEF YearsFrom
      <4> QED
        BY <4>1, <4>2, <4>3
    <3> HIDE DEF Pair
    <3> QED
      BY <3>1, <3>2, <3>3 DEF all
  <2>5. Pairs(ds) = YearsFrom(first, n + D)
    BY <1>4, <1>9, <2>1, <2>4
  <2>6. first \in {ds[i].date : i \in DOMAIN ds}
    <3> HIDE DEF ds, b
    <3> QED
      BY <1>6, <2>1
  <2>7. (n + D) % D = 0
    <3> HIDE DEF n, D
    <3>1. n + D = (q + 1) * D + 0 /\ q + 1 \in Nat /\ 0 \in 0..(D - 1)
      BY <1>1, <1>7, <1>10
    <3>2. ((q + 1) * D + 0) % D = 0
      BY <1>1, <3>1, Quotient
    <3> QED
      BY <3>1, <3>2
  <2> HIDE DEF ds, b, n
  <2>8. (n + D) % YearDays = 0
    BY <2>7
  <2> HIDE DEF D
  <2> QED
    BY <1>8, <2>5, <2>6, <2>8 DEF Whole
<1> QED
  BY <1>11, <1>12

\* A save of versions of rows that are there changes no date.
LEMMA SavedWhole ==
  ASSUME Continuous, NEW ds, DOMAIN ds = Rows, \A i \in Rows : SameDay(ds[i], days[i])
  PROVE  Whole(ds)
<1>1. Pairs(ds) = Pairs(days) /\ {ds[i].date : i \in DOMAIN ds} = {days[i].date : i \in Rows}
  BY DEF Pairs, SameDay, Rows
<1> QED
  BY <1>1, ContinuousIsWhole DEF Whole, Rows

-----------------------------------------------------------------------------
(* The days of a weekday agree *)

LEMMA PatternFlags ==
  ASSUME NEW p, NEW date, p[Weekday(date)] \in Types \cup {None}, NEW f, OnPattern(f, p, date)
  PROVE  /\ ~Overridden(f)
         /\ f.isWeekend = (p[Weekday(date)] # None)
         /\ f.dayType = IF p[Weekday(date)] = None THEN "FULL" ELSE p[Weekday(date)]
BY DEF OnPattern, Default, Compose, Overridden

\* What readWeekendPattern makes of the days of a weekday that agree fits each
\* of them, although it looks at one.
LEMMA PatternOf ==
  ASSUME IInv, NEW w, Agree(days, w), NEW i \in OnWeekday(w), NEW t \in PatternTypes(w)
  PROVE  LET f == days[i].flags IN
         /\ t \in Types \cup {None} /\ f.isWeekend = (t # None)
         /\ ~Overridden(f) => f.dayType = IF t = None THEN "FULL" ELSE t
<1> DEFINE f == days[i].flags
<1>1. \A j \in OnWeekday(w) :
        /\ days[j].flags.isWeekend = f.isWeekend
        /\ ~Overridden(days[j].flags) /\ ~Overridden(f) => days[j].flags.dayType = f.dayType
  BY DEF Agree, OnWeekday, Rows
<1>2. \A j \in OnWeekday(w) : days[j].flags \in States
  BY DEF IInv, DaysOK, Day, OnWeekday, Rows
<1>3. f \in States /\ f.isWeekend \in BOOLEAN /\ (~Overridden(f) /\ ~f.isWeekend => f.dayType = "FULL")
  BY <1>2, StateIsSound DEF Overridden, Sound
<1>4. None \notin Types
  BY DEF None, Types
<1>5. CASE Weekends(w) = {}
  <2>1. t = None
    BY <1>5 DEF PatternTypes
  <2>2. ~f.isWeekend
    BY <1>5 DEF Weekends
  <2> QED
    BY <1>3, <2>1, <2>2
<1>6. CASE Weekends(w) # {}
  <2>1. f.isWeekend
    BY <1>1, <1>3, <1>6 DEF Weekends
  <2>2. PICK j \in Weekends(w) :
          t = days[j].flags.dayType /\ (~Overridden(f) => ~Overridden(days[j].flags))
    <3>1. CASE CleanOf(Weekends(w)) = {}
      <4>1. Overridden(f)
        BY <2>1, <3>1 DEF CleanOf, Weekends
      <4> QED
        BY <1>6, <3>1, <4>1 DEF PatternTypes, TypesOf
    <3>2. CASE CleanOf(Weekends(w)) # {}
      BY <1>6, <3>2 DEF PatternTypes, TypesOf, CleanOf
    <3> QED
      BY <3>1, <3>2
  <2>3. j \in OnWeekday(w)
    BY <2>2 DEF Weekends
  <2>4. t \in Types
    BY <1>2, <2>2, <2>3, StateIsSound
  <2> HIDE DEF f
  <2>5. ~Overridden(f) => f.dayType = t
    BY <1>1, <2>2, <2>3
  <2> QED
    BY <1>4, <2>1, <2>4, <2>5 DEF f
<1> QED
  BY <1>5, <1>6

\* The type of a repeated holiday found under an override is that of the others.
LEMMA BaseOf ==
  ASSUME NEW w, Agree(days, w), NEW i \in CleanOf(Weekends(w)), NEW t \in BaseTypes(w)
  PROVE  t = days[i].flags.dayType
<1>1. PICK j \in CleanOf(Weekends(w)) : t = days[j].flags.dayType
  BY DEF BaseTypes, TypesOf
<1> QED
  BY <1>1 DEF Agree, CleanOf, Weekends, OnWeekday, Rows

LEMMA NewAgree ==
  ASSUME NEW b, NEW date, NEW first, NEW all, NEW p, New(b, date, first, all, p),
         NEW w, p[w] \in Types \cup {None}
  PROVE  Agree(b, w)
<1>1. ASSUME NEW i \in DOMAIN b, Weekday(b[i].date) = w
      PROVE  /\ b[i].flags.isWeekend = (p[w] # None)
             /\ b[i].flags.dayType = IF p[w] = None THEN "FULL" ELSE p[w]
  BY <1>1, PatternFlags DEF New
<1> QED
  BY <1>1 DEF Agree

LEMMA ExtendedAgree ==
  ASSUME IInv, NEW b, NEW date, NEW all, NEW p, New(b, date, made, all, p),
         NEW w, Agree(days, w), p[w] \in PatternTypes(w), p[w] \in Types \cup {None}
  PROVE  Agree(Over(b), w)
<1> DEFINE ds == Over(b)
           T == IF p[w] = None THEN "FULL" ELSE p[w]
<1>1. Rows \cap DOMAIN b = {}
  BY CalendarAssumption DEF New, IInv, DaysOK, Rows
<1>2. DOMAIN ds = Rows \cup DOMAIN b
      /\ (\A i \in Rows : ds[i] = days[i]) /\ (\A i \in DOMAIN b : ds[i] = b[i])
  BY <1>1 DEF Over
<1> HIDE DEF ds
<1>3. ASSUME NEW i \in DOMAIN ds, Weekday(ds[i].date) = w
      PROVE  /\ ds[i].flags.isWeekend = (p[w] # None)
             /\ ~Overridden(ds[i].flags) => ds[i].flags.dayType = T
  <2>1. CASE i \in Rows
    <3>1. i \in OnWeekday(w) /\ ds[i] = days[i]
      BY <1>2, <1>3, <2>1 DEF OnWeekday
    <3> QED
      BY <3>1, PatternOf
  <2>2. CASE i \in DOMAIN b
    BY <1>2, <1>3, <2>2, PatternFlags DEF New
  <2> QED
    BY <1>2, <1>3, <2>1, <2>2
<1> HIDE DEF T
<1>4. Agree(ds, w)
  BY <1>3 DEF Agree
<1> QED
  BY <1>4 DEF ds

LEMMA SavedAgree ==
  ASSUME IInv, NEW w, Agree(days, w), NEW rows, DaysOK(rows, made), OneDay(rows),
         \A i \in DOMAIN rows : SameDay(rows[i], days[i]) /\ Follows(i, rows[i].flags)
  PROVE  Agree(Over(rows), w)
<1> DEFINE ds == Over(rows)
<1>1. DOMAIN ds = Rows /\ DOMAIN rows \subseteq Rows
      /\ \A i \in Rows : ds[i] = IF i \in DOMAIN rows THEN rows[i] ELSE days[i]
  BY DEF Over, OneDay
<1> HIDE DEF ds
<1>2. \A i \in Rows : /\ ds[i].date = days[i].date /\ ds[i].flags.isWeekend = days[i].flags.isWeekend
                      /\ ds[i].flags \in States
  BY <1>1 DEF SameDay, Follows, IInv, DaysOK, Day, Rows
<1>3. ASSUME NEW i \in Rows, NEW j \in Rows, Weekday(ds[i].date) = w, Weekday(ds[j].date) = w
      PROVE  /\ ds[i].flags.isWeekend = ds[j].flags.isWeekend
             /\ days[i].flags.isWeekend = days[j].flags.isWeekend
             /\ ~Overridden(days[i].flags) /\ ~Overridden(days[j].flags) =>
                  days[i].flags.dayType = days[j].flags.dayType
  BY <1>2, <1>3 DEF Agree, Rows
<1>4. ASSUME NEW i \in DOMAIN rows, NEW j \in Rows \ DOMAIN rows,
             Weekday(ds[i].date) = w, Weekday(ds[j].date) = w,
             ~Overridden(ds[i].flags), ~Overridden(ds[j].flags)
      PROVE  ds[i].flags.dayType = ds[j].flags.dayType
  <2>1. i \in Rows /\ ds[i] = rows[i] /\ ds[j] = days[j]
    BY <1>1, <1>4
  <2>2. CASE ds[i].flags.isWeekend
    <3>1. ds[j].flags.isWeekend
      BY <1>3, <1>4, <2>1, <2>2
    <3>2. j \in CleanOf(Weekends(w)) /\ w = Weekday(days[i].date)
      BY <1>2, <1>4, <2>1, <3>1 DEF CleanOf, Weekends, OnWeekday
    <3>3. rows[i].flags.dayType \in BaseTypes(w)
      BY <1>4, <2>1, <2>2, <3>2 DEF Follows
    <3> QED
      BY <2>1, <3>2, <3>3, BaseOf
  <2>3. CASE ~ds[i].flags.isWeekend
    <3>1. ~ds[j].flags.isWeekend
      BY <1>3, <1>4, <2>1, <2>3
    <3>2. ds[i].flags \in States /\ ds[j].flags \in States
      BY <1>2, <2>1
    <3> QED
      BY <1>4, <2>3, <3>1, <3>2, StateIsSound DEF Sound, Overridden
  <2> QED
    BY <2>2, <2>3
<1>5. ASSUME NEW i \in Rows, NEW j \in Rows, Weekday(ds[i].date) = w, Weekday(ds[j].date) = w,
             ~Overridden(ds[i].flags), ~Overridden(ds[j].flags)
      PROVE  ds[i].flags.dayType = ds[j].flags.dayType
  <2>1. CASE i \in DOMAIN rows /\ j \in DOMAIN rows
    BY <2>1 DEF OneDay
  <2>2. CASE i \in DOMAIN rows /\ j \notin DOMAIN rows
    BY <1>4, <1>5, <2>2
  <2>3. CASE i \notin DOMAIN rows /\ j \in DOMAIN rows
    BY <1>4, <1>5, <2>3
  <2>4. CASE i \notin DOMAIN rows /\ j \notin DOMAIN rows
    BY <1>1, <1>3, <1>5, <2>4
  <2> QED
    BY <2>1, <2>2, <2>3, <2>4
<1>6. Agree(ds, w)
  BY <1>1, <1>3, <1>5 DEF Agree
<1> QED
  BY <1>6 DEF ds

-----------------------------------------------------------------------------
(* Every step keeps what the requests know *)

LEMMA SavingRows ==
  ASSUME IInv, NEW c \in Requests, Saving(c)
  PROVE  DaysOK(mem[c].rows, made)
BY Heads DEF Saving, SavePlan, BasePlan

\* What one request does leaves the rows of the others versions of the table's.
LEMMA TimelyKept ==
  ASSUME WeeksInv, NEW c \in Requests,
         \A d \in Requests \ {c} : plan'[d] = plan[d] /\ mem'[d] = mem[d],
         \A i \in DOMAIN days' : \A d \in Requests :
           Saving(d) /\ i \in DOMAIN mem[d].rows => SameDay(mem[d].rows[i], days'[i]),
         Saving(c)' => \A i \in DOMAIN mem'[c].rows :
           /\ mem'[c].asof <= mem'[c].rows[i].date
           /\ i \in DOMAIN days' => SameDay(mem'[c].rows[i], days'[i])
           /\ \A d \in Requests \ {c} : Saving(d) /\ i \in DOMAIN mem[d].rows =>
                SameDay(mem'[c].rows[i], mem[d].rows[i])
  PROVE  \A d \in Requests : Saving(d)' => Timely(d)'
<1> SUFFICES ASSUME NEW d \in Requests, Saving(d)', NEW i \in DOMAIN mem'[d].rows
             PROVE  /\ mem'[d].asof <= mem'[d].rows[i].date
                    /\ i \in DOMAIN days' => SameDay(mem'[d].rows[i], days'[i])
                    /\ \A e \in Requests : Saving(e)' /\ i \in DOMAIN mem'[e].rows =>
                         SameDay(mem'[d].rows[i], mem'[e].rows[i])
  BY DEF Timely, Rows, SameDay
<1>1. \A e \in Requests \ {c} : Saving(e)' <=> Saving(e)
  BY DEF Saving, At
<1>2. \A e \in Requests : Saving(e) => Timely(e)
  BY DEF WeeksInv
<1>3. CASE d = c
  <2>1. \A e \in Requests \ {c} : Saving(e)' /\ i \in DOMAIN mem'[e].rows =>
          SameDay(mem'[d].rows[i], mem'[e].rows[i])
    BY <1>1, <1>3
  <2>2. SameDay(mem'[d].rows[i], mem'[d].rows[i])
    BY DEF SameDay
  <2> QED
    BY <1>3, <2>1, <2>2
<1>4. CASE d # c
  <2>1. Saving(d) /\ Timely(d) /\ mem'[d] = mem[d]
    BY <1>1, <1>2, <1>4
  <2>2. \A e \in Requests \ {c} : Saving(e)' /\ i \in DOMAIN mem'[e].rows =>
          SameDay(mem'[d].rows[i], mem'[e].rows[i])
    BY <1>1, <2>1 DEF Timely
  <2>3. Saving(c)' /\ i \in DOMAIN mem'[c].rows => SameDay(mem'[d].rows[i], mem'[c].rows[i])
    BY <1>4, <2>1 DEF SameDay
  <2> QED
    BY <2>1, <2>2, <2>3 DEF Timely
<1> QED
  BY <1>3, <1>4

\* What is known of days that do not change stays known.
LEMMA Unmoved ==
  ASSUME days' = days, mixed' = mixed
  PROVE  /\ \A s, r, m : followed' = followed /\ Knows(s, r, m) => Knows(s, r, m)'
         /\ Continuous' <=> Continuous
         /\ Agreed' <=> Agreed
<1>1. ASSUME followed' = followed, NEW s, NEW r, NEW m, Knows(s, r, m) PROVE Knows(s, r, m)'
  <2> USE <1>1 DEF Rows, OnWeekday, Weekends, TypesOf, CleanOf
  <2>1. s = "readBase" =>
          /\ (r.op \in {"holiday", "working", "restore"} /\ OneDay(m.rows))'
          /\ (\A i \in DOMAIN m.rows : m.rows[i] = days[i])'
    BY DEF Knows, OneDay
  <2>2. s = "saveDays" =>
          /\ (DOMAIN m.rows \subseteq Rows)'
          /\ (r.op \notin {"repeat", "drop"} =>
                OneDay(m.rows) /\ \A i \in DOMAIN m.rows : Follows(i, m.rows[i].flags))'
    BY DEF Knows, OneDay, Follows, BaseTypes
  <2>3. s = "readPattern" => (m.start \in NextStarts)'
    BY DEF Knows, NextStarts
  <2>4. s = "insertYear" =>
          (m.start \in NextStarts /\ \A w \in Weekdays : m.pattern[w] \in PatternTypes(w))'
    <3>1. NextStarts' = NextStarts
      BY DEF NextStarts
    <3>2. \A w : PatternTypes(w)' = PatternTypes(w)
      BY DEF PatternTypes
    <3> QED
      BY <3>1, <3>2 DEF Knows
  <2>5. s = "regenerate" => ~Locked'
    BY DEF Knows, Locked
  <2>6. s = "deleteDays" => ~followed' /\ r.op = "delete"
    BY DEF Knows
  <2> QED
    BY <2>1, <2>2, <2>3, <2>4, <2>5, <2>6 DEF Knows
<1>2. (Continuous' <=> Continuous) /\ (Agreed' <=> Agreed)
  BY DEF Continuous, Agreed, Agree, Rows
<1> QED
  BY <1>1, <1>2

\* Only the request that runs alone knows more.
LEMMA KnownAlone ==
  ASSUME NEW c \in Requests, \A d \in Requests \ {c} : plan'[d] = <<>>, Known(c)'
  PROVE  Alone' /\ \A d \in Requests : Known(d)'
<1>1. ASSUME NEW d \in Requests, d # c PROVE Known(d)'
  BY <1>1 DEF Known, At
<1> QED
  BY <1>1 DEF Alone, Idle

\* A request arrives that knows what it has loaded.
LEMMA ArriveWeeks ==
  ASSUME WeeksInv, IInv', NEW c \in Requests, NEW r, NEW m, NEW s, NEW p, p # <<>>, Head(p) = s,
         Arrive(c, r, m, p), UNCHANGED <<world, today>>,
         s \in {"readBase", "saveDays"} =>
           /\ DOMAIN m.rows \subseteq Rows
           /\ \A i \in DOMAIN m.rows : m.asof <= m.rows[i].date /\ SameDay(m.rows[i], days[i]),
         Knows(s, r, m)
  PROVE  WeeksInv'
<1>1. /\ plan[c] = <<>> /\ overlapped' = (overlapped \/ ~Quiet)
      /\ plan'[c] = p /\ req'[c] = r /\ mem'[c] = m
      /\ \A d \in Requests \ {c} : plan'[d] = plan[d] /\ mem'[d] = mem[d]
  BY DEF Arrive, Begin, Idle, WeeksInv, IInv, RequestsOK
<1>2. UNCHANGED <<days, mixed, followed>>
  BY DEF world
<1>3. \A d \in Requests : Saving(d) => Timely(d)
  BY DEF WeeksInv
<1>4. \A d \in Requests : Saving(d)' => Timely(d)'
  <2>1. \A i \in DOMAIN days' : \A d \in Requests :
          Saving(d) /\ i \in DOMAIN mem[d].rows => SameDay(mem[d].rows[i], days'[i])
    BY <1>2, <1>3 DEF Timely, Rows
  <2>2. ASSUME Saving(c)', NEW i \in DOMAIN mem'[c].rows
        PROVE  /\ mem'[c].asof <= mem'[c].rows[i].date
               /\ i \in DOMAIN days' => SameDay(mem'[c].rows[i], days'[i])
               /\ \A d \in Requests \ {c} : Saving(d) /\ i \in DOMAIN mem[d].rows =>
                    SameDay(mem'[c].rows[i], mem[d].rows[i])
    <3>1. s \in {"readBase", "saveDays"}
      BY <1>1, <2>2 DEF Saving, At
    <3>2. i \in Rows /\ m.asof <= m.rows[i].date /\ SameDay(m.rows[i], days[i])
      BY <1>1, <2>2, <3>1
    <3> QED
      BY <1>1, <1>2, <1>3, <3>2 DEF Timely, SameDay
  <2> QED
    BY <1>1, <2>1, <2>2, TimelyKept
<1>5. ASSUME ~overlapped'
      PROVE  Alone' /\ (\A d \in Requests : Known(d)') /\ Continuous' /\ Agreed'
  <2>1. ~overlapped /\ \A d \in Requests \ {c} : plan'[d] = <<>>
    BY <1>1, <1>5 DEF Quiet, Idle
  <2>2. Knows(s, r, m)' /\ Continuous' /\ Agreed'
    BY <1>2, <2>1, Unmoved DEF WeeksInv
  <2>3. Known(c)'
    <3>1. ASSUME NEW t, NEW q, NEW n, At(c, t)', q = req'[c], n = mem'[c] PROVE Knows(t, q, n)'
      <4>1. t = s /\ q = r /\ n = m
        BY <1>1, <3>1 DEF At
      <4> QED
        BY <2>2, <4>1
    <3> QED
      BY <3>1, Zenon DEF Known
  <2> QED
    BY <2>1, <2>2, <2>3, KnownAlone
<1> QED
  BY <1>4, <1>5 DEF WeeksInv

\* A statement that leaves the days alone.
LEMMA ContinueWeeks ==
  ASSUME WeeksInv, IInv', NEW c \in Requests, NEW m, NEW s, NEW p, p # <<>> => Head(p) = s,
         ~Idle(c), Continue(c, p, m), days' = days, mixed' = mixed,
         p # <<>> => followed' = followed,
         p # <<>> /\ s \in {"readBase", "saveDays"} =>
           /\ Saving(c) /\ DOMAIN m.rows = DOMAIN mem[c].rows /\ m.asof = mem[c].asof
           /\ \A i \in DOMAIN m.rows : SameDay(m.rows[i], mem[c].rows[i]),
         p # <<>> /\ ~overlapped => Knows(s, req[c], m)
  PROVE  WeeksInv'
<1>1. /\ overlapped' = overlapped /\ plan'[c] = p
      /\ p # <<>> => req'[c] = req[c] /\ mem'[c] = m
      /\ \A d \in Requests \ {c} : plan'[d] = plan[d] /\ mem'[d] = mem[d]
  BY DEF Continue, WeeksInv, IInv, RequestsOK
<1>3. \A d \in Requests : Saving(d) => Timely(d)
  BY DEF WeeksInv
<1>4. \A d \in Requests : Saving(d)' => Timely(d)'
  <2>1. \A i \in DOMAIN days' : \A d \in Requests :
          Saving(d) /\ i \in DOMAIN mem[d].rows => SameDay(mem[d].rows[i], days'[i])
    BY <1>3 DEF Timely, Rows
  <2>2. ASSUME Saving(c)', NEW i \in DOMAIN mem'[c].rows
        PROVE  /\ mem'[c].asof <= mem'[c].rows[i].date
               /\ i \in DOMAIN days' => SameDay(mem'[c].rows[i], days'[i])
               /\ \A d \in Requests \ {c} : Saving(d) /\ i \in DOMAIN mem[d].rows =>
                    SameDay(mem'[c].rows[i], mem[d].rows[i])
    <3>1. s \in {"readBase", "saveDays"} /\ p # <<>>
      BY <1>1, <2>2 DEF Saving, At
    <3>2. /\ Saving(c) /\ Timely(c) /\ i \in DOMAIN mem[c].rows /\ m.asof = mem[c].asof
          /\ SameDay(m.rows[i], mem[c].rows[i]) /\ mem'[c] = m
      BY <1>1, <1>3, <2>2, <3>1
    <3> QED
      BY <1>1, <3>2 DEF Timely, SameDay, Rows
  <2> QED
    BY <1>1, <2>1, <2>2, TimelyKept
<1>5. ASSUME ~overlapped'
      PROVE  Alone' /\ (\A d \in Requests : Known(d)') /\ Continuous' /\ Agreed'
  <2>1. ~overlapped /\ \A d \in Requests \ {c} : plan'[d] = <<>>
    BY <1>1, <1>5 DEF WeeksInv, Alone, Idle
  <2>2. Continuous' /\ Agreed'
    BY <2>1, Unmoved DEF WeeksInv
  <2>3. Known(c)'
    <3>1. ASSUME NEW t, NEW q, NEW n, At(c, t)', q = req'[c], n = mem'[c] PROVE Knows(t, q, n)'
      <4>1. p # <<>> /\ t = s /\ q = req[c] /\ n = m
        BY <1>1, <3>1 DEF At
      <4>2. Knows(s, q, m)
        BY <2>1, <4>1
      <4> QED
        BY <4>1, <4>2, Unmoved
    <3> QED
      BY <3>1, Zenon DEF Known
  <2> QED
    BY <2>1, <2>2, <2>3, KnownAlone
<1> QED
  BY <1>4, <1>5 DEF WeeksInv

\* A statement that changes the days, the last one that looks at them.
LEMMA ChangeWeeks ==
  ASSUME WeeksInv, IInv', NEW c \in Requests, NEW p, p \in {<<>>, <<"deleteRow">>},
         ~Idle(c), Continue(c, p, mem[c]),
         \A i \in DOMAIN days' : \A d \in Requests :
           Saving(d) /\ i \in DOMAIN mem[d].rows => SameDay(mem[d].rows[i], days'[i]),
         ~overlapped => Whole(days') /\ \A w \in Weekdays \ mixed' : Agree(days', w)
  PROVE  WeeksInv'
<1>1. /\ overlapped' = overlapped /\ plan'[c] = p
      /\ \A d \in Requests \ {c} : plan'[d] = plan[d] /\ mem'[d] = mem[d]
  BY DEF Continue, WeeksInv, IInv, RequestsOK
<1>2. \A s : At(c, s)' => s = "deleteRow"
  BY <1>1 DEF At
<1>3. \A d \in Requests : Saving(d)' => Timely(d)'
  BY <1>1, <1>2, TimelyKept DEF Saving
<1>4. ASSUME ~overlapped'
      PROVE  Alone' /\ (\A d \in Requests : Known(d)') /\ Continuous' /\ Agreed'
  <2>1. ~overlapped /\ \A d \in Requests \ {c} : plan'[d] = <<>>
    BY <1>1, <1>4 DEF WeeksInv, Alone, Idle
  <2>2. Continuous' /\ Agreed'
    BY <2>1, WholeNext DEF Agreed
  <2>3. \A r, m : Knows("deleteRow", r, m)'
    BY DEF Knows
  <2>4. Known(c)'
    BY <1>2, <2>3, Zenon DEF Known
  <2> QED
    BY <2>1, <2>2, <2>4, KnownAlone
<1> QED
  BY <1>3, <1>4 DEF WeeksInv

-----------------------------------------------------------------------------
(* The steps *)

\* A special holiday or working day covers its day; a removed override leaves
\* what the days of the weekday say.
LEMMA ChangedFollows ==
  ASSUME NEW r \in DayRequests, NEW i \in Rows, NEW base, LET f == days[i].flags IN
         /\ Accepts(r, f) /\ f.isWeekend \in BOOLEAN
         /\ r.op = "restore" /\ f.isWeekend => base \in BaseTypes(Weekday(days[i].date))
  PROVE  Follows(i, Changed(r, days[i].flags, base))
<1> DEFINE f == days[i].flags
<1>1. CASE r.op = "holiday"
  BY <1>1 DEF Changed, Compose, Follows, Overridden
<1>2. CASE r.op = "working"
  BY <1>2 DEF Changed, Compose, Follows, Overridden, Accepts
<1>3. CASE r.op = "restore"
  BY <1>3 DEF Changed, Compose, Follows, Overridden
<1> QED
  BY <1>1, <1>2, <1>3 DEF DayRequests

\* m with other flags on day i
LEMMA FlagsOnly ==
  ASSUME NEW m, DOMAIN m = {"rows", "asof"}, NEW i \in DOMAIN m.rows, NEW g,
         \A j \in DOMAIN m.rows : m.rows[j] \in Day
  PROVE  LET n == [m EXCEPT !.rows[i].flags = g] IN
         /\ n.asof = m.asof /\ DOMAIN n.rows = DOMAIN m.rows /\ n.rows[i].flags = g
         /\ \A j \in DOMAIN m.rows : SameDay(n.rows[j], m.rows[j])
<1>1. [m EXCEPT !.rows[i].flags = g].asof = m.asof
  OBVIOUS
<1> DEFINE rows == [m.rows EXCEPT ![i].flags = g]
<1>2. [m EXCEPT !.rows[i].flags = g].rows = rows
  OBVIOUS
<1>3. DOMAIN rows = DOMAIN m.rows
  OBVIOUS
<1>4. m.rows[i] \in Day
  OBVIOUS
<1>5. rows[i] = [m.rows[i] EXCEPT !.flags = g] /\ \A j \in DOMAIN m.rows : j # i => rows[j] = m.rows[j]
  OBVIOUS
<1>6. rows[i].flags = g /\ SameDay(rows[i], m.rows[i])
  BY <1>4, <1>5 DEF Day, SameDay
<1>7. \A j \in DOMAIN m.rows : SameDay(rows[j], m.rows[j])
  BY <1>5, <1>6 DEF SameDay
<1> HIDE DEF rows
<1> QED
  BY <1>1, <1>2, <1>3, <1>6, <1>7

LEMMA AskDayWeeks ==
  ASSUME WeeksInv, IInv', NEW c \in Requests, NEW i \in Rows, NEW r \in DayRequests, AskDay(c, i, r)
  PROVE  WeeksInv'
<1> DEFINE f == days[i].flags
           m == [rows |-> [j \in {i} |-> days[i]], asof |-> today]
<1>1. days[i] \in Day /\ f \in States /\ days[i].date \in Nat /\ today \in Int /\ f.isWeekend \in BOOLEAN
  BY CalendarAssumption, StateIsSound DEF WeeksInv, IInv, DaysOK, Rows, Day
<1>2. DOMAIN m = {"rows", "asof"} /\ DOMAIN m.rows = {i} /\ m.rows[i] = days[i] /\ m.asof = today
  OBVIOUS
<1>3. Accepts(r, f) /\ UNCHANGED <<world, today>> /\ today <= days[i].date
  BY <1>1 DEF AskDay, Past
<1>4. r.op \in {"holiday", "working", "restore"}
  BY DEF DayRequests
<1>5. CASE Arrive(c, r, m, <<"readBase", "saveDays">>)
  <2> HIDE DEF m
  <2>1. Knows("readBase", r, m)
    BY <1>2, <1>4 DEF Knows, OneDay
  <2>2. DOMAIN m.rows \subseteq Rows
        /\ \A j \in DOMAIN m.rows : m.asof <= m.rows[j].date /\ SameDay(m.rows[j], days[j])
    BY <1>2, <1>3 DEF SameDay
  <2>3. <<"readBase", "saveDays">> # <<>> /\ Head(<<"readBase", "saveDays">>) = "readBase"
    OBVIOUS
  <2> QED
    BY <1>3, <1>5, <2>1, <2>2, <2>3, ArriveWeeks
<1>6. CASE /\ ~(f.isWeekend /\ (r.op = "restore" \/ Overridden(f)))
           /\ Arrive(c, r, [m EXCEPT !.rows[i].flags = Changed(r, f, f.dayType)], <<"saveDays">>)
  <2> DEFINE g == Changed(r, f, f.dayType)
             n == [m EXCEPT !.rows[i].flags = g]
  <2>1. Follows(i, g)
    <3> HIDE DEF m
    <3> QED
      BY <1>1, <1>3, <1>6, ChangedFollows
  <2> HIDE DEF m, g
  <2>2. /\ n.asof = m.asof /\ DOMAIN n.rows = {i} /\ n.rows[i].flags = g /\ SameDay(n.rows[i], days[i])
    BY <1>1, <1>2, FlagsOnly
  <2> HIDE DEF n
  <2>3. Knows("saveDays", r, n)
    BY <1>4, <2>1, <2>2 DEF Knows, OneDay
  <2>4. DOMAIN n.rows \subseteq Rows
        /\ \A j \in DOMAIN n.rows : n.asof <= n.rows[j].date /\ SameDay(n.rows[j], days[j])
    BY <1>2, <1>3, <2>2 DEF SameDay
  <2>5. <<"saveDays">> # <<>> /\ Head(<<"saveDays">>) = "saveDays"
    OBVIOUS
  <2>6. Arrive(c, r, n, <<"saveDays">>)
    BY <1>6 DEF n, g
  <2> QED
    BY <1>3, <2>3, <2>4, <2>5, <2>6, ArriveWeeks
<1> QED
  BY <1>5, <1>6 DEF AskDay

LEMMA AskPatternWeeks ==
  ASSUME WeeksInv, IInv', NEW c \in Requests, NEW r, r.op \in {"repeat", "drop"},
         NEW flags, DOMAIN flags \subseteq Rows, AskPattern(c, r, flags)
  PROVE  WeeksInv'
<1> DEFINE changed == {i \in DOMAIN flags : ~Past(days[i].date) /\ flags[i] # days[i].flags}
           rows == [i \in changed |-> [days[i] EXCEPT !.flags = flags[i]]]
           m == [rows |-> rows, asof |-> today]
<1>1. Arrive(c, r, m, <<"saveDays">>) /\ UNCHANGED <<world, today>>
  BY DEF AskPattern
<1>2. changed \subseteq Rows /\ today \in Int /\ (\A i \in Rows : days[i] \in Day /\ days[i].date \in Nat)
  BY CalendarAssumption DEF WeeksInv, IInv, DaysOK, Rows, Day
<1>3. \A i \in changed : today <= rows[i].date /\ SameDay(rows[i], days[i])
  BY <1>2 DEF Day, SameDay, Past
<1>4. m.rows = rows /\ m.asof = today /\ DOMAIN rows = changed
  OBVIOUS
<1> HIDE DEF m, rows, changed
<1>5. Knows("saveDays", r, m)
  BY <1>2, <1>4 DEF Knows
<1>6. <<"saveDays">> # <<>> /\ Head(<<"saveDays">>) = "saveDays"
  OBVIOUS
<1> QED
  BY <1>1, <1>2, <1>3, <1>4, <1>5, <1>6, ArriveWeeks

LEMMA ReadBaseWeeks ==
  ASSUME WeeksInv, IInv', NEW c \in Requests, ReadBase(c)
  PROVE  WeeksInv'
<1>1. BasePlan(plan[c], req[c], mem[c], made) /\ UNCHANGED <<world, today>> /\ At(c, "readBase") /\ ~Idle(c)
  BY Heads DEF ReadBase, WeeksInv, At, Idle
<1>2. days' = days /\ mixed' = mixed /\ followed' = followed
  BY <1>1 DEF world
<1>3. PICK i \in DOMAIN mem[c].rows : \E b \in BaseTypes(Weekday(mem[c].rows[i].date)) :
        IF AcceptsBase(req[c], mem[c].rows[i].flags, b)
          THEN Proceed(c, [mem[c] EXCEPT !.rows[i].flags =
                             Changed(req[c], mem[c].rows[i].flags, b)])
          ELSE End(c)
  BY DEF ReadBase
<1>4. PICK base \in BaseTypes(Weekday(mem[c].rows[i].date)) :
        IF AcceptsBase(req[c], mem[c].rows[i].flags, base)
          THEN Proceed(c, [mem[c] EXCEPT !.rows[i].flags =
                             Changed(req[c], mem[c].rows[i].flags, base)])
          ELSE End(c)
  BY <1>3
<1>5. CASE End(c)
  BY <1>1, <1>2, <1>5, ContinueWeeks DEF End
<1>6. CASE Proceed(c, [mem[c] EXCEPT !.rows[i].flags = Changed(req[c], mem[c].rows[i].flags, base)])
  <2> DEFINE g == Changed(req[c], mem[c].rows[i].flags, base)
             n == [mem[c] EXCEPT !.rows[i].flags = g]
  <2>1. Tail(plan[c]) = <<"saveDays">> /\ <<"saveDays">> # <<>> /\ Head(<<"saveDays">>) = "saveDays"
    BY <1>1 DEF BasePlan
  <2>2. Continue(c, <<"saveDays">>, n)
    BY <1>6, <2>1 DEF Proceed, Rest
  <2>3. \A j \in DOMAIN mem[c].rows : mem[c].rows[j] \in Day
    BY <1>1 DEF BasePlan, DaysOK
  <2>4. Accepts(req[c], mem[c].rows[i].flags) /\ req[c] \in DayRequests /\ DOMAIN mem[c] = {"rows", "asof"}
        /\ mem[c].rows[i].flags.isWeekend \in BOOLEAN
    <3>1. mem[c].rows[i].flags \in States
      BY <2>3 DEF Day
    <3> QED
      BY <1>1, <3>1, StateIsSound DEF BasePlan
  <2>5. /\ n.asof = mem[c].asof /\ DOMAIN n.rows = DOMAIN mem[c].rows /\ n.rows[i].flags = g
        /\ \A j \in DOMAIN mem[c].rows : SameDay(n.rows[j], mem[c].rows[j])
    <3> HIDE DEF g
    <3> QED
      BY <2>3, <2>4, FlagsOnly
  <2>6. ASSUME ~overlapped PROVE Knows("saveDays", req[c], n)
    <3>1. Known(c)
      BY <2>6 DEF WeeksInv
    <3>2. Knows("readBase", req[c], mem[c])
      BY <1>1, <3>1 DEF Known
    <3>3. OneDay(mem[c].rows) /\ i \in Rows /\ mem[c].rows[i] = days[i]
      BY <3>2 DEF Knows, OneDay
    <3>4. Follows(i, g)
      BY <1>4, <2>4, <3>3, ChangedFollows
    <3> HIDE DEF n, g
    <3>5. DOMAIN n.rows \subseteq Rows /\ OneDay(n.rows) /\ \A j \in DOMAIN n.rows : j = i
      BY <2>5, <3>3 DEF OneDay
    <3> QED
      BY <2>5, <3>4, <3>5 DEF Knows
  <2>7. Saving(c)
    BY <1>1 DEF Saving
  <2> HIDE DEF n
  <2> QED
    BY <1>1, <1>2, <2>1, <2>2, <2>5, <2>6, <2>7, ContinueWeeks
<1> QED
  BY <1>4, <1>5, <1>6

LEMMA SaveDaysWeeks ==
  ASSUME WeeksInv, IInv', NEW c \in Requests, SaveDays(c)
  PROVE  WeeksInv'
<1> DEFINE rows == mem[c].rows
<1>1. /\ SavePlan(plan[c], mem[c], made) /\ At(c, "saveDays") /\ ~Idle(c) /\ Saving(c)
      /\ UNCHANGED <<exists, made, followed, today>>
  BY Heads DEF SaveDays, WeeksInv, At, Idle, Saving
<1>2. Continue(c, <<>>, mem[c])
  <2>1. Tail(<<"saveDays">>) = <<>>
    OBVIOUS
  <2> QED
    BY <1>1, <2>1 DEF SaveDays, SavePlan, Done, Proceed, Rest
<1>3. CASE ~exists
  BY <1>1, <1>2, <1>3, ContinueWeeks DEF SaveDays
<1>4. CASE exists
  <2>1. /\ days' = Over(rows)
        /\ mixed' = IF req[c].op \in {"repeat", "drop"}
                      THEN mixed \cup {w \in Weekdays : ~Agree(Over(rows), w)}
                      ELSE mixed
    BY <1>4 DEF SaveDays
  <2>2. DaysOK(rows, made) /\ Timely(c) /\ (\A d \in Requests : Saving(d) => Timely(d))
    BY <1>1 DEF SavePlan, WeeksInv
  <2> HIDE DEF rows
  <2>3. \A i \in DOMAIN days' : days'[i] = IF i \in DOMAIN rows THEN rows[i] ELSE days[i]
    BY <2>1 DEF Over
  <2>4. DOMAIN days' = Rows \cup DOMAIN rows
    BY <2>1 DEF Over
  <2>5. ASSUME NEW i \in DOMAIN days', NEW d \in Requests, Saving(d), i \in DOMAIN mem[d].rows
        PROVE  SameDay(mem[d].rows[i], days'[i])
    <3>1. CASE i \in DOMAIN rows
      <4>1. SameDay(rows[i], mem[d].rows[i])
        BY <2>2, <2>5, <3>1 DEF Timely, rows
      <4> QED
        BY <2>3, <3>1, <4>1 DEF SameDay
    <3>2. CASE i \notin DOMAIN rows
      BY <2>2, <2>3, <2>4, <2>5, <3>2 DEF Timely
    <3> QED
      BY <3>1, <3>2
  <2>6. ASSUME ~overlapped PROVE Whole(days') /\ \A w \in Weekdays \ mixed' : Agree(days', w)
    <3>1. Known(c) /\ Continuous /\ Agreed
      BY <2>6 DEF WeeksInv
    <3>2. Knows("saveDays", req[c], mem[c])
      BY <1>1, <3>1 DEF Known
    <3>3. DOMAIN rows \subseteq Rows
      BY <3>2 DEF Knows, rows
    <3>4. \A i \in DOMAIN rows : SameDay(rows[i], days[i])
      BY <2>2, <3>3 DEF Timely, rows
    <3>5. Whole(days')
      <4>1. DOMAIN days' = Rows
        BY <2>4, <3>3
      <4>2. \A i \in Rows : SameDay(days'[i], days[i])
        BY <2>3, <3>4, <4>1 DEF SameDay
      <4> QED
        BY <3>1, <4>1, <4>2, SavedWhole
    <3>6. CASE req[c].op \in {"repeat", "drop"}
      BY <2>1, <3>5, <3>6
    <3>7. CASE req[c].op \notin {"repeat", "drop"}
      <4>1. mixed' = mixed /\ OneDay(rows) /\ \A i \in DOMAIN rows : Follows(i, rows[i].flags)
        BY <2>1, <3>2, <3>7 DEF Knows, rows
      <4>2. \A w \in Weekdays \ mixed : Agree(days, w)
        BY <3>1 DEF Agreed
      <4>3. \A w \in Weekdays \ mixed : Agree(Over(rows), w)
        BY <2>2, <3>4, <4>1, <4>2, SavedAgree DEF WeeksInv
      <4> QED
        BY <2>1, <3>5, <4>1, <4>3
    <3> QED
      BY <3>6, <3>7
  <2> QED
    BY <1>1, <1>2, <2>5, <2>6, ChangeWeeks
<1> QED
  BY <1>3, <1>4

LEMMA AskCalendarWeeks ==
  ASSUME WeeksInv, IInv', NEW c \in Requests, Extend(c) \/ Update(c) \/ Move(c) \/ Delete(c)
  PROVE  WeeksInv'
<1>1. ASSUME NEW r, NEW m, NEW s, NEW p, p # <<>>, Head(p) = s, Arrive(c, r, m, p),
             UNCHANGED <<world, today>>,
             s \in {"readPattern", "saveCalendar", "countBlockers", "deleteDays"}, Knows(s, r, m)
      PROVE  WeeksInv'
  BY <1>1, ArriveWeeks
<1>2. CASE Extend(c)
  <2>1. PICK s \in NextStarts :
          /\ Arrive(c, [op |-> "extend"], [start |-> s, asof |-> today], <<"readPattern", "insertYear">>)
          /\ UNCHANGED <<world, today>>
    BY <1>2 DEF Extend
  <2>2. \A r : Knows("readPattern", r, [start |-> s, asof |-> today])
    BY <2>1 DEF Knows
  <2>3. <<"readPattern", "insertYear">> # <<>> /\ Head(<<"readPattern", "insertYear">>) = "readPattern"
    OBVIOUS
  <2> QED
    BY <1>1, <2>1, <2>2, <2>3
<1>3. CASE Update(c)
  <2>1. \A r, m : Knows("saveCalendar", r, m)
    BY DEF Knows
  <2>2. <<"saveCalendar">> # <<>> /\ Head(<<"saveCalendar">>) = "saveCalendar"
    OBVIOUS
  <2> QED
    BY <1>1, <1>3, <2>1, <2>2 DEF Update
<1>4. CASE Move(c)
  <2>1. PICK s \in NewStarts :
          /\ Arrive(c, [op |-> "move"], [start |-> s, asof |-> today], <<"countBlockers", "regenerate">>)
          /\ UNCHANGED <<world, today>>
    BY <1>4 DEF Move
  <2>2. \A r, m : Knows("countBlockers", r, m)
    BY DEF Knows
  <2>3. <<"countBlockers", "regenerate">> # <<>> /\ Head(<<"countBlockers", "regenerate">>) = "countBlockers"
    OBVIOUS
  <2> QED
    BY <1>1, <2>1, <2>2, <2>3
<1>5. CASE Delete(c)
  <2>1. ~followed /\ [op |-> "delete"].op = "delete"
    BY <1>5 DEF Delete
  <2>2. \A m : Knows("deleteDays", [op |-> "delete"], m)
    BY <2>1 DEF Knows
  <2>3. <<"deleteDays", "deleteRow">> # <<>> /\ Head(<<"deleteDays", "deleteRow">>) = "deleteDays"
    OBVIOUS
  <2> QED
    BY <1>1, <1>5, <2>2, <2>3 DEF Delete
<1> QED
  BY <1>2, <1>3, <1>4, <1>5

LEMMA ReadPatternWeeks ==
  ASSUME WeeksInv, IInv', NEW c \in Requests, ReadPattern(c)
  PROVE  WeeksInv'
<1>1. ExtendPlan(plan[c], mem[c]) /\ UNCHANGED <<world, today>> /\ At(c, "readPattern") /\ ~Idle(c)
  BY Heads DEF ReadPattern, WeeksInv, At, Idle
<1>2. PICK p \in [Weekdays -> Types \cup {None}] :
        /\ \A w \in Weekdays : p[w] \in PatternTypes(w)
        /\ Proceed(c, [start |-> mem[c].start, asof |-> mem[c].asof, pattern |-> p])
  BY DEF ReadPattern
<1> DEFINE m == [start |-> mem[c].start, asof |-> mem[c].asof, pattern |-> p]
<1>3. Tail(plan[c]) = <<"insertYear">> /\ Head(<<"insertYear">>) = "insertYear" /\ <<"insertYear">> # <<>>
  BY <1>1 DEF ExtendPlan
<1>4. Continue(c, <<"insertYear">>, m)
  BY <1>2, <1>3 DEF Proceed, Rest
<1>5. ASSUME ~overlapped PROVE Knows("insertYear", req[c], m)
  <2>1. Known(c)
    BY <1>5 DEF WeeksInv
  <2>2. Knows("readPattern", req[c], mem[c])
    BY <1>1, <2>1 DEF Known
  <2>3. mem[c].start \in NextStarts
    BY <2>2 DEF Knows
  <2> QED
    BY <1>2, <2>3 DEF Knows
<1>6. days' = days /\ mixed' = mixed /\ followed' = followed
  BY <1>1 DEF world
<1> HIDE DEF m
<1> QED
  BY <1>1, <1>3, <1>4, <1>5, <1>6, ContinueWeeks

\* Rows that are inserted have ids that no row has had.
LEMMA NewIds ==
  ASSUME WeeksInv, NEW b, NEW all \in Nat, DOMAIN b = (made + 1)..(made + all)
  PROVE  /\ DOMAIN b \cap Rows = {}
         /\ \A d \in Requests : Saving(d) => DOMAIN b \cap DOMAIN mem[d].rows = {}
<1>1. made \in Nat /\ Rows \subseteq 1..made
  BY CalendarAssumption DEF WeeksInv, IInv, DaysOK, Rows
<1>2. \A d \in Requests : Saving(d) => DOMAIN mem[d].rows \subseteq 1..made
  BY SavingRows DEF WeeksInv, DaysOK
<1> QED
  BY <1>1, <1>2

LEMMA InsertYearWeeks ==
  ASSUME WeeksInv, IInv', NEW c \in Requests, InsertYear(c)
  PROVE  WeeksInv'
<1>1. InsertPlan(plan[c], mem[c]) /\ At(c, "insertYear") /\ ~Idle(c)
  BY Heads DEF InsertYear, WeeksInv, At, Idle
<1>2. Continue(c, <<>>, mem[c]) /\ UNCHANGED <<exists, followed, mixed, today>>
  <2>1. Tail(<<"insertYear">>) = <<>>
    OBVIOUS
  <2> QED
    BY <1>1, <2>1 DEF InsertYear, InsertPlan, Done, Proceed, Rest
<1>3. CASE ~exists
  BY <1>1, <1>2, <1>3, ContinueWeeks DEF InsertYear
<1>4. CASE exists
  <2> DEFINE p == mem[c].pattern
             s == mem[c].start
             b == Built(s, 1, made, p)
  <2>1. days' = Over(b)
    BY <1>4 DEF InsertYear
  <2>2. s \in Nat /\ made \in Nat /\ YearDays \in Nat /\ 1 * YearDays = YearDays /\ p \in PatternType
    BY <1>1, CalendarAssumption, YearDaysPositive DEF InsertPlan, WeeksInv, IInv
  <2>3. New(b, s, made, 1 * YearDays, p)
    <3> HIDE DEF p, s
    <3> QED
      BY <2>2, BuiltRows
  <2> HIDE DEF b
  <2>4. /\ DOMAIN b \cap Rows = {}
        /\ \A d \in Requests : Saving(d) => DOMAIN b \cap DOMAIN mem[d].rows = {}
    BY <2>2, <2>3, NewIds DEF New
  <2>5. \A i \in DOMAIN days' : \A d \in Requests :
          Saving(d) /\ i \in DOMAIN mem[d].rows => SameDay(mem[d].rows[i], days'[i])
    BY <2>1, <2>4 DEF WeeksInv, Timely, Over
  <2>6. ASSUME ~overlapped PROVE Whole(days') /\ \A w \in Weekdays \ mixed' : Agree(days', w)
    <3>1. Known(c) /\ Continuous /\ Agreed
      BY <2>6 DEF WeeksInv
    <3>2. Knows("insertYear", req[c], mem[c])
      BY <1>1, <3>1 DEF Known
    <3>3. s \in NextStarts /\ \A w \in Weekdays : p[w] \in PatternTypes(w)
      BY <3>2 DEF Knows
    <3>4. Whole(days')
      <4> HIDE DEF s, p
      <4> QED
        BY <2>1, <3>1, <3>3, ExtendedWhole DEF b, WeeksInv
    <3> HIDE DEF s, p
    <3>5. ASSUME NEW w \in Weekdays \ mixed PROVE Agree(Over(b), w)
      <4>1. Agree(days, w) /\ p[w] \in PatternTypes(w) /\ p[w] \in Types \cup {None}
        BY <2>2, <3>1, <3>3, <3>5 DEF Agreed, PatternType
      <4> QED
        BY <2>3, <4>1, ExtendedAgree DEF WeeksInv
    <3> QED
      BY <1>2, <2>1, <3>4, <3>5
  <2> QED
    BY <1>1, <1>2, <2>5, <2>6, ChangeWeeks
<1> QED
  BY <1>3, <1>4

LEMMA CountBlockersWeeks ==
  ASSUME WeeksInv, IInv', NEW c \in Requests, CountBlockers(c)
  PROVE  WeeksInv'
<1>1. MovePlan(plan[c], mem[c]) /\ UNCHANGED <<world, today>> /\ At(c, "countBlockers") /\ ~Idle(c)
  BY Heads DEF CountBlockers, WeeksInv, At, Idle
<1>2. days' = days /\ mixed' = mixed /\ followed' = followed
  BY <1>1 DEF world
<1> DEFINE n == Cardinality({days[i].start : i \in Rows})
           m == [start |-> mem[c].start, asof |-> mem[c].asof, years |-> IF n = 0 THEN 1 ELSE n]
<1>3. CASE Locked
  BY <1>1, <1>2, <1>3, ContinueWeeks DEF CountBlockers, End
<1>4. CASE ~Locked
  <2>1. Tail(plan[c]) = <<"regenerate">> /\ Head(<<"regenerate">>) = "regenerate" /\ <<"regenerate">> # <<>>
    BY <1>1 DEF MovePlan
  <2>2. Continue(c, <<"regenerate">>, m)
    BY <1>4, <2>1 DEF CountBlockers, Proceed, Rest
  <2> HIDE DEF m
  <2>3. Knows("regenerate", req[c], m)
    BY <1>4 DEF Knows
  <2> QED
    BY <1>1, <1>2, <2>1, <2>2, <2>3, ContinueWeeks
<1> QED
  BY <1>3, <1>4

LEMMA RegenerateWeeks ==
  ASSUME WeeksInv, IInv', NEW c \in Requests, Regenerate(c)
  PROVE  WeeksInv'
<1>1. RegeneratePlan(plan[c], mem[c]) /\ At(c, "regenerate") /\ ~Idle(c)
  BY Heads DEF Regenerate, WeeksInv, At, Idle
<1>2. Continue(c, <<>>, mem[c]) /\ UNCHANGED <<exists, followed, today>>
  <2>1. Tail(<<"regenerate">>) = <<>>
    OBVIOUS
  <2> QED
    BY <1>1, <2>1 DEF Regenerate, RegeneratePlan, Done, Proceed, Rest
<1>3. CASE ~exists
  BY <1>1, <1>2, <1>3, ContinueWeeks DEF Regenerate
<1>4. CASE exists
  <2> DEFINE n == mem[c].years
             s == mem[c].start
             b == Built(s, n, made, NoPattern)
  <2>1. days' = b
    BY <1>4 DEF Regenerate
  <2>2. s \in Nat /\ n \in Nat /\ made \in Nat /\ n * YearDays \in Nat
    BY <1>1, CalendarAssumption, YearDaysPositive DEF RegeneratePlan, WeeksInv, IInv
  <2> HIDE DEF s, n
  <2>3. New(b, s, made, n * YearDays, NoPattern) /\ Whole(b)
    BY <2>2, BuiltRows, BuiltWhole
  <2> HIDE DEF b
  <2>4. \A d \in Requests : Saving(d) => DOMAIN b \cap DOMAIN mem[d].rows = {}
    BY <2>2, <2>3, NewIds DEF New
  <2>5. \A i \in DOMAIN days' : \A d \in Requests :
          Saving(d) /\ i \in DOMAIN mem[d].rows => SameDay(mem[d].rows[i], days'[i])
    BY <2>1, <2>4
  <2>6. \A w \in Weekdays : Agree(b, w)
    BY <2>3, NewAgree DEF NoPattern
  <2> QED
    BY <1>1, <1>2, <2>1, <2>3, <2>5, <2>6, ChangeWeeks
<1> QED
  BY <1>3, <1>4

LEMMA RestWeeks ==
  ASSUME WeeksInv, IInv', NEW c \in Requests,
         SaveCalendar(c) \/ DeleteDays(c) \/ DeleteRow(c) \/ Fail(c)
  PROVE  WeeksInv'
<1>0. Tail(<<"saveCalendar">>) = <<>> /\ Tail(<<"deleteDays", "deleteRow">>) = <<"deleteRow">>
      /\ Tail(<<"deleteRow">>) = <<>>
  OBVIOUS
<1>1. CASE SaveCalendar(c)
  <2>1. plan[c] = <<"saveCalendar">> /\ ~Idle(c)
    BY <1>1, HeadOfOther DEF SaveCalendar, WeeksInv, Idle
  <2> QED
    BY <1>0, <1>1, <2>1, ContinueWeeks DEF SaveCalendar, Done, Proceed, Rest
<1>2. CASE DeleteDays(c)
  <2>1. plan[c] = <<"deleteDays", "deleteRow">> /\ ~Idle(c)
    BY <1>2, HeadOfOther DEF DeleteDays, WeeksInv, Idle
  <2>2. DOMAIN days' = {}
    BY <1>2 DEF DeleteDays
  <2>3. Whole(days') /\ \A w : Agree(days', w)
    BY <2>2, NoDaysWhole DEF Agree
  <2>4. Continue(c, <<"deleteRow">>, mem[c])
    BY <1>0, <1>2, <2>1 DEF DeleteDays, Done, Proceed, Rest
  <2> QED
    BY <2>1, <2>2, <2>3, <2>4, ChangeWeeks
<1>3. CASE DeleteRow(c)
  <2>1. plan[c] = <<"deleteRow">> /\ ~Idle(c)
    BY <1>3, HeadOfOther DEF DeleteRow, WeeksInv, Idle
  <2> QED
    BY <1>0, <1>3, <2>1, ContinueWeeks DEF DeleteRow, Done, Proceed, Rest
<1>4. CASE Fail(c)
  BY <1>4, ContinueWeeks DEF Fail, Break, world
<1> QED
  BY <1>1, <1>2, <1>3, <1>4

LEMMA UserWeeks ==
  ASSUME WeeksInv, IInv', Follow \/ Unfollow \/ Midnight \/ UNCHANGED vars
  PROVE  WeeksInv'
<1>1. UNCHANGED <<plan, req, mem, days, mixed>>
  BY DEF Follow, Unfollow, Midnight, Instant, world, requestVars, vars
<1>2. \A d \in Requests : Saving(d)' => Timely(d)'
  <2>1. \A d \in Requests : (Saving(d)' <=> Saving(d)) /\ (Timely(d)' <=> Timely(d))
    BY <1>1 DEF Saving, At, Timely, Rows
  <2> QED
    BY <2>1 DEF WeeksInv
<1>3. ASSUME ~overlapped'
      PROVE  Alone' /\ (\A d \in Requests : Known(d)') /\ Continuous' /\ Agreed'
  <2>1. ~overlapped
    BY <1>3 DEF Follow, Unfollow, Midnight, Instant, requestVars, vars
  <2>2. Alone' /\ Continuous' /\ Agreed'
    <3>1. Alone' <=> Alone
      BY <1>1 DEF Alone, Idle
    <3> QED
      BY <1>1, <2>1, <3>1, Unmoved DEF WeeksInv
  <2>3. CASE Quiet
    <3>1. \A d \in Requests : plan'[d] = <<>>
      BY <1>1, <2>3 DEF Quiet, Idle
    <3>2. \A d \in Requests : Known(d)'
      BY <3>1 DEF Known, At
    <3> QED
      BY <2>2, <3>2
  <2>4. CASE ~Quiet
    <3>1. followed' = followed
      BY <1>3, <2>4 DEF Follow, Unfollow, Midnight, Instant, world, vars
    <3>2. ASSUME NEW d \in Requests, NEW s, NEW r, NEW m, At(d, s)', r = req'[d], m = mem'[d]
          PROVE  Knows(s, r, m)'
      <4>1. At(d, s) /\ r = req[d] /\ m = mem[d] /\ Known(d)
        BY <1>1, <2>1, <3>2 DEF At, WeeksInv
      <4>2. Knows(s, r, m)
        BY <4>1 DEF Known
      <4> QED
        BY <1>1, <3>1, <4>2, Unmoved
    <3>3. \A d \in Requests : Known(d)'
      BY <3>2, Zenon DEF Known
    <3> QED
      BY <2>2, <3>3
  <2> QED
    BY <2>3, <2>4
<1> QED
  BY <1>2, <1>3 DEF WeeksInv

LEMMA InitWeeks ==
  ASSUME Init
  PROVE  WeeksInv
<1>1. IInv
  BY Initially
<1>2. PICK p \in Patterns \cup {NoPattern} : days = Built(FirstDate, 1, 0, p)
  BY DEF Init
<1>3. p \in PatternType
  BY NoPatternOK, PatternAssumption DEF PatternType
<1>4. New(days, FirstDate, 0, 1 * YearDays, p) /\ Whole(days)
  BY <1>2, CalendarAssumption, BuiltRows, BuiltWhole
<1>5. Continuous /\ Agreed
  <2>1. \A w \in Weekdays : Agree(days, w)
    BY <1>3, <1>4, NewAgree DEF PatternType
  <2> QED
    BY <1>4, <2>1, ContinuousIsWhole DEF Agreed
<1>6. \A c \in Requests : plan[c] = <<>>
  BY DEF Init, InitRequests
<1>7. Alone /\ \A c \in Requests : Known(c) /\ ~Saving(c)
  BY <1>6 DEF Alone, Idle, Known, Saving, At
<1> QED
  BY <1>1, <1>5, <1>7 DEF WeeksInv

LEMMA WeeksKept ==
  ASSUME WeeksInv, [Next]_vars
  PROVE  WeeksInv'
<1>1. IInv'
  BY Keeps DEF WeeksInv
<1>2. CASE Follow \/ Unfollow \/ Midnight \/ UNCHANGED vars
  BY <1>1, <1>2, UserWeeks
<1>3. ASSUME NEW c \in Requests, NEW i \in Rows, NEW r, r \in DayRequests, AskDay(c, i, r)
      PROVE  WeeksInv'
  BY <1>1, <1>3, AskDayWeeks
<1>4. ASSUME NEW c \in Requests, DayStep(c) PROVE WeeksInv'
  <2>1. \A t \in Types, o \in {"holiday", "working"} : [op |-> o, type |-> t] \in DayRequests
    BY DEF DayRequests
  <2>2. \A k \in {"holidays", "specialWorkingDay", "other"} : [op |-> "restore", kind |-> k] \in DayRequests
    BY DEF DayRequests
  <2>3. CASE SpecialHoliday(c)
    BY <1>3, <2>1, <2>3 DEF SpecialHoliday
  <2>4. CASE SpecialWorkingDay(c)
    BY <1>3, <2>1, <2>4 DEF SpecialWorkingDay
  <2>5. CASE RemoveOverride(c)
    BY <1>3, <2>2, <2>5 DEF RemoveOverride
  <2> QED
    BY <1>1, <1>4, <2>3, <2>4, <2>5, ReadBaseWeeks DEF DayStep
<1>5. ASSUME NEW c \in Requests, NEW r, r.op \in {"repeat", "drop"}, NEW flags,
             DOMAIN flags \subseteq Rows, AskPattern(c, r, flags)
      PROVE  WeeksInv'
  BY <1>1, <1>5, AskPatternWeeks
<1>6. ASSUME NEW c \in Requests, PatternStep(c) PROVE WeeksInv'
  <2>1. CASE RepeatedHoliday(c)
    <3>1. PICK p \in Patterns, ys \in {Years} \cup {{y} : y \in Years} :
            AskPattern(c, [op |-> "repeat"],
                       [i \in {j \in Rows : YearOf(days[j].date) \in ys} |->
                          Patterned(days[i].flags, p[Weekday(days[i].date)])])
      BY <2>1 DEF RepeatedHoliday
    <3> DEFINE flags == [i \in {j \in Rows : YearOf(days[j].date) \in ys} |->
                           Patterned(days[i].flags, p[Weekday(days[i].date)])]
    <3>2. DOMAIN flags \subseteq Rows /\ [op |-> "repeat"].op \in {"repeat", "drop"}
      OBVIOUS
    <3> HIDE DEF flags
    <3> QED
      BY <1>5, <3>1, <3>2 DEF flags
  <2>2. CASE DropRepeatedHoliday(c)
    <3>1. PICK w \in Weekdays :
            AskPattern(c, [op |-> "drop"], [i \in OnWeekday(w) |-> OutOfPattern(days[i].flags)])
      BY <2>2 DEF DropRepeatedHoliday
    <3> DEFINE flags == [i \in OnWeekday(w) |-> OutOfPattern(days[i].flags)]
    <3>2. DOMAIN flags \subseteq Rows /\ [op |-> "drop"].op \in {"repeat", "drop"}
      BY DEF OnWeekday
    <3> HIDE DEF flags
    <3> QED
      BY <1>5, <3>1, <3>2 DEF flags
  <2> QED
    BY <1>1, <1>6, <2>1, <2>2, SaveDaysWeeks DEF PatternStep
<1>7. ASSUME NEW c \in Requests, CalendarStep(c) \/ Fail(c) PROVE WeeksInv'
  BY <1>1, <1>7, AskCalendarWeeks, ReadPatternWeeks, InsertYearWeeks, CountBlockersWeeks,
     RegenerateWeeks, RestWeeks DEF CalendarStep
<1> QED
  BY <1>2, <1>4, <1>6, <1>7 DEF Next

-----------------------------------------------------------------------------
(* The weeks and the past *)

\* What every request knows of the days: its rows were not past when it came, and
\* while requests do not overlap it has seen the pattern all days agree on.
THEOREM WeeksInvariant == Spec => []WeeksInv
<1>1. Init => WeeksInv
  BY InitWeeks
<1>2. WeeksInv /\ [Next]_vars => WeeksInv'
  BY WeeksKept
<1> QED
  BY <1>1, <1>2, PTL DEF Spec

\* While requests do not overlap the days are continuous, in whole weeks of years
\* that follow one another, and those of a weekday agree on the pattern, for weeks
\* and years of any length: an override that is removed and a year that is added
\* (resolveWeekendBaseType, readWeekendPattern) find what the other days follow.
THEOREM WeeksAlwaysAgree == Spec => []WeeksAgree
<1>1. WeeksInv => WeeksAgree
  BY DEF WeeksInv, WeeksAgree, Agreed
<1> QED
  BY <1>1, WeeksInvariant, PTL

\* Whatever overlaps, a step changes a day only for a request that came before the
\* day was over (assertNotPast); and while requests do not overlap a day goes away
\* only with its calendar, or with nothing configured and nobody following.
THEOREM PastStaysFrozen == Spec => DaysKept
<1> DEFINE Kept == \A i \in Rows :
             IF i \in DOMAIN days'
               THEN days'[i] # days[i] =>
                      \E c \in Requests : ~Idle(c) /\ mem[c].asof <= days[i].date
               ELSE ~overlapped' =>
                      /\ ~followed
                      /\ days[i].flags = Default \/ \E c \in Requests : req[c].op = "delete"
<1>1. WeeksInv /\ [Next]_vars => [Kept]_vars
  <2> SUFFICES ASSUME WeeksInv, Next PROVE Kept
    OBVIOUS
  <2>1. CASE days' = days
    BY <2>1 DEF Rows
  <2>2. ASSUME NEW c \in Requests, SaveDays(c) PROVE Kept
    <3>1. ~Idle(c) /\ Timely(c)
      BY <2>2 DEF SaveDays, At, Idle, WeeksInv, Saving
    <3>2. days' = days \/ days' = Over(mem[c].rows)
      BY <2>2 DEF SaveDays
    <3>3. ASSUME NEW i \in Rows, days' = Over(mem[c].rows)
          PROVE  i \in DOMAIN days' /\ (days'[i] # days[i] => mem[c].asof <= days[i].date)
      <4>1. i \in DOMAIN days' /\ days'[i] = IF i \in DOMAIN mem[c].rows THEN mem[c].rows[i] ELSE days[i]
        BY <3>3 DEF Over
      <4>2. i \in DOMAIN mem[c].rows => mem[c].asof <= days[i].date
        BY <3>1 DEF Timely, SameDay
      <4> QED
        BY <4>1, <4>2
    <3> QED
      BY <2>1, <3>1, <3>2, <3>3
  <2>3. ASSUME NEW c \in Requests, InsertYear(c) PROVE Kept
    <3> DEFINE b == Built(mem[c].start, 1, made, mem[c].pattern)
    <3>1. days' = days \/ days' = Over(b)
      BY <2>3 DEF InsertYear
    <3>2. DOMAIN b = (made + 1)..(made + 1 * YearDays)
      BY DEF Built
    <3> HIDE DEF b
    <3>3. DOMAIN b \cap Rows = {}
      <4>1. 1 * YearDays \in Nat
        BY YearDaysPositive
      <4> QED
        BY <3>2, <4>1, NewIds
    <3> QED
      BY <2>1, <3>1, <3>3 DEF Over
  <2>4. ASSUME NEW c \in Requests, Regenerate(c) PROVE Kept
    <3> DEFINE all == mem[c].years * YearDays
    <3>1. CASE ~exists
      BY <2>1, <2>4, <3>1 DEF Regenerate
    <3>2. CASE exists
      <4>1. days' = Built(mem[c].start, mem[c].years, made, NoPattern) /\ overlapped' = overlapped
        BY <2>4, <3>2 DEF Regenerate, Done, Proceed, Continue
      <4>2. DOMAIN days' = (made + 1)..(made + all)
        BY <4>1 DEF Built
      <4>3. all \in Nat
        BY <2>4, Heads, YearDaysPositive DEF Regenerate, RegeneratePlan, WeeksInv
      <4> HIDE DEF all
      <4>4. made \in Nat /\ Rows \subseteq 1..made
        BY CalendarAssumption DEF WeeksInv, IInv, DaysOK, Rows
      <4>5. DOMAIN days' \cap Rows = {}
        BY <4>2, <4>3, <4>4
      <4>6. ASSUME ~overlapped PROVE ~Locked
        <5>1. Known(c) /\ At(c, "regenerate")
          BY <2>4, <4>6 DEF WeeksInv, Regenerate
        <5>2. Knows("regenerate", req[c], mem[c])
          BY <5>1 DEF Known
        <5> QED
          BY <5>2 DEF Knows
      <4> QED
        BY <4>1, <4>5, <4>6 DEF Locked
    <3> QED
      BY <3>1, <3>2
  <2>5. ASSUME NEW c \in Requests, DeleteDays(c) PROVE Kept
    <3>1. DOMAIN days' = {} /\ overlapped' = overlapped /\ At(c, "deleteDays")
      BY <2>5 DEF DeleteDays, Done, Proceed, Continue
    <3>2. ASSUME ~overlapped PROVE ~followed /\ req[c].op = "delete"
      <4>1. Known(c)
        BY <3>2 DEF WeeksInv
      <4>2. Knows("deleteDays", req[c], mem[c])
        BY <3>1, <4>1 DEF Known
      <4> QED
        BY <4>2 DEF Knows
    <3> QED
      BY <3>1, <3>2
  <2>6. CASE Follow \/ Unfollow \/ Midnight
    BY <2>1, <2>6 DEF Follow, Unfollow, Midnight, world
  <2>7. ASSUME NEW c \in Requests, DayStep(c) PROVE Kept
    BY <2>1, <2>7 DEF DayStep, SpecialHoliday, SpecialWorkingDay, RemoveOverride, AskDay, ReadBase, world
  <2>8. ASSUME NEW c \in Requests, RepeatedHoliday(c) \/ DropRepeatedHoliday(c) PROVE Kept
    BY <2>1, <2>8 DEF RepeatedHoliday, DropRepeatedHoliday, AskPattern, world
  <2>9. ASSUME NEW c \in Requests,
               \/ Extend(c) \/ ReadPattern(c) \/ Update(c) \/ SaveCalendar(c) \/ Move(c)
               \/ CountBlockers(c) \/ Delete(c) \/ DeleteRow(c) \/ Fail(c)
        PROVE  Kept
    BY <2>1, <2>9 DEF Extend, ReadPattern, Update, SaveCalendar, Move, CountBlockers, Delete,
       DeleteRow, Fail, world
  <2> HIDE DEF Kept
  <2> QED
    BY <2>2, <2>3, <2>4, <2>5, <2>6, <2>7, <2>8, <2>9 DEF Next, PatternStep, CalendarStep
<1> HIDE DEF Kept
<1>2. Spec => [][Kept]_vars
  BY <1>1, WeeksInvariant, PTL DEF Spec
<1> QED
  BY <1>2 DEF DaysKept, Kept

-----------------------------------------------------------------------------
(* SpaceConfig: what every request has in mind, and what is so while no     *)
(* two of them overlap                                                      *)

-----------------------------------------------------------------------------
(* Types *)

\* A bounded set of numbers has a greatest element.
LEMMA BoundedMax ==
  ASSUME NEW n \in Nat, NEW S \in SUBSET (1..n), S # {}
  PROVE  \E x \in S : \A y \in S : x >= y
<1> DEFINE T == {n - x : x \in S}
<1>0. \A x \in S : n - x \in Nat
  OBVIOUS
<1>1. T \subseteq Nat
  BY <1>0
<1>2. T # {}
  OBVIOUS
<1>3. \E x \in T : \A y \in T : ~ (<<y, x>> \in OpToRel(<, Nat))
  BY <1>1, <1>2, NatLessThanWellFounded, WFMin
<1>4. PICK x \in S : \A y \in S : ~ (<<n - y, n - x>> \in OpToRel(<, Nat))
  BY <1>3
<1>5. \A y \in S : ~ (n - y < n - x)
  BY <1>4, <1>0 DEF OpToRel
<1> QED
  BY <1>5

\* What is left of a plan once the tables are as they shall be.
Droppings == {Drop, DropAndFill}
Tails == Droppings \cup {<<>>, Fill, <<"putBlob">>}

TaskRow == [status : Nat, level : Nat, statusName : Names \cup {NoName}]
Then(s, p) == <<s>> \o p

\* The plans, and what a request with one of them was asked or has read.
OrderPlan(p, r) ==
  (\E t \in Droppings : p = Then("readOrder", Then("commitStatus", t))) /\ r.row \in Status
CommitPlan(p, r, m) ==
  /\ \E t \in Droppings : p = Then("commitStatus", t)
  /\ r.row \in Status /\ m.order \in Seq(Nat) /\ m.index \in 0..Len(m.order)
NamePlan(p, r)      == p = Then("writeName", Then("nameTasks", Drop)) /\ r.name \in Names
NameTasksPlan(p, m) == p = Then("nameTasks", Drop) /\ m = NoName
PlacesPlan(p, r) ==
  /\ \E t \in Droppings : p = Then("writeOrder", t)
  /\ \A k \in DOMAIN r.places : r.places[k] \in Int
LevelPlan(p, r) == (\E t \in Droppings : p = Then("insertLevel", t)) /\ r.row \in LevelRow
SaveLevelPlan(p, r, m, n) ==
  /\ \E t \in Droppings : p \in {Then("saveLevel", t), Then("countLevel", Then("saveLevel", t))}
  /\ r.id \in 0..n.level /\ m \in LevelRow
LevelsPlan(p, r)    == (\E t \in Droppings : p = Then("replaceLevels", t)) /\ r.names \in Seq(LevelNames)
TaskPlan(p, r, m)   == p = <<"insertTask">> /\ r.task \in Tasks /\ m \in TaskRow
StatusPlan(p, r, m, D) ==
  p = <<"writeStatus">> /\ r.task \in D /\ m.status \in Nat /\ m.statusName \in Names
\* A space is loaded with rows that have ids; n is what has been issued.
Loaded(m, n) == m.own \in [DOMAIN m.own -> StatusRow] /\ DOMAIN m.own \subseteq 1..n.status
SpacePlan(p, m, n) ==
  /\ \E t \in Droppings : p \in {Then("saveSpace", t), Then("rereadSpace", Then("saveSpace", t))}
  /\ Loaded(m, n)
SimplePlan(p) ==
  \/ p \in {<<"writeUnseen">>, Then("readStatuses", Fill), Then("readLevels", Fill)}
  \/ \E t \in Droppings : p \in {Then("deleteStatus", t), Then("deleteLevel", t), Then("writeRest", t),
                                 Then("countLevel", Then("deleteLevel", t))}

PlanFits(p, r, m, n, D) ==
  \/ p \in Tails \/ SimplePlan(p)
  \/ OrderPlan(p, r) \/ CommitPlan(p, r, m) \/ NamePlan(p, r) \/ NameTasksPlan(p, m)
  \/ PlacesPlan(p, r) \/ LevelPlan(p, r) \/ SaveLevelPlan(p, r, m, n) \/ LevelsPlan(p, r)
  \/ TaskPlan(p, r, m) \/ StatusPlan(p, r, m, D) \/ SpacePlan(p, m, n)

\* The types need the shape of the rows, and what every request has in mind.
Tables ==
  /\ statuses \in [DOMAIN statuses -> StatusRow]
  /\ levels \in [DOMAIN levels -> LevelRow]
  /\ tasks \in [DOMAIN tasks -> TaskRow] /\ DOMAIN tasks \subseteq Tasks
  /\ \A t \in DOMAIN tasks :
       tasks[t].status \in DOMAIN statuses /\ (Projects => tasks[t].level \in DOMAIN levels)
  /\ issued \in [status : Nat, level : Nat]
  /\ DOMAIN statuses \subseteq 1..issued.status /\ DOMAIN levels \subseteq 0..issued.level
  /\ moved \in BOOLEAN /\ rest \in Rests /\ elsewhere \in BOOLEAN

Plans ==
  /\ plan \in [Requests -> Seq(Statements)] /\ RequestsOK
  /\ \A c \in Requests : PlanFits(plan[c], req[c], mem[c], issued, DOMAIN tasks)

ConfigShape == Tables /\ Plans

\* While requests follow one another there is one at most, ...
OneRequest == ~overlapped => \A c, d \in Requests : plan[c] # <<>> /\ plan[d] # <<>> => c = d

\* ... and a blob that is behind the tables will be dropped by it.
WillDrop(c) == plan[c] \in Droppings \cup {Then("nameTasks", Drop)}
BlobOrDrop ==
  Clean /\ ~elsewhere =>
    /\ blob \in {Absent, Current} \/ \E c \in Requests : WillDrop(c)
    /\ \A c \in Requests : plan[c] = <<"putBlob">> => mem[c] = Current

\* The rows and the order of the ids are those the request has read.
Placed(f) == \A i, j \in DOMAIN f : i # j =>
  /\ f[i].sequence # f[j].sequence
  /\ f[i].base < f[j].base => f[i].sequence < f[j].sequence
IndexIn(f, L, b) ==
  LET Ending(S) == CHOOSE x \in S : \A y \in S : y <= x
      same  == {x \in DOMAIN L : f[L[x]].base = b}
      lower == {x \in DOMAIN L : f[L[x]].base < b}
  IN  IF same # {} THEN Ending(same) ELSE IF lower # {} THEN Ending(lower) ELSE 0
Ahead(p, s) == p # <<>> /\ Head(p) = s
KnowsOrder(p, r, m, f) ==
  /\ Ahead(p, "commitStatus") => m.order \in Ordered(f) /\ m.index = IndexIn(f, m.order, r.row.base)
  /\ Ahead(p, "rereadSpace") => m.own = f
  /\ Ahead(p, "saveSpace") => m.own = f /\ m.db = f
HasRead(c) == KnowsOrder(plan[c], req[c], mem[c], statuses)
PlacedByBase == ~overlapped /\ ~moved => Placed(statuses) /\ \A c \in Requests : HasRead(c)

ConfigInv == ConfigShape /\ OneRequest /\ BlobOrDrop /\ PlacedByBase

-----------------------------------------------------------------------------
(* Plans *)

LEMMA ThenFacts ==
  ASSUME NEW X, NEW s \in X, NEW p \in Seq(X)
  PROVE  /\ Then(s, p) \in Seq(X) /\ Then(s, p) # <<>>
         /\ Head(Then(s, p)) = s /\ Tail(Then(s, p)) = p
<1>1. Then(s, p) \in Seq(X) /\ Len(Then(s, p)) = Len(p) + 1 /\ Then(s, p)[1] = s
  BY DEF Then
<1>2. Tail(Then(s, p)) \in Seq(X) /\ Len(Tail(Then(s, p))) = Len(p)
  BY <1>1
<1>3. \A i \in 1..Len(p) : Tail(Then(s, p))[i] = p[i]
  BY <1>1 DEF Then
<1> QED
  BY <1>1, <1>2, <1>3, SeqEqual

LEMMA TailsKnown ==
  ASSUME NEW p \in Tails
  PROVE  /\ p \in Seq(Statements)
         /\ p # <<>> => Head(p) \in {"dropBlob", "buildBlob", "putBlob"} /\ Tail(p) \in Tails
         /\ p # <<>> /\ Head(p) = "dropBlob" => Tail(p) \in {<<>>, Fill}
         /\ p # <<>> /\ Head(p) = "buildBlob" => Tail(p) = <<"putBlob">>
         /\ p # <<>> /\ Head(p) = "putBlob" => Tail(p) = <<>>
         /\ p \in Droppings => p # <<>> /\ Head(p) = "dropBlob"
         /\ p \in {Fill, <<"putBlob">>} => p \notin Droppings /\ p # <<>> /\ Fill # <<"putBlob">>
<1>1. /\ Drop = <<"dropBlob">> /\ Fill = <<"buildBlob", "putBlob">>
      /\ DropAndFill = <<"dropBlob", "buildBlob", "putBlob">>
  <2>1. <<"dropBlob">> \o <<"buildBlob", "putBlob">> = <<"dropBlob", "buildBlob", "putBlob">>
    <3> DEFINE s == <<"dropBlob">> \o <<"buildBlob", "putBlob">>
               q == <<"dropBlob", "buildBlob", "putBlob">>
    <3>1. s \in Seq(Statements) /\ q \in Seq(Statements) /\ Len(s) = 3 /\ Len(q) = 3
      <4>1. <<"dropBlob">> \in Seq(Statements) /\ <<"buildBlob", "putBlob">> \in Seq(Statements)
            /\ q \in Seq(Statements)
        BY DEF Statements
      <4> QED
        BY <4>1
    <3>2. s[1] = q[1] /\ s[2] = q[2] /\ s[3] = q[3]
      OBVIOUS
    <3>3. \A i \in 1..Len(s) : s[i] = q[i]
      BY <3>1, <3>2
    <3> HIDE DEF s, q
    <3>4. s = q
      BY <3>1, <3>3, SeqEqual
    <3> QED
      BY <3>4 DEF s, q
  <2> QED
    BY <2>1 DEF Drop, Fill, DropAndFill
<1>2. /\ Tail(<<"dropBlob">>) = <<>> /\ Tail(<<"putBlob">>) = <<>>
      /\ Tail(<<"buildBlob", "putBlob">>) = <<"putBlob">>
      /\ Tail(<<"dropBlob", "buildBlob", "putBlob">>) = <<"buildBlob", "putBlob">>
  OBVIOUS
<1>3. CASE p = <<>>
  BY <1>1, <1>3 DEF Droppings
<1>4. CASE p = <<"putBlob">>
  BY <1>1, <1>2, <1>4 DEF Tails, Droppings, Statements
<1>5. CASE p = Fill
  BY <1>1, <1>2, <1>5 DEF Tails, Droppings, Statements
<1>6. CASE p = Drop
  BY <1>1, <1>2, <1>6 DEF Tails, Droppings, Statements
<1>7. CASE p = DropAndFill
  BY <1>1, <1>2, <1>7 DEF Tails, Droppings, Statements
<1> QED
  BY <1>3, <1>4, <1>5, <1>6, <1>7 DEF Tails, Droppings

LEMMA NamedStatements ==
  /\ \A t \in Droppings : t \in Tails
  /\ Fill \in Tails /\ Drop \in Tails /\ <<>> \in Tails /\ <<"putBlob">> \in Tails /\ Drop \in Droppings
  /\ "readOrder" \in Statements /\ "commitStatus" \in Statements /\ "writeName" \in Statements
  /\ "nameTasks" \in Statements /\ "writeOrder" \in Statements /\ "insertLevel" \in Statements
  /\ "saveLevel" \in Statements /\ "countLevel" \in Statements /\ "deleteLevel" \in Statements
  /\ "deleteStatus" \in Statements /\ "replaceLevels" \in Statements /\ "insertTask" \in Statements
  /\ "writeStatus" \in Statements /\ "writeRest" \in Statements /\ "writeUnseen" \in Statements
  /\ "readStatuses" \in Statements /\ "readLevels" \in Statements
  /\ "rereadSpace" \in Statements /\ "saveSpace" \in Statements
BY DEF Tails, Droppings, Statements

\* A plan with a statement in front of one that is known.
LEMMA AheadOfTail ==
  ASSUME NEW s \in Statements, NEW t \in Tails
  PROVE  /\ Then(s, t) \in Seq(Statements) /\ Then(s, t) # <<>>
         /\ Head(Then(s, t)) = s /\ Tail(Then(s, t)) = t
<1>1. t \in Seq(Statements)
  BY TailsKnown
<1> QED
  BY <1>1, ThenFacts

LEMMA AheadOfTwo ==
  ASSUME NEW s \in Statements, NEW q \in Statements, NEW t \in Tails
  PROVE  /\ Then(s, Then(q, t)) \in Seq(Statements) /\ Then(s, Then(q, t)) # <<>>
         /\ Head(Then(s, Then(q, t))) = s /\ Tail(Then(s, Then(q, t))) = Then(q, t)
BY ThenFacts, AheadOfTail

LEMMA Lone ==
  ASSUME NEW s \in Statements
  PROVE  <<s>> \in Seq(Statements) /\ <<s>> # <<>> /\ Head(<<s>>) = s /\ Tail(<<s>>) = <<>>
OBVIOUS

\* What the statement ahead says of the rest of the plan.
Expected(p, r, m, n, D) ==
  /\ Head(p) = "readOrder" => r.row \in Status /\ \E t \in Droppings : Tail(p) = Then("commitStatus", t)
  /\ Head(p) = "commitStatus" =>
       /\ r.row \in Status /\ m.order \in Seq(Nat) /\ m.index \in 0..Len(m.order)
       /\ Tail(p) \in Droppings /\ \E t \in Droppings : p = Then("commitStatus", t)
  /\ Head(p) = "writeName" => r.name \in Names /\ Tail(p) = Then("nameTasks", Drop)
  /\ Head(p) = "nameTasks" => m = NoName /\ Tail(p) = Drop
  /\ Head(p) = "writeOrder" => (\A k \in DOMAIN r.places : r.places[k] \in Int) /\ Tail(p) \in Droppings
  /\ Head(p) = "insertLevel" => r.row \in LevelRow /\ Tail(p) \in Droppings
  /\ Head(p) = "rereadSpace" => Loaded(m, n) /\ \E t \in Droppings : Tail(p) = Then("saveSpace", t)
  /\ Head(p) = "saveSpace" => Loaded(m, n) /\ Tail(p) \in Droppings
  /\ Head(p) = "saveLevel" => r.id \in 0..n.level /\ m \in LevelRow /\ Tail(p) \in Droppings
  /\ Head(p) = "countLevel" =>
       \E t \in Droppings :
         \/ Tail(p) = Then("deleteLevel", t)
         \/ Tail(p) = Then("saveLevel", t) /\ r.id \in 0..n.level /\ m \in LevelRow
  /\ Head(p) = "replaceLevels" => r.names \in Seq(LevelNames) /\ Tail(p) \in Droppings
  /\ Head(p) = "insertTask" => r.task \in Tasks /\ m \in TaskRow /\ Tail(p) = <<>>
  /\ Head(p) = "writeStatus" =>
       r.task \in D /\ m.status \in Nat /\ m.statusName \in Names /\ Tail(p) = <<>>
  /\ Head(p) = "writeUnseen" => Tail(p) = <<>>
  /\ Head(p) \in {"readStatuses", "readLevels"} => Tail(p) = Fill
  /\ Head(p) \in {"deleteStatus", "deleteLevel", "writeRest"} => Tail(p) \in Droppings
  /\ Head(p) = "dropBlob" => Tail(p) \in {<<>>, Fill}
  /\ Head(p) = "buildBlob" => Tail(p) = <<"putBlob">>
  /\ Head(p) = "putBlob" => Tail(p) = <<>>

LEMMA PlanKnown ==
  ASSUME NEW p, NEW r, NEW m, NEW n, NEW D, PlanFits(p, r, m, n, D)
  PROVE  p \in Seq(Statements) /\ (p # <<>> => Expected(p, r, m, n, D))
<1>1. CASE p \in Tails
  BY <1>1, TailsKnown DEF Expected
<1>2. CASE SimplePlan(p)
  <2>1. CASE p = <<"writeUnseen">>
    <3>1. p \in Seq(Statements) /\ Head(p) = "writeUnseen" /\ Tail(p) = <<>>
      BY <2>1, Lone DEF Statements
    <3> QED
      BY <3>1 DEF Expected
  <2>2. CASE p = Then("readStatuses", Fill) \/ p = Then("readLevels", Fill)
    <3>0. PICK s \in {"readStatuses", "readLevels"} : p = Then(s, Fill)
      BY <2>2
    <3>1. p \in Seq(Statements) /\ Head(p) = s /\ Tail(p) = Fill
      <4>1. s \in Statements /\ Fill \in Tails
        BY NamedStatements
      <4> QED
        BY <3>0, <4>1, AheadOfTail
    <3> QED
      BY <3>1 DEF Expected
  <2>3. ASSUME NEW t \in Droppings, p \in {Then("deleteStatus", t), Then("deleteLevel", t), Then("writeRest", t)}
        PROVE  p \in Seq(Statements) /\ Expected(p, r, m, n, D)
    <3>0. PICK s \in {"deleteStatus", "deleteLevel", "writeRest"} : p = Then(s, t)
      BY <2>3
    <3>1. p \in Seq(Statements) /\ Tail(p) = t /\ Head(p) = s
      <4>1. s \in Statements /\ t \in Tails
        BY NamedStatements
      <4> QED
        BY <3>0, <4>1, AheadOfTail
    <3> QED
      BY <3>1 DEF Expected
  <2>4. ASSUME NEW t \in Droppings, p = Then("countLevel", Then("deleteLevel", t))
        PROVE  p \in Seq(Statements) /\ Expected(p, r, m, n, D)
    <3>1. p \in Seq(Statements) /\ Head(p) = "countLevel" /\ Tail(p) = Then("deleteLevel", t)
      <4>1. "countLevel" \in Statements /\ "deleteLevel" \in Statements /\ t \in Tails
        BY NamedStatements
      <4>2. p = Then("countLevel", Then("deleteLevel", t))
        BY <2>4
      <4> QED
        BY <4>1, <4>2, AheadOfTwo
    <3> QED
      BY <3>1 DEF Expected
  <2> QED
    BY <1>2, <2>1, <2>2, <2>3, <2>4 DEF SimplePlan
<1>3. CASE OrderPlan(p, r)
  <2>1. PICK t \in Droppings : p = Then("readOrder", Then("commitStatus", t))
    BY <1>3 DEF OrderPlan
  <2>2. p \in Seq(Statements) /\ Head(p) = "readOrder" /\ Tail(p) = Then("commitStatus", t)
    <3>1. "readOrder" \in Statements /\ "commitStatus" \in Statements /\ t \in Tails
      BY NamedStatements
    <3>2. p = Then("readOrder", Then("commitStatus", t))
      BY <2>1
    <3> QED
      BY <3>1, <3>2, AheadOfTwo
  <2> QED
    BY <1>3, <2>2 DEF Expected, OrderPlan
<1>4. CASE CommitPlan(p, r, m)
  <2>1. PICK t \in Droppings : p = Then("commitStatus", t)
    BY <1>4 DEF CommitPlan
  <2>2. p \in Seq(Statements) /\ Head(p) = "commitStatus" /\ Tail(p) = t
    BY <2>1, AheadOfTail, NamedStatements
  <2> QED
    BY <1>4, <2>2 DEF Expected, CommitPlan
<1>5. CASE NamePlan(p, r)
  <2>1. p \in Seq(Statements) /\ Head(p) = "writeName" /\ Tail(p) = Then("nameTasks", Drop)
    <3>1. "writeName" \in Statements /\ "nameTasks" \in Statements /\ Drop \in Tails
      BY NamedStatements
    <3>2. p = Then("writeName", Then("nameTasks", Drop))
      BY <1>5 DEF NamePlan
    <3> QED
      BY <3>1, <3>2, AheadOfTwo
  <2> QED
    BY <1>5, <2>1 DEF Expected, NamePlan
<1>6. CASE NameTasksPlan(p, m)
  <2>1. p \in Seq(Statements) /\ Head(p) = "nameTasks" /\ Tail(p) = Drop
    BY <1>6, AheadOfTail, NamedStatements DEF NameTasksPlan
  <2> QED
    BY <1>6, <2>1 DEF Expected, NameTasksPlan
<1>7. CASE PlacesPlan(p, r)
  <2>1. PICK t \in Droppings : p = Then("writeOrder", t)
    BY <1>7 DEF PlacesPlan
  <2>2. p \in Seq(Statements) /\ Head(p) = "writeOrder" /\ Tail(p) = t
    BY <2>1, AheadOfTail, NamedStatements
  <2> QED
    BY <1>7, <2>2 DEF Expected, PlacesPlan
<1>8. CASE LevelPlan(p, r)
  <2>1. PICK t \in Droppings : p = Then("insertLevel", t)
    BY <1>8 DEF LevelPlan
  <2>2. p \in Seq(Statements) /\ Head(p) = "insertLevel" /\ Tail(p) = t
    BY <2>1, AheadOfTail, NamedStatements
  <2> QED
    BY <1>8, <2>2 DEF Expected, LevelPlan
<1>9. CASE SaveLevelPlan(p, r, m, n)
  <2>1. PICK t \in Droppings : p \in {Then("saveLevel", t), Then("countLevel", Then("saveLevel", t))}
    BY <1>9 DEF SaveLevelPlan
  <2>2. CASE p = Then("saveLevel", t)
    <3>1. p \in Seq(Statements) /\ Head(p) = "saveLevel" /\ Tail(p) = t
      BY <2>2, AheadOfTail, NamedStatements
    <3> QED
      BY <1>9, <3>1 DEF Expected, SaveLevelPlan
  <2>3. CASE p = Then("countLevel", Then("saveLevel", t))
    <3>1. p \in Seq(Statements) /\ Head(p) = "countLevel" /\ Tail(p) = Then("saveLevel", t)
      <4>1. "countLevel" \in Statements /\ "saveLevel" \in Statements /\ t \in Tails
        BY NamedStatements
      <4>2. p = Then("countLevel", Then("saveLevel", t))
        BY <2>3
      <4> QED
        BY <4>1, <4>2, AheadOfTwo
    <3> QED
      BY <1>9, <3>1 DEF Expected, SaveLevelPlan
  <2> QED
    BY <2>1, <2>2, <2>3
<1>10. CASE LevelsPlan(p, r)
  <2>1. PICK t \in Droppings : p = Then("replaceLevels", t)
    BY <1>10 DEF LevelsPlan
  <2>2. p \in Seq(Statements) /\ Head(p) = "replaceLevels" /\ Tail(p) = t
    BY <2>1, AheadOfTail, NamedStatements
  <2> QED
    BY <1>10, <2>2 DEF Expected, LevelsPlan
<1>11. CASE TaskPlan(p, r, m)
  <2>1. p \in Seq(Statements) /\ Head(p) = "insertTask" /\ Tail(p) = <<>>
    BY <1>11, Lone DEF Statements, TaskPlan
  <2> QED
    BY <1>11, <2>1 DEF Expected, TaskPlan
<1>12. CASE StatusPlan(p, r, m, D)
  <2>1. p \in Seq(Statements) /\ Head(p) = "writeStatus" /\ Tail(p) = <<>>
    BY <1>12, Lone DEF Statements, StatusPlan
  <2> QED
    BY <1>12, <2>1 DEF Expected, StatusPlan
<1>13. CASE SpacePlan(p, m, n)
  <2>0. "rereadSpace" \in Statements /\ "saveSpace" \in Statements /\ \A t \in Droppings : t \in Tails
    BY NamedStatements
  <2>1. PICK t \in Droppings : p \in {Then("saveSpace", t), Then("rereadSpace", Then("saveSpace", t))}
    BY <1>13 DEF SpacePlan
  <2>2. CASE p = Then("saveSpace", t)
    <3>1. p \in Seq(Statements) /\ Head(p) = "saveSpace" /\ Tail(p) = t
      BY <2>0, <2>2, AheadOfTail
    <3> QED
      BY <1>13, <3>1 DEF Expected, SpacePlan
  <2>3. CASE p = Then("rereadSpace", Then("saveSpace", t))
    <3>1. p \in Seq(Statements) /\ Head(p) = "rereadSpace" /\ Tail(p) = Then("saveSpace", t)
      BY <2>0, <2>3, AheadOfTwo
    <3> QED
      BY <1>13, <3>1 DEF Expected, SpacePlan
  <2> QED
    BY <2>1, <2>2, <2>3
<1> QED
  BY <1>1, <1>2, <1>3, <1>4, <1>5, <1>6, <1>7, <1>8, <1>9, <1>10, <1>11, <1>12, <1>13 DEF PlanFits

\* Ids are issued upwards.
Issued == [status : Nat, level : Nat]
Later(n, k) == n.status <= k.status /\ n.level <= k.level

LEMMA MoreRows ==
  ASSUME NEW p, NEW r, NEW m, NEW n \in Issued, NEW D, NEW k \in Issued, NEW E,
         PlanFits(p, r, m, n, D), Later(n, k), D \subseteq E
  PROVE  PlanFits(p, r, m, k, E)
<1>1. n.level \in Nat /\ k.level \in Nat /\ n.status \in Nat /\ k.status \in Nat
  BY DEF Issued
<1>2. SaveLevelPlan(p, r, m, n) => SaveLevelPlan(p, r, m, k)
  BY <1>1 DEF SaveLevelPlan, Later
<1>3. StatusPlan(p, r, m, D) => StatusPlan(p, r, m, E)
  BY DEF StatusPlan
<1>4. SpacePlan(p, m, n) => SpacePlan(p, m, k)
  BY <1>1 DEF SpacePlan, Loaded, Later
<1> QED
  BY <1>2, <1>3, <1>4 DEF PlanFits

LEMMA LaterSame == Tables => Later(issued, issued) /\ issued \in Issued
BY DEF Tables, Later, Issued

\* Most statements ahead need no rows to be as they were read.
LEMMA NothingRead ==
  ASSUME NEW p, p = <<>> \/ Head(p) \notin {"commitStatus", "rereadSpace", "saveSpace"}
  PROVE  \A r, m, f : KnowsOrder(p, r, m, f)
BY DEF KnowsOrder, Ahead

LEMMA TailsNeedNothing ==
  ASSUME NEW p \in Tails \cup {Then("nameTasks", Drop)}
  PROVE  \A r, m, f : KnowsOrder(p, r, m, f)
<1>1. p = <<>> \/ Head(p) \in {"dropBlob", "buildBlob", "putBlob", "nameTasks"}
  <2>1. CASE p \in Tails
    BY <2>1, TailsKnown
  <2>2. CASE p = Then("nameTasks", Drop)
    <3>1. "nameTasks" \in Statements /\ Drop \in Tails
      BY NamedStatements
    <3>2. Head(Then("nameTasks", Drop)) = "nameTasks"
      BY <3>1, AheadOfTail
    <3> QED
      BY <2>2, <3>2
  <2> QED
    BY <2>1, <2>2
<1> QED
  BY <1>1, NothingRead

-----------------------------------------------------------------------------
(* A request begins, goes on or ends *)

LEMMA NothingLeftFits ==
  /\ \A r, m, n, D : PlanFits(<<>>, r, m, n, D)
  /\ \A p \in Tails : \A r, m, n, D : PlanFits(p, r, m, n, D)
BY NamedStatements DEF PlanFits

\* While nothing overlaps, the others are idle when one is at work.
LEMMA OthersIdle ==
  ASSUME OneRequest, ~overlapped, NEW c \in Requests, plan[c] # <<>>
  PROVE  \A d \in Requests \ {c} : plan[d] = <<>>
BY DEF OneRequest

\* A statement after which the request has the statements p ahead, and which leaves
\* sound tables and, while nothing overlaps, a blob and an order that will do.
LEMMA StatementKeeps ==
  ASSUME ConfigInv, NEW c \in Requests, plan[c] # <<>>, NEW p, NEW m, Continue(c, p, m),
         failed' \in BOOLEAN, failed => failed', elsewhere => elsewhere',
         Tables', Later(issued, issued'), DOMAIN tasks \subseteq DOMAIN tasks',
         PlanFits(p, req[c], m, issued', DOMAIN tasks'),
         Clean' /\ ~elsewhere' =>
           /\ blob' \in {Absent, Current'} \/ p \in Droppings \cup {Then("nameTasks", Drop)}
           /\ p = <<"putBlob">> => m = Current',
         ~overlapped /\ ~moved' => Placed(statuses') /\ KnowsOrder(p, req[c], m, statuses')
  PROVE  ConfigInv'
<1>1. /\ plan \in [Requests -> Seq(Statements)] /\ RequestsOK
      /\ \A d \in Requests : PlanFits(plan[d], req[d], mem[d], issued, DOMAIN tasks)
      /\ issued \in Issued /\ issued' \in Issued
  BY DEF ConfigInv, ConfigShape, Plans, Tables, Issued
<1>2. /\ DOMAIN plan = Requests /\ DOMAIN req = Requests /\ DOMAIN mem = Requests
      /\ served \in 0..MaxServed /\ overlapped \in BOOLEAN /\ failed \in BOOLEAN
  BY <1>1 DEF RequestsOK
<1>3. /\ plan' = [plan EXCEPT ![c] = p] /\ UNCHANGED <<served, overlapped>>
      /\ DOMAIN plan' = Requests /\ DOMAIN req' = Requests /\ DOMAIN mem' = Requests
      /\ plan'[c] = p
  BY <1>2 DEF Continue
<1>4. \A d \in Requests \ {c} : plan'[d] = plan[d] /\ req'[d] = req[d] /\ mem'[d] = mem[d]
  BY <1>2 DEF Continue
<1>5. p # <<>> => req'[c] = req[c] /\ mem'[c] = m
  BY <1>2 DEF Continue
<1>6. p \in Seq(Statements)
  BY PlanKnown
<1>7. Plans'
  <2>1. RequestsOK'
    BY <1>2, <1>3 DEF RequestsOK
  <2>2. plan' \in [Requests -> Seq(Statements)]
    BY <1>1, <1>3, <1>6
  <2>3. \A d \in Requests \ {c} : PlanFits(plan'[d], req'[d], mem'[d], issued', DOMAIN tasks')
    BY <1>1, <1>4, MoreRows
  <2>4. PlanFits(plan'[c], req'[c], mem'[c], issued', DOMAIN tasks')
    BY <1>3, <1>5, NothingLeftFits
  <2> QED
    BY <2>1, <2>2, <2>3, <2>4 DEF Plans
<1>8. OneRequest'
  BY <1>2, <1>3, <1>4 DEF ConfigInv, OneRequest
<1>9. ~overlapped => \A d \in Requests \ {c} : plan'[d] = <<>>
  BY <1>4, OthersIdle DEF ConfigInv
<1>10. BlobOrDrop'
  <2> SUFFICES ASSUME Clean', ~elsewhere' PROVE BlobOrDrop'
    BY DEF BlobOrDrop
  <2>1. ~overlapped
    BY <1>3 DEF Clean
  <2>2. blob' \in {Absent, Current'} \/ WillDrop(c)'
    BY <1>3 DEF WillDrop
  <2>3. ASSUME NEW d \in Requests, plan'[d] = <<"putBlob">> PROVE mem'[d] = Current'
    <3>1. d = c
      BY SMTT(60), <1>9, <2>1, <2>3
    <3>2. p = <<"putBlob">> /\ p # <<>>
      BY <1>3, <2>3, <3>1, NamedStatements, TailsKnown
    <3> QED
      BY <1>5, <3>1, <3>2
  <2> QED
    BY <2>2, <2>3 DEF BlobOrDrop
<1>11. PlacedByBase'
  <2> SUFFICES ASSUME ~overlapped, ~moved' PROVE Placed(statuses') /\ \A d \in Requests : HasRead(d)'
    BY <1>3 DEF PlacedByBase
  <2>1. ASSUME NEW d \in Requests PROVE KnowsOrder(plan'[d], req'[d], mem'[d], statuses')
    <3>1. CASE plan'[d] = <<>>
      BY <3>1, NothingRead
    <3>2. CASE plan'[d] # <<>>
      <4>1. d = c
        BY <1>9, <3>2
      <4>2. plan'[d] = p /\ req'[d] = req[c] /\ mem'[d] = m
        BY <1>3, <1>5, <3>2, <4>1
      <4>3. KnowsOrder(p, req[c], m, statuses')
        OBVIOUS
      <4> QED
        BY <4>2, <4>3
    <3> QED
      BY <3>1, <3>2
  <2> QED
    BY <2>1 DEF HasRead
<1> QED
  BY <1>7, <1>8, <1>10, <1>11 DEF ConfigInv, ConfigShape

\* A request comes in.
LEMMA RequestBegins ==
  ASSUME ConfigInv, NEW c \in Requests, NEW r, NEW m, NEW p, Ask(c, r, m, p), p # <<"putBlob">>,
         PlanFits(p, r, m, issued, DOMAIN tasks), KnowsOrder(p, r, m, statuses)
  PROVE  ConfigInv'
<1>1. /\ plan \in [Requests -> Seq(Statements)] /\ RequestsOK
      /\ \A d \in Requests : PlanFits(plan[d], req[d], mem[d], issued, DOMAIN tasks)
  BY DEF ConfigInv, ConfigShape, Plans
<1>2. /\ DOMAIN plan = Requests /\ DOMAIN req = Requests /\ DOMAIN mem = Requests
      /\ served \in 0..MaxServed /\ overlapped \in BOOLEAN /\ failed \in BOOLEAN
  BY <1>1 DEF RequestsOK
<1>3. /\ UNCHANGED <<statuses, levels, issued, tasks, moved, kind, rest, elsewhere, blob, failed>>
      /\ served < MaxServed /\ served' = served + 1
      /\ plan[c] = <<>> /\ overlapped' = (overlapped \/ ~Quiet)
      /\ plan' = [plan EXCEPT ![c] = p]
      /\ req' = [req EXCEPT ![c] = r] /\ mem' = [mem EXCEPT ![c] = m]
  BY DEF Ask, Arrive, Begin, Idle, tableVars, restVars
<1>4. /\ plan'[c] = p /\ req'[c] = r /\ mem'[c] = m
      /\ \A d \in Requests \ {c} : plan'[d] = plan[d] /\ req'[d] = req[d] /\ mem'[d] = mem[d]
  BY <1>2, <1>3
<1>5. Tables'
  BY <1>3 DEF ConfigInv, ConfigShape, Tables, Projects
<1>6. Plans'
  <2>1. RequestsOK'
    BY <1>2, <1>3, RequestAssumption DEF RequestsOK, Quiet
  <2>2. plan' \in [Requests -> Seq(Statements)]
    BY <1>1, <1>3, PlanKnown
  <2> QED
    BY <1>1, <1>3, <1>4, <2>1, <2>2 DEF Plans
<1>7. ~overlapped' => ~overlapped /\ \A d \in Requests : plan[d] = <<>>
  BY <1>2, <1>3 DEF Quiet, Idle
<1>8. OneRequest'
  BY <1>4, <1>7 DEF OneRequest
<1>9. BlobOrDrop'
  <2> SUFFICES ASSUME Clean', ~elsewhere' PROVE BlobOrDrop'
    BY DEF BlobOrDrop
  <2>1. Clean /\ ~elsewhere /\ \A d \in Requests : plan[d] = <<>>
    BY <1>3, <1>7 DEF Clean
  <2>2. \A d \in Requests : ~WillDrop(d)
    <3>1. Then("nameTasks", Drop) # <<>>
      BY AheadOfTail, NamedStatements
    <3>2. \A t \in Droppings : t # <<>>
      BY TailsKnown, NamedStatements
    <3> QED
      BY <2>1, <3>1, <3>2 DEF WillDrop
  <2>3. blob \in {Absent, Current}
    BY <2>1, <2>2 DEF ConfigInv, BlobOrDrop
  <2>4. \A d \in Requests : plan'[d] # <<"putBlob">>
    BY <1>4, <2>1, TailsKnown, NamedStatements
  <2> QED
    BY <1>3, <2>3, <2>4 DEF BlobOrDrop, Current
<1>10. PlacedByBase'
  <2> SUFFICES ASSUME ~overlapped', ~moved' PROVE Placed(statuses') /\ \A d \in Requests : HasRead(d)'
    BY DEF PlacedByBase
  <2>1. Placed(statuses)
    BY <1>3, <1>7 DEF ConfigInv, PlacedByBase
  <2>2. ASSUME NEW d \in Requests PROVE KnowsOrder(plan'[d], req'[d], mem'[d], statuses)
    <3>1. CASE d = c
      BY <1>4, <3>1
    <3>2. CASE d # c
      <4>1. plan'[d] = <<>>
        BY <1>4, <1>7, <3>2
      <4> QED
        BY <4>1, NothingRead
    <3> QED
      BY <3>1, <3>2
  <2> QED
    BY <1>3, <2>1, <2>2 DEF HasRead
<1> QED
  BY <1>5, <1>6, <1>8, <1>9, <1>10 DEF ConfigInv, ConfigShape

-----------------------------------------------------------------------------
(* The requests *)

LEMMA TwoAhead ==
  ASSUME NEW s \in Statements, NEW q \in Statements, NEW t \in Tails
  PROVE  <<s, q>> \o t = Then(s, Then(q, t))
<1>1. t \in Seq(Statements)
  BY TailsKnown
<1>2. /\ <<s, q>> \o t \in Seq(Statements) /\ Len(<<s, q>> \o t) = Len(t) + 2
      /\ \A i \in 1..Len(t) + 2 :
           (<<s, q>> \o t)[i] = IF i = 1 THEN s ELSE IF i = 2 THEN q ELSE t[i - 2]
  BY <1>1
<1>3. /\ Then(q, t) \in Seq(Statements) /\ Len(Then(q, t)) = Len(t) + 1
      /\ \A i \in 1..Len(t) + 1 : Then(q, t)[i] = IF i = 1 THEN q ELSE t[i - 1]
  BY <1>1 DEF Then
<1>4. /\ Then(s, Then(q, t)) \in Seq(Statements) /\ Len(Then(s, Then(q, t))) = Len(t) + 2
      /\ \A i \in 1..Len(t) + 2 :
           Then(s, Then(q, t))[i] = IF i = 1 THEN s ELSE Then(q, t)[i - 1]
  <2> DEFINE z == Then(q, t)
  <2>1. z \in Seq(Statements) /\ Len(z) = Len(t) + 1 /\ Len(t) \in Nat
    BY <1>1, <1>3
  <2> HIDE DEF z
  <2>2. /\ Then(s, z) \in Seq(Statements) /\ Len(Then(s, z)) = Len(t) + 2
        /\ \A i \in 1..Len(t) + 2 : Then(s, z)[i] = IF i = 1 THEN s ELSE z[i - 1]
    BY <2>1 DEF Then
  <2> QED
    BY <2>2 DEF z
<1>5. \A i \in 1..Len(t) + 2 : (<<s, q>> \o t)[i] = Then(s, Then(q, t))[i]
  <2> SUFFICES ASSUME NEW i \in 1..Len(t) + 2
               PROVE  (<<s, q>> \o t)[i] = Then(s, Then(q, t))[i]
    OBVIOUS
  <2>1. Len(t) \in Nat
    BY <1>1
  <2>2. CASE i = 1
    BY <1>2, <1>4, <2>1, <2>2
  <2>3. CASE i # 1
    <3>1. i - 1 \in 1..Len(t) + 1 /\ (i - 1) - 1 = i - 2
      BY <2>1, <2>3
    <3>2. Then(q, t)[i - 1] = IF i - 1 = 1 THEN q ELSE t[(i - 1) - 1]
      BY <1>3, <3>1
    <3> QED
      BY <1>2, <1>4, <2>1, <2>3, <3>1, <3>2
  <2> QED
    BY <2>2, <2>3
<1> DEFINE x == <<s, q>> \o t
           y == Then(s, Then(q, t))
<1>6. x \in Seq(Statements) /\ y \in Seq(Statements) /\ Len(x) = Len(y) /\ \A i \in 1..Len(x) : x[i] = y[i]
  BY <1>2, <1>4, <1>5
<1> HIDE DEF x, y
<1>7. x = y
  BY <1>6, SeqEqual
<1> QED
  BY <1>7 DEF x, y

LEMMA RequestAsks ==
  ASSUME ConfigInv, NEW c \in Requests, NEW r, NEW m, NEW p, Ask(c, r, m, p),
         p # <<>>, Head(p) \notin {"putBlob", "commitStatus", "rereadSpace", "saveSpace"},
         PlanFits(p, r, m, issued, DOMAIN tasks)
  PROVE  ConfigInv'
<1>1. Head(<<"putBlob">>) = "putBlob"
  OBVIOUS
<1>2. KnowsOrder(p, r, m, statuses)
  BY NothingRead
<1> QED
  BY <1>1, <1>2, RequestBegins

\* What is asked of the statuses.
LEMMA StatusAdded ==
  ASSUME ConfigInv, NEW c \in Requests, NEW r, NEW m, NEW t \in Droppings, r.row \in Status,
         Ask(c, r, m, <<"readOrder", "commitStatus">> \o t)
  PROVE  ConfigInv'
<1>0. "readOrder" \in Statements /\ "commitStatus" \in Statements /\ t \in Tails
  BY NamedStatements
<1> DEFINE p == Then("readOrder", Then("commitStatus", t))
<1>1. Ask(c, r, m, p)
  BY <1>0, TwoAhead
<1>2. p # <<>> /\ Head(p) = "readOrder"
  BY <1>0, AheadOfTwo
<1>3. PlanFits(p, r, m, issued, DOMAIN tasks)
  BY DEF PlanFits, OrderPlan
<1> HIDE DEF p
<1> QED
  BY <1>1, <1>2, <1>3, RequestAsks

LEMMA AddedKeeps ==
  ASSUME ConfigInv, NEW c \in Requests,
         AddedStatus(c) \/ ExistingStatus(c, Drop) \/ ExistingStatus(c, DropAndFill)
  PROVE  ConfigInv'
<1>1. ASSUME NEW n \in Names, NEW b \in Bases,
             Ask(c, [op |-> "addStatus", row |-> [name |-> n, base |-> b, isPrimaryBase |-> FALSE]],
                    <<>>, <<"readOrder", "commitStatus">> \o DropAndFill)
      PROVE  ConfigInv'
  <2> DEFINE r == [op |-> "addStatus", row |-> [name |-> n, base |-> b, isPrimaryBase |-> FALSE]]
  <2>1. r.row \in Status /\ DropAndFill \in Droppings
    BY DEF Status, Droppings
  <2>2. Ask(c, r, <<>>, <<"readOrder", "commitStatus">> \o DropAndFill)
    BY <1>1
  <2> HIDE DEF r
  <2> QED
    BY <2>1, <2>2, StatusAdded
<1>2. ASSUME NEW x \in Masters, NEW t \in Droppings,
             Ask(c, [op |-> "addExistingStatus", row |-> x], <<>>, <<"readOrder", "commitStatus">> \o t)
      PROVE  ConfigInv'
  <2> DEFINE r == [op |-> "addExistingStatus", row |-> x]
  <2>1. r.row \in Status
    BY SpaceAssumption
  <2>2. Ask(c, r, <<>>, <<"readOrder", "commitStatus">> \o t)
    BY <1>2
  <2> HIDE DEF r
  <2> QED
    BY <2>1, <2>2, StatusAdded
<1>3. Drop \in Droppings /\ DropAndFill \in Droppings
  BY DEF Droppings
<1> QED
  BY <1>1, <1>2, <1>3 DEF AddedStatus, ExistingStatus

LEMMA StatusChanged ==
  ASSUME ConfigInv, NEW c \in Requests,
         RenamedStatus(c) \/ RemovedStatus(c) \/ Swapped(c, Drop) \/ Swapped(c, DropAndFill)
  PROVE  ConfigInv'
<1>1. Drop \in Droppings /\ DropAndFill \in Droppings /\ Drop \in Tails /\ DropAndFill \in Tails
  BY DEF Droppings, Tails
<1>2. ASSUME NEW i, NEW n \in Names,
             Ask(c, [op |-> "updateSpaceStatus", id |-> i, name |-> n], <<>>,
                    <<"writeName", "nameTasks">> \o Drop)
      PROVE  ConfigInv'
  <2> DEFINE r == [op |-> "updateSpaceStatus", id |-> i, name |-> n]
             p == Then("writeName", Then("nameTasks", Drop))
  <2>0. "writeName" \in Statements /\ "nameTasks" \in Statements
    BY NamedStatements
  <2>1. Ask(c, r, <<>>, p)
    BY <1>1, <1>2, <2>0, TwoAhead
  <2>2. p # <<>> /\ Head(p) = "writeName"
    BY <1>1, <2>0, AheadOfTwo
  <2>3. PlanFits(p, r, <<>>, issued, DOMAIN tasks)
    BY DEF PlanFits, NamePlan
  <2> HIDE DEF p, r
  <2> QED
    BY <2>1, <2>2, <2>3, RequestAsks
<1>3. ASSUME NEW i,
             Ask(c, [op |-> "removeStatus", id |-> i], <<>>, <<"deleteStatus">> \o DropAndFill)
      PROVE  ConfigInv'
  <2> DEFINE r == [op |-> "removeStatus", id |-> i]
             p == Then("deleteStatus", DropAndFill)
  <2>1. Ask(c, r, <<>>, p)
    BY <1>3 DEF Then
  <2>2. p # <<>> /\ Head(p) = "deleteStatus"
    BY <1>1, AheadOfTail, NamedStatements
  <2>3. PlanFits(p, r, <<>>, issued, DOMAIN tasks)
    BY <1>1 DEF PlanFits, SimplePlan
  <2> HIDE DEF p, r
  <2> QED
    BY <2>1, <2>2, <2>3, RequestAsks
<1>4. ASSUME NEW t \in Droppings, Swapped(c, t)
      PROVE  ConfigInv'
  <2>1. PICK i \in DOMAIN statuses, j \in DOMAIN statuses :
          Ask(c, [op |-> "updateStatusSequence",
                  places |-> [k \in {i, j} |-> statuses[IF k = i THEN j ELSE i].sequence]],
              <<>>, <<"writeOrder">> \o t)
    BY <1>4 DEF Swapped
  <2>2. \A k \in DOMAIN statuses : statuses[k].sequence \in Int
    BY DEF ConfigInv, ConfigShape, Tables, StatusRow
  <2> DEFINE places == [k \in {i, j} |-> statuses[IF k = i THEN j ELSE i].sequence]
             r == [op |-> "updateStatusSequence", places |-> places]
             p == Then("writeOrder", t)
  <2>3. \A k \in DOMAIN places : places[k] \in Int
    BY <2>2
  <2>4. Ask(c, r, <<>>, p)
    BY <2>1 DEF Then
  <2>5. p # <<>> /\ Head(p) = "writeOrder"
    BY AheadOfTail, NamedStatements
  <2>6. r.places = places
    OBVIOUS
  <2> HIDE DEF places, r
  <2>7. PlanFits(p, r, <<>>, issued, DOMAIN tasks)
    BY <2>3, <2>6 DEF PlanFits, PlacesPlan
  <2> HIDE DEF p
  <2> QED
    BY <2>4, <2>5, <2>7, RequestAsks
<1> QED
  BY <1>1, <1>2, <1>3, <1>4 DEF RenamedStatus, RemovedStatus

\* What is asked of the levels.
LEMMA LevelAsked ==
  ASSUME ConfigInv, NEW c \in Requests,
         AddHierarchyLevel(c) \/ SaveAllHierarchyLevels(c) \/ RemoveHierarchyLevel(c)
  PROVE  ConfigInv'
<1>1. Drop \in Droppings /\ DropAndFill \in Droppings /\ Drop \in Tails /\ DropAndFill \in Tails
  BY DEF Droppings, Tails
<1>2. ASSUME NEW n \in LevelNames, NEW q \in 0..(DefaultLevels + 1),
             Ask(c, [op |-> "addHierarchyLevel", row |-> [name |-> n, sequence |-> q]], <<>>,
                    <<"insertLevel">> \o DropAndFill)
      PROVE  ConfigInv'
  <2> DEFINE r == [op |-> "addHierarchyLevel", row |-> [name |-> n, sequence |-> q]]
             p == Then("insertLevel", DropAndFill)
  <2>1. r.row \in LevelRow
    BY SpaceAssumption DEF LevelRow
  <2>2. Ask(c, r, <<>>, p)
    BY <1>2 DEF Then
  <2>3. p # <<>> /\ Head(p) = "insertLevel"
    BY <1>1, AheadOfTail, NamedStatements
  <2> HIDE DEF r
  <2>4. PlanFits(p, r, <<>>, issued, DOMAIN tasks)
    BY <1>1, <2>1 DEF PlanFits, LevelPlan
  <2> HIDE DEF p
  <2> QED
    BY <2>2, <2>3, <2>4, RequestAsks
<1>3. ASSUME NEW n \in LevelNames, NEW k \in 0..(DefaultLevels + 1),
             Ask(c, [op |-> "saveAllHierarchyLevels", names |-> [i \in 1..k |-> n]], <<>>,
                    <<"replaceLevels">> \o Drop)
      PROVE  ConfigInv'
  <2> DEFINE names == [i \in 1..k |-> n]
             r == [op |-> "saveAllHierarchyLevels", names |-> names]
             p == Then("replaceLevels", Drop)
  <2>1. names \in Seq(LevelNames)
    BY SpaceAssumption
  <2>2. Ask(c, r, <<>>, p)
    BY <1>3 DEF Then
  <2>3. p # <<>> /\ Head(p) = "replaceLevels"
    BY <1>1, AheadOfTail, NamedStatements
  <2>4. r.names = names
    OBVIOUS
  <2> HIDE DEF r, names
  <2>5. PlanFits(p, r, <<>>, issued, DOMAIN tasks)
    BY <1>1, <2>1, <2>4 DEF PlanFits, LevelsPlan
  <2> HIDE DEF p
  <2> QED
    BY <2>2, <2>3, <2>5, RequestAsks
<1>4. ASSUME NEW i, Ask(c, [op |-> "removeHierarchyLevel", id |-> i], <<>>,
                           <<"countLevel", "deleteLevel">> \o DropAndFill)
      PROVE  ConfigInv'
  <2> DEFINE r == [op |-> "removeHierarchyLevel", id |-> i]
             p == Then("countLevel", Then("deleteLevel", DropAndFill))
  <2>0. "countLevel" \in Statements /\ "deleteLevel" \in Statements
    BY NamedStatements
  <2>1. Ask(c, r, <<>>, p)
    BY <1>1, <1>4, <2>0, TwoAhead
  <2>2. p # <<>> /\ Head(p) = "countLevel"
    BY <1>1, <2>0, AheadOfTwo
  <2>3. PlanFits(p, r, <<>>, issued, DOMAIN tasks)
    BY <1>1 DEF PlanFits, SimplePlan
  <2> HIDE DEF p, r
  <2> QED
    BY <2>1, <2>2, <2>3, RequestAsks
<1> QED
  BY <1>2, <1>3, <1>4 DEF AddHierarchyLevel, SaveAllHierarchyLevels, RemoveHierarchyLevel

LEMMA LevelEdited ==
  ASSUME ConfigInv, NEW c \in Requests, UpdateHierarchyLevel(c) \/ PatchHierarchyLevel(c)
  PROVE  ConfigInv'
<1>1. Drop \in Droppings /\ Drop \in Tails
  BY DEF Droppings, Tails
<1>2. /\ levels \in [DOMAIN levels -> LevelRow]
      /\ \A i \in DOMAIN levels : i \in 0..issued.level
  BY DEF ConfigInv, ConfigShape, Tables
<1>3. "countLevel" \in Statements /\ "saveLevel" \in Statements
  BY NamedStatements
<1>4. ASSUME NEW i \in DOMAIN levels, NEW m \in LevelRow, NEW r, r.id = i,
             NEW p \in {Then("saveLevel", Drop), Then("countLevel", Then("saveLevel", Drop))}, Ask(c, r, m, p)
      PROVE  ConfigInv'
  <2>1. p # <<>> /\ Head(p) \in {"saveLevel", "countLevel"}
    <3>1. CASE p = Then("saveLevel", Drop)
      BY <1>1, <1>3, <3>1, AheadOfTail
    <3>2. CASE p = Then("countLevel", Then("saveLevel", Drop))
      <4>1. /\ Then("countLevel", Then("saveLevel", Drop)) # <<>>
            /\ Head(Then("countLevel", Then("saveLevel", Drop))) = "countLevel"
        BY <1>1, <1>3, AheadOfTwo
      <4> QED
        BY <3>2, <4>1
    <3> QED
      BY <1>4, <3>1, <3>2
  <2>2. PlanFits(p, r, m, issued, DOMAIN tasks)
    BY <1>1, <1>2, <1>4 DEF PlanFits, SaveLevelPlan
  <2> QED
    BY <1>4, <2>1, <2>2, RequestAsks
<1>5. ASSUME UpdateHierarchyLevel(c) PROVE ConfigInv'
  <2>1. PICK i \in DOMAIN levels, n \in LevelNames, q \in 0..(DefaultLevels + 1) :
          Ask(c, [op |-> "updateHierarchyLevel", id |-> i], [name |-> n, sequence |-> q],
              <<"saveLevel">> \o Drop)
    BY <1>5 DEF UpdateHierarchyLevel
  <2> DEFINE r == [op |-> "updateHierarchyLevel", id |-> i]
             m == [name |-> n, sequence |-> q]
  <2>2. m \in LevelRow /\ r.id = i
    BY SpaceAssumption DEF LevelRow
  <2>3. Ask(c, r, m, Then("saveLevel", Drop))
    BY <2>1 DEF Then
  <2> HIDE DEF r, m
  <2> QED
    BY <1>4, <2>2, <2>3
<1>6. ASSUME PatchHierarchyLevel(c) PROVE ConfigInv'
  <2>1. PICK i \in DOMAIN levels, n \in LevelNames :
          Ask(c, [op |-> "patchHierarchyLevel", id |-> i], [levels[i] EXCEPT !.name = n],
              (IF n = levels[i].name THEN <<>> ELSE <<"countLevel">>) \o <<"saveLevel">> \o Drop)
    BY <1>6 DEF PatchHierarchyLevel
  <2> DEFINE r == [op |-> "patchHierarchyLevel", id |-> i]
             m == [levels[i] EXCEPT !.name = n]
             p == (IF n = levels[i].name THEN <<>> ELSE <<"countLevel">>) \o <<"saveLevel">> \o Drop
  <2>2. m \in LevelRow /\ r.id = i
    BY <1>2 DEF LevelRow
  <2>3. <<>> \o <<"saveLevel">> = <<"saveLevel">> /\ <<"countLevel">> \o <<"saveLevel">> = <<"countLevel", "saveLevel">>
    <3> DEFINE y == <<"countLevel">> \o <<"saveLevel">>
               z == <<"countLevel", "saveLevel">>
    <3>0. <<"countLevel">> \in Seq(Statements) /\ <<"saveLevel">> \in Seq(Statements)
      BY <1>3
    <3>1. y \in Seq(Statements) /\ z \in Seq(Statements) /\ Len(y) = 2 /\ Len(z) = 2
      BY <1>3, <3>0
    <3>2. \A k \in 1..2 : y[k] = z[k]
      BY <3>0
    <3>3. <<>> \o <<"saveLevel">> = <<"saveLevel">>
      BY <3>0, ConcatEmptySeq
    <3> HIDE DEF y, z
    <3>4. y = z
      BY <3>1, <3>2, SeqEqual
    <3> QED
      BY <3>3, <3>4 DEF y, z
  <2>4. p \in {Then("saveLevel", Drop), Then("countLevel", Then("saveLevel", Drop))}
    <3>1. CASE n = levels[i].name
      BY <2>3, <3>1 DEF Then
    <3>2. CASE n # levels[i].name
      <4>1. p = <<"countLevel", "saveLevel">> \o Drop
        BY <2>3, <3>2
      <4> QED
        BY <1>1, <1>3, <4>1, TwoAhead
    <3> QED
      BY <3>1, <3>2
  <2>5. Ask(c, r, m, p)
    BY <2>1
  <2> HIDE DEF r, m, p
  <2> QED
    BY <1>4, <2>2, <2>4, <2>5
<1> QED
  BY <1>5, <1>6 DEF UpdateHierarchyLevel

\* What is asked of the tasks.
LEMMA TaskAsked ==
  ASSUME ConfigInv, NEW c \in Requests, CreateTask(c) \/ CreateTicket(c) \/ Patched(c)
  PROVE  ConfigInv'
<1>1. /\ \A i \in DOMAIN statuses : i \in Nat /\ statuses[i].name \in Names
      /\ \A l \in DOMAIN levels : l \in Nat
      /\ DOMAIN tasks \subseteq Tasks
  BY DEF ConfigInv, ConfigShape, Tables, StatusRow
<1>2. ASSUME NEW t \in Tasks, NEW i \in DOMAIN statuses, NEW l \in Nat,
             Ask(c, [op |-> "createTask", task |-> t],
                    [status |-> i, level |-> l, statusName |-> statuses[i].name], <<"insertTask">>)
      PROVE  ConfigInv'
  <2> DEFINE r == [op |-> "createTask", task |-> t]
             m == [status |-> i, level |-> l, statusName |-> statuses[i].name]
             p == <<"insertTask">>
  <2>1. m \in TaskRow /\ r.task = t
    BY <1>1 DEF TaskRow
  <2>2. Ask(c, r, m, p) /\ p # <<>> /\ Head(p) = "insertTask"
    BY <1>2
  <2> HIDE DEF r, m
  <2>3. PlanFits(p, r, m, issued, DOMAIN tasks)
    BY <2>1 DEF PlanFits, TaskPlan
  <2> HIDE DEF p
  <2> QED
    BY <2>2, <2>3, RequestAsks
<1>3. ASSUME NEW t \in DOMAIN tasks, NEW i \in DOMAIN statuses,
             Ask(c, [op |-> "patchStatus", task |-> t],
                    [status |-> i, statusName |-> statuses[i].name], <<"writeStatus">>)
      PROVE  ConfigInv'
  <2> DEFINE r == [op |-> "patchStatus", task |-> t]
             m == [status |-> i, statusName |-> statuses[i].name]
             p == <<"writeStatus">>
  <2>1. m.status \in Nat /\ m.statusName \in Names /\ r.task = t
    BY <1>1
  <2>2. Ask(c, r, m, p) /\ p # <<>> /\ Head(p) = "writeStatus"
    BY <1>3
  <2> HIDE DEF r, m
  <2>3. PlanFits(p, r, m, issued, DOMAIN tasks)
    BY <2>1 DEF PlanFits, StatusPlan
  <2> HIDE DEF p
  <2> QED
    BY <2>2, <2>3, RequestAsks
<1> QED
  BY <1>1, <1>2, <1>3 DEF CreateTask, CreateTicket, Patched

\* The readers, and what changes the rest.
LEMMA OthersAsked ==
  ASSUME ConfigInv, NEW c \in Requests, NEW r, NEW p,
         Ask(c, r, <<>>, p),
         \/ p \in {Drop, Fill, <<"writeUnseen">>}
         \/ p = <<"readStatuses">> \o Fill \/ p = <<"readLevels">> \o Fill
         \/ p = <<"writeRest">> \o Drop \/ p = <<"writeRest">> \o DropAndFill
  PROVE  ConfigInv'
<1>1. Drop \in Droppings /\ DropAndFill \in Droppings /\ DropAndFill \in Tails
  BY DEF Droppings, Tails
<1>2. p # <<>> /\ Head(p) \notin {"putBlob", "commitStatus", "rereadSpace", "saveSpace"}
  <2>1. CASE p \in {Drop, Fill, <<"writeUnseen">>}
    BY <2>1 DEF Drop, Fill
  <2>2. ASSUME NEW s \in {"readStatuses", "readLevels", "writeRest"}, NEW t \in Tails, p = Then(s, t)
        PROVE  p # <<>> /\ Head(p) \notin {"putBlob", "commitStatus", "rereadSpace", "saveSpace"}
    <3>1. s \in Statements
      BY NamedStatements
    <3> QED
      BY <2>2, <3>1, AheadOfTail
  <2> QED
    BY <1>1, <2>1, <2>2, NamedStatements DEF Then
<1>3. PlanFits(p, r, <<>>, issued, DOMAIN tasks)
  BY <1>1, NamedStatements DEF PlanFits, SimplePlan, Then
<1> QED
  BY <1>2, <1>3, RequestAsks

\* A ticket space is loaded with the rows as they are.
LEMMA SpaceAsked ==
  ASSUME ConfigInv, NEW c \in Requests, UpdateTicketSpace(c)
  PROVE  ConfigInv'
<1> DEFINE r == [op |-> "change"]
           m == [own |-> statuses]
           p == Then("rereadSpace", Then("saveSpace", DropAndFill))
<1>0. "rereadSpace" \in Statements /\ "saveSpace" \in Statements /\ DropAndFill \in Tails
      /\ DropAndFill \in Droppings
  BY NamedStatements DEF Tails, Droppings
<1>1. Ask(c, r, m, p)
  BY <1>0, TwoAhead DEF UpdateTicketSpace
<1>2. p # <<>> /\ Head(p) = "rereadSpace"
  BY <1>0, AheadOfTwo
<1>3. m.own = statuses
  OBVIOUS
<1>4. statuses \in [DOMAIN statuses -> StatusRow] /\ DOMAIN statuses \subseteq 1..issued.status
  BY DEF ConfigInv, ConfigShape, Tables
<1>5. PlanFits(p, r, m, issued, DOMAIN tasks)
  BY <1>0, <1>3, <1>4 DEF PlanFits, SpacePlan, Loaded
<1> HIDE DEF r, m, p
<1>6. KnowsOrder(p, r, m, statuses)
  BY <1>2, <1>3 DEF KnowsOrder, Ahead
<1>7. p # <<"putBlob">>
  <2>1. Head(<<"putBlob">>) = "putBlob"
    OBVIOUS
  <2> QED
    BY <1>2, <2>1
<1> QED
  BY <1>1, <1>5, <1>6, <1>7, RequestBegins

LEMMA RequestKeeps ==
  ASSUME ConfigInv, NEW c \in Requests, Request(c)
  PROVE  ConfigInv'
<1>1. ASSUME Look(c) PROVE ConfigInv'
  BY <1>1, OthersAsked DEF Look
<1>2. ASSUME Change(c, Drop) \/ Change(c, DropAndFill) PROVE ConfigInv'
  BY <1>2, OthersAsked DEF Change
<1>3. ASSUME Unseen(c) PROVE ConfigInv'
  BY <1>3, OthersAsked DEF Unseen
<1>4. ASSUME NEW r, Ask(c, r, <<>>, Fill) \/ Ask(c, r, <<>>, Drop) PROVE ConfigInv'
  BY <1>4, OthersAsked
<1>5. ASSUME NEW r, Ask(c, r, <<>>, <<"readStatuses">> \o Fill) \/ Ask(c, r, <<>>, <<"readLevels">> \o Fill)
      PROVE  ConfigInv'
  BY <1>5, OthersAsked
<1>6. ASSUME ProjectRequest(c) PROVE ConfigInv'
  <2>1. CASE \/ AddStatus(c) \/ AddExistingStatus(c) \/ UpdateSpaceStatus(c)
             \/ RemoveStatus(c) \/ UpdateStatusSequence(c)
    BY <2>1, AddedKeeps, StatusChanged
       DEF AddStatus, AddExistingStatus, UpdateSpaceStatus, RemoveStatus, UpdateStatusSequence
  <2>2. CASE \/ AddHierarchyLevel(c) \/ UpdateHierarchyLevel(c) \/ PatchHierarchyLevel(c)
             \/ SaveAllHierarchyLevels(c) \/ RemoveHierarchyLevel(c)
    BY <2>2, LevelAsked, LevelEdited
  <2>3. CASE CreateTask(c) \/ PatchStatus(c)
    BY <2>3, TaskAsked DEF PatchStatus
  <2>4. CASE \/ GetStatusConfig(c) \/ GetHierarchyLevelConfig(c)
             \/ GetSeverityConfig(c) \/ GetOwnersConfig(c) \/ GetResourcesConfig(c) \/ SeedAll(c)
             \/ ToggleIsActive(c)
    BY <1>1, <1>4, <1>5, <2>4
       DEF GetStatusConfig, GetHierarchyLevelConfig, GetSeverityConfig, GetOwnersConfig,
           GetResourcesConfig, SeedAll, ToggleIsActive
  <2>5. CASE \/ AddSeverity(c) \/ AddExistingSeverity(c) \/ UpdateSpaceSeverity(c) \/ RemoveSeverity(c)
             \/ AddResource(c) \/ RemoveResource(c) \/ AddOwner(c) \/ RemoveOwner(c)
             \/ UpdateTaskSpace(c) \/ UpdateResource(c)
    BY <1>2, <2>5
       DEF AddSeverity, AddExistingSeverity, UpdateSpaceSeverity, RemoveSeverity, AddResource,
           RemoveResource, AddOwner, RemoveOwner, UpdateTaskSpace, UpdateResource
  <2>6. CASE QuickEdit(c) \/ SyncUserData(c) \/ DeleteResource(c)
    BY <1>3, <2>6 DEF QuickEdit, SyncUserData, DeleteResource
  <2> QED
    BY <1>6, <2>1, <2>2, <2>3, <2>4, <2>5, <2>6 DEF ProjectRequest
<1>7. ASSUME TicketRequest(c) PROVE ConfigInv'
  <2>1. CASE \/ AddTicketStatus(c) \/ AddExistingTicketStatus(c) \/ UpdateTicketStatus(c)
             \/ RemoveTicketStatus(c) \/ UpdateTicketSequence(c)
    BY <2>1, AddedKeeps, StatusChanged
       DEF AddTicketStatus, AddExistingTicketStatus, UpdateTicketStatus, RemoveTicketStatus,
           UpdateTicketSequence
  <2>2. CASE CreateTicket(c) \/ PatchTicketStatus(c)
    BY <2>2, TaskAsked DEF PatchTicketStatus
  <2>3. CASE \/ GetTicketStatusConfig(c) \/ GetConfiguration(c) \/ GetTicketSeverities(c)
             \/ GetTypesConfig(c) \/ GetSlaConfig(c) \/ GetImpactConfig(c) \/ GetQueueConfig(c)
             \/ GetMembersConfig(c) \/ GetCreateConfig(c) \/ SeedAllTickets(c) \/ ToggleTicketSpace(c)
    BY <1>1, <1>4, <1>5, <2>3
       DEF GetTicketStatusConfig, GetConfiguration, GetTicketSeverities, GetTypesConfig, GetSlaConfig,
           GetImpactConfig, GetQueueConfig, GetMembersConfig, GetCreateConfig, SeedAllTickets,
           ToggleTicketSpace
  <2>4. CASE \/ AddTicketSeverity(c) \/ AddExistingTicketSeverity(c) \/ UpdateTicketSeverity(c)
             \/ RemoveTicketSeverity(c) \/ AddType(c) \/ AddExistingType(c) \/ UpdateSpaceType(c)
             \/ RemoveType(c) \/ AddSla(c) \/ RemoveSla(c)
             \/ AddImpact(c) \/ UpdateImpact(c) \/ RemoveImpact(c) \/ AddQueue(c) \/ RemoveQueue(c)
             \/ AddMember(c) \/ UpdateMember(c) \/ RemoveMember(c) \/ AddMembers(c)
    BY <1>2, <2>4
       DEF AddTicketSeverity, AddExistingTicketSeverity, UpdateTicketSeverity, RemoveTicketSeverity,
           AddType, AddExistingType, UpdateSpaceType, RemoveType, AddSla, RemoveSla, AddImpact,
           UpdateImpact, RemoveImpact, AddQueue, RemoveQueue, AddMember, UpdateMember, RemoveMember,
           AddMembers
  <2>5. CASE EditQueue(c) \/ DeleteQueue(c) \/ EditImpact(c) \/ DeleteImpact(c)
    BY <1>3, <2>5 DEF EditQueue, DeleteQueue, EditImpact, DeleteImpact
  <2> QED
    BY <1>7, <2>1, <2>2, <2>3, <2>4, <2>5, SpaceAsked DEF TicketRequest
<1> QED
  BY <1>6, <1>7 DEF Request

-----------------------------------------------------------------------------
(* Statements that leave the tables *)

LEMMA AtHead ==
  ASSUME ConfigInv, NEW c \in Requests, NEW s, At(c, s)
  PROVE  /\ plan[c] # <<>> /\ Head(plan[c]) = s
         /\ Expected(plan[c], req[c], mem[c], issued, DOMAIN tasks)
         /\ failed \in BOOLEAN /\ Later(issued, issued) /\ Tables
BY PlanKnown, LaterSame DEF At, ConfigInv, ConfigShape, Plans, Tables, RequestsOK

\* The blob is behind only when the next statement is one before, or at, the drop.
LEMMA BlobSure ==
  ASSUME ConfigInv, NEW c \in Requests, plan[c] # <<>>, Clean, ~elsewhere,
         Head(plan[c]) \notin {"dropBlob", "nameTasks"}
  PROVE  blob \in {Absent, Current}
<1>1. \A d \in Requests \ {c} : plan[d] = <<>>
  BY OthersIdle DEF ConfigInv, Clean
<1>2. \A p \in Droppings \cup {Then("nameTasks", Drop)} : p # <<>> /\ Head(p) \in {"dropBlob", "nameTasks"}
  <2>1. Then("nameTasks", Drop) # <<>> /\ Head(Then("nameTasks", Drop)) = "nameTasks"
    BY AheadOfTail, NamedStatements
  <2>2. \A p \in Droppings : p # <<>> /\ Head(p) = "dropBlob"
    BY TailsKnown, NamedStatements
  <2> QED
    BY <2>1, <2>2
<1>3. \A d \in Requests : ~WillDrop(d)
  BY <1>1, <1>2 DEF WillDrop
<1> QED
  BY <1>3 DEF ConfigInv, BlobOrDrop

LEMMA TablesStay ==
  ASSUME ConfigInv, UNCHANGED <<statuses, levels, issued, tasks, moved, kind, rest, elsewhere>>
  PROVE  /\ Tables' /\ Later(issued, issued') /\ Current' = Current
         /\ ~overlapped /\ ~moved' => Placed(statuses')
<1>1. Later(issued, issued')
  BY LaterSame DEF ConfigInv, ConfigShape
<1> QED
  BY <1>1 DEF ConfigInv, ConfigShape, Tables, Projects, Current, PlacedByBase

LEMMA TablesKept ==
  ASSUME ConfigInv, NEW c \in Requests, plan[c] # <<>>, NEW p, NEW m, Continue(c, p, m),
         UNCHANGED <<tableVars, blob>>, failed' \in BOOLEAN, failed => failed',
         PlanFits(p, req[c], m, issued, DOMAIN tasks),
         failed' \/ Head(plan[c]) \notin {"dropBlob", "nameTasks"},
         failed' \/ (p = <<"putBlob">> => m = Current),
         ~overlapped /\ ~moved => KnowsOrder(p, req[c], m, statuses)
  PROVE  ConfigInv'
<1>1. UNCHANGED <<statuses, levels, issued, tasks, moved, kind, rest, elsewhere, blob>>
  BY DEF tableVars, restVars
<1>2. /\ Tables' /\ Later(issued, issued') /\ Current' = Current
      /\ ~overlapped /\ ~moved' => Placed(statuses')
  BY <1>1, TablesStay
<1>3. Clean' /\ ~elsewhere' => blob' \in {Absent, Current'} /\ (p = <<"putBlob">> => m = Current')
  <2> SUFFICES ASSUME Clean', ~elsewhere'
               PROVE  blob' \in {Absent, Current'} /\ (p = <<"putBlob">> => m = Current')
    OBVIOUS
  <2>1. Clean /\ ~elsewhere /\ ~failed'
    BY <1>1 DEF Clean, Continue
  <2> QED
    BY <1>1, <1>2, <2>1, BlobSure
<1> QED
  BY <1>1, <1>2, <1>3, StatementKeeps

LEMMA StopKeeps ==
  ASSUME ConfigInv, NEW c \in Requests, plan[c] # <<>>,
         Head(plan[c]) \notin {"dropBlob", "nameTasks"}, Stop(c)
  PROVE  ConfigInv'
<1>1. /\ Continue(c, <<>>, <<>>) /\ failed' = failed /\ failed \in BOOLEAN
      /\ UNCHANGED <<tableVars, blob>>
  BY DEF Stop, End, ConfigInv, ConfigShape, Plans, RequestsOK
<1>2. <<>> # <<"putBlob">> /\ KnowsOrder(<<>>, req[c], <<>>, statuses)
  BY NothingRead
<1> QED
  BY <1>1, <1>2, TablesKept, NothingLeftFits

LEMMA FailuresKeep ==
  ASSUME ConfigInv, NEW c \in Requests, RequestFails(c) \/ RedisFails(c)
  PROVE  ConfigInv'
<1>1. \A p \in {<<>>, Fill} : \A r, m, f : KnowsOrder(p, r, m, f)
  BY TailsNeedNothing, NamedStatements
<1>2. ASSUME RequestFails(c) PROVE ConfigInv'
  <2>1. Continue(c, <<>>, <<>>) /\ failed' = TRUE /\ UNCHANGED <<tableVars, blob>> /\ plan[c] # <<>>
    BY <1>2 DEF RequestFails, Break, Idle
  <2> QED
    BY <1>1, <2>1, TablesKept, NothingLeftFits, NamedStatements
<1>3. ASSUME RedisFails(c) PROVE ConfigInv'
  <2>1. /\ At(c, "dropBlob") \/ At(c, "putBlob")
        /\ Continue(c, Tail(plan[c]), mem[c]) /\ failed' = TRUE /\ UNCHANGED <<tableVars, blob>>
    BY <1>3 DEF RedisFails, Shrug
  <2>2. plan[c] # <<>> /\ Tail(plan[c]) \in {<<>>, Fill}
    BY <2>1, AtHead DEF Expected
  <2> QED
    BY <1>1, <2>1, <2>2, TablesKept, NothingLeftFits, NamedStatements
<1> QED
  BY <1>2, <1>3

LEMMA ReadingKeeps ==
  ASSUME ConfigInv, NEW c \in Requests, ReadRows(c) \/ ReadNoRows(c) \/ BuildBlob(c)
  PROVE  ConfigInv'
<1>1. \A p \in {Fill, <<"putBlob">>} : \A r, m, f : KnowsOrder(p, r, m, f)
  BY TailsNeedNothing, NamedStatements
<1>2. ASSUME ReadRows(c) PROVE ConfigInv'
  <2>1. PICK s \in {"readStatuses", "readLevels"} : At(c, s)
    BY <1>2 DEF ReadRows
  <2>2. plan[c] # <<>> /\ Head(plan[c]) = s /\ Tail(plan[c]) = Fill /\ failed \in BOOLEAN
    BY <2>1, AtHead DEF Expected
  <2>3. Continue(c, Fill, mem[c]) /\ failed' = failed /\ UNCHANGED <<tableVars, blob>>
    BY <1>2, <2>2 DEF ReadRows, Done, Proceed, Rest
  <2>4. Fill # <<"putBlob">>
    BY TailsKnown, NamedStatements
  <2> QED
    BY <1>1, <2>2, <2>3, <2>4, TablesKept, NothingLeftFits, NamedStatements
<1>3. ASSUME ReadNoRows(c) PROVE ConfigInv'
  <2>1. plan[c] # <<>> /\ Head(plan[c]) = "readLevels"
    BY <1>3, AtHead DEF ReadNoRows
  <2> QED
    BY <1>3, <2>1, StopKeeps DEF ReadNoRows
<1>4. ASSUME BuildBlob(c) PROVE ConfigInv'
  <2>1. /\ plan[c] # <<>> /\ Head(plan[c]) = "buildBlob" /\ Tail(plan[c]) = <<"putBlob">>
        /\ failed \in BOOLEAN
    BY <1>4, AtHead DEF BuildBlob, Expected
  <2>2. Continue(c, <<"putBlob">>, Current) /\ failed' = failed /\ UNCHANGED <<tableVars, blob>>
    BY <1>4, <2>1 DEF BuildBlob, Proceed, Rest
  <2> QED
    BY <1>1, <2>1, <2>2, TablesKept, NothingLeftFits, NamedStatements
<1> QED
  BY <1>2, <1>3, <1>4

LEMMA CountKeeps ==
  ASSUME ConfigInv, NEW c \in Requests, CountLevel(c)
  PROVE  ConfigInv'
<1>1. /\ plan[c] # <<>> /\ Head(plan[c]) = "countLevel" /\ failed \in BOOLEAN
      /\ Expected(plan[c], req[c], mem[c], issued, DOMAIN tasks)
  BY AtHead DEF CountLevel
<1>2. CASE Stop(c)
  BY <1>1, <1>2, StopKeeps
<1>3. CASE Done(c) /\ UNCHANGED <<tableVars, blob>>
  <2>1. PICK t \in Droppings :
          \/ Tail(plan[c]) = Then("deleteLevel", t)
          \/ Tail(plan[c]) = Then("saveLevel", t) /\ req[c].id \in 0..issued.level /\ mem[c] \in LevelRow
    BY <1>1 DEF Expected
  <2>2. Continue(c, Tail(plan[c]), mem[c]) /\ failed' = failed
    BY <1>3 DEF Done, Proceed, Rest
  <2>3. PlanFits(Tail(plan[c]), req[c], mem[c], issued, DOMAIN tasks)
    BY <2>1 DEF PlanFits, SimplePlan, SaveLevelPlan
  <2>4. Tail(plan[c]) # <<>> /\ Head(Tail(plan[c])) \in {"deleteLevel", "saveLevel"}
    <3>1. \A s \in {"deleteLevel", "saveLevel"} : s \in Statements
      BY NamedStatements
    <3>2. \A s \in {"deleteLevel", "saveLevel"} : Then(s, t) # <<>> /\ Head(Then(s, t)) = s
      BY ZenonT(60), <3>1, AheadOfTail, NamedStatements
    <3> QED
      BY <2>1, <3>2
  <2>5. Head(<<"putBlob">>) = "putBlob"
    OBVIOUS
  <2>6. KnowsOrder(Tail(plan[c]), req[c], mem[c], statuses)
    BY <2>4, NothingRead
  <2> QED
    BY <1>1, <1>3, <2>2, <2>3, <2>4, <2>5, <2>6, TablesKept
<1> QED
  BY <1>2, <1>3 DEF CountLevel

\* What is read in one statement is the order of the rows, and the place in it.
LEMMA IndexRead == \A L, b : InsertIndex(L, b) = IndexIn(statuses, L, b)
BY DEF InsertIndex, IndexIn

LEMMA OrderSeq ==
  ASSUME Tables, NEW L \in Ordered(statuses)
  PROVE  /\ L \in Seq(Nat) /\ Len(L) = Cardinality(DOMAIN statuses)
         /\ \A i \in 1..Len(L) : L[i] \in DOMAIN statuses
         /\ \A i, j \in 1..Len(L) : i # j => L[i] # L[j]
         /\ \A i \in DOMAIN statuses : \E x \in 1..Len(L) : L[x] = i
         /\ \A x, y \in 1..Len(L) : x < y => statuses[L[x]].sequence <= statuses[L[y]].sequence
<1> DEFINE S == DOMAIN statuses
           k == Cardinality(S)
<1>1. S \subseteq 1..issued.status /\ issued.status \in Nat
  BY DEF Tables
<1>2. IsFiniteSet(S) /\ k \in Nat
  <2>1. IsFiniteSet(1..issued.status)
    BY <1>1, FS_Interval
  <2>2. IsFiniteSet(S)
    BY <1>1, <2>1, FS_Subset
  <2> QED
    BY <2>2, FS_CardinalityType
<1>3. L \in [1..k -> S] /\ \A i, j \in 1..k : i # j => L[i] # L[j]
  BY DEF Ordered, SetToSeqs
<1>4. IsFiniteSet(1..k) /\ Cardinality(1..k) = k
  BY <1>2, FS_Interval
<1>5. L \in Injection(1..k, S)
  BY <1>3 DEF Injection, IsInjective
<1>6. L \in Surjection(1..k, S)
  BY <1>2, <1>4, <1>5, FS_Injection
<1>7. L \in Seq(Nat) /\ Len(L) = k /\ DOMAIN L = 1..k
  BY <1>1, <1>2, <1>3
<1> QED
  BY <1>3, <1>6, <1>7 DEF Surjection, Ordered

SameBase(f, L, k, b)  == {y \in 1..k : f[L[y]].base = b}
LowerBase(f, L, k, b) == {y \in 1..k : f[L[y]].base < b}

LEMMA IndexInRange ==
  ASSUME NEW f, NEW L, NEW k \in Nat, DOMAIN L = 1..k, NEW b
  PROVE  /\ IndexIn(f, L, b) \in 0..k
         /\ SameBase(f, L, k, b) # {} =>
              /\ IndexIn(f, L, b) \in SameBase(f, L, k, b)
              /\ \A y \in SameBase(f, L, k, b) : y <= IndexIn(f, L, b)
         /\ SameBase(f, L, k, b) = {} /\ LowerBase(f, L, k, b) # {} =>
              /\ IndexIn(f, L, b) \in LowerBase(f, L, k, b)
              /\ \A y \in LowerBase(f, L, k, b) : y <= IndexIn(f, L, b)
         /\ SameBase(f, L, k, b) = {} /\ LowerBase(f, L, k, b) = {} => IndexIn(f, L, b) = 0
<1> DEFINE same == SameBase(f, L, k, b)
           lower == LowerBase(f, L, k, b)
           Ending(S) == CHOOSE x \in S : \A y \in S : y <= x
<1>1. ASSUME NEW S \in SUBSET (1..k), S # {}
      PROVE  Ending(S) \in S /\ \A y \in S : y <= Ending(S)
  <2>1. \E x \in S : \A y \in S : x >= y
    BY <1>1, BoundedMax
  <2>2. \E x \in S : \A y \in S : y <= x
    BY <1>1, <2>1
  <2> QED
    BY <2>2
<1>2. IndexIn(f, L, b) = IF same # {} THEN Ending(same) ELSE IF lower # {} THEN Ending(lower) ELSE 0
  BY DEF IndexIn, SameBase, LowerBase
<1>3. same \in SUBSET (1..k) /\ lower \in SUBSET (1..k)
  BY DEF SameBase, LowerBase
<1> HIDE DEF Ending
<1>4. /\ same # {} => IndexIn(f, L, b) \in same /\ \A y \in same : y <= IndexIn(f, L, b)
      /\ same = {} /\ lower # {} => IndexIn(f, L, b) \in lower /\ \A y \in lower : y <= IndexIn(f, L, b)
      /\ same = {} /\ lower = {} => IndexIn(f, L, b) = 0
  <2> HIDE DEF same, lower
  <2>1. CASE same # {}
    BY <1>1, <1>2, <1>3, <2>1
  <2>2. CASE same = {} /\ lower # {}
    BY <1>1, <1>2, <1>3, <2>2
  <2>3. CASE same = {} /\ lower = {}
    BY <1>2, <2>3
  <2> QED
    BY <2>1, <2>2, <2>3
<1>5. IndexIn(f, L, b) \in 0..k
  <2>1. same # {} \/ lower # {} => IndexIn(f, L, b) \in 1..k
    BY <1>3, <1>4
  <2> HIDE DEF same, lower
  <2>2. same = {} /\ lower = {} => IndexIn(f, L, b) = 0
    BY <1>4
  <2> QED
    BY <2>1, <2>2
<1> QED
  BY <1>5, <1>4

LEMMA ReadOrderKeeps ==
  ASSUME ConfigInv, NEW c \in Requests, ReadOrder(c)
  PROVE  ConfigInv'
<1>1. /\ plan[c] # <<>> /\ Head(plan[c]) = "readOrder" /\ failed \in BOOLEAN
      /\ req[c].row \in Status /\ Tables
      /\ \E t \in Droppings : Tail(plan[c]) = Then("commitStatus", t)
  BY AtHead DEF ReadOrder, Expected
<1>2. PICK L \in Ordered(statuses) : Proceed(c, [order |-> L, index |-> InsertIndex(L, req[c].row.base)])
  BY DEF ReadOrder
<1> DEFINE b == req[c].row.base
           m == [order |-> L, index |-> InsertIndex(L, b)]
<1>3. L \in Seq(Nat)
  BY <1>1, OrderSeq
<1>4. m.order = L /\ m.index = IndexIn(statuses, L, b)
  BY IndexRead
<1>5. m.index \in 0..Len(L)
  <2>1. DOMAIN L = 1..Len(L) /\ Len(L) \in Nat
    BY <1>3
  <2>2. IndexIn(statuses, L, b) \in 0..Len(L)
    BY <2>1, IndexInRange
  <2> QED
    BY <1>4, <2>2
<1>6. Continue(c, Tail(plan[c]), m) /\ failed' = failed /\ UNCHANGED <<tableVars, blob>>
  BY <1>2 DEF Proceed, Rest, ReadOrder
<1> HIDE DEF m
<1>7. PlanFits(Tail(plan[c]), req[c], m, issued, DOMAIN tasks)
  BY <1>1, <1>3, <1>4, <1>5 DEF PlanFits, CommitPlan
<1>8. /\ Tail(plan[c]) # <<"putBlob">>
      /\ KnowsOrder(Tail(plan[c]), req[c], m, statuses)
  <2>1. Head(<<"putBlob">>) = "putBlob" /\ \A q \in Droppings : Head(Then("commitStatus", q)) = "commitStatus"
    BY AheadOfTail, NamedStatements
  <2>2. Head(Tail(plan[c])) = "commitStatus"
    BY <1>1, <2>1
  <2> QED
    BY <1>4, <2>1, <2>2 DEF KnowsOrder, Ahead
<1> QED
  BY <1>1, <1>4, <1>6, <1>7, <1>8, TablesKept

-----------------------------------------------------------------------------
(* Statements that write the tables, and the blob *)

\* A write is followed by the drop of the blob.
LEMMA WriteKeeps ==
  ASSUME ConfigInv, NEW c \in Requests, plan[c] # <<>>, NEW m, Proceed(c, m),
         Tail(plan[c]) \in Droppings \/ (Tail(plan[c]) = Then("nameTasks", Drop) /\ m = NoName),
         elsewhere => elsewhere', Tables', Later(issued, issued'),
         DOMAIN tasks \subseteq DOMAIN tasks', ~overlapped /\ ~moved' => Placed(statuses')
  PROVE  ConfigInv'
<1> DEFINE p == Tail(plan[c])
<1>1. Continue(c, p, m) /\ failed' = failed /\ failed \in BOOLEAN
  BY DEF Proceed, Rest, ConfigInv, ConfigShape, Plans, RequestsOK
<1>2. PlanFits(p, req[c], m, issued', DOMAIN tasks')
  BY NamedStatements DEF PlanFits, NameTasksPlan
<1>0. p \in Droppings \cup {Then("nameTasks", Drop)}
  OBVIOUS
<1> HIDE DEF p
<1>3. p # <<"putBlob">>
  <2>1. Head(<<"putBlob">>) = "putBlob"
    OBVIOUS
  <2>2. p \in Droppings => Head(p) = "dropBlob"
    BY TailsKnown, NamedStatements
  <2>3. Head(Then("nameTasks", Drop)) = "nameTasks"
    BY AheadOfTail, NamedStatements
  <2> QED
    BY <1>0, <2>1, <2>2, <2>3
<1>4. KnowsOrder(p, req[c], m, statuses')
  BY <1>0, TailsNeedNothing, NamedStatements
<1> QED
  BY <1>0, <1>1, <1>2, <1>3, <1>4, StatementKeeps

\* The rows of a table stay rows, whatever is added to them or taken away.
LEMMA RowsWithout ==
  ASSUME NEW f, NEW R, f \in [DOMAIN f -> R], NEW i
  PROVE  /\ Without(f, i) \in [DOMAIN Without(f, i) -> R]
         /\ DOMAIN Without(f, i) = DOMAIN f \ {i}
         /\ \A j \in DOMAIN f \ {i} : Without(f, i)[j] = f[j]
BY DEF Without

LEMMA PlacedNow ==
  ASSUME ConfigInv, ~overlapped, ~moved
  PROVE  Placed(statuses)
BY DEF ConfigInv, PlacedByBase

LEMMA StatusWritesKeep ==
  ASSUME ConfigInv, NEW c \in Requests, WriteName(c) \/ DeleteStatus(c) \/ WriteOrder(c)
  PROVE  ConfigInv'
<1>0. /\ statuses \in [DOMAIN statuses -> StatusRow]
      /\ \A t \in DOMAIN tasks : tasks[t].status \in DOMAIN statuses
      /\ Tables /\ Later(issued, issued)
  BY LaterSame DEF ConfigInv, ConfigShape, Tables
<1>1. ASSUME WriteName(c) PROVE ConfigInv'
  <2>1. /\ plan[c] # <<>> /\ Tail(plan[c]) = Then("nameTasks", Drop) /\ req[c].name \in Names
    BY <1>1, AtHead DEF WriteName, Expected
  <2>2. UNCHANGED <<levels, issued, tasks, moved, kind, rest, elsewhere>> /\ Proceed(c, NoName)
    BY <1>1 DEF WriteName, Returned, restVars
  <2>3. \/ statuses' = statuses
        \/ req[c].id \in DOMAIN statuses
           /\ statuses' = [statuses EXCEPT ![req[c].id] = [statuses[req[c].id] EXCEPT !.name = req[c].name]]
    BY <1>1 DEF WriteName
  <2>4. /\ statuses' \in [DOMAIN statuses -> StatusRow] /\ DOMAIN statuses' = DOMAIN statuses
        /\ \A i \in DOMAIN statuses : statuses'[i].base = statuses[i].base
             /\ statuses'[i].sequence = statuses[i].sequence
    <3>1. CASE statuses' = statuses
      BY <1>0, <3>1
    <3>2. ASSUME req[c].id \in DOMAIN statuses,
                 statuses' = [statuses EXCEPT ![req[c].id] =
                                [statuses[req[c].id] EXCEPT !.name = req[c].name]]
          PROVE  /\ statuses' \in [DOMAIN statuses -> StatusRow] /\ DOMAIN statuses' = DOMAIN statuses
                 /\ \A i \in DOMAIN statuses : statuses'[i].base = statuses[i].base
                      /\ statuses'[i].sequence = statuses[i].sequence
      <4> DEFINE e == [statuses[req[c].id] EXCEPT !.name = req[c].name]
      <4>1. /\ e \in StatusRow /\ e.base = statuses[req[c].id].base
            /\ e.sequence = statuses[req[c].id].sequence
        BY <1>0, <2>1, <3>2 DEF StatusRow
      <4>2. statuses' = [statuses EXCEPT ![req[c].id] = e]
        BY <3>2
      <4> HIDE DEF e
      <4> QED
        BY <1>0, <4>1, <4>2
    <3> QED
      BY <2>3, <3>1, <3>2
  <2>5. Tables'
    BY <1>0, <2>2, <2>4 DEF Tables, Projects
  <2>6. ~overlapped /\ ~moved' => Placed(statuses')
    BY <2>2, <2>4, PlacedNow DEF Placed
  <2> QED
    BY <1>0, <2>1, <2>2, <2>5, <2>6, WriteKeeps
<1>2. ASSUME DeleteStatus(c) PROVE ConfigInv'
  <2>1. plan[c] # <<>> /\ Head(plan[c]) = "deleteStatus" /\ Tail(plan[c]) \in Droppings
    BY <1>2, AtHead DEF DeleteStatus, Expected
  <2>2. CASE Stop(c)
    BY <2>1, <2>2, StopKeeps
  <2>3. CASE /\ ~StatusUsed(req[c].id) /\ statuses' = Without(statuses, req[c].id)
             /\ Done(c) /\ UNCHANGED <<levels, issued, tasks, moved, blob, restVars>>
    <3>1. UNCHANGED <<levels, issued, tasks, moved, kind, rest, elsewhere>> /\ Proceed(c, mem[c])
      BY <2>3 DEF Done, restVars
    <3>2. /\ statuses' \in [DOMAIN statuses' -> StatusRow]
          /\ DOMAIN statuses' = DOMAIN statuses \ {req[c].id}
          /\ \A j \in DOMAIN statuses' : statuses'[j] = statuses[j]
      BY ZenonT(60), <1>0, <2>3, RowsWithout
    <3>3. \A t \in DOMAIN tasks : tasks[t].status \in DOMAIN statuses'
      BY <1>0, <2>3, <3>2 DEF StatusUsed
    <3>4. Tables'
      BY <1>0, <3>1, <3>2, <3>3 DEF Tables, Projects
    <3>5. ~overlapped /\ ~moved' => Placed(statuses')
      BY <3>1, <3>2, PlacedNow DEF Placed
    <3> QED
      BY <1>0, <2>1, <3>1, <3>4, <3>5, WriteKeeps
  <2> QED
    BY <1>2, <2>2, <2>3 DEF DeleteStatus
<1>3. ASSUME WriteOrder(c) PROVE ConfigInv'
  <2>1. /\ plan[c] # <<>> /\ Tail(plan[c]) \in Droppings
        /\ \A k \in DOMAIN req[c].places : req[c].places[k] \in Int
    BY <1>3, AtHead DEF WriteOrder, Expected
  <2>2. /\ UNCHANGED <<levels, issued, tasks, kind, rest, elsewhere>> /\ moved' = TRUE
        /\ Proceed(c, mem[c])
        /\ statuses' = [i \in DOMAIN statuses |->
                          IF i \in DOMAIN req[c].places
                            THEN [statuses[i] EXCEPT !.sequence = req[c].places[i]] ELSE statuses[i]]
    BY <1>3 DEF WriteOrder, Done, restVars
  <2>3. ASSUME NEW i \in DOMAIN statuses, i \in DOMAIN req[c].places
        PROVE  [statuses[i] EXCEPT !.sequence = req[c].places[i]] \in StatusRow
    BY <1>0, <2>1, <2>3 DEF StatusRow
  <2>4. statuses' \in [DOMAIN statuses -> StatusRow] /\ DOMAIN statuses' = DOMAIN statuses
    BY <1>0, <2>2, <2>3
  <2>5. Tables'
    BY <1>0, <2>2, <2>4 DEF Tables, Projects
  <2> QED
    BY <1>0, <2>1, <2>2, <2>5, WriteKeeps
<1> QED
  BY <1>1, <1>2, <1>3

LEMMA LevelWritesKeep ==
  ASSUME ConfigInv, NEW c \in Requests,
         InsertLevel(c) \/ SaveLevel(c) \/ DeleteLevel(c) \/ ReplaceLevels(c)
  PROVE  ConfigInv'
<1>0. /\ levels \in [DOMAIN levels -> LevelRow] /\ issued \in [status : Nat, level : Nat]
      /\ DOMAIN levels \subseteq 0..issued.level
      /\ \A t \in DOMAIN tasks : Projects => tasks[t].level \in DOMAIN levels
      /\ Tables /\ issued.level \in Nat
  BY DEF ConfigInv, ConfigShape, Tables
<1>a. ~overlapped /\ ~moved => Placed(statuses)
  BY PlacedNow
\* What remains to be shown once the new levels are known.
<1>b. ASSUME plan[c] # <<>>, Tail(plan[c]) \in Droppings, Done(c),
             UNCHANGED <<statuses, tasks, moved, restVars>>,
             levels' \in [DOMAIN levels' -> LevelRow], issued' \in [status : Nat, level : Nat],
             issued'.status = issued.status, issued.level <= issued'.level,
             DOMAIN levels' \subseteq 0..issued'.level,
             \A t \in DOMAIN tasks : Projects => tasks[t].level \in DOMAIN levels'
      PROVE  ConfigInv'
  <2>1. UNCHANGED <<statuses, tasks, moved, kind, rest, elsewhere>> /\ Proceed(c, mem[c])
    BY <1>b DEF Done, restVars
  <2>2. Tables'
    BY <1>0, <1>b, <2>1 DEF Tables, Projects
  <2>3. Later(issued, issued')
    BY <1>0, <1>b DEF Later
  <2> QED
    BY <1>a, <1>b, <2>1, <2>2, <2>3, WriteKeeps
<1>1. ASSUME InsertLevel(c) PROVE ConfigInv'
  <2>1. plan[c] # <<>> /\ Tail(plan[c]) \in Droppings /\ req[c].row \in LevelRow
    BY <1>1, AtHead DEF InsertLevel, Expected
  <2> DEFINE n == issued.level + 1
  <2>2. /\ levels' = With(levels, n, req[c].row) /\ issued' = [issued EXCEPT !.level = n]
        /\ Done(c) /\ UNCHANGED <<statuses, tasks, moved, restVars>>
    BY <1>1 DEF InsertLevel
  <2>3. issued' \in [status : Nat, level : Nat] /\ issued'.status = issued.status /\ issued'.level = n
    BY <1>0, <2>2
  <2>4. /\ levels' \in [DOMAIN levels' -> LevelRow] /\ DOMAIN levels' = DOMAIN levels \cup {n}
    <3> DEFINE g == With(levels, n, req[c].row)
    <3>1. g \in [DOMAIN g -> LevelRow] /\ DOMAIN g = DOMAIN levels \cup {n}
      BY <1>0, <2>1 DEF With
    <3>2. levels' = g
      BY <2>2
    <3> HIDE DEF g
    <3> QED
      BY <3>1, <3>2
  <2>5. DOMAIN levels' \subseteq 0..issued'.level /\ issued.level <= issued'.level
    BY <1>0, <2>3, <2>4
  <2> QED
    BY <1>0, <1>b, <2>1, <2>2, <2>3, <2>4, <2>5
<1>2. ASSUME SaveLevel(c) PROVE ConfigInv'
  <2>1. /\ plan[c] # <<>> /\ Tail(plan[c]) \in Droppings
        /\ mem[c] \in LevelRow /\ req[c].id \in 0..issued.level
    BY <1>2, AtHead DEF SaveLevel, Expected
  <2>2. /\ levels' = With(levels, req[c].id, mem[c]) /\ issued' = issued
        /\ Done(c) /\ UNCHANGED <<statuses, tasks, moved, restVars>>
    BY <1>2 DEF SaveLevel
  <2>3. levels' \in [DOMAIN levels' -> LevelRow] /\ DOMAIN levels' = DOMAIN levels \cup {req[c].id}
    <3> DEFINE g == With(levels, req[c].id, mem[c])
    <3>1. g \in [DOMAIN g -> LevelRow] /\ DOMAIN g = DOMAIN levels \cup {req[c].id}
      BY <1>0, <2>1 DEF With
    <3>2. levels' = g
      BY <2>2
    <3> HIDE DEF g
    <3> QED
      BY <3>1, <3>2
  <2> QED
    BY <1>0, <1>b, <2>1, <2>2, <2>3
<1>3. ASSUME DeleteLevel(c) PROVE ConfigInv'
  <2>1. plan[c] # <<>> /\ Head(plan[c]) = "deleteLevel" /\ Tail(plan[c]) \in Droppings
    BY <1>3, AtHead DEF DeleteLevel, Expected
  <2>2. CASE Stop(c)
    BY <2>1, <2>2, StopKeeps
  <2>3. CASE /\ ~LevelUsed(req[c].id) /\ levels' = Without(levels, req[c].id)
             /\ Done(c) /\ UNCHANGED <<statuses, issued, tasks, moved, blob, restVars>>
    <3>1. levels' \in [DOMAIN levels' -> LevelRow] /\ DOMAIN levels' = DOMAIN levels \ {req[c].id}
      BY <1>0, <2>3, RowsWithout
    <3>2. \A t \in DOMAIN tasks : Projects => tasks[t].level \in DOMAIN levels'
      BY <1>0, <2>3, <3>1 DEF LevelUsed
    <3> QED
      BY <1>0, <1>b, <2>1, <2>3, <3>1, <3>2
  <2> QED
    BY <1>3, <2>2, <2>3 DEF DeleteLevel
<1>4. ASSUME ReplaceLevels(c) PROVE ConfigInv'
  <2>1. /\ plan[c] # <<>> /\ Head(plan[c]) = "replaceLevels" /\ Tail(plan[c]) \in Droppings
        /\ req[c].names \in Seq(LevelNames)
    BY <1>4, AtHead DEF ReplaceLevels, Expected
  <2> DEFINE names == req[c].names
             n == issued.level
             new == [i \in {n + x : x \in DOMAIN names} |->
                       [name |-> names[i - n], sequence |-> i - n - 1]]
  <2>2. CASE Stop(c)
    BY <2>1, <2>2, StopKeeps
  <2>3. CASE /\ ~(\E i \in DOMAIN levels : LevelUsed(i)) /\ levels' = new
             /\ issued' = [issued EXCEPT !.level = @ + Len(names)]
             /\ Done(c) /\ UNCHANGED <<statuses, tasks, moved, blob, restVars>>
    <3>1. names \in Seq(LevelNames) /\ n \in Nat /\ DOMAIN names = 1..Len(names) /\ Len(names) \in Nat
      BY <1>0, <2>1
    <3>2. /\ issued' \in [status : Nat, level : Nat] /\ issued'.status = issued.status
          /\ issued'.level = n + Len(names)
      BY <1>0, <2>3, <3>1
    <3> HIDE DEF names, n
    <3>3. ASSUME NEW x \in DOMAIN names
          PROVE  [name |-> names[(n + x) - n], sequence |-> (n + x) - n - 1] \in LevelRow
      BY <3>1 DEF LevelRow
    <3>4. \A i \in {n + x : x \in DOMAIN names} : new[i] \in LevelRow
      BY <3>3
    <3>5. levels' \in [DOMAIN levels' -> LevelRow] /\ DOMAIN levels' = {n + x : x \in DOMAIN names}
      BY <2>3, <3>4
    <3>6. DOMAIN levels' \subseteq 0..issued'.level
      BY <3>1, <3>2, <3>5
    <3>7. \A t \in DOMAIN tasks : Projects => tasks[t].level \in DOMAIN levels'
      BY <1>0, <2>3 DEF LevelUsed
    <3>8. issued.level <= issued'.level
      BY <3>1, <3>2 DEF n
    <3> QED
      BY <1>b, <2>1, <2>3, <3>2, <3>5, <3>6, <3>7, <3>8
  <2> QED
    BY <1>4, <2>2, <2>3 DEF ReplaceLevels
<1> QED
  BY <1>1, <1>2, <1>3, <1>4

LEMMA TaskWritesKeep ==
  ASSUME ConfigInv, NEW c \in Requests, InsertTask(c) \/ WriteStatus(c) \/ NameTasks(c)
  PROVE  ConfigInv'
<1>0. /\ tasks \in [DOMAIN tasks -> TaskRow] /\ DOMAIN tasks \subseteq Tasks
      /\ \A t \in DOMAIN tasks :
           tasks[t].status \in DOMAIN statuses /\ (Projects => tasks[t].level \in DOMAIN levels)
      /\ Tables /\ Later(issued, issued) /\ failed \in BOOLEAN
  BY LaterSame DEF ConfigInv, ConfigShape, Tables, Plans, RequestsOK
<1>a. ~overlapped /\ ~moved => Placed(statuses)
  BY PlacedNow
\* What remains to be shown of a write of one task once the new rows are known.
<1>b. ASSUME plan[c] # <<>>, Head(plan[c]) \notin {"dropBlob", "nameTasks"}, Tail(plan[c]) = <<>>, Done(c),
             UNCHANGED <<statuses, levels, issued, moved, blob, restVars>>,
             tasks' \in [DOMAIN tasks' -> TaskRow], DOMAIN tasks \subseteq DOMAIN tasks',
             DOMAIN tasks' \subseteq Tasks,
             \A t \in DOMAIN tasks' :
               tasks'[t].status \in DOMAIN statuses /\ (Projects => tasks'[t].level \in DOMAIN levels)
      PROVE  ConfigInv'
  <2>1. /\ UNCHANGED <<statuses, levels, issued, moved, blob, kind, rest, elsewhere>>
        /\ Continue(c, <<>>, mem[c]) /\ failed' = failed
    BY <1>b DEF Done, Proceed, Rest, restVars
  <2>2. Tables' /\ Current' = Current
    BY <1>0, <1>b, <2>1 DEF Tables, Projects, Current
  <2>3. Clean' /\ ~elsewhere' => blob' \in {Absent, Current'}
    BY <1>b, <2>1, <2>2, BlobSure DEF Clean, Continue
  <2>4. <<>> # <<"putBlob">> /\ KnowsOrder(<<>>, req[c], mem[c], statuses')
    BY NothingRead
  <2> QED
    BY SMTT(60), <1>0, <1>a, <1>b, <2>1, <2>2, <2>3, <2>4, StatementKeeps, NothingLeftFits
<1>1. ASSUME InsertTask(c) PROVE ConfigInv'
  <2>1. /\ plan[c] # <<>> /\ Head(plan[c]) = "insertTask" /\ Tail(plan[c]) = <<>>
        /\ req[c].task \in Tasks /\ mem[c] \in TaskRow
    BY <1>1, AtHead DEF InsertTask, Expected
  <2>2. CASE Stop(c)
    BY <2>1, <2>2, StopKeeps
  <2>3. CASE /\ CanRefer(mem[c].status, mem[c].level) /\ req[c].task \notin DOMAIN tasks
             /\ tasks' = With(tasks, req[c].task, mem[c])
             /\ Done(c) /\ UNCHANGED <<statuses, levels, issued, moved, blob, restVars>>
    <3> DEFINE g == With(tasks, req[c].task, mem[c])
    <3>1. /\ g \in [DOMAIN g -> TaskRow] /\ DOMAIN g = DOMAIN tasks \cup {req[c].task}
          /\ g[req[c].task] = mem[c] /\ \A t \in DOMAIN tasks : g[t] = tasks[t]
      BY <1>0, <2>1, <2>3 DEF With
    <3>2. tasks' = g
      BY <2>3
    <3> HIDE DEF g
    <3>3. \A t \in DOMAIN g :
            g[t].status \in DOMAIN statuses /\ (Projects => g[t].level \in DOMAIN levels)
      BY <1>0, <2>3, <3>1 DEF CanRefer
    <3> QED
      BY <1>0, <1>b, <2>1, <2>3, <3>1, <3>2, <3>3
  <2> QED
    BY <1>1, <2>2, <2>3 DEF InsertTask
<1>2. ASSUME WriteStatus(c) PROVE ConfigInv'
  <2>1. /\ plan[c] # <<>> /\ Head(plan[c]) = "writeStatus" /\ Tail(plan[c]) = <<>>
        /\ req[c].task \in DOMAIN tasks /\ mem[c].status \in Nat /\ mem[c].statusName \in Names
    BY <1>2, AtHead DEF WriteStatus, Expected
  <2>2. CASE Stop(c)
    BY <2>1, <2>2, StopKeeps
  <2>3. CASE /\ CanRefer(mem[c].status, tasks[req[c].task].level)
             /\ tasks' = [tasks EXCEPT ![req[c].task].status = mem[c].status,
                                       ![req[c].task].statusName = mem[c].statusName]
             /\ Done(c) /\ UNCHANGED <<statuses, levels, issued, moved, blob, restVars>>
    <3> DEFINE t == req[c].task
               s == mem[c].status
               n == mem[c].statusName
               e == [tasks[t] EXCEPT !.status = s, !.statusName = n]
    <3>1. e \in TaskRow /\ e.status = s /\ e.level = tasks[t].level
      BY <1>0, <2>1 DEF TaskRow
    <3>2. tasks' = [tasks EXCEPT ![t] = e]
      BY <2>3
    <3>3. s \in DOMAIN statuses
      BY <2>3 DEF CanRefer
    <3> HIDE DEF e, s, n
    <3>4. tasks' \in [DOMAIN tasks -> TaskRow] /\ DOMAIN tasks' = DOMAIN tasks
      BY <1>0, <3>1, <3>2
    <3>5. \A x \in DOMAIN tasks :
            tasks'[x].status \in DOMAIN statuses /\ (Projects => tasks'[x].level \in DOMAIN levels)
      BY <1>0, <3>1, <3>2, <3>3
    <3> QED
      BY <1>0, <1>b, <2>1, <2>3, <3>4, <3>5
  <2> QED
    BY <1>2, <2>2, <2>3 DEF WriteStatus
<1>3. ASSUME NameTasks(c) PROVE ConfigInv'
  <2>1. plan[c] # <<>> /\ mem[c] = NoName /\ Tail(plan[c]) = Drop
    BY <1>3, AtHead DEF NameTasks, Expected
  <2>2. /\ UNCHANGED <<statuses, levels, issued, moved, kind, rest, elsewhere>> /\ Proceed(c, mem[c])
        /\ tasks' = [t \in DOMAIN tasks |->
                       IF tasks[t].status = req[c].id THEN [tasks[t] EXCEPT !.statusName = mem[c]]
                       ELSE tasks[t]]
    BY <1>3 DEF NameTasks, Done, restVars
  <2>3. ASSUME NEW t \in DOMAIN tasks
        PROVE  /\ tasks'[t] \in TaskRow /\ tasks'[t].status = tasks[t].status
               /\ tasks'[t].level = tasks[t].level
    <3> DEFINE e == [tasks[t] EXCEPT !.statusName = mem[c]]
    <3>1. e \in TaskRow /\ e.status = tasks[t].status /\ e.level = tasks[t].level
      BY <1>0, <2>1 DEF TaskRow
    <3>2. tasks'[t] = IF tasks[t].status = req[c].id THEN e ELSE tasks[t]
      BY <2>2
    <3> HIDE DEF e
    <3> QED
      BY <1>0, <3>1, <3>2
  <2>4. DOMAIN tasks' = DOMAIN tasks /\ tasks' \in [DOMAIN tasks -> TaskRow]
    BY <2>2, <2>3
  <2>5. Tables'
    BY <1>0, <2>2, <2>3, <2>4 DEF Tables, Projects
  <2>6. Tail(plan[c]) \in Droppings /\ Later(issued, issued')
    <3>1. Tail(plan[c]) \in Droppings
      BY <2>1 DEF Droppings
    <3>2. issued' = issued
      BY <2>2
    <3> QED
      BY <1>0, <3>1, <3>2
  <2>7. ~overlapped /\ ~moved' => Placed(statuses')
    BY <1>a, <2>2
  <2> QED
    BY <2>1, <2>2, <2>4, <2>5, <2>6, <2>7, WriteKeeps
<1> QED
  BY <1>1, <1>2, <1>3

LEMMA RestWritesKeep ==
  ASSUME ConfigInv, NEW c \in Requests, WriteRest(c) \/ WriteUnseen(c) \/ DropBlob(c) \/ PutBlob(c)
  PROVE  ConfigInv'
<1>0. Tables /\ Later(issued, issued) /\ failed \in BOOLEAN
  BY LaterSame DEF ConfigInv, ConfigShape, Tables, Plans, RequestsOK
<1>a. ~overlapped /\ ~moved => Placed(statuses)
  BY PlacedNow
<1>b. <<>> # <<"putBlob">> /\ KnowsOrder(<<>>, req[c], mem[c], statuses')
  BY NothingRead
<1>1. ASSUME WriteRest(c) PROVE ConfigInv'
  <2>1. plan[c] # <<>> /\ Tail(plan[c]) \in Droppings
    BY <1>1, AtHead DEF WriteRest, Expected
  <2>2. /\ rest' \in Rests /\ UNCHANGED <<statuses, levels, issued, tasks, moved, kind, elsewhere>>
        /\ Proceed(c, mem[c])
    BY <1>1 DEF WriteRest, Done
  <2>3. Tables'
    BY <1>0, <2>2 DEF Tables, Projects
  <2> QED
    BY <1>0, <1>a, <2>1, <2>2, <2>3, WriteKeeps
<1>2. ASSUME WriteUnseen(c) PROVE ConfigInv'
  <2>1. plan[c] # <<>> /\ Tail(plan[c]) = <<>>
    BY <1>2, AtHead DEF WriteUnseen, Expected
  <2>2. /\ rest' \in Rests /\ UNCHANGED <<statuses, levels, issued, tasks, moved, kind>>
        /\ elsewhere' = TRUE /\ Continue(c, <<>>, mem[c]) /\ failed' = failed
    BY <1>2, <2>1 DEF WriteUnseen, Done, Proceed, Rest
  <2>3. Tables'
    BY <1>0, <2>2 DEF Tables, Projects
  <2> QED
    BY <1>0, <1>a, <1>b, <2>1, <2>2, <2>3, StatementKeeps, NothingLeftFits
<1>3. ASSUME DropBlob(c) PROVE ConfigInv'
  <2>1. plan[c] # <<>> /\ Tail(plan[c]) \in {<<>>, Fill}
    BY <1>3, AtHead DEF DropBlob, Expected
  <2>2. /\ UNCHANGED <<statuses, levels, issued, tasks, moved, kind, rest, elsewhere>>
        /\ blob' = Absent /\ Continue(c, Tail(plan[c]), mem[c]) /\ failed' = failed
    BY <1>3 DEF DropBlob, Done, Proceed, Rest, tableVars, restVars
  <2>3. Tables' /\ Later(issued, issued')
    BY <2>2, TablesStay
  <2>4. Tail(plan[c]) # <<"putBlob">> /\ KnowsOrder(Tail(plan[c]), req[c], mem[c], statuses')
    <3>1. Fill # <<"putBlob">> /\ Fill \in Tails /\ <<>> \in Tails
      BY TailsKnown, NamedStatements
    <3> QED
      BY <1>b, <2>1, <3>1, TailsNeedNothing
  <2>5. PlanFits(Tail(plan[c]), req[c], mem[c], issued', DOMAIN tasks')
    BY <2>1, NothingLeftFits, NamedStatements
  <2> QED
    BY <1>0, <1>a, <2>1, <2>2, <2>3, <2>4, <2>5, StatementKeeps
<1>4. ASSUME PutBlob(c) PROVE ConfigInv'
  <2>1. plan[c] # <<>> /\ Head(plan[c]) = "putBlob" /\ Tail(plan[c]) = <<>>
    BY <1>4, AtHead DEF PutBlob, Expected
  <2>2. /\ UNCHANGED <<statuses, levels, issued, tasks, moved, kind, rest, elsewhere>>
        /\ blob' = mem[c] /\ Continue(c, <<>>, mem[c]) /\ failed' = failed
    BY <1>4, <2>1 DEF PutBlob, Done, Proceed, Rest, tableVars, restVars
  <2>3. Tables' /\ Later(issued, issued') /\ Current' = Current
    BY <2>2, TablesStay
  <2>4. plan[c] = <<"putBlob">>
    <3>1. plan[c] \in Seq(Statements)
      BY DEF ConfigInv, ConfigShape, Plans
    <3> DEFINE s == plan[c]
    <3>2. s \in Seq(Statements) /\ s # <<>> /\ Head(s) = "putBlob" /\ Tail(s) = <<>>
      BY <2>1, <3>1
    <3> HIDE DEF s
    <3>3. Len(Tail(s)) = Len(s) - 1 /\ Len(<<>>) = 0 /\ Len(s) \in Nat
      BY <3>2
    <3>4. Len(s) = 1
      BY SMTT(60), <3>2, <3>3
    <3>5. s = <<"putBlob">>
      BY <3>2, <3>4
    <3> QED
      BY <3>5 DEF s
  <2>5. Clean' /\ ~elsewhere' => mem[c] = Current
    BY <2>2, <2>4 DEF ConfigInv, BlobOrDrop, Clean, Continue
  <2> QED
    BY <1>0, <1>a, <1>b, <2>1, <2>2, <2>3, <2>5, StatementKeeps, NothingLeftFits
<1> QED
  BY <1>1, <1>2, <1>3, <1>4

\* The rows by their places: one put between those of its base and the later ones.
LEMMA InsertedOrder ==
  ASSUME NEW L \in Seq(Nat), NEW k \in 0..Len(L), NEW e \in Nat
  PROVE  /\ InsertAt(L, k + 1, e) \in Seq(Nat)
         /\ Len(InsertAt(L, k + 1, e)) = Len(L) + 1
         /\ \A x \in 1..Len(L) + 1 : InsertAt(L, k + 1, e)[x] =
              IF x <= k THEN L[x] ELSE IF x = k + 1 THEN e ELSE L[x - 1]
<1> DEFINE a == SubSeq(L, 1, k)
           b == SubSeq(L, k + 1, Len(L))
           n == Len(L)
<1>1. /\ a \in Seq(Nat) /\ Len(a) = k /\ \A x \in 1..k : a[x] = L[x]
  OBVIOUS
<1>2. /\ b \in Seq(Nat) /\ Len(b) = n - k /\ \A x \in 1..(n - k) : b[x] = L[k + x]
  OBVIOUS
<1>3. InsertAt(L, k + 1, e) = (a \o <<e>>) \o b
  <2>1. (k + 1) - 1 = k
    OBVIOUS
  <2> QED
    BY <2>1 DEF InsertAt
<1>4. n \in Nat /\ k \in Nat /\ k <= n
  OBVIOUS
<1> HIDE DEF a, b, n
<1> DEFINE d == a \o <<e>>
<1>5. d \in Seq(Nat) /\ Len(d) = k + 1 /\ \A x \in 1..(k + 1) : d[x] = IF x <= k THEN L[x] ELSE e
  BY <1>1, <1>4
<1> HIDE DEF d
<1> DEFINE f == d \o b
<1>6. /\ f \in Seq(Nat) /\ Len(f) = n + 1
      /\ \A x \in 1..(n + 1) : f[x] = IF x <= k + 1 THEN d[x] ELSE b[x - (k + 1)]
  <2>1. d \in Seq(Nat) /\ Len(d) = k + 1 /\ b \in Seq(Nat) /\ Len(b) = n - k /\ (k + 1) + (n - k) = n + 1
    BY <1>2, <1>4, <1>5
  <2>2. f \in Seq(Nat) /\ Len(f) = Len(d) + Len(b)
    BY <2>1, ConcatProperties
  <2>3. \A x \in 1..(Len(d) + Len(b)) : f[x] = IF x <= Len(d) THEN d[x] ELSE b[x - Len(d)]
    BY <2>1, ConcatProperties, SMTT(60)
  <2> HIDE DEF f
  <2>4. Len(d) + Len(b) = n + 1
    BY <1>4, <2>1
  <2> QED
    BY <2>1, <2>2, <2>3, <2>4
<1>7. ASSUME NEW x \in 1..(n + 1)
      PROVE  f[x] = IF x <= k THEN L[x] ELSE IF x = k + 1 THEN e ELSE L[x - 1]
  <2> HIDE DEF f
  <2>1. CASE x <= k + 1
    BY <1>4, <1>5, <1>6, <2>1
  <2>2. CASE x > k + 1
    <3>1. x - (k + 1) \in 1..(n - k) /\ k + (x - (k + 1)) = x - 1
      BY <1>4, <2>2
    <3>2. b[x - (k + 1)] = L[x - 1]
      BY <1>2, <3>1
    <3>3. ~(x <= k + 1) /\ ~(x <= k) /\ x # k + 1
      BY <1>4, <2>2
    <3> QED
      BY <1>6, <3>2, <3>3
  <2> QED
    BY <1>4, <2>1, <2>2
<1>8. InsertAt(L, k + 1, e) = f
  BY <1>3 DEF d
<1> HIDE DEF f
<1> QED
  BY <1>6, <1>7, <1>8 DEF n

\* The statuses with a new one, in an order that lists them by base, each with its
\* index: they are in their places.
LEMMA IndexedByBase ==
  ASSUME NEW f, NEW M \in Seq(Nat),
         \A x, y \in 1..Len(M) : x # y => M[x] # M[y],
         DOMAIN f \subseteq {M[x] : x \in 1..Len(M)},
         \A x \in 1..Len(M) : f[M[x]].base \in Nat,
         \A x, y \in 1..Len(M) : x < y => f[M[x]].base <= f[M[y]].base,
         NEW g, DOMAIN g = DOMAIN f, \A i \in DOMAIN f : g[i].base = f[i].base,
         \A x \in 1..Len(M) : M[x] \in DOMAIN f => g[M[x]].sequence = x - 1
  PROVE  Placed(g)
<1> SUFFICES ASSUME NEW i \in DOMAIN g, NEW j \in DOMAIN g, i # j
             PROVE  /\ g[i].sequence # g[j].sequence
                    /\ g[i].base < g[j].base => g[i].sequence < g[j].sequence
  BY DEF Placed
<1>1. PICK x \in 1..Len(M) : M[x] = i
  OBVIOUS
<1>2. PICK y \in 1..Len(M) : M[y] = j
  OBVIOUS
<1>3. x # y /\ g[i].sequence = x - 1 /\ g[j].sequence = y - 1
  BY <1>1, <1>2
<1>4. g[i].base = f[M[x]].base /\ g[j].base = f[M[y]].base
  BY <1>1, <1>2
<1>5. y < x => f[M[y]].base <= f[M[x]].base
  OBVIOUS
<1>6. f[M[x]].base \in Nat /\ f[M[y]].base \in Nat
  OBVIOUS
<1>7. x \in Nat /\ y \in Nat
  OBVIOUS
<1>8. g[i].sequence # g[j].sequence
  BY <1>3, <1>7
<1>9. ASSUME g[i].base < g[j].base PROVE g[i].sequence < g[j].sequence
  <2>1. ASSUME y < x PROVE FALSE
    <3>1. g[j].base <= g[i].base
      BY <1>4, <1>5, <2>1
    <3>2. g[i].base \in Nat /\ g[j].base \in Nat
      BY <1>4, <1>6
    <3> QED
      BY <1>9, <3>1, <3>2
  <2> QED
    BY <1>3, <1>7, <2>1
<1> QED
  BY <1>8, <1>9

LEMMA CommitStatusKeeps ==
  ASSUME ConfigInv, NEW c \in Requests, CommitStatus(c)
  PROVE  ConfigInv'
<1> DEFINE n == issued.status + 1
           r == req[c].row
           L == mem[c].order
           k == mem[c].index
           f == With(statuses, n, NewStatus(r))
           M == InsertAt(L, k + 1, n)
           g == Resequenced(f, M)
<1>1. /\ plan[c] # <<>> /\ Tail(plan[c]) \in Droppings
      /\ r \in Status /\ L \in Seq(Nat) /\ k \in 0..Len(L)
  BY AtHead DEF CommitStatus, Expected
<1>2. /\ statuses' = g /\ issued' = [issued EXCEPT !.status = n] /\ Proceed(c, mem[c])
      /\ UNCHANGED <<levels, tasks, moved, kind, rest, elsewhere>>
  BY DEF CommitStatus, Done, restVars
<1>3. /\ statuses \in [DOMAIN statuses -> StatusRow] /\ issued \in [status : Nat, level : Nat]
      /\ DOMAIN statuses \subseteq 1..issued.status
      /\ Tables /\ n \in Nat /\ issued.status \in Nat
  BY DEF ConfigInv, ConfigShape, Tables
<1>4. /\ f \in [DOMAIN statuses \cup {n} -> StatusRow] /\ f[n].base = r.base
      /\ \A i \in DOMAIN statuses : f[i] = statuses[i]
  <2>1. NewStatus(r) \in StatusRow /\ NewStatus(r).base = r.base
    BY <1>1 DEF NewStatus, StatusRow, Status
  <2> DEFINE e == NewStatus(r)
  <2> HIDE DEF e
  <2>2. n \notin DOMAIN statuses
    BY <1>3
  <2>3. /\ With(statuses, n, e) \in [DOMAIN statuses \cup {n} -> StatusRow] /\ With(statuses, n, e)[n] = e
        /\ \A i \in DOMAIN statuses : With(statuses, n, e)[i] = statuses[i]
    <3> HIDE DEF n
    <3> QED
      BY <1>3, <2>1, <2>2 DEF With, e
  <2> QED
    BY <2>1, <2>3 DEF e
<1>a. L \in Seq(Nat) /\ k \in 0..Len(L) /\ n \in Nat
  BY <1>1, <1>3
<1> HIDE DEF f, n, r, L, k
<1>5. /\ M \in Seq(Nat) /\ Len(M) = Len(L) + 1
      /\ \A x \in 1..Len(L) + 1 : M[x] = IF x <= k THEN L[x] ELSE IF x = k + 1 THEN n ELSE L[x - 1]
  BY ZenonT(60), <1>a, InsertedOrder
<1> HIDE DEF M
<1>6. ASSUME NEW i \in DOMAIN f, NEW q \in Int
      PROVE  [f[i] EXCEPT !.sequence = q] \in StatusRow
             /\ [f[i] EXCEPT !.sequence = q].base = f[i].base
             /\ [f[i] EXCEPT !.sequence = q].sequence = q
  BY <1>4 DEF StatusRow
<1> DEFINE at(i) == CHOOSE x \in DOMAIN M : M[x] = i
<1>7. ASSUME NEW i \in ToSet(M) PROVE at(i) \in 1..Len(M) /\ M[at(i)] = i
  <2>1. \E x \in DOMAIN M : M[x] = i
    BY DEF ToSet
  <2>2. at(i) \in DOMAIN M /\ M[at(i)] = i
    BY <2>1
  <2> QED
    BY <1>5, <2>2
<1>8. g = [i \in DOMAIN f |-> IF i \in ToSet(M) THEN [f[i] EXCEPT !.sequence = at(i) - 1] ELSE f[i]]
  BY DEF Resequenced
<1> HIDE DEF at, g
<1>9. /\ DOMAIN g = DOMAIN f /\ \A i \in DOMAIN f : g[i] \in StatusRow /\ g[i].base = f[i].base
      /\ \A i \in DOMAIN f : i \in ToSet(M) => g[i].sequence = at(i) - 1
  <2>1. \A i \in ToSet(M) : at(i) - 1 \in Int
    BY <1>5, <1>7
  <2>2. \A i \in DOMAIN f : f[i] \in StatusRow
    BY <1>4
  <2> QED
    BY <1>6, <1>8, <2>1, <2>2
<1>10. Tables'
  <2>1. statuses' \in [DOMAIN statuses' -> StatusRow] /\ DOMAIN statuses' = DOMAIN statuses \cup {n}
    <3>1. g \in [DOMAIN g -> StatusRow]
      BY <1>8, <1>9
    <3> QED
      BY <1>2, <1>4, <1>9, <3>1
  <2>2. /\ issued' \in [status : Nat, level : Nat] /\ issued'.status = n /\ issued'.level = issued.level
    BY <1>2, <1>3
  <2>3. DOMAIN statuses' \subseteq 1..issued'.status
    BY <1>3, <2>1, <2>2 DEF n
  <2> QED
    BY <1>2, <1>3, <2>1, <2>2, <2>3 DEF Tables, Projects
<1>11. Later(issued, issued')
  <2>1. issued.level \in Nat /\ issued'.level = issued.level /\ issued'.status = issued.status + 1
    BY <1>2, <1>3 DEF n
  <2> QED
    BY <1>3, <2>1 DEF Later
<1>12. ~overlapped /\ ~moved' => Placed(statuses')
  <2> SUFFICES ASSUME ~overlapped, ~moved PROVE Placed(g)
    BY <1>2
  <2>1. Placed(statuses)
    BY PlacedNow
  <2>2. plan[c] # <<>> /\ Head(plan[c]) = "commitStatus"
    BY AtHead DEF CommitStatus
  <2>3. L \in Ordered(statuses) /\ k = IndexIn(statuses, L, r.base)
    BY <2>2 DEF ConfigInv, PlacedByBase, HasRead, KnowsOrder, Ahead, L, k, r
  <2>4. /\ \A i \in 1..Len(L) : L[i] \in DOMAIN statuses
        /\ \A i, j \in 1..Len(L) : i # j => L[i] # L[j]
        /\ \A i \in DOMAIN statuses : \E x \in 1..Len(L) : L[x] = i
        /\ \A x, y \in 1..Len(L) : x < y => statuses[L[x]].sequence <= statuses[L[y]].sequence
    BY <1>3, <2>3, OrderSeq
  <2> DEFINE b == r.base
             B(x) == statuses[L[x]].base
             same == SameBase(statuses, L, Len(L), b)
             lower == LowerBase(statuses, L, Len(L), b)
  <2>5. \A i \in DOMAIN statuses : statuses[i].base \in 1..3 /\ statuses[i].sequence \in Int
    BY <1>3 DEF StatusRow, Bases
  <2>6. b \in 1..3 /\ \A x \in 1..Len(L) : B(x) \in 1..3
    BY <1>1, <2>4, <2>5 DEF Status, Bases
  <2>7. ASSUME NEW x \in 1..Len(L), NEW y \in 1..Len(L), x < y PROVE B(x) <= B(y)
    <3>1. L[x] # L[y] /\ L[x] \in DOMAIN statuses /\ L[y] \in DOMAIN statuses
      BY <2>4, <2>7
    <3>2. statuses[L[x]].sequence < statuses[L[y]].sequence
      BY SMTT(60), <2>1, <2>4, <2>5, <2>7, <3>1 DEF Placed
    <3>3. ~ (statuses[L[y]].base < statuses[L[x]].base)
      BY <2>1, <2>5, <3>1, <3>2 DEF Placed
    <3> QED
      BY <2>5, <3>1, <3>3
  <2>8. /\ k \in 0..Len(L)
        /\ same # {} => k \in same /\ \A y \in same : y <= k
        /\ same = {} /\ lower # {} => k \in lower /\ \A y \in lower : y <= k
        /\ same = {} /\ lower = {} => k = 0
    <3>1. DOMAIN L = 1..Len(L) /\ Len(L) \in Nat
      BY <1>1
    <3> QED
      BY <2>3, <3>1, IndexInRange
  <2>9. ASSUME NEW x \in 1..Len(L)
        PROVE  (x <= k => B(x) <= b) /\ (x > k => B(x) >= b)
    <3>a. k \in Nat /\ x \in Nat /\ B(x) \in 1..3 /\ b \in 1..3
      BY <1>1, <2>6
    <3>b. k \in 1..Len(L) => B(k) \in 1..3 /\ (x < k => B(x) <= B(k)) /\ (x > k => B(x) >= B(k))
      BY <2>6, <2>7
    <3>c. (B(x) = b => x \in same) /\ (B(x) < b => x \in lower)
      BY DEF SameBase, LowerBase
    <3>d. (k \in same => k \in 1..Len(L) /\ B(k) = b) /\ (k \in lower => k \in 1..Len(L) /\ B(k) < b)
      BY DEF SameBase, LowerBase
    <3> HIDE DEF same, lower, B, b
    <3>1. CASE same # {}
      BY <2>8, <3>a, <3>b, <3>d, <3>1
    <3>2. CASE same = {} /\ lower # {}
      BY <2>8, <3>a, <3>b, <3>c, <3>d, <3>2
    <3>3. CASE same = {} /\ lower = {}
      BY <2>8, <3>a, <3>c, <3>3
    <3> QED
      BY <3>1, <3>2, <3>3
  <2>10. ASSUME NEW x \in 1..Len(M)
         PROVE  /\ M[x] \in DOMAIN f
                /\ f[M[x]].base = IF x <= k THEN B(x) ELSE IF x = k + 1 THEN b ELSE B(x - 1)
    <3>1. x \in Nat /\ k \in Nat /\ Len(L) \in Nat /\ x <= Len(L) + 1 /\ k <= Len(L) /\ x >= 1
      BY <1>1, <1>5
    <3>2. M[x] = IF x <= k THEN L[x] ELSE IF x = k + 1 THEN n ELSE L[x - 1]
      BY <1>5, <3>1
    <3>3. CASE x <= k
      <4>1. x \in 1..Len(L) /\ L[x] \in DOMAIN statuses
        BY <2>4, <3>1, <3>3
      <4> QED
        BY <1>4, <3>2, <3>3, <4>1
    <3>4. CASE x = k + 1
      BY <1>4, <3>1, <3>2, <3>4
    <3>5. CASE x > k + 1
      <4>1. x - 1 \in 1..Len(L) /\ L[x - 1] \in DOMAIN statuses
        <5>1. x - 1 \in 1..Len(L)
          BY <3>1, <3>5
        <5> QED
          BY <2>4, <5>1
      <4>2. M[x] = L[x - 1]
        BY <3>1, <3>2, <3>5
      <4> QED
        BY <1>4, <3>1, <3>5, <4>1, <4>2
    <3> QED
      BY <3>1, <3>3, <3>4, <3>5
  <2>11. ASSUME NEW x \in 1..Len(M), NEW y \in 1..Len(M), x < y
         PROVE  f[M[x]].base <= f[M[y]].base
    <3>1. /\ x \in Nat /\ y \in Nat /\ k \in Nat /\ Len(L) \in Nat /\ b \in 1..3
          /\ x >= 1 /\ y <= Len(L) + 1 /\ k <= Len(L)
      BY <1>1, <1>5, <2>6
    <3>2. x <= k => x \in 1..Len(L) /\ B(x) \in 1..3 /\ B(x) <= b
      BY <2>6, <2>9, <3>1
    <3>3. y > k + 1 => y - 1 \in 1..Len(L) /\ y - 1 > k /\ B(y - 1) \in 1..3 /\ B(y - 1) >= b
      <4>1. y > k + 1 => y - 1 \in 1..Len(L) /\ y - 1 > k
        BY <3>1
      <4> QED
        BY <2>6, <2>9, <4>1
    <3>4. y <= k => y \in 1..Len(L) /\ x \in 1..Len(L) /\ B(x) <= B(y)
      <4>1. y <= k => y \in 1..Len(L) /\ x \in 1..Len(L)
        BY <2>11, <3>1
      <4> QED
        BY <2>7, <2>11, <4>1
    <3>5. x > k + 1 => x - 1 \in 1..Len(L) /\ B(x - 1) <= B(y - 1)
      <4>1. x > k + 1 => x - 1 \in 1..Len(L) /\ y - 1 \in 1..Len(L) /\ x - 1 < y - 1
        BY <2>11, <3>1
      <4> QED
        BY <2>7, <4>1
    <3>6. /\ f[M[x]].base = IF x <= k THEN B(x) ELSE IF x = k + 1 THEN b ELSE B(x - 1)
          /\ f[M[y]].base = IF y <= k THEN B(y) ELSE IF y = k + 1 THEN b ELSE B(y - 1)
      BY <2>10
    <3> HIDE DEF B, b
    <3> QED
      BY <2>11, <3>1, <3>2, <3>3, <3>4, <3>5, <3>6
  <2>12. ASSUME NEW x \in 1..Len(M), NEW y \in 1..Len(M), x < y PROVE M[x] # M[y]
    <3>1. /\ x \in Nat /\ y \in Nat /\ k \in Nat /\ Len(L) \in Nat
          /\ x >= 1 /\ y <= Len(L) + 1 /\ k <= Len(L)
      BY <1>1, <1>5
    <3>2. /\ M[x] = IF x <= k THEN L[x] ELSE IF x = k + 1 THEN n ELSE L[x - 1]
          /\ M[y] = IF y <= k THEN L[y] ELSE IF y = k + 1 THEN n ELSE L[y - 1]
      BY <1>5
    <3>3. \A z \in 1..Len(L) : L[z] # n
      BY <1>3, <2>4 DEF n
    <3>4. CASE y <= k
      <4>1. x \in 1..Len(L) /\ y \in 1..Len(L) /\ x # y /\ x <= k
        BY <2>12, <3>1, <3>4
      <4> QED
        BY <2>4, <3>2, <3>4, <4>1
    <3>5. CASE y = k + 1
      <4>1. x \in 1..Len(L) /\ x <= k
        BY <2>12, <3>1, <3>5
      <4> QED
        BY <3>1, <3>2, <3>3, <3>5, <4>1
    <3>6. CASE y > k + 1
      <4>1. y - 1 \in 1..Len(L) /\ M[y] = L[y - 1]
        BY <3>1, <3>2, <3>6
      <4>2. CASE x <= k
        <5>1. x \in 1..Len(L) /\ x # y - 1 /\ M[x] = L[x]
          BY <3>1, <3>2, <3>6, <4>2
        <5> QED
          BY <2>4, <4>1, <5>1
      <4>3. CASE x = k + 1
        <5>1. M[x] = n
          BY <3>1, <3>2, <4>3
        <5> QED
          BY <3>3, <4>1, <5>1
      <4>4. CASE x > k + 1
        <5>1. x - 1 \in 1..Len(L) /\ x - 1 # y - 1 /\ M[x] = L[x - 1]
          BY <2>12, <3>1, <3>2, <4>4
        <5> QED
          BY <2>4, <4>1, <5>1
      <4> QED
        BY <3>1, <4>2, <4>3, <4>4
    <3> QED
      BY <3>1, <3>4, <3>5, <3>6
  <2>13. DOMAIN f \subseteq {M[x] : x \in 1..Len(M)}
    <3> SUFFICES ASSUME NEW i \in DOMAIN f PROVE \E x \in 1..Len(M) : M[x] = i
      OBVIOUS
    <3>1. k \in Nat /\ Len(L) \in Nat /\ k <= Len(L) /\ Len(M) = Len(L) + 1
      BY <1>1, <1>5
    <3>2. CASE i = n
      <4>1. k + 1 \in 1..Len(M) /\ M[k + 1] = n
        BY <1>5, <3>1
      <4> QED
        BY <3>2, <4>1
    <3>3. CASE i # n
      <4>1. PICK x \in 1..Len(L) : L[x] = i
        BY <1>4, <2>4, <3>3
      <4>2. CASE x <= k
        <5>1. x \in 1..Len(M) /\ M[x] = L[x]
          BY <1>5, <3>1, <4>2
        <5> QED
          BY <4>1, <5>1
      <4>3. CASE x > k
        <5>1. x + 1 \in 1..Len(M) /\ ~(x + 1 <= k) /\ x + 1 # k + 1 /\ (x + 1) - 1 = x
          BY <3>1, <4>3
        <5>2. M[x + 1] = L[x]
          BY <1>5, <3>1, <5>1
        <5> QED
          BY <4>1, <5>1, <5>2
      <4> QED
        BY <3>1, <4>2, <4>3
    <3> QED
      BY <3>2, <3>3
  <2>14. \A x, y \in 1..Len(M) : x # y => M[x] # M[y]
    <3>1. \A x, y \in 1..Len(M) : x # y => x < y \/ y < x
      OBVIOUS
    <3> QED
      BY <2>12, <3>1
  <2>15. \A x \in 1..Len(M) : M[x] \in DOMAIN f => g[M[x]].sequence = x - 1
    <3> SUFFICES ASSUME NEW x \in 1..Len(M), M[x] \in DOMAIN f PROVE g[M[x]].sequence = x - 1
      OBVIOUS
    <3>1. M[x] \in ToSet(M)
      BY <1>5 DEF ToSet
    <3>2. at(M[x]) \in 1..Len(M) /\ M[at(M[x])] = M[x]
      BY <1>7, <3>1
    <3>3. at(M[x]) = x
      BY <2>14, <3>2
    <3> QED
      BY <1>9, <3>1, <3>3
  <2>16. \A x \in 1..Len(M) : f[M[x]].base \in Nat
    BY SMTT(60), <1>4, <2>10 DEF StatusRow, Bases
  <2> QED
    BY <1>5, <1>9, <2>11, <2>13, <2>14, <2>15, <2>16, IndexedByBase
<1> QED
  BY <1>1, <1>2, <1>10, <1>11, <1>12, WriteKeeps

\* A space is saved.  What comes between the load, the second read and the save is
\* what makes rows differ: alone, the request writes the rows as they are.
LEMMA RereadKeeps ==
  ASSUME ConfigInv, NEW c \in Requests, RereadSpace(c)
  PROVE  ConfigInv'
<1>1. /\ plan[c] # <<>> /\ Head(plan[c]) = "rereadSpace" /\ failed \in BOOLEAN
      /\ Loaded(mem[c], issued) /\ \E t \in Droppings : Tail(plan[c]) = Then("saveSpace", t)
  BY AtHead DEF RereadSpace, Expected
<1> DEFINE m == [own |-> mem[c].own, db |-> statuses]
           p == Tail(plan[c])
<1>2. Continue(c, p, m) /\ failed' = failed /\ UNCHANGED <<tableVars, blob>>
  BY DEF RereadSpace, Proceed, Rest
<1>3. m.own = mem[c].own /\ m.db = statuses
  OBVIOUS
<1> HIDE DEF m
<1>4. PlanFits(p, req[c], m, issued, DOMAIN tasks)
  BY <1>1, <1>3 DEF PlanFits, SpacePlan, Loaded
<1>5. Ahead(p, "saveSpace") /\ p # <<"putBlob">>
  <2>1. Head(<<"putBlob">>) = "putBlob"
    OBVIOUS
  <2>2. \A t \in Droppings : Then("saveSpace", t) # <<>> /\ Head(Then("saveSpace", t)) = "saveSpace"
    BY AheadOfTail, NamedStatements
  <2> QED
    BY <1>1, <2>1, <2>2 DEF Ahead
<1> HIDE DEF p
<1>6. ~overlapped /\ ~moved => KnowsOrder(p, req[c], m, statuses)
  <2> SUFFICES ASSUME ~overlapped, ~moved PROVE KnowsOrder(p, req[c], m, statuses)
    OBVIOUS
  <2>1. mem[c].own = statuses
    BY <1>1 DEF ConfigInv, PlacedByBase, HasRead, KnowsOrder, Ahead
  <2> QED
    BY <1>3, <1>5, <2>1 DEF KnowsOrder, Ahead
<1> QED
  BY <1>1, <1>2, <1>4, <1>5, <1>6, TablesKept

LEMMA RewrittenRow ==
  ASSUME NEW x \in StatusRow, NEW y, NEW z \in StatusRow
  PROVE  Rewritten(x, y, z) \in StatusRow /\ Rewritten(x, x, z) = z
<1>1. Rewritten(x, y, z) \in StatusRow
  BY DEF Rewritten, StatusRow
<1>2. Rewritten(x, x, z) = z
  BY DEF Rewritten, StatusRow
<1> QED
  BY <1>1, <1>2

LEMMA SaveSpaceKeeps ==
  ASSUME ConfigInv, NEW c \in Requests, SaveSpace(c)
  PROVE  ConfigInv'
<1> DEFINE own == mem[c].own
           db == mem[c].db
<1>1. /\ plan[c] # <<>> /\ Head(plan[c]) = "saveSpace" /\ Tail(plan[c]) \in Droppings
      /\ Loaded(mem[c], issued) /\ Tables /\ Later(issued, issued)
  BY AtHead DEF SaveSpace, Expected
<1>2. CASE Stop(c)
  BY <1>1, <1>2, StopKeeps
<1>3. CASE /\ statuses' = SavedRows(own, db) /\ rest' \in Rests /\ Done(c)
           /\ UNCHANGED <<levels, issued, tasks, moved, blob, kind, elsewhere>>
  <2>1. /\ own \in [DOMAIN own -> StatusRow] /\ DOMAIN own \subseteq 1..issued.status
        /\ statuses \in [DOMAIN statuses -> StatusRow] /\ DOMAIN statuses \subseteq 1..issued.status
    BY <1>1 DEF Loaded, Tables
  <2>2. Proceed(c, mem[c]) /\ statuses' = SavedRows(own, db)
    BY <1>3 DEF Done
  <2> HIDE DEF own, db
  <2> DEFINE g == SavedRows(own, db)
  <2>3. DOMAIN g = DOMAIN statuses \cup (DOMAIN own \ DOMAIN db)
    BY DEF SavedRows
  <2>4. ASSUME NEW i \in DOMAIN g PROVE g[i] \in StatusRow
    <3>1. g[i] = IF i \notin DOMAIN own THEN statuses[i]
                 ELSE IF i \notin DOMAIN db THEN own[i]
                 ELSE Rewritten(own[i], db[i], statuses[i])
      BY <2>3 DEF SavedRows
    <3>2. i \in DOMAIN own => own[i] \in StatusRow
      BY <2>1
    <3>3. i \in DOMAIN statuses => statuses[i] \in StatusRow
      BY <2>1
    <3>4. i \in DOMAIN own /\ i \in DOMAIN db => Rewritten(own[i], db[i], statuses[i]) \in StatusRow
      BY <2>3, <3>2, <3>3, RewrittenRow
    <3> HIDE DEF g
    <3> QED
      BY <2>3, <3>1, <3>2, <3>3, <3>4
  <2>5. g \in [DOMAIN g -> StatusRow]
    <3>1. g = [i \in DOMAIN g |-> g[i]]
      BY <2>3 DEF SavedRows
    <3> HIDE DEF g
    <3> QED
      BY <2>4, <3>1
  <2> HIDE DEF g
  <2>6. statuses' = g
    BY <2>2 DEF g
  <2>7. Tables'
    BY <1>1, <1>3, <2>1, <2>3, <2>5, <2>6 DEF Tables, Projects
  <2>8. ~overlapped /\ ~moved' => Placed(statuses')
    <3> SUFFICES ASSUME ~overlapped, ~moved PROVE Placed(g)
      BY <1>3, <2>6
    <3>1. own = statuses /\ db = statuses
      BY <1>1 DEF ConfigInv, PlacedByBase, HasRead, KnowsOrder, Ahead, own, db
    <3>2. \A i \in DOMAIN statuses : g[i] = Rewritten(statuses[i], statuses[i], statuses[i])
      BY <3>1 DEF g, SavedRows
    <3>3. \A i \in DOMAIN statuses : g[i] = statuses[i]
      BY <2>1, <3>2, RewrittenRow
    <3>4. DOMAIN g = DOMAIN statuses
      BY <2>3, <3>1
    <3> QED
      BY <3>3, <3>4, PlacedNow DEF Placed
  <2> QED
    BY <1>1, <1>3, <2>2, <2>7, <2>8, WriteKeeps
<1> QED
  BY <1>2, <1>3 DEF SaveSpace

-----------------------------------------------------------------------------
(* The start *)

\* The seeded statuses are the primary ones, each at the place of its base.
LEMMA SeededStatuses ==
  /\ DefaultStatuses \in [1..3 -> StatusRow]
  /\ \A i \in 1..3 : DefaultStatuses[i].base = i /\ DefaultStatuses[i].sequence = i - 1
<1>1. {m.base : m \in Defaults} = 1..3
  BY SpaceAssumption, PrimaryAssumption DEF Defaults, Bases, Status
<1>2. ASSUME NEW i \in 1..3
      PROVE  LET s == Row(CHOOSE m \in Defaults : m.base = i, i - 1)
             IN  s \in StatusRow /\ s.base = i /\ s.sequence = i - 1
  <2> DEFINE m == CHOOSE x \in Defaults : x.base = i
  <2>1. \E x \in Defaults : x.base = i
    BY <1>1
  <2>2. m \in Defaults /\ m.base = i
    BY <2>1
  <2>3. m.name \in Names /\ m.base \in Bases /\ m.isPrimaryBase \in BOOLEAN
    BY <2>2, SpaceAssumption DEF Defaults, Status
  <2> HIDE DEF m
  <2>4. Row(m, i - 1) \in StatusRow /\ Row(m, i - 1).base = i /\ Row(m, i - 1).sequence = i - 1
    BY <2>2, <2>3 DEF Row, StatusRow, Bases
  <2> QED
    BY <2>4 DEF m
<1>3. DefaultStatuses = [i \in 1..3 |-> Row(CHOOSE m \in Defaults : m.base = i, i - 1)]
  BY <1>1 DEF DefaultStatuses
<1> QED
  BY <1>2, <1>3

Started ==
  /\ statuses \in [DOMAIN statuses -> StatusRow] /\ issued \in [status : Nat, level : Nat]
  /\ issued.level = DefaultLevels + 1 /\ moved \in BOOLEAN
  /\ DOMAIN statuses \subseteq 1..issued.status /\ 1 \in DOMAIN statuses /\ (~moved => Placed(statuses))

LEMMA StartStatuses == ConfigInit => Started
<1>0. DefaultLevels + 1 \in Nat
  BY SpaceAssumption
<1>1. CASE statuses = DefaultStatuses /\ issued = [status |-> 3, level |-> DefaultLevels + 1] /\ moved = FALSE
  <2>1. statuses \in [1..3 -> StatusRow] /\ \A i \in 1..3 : statuses[i].base = i /\ statuses[i].sequence = i - 1
    BY <1>1, SeededStatuses
  <2>2. Placed(statuses)
    BY <2>1 DEF Placed
  <2>3. /\ DOMAIN statuses = 1..3 /\ statuses \in [DOMAIN statuses -> StatusRow]
        /\ issued.status = 3 /\ issued.level = DefaultLevels + 1
        /\ issued \in [status : Nat, level : Nat]
    BY <1>0, <1>1, <2>1
  <2>4. DOMAIN statuses \subseteq 1..issued.status /\ 1 \in DOMAIN statuses
    BY <2>3
  <2>5. moved \in BOOLEAN
    BY <1>1
  <2> QED
    BY <2>2, <2>3, <2>4, <2>5 DEF Started
<1>2. ASSUME NEW m \in Masters \ Defaults, m.base = 2,
             statuses = With(With(DefaultStatuses, 4, Row(m, 2)),
                             3, [DefaultStatuses[3] EXCEPT !.sequence = 3]),
             issued = [status |-> 4, level |-> DefaultLevels + 1], moved = FALSE
      PROVE  Started
  <2> DEFINE d == DefaultStatuses
             e == Row(m, 2)
             l == [d[3] EXCEPT !.sequence = 3]
  <2>1. e \in StatusRow /\ e.base = 2 /\ e.sequence = 2
    BY <1>2, SpaceAssumption DEF Row, StatusRow, Status, Bases
  <2>2. d \in [1..3 -> StatusRow] /\ \A i \in 1..3 : d[i].base = i /\ d[i].sequence = i - 1
    BY SeededStatuses
  <2> HIDE DEF d
  <2>3. l \in StatusRow /\ l.base = 3 /\ l.sequence = 3
    BY <2>2 DEF StatusRow
  <2>4. statuses = With(With(d, 4, e), 3, l)
    BY <1>2 DEF d
  <2> HIDE DEF e, l
  <2>5. /\ statuses \in [1..4 -> StatusRow] /\ statuses[1] = d[1] /\ statuses[2] = d[2]
        /\ statuses[3] = l /\ statuses[4] = e
    BY <2>1, <2>2, <2>3, <2>4 DEF With
  <2>6. /\ statuses[1].base = 1 /\ statuses[1].sequence = 0
        /\ statuses[2].base = 2 /\ statuses[2].sequence = 1
        /\ statuses[3].base = 3 /\ statuses[3].sequence = 3
        /\ statuses[4].base = 2 /\ statuses[4].sequence = 2
    BY <2>1, <2>2, <2>3, <2>5
  <2>7. Placed(statuses)
    <3> SUFFICES ASSUME NEW i \in 1..4, NEW j \in 1..4, i # j
                 PROVE  /\ statuses[i].sequence # statuses[j].sequence
                        /\ statuses[i].base < statuses[j].base => statuses[i].sequence < statuses[j].sequence
      BY <2>5 DEF Placed
    <3>1. i \in {1, 2, 3, 4} /\ j \in {1, 2, 3, 4}
      OBVIOUS
    <3> QED
      BY <2>6, <3>1
  <2>8. issued.status = 4 /\ issued.level = DefaultLevels + 1 /\ issued \in [status : Nat, level : Nat]
    BY <1>0, <1>2
  <2>9. DOMAIN statuses = 1..4 /\ statuses \in [DOMAIN statuses -> StatusRow] /\ 1 \in 1..4
    BY <2>5
  <2> HIDE DEF d
  <2> QED
    BY <1>2, <2>7, <2>8, <2>9 DEF Started
<1>3. ASSUME NEW L \in NamedLists, statuses = Created(L), moved = TRUE,
             issued = [status |-> Len(L) + 3, level |-> DefaultLevels + 1]
      PROVE  Started
  <2>1. L \in Seq(Masters) /\ Len(L) \in Nat
    BY SpaceAssumption
  <2>2. \A i \in 1..Len(L) : L[i] \in Masters /\ L[i] \in Status
    BY <2>1, SpaceAssumption
  <2>3. \A i \in 1..3 : DefaultStatuses[i] \in StatusRow
    BY SeededStatuses
  <2>4. \A m \in Status, q \in Int : Row(m, q) \in StatusRow
    BY DEF Row, Status, StatusRow
  <2>5. ASSUME NEW i \in 1..(Len(L) + 3)
        PROVE  (IF i <= Len(L) THEN Row(L[i], i - 1) ELSE DefaultStatuses[i - Len(L)]) \in StatusRow
    <3>1. CASE i <= Len(L)
      <4>1. i \in 1..Len(L) /\ i - 1 \in Int
        BY <2>1, <3>1
      <4>2. Row(L[i], i - 1) \in StatusRow
        BY <2>2, <2>4, <4>1
      <4> QED
        BY <3>1, <4>2
    <3>2. CASE ~(i <= Len(L))
      <4>1. i - Len(L) \in 1..3
        BY <2>1, <3>2
      <4> QED
        BY <2>3, <3>2, <4>1
    <3> QED
      BY <3>1, <3>2
  <2>6. statuses \in [1..(Len(L) + 3) -> StatusRow]
    BY <1>3, <2>5 DEF Created
  <2>7. 1 \in 1..(Len(L) + 3) /\ Len(L) + 3 \in Nat
    BY <2>1
  <2>8. issued.status = Len(L) + 3 /\ issued.level = DefaultLevels + 1 /\ issued \in [status : Nat, level : Nat]
    BY <1>0, <1>3, <2>7
  <2> QED
    BY <1>3, <2>6, <2>7, <2>8 DEF Started
<1> QED
  BY <1>1, <1>2, <1>3 DEF ConfigInit

LEMMA ConfigStarts == ConfigInit => ConfigInv
<1> SUFFICES ASSUME ConfigInit PROVE ConfigInv
  OBVIOUS
<1>1. /\ statuses \in [DOMAIN statuses -> StatusRow] /\ issued \in [status : Nat, level : Nat]
      /\ issued.level = DefaultLevels + 1 /\ moved \in BOOLEAN
      /\ DOMAIN statuses \subseteq 1..issued.status /\ 1 \in DOMAIN statuses /\ (~moved => Placed(statuses))
  BY StartStatuses DEF Started
<1>2. /\ levels \in [DOMAIN levels -> LevelRow] /\ DOMAIN levels \subseteq 0..issued.level
      /\ Projects => 0 \in DOMAIN levels
  <2>1. DefaultLevels + 1 \in Nat /\ (CHOOSE n \in LevelNames : TRUE) \in LevelNames
    BY SpaceAssumption
  <2>2. CASE kind = "ticket"
    <3>1. levels = <<>> /\ ~Projects
      BY <2>2 DEF ConfigInit, Projects
    <3>2. DOMAIN levels = {} /\ levels \in [{} -> LevelRow]
      BY <3>1
    <3> QED
      BY <3>1, <3>2
  <2>3. CASE kind # "ticket"
    <3>1. levels = [i \in 0..(DefaultLevels + 1) |->
                      [name |-> CHOOSE n \in LevelNames : TRUE, sequence |-> i]]
      BY <2>3 DEF ConfigInit
    <3> DEFINE x == CHOOSE n \in LevelNames : TRUE
    <3>2. levels = [i \in 0..(DefaultLevels + 1) |-> [name |-> x, sequence |-> i]] /\ x \in LevelNames
      BY <2>1, <3>1
    <3> HIDE DEF x
    <3>3. levels \in [0..(DefaultLevels + 1) -> LevelRow]
      BY <2>1, <3>2 DEF LevelRow
    <3> QED
      BY <1>1, <2>1, <3>3
  <2> QED
    BY <2>2, <2>3
<1>3. /\ tasks \in [DOMAIN tasks -> TaskRow] /\ DOMAIN tasks \subseteq Tasks
      /\ \A t \in DOMAIN tasks : tasks[t].status = 1 /\ tasks[t].level = 0
  <2>1. statuses[1].name \in Names
    BY <1>1 DEF StatusRow
  <2>2. CASE tasks = <<>>
    BY <2>2
  <2>3. ASSUME NEW t \in Tasks,
               tasks = [x \in {t} |-> [status |-> 1, level |-> 0, statusName |-> statuses[1].name]]
        PROVE  /\ tasks \in [DOMAIN tasks -> TaskRow] /\ DOMAIN tasks \subseteq Tasks
               /\ \A u \in DOMAIN tasks : tasks[u].status = 1 /\ tasks[u].level = 0
    BY <2>1, <2>3 DEF TaskRow
  <2> QED
    BY <2>2, <2>3 DEF ConfigInit
<1>4. rest \in Rests /\ elsewhere = FALSE /\ blob = Current
  BY SpaceAssumption DEF ConfigInit
<1>5. Tables
  BY <1>1, <1>2, <1>3, <1>4 DEF Tables
<1>6. /\ plan = [c \in Requests |-> <<>>] /\ req = [c \in Requests |-> NoRequest]
      /\ mem = [c \in Requests |-> <<>>] /\ served = 0 /\ overlapped = FALSE /\ failed = FALSE
  BY DEF ConfigInit, InitRequests
<1>7. Plans
  <2>1. RequestsOK
    <3>1. DOMAIN plan = Requests /\ DOMAIN req = Requests /\ DOMAIN mem = Requests
      BY <1>6
    <3>2. served \in 0..MaxServed /\ overlapped \in BOOLEAN /\ failed \in BOOLEAN
      <4>1. served \in 0..MaxServed
        BY <1>6, RequestAssumption
      <4> QED
        BY <1>6, <4>1, Zenon
    <3> QED
      BY <3>1, <3>2 DEF RequestsOK
  <2> QED
    BY <1>6, <2>1, NothingLeftFits DEF Plans
<1>8. OneRequest
  BY <1>6 DEF OneRequest
<1>9. BlobOrDrop
  BY <1>4, <1>6 DEF BlobOrDrop
<1>10. PlacedByBase
  <2>1. ASSUME NEW c \in Requests PROVE HasRead(c)
    BY <1>6, NothingRead DEF HasRead
  <2> QED
    BY <1>1, <2>1 DEF PlacedByBase
<1> QED
  BY <1>5, <1>7, <1>8, <1>9, <1>10 DEF ConfigInv, ConfigShape

LEMMA NextConfig == ConfigInv /\ [ConfigNext]_configVars => ConfigInv'
<1> SUFFICES ASSUME ConfigInv, [ConfigNext]_configVars PROVE ConfigInv'
  OBVIOUS
<1>1. ASSUME NEW c \in Requests, Statement(c) PROVE ConfigInv'
  BY <1>1, ReadOrderKeeps, CommitStatusKeeps, StatusWritesKeep, LevelWritesKeep, TaskWritesKeep,
     RestWritesKeep, ReadingKeeps, CountKeeps, RereadKeeps, SaveSpaceKeeps DEF Statement
<1>2. CASE UNCHANGED configVars
  <2>1. UNCHANGED <<statuses, levels, issued, tasks, moved, kind, rest, elsewhere, blob, plan, req, mem,
                    served, overlapped, failed>>
    BY <1>2 DEF configVars, tableVars, restVars, requestVars
  <2>2. Tables' /\ (Plans)' /\ OneRequest'
    BY <2>1 DEF ConfigInv, ConfigShape, Tables, Plans, OneRequest, Projects, RequestsOK
  <2>3. BlobOrDrop'
    BY <2>1 DEF ConfigInv, BlobOrDrop, WillDrop, Clean, Current
  <2>4. PlacedByBase'
    BY <2>1 DEF ConfigInv, PlacedByBase, HasRead
  <2> QED
    BY <2>2, <2>3, <2>4 DEF ConfigInv, ConfigShape
<1> QED
  BY <1>1, <1>2, RequestKeeps, FailuresKeep DEF ConfigNext

\* ConfigInv holds of every reachable state: what is written and what each request
\* has in mind are sound, whatever overlaps; and while requests follow one another,
\* a blob that is behind is about to be dropped and the statuses stand by base.
THEOREM ConfigInvariant == ConfigSpec => []ConfigInv
BY ConfigStarts, NextConfig, PTL DEF ConfigSpec

\* Tasks refer to statuses and levels that exist, and the rows hold what they may,
\* however the removal of a row and a task that takes it up interleave.
THEOREM ConfigTypesHold == ConfigSpec => []ConfigTypes
<1>1. ConfigInv => ConfigTypes
  BY DEF ConfigInv, ConfigShape, Tables, Plans, ConfigTypes, TaskRow
<1> QED
  BY <1>1, ConfigInvariant, PTL

\* While requests follow one another and nothing fails, the blob is absent or shows
\* the tables once all is quiet, whichever handler was the last to write.
THEOREM BlobStaysFresh == ConfigSpec => []BlobFresh
<1>1. ConfigInv => BlobFresh
  <2> SUFFICES ASSUME ConfigInv, Clean, Quiet, ~elsewhere PROVE blob \in {Absent, Current}
    BY DEF BlobFresh
  <2>1. Then("nameTasks", Drop) # <<>>
    BY AheadOfTail, NamedStatements
  <2>2. \A t \in Droppings : t # <<>>
    BY TailsKnown, NamedStatements
  <2>3. \A c \in Requests : ~WillDrop(c)
    BY <2>1, <2>2 DEF WillDrop, Quiet, Idle
  <2> QED
    BY <2>3 DEF ConfigInv, BlobOrDrop
<1> QED
  BY <1>1, ConfigInvariant, PTL

\* Until somebody chooses the places or two requests overlap, the statuses of a space
\* that was made without naming any are listed by base, each at a place of its own,
\* failures included.
THEOREM StaysInBaseOrder == ConfigSpec => []InBaseOrder
<1>1. ConfigInv => InBaseOrder
  BY DEF ConfigInv, PlacedByBase, Placed, InBaseOrder
<1> QED
  BY <1>1, ConfigInvariant, PTL
=============================================================================
