-------------------------------- MODULE Cron --------------------------------
(***************************************************************************)
(* Cron expressions (internal/scripts/scheduler.go): how a text is parsed  *)
(* into five sets of values and how NextRun searches, minute by minute and *)
(* for 4 * 365 days, for the first time that matches.                      *)
(*                                                                         *)
(* The calendar is a parameter: minutes per hour, hours per day, days of   *)
(* the week and the days before each month, so that years are short enough *)
(* to search. A time is its number of minutes; times are cut to minutes.   *)
(* Every fourth year has a leap day, so four years are a day longer than   *)
(* the search. Centuries and changes to summer time are left out.          *)
(***************************************************************************)
EXTENDS Integers, Sequences, FiniteSets

CONSTANTS MinutesPerHour, HoursPerDay, DaysPerWeek,
          DaysBefore,      \* days of a common year before each month and after the last
          LeapMonth,       \* the month that is a day longer in a leap year
          MaxDay,          \* the largest day of the month a text may name
          CronStarts       \* times NextRun is asked from

ASSUME CronAssumption ==
  /\ MinutesPerHour \in Nat \ {0} /\ HoursPerDay \in Nat \ {0}
  /\ DaysPerWeek \in Nat \ {0}
  /\ DaysBefore \in Seq(Nat) /\ Len(DaysBefore) > 1 /\ DaysBefore[1] = 0
  /\ \A m, n \in 1..Len(DaysBefore) : m < n => DaysBefore[m] < DaysBefore[n]
  /\ LeapMonth \in 1..(Len(DaysBefore) - 1)
  /\ MaxDay \in Nat
  /\ CronStarts \subseteq Nat

VARIABLES cronText,   \* the five fields as written
          cronSets,   \* the five sets of values
          cronPc,     \* "text", "search", "done", "invalid"
          cronAfter,  \* the argument of NextRun
          cronAt,     \* the time the loop is at
          cronTries,  \* iterations so far
          nextRun     \* its result

cronVars == <<cronText, cronSets, cronPc, cronAfter, cronAt, cronTries, nextRun>>

(***************************************************************************)
(* The calendar (package time): cycles of four years, the last one a leap  *)
(* year.                                                                   *)
(***************************************************************************)
MinutesPerDay == MinutesPerHour * HoursPerDay
Months == 1..(Len(DaysBefore) - 1)
YearDays == DaysBefore[Len(DaysBefore)]
MonthLength(m) == DaysBefore[m + 1] - DaysBefore[m]

\* The day of a common year the leap day comes before.
LeapDay == DaysBefore[LeapMonth + 1]
DayOfCycle(u) == (u \div MinutesPerDay) % (4 * YearDays + 1)

\* Month and day of the month of a day n of the cycle.
DateOf(n) ==
  LET leap == n >= 3 * YearDays
      day == IF leap THEN n - 3 * YearDays ELSE n % YearDays
      common == IF leap /\ day > LeapDay THEN day - 1 ELSE day
      month == IF leap /\ day = LeapDay THEN LeapMonth
               ELSE CHOOSE m \in Months :
                      DaysBefore[m] <= common /\ common < DaysBefore[m + 1]
  IN [month |-> month, day |-> common - DaysBefore[month] + 1]

TimeFields(u) ==
  LET date == DateOf(DayOfCycle(u))
  IN <<u % MinutesPerHour, (u \div MinutesPerHour) % HoursPerDay,
       date.day, date.month, (u \div MinutesPerDay) % DaysPerWeek>>

\* Bounds of the five fields.
Lowest == <<0, 0, 1, 1, 0>>
Highest == <<MinutesPerHour - 1, HoursPerDay - 1, MaxDay,
             Len(DaysBefore) - 1, DaysPerWeek - 1>>

(***************************************************************************)
(* Parsing. A field is a sequence of parts: a value, a range lo-hi, or     *)
(* steps "lo-hi/step" ("*/n" and "lo/n" have the bounds of the field).     *)
(***************************************************************************)
StarPart == [kind |-> "star"]
ValuePart(v) == [kind |-> "value", lo |-> v, hi |-> v]
RangePart(lo, hi) == [kind |-> "range", lo |-> lo, hi |-> hi]
StepPart(lo, hi, step) == [kind |-> "step", lo |-> lo, hi |-> hi, step |-> step]

\* Values and ranges outside of the field are refused; a step is cut to it.
PartValid(p, min, max) ==
  CASE p.kind = "step" -> p.step > 0
    [] p.kind = "star" -> FALSE
    [] OTHER -> min <= p.lo /\ p.hi <= max /\ p.lo <= p.hi

\* Mutant: a step is not cut to the range of its field.
PartValuesUncut(p, min, max) ==
  IF p.kind = "step" THEN {i \in p.lo..p.hi : (i - p.lo) % p.step = 0}
  ELSE p.lo..p.hi

PartValues(p, min, max) ==
  IF p.kind = "step"
  THEN {i \in p.lo..p.hi : (i - p.lo) % p.step = 0 /\ min <= i /\ i <= max}
  ELSE p.lo..p.hi

\* The values of a field; none stands for the error.
ParseCronField(field, min, max) ==
  IF field = <<StarPart>> THEN min..max
  ELSE IF \A k \in 1..Len(field) : PartValid(field[k], min, max)
       THEN UNION {PartValues(field[k], min, max) : k \in 1..Len(field)}
       ELSE {}

ParseCronExpression(text) ==
  [f \in 1..5 |-> ParseCronField(text[f], Lowest[f], Highest[f])]

(***************************************************************************)
(* Searching.                                                              *)
(***************************************************************************)
CronMatches(u) == LET t == TimeFields(u) IN \A f \in 1..5 : t[f] \in cronSets[f]

\* 365 * 24 * 60 * 4: a day less than four years.
MaxIterations == 4 * YearDays * MinutesPerDay

\* Texts to try in a field with the bounds min and max.
FieldTexts(min, max) ==
  {<<StarPart>>, <<ValuePart(max)>>, <<StepPart(min, max + 1, 2), ValuePart(min)>>,
   <<RangePart(max, min - 1)>>}

CronInit ==
  /\ cronText \in {<<m, h, d, o, w>> :
                     m \in FieldTexts(Lowest[1], Highest[1]),
                     h \in {<<StarPart>>, <<ValuePart(Highest[2])>>},
                     d \in FieldTexts(Lowest[3], Highest[3]),
                     o \in {<<StarPart>>, <<ValuePart(Highest[4])>>},
                     w \in FieldTexts(Lowest[5], Highest[5])}
  /\ cronSets = [f \in 1..5 |-> {}]
  /\ cronPc = "text"
  /\ cronAfter \in CronStarts
  /\ cronAt = 0 /\ cronTries = 0 /\ nextRun = 0

\* CreateSchedule, and executeSchedule after a run.
ParseAndStart ==
  /\ cronPc = "text"
  /\ cronSets' = ParseCronExpression(cronText)
  /\ cronPc' = IF \E f \in 1..5 : cronSets'[f] = {} THEN "invalid" ELSE "search"
  /\ cronAt' = cronAfter + 1
  /\ UNCHANGED <<cronText, cronAfter, cronTries, nextRun>>

SearchMatch ==
  /\ cronPc = "search" /\ cronTries < MaxIterations /\ CronMatches(cronAt)
  /\ cronPc' = "done" /\ nextRun' = cronAt
  /\ UNCHANGED <<cronText, cronSets, cronAfter, cronAt, cronTries>>

\* Mutant: the search advances by hours.
NextHour(u) == u + MinutesPerHour

\* The search goes on minute by minute.
NextMinute(u) == u + 1

SearchOn ==
  /\ cronPc = "search" /\ cronTries < MaxIterations /\ ~CronMatches(cronAt)
  /\ cronAt' = NextMinute(cronAt) /\ cronTries' = cronTries + 1
  /\ UNCHANGED <<cronText, cronSets, cronPc, cronAfter, nextRun>>

\* Nothing within the limit: a minute from now.
SearchFallback ==
  /\ cronPc = "search" /\ cronTries = MaxIterations
  /\ cronPc' = "done" /\ nextRun' = cronAfter + 1
  /\ UNCHANGED <<cronText, cronSets, cronAfter, cronAt, cronTries>>

CronNext == ParseAndStart \/ SearchMatch \/ SearchOn \/ SearchFallback

CronSpec == CronInit /\ [][CronNext]_cronVars

(***************************************************************************)
(* Properties.                                                             *)
(***************************************************************************)
\* Whatever the text, a parsed field holds only values a time can have: a
\* step whose range leaves the field is cut to it.
CronTypeOK == \A f \in 1..5 : cronSets[f] \subseteq Lowest[f]..Highest[f]

\* The schedule leaves the day of the week open and names a day that every
\* year has. Day of the month and day of the week must both match.
NamesYearlyDay ==
  /\ cronSets[5] = 0..(DaysPerWeek - 1)
  /\ \E m \in cronSets[4], d \in cronSets[3] : d <= MonthLength(m)

\* NextRun returns a later time that matches, and no time in between does: a
\* schedule never loses an occurrence to the search. The fallback, one minute
\* later, is taken only after the whole search, and never by a schedule that
\* names a day every year has: although the search is a day shorter than four
\* years, only schedules that restrict the day of the week, or name no day but
\* the leap day or days that do not exist, can get there.
NextRunIsFirst ==
  cronPc = "done" => \/ /\ nextRun > cronAfter /\ CronMatches(nextRun)
                        /\ \A u \in (cronAfter + 1)..(nextRun - 1) : ~CronMatches(u)
                     \/ /\ nextRun = cronAfter + 1 /\ ~NamesYearlyDay
                        /\ \A u \in (cronAfter + 1)..(cronAfter + MaxIterations) :
                             ~CronMatches(u)
============================================================================
