--------------------------- MODULE DateArithmetic ---------------------------
(***************************************************************************)
(* A query that keeps a date, time or dateTime and a duration, and applies *)
(* the operators and functions of XQuery to them one after the other       *)
(* (src/operators/Plus.cpp, Minus.cpp, src/items/DateOrTimeType.cpp and    *)
(* the casts).  Beside each goes what it should be: the value as a clock   *)
(* on a local time line, the duration as signed months and minutes.        *)
(***************************************************************************)
EXTENDS DateTimes, Sequences, FiniteSets

CONSTANTS
  Starts,       \* sequences of literals: [type, text]
  Spans,        \* durations of a query: [type, months, minutes]
  Timezones,    \* the arguments of the adjust functions, in minutes
  OtherTimes, OtherDates,  \* texts of the second argument of fn:dateTime
  Origin,       \* for every type, the text of the value that others are compared with
  MaxSteps,     \* bound: operations applied to a literal
  LongestSpan,  \* bound: minutes of a duration (TLC's integers have 32 bits)
  FirstYear, LastYear  \* bounds of the calendar

ASSUME CalendarAssumption == FirstYear \in Int /\ LastYear \in Int /\ FirstYear < 0 /\ LastYear > 0

VARIABLES
  value, span,    \* the program's two values
  civil, length,  \* what they should be
  exact,          \* no operation met an offset that it is known to lose
  steps

vars == <<value, span, civil, length, exact, steps>>

---------------------------------------------------------------------------
(* The calendar that the program has to agree with: the days of the years  *)
(* from FirstYear to LastYear, counted year by year and month by month.    *)
(* It is a reference, none of it is translated from the program.           *)
(* Year 1 follows year -1.                                                 *)
CivilYears == (FirstYear..LastYear) \ {0}
CivilIndex(year) == IF year < 0 THEN year + 1 ELSE year
CivilYear(index) == IF index <= 0 THEN index - 1 ELSE index

Leap(year) == \/ year % 400 = 0
              \/ year % 4 = 0 /\ year % 100 # 0
YearLength(year) == IF Leap(year) THEN 366 ELSE 365
MonthLength(year, month) ==
  IF month = 2 THEN YearLength(year) - 337
  ELSE IF month \in {4, 6, 9, 11} THEN 30 ELSE 31

(* The days from 0001-01-01 to 1 January of each year.                     *)
FirstDay ==
  [y \in CivilYears |->
     IF y > 0 THEN 365 * (y - 1) + Cardinality({k \in 1..(y - 1) : Leap(k)})
              ELSE 365 * y - Cardinality({k \in y..(-1) : Leap(k)})]

(* The days from 1 January to the first day of each month.                 *)
MonthStart ==
  [leap \in BOOLEAN |->
     LET f[m \in 1..12] == IF m = 1 THEN 0
                           ELSE f[m - 1] + MonthLength(IF leap THEN 4 ELSE 1, m - 1)
     IN [m \in 1..12 |-> f[m]]]

DayNumber(year, month, day) == FirstDay[year] + MonthStart[Leap(year)][month] + day - 1

(* The year, month and day of a day number, where the calendar has them.   *)
InCalendar(n) == n \in FirstDay[FirstYear]..(FirstDay[LastYear] - 1)
YearOf(n) ==
  CHOOSE y \in {CivilYear((n \div 366) + k) : k \in -4..6} \cap CivilYears :
    FirstDay[y] <= n /\ n < FirstDay[y] + YearLength(y)
DateOf(n) ==
  LET year == YearOf(n)
      inYear == n - FirstDay[year]
      month == CHOOSE m \in 1..12 : /\ MonthStart[Leap(year)][m] <= inYear
                                    /\ inYear < MonthStart[Leap(year)][m] + MonthLength(year, m)
  IN [year |-> year, month |-> month, day |-> inYear - MonthStart[Leap(year)][month] + 1]

---------------------------------------------------------------------------
(* The reference: a clock counts the local minutes from 0001-01-01T00:00.  *)
DayOf(t) == DayNumber(ReadNumber(t.date.year), t.date.month, t.date.day)
ClockOf(t) == t.time.hour * 60 + t.time.minute
CivilOf(type, t) ==
  [type |-> type,
   clock |-> CASE type = "dateTime" -> DayOf(t) * 1440 + ClockOf(t)
               [] type = "date" -> DayOf(t) * 1440
               [] type = "time" -> ClockOf(t) % 1440,
   hasTimezone |-> t.zone.sign # "",
   timezone |-> (IF t.zone.sign = "-" THEN -1 ELSE 1) * (t.zone.hour * 60 + t.zone.minute)]

(* A date is moved by whole days, a time within its day.                   *)
OfType(type, clock) ==
  CASE type = "dateTime" -> clock
    [] type = "date" -> clock - (clock % 1440)
    [] type = "time" -> clock % 1440
Shift(c, minutes) == [c EXCEPT !.clock = OfType(c.type, @ + minutes)]
InZone(c, tz) ==
  [(IF c.hasTimezone THEN Shift(c, tz - c.timezone) ELSE c)
     EXCEPT !.hasTimezone = TRUE, !.timezone = tz]
CivilDate(c) == DateOf(c.clock \div 1440)
ShiftMonths(c, months) ==
  LET old == CivilDate(c)
      index == 12 * CivilIndex(old.year) + old.month - 1 + months
      year == CivilYear(index \div 12)
      month == (index % 12) + 1
      last == MonthLength(year, month)
      day == IF old.day <= last THEN old.day ELSE last
  IN [c EXCEPT !.clock = DayNumber(year, month, day) * 1440 + (c.clock % 1440)]
CanShiftMonths(c, months) ==
  CivilYear((12 * CivilIndex(CivilDate(c).year) + CivilDate(c).month - 1 + months) \div 12)
    \in CivilYears
CivilInstant(c) == c.clock - IF c.hasTimezone THEN c.timezone ELSE ImplicitTimezone

(* The calendar ends at FirstYear and LastYear.                            *)
Known(c) == c.type # "time" => InCalendar(c.clock \div 1440)
CanAdd(c, l, sign) ==
  IF l.months # 0 THEN CanShiftMonths(c, sign * l.months) ELSE Known(Shift(c, sign * l.minutes))
CivilAdd(c, l, sign) ==
  IF l.months # 0 THEN ShiftMonths(c, sign * l.months) ELSE Shift(c, sign * l.minutes)

---------------------------------------------------------------------------
Init ==
  /\ \E s \in {s \in Starts : Accepted(s.type, s.text)} :
       /\ value = Parse(s.type, s.text)
       /\ civil = CivilOf(s.type, s.text)
  /\ \E d \in Spans :
       /\ span = NewDuration(d.type, d.months, d.minutes)
       /\ length = [months |-> d.months, minutes |-> d.minutes]
  /\ exact = TRUE
  /\ steps = 0

Step == steps < MaxSteps /\ steps' = steps + 1
ValueStep == Step /\ UNCHANGED <<span, length>>
SpanStep == Step /\ UNCHANGED <<value, civil>>
Short == Abs(length.minutes) <= LongestSpan

(* Where the program adds in UTC what should be added to the local date:   *)
(* days to a date, and months to a point that is another day in UTC.       *)
AddsLocally(v, d) ==
  IF d.type = "dayTime" THEN v.type = "date" /\ v.hasTimezone => v.timezone = 0
  ELSE v.minutes \div MinutesPerDay = Localized(v) \div MinutesPerDay

AddSpan ==
  /\ ValueStep /\ Addable(value, span) /\ Short /\ CanAdd(civil, length, 1)
  /\ value' = PlusDuration(value, span)
  /\ civil' = CivilAdd(civil, length, 1)
  /\ exact' = (exact /\ AddsLocally(value, span))

SubtractSpan ==
  /\ ValueStep /\ Addable(value, span) /\ Short /\ CanAdd(civil, length, -1)
  /\ value' = MinusDuration(value, span)
  /\ civil' = CivilAdd(civil, length, -1)
  /\ exact' = (exact /\ AddsLocally(value, span))

(* The adjust-...-to-timezone functions with one or two arguments; another *)
(* timezone is an error (FODT0003).                                        *)
AdjustToTimezone ==
  /\ ValueStep
  /\ \E tz \in {z \in Timezones \cup {ImplicitTimezone} : Valid(z)} :
       /\ Known(InZone(civil, tz))
       /\ value' = AddTimezone(value, tz)
       /\ civil' = InZone(civil, tz)
  /\ UNCHANGED exact

(* ... and with an empty second argument.                                  *)
RemoveTimezone ==
  /\ ValueStep
  /\ value' = NoTimezone(value)
  /\ civil' = [civil EXCEPT !.hasTimezone = FALSE, !.timezone = 0]
  /\ UNCHANGED exact

Casts(type) ==
  CASE type = "dateTime" -> {"date", "time"} [] type = "date" -> {"dateTime"}
    [] type = "time" -> {"dateTime"}
Cast ==
  /\ ValueStep
  /\ \E target \in Casts(value.type) :
       LET today == DayNumber(CurrentDate.year, CurrentDate.month, CurrentDate.day) * 1440
           clock == IF value.type = "time" THEN today + civil.clock ELSE civil.clock
       IN /\ value' = CastValue(value, target)
          /\ civil' = [civil EXCEPT !.type = target, !.clock = OfType(target, clock)]
  /\ UNCHANGED exact

(* fn:dateTime with this value and another; two different timezones are an *)
(* error (FORG0008).                                                       *)
CombineDateAndTime ==
  /\ ValueStep
  /\ \E t \in IF value.type = "date" THEN OtherTimes
              ELSE IF value.type = "time" THEN OtherDates ELSE {} :
       LET type == IF value.type = "date" THEN "time" ELSE "date"
           other == Parse(type, t)
           date == IF value.type = "date" THEN value ELSE other
           time == IF value.type = "date" THEN other ELSE value
           reference == CivilOf(type, t)
           zone == IF civil.hasTimezone THEN civil ELSE reference
       IN /\ ZonesAgree(date, time)
          /\ value' = FnDateTime(date, time)
          /\ civil' = [zone EXCEPT !.type = "dateTime", !.clock = civil.clock + reference.clock]
  /\ UNCHANGED exact

(* A time that was adjusted to another timezone may lie outside its day.   *)
InDay(v) == v.type = "time" => v.minutes \in 0..(MinutesPerDay - 1)

(* value - origin becomes the duration.                                    *)
SubtractOrigin ==
  /\ SpanStep
  /\ LET distance == CivilInstant(civil) - CivilInstant(CivilOf(civil.type, Origin[civil.type]))
     IN /\ span' = SubtractValues(value, Parse(value.type, Origin[value.type]))
        /\ length' = [months |-> 0, minutes |-> distance]
  /\ exact' = (exact /\ InDay(value))

(* No xs:duration is multiplied, divided, added or subtracted.             *)
MultiplySpan ==
  /\ SpanStep /\ span.type # "duration" /\ Short
  /\ \E factor \in {-1, 2} :
       /\ span' = Multiply(span, factor)
       /\ length' = [months |-> factor * length.months, minutes |-> factor * length.minutes]
  /\ UNCHANGED exact

(* Half a month more or less is rounded up.                                *)
HalveSpan ==
  /\ SpanStep /\ span.type # "duration" /\ length.minutes % 2 = 0
  /\ span' = Divide(span, 2)
  /\ length' = [months |-> (length.months + (length.months % 2)) \div 2,
                minutes |-> length.minutes \div 2]
  /\ UNCHANGED exact

CombineSpans ==
  /\ SpanStep /\ span.type # "duration" /\ Short
  /\ \E d \in {d \in Spans : d.type = span.type} :
       LET other == NewDuration(d.type, d.months, d.minutes)
       IN \/ /\ span' = Add(span, other)
             /\ length' = [months |-> length.months + d.months,
                           minutes |-> length.minutes + d.minutes]
          \/ /\ span' = Subtract(span, other)
             /\ length' = [months |-> length.months - d.months,
                           minutes |-> length.minutes - d.minutes]
  /\ UNCHANGED exact

CastSpan ==
  /\ SpanStep
  /\ \E target \in DurationTypes :
       /\ span' = CastDuration(span, target)
       /\ length' = [months |-> IF target = "dayTime" THEN 0 ELSE length.months,
                     minutes |-> IF target = "yearMonth" THEN 0 ELSE length.minutes]
  /\ UNCHANGED exact

Next ==
  \/ AddSpan \/ SubtractSpan \/ SubtractOrigin
  \/ AdjustToTimezone \/ RemoveTimezone
  \/ Cast \/ CombineDateAndTime
  \/ MultiplySpan \/ HalveSpan \/ CombineSpans \/ CastSpan

Spec == Init /\ [][Next]_vars

---------------------------------------------------------------------------
(* Properties.                                                             *)

GCasts(v) == IF v.type = "time" THEN {} ELSE {CastValue(v, g) : g \in GTypes}
HasDate(v) == v.type # "time"
HasTime(v) == v.type # "date"

(* Across the missing year 0, the leap years and the ends of 4, 100 and    *)
(* 400 years, and whatever timezones the value has been given and lost: it *)
(* prints the local date, time and zone of its clock, and so does every    *)
(* incomplete date it is cast to.                                          *)
FieldsShown ==
  exact =>
    LET shown == AsString(value)
    IN /\ value.type = civil.type
       /\ value.hasTimezone = civil.hasTimezone
       /\ HasDate(value) => ReadDate(shown.date) = CivilDate(civil)
       /\ HasTime(value) => shown.time = [hour |-> (civil.clock % 1440) \div 60,
                                          minute |-> civil.clock % 60]
       /\ \A g \in GCasts(value) :
            \A f \in DOMAIN g.date : g.date[f] = CivilDate(civil)[f]
       /\ \A v \in GCasts(value) \cup {value} :
            v.hasTimezone => v.timezone = civil.timezone

(* What is printed is accepted again and reads back as the same value:     *)
(* dates of negative years, zones west of UTC with minutes, durations of   *)
(* either sign, and the incomplete dates.  Every cast goes through such a  *)
(* text.  An adjusted time outside its day is the exception.               *)
TextKeepsValue ==
  /\ Accepted(value.type, AsString(value))
  /\ exact /\ InDay(value) => Parse(value.type, AsString(value)) = value
  /\ \A g \in GCasts(value) :
       GAccepted(GAsString(g)) /\ ParseG(g.type, GAsString(g)) = g
  /\ ParseDuration(span.type, DurationAsString(span)) = span

(* The values of one type in one zone are ordered like their fields, the   *)
(* most significant first.                                                 *)
Before(fields, a, b) ==
  \E i \in 1..Len(fields) :
    /\ a[fields[i]] < b[fields[i]]
    /\ \A j \in 1..(i - 1) : a[fields[j]] = b[fields[j]]
FieldOrder(g) == SelectSeq(<<"year", "month", "day">>, LAMBDA f : f \in DOMAIN g.date)

(* Durations have the sign, the months and the minutes of what was         *)
(* computed, through casts, halves and differences; two of one kind        *)
(* compare like their lengths, a value and the origin like their distance  *)
(* on the time line, in any two timezones or the implicit one, and the     *)
(* incomplete dates like their fields.                                     *)
DistancesKept ==
  exact =>
    LET origin == Parse(value.type, Origin[value.type])
        originCivil == CivilOf(value.type, Origin[value.type])
    IN /\ <<AsMonths(span), AsMinutes(span)>> = <<length.months, length.minutes>>
       /\ \A d \in {d \in Spans : d.type = span.type /\ d.type # "duration"} :
            CompareDurations(span, NewDuration(d.type, d.months, d.minutes))
              = Sign(length.months - d.months + length.minutes - d.minutes)
       /\ InDay(value) =>
            Instant(value) - Instant(origin) = CivilInstant(civil) - CivilInstant(originCivil)
       /\ ~value.hasTimezone /\ HasDate(value) =>
            \A g \in GTypes :
              LET a == CastValue(value, g)
                  b == CastValue(origin, g)
              IN /\ (GReference(a) < GReference(b)) <=> Before(FieldOrder(a), a.date, b.date)
                 /\ (GReference(a) = GReference(b)) <=> a.date = b.date
=============================================================================
