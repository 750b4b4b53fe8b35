----------------------------- MODULE DateTimes -----------------------------
(***************************************************************************)
(* Durations, xs:dateTime, xs:date, xs:time and the five xs:g... types of  *)
(* src/items/impl.  A dateTime or a date with a timezone keeps the point   *)
(* in UTC, one without keeps its local time; a time always keeps its local *)
(* time.  A text is the record of what is printed: the date, the time and  *)
(* the zone, where the type has them.                                      *)
(***************************************************************************)
EXTENDS DateUtils

CONSTANTS
  ImplicitTimezone,  \* of the dynamic context
  CurrentDate        \* [year, month, day] of the dynamic context

ASSUME ContextAssumption ==
  /\ ImplicitTimezone \in Int /\ Valid(ImplicitTimezone)
  /\ CurrentDate.year \in Int \ {0} /\ CurrentDate.month \in 1..12
  /\ CurrentDate.day \in 1..MaximumDayInMonthFor(CurrentDate.year, CurrentDate.month)

GTypes == {"gYear", "gYearMonth", "gMonth", "gMonthDay", "gDay"}

---------------------------------------------------------------------------
(* ATDurationOrDerivedImpl: xs:duration, xs:yearMonthDuration and          *)
(* xs:dayTimeDuration.  A value is a sign and two magnitudes, _months and  *)
(* _seconds (in minutes here); its text is the record of the components    *)
(* that are printed.                                                       *)
DurationTypes == {"duration", "yearMonth", "dayTime"}

(* init: the sign is taken out of whichever magnitude is negative.         *)
NewDuration(type, months, minutes) ==
  [type |-> type, isPositive |-> months >= 0 /\ minutes >= 0,
   months |-> Abs(months), minutes |-> Abs(minutes)]

Signed(d, magnitude) == IF d.isPositive THEN magnitude ELSE -magnitude
AsMonths(d) == Signed(d, d.months)
AsMinutes(d) == Signed(d, d.minutes)

---------------------------------------------------------------------------
(* Text and back.                                                          *)
YearMonthText(months) == [years |-> months \div 12, months |-> months % 12]
DayTimeText(minutes) ==
  [days |-> minutes \div MinutesPerDay, hours |-> (minutes % MinutesPerDay) \div MinutesPerHour,
   minutes |-> minutes % MinutesPerHour]

\* Mutant: the sign is printed with the months only.
DurationAsString_SignByMonths(d) ==
  [negative |-> ~d.isPositive /\ d.months # 0,
   yearMonth |-> YearMonthText(IF d.type = "dayTime" THEN 0 ELSE d.months),
   dayTime |-> DayTimeText(IF d.type = "yearMonth" THEN 0 ELSE d.minutes)]

(* A zero duration, PT0S or P0M, has no sign; a type prints only the       *)
(* components it has.                                                      *)
DurationAsString(d) ==
  [negative |-> ~d.isPositive /\ (d.months # 0 \/ d.minutes # 0),
   yearMonth |-> YearMonthText(IF d.type = "dayTime" THEN 0 ELSE d.months),
   dayTime |-> DayTimeText(IF d.type = "yearMonth" THEN 0 ELSE d.minutes)]

ParseDuration(type, t) ==
  LET months == t.yearMonth.years * 12 + t.yearMonth.months
      minutes == t.dayTime.days * MinutesPerDay + t.dayTime.hours * MinutesPerHour
                   + t.dayTime.minutes
  IN IF t.negative THEN NewDuration(type, -months, -minutes) ELSE NewDuration(type, months, minutes)

(* A cast goes through a text: to yearMonthDuration or dayTimeDuration     *)
(* with the components of the other kind left out ("P0M", "PT0S" when none *)
(* is left), to xs:duration with all of them.                              *)
CastText(d, target) ==
  IF target = "yearMonth" /\ d.type # "yearMonth" THEN
    [negative |-> ~d.isPositive /\ d.type = "duration" /\ d.months # 0,
     yearMonth |-> YearMonthText(IF d.type = "duration" THEN d.months ELSE 0),
     dayTime |-> DayTimeText(0)]
  ELSE IF target = "dayTime" /\ d.type # "dayTime" THEN
    [negative |-> ~d.isPositive /\ d.type = "duration" /\ d.minutes # 0,
     yearMonth |-> YearMonthText(0),
     dayTime |-> DayTimeText(IF d.type = "duration" THEN d.minutes ELSE 0)]
  ELSE DurationAsString(d)
CastDuration(d, target) == ParseDuration(target, CastText(d, target))

---------------------------------------------------------------------------
(* Operators; add, subtract, multiply and divide exist for two durations   *)
(* of one kind, and for no xs:duration.                                    *)
Combine(d, months, minutes) ==
  IF d.type = "dayTime" THEN NewDuration("dayTime", 0, minutes)
  ELSE NewDuration("yearMonth", months, 0)

Add(d, other) == Combine(d, AsMonths(d) + AsMonths(other), AsMinutes(d) + AsMinutes(other))
Subtract(d, other) == Combine(d, AsMonths(d) - AsMonths(other), AsMinutes(d) - AsMinutes(other))
Multiply(d, factor) == Combine(d, AsMonths(d) * factor, AsMinutes(d) * factor)

\* Mutant: the months are not rounded.
Divide_Down(d, divisor) ==
  Combine(d, AsMonths(d) \div divisor, AsMinutes(d) \div divisor)

(* The months are rounded, halves upwards (floor of the value plus 1/2).   *)
Divide(d, divisor) ==
  Combine(d, (2 * AsMonths(d) + divisor) \div (2 * divisor), AsMinutes(d) \div divisor)

(* compare: the sign, then the months, then the seconds.                   *)
Sign(n) == IF n < 0 THEN -1 ELSE IF n > 0 THEN 1 ELSE 0

\* Mutant: the magnitudes of two negative durations are compared.
CompareDurations_NoSign(d, other) ==
  IF d.isPositive # other.isPositive THEN IF d.isPositive THEN 1 ELSE -1
  ELSE IF d.months # other.months THEN Sign(d.months - other.months)
  ELSE Sign(d.minutes - other.minutes)

CompareDurations(d, other) ==
  IF d.isPositive # other.isPositive THEN IF d.isPositive THEN 1 ELSE -1
  ELSE IF d.months # other.months THEN Signed(d, Sign(d.months - other.months))
  ELSE Signed(d, Sign(d.minutes - other.minutes))

---------------------------------------------------------------------------
(* The local time line.                                                    *)
Localized(v) == IF v.hasTimezone THEN v.minutes + v.timezone ELSE v.minutes

\* Mutant: a value without a timezone is taken as UTC.
Normalized_NoImplicit(v) == v.minutes

Normalized(v) == IF v.hasTimezone THEN v.minutes ELSE v.minutes - ImplicitTimezone

HourFromMinutes(value) == (value % MinutesPerDay) \div MinutesPerHour
MinuteFromMinutes(value) == value % MinutesPerHour
DateFromMinutes(value) == ConvertAbsolute2DMY(value \div MinutesPerDay)
ComposeDate(d) == ConvertDMY2Absolute(d.day, d.month, d.year) * MinutesPerDay
ComposeTime(t) == t.hour * MinutesPerHour + t.minute

DateText(d) == [year |-> FormatNumber(d.year), month |-> d.month, day |-> d.day]
ReadDate(t) == [year |-> ReadNumber(t.year), month |-> t.month, day |-> t.day]
TimeText(value) == [hour |-> HourFromMinutes(value), minute |-> MinuteFromMinutes(value)]
ZoneText(v) == IF v.hasTimezone THEN TimezoneAsString(v.timezone) ELSE NoZone

(* What every parser asks of a zone.                                       *)
ZoneAccepted(zone) == zone.hour <= 24 /\ zone.minute <= 59 /\ Valid(ReadTimezone(zone))

NewValue(type, minutes, zone) ==
  [type |-> type, minutes |-> minutes,
   hasTimezone |-> zone # NoZone, timezone |-> ReadTimezone(zone)]

---------------------------------------------------------------------------
(* xs:dateTime.  24:00 is the next midnight.  (The parsers also accept a   *)
(* month or a day 00 and 24:01 to 24:59, which no text here has.)          *)
DateAccepted(d) ==
  /\ d.month <= 12 /\ d.year.digits # 0
  /\ d.day <= MaximumDayInMonthFor(ReadNumber(d.year), d.month)
TimeAccepted(t) == t.hour <= 24 /\ t.minute <= 59
ParseDateTime(t) ==
  LET zone == ReadTimezone(t.zone)
  IN NewValue("dateTime", ComposeDate(ReadDate(t.date)) + ComposeTime(t.time) - zone, t.zone)
DateTimeAsString(v) ==
  [date |-> DateText(DateFromMinutes(Localized(v))), time |-> TimeText(Localized(v)),
   zone |-> ZoneText(v)]

(* setTimezone(0) keeps the local time.                                    *)
DateTimeNoTimezone(v) ==
  [v EXCEPT !.minutes = Localized(v), !.hasTimezone = FALSE, !.timezone = 0]
(* addTimezone: a first timezone keeps the local time, a further one the   *)
(* point in time.                                                          *)
DateTimeAddTimezone(v, tz) ==
  [v EXCEPT !.minutes = IF v.hasTimezone THEN @ ELSE @ - tz,
            !.hasTimezone = TRUE, !.timezone = tz]

\* Mutant: a sum that reaches year 0 stays there.
SkipYearZero_Kept(final, old) == final

(* The year after -1 is 1.                                                 *)
SkipYearZero(final, old) ==
  IF final <= 0 /\ old >= 0 THEN final - 1
  ELSE IF final >= 0 /\ old < 0 THEN final + 1 ELSE final

(* A day the month does not have becomes its last; the months are counted  *)
(* in UTC.                                                                 *)
AddMonths(minutes, months) ==
  LET old == DateFromMinutes(minutes)
      total == old.month + months - 1
      month == (total % 12) + 1
      year == SkipYearZero((total \div 12) + old.year, old.year)
      last == MaximumDayInMonthFor(year, month)
      day == IF old.day > last THEN last ELSE old.day
  IN ComposeDate([year |-> year, month |-> month, day |-> day]) + (minutes % MinutesPerDay)

DateTimeAddYearMonth(v, months) == [v EXCEPT !.minutes = AddMonths(@, months)]
DateTimeAddDayTime(v, minutes) == [v EXCEPT !.minutes = @ + minutes]

---------------------------------------------------------------------------
(* xs:date: the midnight it starts with.                                   *)
ParseDate(t) == NewValue("date", ComposeDate(ReadDate(t.date)) - ReadTimezone(t.zone), t.zone)
DateAsString(v) == [date |-> DateText(DateFromMinutes(Localized(v))), zone |-> ZoneText(v)]

DateNoTimezone(v) == DateTimeNoTimezone(v)

\* Mutant: a date keeps its point in time like a dateTime.
DateAddTimezone_MidnightLost(v, tz) ==
  [v EXCEPT !.minutes = IF v.hasTimezone THEN @ ELSE @ - tz,
            !.hasTimezone = TRUE, !.timezone = tz]

DateAddTimezone(v, tz) ==
  LET midnight == ((v.minutes + tz) \div MinutesPerDay) * MinutesPerDay - tz
  IN [v EXCEPT !.minutes = IF v.hasTimezone THEN midnight ELSE @ - tz,
               !.hasTimezone = TRUE, !.timezone = tz]

DateAddYearMonth(v, months) == [v EXCEPT !.minutes = AddMonths(@, months)]
(* The midnight is the one of UTC.                                         *)
DateAddDayTime(v, minutes) ==
  [v EXCEPT !.minutes = ((@ + minutes) \div MinutesPerDay) * MinutesPerDay]

---------------------------------------------------------------------------
(* xs:time, on 1972-12-31 when it has to be compared.                      *)
ParseTime(t) ==
  LET hour == IF t.time.hour = 24 /\ t.time.minute = 0 THEN 0 ELSE t.time.hour
  IN NewValue("time", ComposeTime([t.time EXCEPT !.hour = hour]), t.zone)
TimeAsString(v) == [time |-> TimeText(v.minutes), zone |-> ZoneText(v)]
TimeReference(v) ==
  ConvertDMY2Absolute(31, 12, 1972) * MinutesPerDay + v.minutes
    - IF v.hasTimezone THEN v.timezone ELSE ImplicitTimezone

TimeNoTimezone(v) == [v EXCEPT !.hasTimezone = FALSE, !.timezone = 0]
(* The result may be outside 00:00 to 24:00.                               *)
TimeAddTimezone(v, tz) ==
  [v EXCEPT !.minutes = IF v.hasTimezone THEN @ - v.timezone + tz ELSE @,
            !.hasTimezone = TRUE, !.timezone = tz]
TimeAddDayTime(v, minutes) == [v EXCEPT !.minutes = (@ + minutes) % MinutesPerDay]

---------------------------------------------------------------------------
(* The five types of a recurring or incomplete date: some fields of a      *)
(* date and a zone.  They are compared by the start of the day that fills  *)
(* in the missing fields.                                                  *)
GFields(type) ==
  CASE type = "gYear" -> {"year"}
    [] type = "gYearMonth" -> {"year", "month"}
    [] type = "gMonth" -> {"month"}
    [] type = "gMonthDay" -> {"month", "day"}
    [] type = "gDay" -> {"day"}
GText(type, dateText, zone) ==
  [date |-> [f \in GFields(type) |-> dateText[f]], zone |-> zone]

NewG(type, date, zone) ==
  [type |-> type, date |-> date, hasTimezone |-> zone # NoZone, timezone |-> ReadTimezone(zone)]
ParseGYear(t) == NewG("gYear", [year |-> ReadNumber(t.date.year)], t.zone)
ParseGYearMonth(t) ==
  NewG("gYearMonth", [year |-> ReadNumber(t.date.year), month |-> t.date.month], t.zone)
ParseGMonth(t) == NewG("gMonth", t.date, t.zone)
ParseGMonthDay(t) == NewG("gMonthDay", t.date, t.zone)
ParseGDay(t) == NewG("gDay", t.date, t.zone)
ParseG(type, t) ==
  CASE type = "gYear" -> ParseGYear(t)
    [] type = "gYearMonth" -> ParseGYearMonth(t)
    [] type = "gMonth" -> ParseGMonth(t)
    [] type = "gMonthDay" -> ParseGMonthDay(t)
    [] type = "gDay" -> ParseGDay(t)
(* The day is not held against the month.                                  *)
GAccepted(t) ==
  /\ "year" \in DOMAIN t.date => t.date.year.digits # 0
  /\ "month" \in DOMAIN t.date => t.date.month <= 12
  /\ "day" \in DOMAIN t.date => t.date.day <= 31
  /\ ZoneAccepted(t.zone)
GAsString(g) ==
  [date |-> [f \in DOMAIN g.date |-> IF f = "year" THEN FormatNumber(g.date[f]) ELSE g.date[f]],
   zone |-> ZoneText(g)]

GYearReference(d) == ConvertDMY2Absolute(1, 1, d.year)
GYearMonthReference(d) ==
  ConvertDMY2Absolute(MaximumDayInMonthFor(d.year, d.month), d.month, d.year)
GMonthReference(d) == ConvertDMY2Absolute(MaximumDayInMonthFor(1972, d.month), d.month, 1972)

\* Mutant: the reference year has no 29 February.
GMonthDayReference_CommonYear(d) == ConvertDMY2Absolute(d.day, d.month, 1970)

GMonthDayReference(d) == ConvertDMY2Absolute(d.day, d.month, 1972)
GDayReference(d) == ConvertDMY2Absolute(d.day, 12, 1972)
GReference(g) ==
  MinutesPerDay * (CASE g.type = "gYear" -> GYearReference(g.date)
                     [] g.type = "gYearMonth" -> GYearMonthReference(g.date)
                     [] g.type = "gMonth" -> GMonthReference(g.date)
                     [] g.type = "gMonthDay" -> GMonthDayReference(g.date)
                     [] g.type = "gDay" -> GDayReference(g.date))
    - IF g.hasTimezone THEN g.timezone ELSE ImplicitTimezone

---------------------------------------------------------------------------
(* Casts, through a text.                                                  *)
CastDateTime(v, target) ==
  LET text == DateTimeAsString(v)
  IN CASE target = "date" -> ParseDate(text)
       [] target = "time" -> ParseTime(text)
       [] target \in GTypes -> ParseG(target, GText(target, text.date, text.zone))

CastDate(v, target) ==
  LET text == DateAsString(v)
  IN IF target = "dateTime"
     THEN ParseDateTime([date |-> text.date, time |-> [hour |-> 0, minute |-> 0],
                         zone |-> text.zone])
     ELSE ParseG(target, GText(target, text.date, text.zone))

(* A time becomes a dateTime of the current date.                          *)
CastTime(v) ==
  LET text == TimeAsString(v)
  IN ParseDateTime([date |-> DateText(CurrentDate), time |-> text.time, zone |-> text.zone])

(* fn:dateTime; the two zones are equal when both are there.               *)
ZonesAgree(date, time) ==
  date.hasTimezone /\ time.hasTimezone => date.timezone = time.timezone
FnDateTime(date, time) ==
  ParseDateTime([date |-> DateAsString(DateNoTimezone(date)).date,
                 time |-> TimeAsString(TimeNoTimezone(time)).time,
                 zone |-> IF date.hasTimezone THEN ZoneText(date) ELSE ZoneText(time)])

---------------------------------------------------------------------------
(* The operations that exist for every type.                               *)
AsString(v) ==
  CASE v.type = "dateTime" -> DateTimeAsString(v)
    [] v.type = "date" -> DateAsString(v)
    [] v.type = "time" -> TimeAsString(v)
Accepted(type, t) ==
  /\ type # "time" => DateAccepted(t.date)
  /\ type # "date" => TimeAccepted(t.time)
  /\ ZoneAccepted(t.zone)
Parse(type, t) ==
  CASE type = "dateTime" -> ParseDateTime(t)
    [] type = "date" -> ParseDate(t)
    [] type = "time" -> ParseTime(t)
NoTimezone(v) ==
  CASE v.type = "dateTime" -> DateTimeNoTimezone(v)
    [] v.type = "date" -> DateNoTimezone(v)
    [] v.type = "time" -> TimeNoTimezone(v)
AddTimezone(v, tz) ==
  CASE v.type = "dateTime" -> DateTimeAddTimezone(v, tz)
    [] v.type = "date" -> DateAddTimezone(v, tz)
    [] v.type = "time" -> TimeAddTimezone(v, tz)
CastValue(v, target) ==
  CASE v.type = "dateTime" -> CastDateTime(v, target)
    [] v.type = "date" -> CastDate(v, target)
    [] v.type = "time" -> CastTime(v)

(* What compare, subtractDate, subtractTime and                            *)
(* subtractDateTimeAsDayTimeDuration look at.                              *)
Instant(v) == IF v.type = "time" THEN TimeReference(v) ELSE Normalized(v)
SubtractValues(v, other) == NewDuration("dayTime", 0, Instant(v) - Instant(other))

(* Plus and Minus: no xs:duration is added, and no months to a time.       *)
Addable(v, d) == d.type = "dayTime" \/ (d.type = "yearMonth" /\ v.type # "time")
Amount(d) == IF d.type = "yearMonth" THEN AsMonths(d) ELSE AsMinutes(d)
AddAmount(v, type, amount) ==
  CASE type = "yearMonth" /\ v.type = "dateTime" -> DateTimeAddYearMonth(v, amount)
    [] type = "yearMonth" /\ v.type = "date" -> DateAddYearMonth(v, amount)
    [] type = "dayTime" /\ v.type = "dateTime" -> DateTimeAddDayTime(v, amount)
    [] type = "dayTime" /\ v.type = "date" -> DateAddDayTime(v, amount)
    [] type = "dayTime" /\ v.type = "time" -> TimeAddDayTime(v, amount)
PlusDuration(v, d) == AddAmount(v, d.type, Amount(d))
MinusDuration(v, d) == AddAmount(v, d.type, -Amount(d))
============================================================================
