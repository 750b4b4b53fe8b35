----------------------------- MODULE DateUtils -----------------------------
(***************************************************************************)
(* The calendar arithmetic of src/utils/DateUtils.cpp and the timezones of *)
(* src/items/Timezone.cpp.  MAPM numbers are integers here; the unit of a  *)
(* point in time is the minute (the code counts seconds, which no          *)
(* operation treats differently from minutes).  Day 0 is 0001-01-01; there *)
(* is no year 0, and a year is a leap year by its number, also before it.  *)
(***************************************************************************)
EXTENDS Integers

MinutesPerHour == 60
MinutesPerDay == 24 * MinutesPerHour
MaxHour == 14

(* MAPM integer_divide and integer_div_rem truncate towards zero, where    *)
(* \div and % are the floor and DateUtils::modulo.                         *)
IntegerDivide(a, b) == IF a >= 0 THEN a \div b ELSE -((-a) \div b)
Remainder(a, b) == a - b * IntegerDivide(a, b)

Abs(n) == IF n < 0 THEN -n ELSE n

IsLeapYear(year) == year % 4 = 0 /\ (year % 400 = 0 \/ year % 100 # 0)

(* A month outside 1..12 is counted into the neighbouring years.           *)
MaximumDayInMonthFor(year, month) ==
  LET m == ((month - 1) % 12) + 1
      y == year + (month - 1) \div 12
  IN CASE m \in {1, 3, 5, 7, 8, 10, 12} -> 31
       [] m \in {4, 6, 9, 11} -> 30
       [] m = 2 -> IF IsLeapYear(y) THEN 29 ELSE 28

DaysBeforeMonth == <<0, 31, 59, 90, 120, 151, 181, 212, 243, 273, 304, 334>>
DaysBeforeMonthLeap == <<0, 31, 60, 91, 121, 152, 182, 213, 244, 274, 305, 335>>
DaysBefore(year) == IF IsLeapYear(year) THEN DaysBeforeMonthLeap ELSE DaysBeforeMonth

\* Mutant: the year before is one earlier also before year 1.
PrevYear_Earlier(year) == year - 1

(* A year before the first is its own "previous year": the leap days of    *)
(* prevYear years are counted from year 1 backwards.                       *)
PrevYear(year) == IF year < 0 THEN year ELSE year - 1

ConvertDMY2Absolute(day, month, year) ==
  LET prevYear == PrevYear(year)
  IN prevYear * 365 + IntegerDivide(prevYear, 4) - IntegerDivide(prevYear, 100)
       + IntegerDivide(prevYear, 400) + DaysBefore(year)[month] + day - 1

DaysIn400Years == 400 * 365 + 97
DaysIn100Years == 100 * 365 + 24
DaysIn4Years == 4 * 365 + 1

(* One step of the division: a quotient that would count a fifth part (the *)
(* last day of a leap period) is one less, on the positive side only.      *)
Part(days, length) ==
  LET div == IntegerDivide(days, length)
      rem == Remainder(days, length)
  IN IF div >= 4 THEN [div |-> div - 1, rem |-> rem + length] ELSE [div |-> div, rem |-> rem]

(* The month is the last one that begins before the day of the year; day 0 *)
(* of a year is its 31 December.                                           *)
MonthAndDay(year, dayOfYear) ==
  LET before == DaysBefore(year)
      begun == {m \in 1..12 : dayOfYear > before[m]}
      month == CHOOSE m \in begun : \A n \in begun : n <= m
  IN IF begun = {} THEN [year |-> year, month |-> 12, day |-> 31]
     ELSE [year |-> year, month |-> month, day |-> dayOfYear - before[month]]

\* Mutant: the quotient that ends a period before year 1 is not put right.
Fix_Forgotten(centuries, years) == FALSE

(* "fix" is the negative counterpart of the fifth part: the quotient stays, *)
(* and the day is the first of the year that it names.                     *)
Fix(centuries, years) == years.rem = 0 /\ (centuries.div <= -4 \/ years.div <= -4)

ConvertAbsolute2DMY(absolute) ==
  LET days == absolute + 1
      in400 == Remainder(days, DaysIn400Years)
      centuries == Part(in400, DaysIn100Years)
      in4 == Remainder(centuries.rem, DaysIn4Years)
      years == Part(in4, 365)
      year == 400 * IntegerDivide(days, DaysIn400Years) + 100 * centuries.div
                + 4 * IntegerDivide(centuries.rem, DaysIn4Years) + years.div
  IN IF days <= 0
     THEN IF Fix(centuries, years) THEN MonthAndDay(year, 1)
          ELSE MonthAndDay(year - 1, years.rem + IF IsLeapYear(year - 1) THEN 366 ELSE 365)
     ELSE MonthAndDay(IF years.rem # 0 THEN year + 1 ELSE year, years.rem)

(* A number printed by formatNumber: its sign and its digits.              *)
FormatNumber(n) == [negative |-> n < 0, digits |-> Abs(n)]
ReadNumber(t) == IF t.negative THEN -t.digits ELSE t.digits

---------------------------------------------------------------------------
(* Timezones, as their offset in minutes.                                  *)
Convert(positive, hour, minute) ==
  (hour * MinutesPerHour + minute) * (IF positive THEN 1 ELSE -1)

Valid(timezone) == Abs(timezone) <= MaxHour * MinutesPerHour

\* Mutant: hours and minutes are divided by floor, not towards zero.
TimezoneAsString_Floor(timezone) ==
  IF timezone = 0 THEN [sign |-> "Z", hour |-> 0, minute |-> 0]
  ELSE [sign |-> IF timezone > 0 THEN "+" ELSE "-",
        hour |-> Abs(timezone \div MinutesPerHour), minute |-> timezone % MinutesPerHour]

TimezoneAsString(timezone) ==
  IF timezone = 0 THEN [sign |-> "Z", hour |-> 0, minute |-> 0]
  ELSE [sign |-> IF timezone > 0 THEN "+" ELSE "-",
        hour |-> Abs(IntegerDivide(timezone, MinutesPerHour)),
        minute |-> Abs(Remainder(timezone, MinutesPerHour))]

(* What the parsers of the date types make of a zone.                      *)
NoZone == [sign |-> "", hour |-> 0, minute |-> 0]
ReadTimezone(zone) == Convert(zone.sign # "-", zone.hour, zone.minute)
============================================================================
