--------------------------- MODULE MCDateArithmetic ---------------------------
(***************************************************************************)
(* Literals at the seams of the calendar: around the missing year 0, leap  *)
(* days before and after it, the ends of 4, 100 and 400 years; each with   *)
(* the timezones that move it across the seam.  The 29 February of -100    *)
(* and the zone beyond 14 hours are not accepted.                          *)
(***************************************************************************)
EXTENDS DateArithmetic

Zone(sign, hour, minute) == [sign |-> sign, hour |-> hour, minute |-> minute]
UTC == Zone("Z", 0, 0)
Date(year, month, day) == [year |-> FormatNumber(year), month |-> month, day |-> day]
Time(hour, minute) == [hour |-> hour, minute |-> minute]

DateTimeLit(d, t, z) == [type |-> "dateTime", text |-> [date |-> d, time |-> t, zone |-> z]]
DateLit(d, z) == [type |-> "date", text |-> [date |-> d, zone |-> z]]
TimeLit(t, z) == [type |-> "time", text |-> [time |-> t, zone |-> z]]

MCStarts == {
  DateTimeLit(Date(-1, 12, 31), Time(23, 30), NoZone),
  DateTimeLit(Date(1, 1, 1), Time(3, 0), Zone("+", 14, 0)),
  DateTimeLit(Date(-4, 2, 29), Time(12, 0), UTC),
  DateTimeLit(Date(400, 12, 31), Time(24, 0), NoZone),
  DateTimeLit(Date(2000, 1, 31), Time(0, 0), Zone("+", 0, 45)),
  DateTimeLit(Date(-400, 12, 31), Time(22, 15), Zone("-", 5, 30)),
  DateLit(Date(-401, 12, 31), NoZone),
  DateLit(Date(-1, 12, 31), UTC),
  DateLit(Date(4, 2, 28), NoZone),
  DateLit(Date(-5, 12, 31), Zone("-", 11, 0)),
  DateLit(Date(100, 3, 31), Zone("-", 0, 30)),
  DateLit(Date(-4, 12, 31), Zone("+", 5, 30)),
  DateLit(Date(-101, 1, 1), Zone("-", 14, 0)),
  DateLit(Date(-100, 2, 29), NoZone),
  DateLit(Date(1900, 2, 28), Zone("+", 14, 1)),
  TimeLit(Time(24, 0), NoZone),
  TimeLit(Time(1, 30), Zone("-", 5, 30)) }

MCSpans == {
  [type |-> "dayTime", months |-> 0, minutes |-> 1440],
  [type |-> "dayTime", months |-> 0, minutes |-> -(26 * 60 + 30)],
  [type |-> "yearMonth", months |-> 13, minutes |-> 0],
  [type |-> "yearMonth", months |-> -12, minutes |-> 0],
  [type |-> "duration", months |-> -5, minutes |-> -1501] }

MCTimezones == {0, -(5 * 60 + 30), 14 * 60, 14 * 60 + 1}
MCOtherTimes == {[time |-> Time(23, 59), zone |-> Zone("-", 5, 30)], [time |-> Time(24, 0), zone |-> NoZone]}
MCOtherDates == {[date |-> Date(-1, 12, 31), zone |-> UTC], [date |-> Date(-1, 1, 1), zone |-> NoZone]}

MCOrigin == [
  dateTime |-> [date |-> Date(4, 2, 29), time |-> Time(12, 0), zone |-> NoZone],
  date |-> [date |-> Date(4, 2, 29), zone |-> NoZone],
  time |-> [time |-> Time(12, 0), zone |-> NoZone] ]

MCFirstYear == -420
MCImplicitTimezone == -60
MCCurrentDate == [year |-> 2000, month |-> 2, day |-> 29]
=============================================================================
