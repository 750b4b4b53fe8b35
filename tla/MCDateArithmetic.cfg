SPECIFICATION Spec
CONSTANTS
  FirstYear <- MCFirstYear
  LastYear = 2010
  MaxSteps = 3
  LongestSpan = 500000000
  ImplicitTimezone <- MCImplicitTimezone
  CurrentDate <- MCCurrentDate
  Starts <- MCStarts
  Spans <- MCSpans
  Timezones <- MCTimezones
  OtherTimes <- MCOtherTimes
  OtherDates <- MCOtherDates
  Origin <- MCOrigin
INVARIANT FieldsShown
INVARIANT TextKeepsValue
INVARIANT DistancesKept
CHECK_DEADLOCK FALSE
