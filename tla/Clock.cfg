\* Starts just before the ends of a minute, an hour and a day, of the RTC and
\* of the local time.
SPECIFICATION Spec
CONSTANTS
  HZ = 2
  TIMEZONE_OFFSET = 7
  MaxSeconds = 4
  BootTimes <- BootTimesValue
INVARIANTS
  
  DisplayedWasTrue
