------------------------------ MODULE MCClock ------------------------------
(* The start times for model checking Clock: two seconds before the end of *)
(* a minute, an hour and a day, of the RTC or of the local time, and noon  *)
(* and midnight, which the 12-hour format writes as 12.                    *)
EXTENDS Clock

BootTimesValue ==
  [hh : 0 .. 23, mm : {0, 59}, ss : {58}]
    \cup {[hh |-> 0, mm |-> 0, ss |-> 0], [hh |-> 12, mm |-> 30, ss |-> 59]}
=============================================================================
