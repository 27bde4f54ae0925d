------------------------------- MODULE Clock -------------------------------
(***************************************************************************)
(* The time of day (time/clock/rtc.c, time/clock/clock.c, time/timer.c)    *)
(* and the task that displays it (print_time in vga/vga.c).  At boot, with *)
(* interrupts disabled, the clock is set from the registers of the RTC;    *)
(* from then on the timer interrupt advances it.  print_time runs with     *)
(* interrupts enabled and copies system_clock field by field, so that the  *)
(* timer may come between two fields.  The time zone is a constant.        *)
(***************************************************************************)
EXTENDS Naturals

CONSTANTS
  HZ,               \* timer interrupts per second: 1000
  TIMEZONE_OFFSET,
  BootTimes,        \* the times of day at which the kernel may be started
  MaxSeconds        \* bound: the run of the system is at most this long

ASSUME ClockAssumption ==
  /\ HZ \in Nat \ {0}
  /\ TIMEZONE_OFFSET \in 0 .. 23
  /\ MaxSeconds \in Nat
  /\ BootTimes \subseteq [hh : 0 .. 23, mm : 0 .. 59, ss : 0 .. 59]

VARIABLES
  boot,             \* the true time of day at which the kernel was started
  mode,             \* the format of the RTC: binary or BCD, 24 or 12 hours
  system_clock, tick_time, seconds,
  copy,             \* the argument of format_clock while print_time copies it
  todo,             \* the fields that are still to be copied
  since             \* the uptime when the copying began

vars == <<boot, mode, system_clock, tick_time, seconds, copy, todo, since>>

Fields == {"hh", "mm", "ss"}

-----------------------------------------------------------------------------
\* The hardware: the registers show the time t in the format of register B.
ToBCD(n) == (n \div 10) * 16 + (n % 10)

Encoded(n) == IF mode.binary THEN n ELSE ToBCD(n)

HourRegister(t) ==
  IF mode.hours24 THEN Encoded(t.hh)
  ELSE Encoded(IF t.hh % 12 = 0 THEN 12 ELSE t.hh % 12) + (IF t.hh >= 12 THEN 128 ELSE 0)

bcd_to_bin(bcd) == (bcd % 16) + (bcd \div 16) * 10

\* Mutant: the bit for PM is taken for a digit.
RtcHourWithPM(t) ==
  (IF mode.binary THEN HourRegister(t) ELSE bcd_to_bin(HourRegister(t))) % 24

\* The hour as read, before the time zone.
RtcHour(t) ==
  LET reg == HourRegister(t)
      hh  == IF mode.binary THEN reg % 128 ELSE bcd_to_bin(reg % 128)
  IN  IF ~ mode.hours24 /\ reg >= 128 THEN (hh + 12) % 24 ELSE hh

\* What the clock is set to at boot; the RTC does not change during the read,
\* since rtc_wait_ready has seen that no update is near.
read_rtc_time(t) ==
  [hh |-> (RtcHour(t) + TIMEZONE_OFFSET + 24) % 24,
   mm |-> IF mode.binary THEN Encoded(t.mm) ELSE bcd_to_bin(Encoded(t.mm)),
   ss |-> IF mode.binary THEN Encoded(t.ss) ELSE bcd_to_bin(Encoded(t.ss))]

\* init_system_clock, called by kmain before the timer is started.
Init ==
  /\ boot \in BootTimes
  /\ mode \in [binary : BOOLEAN, hours24 : BOOLEAN]
  /\ system_clock = read_rtc_time(boot)
  /\ tick_time = 0
  /\ seconds = 0
  /\ copy = system_clock
  /\ todo = {}
  /\ since = 0

-----------------------------------------------------------------------------
clock_tick(c) ==
  IF c.ss + 1 < 60 THEN [c EXCEPT !.ss = @ + 1]
  ELSE IF c.mm + 1 < 60 THEN [c EXCEPT !.ss = 0, !.mm = @ + 1]
  ELSE IF c.hh + 1 < 24 THEN [hh |-> c.hh + 1, mm |-> 0, ss |-> 0]
  ELSE [hh |-> 0, mm |-> 0, ss |-> 0]

timer_tick ==
  /\ seconds < MaxSeconds
  /\ IF tick_time + 1 >= HZ
     THEN tick_time' = 0 /\ seconds' = seconds + 1 /\ system_clock' = clock_tick(system_clock)
     ELSE tick_time' = tick_time + 1 /\ UNCHANGED <<seconds, system_clock>>
  /\ UNCHANGED <<boot, mode, copy, todo, since>>

\* Mutant: the hour is copied at the first call only.
CopyWithoutHour ==
  /\ todo = {}
  /\ todo' = {"mm", "ss"}
  /\ since' = seconds
  /\ UNCHANGED <<boot, mode, system_clock, tick_time, seconds, copy>>

\* print_time is called, and copies the fields in the order of the compiler.
print_time ==
  /\ todo = {}
  /\ todo' = Fields
  /\ since' = seconds
  /\ UNCHANGED <<boot, mode, system_clock, tick_time, seconds, copy>>

Copy(f) ==
  /\ f \in todo
  /\ copy' = [copy EXCEPT ![f] = system_clock[f]]
  /\ todo' = todo \ {f}
  /\ UNCHANGED <<boot, mode, system_clock, tick_time, seconds, since>>

Next == timer_tick \/ print_time \/ \E f \in Fields : Copy(f)

Spec == Init /\ [][Next]_vars

-----------------------------------------------------------------------------
\* The fields of the clock are times of day (clock.h: 0-23, 0-59, 0-59).
TypeOK ==
  /\ system_clock \in [hh : 0 .. 23, mm : 0 .. 59, ss : 0 .. 59]
  /\ copy \in [hh : 0 .. 23, mm : 0 .. 59, ss : 0 .. 59]
  /\ tick_time \in 0 .. HZ - 1
  /\ seconds \in 0 .. MaxSeconds
  /\ todo \subseteq Fields

SecondOfDay(t) == (t.hh * 60 + t.mm) * 60 + t.ss

\* The local time of day after n seconds of uptime.
LocalTime(n) == (SecondOfDay(boot) + TIMEZONE_OFFSET * 3600 + n) % 86400

\* The clock shows the local time at every moment, over the ends of minutes,
\* hours and days, whatever format the RTC had at boot, with one exception:
\* booted in the hour after noon or midnight with an RTC that counts 12 hours,
\* it is wrong by exactly 12 hours for ever (read_rtc_time, clock_tick).
ClockIsRight ==
  LET wrong == ~ mode.hours24 /\ boot.hh % 12 = 0
  IN  /\ TypeOK
      /\ SecondOfDay(system_clock) = (LocalTime(seconds) + IF wrong THEN 43200 ELSE 0) % 86400

\* When no minute ended while print_time copied the clock, the time it
\* displays is one the clock had during the copying: only the end of a minute
\* can tear the display.
DisplayedWasTrue ==
  LET start == (SecondOfDay(system_clock) + 86400 - (seconds - since)) % 86400
  IN  todo = {} /\ start \div 60 = SecondOfDay(system_clock) \div 60
        => SecondOfDay(copy) \in start .. start + (seconds - since)
=============================================================================
