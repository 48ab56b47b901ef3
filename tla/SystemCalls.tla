-------------------------------- MODULE SystemCalls --------------------------------
(***************************************************************************)
(* The clocks and limits of sys.c.  Time is in microseconds: `proctime`    *)
(* since the process began, `rtc` the true Unix time of the system clock,   *)
(* small here; the system counts it from the year 1.                       *)
(***************************************************************************)
EXTENDS Calendar

CONSTANTS Steps, MaxTime      \* bounds: how far a clock moves at once and at all

ASSUME SysAssumption == Steps \subseteq Nat /\ MaxTime \in Nat

VARIABLES proctime, rtc, reading, previous, sys_errno
sysVars == <<proctime, rtc, reading, previous, sys_errno>>

Second == 1000000
\* __epoch, 62135587294 seconds, as days and seconds of the day, and the days
\* from the year 1 to 1970, which `rtc` leaves out.
EpochDays == 719161
EpochSeconds == 76894
DaysTo1970 == CivilDay(1970, 0, 1) - CivilDay(1, 0, 1)

Timespec(us) == [sec |-> us \div Second, nsec |-> (us - (us \div Second) * Second) * 1000]
Monotonic == {"MONOTONIC", "MONOTONIC_RAW", "BOOTTIME", "PROCESS_CPUTIME_ID", "THREAD_CPUTIME_ID"}
Realtime == {"REALTIME", "REALTIME_COARSE", "TAI"}

clock_gettime(id) ==
  IF id \in Monotonic THEN Timespec(proctime)
  ELSE LET t == Timespec(rtc)
       IN [t EXCEPT !.sec = @ + (DaysTo1970 - EpochDays) * 86400 - EpochSeconds]

\* sysconf_soloader, in bytes and pages of 4096.
sysconf(name) ==
  CASE name = "CLK_TCK" -> 100
    [] name = "OPEN_MAX" -> 1024
    [] name = "STREAM_MAX" -> 16
    [] name \in {"PAGESIZE", "PAGE_SIZE"} -> 4096
    [] name = "THREAD_KEYS_MAX" -> 128
    [] name = "THREAD_STACK_MIN" -> 16 * 1024
    [] name = "THREAD_THREADS_MAX" -> 256
    [] name \in {"NPROCESSORS_CONF", "NPROCESSORS_ONLN"} -> 4
    [] name = "PHYS_PAGES" -> (512 * 1024 * 1024) \div 4096
    [] name = "AVPHYS_PAGES" -> (128 * 1024 * 1024) \div 4096
    [] OTHER -> -1

SysInit ==
  /\ proctime = 0 /\ rtc = 0 /\ sys_errno = "none"
  /\ reading = [id |-> "none"] /\ previous = [id |-> "none"]

Tick(d) ==
  /\ proctime + d <= MaxTime
  /\ proctime' = proctime + d
  /\ rtc' = rtc + d
  /\ UNCHANGED <<reading, previous, sys_errno>>

\* The player sets the system's clock.
SetClock(d) == rtc' = d /\ UNCHANGED <<proctime, reading, previous, sys_errno>>

ReadClock(id) ==
  /\ previous' = reading
  /\ reading' = [id |-> id, sec |-> clock_gettime(id).sec, nsec |-> clock_gettime(id).nsec,
                 unix |-> rtc \div Second]
  /\ UNCHANGED <<proctime, rtc, sys_errno>>

Sysconf(name) ==
  /\ sys_errno' = IF sysconf(name) = -1 THEN "EINVAL" ELSE sys_errno
  /\ UNCHANGED <<proctime, rtc, reading, previous>>

SysNext ==
  \/ \E d \in Steps : Tick(d) \/ SetClock(d)
  \/ \E id \in {"MONOTONIC", "REALTIME"} : ReadClock(id)
  \/ \E name \in {"PAGESIZE", "NPROCESSORS_ONLN", "unknown"} : Sysconf(name)

SysSpec == SysInit /\ [][SysNext]_sysVars

------------------------------------------------------------------------------
\* Two monotonic readings in a row never go back, whatever is done to the
\* system's clock between them, and no reading has a second in its nanoseconds.
ClocksAdvance ==
  /\ reading.id # "none" => reading.nsec \in Nat /\ reading.nsec < 1000 * Second
  /\ reading.id = "MONOTONIC" /\ previous.id = "MONOTONIC" =>
       \/ previous.sec < reading.sec
       \/ previous.sec = reading.sec /\ previous.nsec <= reading.nsec

\* Two real-time readings in a row are as far apart as the system's clock was,
\* however it was set between them.
RealtimeFollowsClock ==
  reading.id = "REALTIME" /\ previous.id = "REALTIME" =>
    reading.sec - previous.sec = reading.unix - previous.unix

\* What sys.c says of __epoch (37), "1969 years in microseconds, used to adjust
\* SCE tick to UNIX timestamp": the real-time clock reads the Unix time.
RealtimeIsUnix == reading.id = "REALTIME" => reading.sec = reading.unix

\* The clocks neither go back nor drift from the system's.
ClocksAreTrue == ClocksAdvance /\ RealtimeFollowsClock

\* The calendar's conversions and the clocks, which share no state.
TimesSpec == CalendarSpec /\ SysSpec

\* Dates are the calendar's, for every time and zone, and the clocks neither go
\* back nor drift from the system's.
TimesAreTrue == CalendarIsTrue /\ ClocksAreTrue
==============================================================================
