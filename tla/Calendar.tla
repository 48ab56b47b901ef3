------------------------------- MODULE Calendar -------------------------------
(***************************************************************************)
(* reimpl/time64.c: broken-down time for 64-bit times.  A time is a record *)
(* [day, sec]: the quotient and the remainder of the seconds by 86400, both *)
(* truncated towards zero as C divides, because TLC's integers have 32     *)
(* bits.  A date is a struct tm; tm_isdst is left out (it is always 0 or   *)
(* the library's), and so is tm_year's overflow, billions of years away.   *)
(* One function is called at a time: `converted` keeps its name, its       *)
(* arguments and what it returned, so that an invariant can relate them.   *)
(***************************************************************************)
EXTENDS Integers, FiniteSets

CONSTANTS
  Days, Seconds,   \* days since 1970 and seconds of the day
  Zones,           \* offsets of the local time, in seconds
  Years            \* years for safe_year

\* No zone is more than a day from Greenwich: check_tm asserts as much.
ASSUME CalendarAssumption ==
  /\ Days \subseteq Int /\ Seconds \subseteq Nat /\ Years \subseteq Int
  /\ \A zone \in Zones : zone \in Int /\ -86400 <= zone /\ zone <= 86400

VARIABLE converted

\* C's / and % by a positive divisor: truncated towards zero.
CDiv(a, b) == IF a >= 0 THEN a \div b ELSE -((-a) \div b)
CMod(a, b) == a - b * CDiv(a, b)

\* The time of second `sec` >= 0 after midnight of day `day`, and back.
TimeOf(day, sec) ==
  LET d == day + (sec \div 86400)
      s == sec % 86400
  IN IF d < 0 /\ s > 0 THEN [day |-> d + 1, sec |-> s - 86400]
                       ELSE [day |-> d, sec |-> s]
FloorDay(t) == IF t.sec < 0 THEN t.day - 1 ELSE t.day
FloorSec(t) == IF t.sec < 0 THEN t.sec + 86400 ELSE t.sec
Shift(t, seconds) == TimeOf(FloorDay(t) - 1, FloorSec(t) + 86400 + seconds)

------------------------------------------------------------------------------
(* The calendar by its definition, from the length of the 400-year era: the *)
(* reference for the properties and the model of libc's localtime and       *)
(* mktime, which know the offset of the local zone.                         *)
MonthStart(leap, mon) ==
  (367 * (mon + 1) - 362) \div 12 - (IF mon < 2 THEN 0 ELSE IF leap THEN 1 ELSE 2)

IsLeapYear(y) == y % 4 = 0 /\ (y % 100 # 0 \/ y % 400 = 0)

YearStart(y) ==
  LET p == y - 1
  IN 365 * p + p \div 4 - p \div 100 + p \div 400 - 719162

CivilDay(y, mon, mday) ==
  YearStart(y) + MonthStart(IsLeapYear(y), mon) + mday - 1

YearOf(day) ==
  LET guess == 400 * (day \div 146097) + ((day % 146097) * 4) \div 1461 + 1970
  IN CHOOSE y \in guess - 2 .. guess + 2 :
       YearStart(y) <= day /\ day < YearStart(y + 1)
MonthOf(leap, yday) ==
  CHOOSE m \in 0..11 : /\ MonthStart(leap, m) <= yday
                       /\ m < 11 => yday < MonthStart(leap, m + 1)

Civil(t) ==
  LET day == FloorDay(t)
      y == YearOf(day)
      yday == day - YearStart(y)
      mon == MonthOf(IsLeapYear(y), yday)
      s == FloorSec(t)
  IN [sec |-> s % 60, min |-> (s \div 60) % 60, hour |-> s \div 3600,
      mday |-> yday - MonthStart(IsLeapYear(y), mon) + 1, mon |-> mon,
      year |-> y - 1900, wday |-> (day + 4) % 7, yday |-> yday]

\* libc's localtime_r and mktime in a zone `zone` seconds east of Greenwich.
LOCALTIME_R(t, zone) == Civil(Shift(t, zone))
mktime(date, zone) ==
  Shift(TimeOf(CivilDay(date.year + 1900, date.mon, date.mday),
               date.hour * 3600 + date.min * 60 + date.sec), -zone)

------------------------------------------------------------------------------
days_in_month(leap) ==
  <<31, IF leap THEN 29 ELSE 28, 31, 30, 31, 30, 31, 31, 30, 31, 30, 31>>
julian_days_by_month(leap) ==
  IF leap THEN <<0, 31, 60, 91, 121, 152, 182, 213, 244, 274, 305, 335>>
          ELSE <<0, 31, 59, 90, 120, 151, 181, 212, 243, 273, 304, 334>>
days_in_gregorian_cycle == 365 * 400 + 100 - 4 + 1
MIN_SAFE_YEAR == 1971
MAX_SAFE_YEAR == 2037
CHEAT_DAYS == 13879
CHEAT_YEARS == 108

\* IS_LEAP and length_of_year, over tm_year (years since 1900).
IS_LEAP(n) ==
  \/ CMod(n + 1900, 400) = 0
  \/ CMod(n + 1900, 4) = 0 /\ CMod(n + 1900, 100) # 0
length_of_year(n) == IF IS_LEAP(n) THEN 366 ELSE 365

\* Days from the start of tm_year `from` to that of tm_year `to` >= from:
\* the loops that add one length_of_year per year.  A leap year is a multiple of
\* four, in tm_year too.
DaysOfYears(from, to) ==
  365 * (to - from)
  + Cardinality({q \in -((-from) \div 4) .. (to - 1) \div 4 : IS_LEAP(4 * q)})

is_exception_century(year) == CMod(year, 100) = 0 /\ CMod(year, 400) # 0

timegm64(date) ==
  LET cycles == IF date.year > 100 \/ date.year < -300
                THEN CDiv(date.year - 100, 400) ELSE 0
      orig_year == date.year - cycles * 400
      years == IF orig_year >= 70 THEN DaysOfYears(70, orig_year)
                                  ELSE -DaysOfYears(orig_year, 70)
      days == cycles * days_in_gregorian_cycle + years
              + julian_days_by_month(IS_LEAP(orig_year))[date.mon + 1]
              + date.mday - 1
  IN TimeOf(days, date.hour * 3600 + date.min * 60 + date.sec)

\* The assertions of check_tm, which hold the code to its own result.
check_tm(tm) ==
  /\ tm.sec \in 0..61
  /\ tm.min \in 0..59
  /\ tm.hour \in 0..23
  /\ tm.mon \in 0..11
  /\ tm.mday >= 1 /\ tm.mday <= days_in_month(IS_LEAP(tm.year))[tm.mon + 1]
  /\ tm.wday \in 0..6
  /\ tm.yday >= 0 /\ tm.yday <= length_of_year(tm.year)

cycle_offset(year) ==
  LET year_diff == IF year > 2000 THEN year - 2001 ELSE year - 2000
  IN (CDiv(year_diff, 100) - CDiv(year_diff, 400)) * 16

\* safe_years_high and safe_years_low are the years 2010..2037 and
\* 1971..1998, from another start.
safe_years_high(n) == IF n < 22 THEN 2016 + n ELSE 1988 + n
safe_years_low(n) == IF n < 3 THEN 1996 + n ELSE 1968 + n

safe_year(year) ==
  LET low == year < MIN_SAFE_YEAR
      year_cycle == year + cycle_offset(year)
                    - (IF low THEN 8 ELSE 0)
                    + (IF is_exception_century(year) THEN 11 ELSE 0)
                    + (IF is_exception_century(year - 1) THEN 17 ELSE 0)
      n == year_cycle % 28     \* %= SOLAR_CYCLE_LENGTH, made non-negative
  IN CASE year \in MIN_SAFE_YEAR..MAX_SAFE_YEAR -> year
       [] low -> safe_years_low(n)
       [] OTHER -> safe_years_high(n)

\* seconds_between_years, in days.  Downwards the loop adds the lengths of
\* right_year .. left + 1, not of left .. right_year - 1.
days_between_years(left_year, right_year) ==
  LET up == left_year > right_year
      cycles == CASE left_year > 2400 -> CDiv(left_year - 2400, 400)
                  [] left_year < 1600 -> CDiv(left_year - 1600, 400)
                  [] OTHER -> 0
      left == IF left_year > 2400 THEN left_year - cycles * 400
                                  ELSE left_year + cycles * 400
      loop == IF up THEN DaysOfYears(right_year - 1900, left - 1900)
                    ELSE DaysOfYears(left + 1 - 1900, right_year + 1 - 1900)
      days == cycles * days_in_gregorian_cycle + loop
  IN IF up THEN days ELSE -days

mktime64(input_date, zone) ==
  LET year == input_date.year + 1900
      date == [input_date EXCEPT !.year = safe_year(year) - 1900]
      time == mktime(date, zone)
      days == days_between_years(year, safe_year(year))
  IN IF year \in MIN_SAFE_YEAR..MAX_SAFE_YEAR
     THEN mktime(input_date, zone)
     ELSE TimeOf(FloorDay(time) + days, FloorSec(time))

\* The loops of gmtime64_r over years: upwards until less than a year is left,
\* downwards until no more than a year is missing.
YearUp(m, year) ==
  LET n == CHOOSE n \in m \div 366 .. m \div 365 :
             /\ DaysOfYears(year, year + n) <= m
             /\ m < DaysOfYears(year, year + n + 1)
  IN [m |-> m - DaysOfYears(year, year + n), year |-> year + n]
YearDown(m, year) ==
  LET n == CHOOSE n \in (-m - 1) \div 366 .. (-m - 1) \div 365 :
             /\ DaysOfYears(year + 1 - n, year + 1) < -m
             /\ -m <= DaysOfYears(year - n, year + 1)
  IN [m |-> m + DaysOfYears(year + 1 - n, year + 1), year |-> year - n]

\* The lengths of the months from `from` up to, and without, `to`.
DaysOfMonths(leap, from, to) ==
  LET before[n \in 0..12] ==
        IF n = 0 THEN 0 ELSE before[n - 1] + days_in_month(leap)[n]
  IN before[to] - before[from]

\* The loops over months: upwards while m reaches the length of the month,
\* downwards from December while it lies below its negative.
MonthUp(m, leap) ==
  LET mon == CHOOSE mon \in 0..11 : /\ DaysOfMonths(leap, 0, mon) <= m
                                   /\ m < DaysOfMonths(leap, 0, mon + 1)
  IN [m |-> m - DaysOfMonths(leap, 0, mon), mon |-> mon]
MonthDown(m, leap) ==
  LET mon == CHOOSE mon \in 0..11 : /\ DaysOfMonths(leap, mon + 1, 12) < -m
                                   /\ -m <= DaysOfMonths(leap, mon, 12)
  IN [m |-> m + DaysOfMonths(leap, mon, 12), mon |-> mon]

\* WRAP on the seconds, the minutes and the hours, in this order: each lends
\* from the next.
Borrow(v) == IF v < 0 THEN 1 ELSE 0
WRAP(sec, min, hour, day) ==
  LET min1 == min - Borrow(sec)
      hour1 == hour - Borrow(min1)
  IN [sec |-> sec + 60 * Borrow(sec), min |-> min1 + 60 * Borrow(min1),
      hour |-> hour1 + 24 * Borrow(hour1), day |-> day - Borrow(hour1)]

\* The days are counted from 1970, or from 2008 if they reach it, and whole
\* cycles of 400 years are left out, before the loops.
CountedFrom(day) ==
  IF day >= CHEAT_DAYS THEN [m |-> day - CHEAT_DAYS, year |-> CHEAT_YEARS]
                       ELSE [m |-> day, year |-> 70]
YearLoop(m, year) ==
  LET cycles == CDiv(m, days_in_gregorian_cycle) + Borrow(m)
      m1 == m - cycles * days_in_gregorian_cycle
  IN IF m >= 0 THEN YearUp(m1, year + cycles * 400)
               ELSE YearDown(m1, year - 1 + cycles * 400)
DateLoops(day) ==
  LET c == CountedFrom(day)
      y == YearLoop(c.m, c.year)
      leap == IS_LEAP(y.year)
      n == IF c.m >= 0 THEN MonthUp(y.m, leap) ELSE MonthDown(y.m, leap)
  IN [year |-> y.year, mon |-> n.mon, mday |-> n.m + 1,
      yday |-> julian_days_by_month(leap)[n.mon + 1] + n.m]

gmtime64_r(t) ==
  LET w == WRAP(CMod(t.sec, 60), CMod(CDiv(t.sec, 60), 60),
                CDiv(t.sec, 3600), t.day)
      date == DateLoops(w.day)
  IN [sec |-> w.sec, min |-> w.min, hour |-> w.hour, mday |-> date.mday,
      mon |-> date.mon, year |-> date.year, wday |-> (w.day + 4) % 7,
      yday |-> date.yday]

\* SHOULD_USE_SYSTEM_LOCALTIME: 2147483647 seconds are day 24855, second 11647.
SystemTime(t) ==
  \/ t.day \in -24854..24854
  \/ t.day = 24855 /\ t.sec <= 11647
  \/ t.day = -24855 /\ t.sec >= -11647

\* A slip: as TurnOfYear, with only the turn that lies behind corrected.
TurnOfYearOneWay(local, orig_year, month_diff) ==
  LET year == orig_year + (IF month_diff = 11 THEN -1 ELSE 0)
  IN [local EXCEPT !.year = year,
        !.yday = IF ~IS_LEAP(year) /\ @ = 365 THEN 364 ELSE @]
\* The corrections of localtime64_r for the turn of the year.
TurnOfYear(local, orig_year, month_diff) ==
  LET year == orig_year + (CASE month_diff = 11 -> -1
                             [] month_diff = -11 -> 1
                             [] OTHER -> 0)
  IN [local EXCEPT !.year = year,
        !.yday = IF ~IS_LEAP(year) /\ @ = 365 THEN 364 ELSE @]

\* The date in a year that libc can convert, and the local date made of it.
SafeDate(gm) ==
  IF gm.year > 2037 - 1900 \/ gm.year < 1970 - 1900
  THEN [gm EXCEPT !.year = safe_year(gm.year + 1900) - 1900]
  ELSE gm
Corrected(local, gm, safe) == TurnOfYear(local, gm.year, local.mon - safe.mon)
LocalOfSafe(gm, safe, zone) == Corrected(LOCALTIME_R(timegm64(safe), zone), gm, safe)
LocalOfGm(gm, zone) == LocalOfSafe(gm, SafeDate(gm), zone)

localtime64_r(t, zone) ==
  IF SystemTime(t) THEN LOCALTIME_R(t, zone) ELSE LocalOfGm(gmtime64_r(t), zone)

\* The decimal digits of an int, its sign included.
Tens == <<10, 100, 1000, 10000, 100000, 1000000, 10000000, 100000000, 1000000000>>
Digits(n) ==
  LET value == IF n < 0 THEN -n ELSE n
  IN 1 + Cardinality({k \in 1..9 : value >= Tens[k]}) + Borrow(n)

\* asctime64_r: the length of the line, -1 for NULL.  Only its length is
\* modelled: "Www Mmm ddd hh:mm:ss year\n" in a buffer of 26 bytes.
asctime64_r(date) ==
  IF ~(date.wday \in 0..6 /\ date.mon \in 0..11) \/ 1900 + date.year > 9999
  THEN -1
  ELSE 7 + (IF Digits(date.mday) > 3 THEN Digits(date.mday) ELSE 3)
         + 10 + Digits(1900 + date.year) + 1
ctime64(t, zone) == asctime64_r(localtime64_r(t, zone))

------------------------------------------------------------------------------
NotAsked == [op |-> "none"]
Times == {TimeOf(d, s) : d \in Days, s \in Seconds}

CallGmtime == converted = NotAsked /\ \E t \in Times :
  converted' = [op |-> "gmtime64", time |-> t, date |-> gmtime64_r(t)]
CallLocaltime == converted = NotAsked /\ \E t \in Times, z \in Zones :
  converted' = [op |-> "localtime64", time |-> t, zone |-> z,
                date |-> localtime64_r(t, z), line |-> ctime64(t, z)]
CallMktime == converted = NotAsked /\ \E t \in Times, z \in Zones :
  converted' = [op |-> "mktime64", date |-> Civil(Shift(t, z)), zone |-> z,
                want |-> t, time |-> mktime64(Civil(Shift(t, z)), z)]
CallSafeYear == converted = NotAsked /\ \E y \in Years :
  converted' = [op |-> "safe_year", year |-> y, safe |-> safe_year(y)]
TimeReturns == converted # NotAsked /\ converted' = NotAsked

CalendarInit == converted = NotAsked
CalendarNext == CallGmtime \/ CallLocaltime \/ CallMktime \/ CallSafeYear \/ TimeReturns
CalendarSpec == CalendarInit /\ [][CalendarNext]_converted

------------------------------------------------------------------------------
\* gmtime64_r gives the date of the Gregorian calendar for times before and
\* after 1970, also where its truncated remainders borrow from each other, and
\* timegm64 takes it back to the same time.
GmtimeIsTheDate ==
  converted.op = "gmtime64" =>
    /\ converted.date = Civil(converted.time)
    /\ check_tm(converted.date)
    /\ timegm64(converted.date) = converted.time

\* localtime64_r gives the local date, its weekday and its day of the year
\* included, for years in which it has to ask libc about another year with the
\* same calendar, across the turn of the year in either direction.
LocaltimeIsShifted ==
  converted.op = "localtime64" =>
    /\ converted.date = Civil(Shift(converted.time, converted.zone))
    /\ check_tm(converted.date)

\* A date of the years -999..9999 fits asctime64_r's 26 bytes with its NUL.
CtimeFits ==
  /\ converted.op = "localtime64"
  /\ -999 <= converted.date.year + 1900 /\ converted.date.year + 1900 <= 9999
  => converted.line \in 1..25

\* mktime64 finds the time of a local date, although it computes the distance
\* between the year and its safe year from the lengths of the wrong years when
\* it counts down.
MktimeInverts == converted.op = "mktime64" => converted.time = converted.want

\* What the comment over safe_year asks of the year it picks: the same leap
\* status and first weekday, a previous year that ends alike, and a next year
\* that starts on the same weekday.
FirstWeekday(y) == (YearStart(y) + 4) % 7
SafeYearMatches ==
  converted.op = "safe_year" =>
    /\ converted.safe \in MIN_SAFE_YEAR..MAX_SAFE_YEAR
    /\ IsLeapYear(converted.safe) = IsLeapYear(converted.year)
    /\ \A d \in -1..1 : FirstWeekday(converted.safe + d) = FirstWeekday(converted.year + d)

\* Calendar time in one invariant: every conversion gives the date it names.
CalendarIsTrue ==
  GmtimeIsTheDate /\ LocaltimeIsShifted /\ CtimeFits /\ MktimeInverts /\ SafeYearMatches
==============================================================================
