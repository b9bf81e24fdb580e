------------------------------ MODULE Calendar ------------------------------
(***************************************************************************)
(* TimeRange and DateTime (include/datetime.hpp).  A date is a tuple of    *)
(* year, month, day, hour, minute and second; a range is its seconds.  The *)
(* units of the clock are parameters, so that a run can shorten the day    *)
(* and keep the numbers within TLC's integers.                             *)
(***************************************************************************)
EXTENDS Sums, Sequences

CONSTANTS HoursPerDay, MinutesPerHour, SecondsPerMinute   \* 24, 60, 60

ASSUME ClockAssumption ==
  /\ HoursPerDay \in Nat \ {0} /\ MinutesPerHour \in Nat \ {0}
  /\ SecondsPerMinute \in Nat \ {0}

SECONDS_PER_HOUR == MinutesPerHour * SecondsPerMinute
SECONDS_PER_DAY == HoursPerDay * SECONDS_PER_HOUR

FromDdHhMmSs(days, hours, minutes, secs) ==
  secs + minutes * SecondsPerMinute + hours * SECONDS_PER_HOUR + days * SECONDS_PER_DAY

is_leap_year(y) == (y % 4 = 0 /\ y % 100 # 0) \/ y % 400 = 0

days_in_year(y) == IF is_leap_year(y) THEN 366 ELSE 365

days_in_month(y, m) ==
  IF m = 2 /\ is_leap_year(y) THEN 29
  ELSE <<31, 28, 31, 30, 31, 30, 31, 31, 30, 31, 30, 31>>[m]

\* validate
Valid(d) ==
  /\ d[1] >= 1970 /\ d[2] \in 1..12 /\ d[3] \in 1..days_in_month(d[1], d[2])
  /\ d[4] \in 0..(HoursPerDay - 1) /\ d[5] \in 0..(MinutesPerHour - 1)
  /\ d[6] \in 0..(SecondsPerMinute - 1)

\* operator<, the first field that differs decides.
Before(d, e) == \E i \in 1..6 : d[i] < e[i] /\ \A j \in 1..(i - 1) : d[j] = e[j]
AtMost(d, e) == ~Before(e, d)

\* The lengths of the years, and of the months of year y.
YearDays == [y \in Nat |-> days_in_year(y)]
MonthDays(y) == [m \in 1..12 |-> days_in_month(y, m)]

UnixSeconds(d) ==
  FromDdHhMmSs(Sum(YearDays, 1970, d[1]) + Sum(MonthDays(d[1]), 1, d[2]) + d[3] - 1,
               d[4], d[5], d[6])

\* The two loops of FromUnixSeconds, over the lengths of the years or months
\* from the i-th: <<days left, the year or month they are left in>>.
TakeOff_BUG(length, days, i) ==
  LET loop[s \in Nat \X Nat] ==
        IF s[2] \in DOMAIN length /\ s[1] > 0 /\ s[1] > length[s[2]]
        THEN loop[<<s[1] - length[s[2]], s[2] + 1>>] ELSE s
  IN  loop[<<days, i>>]

TakeOff(length, days, i) ==
  LET loop[s \in Nat \X Nat] ==
        IF s[2] \in DOMAIN length /\ s[1] > 0 /\ s[1] >= length[s[2]]
        THEN loop[<<s[1] - length[s[2]], s[2] + 1>>] ELSE s
  IN  loop[<<days, i>>]

YearsOff(days) == TakeOff(YearDays, days, 1970)
MonthsOff(days, y) == TakeOff(MonthDays(y), days, 1)

FromUnixSeconds(secs) ==
  LET year == YearsOff(secs \div SECONDS_PER_DAY)
      month == MonthsOff(year[1], year[2])
      rest == secs % SECONDS_PER_DAY
  IN  <<year[2], month[2], month[1] + 1, rest \div SECONDS_PER_HOUR,
        (rest % SECONDS_PER_HOUR) \div SecondsPerMinute,
        (rest % SECONDS_PER_HOUR) % SecondsPerMinute>>

\* operator+ and operator-.
Plus(d, range) == FromUnixSeconds(UnixSeconds(d) + range)
Minus(d, e) == UnixSeconds(d) - UnixSeconds(e)
=============================================================================
