---------------------------- MODULE SqlDateTime ----------------------------
(***************************************************************************)
(* Dates and intervals (SQL/EX datetime.go).                                *)
(*                                                                          *)
(* A point in time is a day, counted from 1970-01-01, and a second of that    *)
(* day; the text it is stored as is not modelled.                            *)
(***************************************************************************)
EXTENDS SqlValues

VTime(d, s) == [t |-> "time", day |-> d, sec |-> s]
VInterval(x, u) == [t |-> "interval", amount |-> x, unit |-> u]
DaySeconds == 86400

\* The calendar of package time: day number of a year, month and day (the month or the day may
\* lie outside its range, and is carried over), and back.
DaysFromCivil(year, month, day) ==
  LET y0 == year + ((month - 1) \div 12)
      m == ((month - 1) % 12) + 1
      y == IF m <= 2 THEN y0 - 1 ELSE y0
      era == y \div 400
      yoe == y - era * 400
      doy == (153 * (m + (IF m > 2 THEN -3 ELSE 9)) + 2) \div 5
  IN era * 146097 + yoe * 365 + (yoe \div 4) - (yoe \div 100) + doy + day - 1 - 719468
CivilFromDays(d) ==
  LET z == d + 719468
      era == z \div 146097
      doe == z - era * 146097
      yoe == (doe - (doe \div 1460) + (doe \div 36524) - (doe \div 146096)) \div 365
      doy == doe - (365 * yoe + (yoe \div 4) - (yoe \div 100))
      mp == (5 * doy + 2) \div 153
      m == mp + (IF mp < 10 THEN 3 ELSE -9)
  IN [year |-> yoe + era * 400 + (IF m <= 2 THEN 1 ELSE 0),
      month |-> m,
      day |-> doy - ((153 * mp + 2) \div 5) + 1]

\* julianDay, doubled: the code adds halves. 365.25 and 30.6001 are floats the code truncates.
JulianNoLeap(t) ==
  LET c == CivilFromDays(t.day)
      y == IF c.month <= 2 THEN c.year - 1 ELSE c.year
      m == IF c.month <= 2 THEN c.month + 12 ELSE c.month
  IN 2 * ((36525 * (y + 4716)) \div 100 + (306001 * (m + 1)) \div 10000 + c.day) - 3049
JulianDay2(t) ==
  LET c == CivilFromDays(t.day)
      leap(a) == 2 - a + TruncDiv(a, 4)
      day2(y, m) ==
        2 * ((36525 * (y + 4716)) \div 100 + (306001 * (m + 1)) \div 10000 + c.day + leap(TruncDiv(y, 100))) - 3049
  IN IF c.month <= 2 THEN day2(c.year - 1, c.month + 12) ELSE day2(c.year, c.month)

AddSeconds(t, s) ==
  VTime(t.day + ((t.sec + s) \div DaySeconds), (t.sec + s) % DaySeconds)
DateAdd(t, x, unit) ==
  LET c == CivilFromDays(t.day)
  IN CASE unit = "YEAR" -> VTime(DaysFromCivil(c.year + x, c.month, c.day), t.sec)
       [] unit = "MONTH" -> VTime(DaysFromCivil(c.year, c.month + x, c.day), t.sec)
       [] unit = "DAY" -> VTime(t.day + x, t.sec)
       [] unit = "HOUR" -> AddSeconds(t, 3600 * x)
       [] unit = "MINUTE" -> AddSeconds(t, 60 * x)
       [] unit = "SECOND" -> AddSeconds(t, x)
DateSub(t, x, unit) == DateAdd(t, -x, unit)
\* Whole units between two times, towards zero; months and years by the calendar fields.
DateDiff(x, y, unit) ==
  LET cx == CivilFromDays(x.day)
      cy == CivilFromDays(y.day)
      secs == (x.day - y.day) * DaySeconds + x.sec - y.sec
  IN CASE unit = "YEAR" -> cx.year - cy.year
       [] unit = "MONTH" -> (cx.year - cy.year) * 12 + cx.month - cy.month
       [] unit = "DAY" -> TruncDiv(secs, DaySeconds)
       [] unit = "HOUR" -> TruncDiv(secs, 3600)
       [] unit = "MINUTE" -> TruncDiv(secs, 60)
       [] unit = "SECOND" -> secs
ExtractField(f, t) ==
  LET c == CivilFromDays(t.day)
  IN CASE f = "YEAR" -> c.year
       [] f = "MONTH" -> c.month
       [] f = "DAY" -> c.day
       [] f = "HOUR" -> t.sec \div 3600
       [] f = "MINUTE" -> (t.sec % 3600) \div 60
       [] f = "SECOND" -> t.sec % 60
       [] f = "DOW" -> (t.day + 4) % 7
       [] f = "DOY" -> t.day - DaysFromCivil(c.year, 1, 1) + 1

\* toTime: an integer is a Unix time.
ToTime(v) ==
  CASE v.t = "time" -> v
    [] v.t = "int" -> VTime(v.n \div DaySeconds, v.n % DaySeconds)
    [] OTHER -> ERR
\* + and - with a date or an interval; ERR when the operands are for arithmetic.
DateArith(op, l, r) ==
  CASE op = "+" /\ r.t = "interval" /\ l.t = "time" -> DateAdd(l, r.amount, r.unit)
    [] op = "+" /\ l.t = "interval" /\ r.t = "time" -> DateAdd(r, l.amount, l.unit)
    [] op = "-" /\ r.t = "interval" ->
         IF ToTime(l) = ERR THEN NULL ELSE DateSub(ToTime(l), r.amount, r.unit)
    [] op = "-" /\ l.t = "time" /\ ToTime(r) # ERR -> VInt(DateDiff(l, ToTime(r), "DAY"))
    [] OTHER -> ERR
=============================================================================
