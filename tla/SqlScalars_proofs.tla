------------------------- MODULE SqlScalars_proofs -------------------------
(***************************************************************************)
(* Arithmetic, LIKE and the calendar do what they stand for, whatever the     *)
(* width of integers and floats, the strings and the points in time.          *)
(***************************************************************************)
EXTENDS SqlScalars, Loops

\* What a quotient is, and a remainder.
LEMMA DivFacts ==
  ASSUME NEW x \in Int, NEW k \in Nat, k > 0
  PROVE  x \div k \in Int /\ k * (x \div k) <= x /\ x < k * (x \div k) + k
OBVIOUS

LEMMA ModFacts ==
  ASSUME NEW x \in Int, NEW k \in Nat, k > 0
  PROVE  x \div k \in Int /\ k * (x \div k) + (x % k) = x /\ x % k \in 0..(k - 1)
OBVIOUS

(***************************************************************************)
(* The calendar                                                             *)
(***************************************************************************)

YearsOfEra == 0..399
DaysOfYear == 0..365
MonthsOfYear == 0..11

\* In an era of 400 years, in year y of it counted from March, is the month m counted from March: the
\* year and the month of a date there, the days before the month, and the number of a day of it.
YearAt(a, y, m) == y + a * 400 + (IF m >= 10 THEN 1 ELSE 0)
MonthAt(m) == IF m < 10 THEN m + 3 ELSE m - 9
DaysBefore(m) == (153 * m + 2) \div 5
YearStart(a, y) == a * 146097 + y * 365 + (y \div 4) - (y \div 100) - 719468

\* Day d is day n of year y of era a, in month m of that year.
Civil(d, a, y, n, m) ==
  /\ d = YearStart(a, y) + n
  /\ CivilFromDays(d).year = YearAt(a, y, m)
  /\ CivilFromDays(d).month = MonthAt(m)
  /\ CivilFromDays(d).day = n - DaysBefore(m) + 1
  /\ 153 * m <= 5 * n + 2 /\ 5 * n + 2 < 153 * m + 153

\* The inequalities behind the year of an era.
LEMMA YearBounds ==
  ASSUME NEW e \in Int, NEW y \in Int, NEW a \in Int, NEW b \in Int, NEW c \in Int, NEW p \in Int, NEW q \in Int,
         0 <= e, e <= 146096,
         1460 * a <= e, e < 1460 * a + 1460, 36524 * b <= e, e < 36524 * b + 36524,
         146096 * c <= e, e < 146096 * c + 146096,
         4 * p <= y, y < 4 * p + 4, 100 * q <= y, y < 100 * q + 100,
         365 * y <= e - a + b - c, e - a + b - c < 365 * y + 365
  PROVE  0 <= y /\ y <= 399 /\ 0 <= e - (365 * y + p - q) /\ e - (365 * y + p - q) <= 365
BY SMTT(60)

\* The year of the era and the day of the year are in their ranges, with leap years and centuries.
LEMMA YearInEra ==
  ASSUME NEW e \in Int, 0 <= e, e <= 146096, NEW y \in Int,
         y = (e - (e \div 1460) + (e \div 36524) - (e \div 146096)) \div 365
  PROVE  /\ 0 <= y /\ y <= 399
         /\ 0 <= e - (365 * y + (y \div 4) - (y \div 100))
         /\ e - (365 * y + (y \div 4) - (y \div 100)) <= 365
<1> DEFINE a == e \div 1460
           b == e \div 36524
           c == e \div 146096
           p == y \div 4
           q == y \div 100
<1>1. a \in Int /\ 1460 * a <= e /\ e < 1460 * a + 1460
  BY DivFacts
<1>2. b \in Int /\ 36524 * b <= e /\ e < 36524 * b + 36524
  BY DivFacts
<1>3. c \in Int /\ 146096 * c <= e /\ e < 146096 * c + 146096
  BY DivFacts
<1>4. p \in Int /\ q \in Int /\ 4 * p <= y /\ y < 4 * p + 4 /\ 100 * q <= y /\ y < 100 * q + 100
  BY DivFacts
<1>5. 365 * y <= e - a + b - c /\ e - a + b - c < 365 * y + 365
  <2>1. e - a + b - c \in Int /\ y = (e - a + b - c) \div 365
    BY <1>1, <1>2, <1>3
  <2> HIDE DEF a, b, c
  <2> QED
    BY <2>1, DivFacts
<1> HIDE DEF a, b, c, p, q
<1>6. /\ 0 <= y /\ y <= 399
      /\ 0 <= e - (365 * y + p - q) /\ e - (365 * y + p - q) <= 365
  BY <1>1, <1>2, <1>3, <1>4, <1>5, YearBounds
<1> QED
  BY <1>6 DEF p, q

LEMMA CivilFacts ==
  ASSUME NEW d \in Int
  PROVE  \E a \in Int, y \in YearsOfEra, n \in DaysOfYear, m \in MonthsOfYear : Civil(d, a, y, n, m)
<1> DEFINE z == d + 719468
           a == z \div 146097
           e == z - a * 146097
           y == (e - (e \div 1460) + (e \div 36524) - (e \div 146096)) \div 365
           n == e - (365 * y + (y \div 4) - (y \div 100))
           m == (5 * n + 2) \div 153
           mo == m + (IF m < 10 THEN 3 ELSE -9)
<1>1. CivilFromDays(d) = [year |-> y + a * 400 + (IF mo <= 2 THEN 1 ELSE 0), month |-> mo,
                          day |-> n - ((153 * m + 2) \div 5) + 1]
  BY DEF CivilFromDays
<1>2. z \in Int /\ a \in Int /\ e \in Int /\ 0 <= e /\ e <= 146096
  <2>1. z \in Int
    OBVIOUS
  <2> HIDE DEF z
  <2>2. a \in Int /\ 146097 * a <= z /\ z < 146097 * a + 146097
    BY <2>1, DivFacts
  <2> HIDE DEF a
  <2> QED
    BY <2>1, <2>2
<1>3. z = a * 146097 + e
  <2> HIDE DEF z, a
  <2> QED
    BY <1>2
<1> HIDE DEF z, a, e
<1>4. y \in Int /\ 0 <= y /\ y <= 399 /\ n \in Int /\ 0 <= n /\ n <= 365 /\ y \div 4 \in Int /\ y \div 100 \in Int
  <2>1. e \div 1460 \in Int /\ e \div 36524 \in Int /\ e \div 146096 \in Int
    BY <1>2, DivFacts
  <2>2. y \in Int
    BY <1>2, <2>1, DivFacts
  <2>3. 0 <= y /\ y <= 399 /\ 0 <= n /\ n <= 365
    <3> HIDE DEF y
    <3> USE DEF n
    <3> QED
      BY <1>2, <2>2, YearInEra DEF y
  <2>4. y \div 4 \in Int /\ y \div 100 \in Int
    <3> HIDE DEF y
    <3> QED
      BY <2>2, DivFacts
  <2> HIDE DEF y
  <2> QED
    BY <1>2, <2>2, <2>3, <2>4
<1>5. z = a * 146097 + 365 * y + (y \div 4) - (y \div 100) + n
  <2> HIDE DEF y
  <2> QED
    BY <1>2, <1>3, <1>4 DEF n
<1> HIDE DEF y, n
<1>6. m \in Int /\ 153 * m <= 5 * n + 2 /\ 5 * n + 2 < 153 * m + 153
  <2>1. 5 * n + 2 \in Int
    BY <1>4
  <2> QED
    BY <2>1, DivFacts
<1> HIDE DEF m
<1>7. m \in MonthsOfYear
  <2>1. n \in Int /\ 0 <= n /\ n <= 365
    BY <1>4
  <2>2. m >= 0 /\ m <= 11
    BY <1>6, <2>1
  <2> QED
    BY <1>6, <2>2 DEF MonthsOfYear
<1>8. mo = MonthAt(m) /\ (mo <= 2 <=> m >= 10)
  BY <1>7 DEF MonthAt, MonthsOfYear
<1> HIDE DEF mo
<1>9. y + a * 400 + (IF mo <= 2 THEN 1 ELSE 0) = YearAt(a, y, m)
  BY <1>8 DEF YearAt
<1>10. d = YearStart(a, y) + n
  <2> DEFINE p == y \div 4
             q == y \div 100
  <2> HIDE DEF p, q
  <2>1. p \in Int /\ q \in Int /\ z = a * 146097 + 365 * y + p - q + n
    BY <1>4, <1>5 DEF p, q
  <2>2. d = (a * 146097 + y * 365 + p - q - 719468) + n
    BY <1>2, <1>4, <2>1 DEF z
  <2> QED
    BY <2>2 DEF p, q, YearStart
<1>11. /\ CivilFromDays(d).year = YearAt(a, y, m)
       /\ CivilFromDays(d).month = MonthAt(m)
       /\ CivilFromDays(d).day = n - DaysBefore(m) + 1
  BY <1>1, <1>8, <1>9 DEF DaysBefore
<1>12. Civil(d, a, y, n, m)
  BY <1>6, <1>10, <1>11, Zenon DEF Civil
<1>13. y \in YearsOfEra /\ n \in DaysOfYear /\ a \in Int
  BY <1>2, <1>4 DEF YearsOfEra, DaysOfYear
<1> QED
  BY <1>7, <1>12, <1>13, Zenon

\* The year of the era the month falls in: with eras of 400 years, a year is taken apart again.
LEMMA EraOfYear ==
  ASSUME NEW a \in Int, NEW y \in YearsOfEra
  PROVE  (y + a * 400) \div 400 = a /\ y + a * 400 \in Int
<1> USE DEF YearsOfEra
<1>1. y + a * 400 \in Int
  OBVIOUS
<1> DEFINE b == (y + a * 400) \div 400
<1>2. b \in Int /\ 400 * b <= y + a * 400 /\ y + a * 400 < 400 * b + 400
  BY <1>1, DivFacts
<1> HIDE DEF b
<1>3. b = a
  BY <1>2
<1> QED
  BY <1>1, <1>3 DEF b

\* The number of a day of a month.
LEMMA DaysOf ==
  ASSUME NEW a \in Int, NEW y \in YearsOfEra, NEW m \in MonthsOfYear, NEW day \in Int
  PROVE  DaysFromCivil(YearAt(a, y, m), MonthAt(m), day) = YearStart(a, y) + DaysBefore(m) + day - 1
<1> USE DEF YearsOfEra, MonthsOfYear
<1> DEFINE year == y + a * 400 + (IF m >= 10 THEN 1 ELSE 0)
           month == IF m < 10 THEN m + 3 ELSE m - 9
           y0 == year + ((month - 1) \div 12)
           mm == ((month - 1) % 12) + 1
           yy == IF mm <= 2 THEN y0 - 1 ELSE y0
           era == yy \div 400
           yoe == yy - era * 400
           doy == (153 * (mm + (IF mm > 2 THEN -3 ELSE 9)) + 2) \div 5
<1>1. DaysFromCivil(year, month, day)
        = era * 146097 + yoe * 365 + (yoe \div 4) - (yoe \div 100) + doy + day - 1 - 719468
  BY DEF DaysFromCivil
<1>2. month \in 1..12 /\ (month <= 2 <=> m >= 10) /\ month + (IF month > 2 THEN -3 ELSE 9) = m
  OBVIOUS
<1>3. (month - 1) \div 12 = 0 /\ (month - 1) % 12 = month - 1
  <2> HIDE DEF month
  <2> QED
    BY <1>2
<1>4. year \in Int
  OBVIOUS
<1>5. mm = month /\ y0 = year
  <2> HIDE DEF month, year
  <2> QED
    BY <1>2, <1>3, <1>4
<1>6. yy = y + a * 400
  <2> HIDE DEF mm, y0, month
  <2> QED
    BY <1>2, <1>5
<1>7. era = a /\ yoe = y
  <2> HIDE DEF yy
  <2>1. era = a
    BY <1>6, EraOfYear
  <2> HIDE DEF era
  <2> QED
    BY <1>6, <2>1
<1>8. doy = (153 * m + 2) \div 5
  <2> HIDE DEF mm, month
  <2> QED
    BY <1>2, <1>5
<1> HIDE DEF year, month, era, yoe, doy
<1>9. DaysFromCivil(year, month, day) = a * 146097 + y * 365 + (y \div 4) - (y \div 100) + ((153 * m + 2) \div 5) + day - 1 - 719468
  BY <1>1, <1>7, <1>8
<1>10. year = YearAt(a, y, m) /\ month = MonthAt(m)
  BY DEF year, month, YearAt, MonthAt
<1> DEFINE p == y \div 4
           q == y \div 100
           k == (153 * m + 2) \div 5
<1>11. p \in Int /\ q \in Int
  BY DivFacts
<1>12. k \in Int
  <2>1. 153 * m + 2 \in Int
    OBVIOUS
  <2> QED
    BY <2>1, DivFacts
<1> HIDE DEF p, q, k
<1>13. DaysFromCivil(year, month, day) = a * 146097 + y * 365 + p - q + k + day - 1 - 719468
  BY <1>9 DEF p, q, k
<1>14. DaysFromCivil(year, month, day) = (a * 146097 + y * 365 + p - q - 719468) + k + day - 1
  BY <1>11, <1>12, <1>13
<1> QED
  BY <1>10, <1>14 DEF p, q, k, YearStart, DaysBefore

\* What the parts of a date are.
LEMMA PartTypes ==
  ASSUME NEW a \in Int, NEW y \in YearsOfEra, NEW m \in MonthsOfYear
  PROVE  YearStart(a, y) \in Int /\ DaysBefore(m) \in Int /\ YearAt(a, y, m) \in Int /\ MonthAt(m) \in 1..12
<1> USE DEF YearsOfEra, MonthsOfYear
<1> DEFINE p == y \div 4
           q == y \div 100
<1>1. p \in Int /\ q \in Int
  BY DivFacts
<1>2. DaysBefore(m) \in Int
  <2>1. 153 * m + 2 \in Int
    OBVIOUS
  <2> QED
    BY <2>1, DivFacts DEF DaysBefore
<1> HIDE DEF p, q
<1>3. a * 146097 + y * 365 + p - q - 719468 \in Int
  BY <1>1
<1>4. YearStart(a, y) \in Int
  BY <1>3 DEF p, q, YearStart
<1> QED
  BY <1>2, <1>4 DEF YearAt, MonthAt

LEMMA StartType ==
  ASSUME NEW a \in Int, NEW y \in YearsOfEra
  PROVE  YearStart(a, y) \in Int
<1>1. 10 \in MonthsOfYear
  BY DEF MonthsOfYear
<1> QED
  BY <1>1, PartTypes

\* A date, taken apart and put together, is the same day.
LEMMA DaysInverse ==
  ASSUME NEW d \in Int
  PROVE  LET c == CivilFromDays(d) IN DaysFromCivil(c.year, c.month, c.day) = d
<1> DEFINE c == CivilFromDays(d)
<1>1. PICK a \in Int, y \in YearsOfEra, n \in DaysOfYear, m \in MonthsOfYear : Civil(d, a, y, n, m)
  BY CivilFacts, Zenon
<1>2. /\ d = YearStart(a, y) + n /\ c.year = YearAt(a, y, m) /\ c.month = MonthAt(m)
      /\ c.day = n - DaysBefore(m) + 1
  BY <1>1, Zenon DEF Civil
<1>3. YearStart(a, y) \in Int /\ DaysBefore(m) \in Int
  BY PartTypes, Zenon
<1>n. n \in Int
  BY DEF DaysOfYear
<1> HIDE DEF c
<1>4. c.day \in Int
  BY <1>2, <1>3, <1>n
<1>5. DaysFromCivil(YearAt(a, y, m), MonthAt(m), c.day) = YearStart(a, y) + DaysBefore(m) + c.day - 1
  BY <1>4, DaysOf
<1>6. DaysFromCivil(c.year, c.month, c.day) = YearStart(a, y) + DaysBefore(m) + c.day - 1
  BY <1>2, <1>5, Zenon
<1>7. DaysFromCivil(c.year, c.month, c.day) = d
  BY <1>2, <1>3, <1>4, <1>6, <1>n
<1> QED
  BY <1>7 DEF c

\* A year before has 365 or 366 days.
LEMMA YearBefore ==
  ASSUME NEW a \in Int, NEW y \in 1..399
  PROVE  y - 1 \in YearsOfEra /\ YearStart(a, y) - YearStart(a, y - 1) \in 365..366
<1> USE DEF YearsOfEra
<1> DEFINE p == y \div 4
           q == y \div 100
           g == (y - 1) \div 4
           h == (y - 1) \div 100
<1>1. y - 1 \in YearsOfEra /\ y \in Int /\ y - 1 \in Int
  OBVIOUS
<1>2. p \in Int /\ 4 * p <= y /\ y < 4 * p + 4 /\ q \in Int /\ 100 * q <= y /\ y < 100 * q + 100
  BY <1>1, DivFacts
<1>3. g \in Int /\ 4 * g <= y - 1 /\ y - 1 < 4 * g + 4 /\ h \in Int /\ 100 * h <= y - 1 /\ y - 1 < 100 * h + 100
  BY <1>1, DivFacts
<1> HIDE DEF p, q, g, h
<1>4. p - g \in 0..1 /\ q - h \in 0..1
  BY <1>2, <1>3
<1>5. q > h => p > g
  <2>1. SUFFICES ASSUME q > h PROVE p > g
    OBVIOUS
  <2>2. y = 100 * q
    BY <1>2, <1>3, <2>1
  <2> QED
    BY <1>2, <1>3, <2>2
<1>6. YearStart(a, y) = a * 146097 + y * 365 + p - q - 719468
  BY DEF YearStart, p, q
<1>7. YearStart(a, y - 1) = a * 146097 + (y - 1) * 365 + g - h - 719468
  BY DEF YearStart, g, h
<1>8. YearStart(a, y) - YearStart(a, y - 1) = 365 + (p - g) - (q - h)
  BY <1>2, <1>3, <1>6, <1>7
<1>9. 365 + (p - g) - (q - h) \in 365..366
  BY <1>2, <1>3, <1>4, <1>5
<1> QED
  BY <1>1, <1>8, <1>9, Zenon

\* 1 January of the year that starts in year z of era b, counted from March.
LEMMA FirstOfYear ==
  ASSUME NEW b \in Int, NEW z \in YearsOfEra
  PROVE  DaysFromCivil(z + b * 400 + 1, 1, 1) = YearStart(b, z) + 306
<1> DEFINE j == 10
           one == 1
<1>1. j \in MonthsOfYear /\ one \in Int /\ DaysBefore(j) = 306 /\ YearAt(b, z, j) = z + b * 400 + 1
      /\ MonthAt(j) = 1 /\ one = 1
  BY DEF DaysBefore, YearAt, MonthAt, MonthsOfYear
<1> HIDE DEF j, one
<1>2. DaysFromCivil(YearAt(b, z, j), MonthAt(j), one) = YearStart(b, z) + DaysBefore(j) + one - 1
  <2>1. j \in MonthsOfYear /\ one \in Int
    BY <1>1
  <2> QED
    BY <2>1, DaysOf, Zenon
<1>3. YearStart(b, z) \in Int
  BY StartType, Zenon
<1> QED
  BY <1>1, <1>2, <1>3

\* The days of a year are numbered from 1 to 366.
LEMMA DayOfYear ==
  ASSUME NEW d \in Int
  PROVE  d - DaysFromCivil(CivilFromDays(d).year, 1, 1) + 1 \in 1..366
<1> DEFINE year == CivilFromDays(d).year
<1>1. PICK a \in Int, y \in YearsOfEra, n \in DaysOfYear, m \in MonthsOfYear : Civil(d, a, y, n, m)
  BY CivilFacts, Zenon
<1>2. d = YearStart(a, y) + n /\ year = YearAt(a, y, m) /\ 153 * m <= 5 * n + 2 /\ 5 * n + 2 < 153 * m + 153
  BY <1>1, Zenon DEF Civil
<1>3. YearStart(a, y) \in Int
  BY PartTypes, Zenon
<1>n. n \in 0..365 /\ y \in 0..399 /\ m \in 0..11
  BY DEF YearsOfEra, DaysOfYear, MonthsOfYear
<1> HIDE DEF year
<1>5. CASE m >= 10
  <2>1. year = y + a * 400 + 1
    BY <1>2, <1>5 DEF YearAt
  <2>2. DaysFromCivil(year, 1, 1) = YearStart(a, y) + 306
    BY FirstOfYear, <2>1
  <2>3. n >= 306
    BY <1>2, <1>5, <1>n
  <2>4. d - DaysFromCivil(year, 1, 1) + 1 \in 1..366
    BY <1>2, <1>3, <1>n, <2>2, <2>3
  <2> QED
    BY <2>4 DEF year
<1>6. CASE m < 10 /\ y > 0
  <2>1. year = y - 1 + a * 400 + 1
    BY <1>2, <1>6, <1>n DEF YearAt
  <2>2. y - 1 \in YearsOfEra /\ YearStart(a, y) - YearStart(a, y - 1) \in 365..366
    <3>1. y \in 1..399
      BY <1>6, <1>n
    <3> QED
      BY <3>1, YearBefore, Zenon
  <2>3. DaysFromCivil(year, 1, 1) = YearStart(a, y - 1) + 306
    BY FirstOfYear, <2>1, <2>2, Zenon
  <2>4. n <= 305
    BY <1>2, <1>6, <1>n
  <2>5. YearStart(a, y - 1) \in Int
    BY <2>2, PartTypes, Zenon
  <2>6. d - DaysFromCivil(year, 1, 1) + 1 \in 1..366
    BY <1>2, <1>3, <1>n, <2>2, <2>3, <2>4, <2>5
  <2> QED
    BY <2>6 DEF year
<1>7. CASE m < 10 /\ y = 0
  <2>1. year = 399 + (a - 1) * 400 + 1
    BY <1>2, <1>7, <1>n DEF YearAt
  <2>2. a - 1 \in Int /\ 399 \in YearsOfEra
    BY DEF YearsOfEra
  <2>3. DaysFromCivil(year, 1, 1) = YearStart(a - 1, 399) + 306
    BY FirstOfYear, <2>1, <2>2
  <2>4. YearStart(a, y) = a * 146097 - 719468 /\ YearStart(a - 1, 399) = a * 146097 - 366 - 719468
    BY <1>7 DEF YearStart
  <2>5. n <= 305
    BY <1>2, <1>7, <1>n
  <2>6. d - DaysFromCivil(year, 1, 1) + 1 \in 1..366
    BY <1>2, <1>n, <2>3, <2>4, <2>5
  <2> QED
    BY <2>6 DEF year
<1>8. m >= 10 \/ (m < 10 /\ y > 0) \/ (m < 10 /\ y = 0)
  BY <1>n
<1> QED
  BY <1>5, <1>6, <1>7, <1>8

\* Truncated division by a positive divisor.
LEMMA TruncFacts ==
  ASSUME NEW x \in Int, NEW k \in Nat, k > 0
  PROVE  TruncDiv(x, k) = IF x < 0 THEN -((-x) \div k) ELSE x \div k
BY DEF TruncDiv, AbsV

\* The leap days of the calendar that julianDay takes off, and the days of its years and its months.
LEMMA JulianLeap ==
  ASSUME NEW a \in Int, NEW y \in YearsOfEra, y + a * 400 >= -1
  PROVE  LET h == TruncDiv(y + a * 400, 100) IN 2 - h + TruncDiv(h, 4) = 2 - 3 * a - (y \div 100)
<1> USE DEF YearsOfEra
<1> DEFINE x == y + a * 400
           h == TruncDiv(x, 100)
           q == y \div 100
<1>1. q \in Int /\ 100 * q <= y /\ y < 100 * q + 100
  BY DivFacts
<1>2. x \in Int /\ x >= -1
  OBVIOUS
<1>3. CASE x = -1
  <2>1. a = -1 /\ y = 399
    BY <1>3
  <2>2. h = 0 /\ TruncDiv(0, 4) = 0 /\ q = 3
    <3>1. h = -(1 \div 100)
      BY <1>3 DEF TruncDiv, AbsV
    <3>2. 1 \div 100 = 0 /\ 399 \div 100 = 3
      OBVIOUS
    <3>3. TruncDiv(0, 4) = 0
      BY DEF TruncDiv, AbsV
    <3> QED
      BY <2>1, <3>1, <3>2, <3>3
  <2> HIDE DEF h, q
  <2>3. 2 - h + TruncDiv(h, 4) = 2 - 3 * a - q
    BY <2>1, <2>2
  <2> QED
    BY <2>3 DEF h, q, x
<1>4. CASE x >= 0
  <2>1. h = x \div 100 /\ h \in Int /\ 100 * h <= x /\ x < 100 * h + 100
    <3> HIDE DEF x, h
    <3>1. h = x \div 100
      <4>1. h = IF x < 0 THEN -((-x) \div 100) ELSE x \div 100
        BY <1>2, TruncFacts DEF h
      <4> QED
        BY <1>2, <1>4, <4>1
    <3>2. x \div 100 \in Int /\ 100 * (x \div 100) <= x /\ x < 100 * (x \div 100) + 100
      BY <1>2, DivFacts
    <3> QED
      BY <3>1, <3>2
  <2> HIDE DEF h, q
  <2>2. h = 4 * a + q
    BY <1>1, <2>1
  <2> HIDE DEF x
  <2>3. h >= 0
    BY <1>2, <1>4, <2>1
  <2> DEFINE g == h \div 4
  <2>4. TruncDiv(h, 4) = g /\ g \in Int /\ 4 * g <= h /\ h < 4 * g + 4
    <3>1. TruncDiv(h, 4) = IF h < 0 THEN -((-h) \div 4) ELSE g
      <4>1. h \in Int /\ 4 \in Nat /\ 4 > 0
        BY <2>1
      <4> QED
        BY <4>1, TruncFacts
    <3>2. g \in Int /\ 4 * g <= h /\ h < 4 * g + 4
      BY <2>1, DivFacts
    <3> HIDE DEF g
    <3> QED
      BY <2>1, <2>3, <3>1, <3>2
  <2> HIDE DEF g
  <2>5. q \in 0..3
    BY <1>1
  <2>6. g = a
    BY <2>2, <2>4, <2>5
  <2>7. 2 - h + TruncDiv(h, 4) = 2 - 3 * a - q
    BY <2>1, <2>2, <2>4, <2>5, <2>6
  <2> QED
    BY <2>7 DEF h, q, x
<1> QED
  BY <1>2, <1>3, <1>4

LEMMA JulianYears ==
  ASSUME NEW a \in Int, NEW y \in YearsOfEra
  PROVE  (36525 * (y + a * 400 + 4716)) \div 100 = 365 * y + (y \div 4) + a * 146100 + 1722519
<1> USE DEF YearsOfEra
<1> DEFINE v == 36525 * (y + a * 400 + 4716)
           w == v \div 100
           p == y \div 4
<1>1. p \in Int /\ 4 * p <= y /\ y < 4 * p + 4
  BY DivFacts
<1>2. v \in Int
  OBVIOUS
<1>3. w \in Int /\ 100 * w <= v /\ v < 100 * w + 100
  <2> HIDE DEF v
  <2> QED
    BY <1>2, DivFacts
<1> HIDE DEF w, p
<1> DEFINE g == w - (365 * y + a * 146100 + 1722519)
<1>4. g \in Int /\ 100 * g <= 25 * y /\ 25 * y < 100 * g + 100
  BY <1>3
<1> HIDE DEF v
<1>5. g = p
  <2> HIDE DEF g
  <2> QED
    BY <1>1, <1>4
<1>6. w = 365 * y + p + a * 146100 + 1722519
  BY <1>1, <1>3, <1>5
<1> QED
  BY <1>6 DEF w, v, p

LEMMA JulianMonths ==
  ASSUME NEW m \in MonthsOfYear
  PROVE  (306001 * (m + 4)) \div 10000 = DaysBefore(m) + 122
<1> DEFINE k == (153 * m + 2) \div 5
           l == (306001 * (m + 4)) \div 10000
<1>1. m \in Int /\ 0 <= m /\ m <= 11 /\ 153 * m + 2 \in Int /\ 306001 * (m + 4) \in Int
  BY DEF MonthsOfYear
<1>2. k \in Int /\ 5 * k <= 153 * m + 2 /\ 153 * m + 2 < 5 * k + 5
  BY <1>1, DivFacts
<1>3. l \in Int /\ 10000 * l <= 306001 * (m + 4) /\ 306001 * (m + 4) < 10000 * l + 10000
  BY <1>1, DivFacts
<1> HIDE DEF k, l
<1>4. l = k + 122
  BY <1>1, <1>2, <1>3
<1> QED
  BY <1>4 DEF k, l, DaysBefore

\* The Julian day of a day from year 0 on.
LEMMA JulianDays ==
  ASSUME NEW d \in Int, NEW sec, d >= FirstDay
  PROVE  JulianDay2(VTime(d, sec)) = 2 * d + 4881175
<1> DEFINE c == CivilFromDays(d)
           leap(x) == 2 - x + TruncDiv(x, 4)
           day2(x, k) ==
             2 * ((36525 * (x + 4716)) \div 100 + (306001 * (k + 1)) \div 10000 + c.day + leap(TruncDiv(x, 100))) - 3049
<1>1. PICK a \in Int, y \in YearsOfEra, n \in DaysOfYear, m \in MonthsOfYear : Civil(d, a, y, n, m)
  BY CivilFacts, Zenon
<1>2. /\ d = YearStart(a, y) + n /\ c.year = YearAt(a, y, m) /\ c.month = MonthAt(m)
      /\ c.day = n - DaysBefore(m) + 1
  BY <1>1, Zenon DEF Civil
<1>3. JulianDay2(VTime(d, sec)) = IF c.month <= 2 THEN day2(c.year - 1, c.month + 12) ELSE day2(c.year, c.month)
  BY DEF JulianDay2, VTime
<1>n. n \in 0..365 /\ y \in 0..399 /\ m \in 0..11
  BY DEF YearsOfEra, DaysOfYear, MonthsOfYear
<1> HIDE DEF c, day2
<1>4. JulianDay2(VTime(d, sec)) = day2(y + a * 400, m + 3)
  <2>1. CASE m < 10
    <3>1. c.month = m + 3 /\ ~ (c.month <= 2) /\ c.year = y + a * 400
      BY <1>2, <1>n, <2>1 DEF MonthAt, YearAt
    <3> QED
      BY <1>3, <3>1
  <2>2. CASE m >= 10
    <3>1. c.month + 12 = m + 3 /\ c.month <= 2 /\ c.year - 1 = y + a * 400
      BY <1>2, <1>n, <2>2 DEF MonthAt, YearAt
    <3> QED
      BY <1>3, <3>1
  <2> QED
    BY <1>n, <2>1, <2>2
<1> DEFINE p == y \div 4
           q == y \div 100
           k == DaysBefore(m)
<1>5. p \in Int /\ 4 * p <= y /\ y < 4 * p + 4 /\ q \in Int /\ 100 * q <= y /\ y < 100 * q + 100 /\ k \in Int
  <2>1. k \in Int
    BY PartTypes, Zenon
  <2> QED
    BY <1>n, <2>1, DivFacts
<1> HIDE DEF p, q, k
<1>6. d = a * 146097 + y * 365 + p - q - 719468 + n
  BY <1>2 DEF YearStart, p, q
<1>7. FirstDay = -719528
  <2>1. -1 \in Int /\ 399 \in YearsOfEra /\ 399 + (-1) * 400 + 1 = 0
    BY DEF YearsOfEra
  <2>2. DaysFromCivil(399 + (-1) * 400 + 1, 1, 1) = YearStart(-1, 399) + 306
    BY <2>1, FirstOfYear
  <2>3. YearStart(-1, 399) = -719834
    BY DEF YearStart
  <2> QED
    BY <2>1, <2>2, <2>3 DEF FirstDay
<1>8. y + a * 400 >= -1
  BY <1>5, <1>6, <1>7, <1>n
<1>9. leap(TruncDiv(y + a * 400, 100)) = 2 - 3 * a - q
  BY <1>8, JulianLeap DEF q
<1>10. (36525 * (y + a * 400 + 4716)) \div 100 = 365 * y + p + a * 146100 + 1722519
  BY JulianYears DEF p
<1>11. (306001 * (m + 3 + 1)) \div 10000 = k + 122
  <2>1. m + 3 + 1 = m + 4
    BY <1>n
  <2> QED
    BY <2>1, JulianMonths DEF k
<1>12. c.day = n - k + 1
  BY <1>2 DEF k
<1>13. day2(y + a * 400, m + 3)
         = 2 * ((365 * y + p + a * 146100 + 1722519) + (k + 122) + c.day + (2 - 3 * a - q)) - 3049
  BY <1>9, <1>10, <1>11 DEF day2
<1> HIDE DEF leap
<1>14. JulianDay2(VTime(d, sec))
         = 2 * ((365 * y + p + a * 146100 + 1722519) + (k + 122) + (n - k + 1) + (2 - 3 * a - q)) - 3049
  BY <1>4, <1>12, <1>13
<1> QED
  BY <1>5, <1>6, <1>14, <1>n

\* Adding seconds, and telling two times apart.
LEMMA SecondsAdded ==
  ASSUME NEW d \in Int, NEW s \in Int, 0 <= s, s < DaySeconds, NEW x \in Int
  PROVE  /\ AddSeconds(VTime(d, s), x).day \in Int /\ AddSeconds(VTime(d, s), x).sec \in Int
         /\ (AddSeconds(VTime(d, s), x).day - d) * DaySeconds + AddSeconds(VTime(d, s), x).sec - s = x
         /\ AddSeconds(AddSeconds(VTime(d, s), x), -x) = VTime(d, s)
<1> DEFINE k == DaySeconds
           g == (s + x) \div k
           r == (s + x) % k
           g2 == (r + (-x)) \div k
           r2 == (r + (-x)) % k
<1>1. k \in Nat /\ k > 0
  BY DEF DaySeconds
<1>2. AddSeconds(VTime(d, s), x) = VTime(d + g, r)
  BY DEF AddSeconds, VTime
<1>3. AddSeconds(VTime(d + g, r), -x) = VTime(d + g + g2, r2)
  BY DEF AddSeconds, VTime
<1>4. VTime(d + g, r).day = d + g /\ VTime(d + g, r).sec = r
  BY DEF VTime
<1>5. 0 <= s /\ s < k
  OBVIOUS
<1> HIDE DEF k
<1>6. g \in Int /\ r \in Int /\ k * g + r = s + x
  <2>1. s + x \in Int
    OBVIOUS
  <2> QED
    BY <1>1, <2>1, ModFacts
<1> HIDE DEF g, r
<1>7. r + (-x) \in Int
  BY <1>6
<1>8. g2 \in Int /\ r2 \in Int /\ k * g2 + r2 = r + (-x) /\ 0 <= r2 /\ r2 < k
  <2> DEFINE z == r + (-x)
  <2>1. z \in Int
    BY <1>7
  <2> HIDE DEF z
  <2>2. z \div k \in Int /\ k * (z \div k) + (z % k) = z /\ z % k \in 0..(k - 1)
    BY <1>1, <2>1, ModFacts
  <2>3. z % k \in Int /\ 0 <= z % k /\ z % k < k
    BY <1>1, <2>2
  <2> QED
    BY <2>2, <2>3 DEF z, g2, r2
<1> HIDE DEF g2, r2
<1>9. g2 = -g /\ r2 = s
  <2>1. k * (g2 + g) = s - r2
    <3>1. k * (g2 + g) = k * g2 + k * g
      BY <1>1, <1>6, <1>8
    <3> DEFINE u == k * g2
               v == k * g
    <3>2. u \in Int /\ v \in Int /\ u + r2 = r + (-x) /\ v + r = s + x
      BY <1>1, <1>6, <1>8
    <3> HIDE DEF u, v
    <3>3. u + v = s - r2
      BY <1>6, <1>8, <3>2
    <3> QED
      BY <3>1, <3>3 DEF u, v
  <2>2. g2 + g = 0
    <3> DEFINE w == g2 + g
    <3>1. w \in Int /\ k * w = s - r2
      BY <1>6, <1>8, <2>1
    <3> HIDE DEF w
    <3>2. w >= 1 => k * w >= k
      BY <1>1, <3>1
    <3>3. w <= -1 => k * w <= -k
      BY <1>1, <3>1
    <3>4. s - r2 < k /\ s - r2 > -k
      BY <1>1, <1>5, <1>8
    <3>5. w = 0
      BY <1>1, <1>8, <3>1, <3>2, <3>3, <3>4
    <3> QED
      BY <3>5 DEF w
  <2>3. s - r2 = 0
    BY <1>1, <2>1, <2>2
  <2> QED
    BY <1>6, <1>8, <2>2, <2>3
<1>10. d + g + g2 = d /\ d + g \in Int /\ d + g - d = g
  BY <1>6, <1>9
<1>11. (d + g - d) * k + r - s = x
  <2> DEFINE v == k * g
  <2>1. v \in Int /\ v + r = s + x /\ g * k = v
    BY <1>1, <1>6
  <2> HIDE DEF v
  <2>2. (d + g - d) * k = v
    BY <1>10, <2>1
  <2> QED
    BY <1>6, <2>1, <2>2
<1>12. AddSeconds(AddSeconds(VTime(d, s), x), -x) = VTime(d, s)
  BY <1>2, <1>3, <1>9, <1>10
<1>13. AddSeconds(VTime(d, s), x).day = d + g /\ AddSeconds(VTime(d, s), x).sec = r
  BY <1>2, <1>4
<1> QED
  BY <1>6, <1>10, <1>11, <1>12, <1>13 DEF k

LEMMA TruncExact ==
  ASSUME NEW x \in Int, NEW k \in Nat, k > 0
  PROVE  TruncDiv(k * x, k) = x
<1>1. CASE x >= 0
  <2>1. k * x >= 0 /\ (k * x) \div k = x
    BY <1>1
  <2>2. k * x \in Int
    OBVIOUS
  <2> QED
    BY <2>1, <2>2, TruncFacts
<1>2. CASE x < 0
  <2>1. k * x < 0 /\ (-(k * x)) \div k = -x
    BY <1>2
  <2>2. k * x \in Int
    OBVIOUS
  <2> QED
    BY <2>1, <2>2, TruncFacts
<1> QED
  BY <1>1, <1>2

\* A whole number of units of k seconds, added to a time: the difference counts them, and taking them
\* away again leads back.
LEMMA UnitsAdded ==
  ASSUME NEW d \in Int, NEW s \in Int, 0 <= s, s < DaySeconds, NEW x \in Int, NEW k \in Nat, k > 0
  PROVE  LET t == VTime(d, s)
             u == AddSeconds(t, k * x)
         IN /\ TruncDiv((u.day - t.day) * DaySeconds + u.sec - t.sec, k) = x
            /\ (u.day - t.day) * DaySeconds + u.sec - t.sec = k * x
            /\ AddSeconds(u, k * (-x)) = t
<1> DEFINE t == VTime(d, s)
           u == AddSeconds(t, k * x)
<1>1. k * x \in Int /\ k * (-x) = -(k * x)
  OBVIOUS
<1>2. t.day = d /\ t.sec = s
  BY DEF VTime
<1>3. (u.day - d) * DaySeconds + u.sec - s = k * x /\ AddSeconds(u, -(k * x)) = t
  BY <1>1, SecondsAdded
<1> HIDE DEF t, u
<1>4. TruncDiv(k * x, k) = x
  BY TruncExact
<1>5. (u.day - t.day) * DaySeconds + u.sec - t.sec = k * x
  BY <1>2, <1>3
<1>6. AddSeconds(u, k * (-x)) = t
  BY <1>1, <1>3
<1>7. TruncDiv((u.day - t.day) * DaySeconds + u.sec - t.sec, k) = x
  BY <1>4, <1>5
<1> QED
  BY <1>5, <1>6, <1>7 DEF t, u

LEMMA DaysAdded ==
  ASSUME NEW d \in Int, NEW s \in Int, NEW x \in Int
  PROVE  LET t == VTime(d, s)
             u == VTime(d + x, s)
         IN /\ TruncDiv((u.day - t.day) * DaySeconds + u.sec - t.sec, DaySeconds) = x
            /\ VTime(u.day + (-x), u.sec) = t
<1> DEFINE t == VTime(d, s)
           u == VTime(d + x, s)
           k == DaySeconds
<1>1. t.day = d /\ t.sec = s /\ u.day = d + x /\ u.sec = s
  BY DEF VTime
<1>2. k \in Nat /\ k > 0
  BY DEF DaySeconds
<1>3. VTime(u.day + (-x), u.sec) = t
  <2>1. d + x + (-x) = d
    OBVIOUS
  <2> QED
    BY <1>1, <2>1
<1> HIDE DEF k, t, u
<1>4. (u.day - t.day) * k + u.sec - t.sec = k * x
  <2>1. d + x - d = x /\ x * k = k * x /\ k * x \in Int
    BY <1>2
  <2>2. x * k + s - s = k * x
    BY <1>2, <2>1
  <2> QED
    BY <1>1, <2>1, <2>2
<1>5. TruncDiv(k * x, k) = x
  BY <1>2, TruncExact
<1>6. TruncDiv((u.day - t.day) * k + u.sec - t.sec, k) = x
  BY <1>4, <1>5
<1> QED
  BY <1>3, <1>6 DEF k, t, u

\* A multiple of k more leaves the same remainder.
LEMMA ModShifted ==
  ASSUME NEW k \in Nat, k > 0, NEW z \in Int, NEW x \in Int
  PROVE  ((z % k) + x) % k = (z + x) % k
<1> DEFINE q == z \div k
           r == z % k
           u == (r + x) \div k
           a == (r + x) % k
           v == (z + x) \div k
           b == (z + x) % k
<1>1. q \in Int /\ k * q + r = z /\ r \in 0..(k - 1)
  BY ModFacts
<1>2. r + x \in Int /\ z + x \in Int
  BY <1>1
<1>3. u \in Int /\ k * u + a = r + x /\ a \in 0..(k - 1)
  BY <1>2, ModFacts
<1>4. v \in Int /\ k * v + b = z + x /\ b \in 0..(k - 1)
  BY <1>2, ModFacts
<1> HIDE DEF q, r, u, a, v, b
<1> DEFINE d == q + u - v
<1>5. k * d = k * q + k * u - k * v /\ k * q \in Int /\ k * u \in Int /\ k * v \in Int /\ d \in Int
  BY <1>1, <1>3, <1>4
<1>6. k * d = b - a
  BY <1>1, <1>3, <1>4, <1>5
<1> HIDE DEF d
<1>7. (d >= 1 => k * d >= k) /\ (d <= -1 => k * d <= -k) /\ (d = 0 => k * d = 0)
  BY <1>5
<1>8. -k < b - a /\ b - a < k /\ a \in Int /\ b \in Int
  BY <1>3, <1>4
<1>9. b = a
  BY <1>5, <1>6, <1>7, <1>8
<1> QED
  BY <1>9 DEF a, b, r

LEMMA CalendarHolds ==
  ASSUME NEW d \in Int, d >= FirstDay, NEW s \in Int, 0 <= s, s < DaySeconds, NEW x \in Int,
         input = [of |-> "time", t |-> VTime(d, s), x |-> x]
  PROVE  CalendarExact
<1> DEFINE t == VTime(d, s)
           c == CivilFromDays(t.day)
           back(u) == DateDiff(DateAdd(t, x, u), t, u) = x /\ DateSub(DateAdd(t, x, u), x, u) = t
<1>1. input.t = t /\ input.x = x /\ t.day = d /\ t.sec = s
  BY DEF VTime
<1>2. DaysFromCivil(c.year, c.month, c.day) = t.day
  BY <1>1, DaysInverse
<1>3. JulianDay2(t) = 2 * t.day + JulianEpoch2
  BY <1>1, JulianDays DEF JulianEpoch2
<1>4. ExtractField("DOY", t) \in 1..366
  <2>1. ExtractField("DOY", t) = t.day - DaysFromCivil(CivilFromDays(t.day).year, 1, 1) + 1
    BY DEF ExtractField
  <2> QED
    BY <1>1, <2>1, DayOfYear
<1> HIDE DEF t, c
<1>11. ExtractField("DOW", DateAdd(t, x, "DAY")) = (ExtractField("DOW", t) + x) % 7
  <2>1. DateAdd(t, x, "DAY") = VTime(t.day + x, t.sec)
    BY DEF DateAdd
  <2>2. ExtractField("DOW", DateAdd(t, x, "DAY")) = (d + x + 4) % 7 /\ ExtractField("DOW", t) = (d + 4) % 7
    BY <1>1, <2>1 DEF ExtractField, VTime
  <2>3. d + 4 \in Int /\ d + x + 4 = (d + 4) + x /\ 7 \in Nat /\ 7 > 0
    OBVIOUS
  <2> QED
    BY <2>2, <2>3, ModShifted
<1>5. back("DAY")
  <2> DEFINE u == VTime(d + x, s)
  <2>1. DateAdd(t, x, "DAY") = u
    BY <1>1 DEF DateAdd
  <2>2. DateDiff(u, t, "DAY") = TruncDiv((u.day - t.day) * DaySeconds + u.sec - t.sec, DaySeconds)
    BY DEF DateDiff
  <2>3. DateSub(u, x, "DAY") = VTime(u.day + (-x), u.sec)
    BY DEF DateSub, DateAdd
  <2>4. /\ TruncDiv((u.day - t.day) * DaySeconds + u.sec - t.sec, DaySeconds) = x
        /\ VTime(u.day + (-x), u.sec) = t
    BY DaysAdded DEF t
  <2> HIDE DEF u
  <2> QED
    BY <2>1, <2>2, <2>3, <2>4
<1>6. ASSUME NEW k \in Nat, k > 0
      PROVE  LET u == AddSeconds(t, k * x)
             IN /\ TruncDiv((u.day - t.day) * DaySeconds + u.sec - t.sec, k) = x
                /\ (u.day - t.day) * DaySeconds + u.sec - t.sec = k * x
                /\ AddSeconds(u, k * (-x)) = t
  BY <1>6, UnitsAdded DEF t
<1>7. back("HOUR")
  <2> DEFINE u == AddSeconds(t, 3600 * x)
  <2>1. DateAdd(t, x, "HOUR") = u
    BY DEF DateAdd
  <2>2. DateDiff(u, t, "HOUR") = TruncDiv((u.day - t.day) * DaySeconds + u.sec - t.sec, 3600)
    BY DEF DateDiff
  <2>3. DateSub(u, x, "HOUR") = AddSeconds(u, 3600 * (-x))
    BY DEF DateSub, DateAdd
  <2>4. TruncDiv((u.day - t.day) * DaySeconds + u.sec - t.sec, 3600) = x /\ AddSeconds(u, 3600 * (-x)) = t
    BY <1>6
  <2> HIDE DEF u
  <2> QED
    BY <2>1, <2>2, <2>3, <2>4
<1>8. back("MINUTE")
  <2> DEFINE u == AddSeconds(t, 60 * x)
  <2>1. DateAdd(t, x, "MINUTE") = u
    BY DEF DateAdd
  <2>2. DateDiff(u, t, "MINUTE") = TruncDiv((u.day - t.day) * DaySeconds + u.sec - t.sec, 60)
    BY DEF DateDiff
  <2>3. DateSub(u, x, "MINUTE") = AddSeconds(u, 60 * (-x))
    BY DEF DateSub, DateAdd
  <2>4. TruncDiv((u.day - t.day) * DaySeconds + u.sec - t.sec, 60) = x /\ AddSeconds(u, 60 * (-x)) = t
    BY <1>6
  <2> HIDE DEF u
  <2> QED
    BY <2>1, <2>2, <2>3, <2>4
<1>9. back("SECOND")
  <2> DEFINE u == AddSeconds(t, x)
  <2>1. DateAdd(t, x, "SECOND") = u
    BY DEF DateAdd
  <2>2. DateDiff(u, t, "SECOND") = (u.day - t.day) * DaySeconds + u.sec - t.sec
    BY DEF DateDiff
  <2>3. DateSub(u, x, "SECOND") = AddSeconds(u, -x)
    BY DEF DateSub, DateAdd
  <2>4. (u.day - t.day) * DaySeconds + u.sec - t.sec = x /\ AddSeconds(u, -x) = t
    <3>1. 1 \in Nat /\ 1 > 0 /\ 1 * x = x /\ 1 * (-x) = -x
      OBVIOUS
    <3> QED
      BY <1>6, <3>1
  <2> HIDE DEF u
  <2> QED
    BY <2>1, <2>2, <2>3, <2>4
<1> HIDE DEF back
<1>10. \A u \in {"DAY", "HOUR", "MINUTE", "SECOND"} : back(u)
  BY <1>5, <1>7, <1>8, <1>9
<1> QED
  BY <1>1, <1>2, <1>3, <1>4, <1>10, <1>11 DEF CalendarExact, back, c

(***************************************************************************)
(* Arithmetic                                                               *)
(***************************************************************************)
LEMMA Width == MaxInt \in Nat /\ MaxInt > 0 /\ MinInt = -MaxInt - 1 /\ Modulus = 2 * MaxInt + 2 /\ Modulus \in Nat
BY WidthAssumption DEF MinInt, Modulus

\* A multiple of k between two others.
LEMMA Multiples ==
  ASSUME NEW k \in Nat, NEW d \in Int, k > 0
  PROVE  k * d \in Int /\ (d >= 1 => k * d >= k) /\ (d <= -1 => k * d <= -k)
OBVIOUS

LEMMA SmallMod ==
  ASSUME NEW k \in Nat, NEW v \in Int, k > 0, 0 <= v, v <= k
  PROVE  v % k = IF v = k THEN 0 ELSE v
<1> DEFINE d == v \div k
           r == v % k
<1>1. d \in Int /\ k * d + r = v /\ r \in 0..(k - 1)
  BY ModFacts
<1> HIDE DEF d, r
<1>2. k * d \in Int /\ (d >= 1 => k * d >= k) /\ (d <= -1 => k * d <= -k)
  BY <1>1, Multiples
<1> DEFINE u == k * d
<1>3. u \in Int /\ u + r = v /\ (d >= 1 => u >= k) /\ (d <= -1 => u <= -k) /\ (d = 0 => u = 0)
  BY <1>1, <1>2
<1> HIDE DEF u
<1>4. r \in Int /\ 0 <= r /\ r < k
  BY <1>1
<1>5. d >= 1 \/ d = 0 \/ d <= -1
  BY <1>1
<1>6. r = IF v = k THEN 0 ELSE v
  BY <1>3, <1>4, <1>5
<1> QED
  BY <1>6 DEF r

LEMMA WrapFits ==
  ASSUME NEW z \in Int, z >= MinInt, z <= MaxInt + 1
  PROVE  Wrap(z) = IF z = MaxInt + 1 THEN MinInt ELSE z
<1>1. MaxInt \in Nat /\ MinInt = -MaxInt - 1 /\ Modulus = 2 * MaxInt + 2 /\ Modulus \in Nat /\ Modulus > 0 /\ MinInt \in Int
  BY Width
<1> DEFINE v == z - MinInt
<1>2. v \in Int /\ 0 <= v /\ v <= Modulus /\ (v = Modulus <=> z = MaxInt + 1) /\ v + MinInt = z
  BY <1>1
<1> HIDE DEF v
<1>3. v % Modulus = IF v = Modulus THEN 0 ELSE v
  BY <1>1, <1>2, SmallMod
<1>4. Wrap(z) = (v % Modulus) + MinInt
  BY DEF Wrap, v
<1> QED
  BY <1>1, <1>2, <1>3, <1>4

\* A product is over a limit when a factor is over the quotient.
LEMMA ProductOver ==
  ASSUME NEW a \in Nat, NEW b \in Nat, NEW n \in Nat, b > 0
  PROVE  a > n \div b <=> a * b > n
<1> DEFINE d == n \div b
<1>1. d \in Int /\ b * d <= n /\ n < b * d + b
  BY DivFacts
<1> HIDE DEF d
<1>2. a * b \in Int /\ b * d \in Int /\ a * b - b * d = b * (a - d) /\ a - d \in Int
  BY <1>1
<1>3. (a - d >= 1 => b * (a - d) >= b)
  BY <1>2, Multiples
<1>4. a - d <= 0 => b * (a - d) <= 0
  BY <1>2
<1> DEFINE u == b * d
           v == a * b
           w == b * (a - d)
<1>5. u \in Int /\ v \in Int /\ w \in Int /\ v - u = w /\ u <= n /\ n < u + b
      /\ (a - d >= 1 => w >= b) /\ (a - d <= 0 => w <= 0)
  BY <1>1, <1>2, <1>3, <1>4
<1> HIDE DEF u, v, w
<1>6. a > d <=> v > n
  BY <1>1, <1>5
<1> QED
  BY <1>6 DEF d, v

LEMMA Negations ==
  ASSUME NEW x \in Int, NEW y \in Int
  PROVE  (-x) * (-y) = x * y /\ x * (-y) = -(x * y) /\ (-x) * y = -(x * y) /\ y * x = x * y /\ x * y \in Int
OBVIOUS

LEMMA SignOfProduct ==
  ASSUME NEW a \in Int, NEW b \in Int
  PROVE  /\ a > 0 /\ b > 0 => a * b > 0
         /\ a > 0 /\ b < 0 => a * b < 0
         /\ a < 0 /\ b > 0 => a * b < 0
         /\ a < 0 /\ b < 0 => a * b > 0
         /\ a = 0 \/ b = 0 => a * b = 0
OBVIOUS

\* The bound tests of a product, with truncated quotients, hold just when it does not fit.
LEMMA ProductOverflows ==
  ASSUME NEW x \in Int, NEW y \in Int, MinInt <= x, x <= MaxInt, MinInt <= y, y <= MaxInt
  PROVE  Overflows("*", x, y) <=> x * y \notin MinInt..MaxInt
<1> DEFINE N == MaxInt
           M == MaxInt + 1
           over == \/ (x = -1 /\ y = MinInt) \/ (y = -1 /\ x = MinInt)
                   \/ x > 0 /\ y > 0 /\ x > TruncDiv(MaxInt, y)
                   \/ x < 0 /\ y < 0 /\ x < TruncDiv(MaxInt, y)
                   \/ x > 0 /\ y < 0 /\ y < TruncDiv(MinInt, x)
                   \/ x < 0 /\ y > 0 /\ x < TruncDiv(MinInt, y)
<1>1. N \in Nat /\ M \in Nat /\ MinInt = -M /\ MinInt \in Int /\ M = N + 1 /\ N > 0 /\ N = MaxInt
  BY Width
<1>2. Overflows("*", x, y) <=> x # 0 /\ y # 0 /\ over
  BY DEF Overflows
<1>3. x * y \in Int
  BY Negations
<1> HIDE DEF N, M
<1>4. x * y \in MinInt..MaxInt <=> -M <= x * y /\ x * y <= N
  BY <1>1, <1>3
<1>5. CASE x = 0 \/ y = 0
  <2>1. x * y = 0
    BY <1>5
  <2> QED
    BY <1>1, <1>2, <1>4, <1>5, <2>1
<1>6. CASE x > 0 /\ y > 0
  <2>1. TruncDiv(MaxInt, y) = N \div y
    BY <1>1, <1>6 DEF TruncDiv, AbsV
  <2>2. x \in Nat /\ y \in Nat
    BY <1>6
  <2>3. x > N \div y <=> x * y > N
    BY <1>1, <1>6, <2>2, ProductOver
  <2>4. over <=> x > TruncDiv(MaxInt, y)
    BY <1>6
  <2>5. x * y > 0
    BY <1>6
  <2> HIDE DEF over
  <2> QED
    BY <1>1, <1>2, <1>3, <1>4, <1>6, <2>1, <2>3, <2>4, <2>5
<1>7. CASE x < 0 /\ y < 0
  <2>1. TruncDiv(MaxInt, y) = -(N \div (-y))
    BY <1>1, <1>7 DEF TruncDiv, AbsV
  <2>2. -x \in Nat /\ -y \in Nat /\ -y > 0 /\ N \div (-y) \in Int
    <3>1. -x \in Nat /\ -y \in Nat /\ -y > 0
      BY <1>7
    <3> QED
      BY <1>1, <3>1, DivFacts
  <2>3. -x > N \div (-y) <=> (-x) * (-y) > N
    BY <1>1, <2>2, ProductOver
  <2>4. (-x) * (-y) = x * y /\ x * y > 0
    BY <1>7, Negations, SignOfProduct
  <2>5. x < TruncDiv(MaxInt, y) <=> x * y > N
    BY <1>3, <2>1, <2>2, <2>3, <2>4
  <2>6. (x = -1 /\ y = MinInt) \/ (y = -1 /\ x = MinInt) => x * y > N
    <3>1. x = -1 /\ y = MinInt => x * y = M
      BY <1>1
    <3>2. y = -1 /\ x = MinInt => x * y = M
      BY <1>1
    <3> QED
      BY <1>1, <3>1, <3>2
  <2>7. over <=> x * y > N
    BY <1>7, <2>5, <2>6
  <2> HIDE DEF over
  <2> QED
    BY <1>1, <1>2, <1>3, <1>4, <1>7, <2>4, <2>7
<1>8. CASE x > 0 /\ y < 0
  <2>1. TruncDiv(MinInt, x) = -(M \div x)
    BY <1>1, <1>8 DEF TruncDiv, AbsV
  <2>2. x \in Nat /\ -y \in Nat /\ M \div x \in Int
    <3>1. x \in Nat /\ -y \in Nat
      BY <1>8
    <3> QED
      BY <1>1, <1>8, <3>1, DivFacts
  <2>3. -y > M \div x <=> (-y) * x > M
    BY <1>1, <1>8, <2>2, ProductOver
  <2>4. (-y) * x = -(x * y) /\ x * y < 0
    BY <1>8, Negations, SignOfProduct
  <2>5. y < TruncDiv(MinInt, x) <=> x * y < -M
    BY <1>1, <1>3, <2>1, <2>2, <2>3, <2>4
  <2>6. over <=> y < TruncDiv(MinInt, x)
    BY <1>1, <1>8
  <2> HIDE DEF over
  <2> QED
    BY <1>1, <1>2, <1>3, <1>4, <1>8, <2>4, <2>5, <2>6
<1>9. CASE x < 0 /\ y > 0
  <2>1. TruncDiv(MinInt, y) = -(M \div y)
    BY <1>1, <1>9 DEF TruncDiv, AbsV
  <2>2. y \in Nat /\ -x \in Nat /\ M \div y \in Int
    <3>1. y \in Nat /\ -x \in Nat
      BY <1>9
    <3> QED
      BY <1>1, <1>9, <3>1, DivFacts
  <2>3. -x > M \div y <=> (-x) * y > M
    BY <1>1, <1>9, <2>2, ProductOver
  <2>4. (-x) * y = -(x * y) /\ x * y < 0
    BY <1>9, Negations, SignOfProduct
  <2>5. x < TruncDiv(MinInt, y) <=> x * y < -M
    BY <1>1, <1>3, <2>1, <2>2, <2>3, <2>4
  <2>6. over <=> x < TruncDiv(MinInt, y)
    BY <1>1, <1>9
  <2> HIDE DEF over
  <2> QED
    BY <1>1, <1>2, <1>3, <1>4, <1>9, <2>4, <2>5, <2>6
<1> QED
  BY <1>5, <1>6, <1>7, <1>8, <1>9

LEMMA OverflowsExactly ==
  ASSUME NEW x \in Int, NEW y \in Int, MinInt <= x, x <= MaxInt, MinInt <= y, y <= MaxInt, NEW op \in {"+", "-", "*"}
  PROVE  Op2(op, x, y) \in Int /\ (Overflows(op, x, y) <=> Op2(op, x, y) \notin MinInt..MaxInt)
<1>1. CASE op = "+"
  BY <1>1, Width DEF Op2, Overflows
<1>2. CASE op = "-"
  BY <1>2, Width DEF Op2, Overflows
<1>3. CASE op = "*"
  <2>1. Op2("*", x, y) = x * y /\ x * y \in Int
    BY Negations DEF Op2
  <2> QED
    BY <1>3, <2>1, ProductOverflows
<1> QED
  BY <1>1, <1>2, <1>3

LEMMA ArithHolds ==
  ASSUME NEW x \in Int, NEW y \in Int, MinInt <= x, x <= MaxInt, MinInt <= y, y <= MaxInt,
         NEW op \in {"+", "-", "*"}, Exact(x), Exact(y)
  PROVE  NumericArith(op, VInt(x), VInt(y)) = IF Op2(op, x, y) \in MinInt..MaxInt THEN VInt(Op2(op, x, y)) ELSE NULL
<1>1. IntOfFloat(FloatOfInt(x)) = x /\ IntOfFloat(FloatOfInt(y)) = y
  BY Width DEF Exact, IntOfFloat
<1>2. NumericArith(op, VInt(x), VInt(y)) = IF Overflows(op, x, y) THEN NULL ELSE VInt(Wrap(Op2(op, x, y)))
  <2>1. IsNum(VInt(x)) /\ IsNum(VInt(y)) /\ VInt(x).t = "int" /\ VInt(y).t = "int" /\ VInt(x).n = x /\ VInt(y).n = y
    BY DEF IsNum, VInt
  <2> QED
    BY <1>1, <2>1, Zenon DEF NumericArith, IntArith
<1>3. Op2(op, x, y) \in Int /\ (Overflows(op, x, y) <=> Op2(op, x, y) \notin MinInt..MaxInt)
  BY OverflowsExactly
<1>4. Op2(op, x, y) \in MinInt..MaxInt => Wrap(Op2(op, x, y)) = Op2(op, x, y)
  <2> DEFINE z == Op2(op, x, y)
  <2> HIDE DEF z
  <2>1. z \in MinInt..MaxInt => z \in Int /\ z >= MinInt /\ z <= MaxInt + 1 /\ z # MaxInt + 1
    BY Width
  <2>2. z \in MinInt..MaxInt => Wrap(z) = z
    BY <2>1, WrapFits
  <2> QED
    BY <2>2 DEF z
<1> QED
  BY <1>2, <1>3, <1>4

\* The floats between two integers of n digits are apart by a number below both.
StepBody(x, f) == [k \in 0..x |-> IF k < MantLimit THEN 1 ELSE 2 * f[k \div 2]]
StepFits(k, v) == v \in Nat /\ v >= 1 /\ (k >= 1 => v <= k) /\ (k < MantLimit => v = 1)

LEMMA StepGrows ==
  ASSUME NEW x \in Nat, NEW f, NEW k \in 0..x, \A j \in 0..(k - 1) : StepFits(j, f[j])
  PROVE  StepFits(k, IF k < MantLimit THEN 1 ELSE 2 * f[k \div 2])
<1>1. CASE k < MantLimit
  <2>1. k >= 1 => 1 <= k
    OBVIOUS
  <2> QED
    BY <1>1, <2>1 DEF StepFits
<1>2. CASE ~ (k < MantLimit)
  <2> DEFINE j == k \div 2
             v == f[j]
  <2>1. k \in Int /\ k >= 2
    BY <1>2, WidthAssumption
  <2>2. j \in Int /\ 2 * j <= k /\ k < 2 * j + 2
    BY <2>1, DivFacts
  <2> HIDE DEF j
  <2>3. j \in 0..(k - 1) /\ j >= 1
    BY <2>1, <2>2
  <2>4. v \in Nat /\ v >= 1 /\ v <= j
    BY <2>3 DEF StepFits
  <2> HIDE DEF v
  <2>5. 2 * v \in Nat /\ 2 * v >= 1 /\ 2 * v <= k
    BY <2>1, <2>2, <2>4
  <2>6. StepFits(k, 2 * v)
    BY <1>2, <2>5 DEF StepFits
  <2> QED
    BY <1>2, <2>6 DEF v, j
<1> QED
  BY <1>1, <1>2

LEMMA StepExists ==
  ASSUME NEW x \in Nat
  PROVE  \E f : f = StepBody(x, f)
<1> DEFINE Run(k, f) == f = StepBody(k, f) /\ \A j \in 0..k : StepFits(j, f[j])
           P == {k \in 0..x : \E f : Run(k, f)}
<1>1. 0 \in P
  <2> DEFINE f == [k \in 0..0 |-> 1]
  <2>1. 0 < MantLimit /\ 0..0 = {0} /\ f[0] = 1
    BY WidthAssumption
  <2>2. StepBody(0, f) = f
    BY <2>1 DEF StepBody
  <2>3. \A j \in 0..0 : StepFits(j, f[j])
    BY <2>1 DEF StepFits
  <2> HIDE DEF f
  <2>4. \E g : Run(0, g)
    BY <2>2, <2>3
  <2> HIDE DEF Run
  <2> QED
    BY <2>4
<1>2. ASSUME NEW k \in 1..x, k - 1 \in P PROVE k \in P
  <2>1. PICK f : Run(k - 1, f)
    BY <1>2
  <2>2. \A j \in 0..(k - 1) : f[j] = (IF j < MantLimit THEN 1 ELSE 2 * f[j \div 2]) /\ StepFits(j, f[j])
    BY <2>1 DEF StepBody
  <2> DEFINE v == IF k < MantLimit THEN 1 ELSE 2 * f[k \div 2]
             g == [j \in 0..k |-> IF j = k THEN v ELSE f[j]]
  <2>3. StepFits(k, v)
    BY <2>2, StepGrows
  <2> HIDE DEF v
  <2>4. g[k] = v /\ \A j \in 0..(k - 1) : j # k /\ g[j] = f[j]
    OBVIOUS
  <2> HIDE DEF g
  <2>5. ASSUME NEW j \in 0..k PROVE g[j] = (IF j < MantLimit THEN 1 ELSE 2 * g[j \div 2]) /\ StepFits(j, g[j])
    <3>1. CASE j < MantLimit
      <4>1. CASE j = k
        BY <2>3, <2>4, <3>1, <4>1 DEF v
      <4>2. CASE j # k
        <5>1. j \in 0..(k - 1)
          BY <4>2
        <5> QED
          BY <2>2, <2>4, <3>1, <5>1
      <4> QED
        BY <4>1, <4>2
    <3>2. CASE ~ (j < MantLimit)
      <4> DEFINE h == j \div 2
      <4>1. j \in Int /\ j >= 2
        BY <3>2, WidthAssumption
      <4>2. h \in Int /\ 2 * h <= j /\ j < 2 * h + 2
        BY <4>1, DivFacts
      <4> HIDE DEF h
      <4>3. h \in 0..(k - 1)
        BY <4>1, <4>2
      <4>4. g[h] = f[h]
        BY <2>4, <4>3
      <4>5. CASE j = k
        BY <2>3, <2>4, <3>2, <4>4, <4>5 DEF v, h
      <4>6. CASE j # k
        <5>1. j \in 0..(k - 1)
          BY <4>6
        <5> QED
          BY <2>2, <2>4, <3>2, <4>4, <5>1 DEF h
      <4> QED
        BY <4>5, <4>6
    <3> QED
      BY <3>1, <3>2
  <2>6. g = StepBody(k, g)
    <3>1. g = [j \in 0..k |-> g[j]]
      BY DEF g
    <3> QED
      BY <2>5, <3>1 DEF StepBody
  <2>7. \E h : Run(k, h)
    BY <2>5, <2>6
  <2> HIDE DEF Run
  <2> QED
    BY <2>7
<1> HIDE DEF P
<1>3. x \in P
  <2>1. x \in 0..x
    OBVIOUS
  <2> QED
    BY <1>1, <1>2, <2>1, UpTo
<1> QED
  BY <1>3 DEF P

LEMMA StepBounds ==
  ASSUME NEW x \in Nat
  PROVE  StepFits(x, FloatStep(x))
<1> DEFINE step == CHOOSE f : f = StepBody(x, f)
           P == {k \in 0..x : \A j \in 0..k : StepFits(j, step[j])}
<1>1. step = StepBody(x, step)
  BY StepExists
<1>2. FloatStep(x) = step[x]
  BY DEF FloatStep, StepBody
<1> HIDE DEF step
<1>3. \A k \in 0..x : step[k] = IF k < MantLimit THEN 1 ELSE 2 * step[k \div 2]
  BY <1>1 DEF StepBody
<1>4. ASSUME NEW k \in 0..x, \A j \in 0..(k - 1) : StepFits(j, step[j]) PROVE StepFits(k, step[k])
  <2>1. StepFits(k, IF k < MantLimit THEN 1 ELSE 2 * step[k \div 2])
    BY <1>4, StepGrows
  <2> QED
    BY <1>3, <2>1
<1>5. 0 \in P
  <2>1. 0 \in 0..x /\ 0..(0 - 1) = {} /\ \A j \in 0..0 : j = 0
    OBVIOUS
  <2>2. StepFits(0, step[0])
    BY <1>4, <2>1
  <2> QED
    BY <2>1, <2>2
<1>6. ASSUME NEW k \in 1..x, k - 1 \in P PROVE k \in P
  <2>1. k \in 0..x /\ \A j \in 0..k : j = k \/ j \in 0..(k - 1)
    OBVIOUS
  <2>2. \A j \in 0..(k - 1) : StepFits(j, step[j])
    BY <1>6
  <2>3. StepFits(k, step[k])
    BY <1>4, <2>1, <2>2
  <2> QED
    BY <2>1, <2>2, <2>3
<1> HIDE DEF P
<1>7. x \in P
  <2>1. x \in 0..x
    OBVIOUS
  <2> QED
    BY <1>5, <1>6, <2>1, UpTo
<1>8. StepFits(x, step[x])
  <2>1. x \in 0..x
    OBVIOUS
  <2> QED
    BY <1>7, <2>1 DEF P
<1> QED
  BY <1>2, <1>8

\* The float nearest to a number is a number, and is 0 for 0 only.
LEMMA RoundFacts ==
  ASSUME NEW x \in Nat
  PROVE  RoundNat(x) \in Nat /\ (RoundNat(x) = 0 <=> x = 0)
<1> DEFINE step == FloatStep(x)
           q == x \div step
           r == x % step
           up == 2 * r > step \/ (2 * r = step /\ q % 2 = 1)
<1>1. RoundNat(x) = step * (IF up THEN q + 1 ELSE q)
  BY DEF RoundNat
<1>2. step \in Nat /\ step >= 1 /\ (x >= 1 => step <= x) /\ (x = 0 => step = 1)
  BY StepBounds, WidthAssumption DEF StepFits
<1> HIDE DEF step
<1>3. q \in Int /\ step * q <= x /\ x < step * q + step /\ r \in 0..(step - 1) /\ step * q + r = x
  BY <1>2, DivFacts, ModFacts
<1>4. x = 0 => ~ up /\ q = 0
  BY <1>2
<1> HIDE DEF q, r
<1>5. step * q \in Int /\ (q >= 1 => step * q >= step) /\ (q <= -1 => step * q <= -step)
  BY <1>2, <1>3, Multiples
<1>6. q >= 0 /\ (x >= 1 => q >= 1)
  <2> DEFINE u == step * q
  <2>1. u \in Int /\ (q <= -1 => u <= -step) /\ (q = 0 => u = 0) /\ x < u + step
    BY <1>2, <1>3, <1>5
  <2> HIDE DEF u
  <2> QED
    BY <1>2, <1>3, <2>1
<1> DEFINE e == IF up THEN q + 1 ELSE q
<1>7. e \in Nat /\ (x >= 1 => e >= 1) /\ (x = 0 => e = 0)
  BY <1>3, <1>4, <1>6
<1> HIDE DEF e
<1>8. step * e \in Nat /\ (e >= 1 => step * e >= step) /\ (e = 0 => step * e = 0)
  BY <1>2, <1>7, Multiples
<1>9. RoundNat(x) = step * e
  BY <1>1 DEF e
<1> DEFINE w == step * e
<1>10. w \in Nat /\ (e >= 1 => w >= step) /\ (e = 0 => w = 0)
  BY <1>8
<1> HIDE DEF w
<1>11. w \in Nat /\ (w = 0 <=> x = 0)
  BY <1>2, <1>7, <1>10
<1> QED
  BY <1>9, <1>11 DEF w

LEMMA FloatFacts ==
  ASSUME NEW x \in Int
  PROVE  FloatOfInt(x) \in Int /\ (FloatOfInt(x) = 0 <=> x = 0)
<1>1. CASE x < 0
  <2>1. -x \in Nat /\ -x # 0
    BY <1>1
  <2>2. RoundNat(-x) \in Nat /\ RoundNat(-x) # 0
    BY <2>1, RoundFacts
  <2>3. FloatOfInt(x) = -RoundNat(-x)
    BY <1>1 DEF FloatOfInt
  <2> QED
    BY <1>1, <2>2, <2>3
<1>2. CASE x >= 0
  <2>1. x \in Nat
    BY <1>2
  <2>2. FloatOfInt(x) = RoundNat(x)
    BY <1>2 DEF FloatOfInt
  <2> QED
    BY <2>1, <2>2, RoundFacts
<1> QED
  BY <1>1, <1>2

\* How integers compare is how their floats do, and both orders of a comparison agree.
LEMMA CompareInts ==
  ASSUME NEW a \in Int, NEW b \in Int
  PROVE  Compare(VInt(a), VInt(b)) = Sign3(FloatOfInt(a) < FloatOfInt(b), FloatOfInt(a) = FloatOfInt(b))
<1>1. /\ IsNum(VInt(a)) /\ IsNum(VInt(b)) /\ VInt(a).t # "null" /\ VInt(b).t # "null"
      /\ Num(VInt(a)) = FloatOfInt(a) /\ Num(VInt(b)) = FloatOfInt(b) /\ Den(VInt(a)) = 1 /\ Den(VInt(b)) = 1
      /\ VInt(a).t = "int" /\ VInt(b).t = "int"
  BY DEF IsNum, VInt, Num, Den
<1>2. FloatOfInt(a) * 1 = FloatOfInt(a) /\ FloatOfInt(b) * 1 = FloatOfInt(b)
  BY FloatFacts
<1>3. Compare(VInt(a), VInt(b)) = Sign3(Num(VInt(a)) * Den(VInt(b)) < Num(VInt(b)) * Den(VInt(a)),
                                        Num(VInt(a)) * Den(VInt(b)) = Num(VInt(b)) * Den(VInt(a)))
  BY <1>1 DEF Compare
<1> QED
  BY <1>1, <1>2, <1>3

LEMMA SignsOpposite ==
  ASSUME NEW f \in Int, NEW g \in Int
  PROVE  Sign3(f < g, f = g) = -Sign3(g < f, g = f)
BY DEF Sign3

LEMMA CompareOrders ==
  ASSUME NEW x \in Int, NEW y \in Int
  PROVE  Compare(VInt(x), VInt(y)) = -Compare(VInt(y), VInt(x))
<1>1. FloatOfInt(x) \in Int /\ FloatOfInt(y) \in Int
  BY FloatFacts
<1>2. /\ Compare(VInt(x), VInt(y)) = Sign3(FloatOfInt(x) < FloatOfInt(y), FloatOfInt(x) = FloatOfInt(y))
      /\ Compare(VInt(y), VInt(x)) = Sign3(FloatOfInt(y) < FloatOfInt(x), FloatOfInt(y) = FloatOfInt(x))
  BY CompareInts
<1> QED
  BY <1>1, <1>2, SignsOpposite

LEMMA AbsFacts ==
  ASSUME NEW x \in Int
  PROVE  AbsV(x) \in Nat /\ (x >= 0 => AbsV(x) = x) /\ (x < 0 => AbsV(x) = -x) /\ (x # 0 => AbsV(x) > 0)
BY DEF AbsV

\* A truncated quotient and its remainder, which has the sign of the dividend.
LEMMA TruncParts ==
  ASSUME NEW x \in Int, NEW y \in Int, y # 0
  PROVE  /\ TruncDiv(x, y) \in Int /\ TruncMod(x, y) \in Int
         /\ TruncDiv(x, y) * y + TruncMod(x, y) = x
         /\ AbsV(TruncMod(x, y)) < AbsV(y) /\ TruncMod(x, y) * x >= 0
         /\ AbsV(TruncDiv(x, y)) <= AbsV(x) /\ AbsV(TruncMod(x, y)) <= AbsV(x)
         /\ AbsV(TruncDiv(x, y)) = AbsV(x) => x = 0 \/ y = 1 \/ y = -1
<1> DEFINE a == AbsV(x)
           b == AbsV(y)
           d == a \div b
           e == a % b
           t == TruncDiv(x, y)
           m == TruncMod(x, y)
<1>1. a \in Nat /\ b \in Nat /\ b > 0 /\ (x >= 0 => a = x) /\ (x < 0 => a = -x) /\ (y >= 0 => b = y) /\ (y < 0 => b = -y)
  BY AbsFacts
<1>2. t = IF (x < 0) = (y < 0) THEN d ELSE -d
  BY DEF TruncDiv
<1>3. m = x - y * t
  BY DEF TruncMod
<1> HIDE DEF a, b, t, m
<1>4. d \in Int /\ b * d + e = a /\ e \in 0..(b - 1)
  BY <1>1, ModFacts
<1> HIDE DEF d, e
<1>5. d >= 0
  <2>1. d <= -1 => b * d <= -b
    BY <1>1, <1>4, Multiples
  <2> DEFINE u == b * d
  <2>2. u \in Int /\ u + e = a /\ (d <= -1 => u <= -b)
    BY <1>1, <1>4, <2>1
  <2> HIDE DEF u
  <2> QED
    BY <1>1, <1>4, <2>2
<1>6. (x >= 0 => y * t = b * d) /\ (x < 0 => y * t = -(b * d))
  <2>1. b * (-d) = -(b * d) /\ (-b) * d = -(b * d) /\ (-b) * (-d) = b * d
    BY <1>1, <1>4, Negations
  <2>2. CASE x >= 0 /\ y >= 0
    BY <1>1, <1>2, <1>4, <2>2
  <2>3. CASE x >= 0 /\ y < 0
    <3>1. t = -d /\ y = -b
      BY <1>1, <1>2, <2>3
    <3> QED
      BY <2>1, <2>3, <3>1
  <2>4. CASE x < 0 /\ y >= 0
    <3>1. t = -d /\ y = b
      BY <1>1, <1>2, <2>4
    <3> QED
      BY <2>1, <2>4, <3>1
  <2>5. CASE x < 0 /\ y < 0
    <3>1. t = d /\ y = -b
      BY <1>1, <1>2, <2>5
    <3> QED
      BY <2>1, <2>5, <3>1
  <2> QED
    BY <2>2, <2>3, <2>4, <2>5
<1> DEFINE u == b * d
<1>7. u \in Int /\ u + e = a /\ u >= 0
  BY <1>1, <1>4, <1>5
<1>8. y * t = IF x >= 0 THEN u ELSE -u
  BY <1>6
<1>9. d <= u
  <2>1. b * d >= d
    <3>1. b * d - d = (b - 1) * d /\ b - 1 >= 0 /\ b - 1 \in Int
      BY <1>1, <1>4
    <3>2. (b - 1) * d >= 0
      BY <1>4, <1>5, <3>1
    <3> QED
      BY <1>4, <1>7, <3>1, <3>2
  <2> QED
    BY <2>1
<1>10. d = u => d = 0 \/ b = 1
  <2>1. b * d - d = (b - 1) * d /\ b - 1 \in Int
    BY <1>1, <1>4
  <2>2. d # 0 /\ b # 1 => (b - 1) * d # 0
    BY <1>1, <1>4, <2>1
  <2> QED
    BY <1>4, <1>7, <2>1, <2>2
<1> HIDE DEF u
<1>11. m = (IF x >= 0 THEN e ELSE -e) /\ m \in Int
  BY <1>1, <1>3, <1>4, <1>7, <1>8
<1>12. t \in Int /\ t * y = y * t
  BY <1>2, <1>4
<1>13. t * y + m = x
  BY <1>3, <1>7, <1>8, <1>12
<1>14. AbsV(m) = e
  BY <1>4, <1>11 DEF AbsV
<1>15. AbsV(t) = d
  BY <1>2, <1>4, <1>5 DEF AbsV
<1>16. m * x >= 0
  <2>1. CASE x >= 0
    BY <1>4, <1>11, <2>1
  <2>2. CASE x < 0
    <3>1. m * x = e * (-x)
      BY <1>4, <1>11, <2>2
    <3> QED
      BY <1>4, <2>2, <3>1
  <2> QED
    BY <2>1, <2>2
<1>17. AbsV(m) < b /\ AbsV(m) <= a /\ AbsV(t) <= a
  BY <1>1, <1>4, <1>7, <1>9, <1>14, <1>15
<1>18. AbsV(t) = a => x = 0 \/ y = 1 \/ y = -1
  <2>1. AbsV(t) = a => d = u /\ d = a
    BY <1>4, <1>7, <1>9, <1>15
  <2> QED
    BY <1>1, <1>10, <2>1
<1> QED
  BY <1>11, <1>12, <1>13, <1>16, <1>17, <1>18 DEF a, b, t, m

\* Division of integers: the quotient truncates and the remainder makes up the rest, up to the one
\* quotient that does not fit.
LEMMA DivisionHolds ==
  ASSUME NEW x \in Int, NEW y \in Int, MinInt <= x, x <= MaxInt, MinInt <= y, y <= MaxInt, y # 0,
         NEW q, q = DivMod("/", VInt(x), VInt(y)), NEW r, r = DivMod("%", VInt(x), VInt(y))
  PROVE  Wrap(q.n * y + r.n) = x /\ AbsV(r.n) < AbsV(y) /\ r.n * x >= 0
<1> DEFINE t == TruncDiv(x, y)
           m == TruncMod(x, y)
<1>1. /\ t \in Int /\ m \in Int /\ t * y + m = x
      /\ AbsV(m) < AbsV(y) /\ m * x >= 0 /\ AbsV(t) <= AbsV(x) /\ AbsV(m) <= AbsV(x)
      /\ AbsV(t) = AbsV(x) => x = 0 \/ y = 1 \/ y = -1
  BY TruncParts
<1>2. ~ (FloatOfInt(y) = 0)
  BY FloatFacts
<1>3. q = VInt(Wrap(t)) /\ r = VInt(Wrap(m))
  <2>1. /\ IsNum(VInt(x)) /\ IsNum(VInt(y)) /\ Num(VInt(y)) = FloatOfInt(y)
        /\ VInt(x).t = "int" /\ VInt(y).t = "int" /\ VInt(x).n = x /\ VInt(y).n = y
    BY DEF IsNum, VInt, Num
  <2>2. "/" = "/" /\ "%" # "/"
    OBVIOUS
  <2>3. q = VInt(Wrap(IF "/" = "/" THEN t ELSE m))
    BY <1>2, <2>1, Zenon DEF DivMod
  <2>4. r = VInt(Wrap(IF "%" = "/" THEN t ELSE m))
    BY <1>2, <2>1, Zenon DEF DivMod
  <2> QED
    BY <2>2, <2>3, <2>4
<1>4. q.n = Wrap(t) /\ r.n = Wrap(m)
  BY <1>3 DEF VInt
<1> HIDE DEF t, m
<1>5. MaxInt \in Nat /\ MinInt = -MaxInt - 1 /\ MinInt \in Int
  BY Width
<1>6. m >= MinInt /\ m <= MaxInt /\ t >= MinInt /\ t <= MaxInt + 1
  <2>1. AbsV(x) <= MaxInt + 1 /\ AbsV(x) \in Nat /\ AbsV(y) <= MaxInt + 1 /\ AbsV(y) \in Nat
    BY <1>5 DEF AbsV
  <2>2. AbsV(m) <= MaxInt /\ AbsV(t) <= MaxInt + 1 /\ AbsV(m) \in Nat /\ AbsV(t) \in Nat
    BY <1>1, <1>5, <2>1, AbsFacts
  <2>3. -AbsV(m) <= m /\ m <= AbsV(m) /\ -AbsV(t) <= t /\ t <= AbsV(t)
    BY <1>1 DEF AbsV
  <2> QED
    BY <1>1, <1>5, <2>2, <2>3
<1>7. Wrap(m) = m /\ Wrap(t) = (IF t = MaxInt + 1 THEN MinInt ELSE t)
  <2>1. m # MaxInt + 1 /\ m <= MaxInt + 1
    BY <1>1, <1>5, <1>6
  <2> QED
    BY <1>1, <1>6, <2>1, WrapFits
<1>8. x # MaxInt + 1 /\ x <= MaxInt + 1
  BY <1>5
<1>9. Wrap(x) = x
  BY <1>8, WrapFits
<1>10. CASE t # MaxInt + 1
  BY <1>1, <1>4, <1>7, <1>9, <1>10
<1>11. CASE t = MaxInt + 1
  <2>1. AbsV(t) = MaxInt + 1 /\ AbsV(x) = MaxInt + 1 /\ x = MinInt
    <3>1. AbsV(t) = MaxInt + 1
      BY <1>5, <1>11 DEF AbsV
    <3>2. AbsV(x) >= MaxInt + 1
      BY <1>1, <3>1
    <3> QED
      BY <1>5, <3>1, <3>2 DEF AbsV
  <2>2. y = 1 \/ y = -1
    BY <1>1, <1>5, <2>1
  <2>3. AbsV(y) = 1 /\ m = 0
    <3>1. AbsV(y) = 1
      BY <2>2 DEF AbsV
    <3>2. AbsV(m) < 1
      BY <1>1, <3>1
    <3> QED
      BY <1>1, <3>1, <3>2 DEF AbsV
  <2>4. y = -1
    BY <1>1, <1>5, <1>11, <2>1, <2>2, <2>3
  <2>5. MinInt * y + m = MaxInt + 1
    BY <1>5, <2>3, <2>4
  <2>6. MaxInt + 1 \in Int /\ MaxInt + 1 >= MinInt /\ MaxInt + 1 <= MaxInt + 1
    BY <1>5
  <2>7. Wrap(MaxInt + 1) = MinInt
    BY <2>6, WrapFits
  <2> QED
    BY <1>1, <1>4, <1>7, <1>11, <2>1, <2>5, <2>7
<1> QED
  BY <1>10, <1>11

LEMMA DivisionByZero ==
  ASSUME NEW x \in Int, NEW op
  PROVE  DivMod(op, VInt(x), VInt(0)) = NULL
<1>1. Num(VInt(0)) = 0
  BY FloatFacts DEF Num, VInt
<1> QED
  BY <1>1, Zenon DEF DivMod

LEMMA ArithmeticHolds ==
  ASSUME NEW x \in MinInt..MaxInt, NEW y \in MinInt..MaxInt, input = [of |-> "numbers", x |-> x, y |-> y]
  PROVE  ArithmeticExact
<1>1. x \in Int /\ y \in Int /\ MinInt <= x /\ x <= MaxInt /\ MinInt <= y /\ y <= MaxInt
  BY Width
<1>2. input.x = x /\ input.y = y
  OBVIOUS
<1> DEFINE q == DivMod("/", VInt(x), VInt(y))
           r == DivMod("%", VInt(x), VInt(y))
<1>3. Exact(x) /\ Exact(y) => \A op \in {"+", "-", "*"} :
        NumericArith(op, VInt(x), VInt(y)) = IF Op2(op, x, y) \in MinInt..MaxInt THEN VInt(Op2(op, x, y)) ELSE NULL
  BY <1>1, ArithHolds
<1>4. y = 0 => q = NULL /\ r = NULL
  BY <1>1, DivisionByZero
<1>5. y # 0 => Wrap(q.n * y + r.n) = x /\ AbsV(r.n) < AbsV(y) /\ r.n * x >= 0
  BY <1>1, DivisionHolds
<1>6. Compare(VInt(x), VInt(y)) = -Compare(VInt(y), VInt(x))
  BY <1>1, CompareOrders
<1> HIDE DEF q, r
<1> QED
  BY <1>2, <1>3, <1>4, <1>5, <1>6, Zenon DEF ArithmeticExact, q, r

(***************************************************************************)
(* Patterns                                                                 *)
(***************************************************************************)

\* Byte a of the pattern stands for the part of s from b to before c.
Fits(p, s, a, b, c) == PartFits(s, p[a], Percent, Underscore, b, c)
\* The bytes of the pattern from a on split s from b on.
Rest(p, s, a, b) ==
  \E at \in [a..(Len(p) + 1) -> 1..(Len(s) + 1)] :
    /\ at[a] = b /\ at[Len(p) + 1] = Len(s) + 1
    /\ \A i \in a..Len(p) : Fits(p, s, i, at[i], at[i + 1])

LEMMA RestAll ==
  ASSUME NEW p \in Seq(Nat), NEW s \in Seq(Nat)
  PROVE  Splits(p, s, Percent, Underscore) <=> Rest(p, s, 1, 1)
BY DEF Splits, Rest, Fits

LEMMA RestEnd ==
  ASSUME NEW p \in Seq(Nat), NEW s \in Seq(Nat), NEW b \in 1..(Len(s) + 1)
  PROVE  Rest(p, s, Len(p) + 1, b) <=> b = Len(s) + 1
<1> DEFINE m == Len(p) + 1
<1>1. m \in Nat /\ Len(p) \in Nat /\ ~ (m <= Len(p)) /\ m..m = {m} /\ m..Len(p) = {}
  OBVIOUS
<1>2. ASSUME b = Len(s) + 1 PROVE Rest(p, s, m, b)
  <2> DEFINE at == [i \in m..m |-> b]
  <2>1. at \in [m..m -> 1..(Len(s) + 1)] /\ at[m] = b
    BY <1>1
  <2> HIDE DEF at, m
  <2>2. \A i \in m..Len(p) : Fits(p, s, i, at[i], at[i + 1])
    BY <1>1
  <2>3. at[Len(p) + 1] = Len(s) + 1
    BY <1>2, <2>1 DEF m
  <2> QED
    BY <2>1, <2>2, <2>3 DEF Rest, m
<1>3. ASSUME Rest(p, s, m, b) PROVE b = Len(s) + 1
  BY <1>3 DEF Rest
<1> QED
  BY <1>2, <1>3

LEMMA RestStep ==
  ASSUME NEW p \in Seq(Nat), NEW s \in Seq(Nat), NEW a \in 1..Len(p), NEW b \in 1..(Len(s) + 1)
  PROVE  Rest(p, s, a, b) <=> \E c \in 1..(Len(s) + 1) : Fits(p, s, a, b, c) /\ Rest(p, s, a + 1, c)
<1> DEFINE m == Len(p) + 1
           n == Len(s) + 1
<1>1. /\ a \in Nat /\ m \in Nat /\ a + 1 \in (a + 1)..m /\ a \in a..m /\ m \in (a + 1)..m /\ a + 1 # a /\ m # a
      /\ \A i \in (a + 1)..m : i \in a..m /\ i # a
      /\ \A i \in (a + 1)..Len(p) : i \in (a + 1)..m /\ i + 1 \in (a + 1)..m /\ i \in a..Len(p)
      /\ \A i \in a..Len(p) : i = a \/ i \in (a + 1)..Len(p)
      /\ a \in a..Len(p) /\ a + 1 \in a..m /\ m \in a..m
      /\ \A i \in a..m : i = a \/ i \in (a + 1)..m
  OBVIOUS
<1>2. ASSUME Rest(p, s, a, b) PROVE \E c \in 1..n : Fits(p, s, a, b, c) /\ Rest(p, s, a + 1, c)
  <2>1. PICK at \in [a..m -> 1..n] : at[a] = b /\ at[m] = n /\ \A i \in a..Len(p) : Fits(p, s, i, at[i], at[i + 1])
    BY <1>2 DEF Rest
  <2> DEFINE rest == [i \in (a + 1)..m |-> at[i]]
  <2>2. rest \in [(a + 1)..m -> 1..n] /\ \A i \in (a + 1)..m : rest[i] = at[i]
    BY <1>1
  <2> HIDE DEF rest
  <2>3. at[a + 1] \in 1..n /\ Fits(p, s, a, b, at[a + 1])
    BY <1>1, <2>1
  <2>4. Rest(p, s, a + 1, at[a + 1])
    <3>1. rest[a + 1] = at[a + 1] /\ rest[m] = n
      BY <1>1, <2>1, <2>2
    <3>2. \A i \in (a + 1)..Len(p) : Fits(p, s, i, rest[i], rest[i + 1])
      BY <1>1, <2>1, <2>2
    <3> QED
      BY <2>2, <3>1, <3>2 DEF Rest
  <2> QED
    BY <2>3, <2>4
<1>3. ASSUME NEW c \in 1..n, Fits(p, s, a, b, c), Rest(p, s, a + 1, c) PROVE Rest(p, s, a, b)
  <2>1. PICK at \in [(a + 1)..m -> 1..n] :
          at[a + 1] = c /\ at[m] = n /\ \A i \in (a + 1)..Len(p) : Fits(p, s, i, at[i], at[i + 1])
    BY <1>3 DEF Rest
  <2> DEFINE all == [i \in a..m |-> IF i = a THEN b ELSE at[i]]
  <2>2. all \in [a..m -> 1..n] /\ all[a] = b /\ \A i \in (a + 1)..m : all[i] = at[i]
    BY <1>1
  <2> HIDE DEF all
  <2>3. all[m] = n
    BY <1>1, <2>1, <2>2
  <2>4. ASSUME NEW i \in a..Len(p) PROVE Fits(p, s, i, all[i], all[i + 1])
    <3>1. CASE i = a
      BY <1>1, <1>3, <2>1, <2>2, <3>1
    <3>2. CASE i # a
      BY <1>1, <2>1, <2>2, <3>2
    <3> QED
      BY <3>1, <3>2
  <2> QED
    BY <2>2, <2>3, <2>4 DEF Rest
<1> QED
  BY <1>2, <1>3

\* A % takes in any part, and every other byte of the pattern one byte that fits.
LEMMA RestPercent ==
  ASSUME NEW p \in Seq(Nat), NEW s \in Seq(Nat), NEW a \in 1..Len(p), NEW b \in 1..(Len(s) + 1), p[a] = Percent
  PROVE  Rest(p, s, a, b) <=> \E c \in 1..(Len(s) + 1) : b <= c /\ Rest(p, s, a + 1, c)
<1>1. \A c : Fits(p, s, a, b, c) <=> b <= c
  BY DEF Fits, PartFits
<1> QED
  BY <1>1, RestStep, Zenon

ByteFits(p, s, a, b) == b <= Len(s) /\ p[a] \in {Underscore, s[b]}
LEMMA RestByte ==
  ASSUME NEW p \in Seq(Nat), NEW s \in Seq(Nat), NEW a \in 1..Len(p), NEW b \in 1..(Len(s) + 1), p[a] # Percent
  PROVE  Rest(p, s, a, b) <=> ByteFits(p, s, a, b) /\ Rest(p, s, a + 1, b + 1)
<1>1. \A c : Fits(p, s, a, b, c) <=> c = b + 1 /\ p[a] \in {Underscore, s[b]}
  BY DEF Fits, PartFits
<1>2. b + 1 \in 1..(Len(s) + 1) <=> b <= Len(s)
  OBVIOUS
<1>3. Rest(p, s, a, b) <=> \E c \in 1..(Len(s) + 1) : Fits(p, s, a, b, c) /\ Rest(p, s, a + 1, c)
  BY RestStep, Zenon
<1> QED
  BY <1>1, <1>2, <1>3, Zenon DEF ByteFits

\* A run of k bytes of the pattern without a %, from a on.
Plain(p, a, k) == \A i \in 0..(k - 1) : p[a + i] # Percent
LEMMA RestRun ==
  ASSUME NEW p \in Seq(Nat), NEW s \in Seq(Nat), NEW a \in 1..(Len(p) + 1), NEW b \in 1..(Len(s) + 1),
         NEW k \in Nat, a + k <= Len(p) + 1, Plain(p, a, k)
  PROVE  Rest(p, s, a, b) <=>
           /\ b + k <= Len(s) + 1 /\ Rest(p, s, a + k, b + k)
           /\ \A i \in 0..(k - 1) : ByteFits(p, s, a + i, b + i)
<1> DEFINE n == Len(s) + 1
           Q(j) == /\ b + j <= n /\ Rest(p, s, a + j, b + j)
                   /\ \A i \in 0..(j - 1) : ByteFits(p, s, a + i, b + i)
           P == {j \in 0..k : Rest(p, s, a, b) <=> Q(j)}
<1>1. 0 \in P
  <2>1. a + 0 = a /\ b + 0 = b /\ b + 0 <= n /\ 0..(0 - 1) = {}
    OBVIOUS
  <2>2. Rest(p, s, a, b) <=> Q(0)
    BY <2>1
  <2> QED
    BY <2>2
<1>2. ASSUME NEW j \in 1..k, j - 1 \in P PROVE j \in P
  <2> DEFINE c == a + (j - 1)
             d == b + (j - 1)
  <2>1. /\ c \in 1..Len(p) /\ j - 1 \in 0..(k - 1) /\ c + 1 = a + j /\ d + 1 = b + j /\ d \in Nat /\ d >= 1
        /\ j \in 0..k /\ Len(s) \in Nat /\ n \in Nat
    OBVIOUS
  <2>2. 0..(j - 1) = (0..(j - 1 - 1)) \cup {j - 1}
    OBVIOUS
  <2>3. p[c] # Percent
    BY <2>1 DEF Plain
  <2>4. Rest(p, s, a, b) <=> Q(j - 1)
    <3> HIDE DEF Q
    <3> QED
      BY <1>2
  <2>5. Q(j) <=> d + 1 <= n /\ Rest(p, s, c + 1, d + 1) /\ ByteFits(p, s, c, d)
                 /\ \A i \in 0..(j - 1 - 1) : ByteFits(p, s, a + i, b + i)
    BY <2>1, <2>2
  <2>6. Q(j - 1) <=> d <= n /\ Rest(p, s, c, d) /\ \A i \in 0..(j - 1 - 1) : ByteFits(p, s, a + i, b + i)
    OBVIOUS
  <2> HIDE DEF Q, c, d, n
  <2>7. d <= n => (Rest(p, s, c, d) <=> ByteFits(p, s, c, d) /\ Rest(p, s, c + 1, d + 1))
    <3>1. SUFFICES ASSUME d <= n PROVE Rest(p, s, c, d) <=> ByteFits(p, s, c, d) /\ Rest(p, s, c + 1, d + 1)
      OBVIOUS
    <3>2. d \in 1..(Len(s) + 1)
      BY <2>1, <3>1 DEF n
    <3> QED
      BY <2>1, <2>3, <3>2, RestByte, Zenon
  <2>8. ByteFits(p, s, c, d) => d + 1 <= n /\ d <= n
    BY <2>1 DEF ByteFits, n
  <2>9. Q(j - 1) <=> Q(j)
    BY <2>5, <2>6, <2>7, <2>8, Zenon
  <2> QED
    BY <2>1, <2>4, <2>9
<1>3. k \in P
  <2>1. k \in 0..k
    OBVIOUS
  <2> HIDE DEF P
  <2> QED
    BY <1>1, <1>2, <2>1, UpTo
<1> QED
  BY <1>3

\* Nothing of s is left: the rest of the pattern must be %.
LEMMA RestNothing ==
  ASSUME NEW p \in Seq(Nat), NEW s \in Seq(Nat), NEW a \in 1..(Len(p) + 1)
  PROVE  Rest(p, s, a, Len(s) + 1) <=> \A i \in a..Len(p) : p[i] = Percent
<1> DEFINE n == Len(s) + 1
           At(k) == Len(p) + 1 - k
           P == {k \in 0..Len(p) : Rest(p, s, At(k), n) <=> \A i \in At(k)..Len(p) : p[i] = Percent}
<1>1. n \in 1..(Len(s) + 1) /\ Len(p) \in Nat /\ Len(s) \in Nat
  OBVIOUS
<1>2. 0 \in P
  <2>1. Len(p) + 1 - 0 = Len(p) + 1 /\ (Len(p) + 1)..Len(p) = {}
    OBVIOUS
  <2>2. Rest(p, s, Len(p) + 1, n)
    BY <1>1, RestEnd, Zenon
  <2> QED
    BY <1>1, <2>1, <2>2
<1>3. ASSUME NEW k \in 1..Len(p), k - 1 \in P PROVE k \in P
  <2> DEFINE c == At(k)
  <2>1. c \in 1..Len(p) /\ c + 1 = At(k - 1) /\ k \in 0..Len(p) /\ c..Len(p) = {c} \cup ((c + 1)..Len(p))
    OBVIOUS
  <2>2. Rest(p, s, c + 1, n) <=> \A i \in (c + 1)..Len(p) : p[i] = Percent
    BY <1>3, <2>1
  <2> HIDE DEF c
  <2>3. Rest(p, s, c, n) <=> p[c] = Percent /\ Rest(p, s, c + 1, n)
    <3>1. CASE p[c] = Percent
      <4>1. Rest(p, s, c, n) <=> \E x \in 1..(Len(s) + 1) : n <= x /\ Rest(p, s, c + 1, x)
        BY <1>1, <2>1, <3>1, RestPercent, Zenon
      <4>2. \A x \in 1..(Len(s) + 1) : n <= x <=> x = n
        OBVIOUS
      <4> HIDE DEF n
      <4> QED
        BY <1>1, <3>1, <4>1, <4>2
    <3>2. CASE p[c] # Percent
      <4>1. ~ (n <= Len(s))
        BY <1>1
      <4>2. Rest(p, s, c, n) => ByteFits(p, s, c, n)
        BY <1>1, <2>1, <3>2, RestByte, Zenon
      <4> QED
        BY <3>2, <4>1, <4>2 DEF ByteFits
    <3> QED
      BY <3>1, <3>2
  <2>4. Rest(p, s, c, n) <=> \A i \in c..Len(p) : p[i] = Percent
    BY <2>1, <2>2, <2>3
  <2> QED
    BY <2>1, <2>4 DEF c
<1>4. \A k \in 0..Len(p) : k \in P
  <2> HIDE DEF P
  <2> QED
    BY <1>1, <1>2, <1>3, UpTo
<1>5. Len(p) + 1 - a \in 0..Len(p) /\ At(Len(p) + 1 - a) = a
  OBVIOUS
<1> QED
  BY <1>4, <1>5

\* The loop stands at pi and si, and the bytes between the % at sp and pi fit those between ss and si.
Starred(p, s, sp, ss, pi, si) ==
  /\ sp \in 1..Len(p) /\ ss \in 1..(Len(s) + 1) /\ p[sp] = Percent
  /\ sp < pi /\ si - ss = pi - sp - 1
  /\ Plain(p, sp + 1, si - ss)
  /\ \A i \in 0..(si - ss - 1) : ByteFits(p, s, sp + 1 + i, ss + i)

LEMMA StarFacts ==
  ASSUME NEW p \in Seq(Nat), NEW s \in Seq(Nat), NEW pi \in 1..(Len(p) + 1), NEW si \in 1..(Len(s) + 1),
         NEW sp, NEW ss, Starred(p, s, sp, ss, pi, si)
  PROVE  /\ Rest(p, s, sp, ss) <=> \E c \in 1..(Len(s) + 1) : ss <= c /\ Rest(p, s, sp + 1, c)
         /\ Rest(p, s, sp + 1, ss) <=> Rest(p, s, pi, si)
         /\ \A c \in 1..(Len(s) + 1) :
              Rest(p, s, sp + 1, c) => c + (si - ss) <= Len(s) + 1 /\ Rest(p, s, pi, c + (si - ss))
<1> DEFINE k == si - ss
           a == sp + 1
<1>1. /\ sp \in 1..Len(p) /\ ss \in 1..(Len(s) + 1) /\ p[sp] = Percent /\ sp < pi /\ si - ss = pi - sp - 1
      /\ Plain(p, a, k) /\ \A i \in 0..(k - 1) : ByteFits(p, s, a + i, ss + i)
  BY DEF Starred
<1>2. k \in Nat /\ a \in 1..(Len(p) + 1) /\ a + k = pi /\ ss + k = si /\ a + k <= Len(p) + 1 /\ si <= Len(s) + 1
  BY <1>1
<1> HIDE DEF k, a
<1>3. \A c \in 1..(Len(s) + 1) :
        Rest(p, s, a, c) <=> /\ c + k <= Len(s) + 1 /\ Rest(p, s, a + k, c + k)
                             /\ \A i \in 0..(k - 1) : ByteFits(p, s, a + i, c + i)
  BY <1>1, <1>2, RestRun, Zenon
<1>4. Rest(p, s, a, ss) <=> Rest(p, s, pi, si)
  BY <1>1, <1>2, <1>3
<1>5. \A c \in 1..(Len(s) + 1) : Rest(p, s, a, c) => c + k <= Len(s) + 1 /\ Rest(p, s, pi, c + k)
  BY <1>2, <1>3
<1>6. Rest(p, s, sp, ss) <=> \E c \in 1..(Len(s) + 1) : ss <= c /\ Rest(p, s, sp + 1, c)
  BY <1>1, RestPercent, Zenon
<1> QED
  BY <1>4, <1>5, <1>6 DEF k, a

\* The end of s: one more byte for the % would be one byte too many for the run behind it.
LEMMA StarEnd ==
  ASSUME NEW p \in Seq(Nat), NEW s \in Seq(Nat), NEW pi \in 1..(Len(p) + 1),
         NEW sp, NEW ss, Starred(p, s, sp, ss, pi, Len(s) + 1)
  PROVE  Rest(p, s, sp, ss) <=> Rest(p, s, pi, Len(s) + 1)
<1> DEFINE n == Len(s) + 1
<1>1. n \in 1..(Len(s) + 1) /\ n \in Nat /\ ss \in 1..n
  BY DEF Starred
<1>2. /\ Rest(p, s, sp, ss) <=> \E c \in 1..n : ss <= c /\ Rest(p, s, sp + 1, c)
      /\ Rest(p, s, sp + 1, ss) <=> Rest(p, s, pi, n)
      /\ \A c \in 1..n : Rest(p, s, sp + 1, c) => c + (n - ss) <= n /\ Rest(p, s, pi, c + (n - ss))
  <2>1. Starred(p, s, sp, ss, pi, n)
    OBVIOUS
  <2> QED
    BY <1>1, <2>1, StarFacts, Zenon
<1> HIDE DEF n
<1>3. \A c \in 1..n : ss <= c /\ Rest(p, s, sp + 1, c) => c = ss
  BY <1>1, <1>2
<1>4. ss <= ss
  BY <1>1
<1>5. Rest(p, s, sp, ss) <=> Rest(p, s, pi, n)
  BY <1>1, <1>2, <1>3, <1>4, Zenon
<1> QED
  BY <1>5 DEF n

\* The next %: what the run leaves of s is split from there on, with that part or a later one.
LEMMA StarNext ==
  ASSUME NEW p \in Seq(Nat), NEW s \in Seq(Nat), NEW pi \in 1..Len(p), NEW si \in 1..(Len(s) + 1),
         NEW sp, NEW ss, Starred(p, s, sp, ss, pi, si), p[pi] = Percent
  PROVE  Rest(p, s, sp, ss) <=> Rest(p, s, pi, si)
<1> DEFINE n == Len(s) + 1
<1>1. n \in Nat /\ ss \in 1..n /\ pi \in 1..(Len(p) + 1) /\ si - ss \in Nat /\ ss <= ss /\ si \in 1..n
  <2>1. ss \in 1..n /\ si - ss = pi - sp - 1 /\ sp < pi /\ sp \in 1..Len(p)
    BY DEF Starred
  <2> QED
    BY <2>1
<1>2. /\ Rest(p, s, sp, ss) <=> \E c \in 1..n : ss <= c /\ Rest(p, s, sp + 1, c)
      /\ Rest(p, s, sp + 1, ss) <=> Rest(p, s, pi, si)
      /\ \A c \in 1..n : Rest(p, s, sp + 1, c) => c + (si - ss) <= n /\ Rest(p, s, pi, c + (si - ss))
  BY <1>1, StarFacts, Zenon
<1>3. \A b \in 1..n : Rest(p, s, pi, b) <=> \E c \in 1..n : b <= c /\ Rest(p, s, pi + 1, c)
  BY RestPercent, Zenon
<1> HIDE DEF n
<1>4. ASSUME Rest(p, s, sp, ss) PROVE Rest(p, s, pi, si)
  <2>1. PICK c \in 1..n : ss <= c /\ Rest(p, s, sp + 1, c)
    BY <1>2, <1>4, Zenon
  <2> DEFINE b == c + (si - ss)
  <2>2. b <= n /\ Rest(p, s, pi, b)
    BY <1>2, <2>1, Zenon
  <2>3. b \in 1..n /\ si <= b
    BY <1>1, <2>1, <2>2
  <2> HIDE DEF b
  <2>4. PICK x \in 1..n : b <= x /\ Rest(p, s, pi + 1, x)
    BY <1>3, <2>2, <2>3, Zenon
  <2>5. si <= x
    BY <1>1, <2>3, <2>4
  <2> QED
    BY <1>1, <1>3, <2>4, <2>5, Zenon
<1>5. ASSUME Rest(p, s, pi, si) PROVE Rest(p, s, sp, ss)
  BY <1>1, <1>2, <1>5, Zenon
<1> QED
  BY <1>4, <1>5

\* No split with this part of the %: only longer ones are left.
LEMMA StarReturn ==
  ASSUME NEW p \in Seq(Nat), NEW s \in Seq(Nat), NEW pi \in 1..(Len(p) + 1), NEW si \in 1..Len(s),
         NEW sp, NEW ss, Starred(p, s, sp, ss, pi, si), ~ Rest(p, s, pi, si)
  PROVE  /\ ss + 1 \in 1..(Len(s) + 1) /\ Starred(p, s, sp, ss + 1, sp + 1, ss + 1)
         /\ Rest(p, s, sp, ss) <=> Rest(p, s, sp, ss + 1)
<1> DEFINE n == Len(s) + 1
<1>1. /\ n \in Nat /\ ss \in 1..n /\ sp \in 1..Len(p) /\ p[sp] = Percent /\ sp < pi /\ si - ss = pi - sp - 1
      /\ si \in 1..n /\ si < n
  BY DEF Starred
<1>2. ss + 1 \in 1..n
  BY <1>1
<1>3. Starred(p, s, sp, ss + 1, sp + 1, ss + 1)
  <2>1. ss + 1 - (ss + 1) = 0 /\ 0..(0 - 1) = {} /\ sp + 1 - sp - 1 = 0 /\ sp < sp + 1
    BY <1>1
  <2> QED
    BY <1>1, <1>2, <2>1 DEF Starred, Plain
<1>4. /\ Rest(p, s, sp, ss) <=> \E c \in 1..n : ss <= c /\ Rest(p, s, sp + 1, c)
      /\ Rest(p, s, sp + 1, ss) <=> Rest(p, s, pi, si)
      /\ \A c \in 1..n : Rest(p, s, sp + 1, c) => c + (si - ss) <= n /\ Rest(p, s, pi, c + (si - ss))
  BY <1>1, StarFacts, Zenon
<1> DEFINE s1 == ss + 1
<1> HIDE DEF s1
<1>s. s1 \in 1..n
  BY <1>2 DEF s1
<1>5. Rest(p, s, sp, s1) <=> \E c \in 1..n : s1 <= c /\ Rest(p, s, sp + 1, c)
  <2>1. sp \in 1..Len(p) /\ p[sp] = Percent
    BY <1>1
  <2>2. \A b \in 1..n : Rest(p, s, sp, b) <=> \E c \in 1..n : b <= c /\ Rest(p, s, sp + 1, c)
    BY <2>1, RestPercent, Zenon
  <2> QED
    BY <1>s, <2>2, Zenon
<1> HIDE DEF n
<1>6. \A c \in 1..n : ss <= c <=> c = ss \/ s1 <= c
  BY <1>1 DEF s1
<1>7. Rest(p, s, sp, ss) <=> Rest(p, s, sp, s1)
  BY <1>4, <1>5, <1>6, Zenon
<1> QED
  BY <1>2, <1>3, <1>7 DEF n, s1

\* One byte more in the run.
LEMMA StarByte ==
  ASSUME NEW p \in Seq(Nat), NEW s \in Seq(Nat), NEW pi \in 1..Len(p), NEW si \in 1..Len(s),
         NEW sp, NEW ss, Starred(p, s, sp, ss, pi, si), p[pi] # Percent, ByteFits(p, s, pi, si)
  PROVE  Starred(p, s, sp, ss, pi + 1, si + 1)
<1> DEFINE k == si - ss
<1>1. /\ sp \in 1..Len(p) /\ ss \in 1..(Len(s) + 1) /\ p[sp] = Percent /\ sp < pi /\ si - ss = pi - sp - 1
      /\ \A i \in 0..(k - 1) : p[sp + 1 + i] # Percent /\ ByteFits(p, s, sp + 1 + i, ss + i)
  BY DEF Starred, Plain
<1>2. k \in Nat /\ sp + 1 + k = pi /\ ss + k = si /\ si + 1 - ss - 1 = k /\ si + 1 - ss = k + 1 /\ pi + 1 - sp - 1 = k + 1
  BY <1>1
<1> HIDE DEF k
<1>3. \A i \in 0..k : p[sp + 1 + i] # Percent /\ ByteFits(p, s, sp + 1 + i, ss + i)
  <2>1. \A i \in 0..k : i = k \/ i \in 0..(k - 1)
    BY <1>2
  <2>2. p[sp + 1 + k] # Percent /\ ByteFits(p, s, sp + 1 + k, ss + k)
    BY <1>2
  <2> QED
    BY <1>1, <2>1, <2>2, Zenon
<1> DEFINE si1 == si + 1
           pi1 == pi + 1
<1>4. si1 - ss - 1 = k /\ sp < pi1 /\ si1 - ss = pi1 - sp - 1
  BY <1>1, <1>2
<1> HIDE DEF si1, pi1
<1>5. Plain(p, sp + 1, si1 - ss)
  BY <1>3, <1>4, Zenon DEF Plain
<1>6. \A i \in 0..(si1 - ss - 1) : ByteFits(p, s, sp + 1 + i, ss + i)
  BY <1>3, <1>4, Zenon
<1>7. Starred(p, s, sp, ss, pi1, si1)
  BY <1>1, <1>4, <1>5, <1>6, Zenon DEF Starred
<1> QED
  BY <1>7 DEF si1, pi1

\* Where the loop of matchLike may be: while it goes on, what it returns is what the split from the
\* last % on says, or, when it has met none, the split from where it stands.
Spots(p, s) == [pi : 1..(Len(p) + 1), si : 1..(Len(s) + 1), starP : 0..Len(p), starS : 0..(Len(s) + 1),
                st : {"more", "yes", "no"}]
Open(p, s, w) ==
  \/ w.starP = 0 /\ w.starS = 0 /\ (Rest(p, s, 1, 1) <=> Rest(p, s, w.pi, w.si))
  \/ Starred(p, s, w.starP, w.starS, w.pi, w.si) /\ (Rest(p, s, 1, 1) <=> Rest(p, s, w.starP, w.starS))
\* How far it has come: back to the last % is forward, by one more byte that the % takes in.
Travelled(p, w) == w.starS * (Len(p) + 1) + w.pi
LikeSpots(p, s, k) ==
  {w \in Spots(p, s) : /\ w.st = "more" => Open(p, s, w) /\ Travelled(p, w) >= k + 1
                       /\ w.st = "yes" => Rest(p, s, 1, 1)
                       /\ w.st = "no" => ~ Rest(p, s, 1, 1)}

LEMMA LikeEnded ==
  ASSUME NEW p, NEW s, NEW k, NEW w \in Spots(p, s), NEW b \in BOOLEAN, Rest(p, s, 1, 1) <=> b
  PROVE  LikeEnds(w, b) \in LikeSpots(p, s, k)
<1> DEFINE v == LikeEnds(w, b)
<1>1. v \in Spots(p, s) /\ v.st = IF b THEN "yes" ELSE "no"
  BY DEF LikeEnds, Spots
<1> HIDE DEF v
<1>2. v \in LikeSpots(p, s, k)
  BY <1>1 DEF LikeSpots
<1> QED
  BY <1>2 DEF v

\* The place where the loop stands splits in a way if and only if the whole does, at the end of s.
LEMMA OpenEnd ==
  ASSUME NEW p \in Seq(Nat), NEW s \in Seq(Nat), NEW w \in Spots(p, s), Open(p, s, w), w.si = Len(s) + 1
  PROVE  Rest(p, s, 1, 1) <=> OnlyPercents(p, w)
<1>1. w.pi \in 1..(Len(p) + 1)
  BY DEF Spots
<1>2. Rest(p, s, w.pi, Len(s) + 1) <=> OnlyPercents(p, w)
  BY <1>1, RestNothing, Zenon DEF OnlyPercents
<1>3. Rest(p, s, 1, 1) <=> Rest(p, s, w.pi, w.si)
  <2>1. CASE Starred(p, s, w.starP, w.starS, w.pi, w.si) /\ (Rest(p, s, 1, 1) <=> Rest(p, s, w.starP, w.starS))
    <3>1. Starred(p, s, w.starP, w.starS, w.pi, Len(s) + 1)
      BY <2>1
    <3>2. Rest(p, s, w.starP, w.starS) <=> Rest(p, s, w.pi, Len(s) + 1)
      BY <1>1, <3>1, StarEnd, Zenon
    <3> QED
      BY <2>1, <3>2
  <2> QED
    BY <2>1 DEF Open
<1> QED
  BY <1>2, <1>3

\* A pass over a %.
LEMMA PassPercent ==
  ASSUME NEW p \in Seq(Nat), NEW s \in Seq(Nat), NEW k \in Nat, NEW w \in LikeSpots(p, s, k), w.st = "more",
         w.si <= Len(s), AtPercent(p, w)
  PROVE  LikePass(p, s, w) \in LikeSpots(p, s, k + 1)
<1> DEFINE v == [w EXCEPT !.pi = @ + 1, !.starP = w.pi, !.starS = w.si]
           n == Len(s) + 1
           m == Len(p) + 1
<1>1. w \in Spots(p, s) /\ Open(p, s, w) /\ Travelled(p, w) >= k + 1
  BY DEF LikeSpots
<1>2. /\ w.pi \in 1..Len(p) /\ w.pi \in 1..m /\ w.si \in 1..n /\ w.starS \in 0..n /\ p[w.pi] = Percent /\ m \in Nat /\ n \in Nat
      /\ w.pi + 1 \in 1..m /\ w.si \in 0..n
  <2>1. w.pi \in 1..(Len(p) + 1) /\ w.si \in 1..(Len(s) + 1) /\ w.starS \in 0..(Len(s) + 1)
    BY <1>1 DEF Spots
  <2>2. w.pi <= Len(p) /\ p[w.pi] = Percent
    BY DEF AtPercent
  <2>3. ASSUME NEW x, NEW y, x \in 1..(Len(p) + 1), x <= Len(p), y \in 1..(Len(s) + 1)
        PROVE  /\ x \in 1..Len(p) /\ x \in 1..m /\ y \in 1..n /\ m \in Nat /\ n \in Nat
               /\ x + 1 \in 1..m /\ y \in 0..n
    BY <2>3
  <2> QED
    BY <2>1, <2>2, <2>3, Zenon
<1>3. /\ v \in Spots(p, s) /\ v.pi = w.pi + 1 /\ v.si = w.si /\ v.starP = w.pi /\ v.starS = w.si /\ v.st = "more"
  <2>1. w.pi + 1 \in 1..(Len(p) + 1) /\ w.pi \in 0..Len(p) /\ w.si \in 0..(Len(s) + 1)
    BY <1>2
  <2> QED
    BY <1>1, <2>1 DEF Spots
<1>4. LikePass(p, s, w) = v
  BY DEF LikePass
<1> HIDE DEF v
<1>5. Rest(p, s, 1, 1) <=> Rest(p, s, w.pi, w.si)
  <2>1. CASE Starred(p, s, w.starP, w.starS, w.pi, w.si) /\ (Rest(p, s, 1, 1) <=> Rest(p, s, w.starP, w.starS))
    <3>1. Rest(p, s, w.starP, w.starS) <=> Rest(p, s, w.pi, w.si)
      BY <1>2, <2>1, StarNext, Zenon
    <3> QED
      BY <2>1, <3>1
  <2> QED
    BY <1>1, <2>1 DEF Open
<1>6. Starred(p, s, v.starP, v.starS, v.pi, v.si)
  <2> DEFINE x == w.pi
             y == w.si
  <2>1. x \in 1..Len(p) /\ y \in 1..(Len(s) + 1) /\ p[x] = Percent
    BY <1>2
  <2> HIDE DEF x, y
  <2>2. y - y = 0 /\ 0..(0 - 1) = {} /\ x + 1 - x - 1 = 0 /\ x < x + 1
    BY <2>1
  <2>3. Starred(p, s, x, y, x + 1, y)
    BY <2>1, <2>2 DEF Starred, Plain
  <2> QED
    BY <1>3, <2>3 DEF x, y
<1>7. w.starS <= w.si
  <2>1. CASE w.starS = 0
    BY <1>2, <2>1
  <2>2. CASE Starred(p, s, w.starP, w.starS, w.pi, w.si)
    <3>1. w.si - w.starS = w.pi - w.starP - 1 /\ w.starP < w.pi /\ w.starP \in 1..Len(p) /\ w.starS \in 1..(Len(s) + 1)
      BY <2>2, Zenon DEF Starred
    <3>2. w.pi \in Int /\ w.si \in Int
      BY <1>1 DEF Spots
    <3>3. w.starP \in Int /\ w.starS \in Int
      BY <3>1
    <3>4. ASSUME NEW a \in Int, NEW b \in Int, NEW c \in Int, NEW d \in Int, a - b = c - d - 1, d < c
          PROVE  b <= a
      BY <3>4
    <3> QED
      BY <3>1, <3>2, <3>3, <3>4, Zenon
  <2>3. w.starS = 0 \/ Starred(p, s, w.starP, w.starS, w.pi, w.si)
    BY <1>1, Zenon DEF Open
  <2> QED
    BY <2>1, <2>2, <2>3
<1>8. w.starS * m <= w.si * m /\ w.starS * m \in Int /\ w.si * m \in Int
  <2> DEFINE x == w.starS
             y == w.si
  <2>1. x \in Nat /\ y \in Nat /\ x <= y
    BY <1>2, <1>7
  <2> HIDE DEF x, y, m
  <2>2. x * m <= y * m /\ x * m \in Int /\ y * m \in Int
    BY <1>2, <2>1
  <2> QED
    BY <2>2 DEF x, y
<1>9. Travelled(p, v) >= k + 1 + 1
  <2>1. Travelled(p, w) = w.starS * m + w.pi /\ Travelled(p, v) = w.si * m + (w.pi + 1)
    BY <1>3 DEF Travelled
  <2> DEFINE x == w.starS * m
             y == w.si * m
  <2> HIDE DEF x, y, m, n
  <2>2. x <= y /\ x \in Int /\ y \in Int /\ x + w.pi >= k + 1
    BY <1>1, <1>8, <2>1 DEF x, y
  <2>3. y + (w.pi + 1) >= k + 1 + 1
    BY <1>2, <2>2
  <2> QED
    BY <2>1, <2>3 DEF y
<1>10. Open(p, s, v)
  BY <1>3, <1>5, <1>6, Zenon DEF Open
<1> QED
  BY <1>3, <1>4, <1>9, <1>10 DEF LikeSpots

\* A pass over a byte that fits.
LEMMA PassByte ==
  ASSUME NEW p \in Seq(Nat), NEW s \in Seq(Nat), NEW k \in Nat, NEW w \in LikeSpots(p, s, k), w.st = "more",
         w.si <= Len(s), ~ AtPercent(p, w), AtMatch(p, s, w)
  PROVE  LikePass(p, s, w) \in LikeSpots(p, s, k + 1)
<1> DEFINE v == [w EXCEPT !.pi = @ + 1, !.si = @ + 1]
           n == Len(s) + 1
           m == Len(p) + 1
<1>1. w \in Spots(p, s) /\ Open(p, s, w) /\ Travelled(p, w) >= k + 1
  BY DEF LikeSpots
<1>2. /\ w.pi \in 1..Len(p) /\ w.si \in 1..Len(s) /\ w.si \in 1..n /\ w.starS \in 0..n /\ m \in Nat /\ n \in Nat
      /\ w.pi + 1 \in 1..m /\ w.si + 1 \in 1..n
  <2>1. w.pi \in 1..(Len(p) + 1) /\ w.si \in 1..(Len(s) + 1) /\ w.starS \in 0..(Len(s) + 1)
    BY <1>1 DEF Spots
  <2>2. w.pi <= Len(p)
    BY DEF AtMatch
  <2>3. ASSUME NEW x, NEW y, x \in 1..(Len(p) + 1), x <= Len(p), y \in 1..(Len(s) + 1), y <= Len(s)
        PROVE  /\ x \in 1..Len(p) /\ y \in 1..Len(s) /\ y \in 1..n /\ m \in Nat /\ n \in Nat
               /\ x + 1 \in 1..m /\ y + 1 \in 1..n
    BY <2>3
  <2> QED
    BY <2>1, <2>2, <2>3, Zenon
<1>3. p[w.pi] # Percent /\ ByteFits(p, s, w.pi, w.si)
  BY <1>2 DEF AtPercent, AtMatch, ByteFits
<1>4. /\ v \in Spots(p, s) /\ v.pi = w.pi + 1 /\ v.si = w.si + 1 /\ v.starP = w.starP /\ v.starS = w.starS /\ v.st = "more"
  BY <1>1, <1>2 DEF Spots
<1>5. LikePass(p, s, w) = v
  BY DEF LikePass
<1> HIDE DEF v
<1>6. Open(p, s, v)
  <2>1. CASE Starred(p, s, w.starP, w.starS, w.pi, w.si) /\ (Rest(p, s, 1, 1) <=> Rest(p, s, w.starP, w.starS))
    <3>1. Starred(p, s, w.starP, w.starS, w.pi + 1, w.si + 1)
      BY <1>2, <1>3, <2>1, StarByte, Zenon
    <3> QED
      BY <1>4, <2>1, <3>1, Zenon DEF Open
  <2>2. CASE w.starP = 0 /\ w.starS = 0 /\ (Rest(p, s, 1, 1) <=> Rest(p, s, w.pi, w.si))
    <3>1. Rest(p, s, w.pi, w.si) <=> Rest(p, s, w.pi + 1, w.si + 1)
      BY <1>2, <1>3, RestByte, Zenon
    <3> QED
      BY <1>4, <2>2, <3>1, Zenon DEF Open
  <2> QED
    BY <1>1, <2>1, <2>2, Zenon DEF Open
<1>7. Travelled(p, v) >= k + 1 + 1
  <2>1. Travelled(p, w) = w.starS * m + w.pi /\ Travelled(p, v) = w.starS * m + (w.pi + 1)
    BY <1>4 DEF Travelled
  <2> DEFINE x == w.starS * m
  <2>2. x \in Int
    <3>1. w.starS \in Int
      BY <1>2
    <3> HIDE DEF m
    <3> QED
      BY <1>2, <3>1
  <2> HIDE DEF x, m, n
  <2>3. x + w.pi >= k + 1
    BY <1>1, <2>1 DEF x
  <2>4. x + (w.pi + 1) >= k + 1 + 1
    BY <1>2, <2>2, <2>3
  <2> QED
    BY <2>1, <2>4 DEF x
<1> QED
  BY <1>4, <1>5, <1>6, <1>7 DEF LikeSpots

\* Nothing fits: back to the last %, or the end.
LEMMA PassReturn ==
  ASSUME NEW p \in Seq(Nat), NEW s \in Seq(Nat), NEW k \in Nat, NEW w \in LikeSpots(p, s, k), w.st = "more",
         w.si <= Len(s), ~ AtPercent(p, w), ~ AtMatch(p, s, w)
  PROVE  LikePass(p, s, w) \in LikeSpots(p, s, k + 1)
<1> DEFINE v == [w EXCEPT !.pi = w.starP + 1, !.si = w.starS + 1, !.starS = w.starS + 1]
           n == Len(s) + 1
           m == Len(p) + 1
<1>1. w \in Spots(p, s) /\ Open(p, s, w) /\ Travelled(p, w) >= k + 1
  BY DEF LikeSpots
<1>2. w.pi \in 1..m /\ w.si \in 1..Len(s) /\ w.si \in 1..n /\ m \in Nat /\ n \in Nat
  BY <1>1 DEF Spots
<1>3. ~ Rest(p, s, w.pi, w.si)
  <2>1. CASE w.pi = m
    <3>1. Rest(p, s, m, w.si) <=> w.si = n
      BY <1>2, RestEnd, Zenon
    <3> QED
      BY <1>2, <2>1, <3>1
  <2>2. CASE w.pi # m
    <3>1. w.pi \in 1..Len(p)
      BY <1>2, <2>2
    <3>2. p[w.pi] # Percent /\ ~ ByteFits(p, s, w.pi, w.si)
      BY <3>1 DEF AtPercent, AtMatch, ByteFits
    <3> QED
      BY <1>2, <3>1, <3>2, RestByte, Zenon
  <2> QED
    BY <2>1, <2>2
<1>4. LikePass(p, s, w) = LikeReturn(w)
  BY DEF LikePass
<1>5. CASE w.starP = 0 /\ w.starS = 0 /\ (Rest(p, s, 1, 1) <=> Rest(p, s, w.pi, w.si))
  <2>1. LikeReturn(w) = LikeEnds(w, FALSE)
    BY <1>5 DEF LikeReturn
  <2>2. Rest(p, s, 1, 1) <=> FALSE
    BY <1>3, <1>5
  <2>3. LikeEnds(w, FALSE) \in LikeSpots(p, s, k + 1)
    BY <1>1, <2>2, LikeEnded
  <2> QED
    BY <1>4, <2>1, <2>3
<1>6. CASE Starred(p, s, w.starP, w.starS, w.pi, w.si) /\ (Rest(p, s, 1, 1) <=> Rest(p, s, w.starP, w.starS))
  <2>1. w.starP \in 1..Len(p) /\ w.starP < w.pi /\ w.starS \in 1..n
    BY <1>6 DEF Starred
  <2>2. LikeReturn(w) = v
    <3>1. w.starP # 0
      BY <2>1
    <3> QED
      BY <3>1 DEF LikeReturn
  <2>3. /\ w.starS + 1 \in 1..n /\ Starred(p, s, w.starP, w.starS + 1, w.starP + 1, w.starS + 1)
        /\ Rest(p, s, w.starP, w.starS) <=> Rest(p, s, w.starP, w.starS + 1)
    BY <1>2, <1>3, <1>6, StarReturn, Zenon
  <2>4. /\ v \in Spots(p, s) /\ v.pi = w.starP + 1 /\ v.si = w.starS + 1 /\ v.starP = w.starP
        /\ v.starS = w.starS + 1 /\ v.st = "more"
    <3>1. w.starP + 1 \in 1..(Len(p) + 1) /\ w.starS + 1 \in 0..(Len(s) + 1)
      BY <2>1, <2>3
    <3> QED
      BY <1>1, <2>3, <3>1 DEF Spots
  <2> HIDE DEF v
  <2>5. Open(p, s, v)
    BY <1>6, <2>3, <2>4, Zenon DEF Open
  <2>6. Travelled(p, v) >= k + 1 + 1
    <3> DEFINE x == w.starS * m
    <3>1. Travelled(p, w) = x + w.pi /\ Travelled(p, v) = (w.starS + 1) * m + (w.starP + 1)
      BY <2>4 DEF Travelled
    <3>2. x \in Int /\ (w.starS + 1) * m = x + m
      <4> DEFINE y == w.starS
      <4>1. y \in Int
        BY <2>1
      <4> HIDE DEF m, y
      <4>2. y * m \in Int /\ (y + 1) * m = y * m + m
        BY <1>2, <4>1
      <4> QED
        BY <4>2 DEF y
    <3> HIDE DEF x
    <3>3. x + m + (w.starP + 1) >= k + 1 + 1
      <4>1. x + w.pi >= k + 1 /\ w.pi <= m /\ w.starP >= 1 /\ w.starP \in Int /\ w.pi \in Int /\ m \in Int /\ x \in Int
        <5> HIDE DEF m, n
        <5> QED
          BY <1>1, <1>2, <2>1, <3>1, <3>2
      <4> HIDE DEF m
      <4> QED
        BY <4>1
    <3> QED
      BY <3>1, <3>2, <3>3
  <2> QED
    BY <1>4, <2>2, <2>4, <2>5, <2>6 DEF LikeSpots
<1> QED
  BY <1>1, <1>5, <1>6 DEF Open

LEMMA LikeStepKeeps ==
  ASSUME NEW p \in Seq(Nat), NEW s \in Seq(Nat), NEW k \in Nat, NEW w \in LikeSpots(p, s, k)
  PROVE  LikeStep(p, s, w) \in LikeSpots(p, s, k + 1)
<1>1. w \in Spots(p, s)
  BY DEF LikeSpots
<1>2. CASE w.st # "more"
  <2>1. LikeStep(p, s, w) = w
    BY <1>2 DEF LikeStep
  <2> QED
    BY <1>2, <2>1 DEF LikeSpots
<1>3. CASE w.st = "more" /\ w.si > Len(s)
  <2>1. LikeStep(p, s, w) = LikeEnds(w, OnlyPercents(p, w))
    BY <1>3 DEF LikeStep
  <2>2. w.si = Len(s) + 1
    BY <1>1, <1>3 DEF Spots
  <2>3. Open(p, s, w)
    BY <1>3 DEF LikeSpots
  <2>4. Rest(p, s, 1, 1) <=> OnlyPercents(p, w)
    BY <1>1, <2>2, <2>3, OpenEnd
  <2>5. OnlyPercents(p, w) \in BOOLEAN
    BY DEF OnlyPercents
  <2> QED
    BY <1>1, <2>1, <2>4, <2>5, LikeEnded
<1>4. CASE w.st = "more" /\ ~ (w.si > Len(s))
  <2>1. LikeStep(p, s, w) = LikePass(p, s, w)
    BY <1>4 DEF LikeStep
  <2>2. w.si <= Len(s)
    BY <1>1, <1>4 DEF Spots
  <2> QED
    BY <1>4, <2>1, <2>2, PassPercent, PassByte, PassReturn
<1> QED
  BY <1>2, <1>3, <1>4

\* matchLike ends within its rounds, with what the splits say.
LEMMA LikeHolds ==
  ASSUME NEW p \in Seq(Nat), NEW s \in Seq(Nat)
  PROVE  MatchLike(p, s) <=> Splits(p, s, Percent, Underscore)
<1> DEFINE K == LikeRounds(p, s)
           St == [k \in Nat |-> LikeSpots(p, s, k)]
           round == [x \in Nat \X Spots(p, s) |-> LikeStep(p, s, x[2])]
           Body(f) == [k \in 0..K |-> IF k = 0 THEN LikeStart ELSE LikeStep(p, s, f[k - 1])]
           run == CHOOSE f : f = Body(f)
<1>1. K \in Nat
  <2>1. Len(s) + 2 \in Nat /\ Len(p) + 1 \in Nat
    OBVIOUS
  <2> DEFINE x == Len(s) + 2
             y == Len(p) + 1
  <2> HIDE DEF x, y
  <2>2. x * y \in Nat
    <3>1. x \in Nat /\ y \in Nat
      BY <2>1 DEF x, y
    <3> QED
      BY <3>1
  <2> QED
    BY <2>2 DEF LikeRounds, x, y
<1>2. LikeStart \in St[0]
  <2>1. LikeStart \in Spots(p, s) /\ LikeStart.st = "more" /\ LikeStart.starP = 0 /\ LikeStart.starS = 0
        /\ LikeStart.pi = 1 /\ LikeStart.si = 1
    BY DEF LikeStart, Spots
  <2> DEFINE m == Len(p) + 1
  <2>2. Travelled(p, LikeStart) >= 0 + 1
    <3>1. m \in Nat /\ 0 * m = 0
      OBVIOUS
    <3> HIDE DEF m
    <3>2. Travelled(p, LikeStart) = 0 * m + 1
      BY <2>1 DEF Travelled, m
    <3> QED
      BY <3>1, <3>2
  <2>3. Open(p, s, LikeStart)
    BY <2>1 DEF Open
  <2>4. LikeStart \in LikeSpots(p, s, 0)
    BY <2>1, <2>2, <2>3 DEF LikeSpots
  <2> QED
    BY <2>4
<1> HIDE DEF K
<1>3. \A k \in 1..K : \A v \in St[k - 1] : round[<<k, v>>] \in St[k] /\ round[<<k, v>>] = LikeStep(p, s, v)
  <2> SUFFICES ASSUME NEW k \in 1..K, NEW v \in St[k - 1]
               PROVE  round[<<k, v>>] \in St[k] /\ round[<<k, v>>] = LikeStep(p, s, v)
    OBVIOUS
  <2>1. k - 1 \in Nat /\ k \in Nat /\ k - 1 + 1 = k
    BY <1>1
  <2>2. v \in LikeSpots(p, s, k - 1)
    BY <2>1
  <2>3. LikeStep(p, s, v) \in LikeSpots(p, s, k - 1 + 1)
    BY <2>1, <2>2, LikeStepKeeps, Zenon
  <2>4. v \in Spots(p, s)
    BY <2>2 DEF LikeSpots
  <2>5. round[<<k, v>>] = LikeStep(p, s, v)
    BY <2>1, <2>4
  <2> HIDE DEF round
  <2>6. St[k] = LikeSpots(p, s, k)
    BY <2>1
  <2> HIDE DEF St
  <2> QED
    BY <2>1, <2>3, <2>5, <2>6
<1> HIDE DEF St, round
<1>4. /\ Loop(K, LikeStart, round) =
           [k \in 0..K |-> IF k = 0 THEN LikeStart ELSE round[<<k, Loop(K, LikeStart, round)[k - 1]>>]]
      /\ \A k \in 0..K : Loop(K, LikeStart, round)[k] \in St[k]
  BY <1>1, <1>2, <1>3, LoopExists
<1>5. \E f : f = Body(f)
  <2> DEFINE g == Loop(K, LikeStart, round)
  <2> HIDE DEF g
  <2>1. g = [k \in 0..K |-> IF k = 0 THEN LikeStart ELSE round[<<k, g[k - 1]>>]] /\ \A k \in 0..K : g[k] \in St[k]
    BY <1>4 DEF g
  <2>2. \A k \in 0..K : k # 0 => round[<<k, g[k - 1]>>] = LikeStep(p, s, g[k - 1])
    <3> SUFFICES ASSUME NEW k \in 0..K, k # 0 PROVE round[<<k, g[k - 1]>>] = LikeStep(p, s, g[k - 1])
      OBVIOUS
    <3>1. k \in 1..K /\ k - 1 \in 0..K
      BY <1>1
    <3>2. g[k - 1] \in St[k - 1]
      BY <2>1, <3>1
    <3> QED
      BY <1>3, <3>1, <3>2
  <2>3. g = Body(g)
    BY <2>1, <2>2
  <2> HIDE DEF Body
  <2> QED
    BY <2>3
<1>6. run = Body(run)
  <2> HIDE DEF Body
  <2> QED
    BY <1>5
<1>7. MatchLike(p, s) <=> run[K].st = "yes"
  BY DEF MatchLike, K
<1> HIDE DEF run
<1>8. run[0] = LikeStart /\ \A k \in 1..K : run[k] = LikeStep(p, s, run[k - 1])
  <2>1. 0 \in 0..K /\ \A k \in 1..K : k \in 0..K /\ k # 0
    BY <1>1
  <2> QED
    BY <1>6, <2>1
<1>9. \A k \in 0..K : run[k] \in St[k]
  <2>1. \A k \in 1..K : run[k - 1] \in St[k - 1] => run[k] \in St[k]
    BY <1>3, <1>8
  <2> QED
    BY <1>1, <1>2, <1>8, <2>1, LoopStays
<1> DEFINE w == run[K]
<1>10. w \in LikeSpots(p, s, K)
  <2>1. K \in 0..K
    BY <1>1
  <2> QED
    BY <1>1, <1>9, <2>1 DEF St
<1> HIDE DEF w
<1>11. w.st # "more"
  <2> SUFFICES ASSUME w.st = "more" PROVE FALSE
    OBVIOUS
  <2>1. w \in Spots(p, s) /\ Travelled(p, w) >= K + 1
    BY <1>10 DEF LikeSpots
  <2> DEFINE m == Len(p) + 1
             n == Len(s) + 1
             b == w.starS
  <2>2. w.pi \in 1..m /\ b \in 0..n /\ m \in Nat /\ n \in Nat /\ Len(s) + 2 = n + 1
    BY <2>1 DEF Spots
  <2>3. Travelled(p, w) = b * m + w.pi /\ K = (n + 1) * m
    BY <2>2 DEF Travelled, K, LikeRounds
  <2> HIDE DEF m, n, b
  <2>4. b \in Nat /\ b <= n
    BY <2>2
  <2>5. b * m <= n * m /\ b * m \in Int /\ n * m \in Int /\ (n + 1) * m = n * m + m
    BY <2>2, <2>4
  <2> DEFINE x == b * m
             y == n * m
  <2> HIDE DEF x, y
  <2>6. x <= y /\ x \in Int /\ y \in Int /\ K = y + m /\ x + w.pi >= K + 1
    BY <2>1, <2>3, <2>5 DEF x, y
  <2> QED
    BY <1>1, <2>2, <2>6
<1>12. w.st \in {"more", "yes", "no"} /\ (w.st = "yes" => Rest(p, s, 1, 1)) /\ (w.st = "no" => ~ Rest(p, s, 1, 1))
  BY <1>10 DEF LikeSpots, Spots
<1>13. w.st = "yes" <=> Rest(p, s, 1, 1)
  BY <1>11, <1>12
<1> QED
  BY <1>7, <1>13, RestAll DEF w

(***************************************************************************)
(* The theorems                                                             *)
(***************************************************************************)
\* The inputs drawn are of the sets they are drawn from.
Drawn ==
  \/ input = NoInput
  \/ \E x, y \in Numbers : input = [of |-> "numbers", x |-> x, y |-> y]
  \/ \E p \in Patterns, s \in Texts : input = [of |-> "strings", p |-> p, s |-> s]
  \/ \E d \in Days, sec \in Secs, x \in Amounts : input = [of |-> "time", t |-> VTime(d, sec), x |-> x]

LEMMA DrawnAlways == Spec => []Drawn
<1>1. Init => Drawn
  BY DEF Init, Drawn
<1>2. Drawn /\ [Next]_input => Drawn'
  BY Zenon DEF Drawn, Next, DrawNumbers, DrawStrings, DrawTime
<1> QED
  BY <1>1, <1>2, PTL DEF Spec

LEMMA DrawnExact ==
  ASSUME Drawn
  PROVE  ArithmeticExact /\ LikeAgrees /\ CalendarExact
<1> USE DEF NoInput
<1>1. CASE input = NoInput
  <2>1. input.of = "nothing"
    BY <1>1
  <2> QED
    BY <2>1 DEF ArithmeticExact, LikeAgrees, CalendarExact
<1>2. ASSUME NEW x \in Numbers, NEW y \in Numbers, input = [of |-> "numbers", x |-> x, y |-> y]
      PROVE ArithmeticExact /\ LikeAgrees /\ CalendarExact
  <2>1. x \in MinInt..MaxInt /\ y \in MinInt..MaxInt
    BY InputAssumption
  <2>2. ArithmeticExact
    BY <1>2, <2>1, ArithmeticHolds
  <2>3. input.of = "numbers"
    BY <1>2
  <2> QED
    BY <2>2, <2>3 DEF LikeAgrees, CalendarExact
<1>3. ASSUME NEW p \in Patterns, NEW s \in Texts, input = [of |-> "strings", p |-> p, s |-> s]
      PROVE ArithmeticExact /\ LikeAgrees /\ CalendarExact
  <2>1. p \in Seq(Nat) /\ s \in Seq(Nat)
    BY InputAssumption
  <2>2. MatchLike(p, s) <=> Splits(p, s, Percent, Underscore)
    BY <2>1, LikeHolds
  <2>3. input.of = "strings" /\ input.p = p /\ input.s = s
    BY <1>3
  <2> QED
    BY <2>2, <2>3, Zenon DEF ArithmeticExact, LikeAgrees, CalendarExact
<1>4. ASSUME NEW d \in Days, NEW sec \in Secs, NEW x \in Amounts, input = [of |-> "time", t |-> VTime(d, sec), x |-> x]
      PROVE ArithmeticExact /\ LikeAgrees /\ CalendarExact
  <2> DEFINE seconds == DaySeconds
  <2>1. d \in Int /\ d >= FirstDay /\ x \in Int
    BY InputAssumption, Zenon
  <2>2. sec \in 0..(seconds - 1)
    BY InputAssumption, Zenon
  <2>3. seconds \in Int
    BY DEF DaySeconds
  <2> HIDE DEF seconds
  <2>4. sec \in Int /\ 0 <= sec /\ sec < seconds
    BY <2>2, <2>3
  <2>5. CalendarExact
    BY <1>4, <2>1, <2>4, CalendarHolds, Zenon DEF seconds
  <2>6. input.of = "time"
    BY <1>4
  <2> QED
    BY <2>5, <2>6, Zenon DEF ArithmeticExact, LikeAgrees
<1> QED
  BY <1>1, <1>2, <1>3, <1>4, Zenon DEF Drawn

\* Integers are added, subtracted, multiplied, divided and compared exactly, or the answer is NULL
\* (eval.go numericArith, divMod, compare).
THEOREM ArithmeticIsExact == Spec => []ArithmeticExact
<1>1. Drawn => ArithmeticExact
  BY DrawnExact
<1> QED
  BY <1>1, DrawnAlways, PTL

\* The one place LIKE goes back to is enough: it finds what any split of the string would find
\* (eval.go matchLike).
THEOREM LikeIsExact == Spec => []LikeAgrees
<1>1. Drawn => LikeAgrees
  BY DrawnExact
<1> QED
  BY <1>1, DrawnAlways, PTL

\* Dates, day numbers, Julian days and differences in time agree, from year 0 on (datetime.go).
THEOREM CalendarIsExact == Spec => []CalendarExact
<1>1. Drawn => CalendarExact
  BY DrawnExact
<1> QED
  BY <1>1, DrawnAlways, PTL
=============================================================================
