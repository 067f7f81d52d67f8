---------------------------- MODULE SqlScalars ----------------------------
(***************************************************************************)
(* Scalar operations of SQL (SQL/EX eval.go, datetime.go) against what they   *)
(* stand for: a state holds the input of one operation, drawn from any sets    *)
(* of integers, strings and points in time.                                   *)
(***************************************************************************)
EXTENDS SqlDateTime

CONSTANTS
  Numbers,            \* integers that are added, divided and compared
  Patterns, Texts,    \* patterns of LIKE and the strings they are held against
  Days, Secs,         \* days, and seconds of a day
  Amounts             \* what is added to a point in time

\* The first day of year 0: a date is parsed from four digits of the year (ParseDateTime), and julianDay
\* truncates what it divides.
FirstDay == DaysFromCivil(0, 1, 1)

ASSUME InputAssumption ==
  /\ Numbers \subseteq MinInt..MaxInt
  /\ Patterns \subseteq Seq(Nat) /\ Texts \subseteq Seq(Nat)
  /\ Days \subseteq Int /\ \A d \in Days : d >= FirstDay
  /\ Secs \subseteq 0..(DaySeconds - 1)
  /\ Amounts \subseteq Int

VARIABLE input

NoInput == [of |-> "nothing"]

Init == input = NoInput
DrawNumbers == input = NoInput /\ \E x, y \in Numbers : input' = [of |-> "numbers", x |-> x, y |-> y]
DrawStrings == input = NoInput /\ \E p \in Patterns, s \in Texts : input' = [of |-> "strings", p |-> p, s |-> s]
DrawTime ==
  /\ input = NoInput
  /\ \E d \in Days, sec \in Secs, x \in Amounts : input' = [of |-> "time", t |-> VTime(d, sec), x |-> x]
Next == DrawNumbers \/ DrawStrings \/ DrawTime
Spec == Init /\ [][Next]_input

(***************************************************************************)
(* Properties                                                               *)
(***************************************************************************)
Exact(x) == FloatOfInt(x) = x
\* Numbers a float holds exactly are added, subtracted and multiplied exactly, and NULL is the answer
\* just when the result does not fit; division truncates and its remainder makes up the rest; both
\* orders of a comparison agree (eval.go numericArith, divMod, compare).
ArithmeticExact ==
  input.of = "numbers" =>
    LET x == input.x
        y == input.y
        q == DivMod("/", VInt(x), VInt(y))
        r == DivMod("%", VInt(x), VInt(y))
    IN /\ Exact(x) /\ Exact(y) => \A op \in {"+", "-", "*"} :
            NumericArith(op, VInt(x), VInt(y))
              = IF Op2(op, x, y) \in MinInt..MaxInt THEN VInt(Op2(op, x, y)) ELSE NULL
       /\ IF y = 0 THEN q = NULL /\ r = NULL
          ELSE /\ Wrap(q.n * y + r.n) = x
               /\ AbsV(r.n) < AbsV(y) /\ r.n * x >= 0
       /\ Compare(VInt(x), VInt(y)) = -Compare(VInt(y), VInt(x))

\* LIKE, which goes back to the last % only and never to one before it, finds what trying every split of
\* the string finds (eval.go matchLike).
LikeAgrees == input.of = "strings" => (MatchLike(input.p, input.s) <=> Splits(input.p, input.s, Percent, Underscore))

\* Twice the Julian day of 1970-01-01, 00:00.
JulianEpoch2 == 4881175
\* Day numbers and civil dates are inverse to each other over leap years and centuries, the Julian day
\* counts the same days, the days of a year are numbered from 1, those of a week follow one another,
\* and a difference in a unit undoes an addition in it (datetime.go julianDay, DateAdd, DateSub, DateDiff, evalExtractField).
CalendarExact ==
  input.of = "time" =>
    LET t == input.t
        c == CivilFromDays(t.day)
    IN /\ DaysFromCivil(c.year, c.month, c.day) = t.day
       /\ JulianDay2(t) = 2 * t.day + JulianEpoch2
       /\ ExtractField("DOY", t) \in 1..366
       /\ ExtractField("DOW", DateAdd(t, input.x, "DAY")) = (ExtractField("DOW", t) + input.x) % 7
       /\ \A u \in {"DAY", "HOUR", "MINUTE", "SECOND"} :
            DateDiff(DateAdd(t, input.x, u), t, u) = input.x /\ DateSub(DateAdd(t, input.x, u), input.x, u) = t
=============================================================================
