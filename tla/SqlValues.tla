----------------------------- MODULE SqlValues -----------------------------
(***************************************************************************)
(* SQL values: arithmetic, comparison, patterns and conversions (SQL/EX      *)
(* eval.go, coerce.go, decimal.go). Pure operators.                          *)
(*                                                                          *)
(* A string is a sequence of numbers, its bytes. A float is a rational       *)
(* num/den in lowest terms: the only rounding modelled is the one an integer *)
(* suffers on its way through a float64.                                     *)
(***************************************************************************)
EXTENDS Integers, Sequences, FiniteSets, SequencesExt

CONSTANTS
  MaxInt,         \* the greatest integer, 2^63 - 1 in the code
  MantLimit       \* every integer below it is a float, 2^53 in the code

ASSUME WidthAssumption == MaxInt \in Nat \ {0} /\ MantLimit \in Nat /\ MantLimit > 1

(***************************************************************************)
(* Values                                                                   *)
(***************************************************************************)
NULL       == [t |-> "null"]
ERR        == [t |-> "err"]     \* Eval returned an error
VInt(x)    == [t |-> "int", n |-> x]
VBool(x)   == [t |-> "bool", b |-> x]
VStr(x)    == [t |-> "str", s |-> x]
GCD[x \in Nat, y \in Nat] == IF y = 0 THEN x ELSE GCD[y, x % y]
AbsV(x) == IF x < 0 THEN -x ELSE x
VFlt(x, y) == LET g == GCD[AbsV(x), AbsV(y)]
                  sg == IF y < 0 THEN -1 ELSE 1
              IN [t |-> "float", num |-> sg * (x \div g), den |-> sg * (y \div g)]

MinInt == -MaxInt - 1
Modulus == 2 * (MaxInt + 1)
\* Two's complement: what Go's + - * leave in an int64.
Wrap(x) == ((x - MinInt) % Modulus) + MinInt

\* float64(x) of an integer: the nearest float, ties to even. Floats are 1 apart below MantLimit,
\* and twice as far for every bit more.
FloatStep(x) ==
  LET step[k \in 0..x] == IF k < MantLimit THEN 1 ELSE 2 * step[k \div 2] IN step[x]
RoundNat(x) ==
  LET step == FloatStep(x)
      q == x \div step
      up == 2 * (x % step) > step \/ (2 * (x % step) = step /\ q % 2 = 1)
  IN step * (IF up THEN q + 1 ELSE q)
FloatOfInt(x) == IF x < 0 THEN -RoundNat(-x) ELSE RoundNat(x)

\* int64(f): truncation; out of range it is what amd64 leaves, the least integer.
TruncDiv(x, y) == IF (x < 0) = (y < 0) THEN AbsV(x) \div AbsV(y) ELSE -(AbsV(x) \div AbsV(y))
TruncMod(x, y) == x - y * TruncDiv(x, y)
IntOfFloat(x) == IF x > MaxInt \/ x < MinInt THEN MinInt ELSE x

IsNum(v) == v.t \in {"int", "float"}
\* numericFloat: numerator and denominator of the float a number becomes.
Num(v) == IF v.t = "int" THEN FloatOfInt(v.n) ELSE v.num
Den(v) == IF v.t = "int" THEN 1 ELSE v.den

\* y goes on where x ends, or has the greater byte where they part.
StrLess(x, y) ==
  /\ x # y
  /\ \E n \in 0..Len(x) :
       /\ n < Len(y) /\ \A i \in 1..n : x[i] = y[i]
       /\ n = Len(x) \/ x[n + 1] < y[n + 1]

Sign3(lt, eq) == IF lt THEN -1 ELSE IF eq THEN 0 ELSE 1
Compare(x, y) ==
  CASE x.t = "null" \/ y.t = "null" ->
         Sign3(x.t = "null" /\ y.t # "null", x.t = y.t)
    [] IsNum(x) /\ IsNum(y) ->
         Sign3(Num(x) * Den(y) < Num(y) * Den(x), Num(x) * Den(y) = Num(y) * Den(x))
    [] x.t = "str" /\ y.t = "str" -> Sign3(StrLess(x.s, y.s), x.s = y.s)
    [] x.t = "bool" /\ y.t = "bool" -> Sign3(~ x.b /\ y.b, x.b = y.b)
    [] OTHER -> 0                   \* of different types: equal, for compare
EqualValue(x, y) ==
  IF IsNum(x) /\ IsNum(y) /\ x.t # y.t THEN Num(x) * Den(y) = Num(y) * Den(x) ELSE x = y
Truthy(v) ==
  CASE v.t = "null" -> FALSE
    [] v.t = "bool" -> v.b
    [] v.t = "int" -> v.n # 0
    [] v.t = "float" -> v.num # 0
    [] v.t = "str" -> v.s # <<>>
    [] OTHER -> TRUE

(***************************************************************************)
(* Arithmetic. Sums, differences and products of integers are checked for   *)
(* overflow, on values that have been through a float.                      *)
(***************************************************************************)
\* A bound test one off, and products tested by one sign only.
OverflowsLate(op, x, y) ==
  CASE op = "+" -> (y > 0 /\ x > MaxInt - y + 1) \/ (y < 0 /\ x < MinInt - y)
    [] op = "-" -> (y < 0 /\ x > MaxInt + y) \/ (y > 0 /\ x < MinInt + y)
    [] op = "*" -> x > 0 /\ y > 0 /\ x > TruncDiv(MaxInt, y)
Overflows(op, x, y) ==
  CASE op = "+" -> (y > 0 /\ x > MaxInt - y) \/ (y < 0 /\ x < MinInt - y)
    [] op = "-" -> (y < 0 /\ x > MaxInt + y) \/ (y > 0 /\ x < MinInt + y)
    [] op = "*" ->
         /\ x # 0 /\ y # 0
         /\ \/ (x = -1 /\ y = MinInt) \/ (y = -1 /\ x = MinInt)
            \/ x > 0 /\ y > 0 /\ x > TruncDiv(MaxInt, y)
            \/ x < 0 /\ y < 0 /\ x < TruncDiv(MaxInt, y)
            \/ x > 0 /\ y < 0 /\ y < TruncDiv(MinInt, x)
            \/ x < 0 /\ y > 0 /\ x < TruncDiv(MinInt, y)
Op2(op, x, y) == CASE op = "+" -> x + y [] op = "-" -> x - y [] op = "*" -> x * y
IntArith(op, x, y) ==
  LET i == IntOfFloat(FloatOfInt(x))
      j == IntOfFloat(FloatOfInt(y))
  IN IF Overflows(op, i, j) THEN NULL ELSE VInt(Wrap(Op2(op, i, j)))
NumericArith(op, x, y) ==
  IF ~ IsNum(x) \/ ~ IsNum(y) THEN NULL
  ELSE IF x.t = "int" /\ y.t = "int" THEN IntArith(op, x.n, y.n)
  ELSE IF op = "*" THEN VFlt(Num(x) * Num(y), Den(x) * Den(y))
  ELSE VFlt(Op2(op, Num(x) * Den(y), Num(y) * Den(x)), Den(x) * Den(y))
\* div and mod: a zero divisor gives NULL; MinInt / -1 wraps.
DivMod(op, x, y) ==
  IF ~ IsNum(x) \/ ~ IsNum(y) \/ Num(y) = 0 THEN NULL
  ELSE IF x.t = "int" /\ y.t = "int" THEN
    VInt(Wrap(IF op = "/" THEN TruncDiv(x.n, y.n) ELSE TruncMod(x.n, y.n)))
  ELSE IF op = "/" THEN VFlt(Num(x) * Den(y), Den(x) * Num(y))
  ELSE VFlt(TruncMod(Num(x) * Den(y), Num(y) * Den(x)), Den(x) * Den(y))

(***************************************************************************)
(* Patterns                                                                 *)
(***************************************************************************)
Percent == 37
Underscore == 95

\* The loop of matchLike: its place in the pattern p and in the string s, the last % it met and where in
\* s the part of that % ends for now; st says whether the loop goes on, or what the call returns.
LikeStart == [pi |-> 1, si |-> 1, starP |-> 0, starS |-> 0, st |-> "more"]
LikeEnds(w, holds) == [w EXCEPT !.st = IF holds THEN "yes" ELSE "no"]
OnlyPercents(p, w) == \A i \in w.pi..Len(p) : p[i] = Percent
AtPercent(p, w) == w.pi <= Len(p) /\ p[w.pi] = Percent
AtMatch(p, s, w) == w.pi <= Len(p) /\ p[w.pi] \in {Underscore, s[w.si]}
\* Without a place to return to.
LikeNoReturn(w) == LikeEnds(w, FALSE)
\* Back to the last %, which takes in one byte more.
LikeReturn(w) ==
  IF w.starP = 0 THEN LikeEnds(w, FALSE)
  ELSE [w EXCEPT !.pi = w.starP + 1, !.si = w.starS + 1, !.starS = w.starS + 1]
LikePass(p, s, w) ==
  IF AtPercent(p, w) THEN [w EXCEPT !.pi = @ + 1, !.starP = w.pi, !.starS = w.si]
  ELSE IF AtMatch(p, s, w) THEN [w EXCEPT !.pi = @ + 1, !.si = @ + 1]
  ELSE LikeReturn(w)
LikeStep(p, s, w) ==
  CASE w.st # "more" -> w
    [] w.st = "more" /\ w.si > Len(s) -> LikeEnds(w, OnlyPercents(p, w))
    [] OTHER -> LikePass(p, s, w)
\* Every pass takes starS, or else pi, forward.
LikeRounds(p, s) == (Len(s) + 2) * (Len(p) + 1)
MatchLike(p, s) ==
  LET run[k \in 0..LikeRounds(p, s)] == IF k = 0 THEN LikeStart ELSE LikeStep(p, s, run[k - 1])
  IN  run[LikeRounds(p, s)].st = "yes"

\* The part of s from a to before b is one that the byte c of a pattern stands for.
PartFits(s, c, many, one, a, b) ==
  IF c = many THEN a <= b ELSE b = a + 1 /\ c \in {one, s[a]}
\* s splits into parts, one for each byte of p: at[i] is where the part of p[i] starts.
Splits(p, s, many, one) ==
  \E at \in [1..(Len(p) + 1) -> 1..(Len(s) + 1)] :
    /\ at[1] = 1 /\ at[Len(p) + 1] = Len(s) + 1
    /\ \A i \in 1..Len(p) : PartFits(s, p[i], many, one, at[i], at[i + 1])
\* GLOB is a regular expression, so any split will do.
Star == 42
Question == 63
GlobMatch(p, s) == Splits(p, s, Star, Question)

CompareOps == {"=", "<>", "<", "<=", ">", ">="}
CompareHolds(op, x, y) ==
  CASE op = "=" -> EqualValue(x, y)
    [] op = "<>" -> ~ EqualValue(x, y)
    [] op = "<" -> Compare(x, y) < 0
    [] op = "<=" -> Compare(x, y) <= 0
    [] op = ">" -> Compare(x, y) > 0
    [] op = ">=" -> Compare(x, y) >= 0
IsTrue(v) == v.t = "bool" /\ v.b

(***************************************************************************)
(* Conversions. FracDigits bounds the digits after the point of a number     *)
(* that has no shorter form.                                                 *)
(***************************************************************************)
FracDigits == 4
Digits[x \in Nat] == IF x < 10 THEN <<48 + x>> ELSE Append(Digits[x \div 10], 48 + (x % 10))
ShowInt(x) == IF x < 0 THEN <<45>> \o Digits[-x] ELSE Digits[x]
\* The first k digits of num / den, which is below 1.
Fraction[num \in Nat, den \in Nat, k \in 0..FracDigits] ==
  IF num = 0 \/ k = 0 THEN <<>>
  ELSE <<48 + ((10 * num) \div den)>> \o Fraction[(10 * num) % den, den, k - 1]
ShowFloat(num, den) ==
  LET whole == Digits[AbsV(num) \div den]
      frac == Fraction[AbsV(num) % den, den, FracDigits]
  IN (IF num < 0 THEN <<45>> ELSE <<>>) \o whole \o (IF frac = <<>> THEN <<>> ELSE <<46>> \o frac)
Text == [nil |-> <<60, 110, 105, 108, 62>>, true |-> <<116, 114, 117, 101>>,
         false |-> <<102, 97, 108, 115, 101>>]
\* fmt.Sprint of a value.
Show(v) ==
  CASE v.t = "null" -> Text.nil
    [] v.t = "bool" -> IF v.b THEN Text.true ELSE Text.false
    [] v.t = "int" -> ShowInt(v.n)
    [] v.t = "float" -> ShowFloat(v.num, v.den)
    [] v.t \in {"str", "blob"} -> v.s

IsDigit(c) == c \in 48..57
AllDigits(s) == s # <<>> /\ \A i \in DOMAIN s : IsDigit(s[i])
NumberOf(s) == FoldLeft(LAMBDA acc, c : 10 * acc + (c - 48), 0, s)
Unsigned(s) == IF s # <<>> /\ Head(s) \in {43, 45} THEN Tail(s) ELSE s
SignOf(s) == IF s # <<>> /\ Head(s) = 45 THEN -1 ELSE 1
\* strconv.ParseInt: ERR for what is not an integer of the width.
ParseInt(s) ==
  LET u == Unsigned(s)
      x == SignOf(s) * NumberOf(u)
  IN IF AllDigits(u) /\ x \in MinInt..MaxInt THEN VInt(x) ELSE ERR
\* strconv.ParseFloat, without exponents and names.
ParseFloat(s) ==
  LET u == Unsigned(s)
      dot == {i \in DOMAIN u : u[i] = 46}
      i == IF dot = {} THEN Len(u) + 1 ELSE CHOOSE d \in dot : TRUE
      digits == SubSeq(u, 1, i - 1) \o SubSeq(u, i + 1, Len(u))
  IN IF Cardinality(dot) > 1 \/ ~ AllDigits(digits) THEN ERR
     ELSE VFlt(SignOf(s) * NumberOf(digits), 10^(Len(u) - Min({i, Len(u)})))
AsFloat(x) == VFlt(Num(x), Den(x))
TruncFloat(x) == VInt(IntOfFloat(TruncDiv(x.num, x.den)))
BoolInt(x) == VInt(IF x.b THEN 1 ELSE 0)

(* A value stored in a column of a type (ApplyAffinity): what cannot be       *)
(* converted stays as it is.                                                  *)
Affinity(v, a) ==
  CASE v.t = "null" \/ a = "none" -> v
    [] a = "text" -> VStr(Show(v))
    [] a = "integer" /\ v.t = "float" -> TruncFloat(v)
    [] a = "integer" /\ v.t = "str" ->
         IF ParseInt(v.s) # ERR THEN ParseInt(v.s)
         ELSE IF ParseFloat(v.s) # ERR THEN TruncFloat(ParseFloat(v.s)) ELSE v
    [] a \in {"integer", "numeric"} /\ v.t = "bool" -> BoolInt(v)
    [] a = "real" /\ v.t = "int" -> AsFloat(v)
    [] a \in {"real", "numeric"} /\ v.t = "str" -> IF ParseFloat(v.s) # ERR THEN ParseFloat(v.s) ELSE v
    [] OTHER -> v
CompareAs(x, y, a) ==
  LET order(p, q) ==
        IF p.t = "int" /\ q.t = "int" THEN Sign3(p.n < q.n, p.n = q.n)
        ELSE IF p.t = q.t \/ p.t = "null" \/ q.t = "null" THEN Compare(p, q)
        ELSE Sign3(StrLess(Show(p), Show(q)), Show(p) = Show(q))
  IN order(Affinity(x, a), Affinity(y, a))

(* DECIMAL(p, s): an exact rational, rounded to s digits when it is printed   *)
(* or combined; half goes to the even digit (big.Float.Text of an exact tie). *)
RoundTo(num, den, s) ==
  LET scaled == AbsV(num) * 10^s
      q == scaled \div den
      up == 2 * (scaled % den) > den \/ (2 * (scaled % den) = den /\ q % 2 = 1)
  IN (IF num < 0 THEN -1 ELSE 1) * (IF up THEN q + 1 ELSE q)
\* The bound lets 10^(p - s) itself through.
TooWide(num, den, p, s) == p > s /\ AbsV(num) > 10^(p - s) * den
ShowDecimal(num, den, s) ==
  LET r == RoundTo(num, den, s)
      frac == Digits[10^s + (AbsV(r) % 10^s)]
  IN (IF r < 0 THEN <<45>> ELSE <<>>) \o Digits[AbsV(r) \div 10^s]
     \o (IF s = 0 THEN <<>> ELSE <<46>> \o Tail(frac))
CastDecimal(v, p, s) ==
  LET f == ParseFloat(Show(v))
  IN IF s > p \/ f = ERR THEN ERR
     ELSE IF TooWide(f.num, f.den, p, s) THEN ERR
     ELSE VStr(ShowDecimal(f.num, f.den, s))
\* Add, Sub, Mul and Div round to the scale of the result; Add and Sub take the larger scale.
DecimalScale(op, x, y) ==
  CASE op \in {"+", "-"} -> Max({x.scale, y.scale})
    [] op = "*" -> x.scale + y.scale
    [] op = "/" -> Min({x.scale + y.prec + 1, 38})
DecimalOp(op, x, y) ==
  LET s == DecimalScale(op, x, y)
      p == CASE op \in {"+", "-"} -> Max({x.prec, y.prec}) [] op = "*" -> x.prec + y.prec [] op = "/" -> s
      num == CASE op = "*" -> x.num * y.num
               [] op = "/" -> x.num * y.den
               [] OTHER -> Op2(op, x.num * y.den, y.num * x.den)
      den == IF op = "/" THEN x.den * y.num ELSE x.den * y.den
      f == VFlt(num, den)
      r == IF s = 0 THEN f ELSE VFlt(RoundTo(f.num, f.den, s), 10^s)
  IN IF op = "/" /\ y.num = 0 THEN ERR
     ELSE IF s # 0 /\ r.den # 1 /\ TooWide(r.num, r.den, p, s) THEN ERR
     ELSE [prec |-> p, scale |-> s, num |-> r.num, den |-> r.den]

(* CAST                                                                       *)
CastTo(v, ty) ==
  CASE v.t \in {"null", "err"} -> v
    [] ty = "int" /\ v.t = "float" -> TruncFloat(v)
    [] ty = "int" /\ v.t = "str" -> ParseInt(v.s)
    [] ty = "int" /\ v.t = "bool" -> BoolInt(v)
    [] ty = "int" /\ v.t = "int" -> v
    [] ty = "float" /\ IsNum(v) -> AsFloat(v)
    [] ty = "float" /\ v.t = "str" -> ParseFloat(v.s)
    [] ty = "text" -> VStr(Show(v))
    [] ty = "bool" -> VBool(Truthy(v))
    [] OTHER -> ERR
=============================================================================
