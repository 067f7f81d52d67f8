---------------------------- MODULE SqlFunctions ----------------------------
(***************************************************************************)
(* Scalar functions of SQL (SQL/EX eval.go evalFunction, datetime.go,        *)
(* json.go). A call gets the values of its arguments; an argument whose      *)
(* evaluation failed is ERR, and some functions take it for NULL.            *)
(***************************************************************************)
EXTENDS SqlValues

VBlob(x) == [t |-> "blob", s |-> x]
ErrAsNull(v) == IF v = ERR THEN NULL ELSE v
\* toInt64.
ToInt(v) ==
  CASE v.t = "int" -> v
    [] v.t = "float" -> TruncFloat(v)
    [] OTHER -> ERR
From(s, i) == SubSeq(s, i, Len(s))

(***************************************************************************)
(* Text                                                                     *)
(***************************************************************************)
Upper(s) == [i \in DOMAIN s |-> IF s[i] \in 97..122 THEN s[i] - 32 ELSE s[i]]
Lower(s) == [i \in DOMAIN s |-> IF s[i] \in 65..90 THEN s[i] + 32 ELSE s[i]]

\* SUBSTR counts from 1. A start below 1 is 1; the end may wrap, and a slice that ends before it
\* starts is a panic.
PANIC == [t |-> "panic"]
\* As if the start, too, counted from 0.
SubstrLong(s, start, length) == VStr(SubSeq(s, start, Min({start + length, Len(s)})))
Substr(s, start, length) ==
  LET end == Min({Wrap(start - 1 + length), Len(s)})
  IN IF length < 0 THEN VStr(<<>>)
     ELSE IF end < start - 1 THEN PANIC ELSE VStr(SubSeq(s, start, end))
EvalSubstr(a) ==
  LET s == Show(a[1])
      start == Max({1, ToInt(a[2]).n})
  IN IF Len(a) < 2 \/ a[1] = ERR \/ ToInt(a[2]) = ERR THEN ERR
     ELSE IF start > Len(s) THEN VStr(<<>>)
     ELSE IF Len(a) = 2 THEN VStr(From(s, start))
     ELSE IF ToInt(a[3]) = ERR THEN ERR
     ELSE Substr(s, start, ToInt(a[3]).n)

\* The least place where y starts in x, from i on; 0 if there is none.
IndexFrom(x, y, i) ==
  LET at == {j \in i..(Len(x) - Len(y) + 1) : SubSeq(x, j, j + Len(y) - 1) = y}
  IN IF at = {} THEN 0 ELSE Min(at)
EvalInstr(a) ==
  IF Len(a) # 2 \/ a[1] = ERR THEN ERR
  ELSE IF a[1] = NULL THEN VInt(0)
  ELSE IF a[2] = ERR THEN ERR
  ELSE IF a[2] = NULL THEN VInt(0)
  ELSE VInt(IndexFrom(Show(a[1]), Show(a[2]), 1))

\* strings.ReplaceAll: an empty pattern matches before every character and at the end.
RECURSIVE ReplaceEvery(_, _, _)
ReplaceEvery(x, y, z) ==
  IF y = <<>> THEN z \o (IF x = <<>> THEN <<>> ELSE <<Head(x)>> \o ReplaceEvery(Tail(x), y, z))
  ELSE LET i == IndexFrom(x, y, 1)
       IN IF i = 0 THEN x ELSE SubSeq(x, 1, i - 1) \o z \o ReplaceEvery(From(x, i + Len(y)), y, z)
EvalReplace(a) ==
  CASE Len(a) # 3 \/ a[1] = ERR -> ERR
    [] a[1] = NULL -> NULL
    [] a[2] = ERR \/ a[3] = ERR -> ERR
    [] a[2] = NULL -> VStr(Show(a[1]))
    [] OTHER -> VStr(ReplaceEvery(Show(a[1]), Show(a[2]), IF a[3] = NULL THEN <<>> ELSE Show(a[3])))

RECURSIVE TrimLeft(_, _)
TrimLeft(s, cut) == IF s # <<>> /\ Head(s) \in cut THEN TrimLeft(Tail(s), cut) ELSE s
TrimRight(s, cut) == Reverse(TrimLeft(Reverse(s), cut))
EvalTrim(name, a) ==
  LET cut == IF Len(a) > 1 /\ a[2] # NULL THEN Range(Show(a[2])) ELSE {32}
      s == Show(a[1])
  IN IF Len(a) < 1 \/ ERR \in {a[i] : i \in 1..Min({2, Len(a)})} THEN ERR
     ELSE IF a[1] = NULL THEN NULL
     ELSE VStr(CASE name = "LTRIM" -> TrimLeft(s, cut)
                 [] name = "RTRIM" -> TrimRight(s, cut)
                 [] name = "TRIM" -> TrimLeft(TrimRight(s, cut), cut))

HexChar(d) == IF d < 10 THEN 48 + d ELSE 55 + d
Hex(s) == FlattenSeq([i \in DOMAIN s |-> <<HexChar(s[i] \div 16), HexChar(s[i] % 16)>>])
HexDigit(c) ==
  CASE c \in 48..57 -> c - 48
    [] c \in 97..102 -> c - 87
    [] c \in 65..70 -> c - 55
    [] OTHER -> 255
Spaces == 9..13 \cup {32}
EvalUnhex(v) ==
  LET s == TrimLeft(TrimRight(v.s, Spaces), Spaces)
  IN IF v.t # "str" THEN NULL
     ELSE IF Len(s) % 2 # 0 \/ \E i \in DOMAIN s : HexDigit(s[i]) = 255 THEN NULL
     ELSE VBlob([i \in 1..(Len(s) \div 2) |-> 16 * HexDigit(s[2 * i - 1]) + HexDigit(s[2 * i])])
Quote == 39
EvalQuote(v) ==
  CASE v.t = "null" -> VStr(<<78, 85, 76, 76>>)
    [] v.t = "str" -> VStr(<<Quote>> \o ReplaceEvery(v.s, <<Quote>>, <<Quote, Quote>>) \o <<Quote>>)
    [] v.t = "blob" -> VStr(<<88, Quote>> \o Lower(Hex(v.s)) \o <<Quote>>)
    [] OTHER -> VStr(Show(v))

\* SOUNDEX: letters of one code count once, also across vowels, H and W.
Letters(s) == SelectSeq(Upper(s), LAMBDA c : c \in 65..90)
Code(c) ==
  CASE c \in {66, 70, 80, 86} -> 49
    [] c \in {67, 71, 74, 75, 81, 83, 88, 90} -> 50
    [] c \in {68, 84} -> 51
    [] c = 76 -> 52
    [] c \in {77, 78} -> 53
    [] c = 82 -> 54
    [] OTHER -> 0
Vowels == {65, 69, 73, 79, 85, 89, 72, 87}
RECURSIVE SoundexRest(_, _, _)
SoundexRest(l, out, prev) ==
  IF l = <<>> \/ Len(out) = 4 THEN SubSeq(out \o <<48, 48, 48>>, 1, 4)
  ELSE LET c == Code(Head(l))
       IN SoundexRest(Tail(l), IF c # 0 /\ c # prev THEN Append(out, c) ELSE out,
                      IF Head(l) \in Vowels THEN prev ELSE c)
NoSoundex == <<Question, 48, 48, 48>>
EvalSoundex(v) ==
  IF v.t # "str" THEN VStr(NoSoundex)
  ELSE LET l == Letters(v.s)
       IN VStr(IF l = <<>> THEN NoSoundex ELSE SoundexRest(Tail(l), <<Head(l)>>, Code(Head(l))))

\* UNISTR: \n \r \t \\ and \uXXXX (for a code point below 128, one byte); others stay as they are.
Backslash == 92
Escapes == (110 :> 10) @@ (114 :> 13) @@ (116 :> 9) @@ (Backslash :> Backslash)
RECURSIVE Unistr(_)
Unistr(s) ==
  LET hex == SubSeq(s, 3, 6)
      point == FoldLeft(LAMBDA acc, c : 16 * acc + HexDigit(c), 0, hex)
  IN CASE s = <<>> -> <<>>
       [] Head(s) # Backslash \/ Len(s) = 1 -> <<Head(s)>> \o Unistr(Tail(s))
       [] s[2] \in DOMAIN Escapes -> <<Escapes[s[2]]>> \o Unistr(From(s, 3))
       [] s[2] = 117 /\ Len(s) >= 6 ->
            (IF \A i \in DOMAIN hex : HexDigit(hex[i]) # 255 THEN <<point>> ELSE SubSeq(s, 1, 6))
            \o Unistr(From(s, 7))
       [] OTHER -> SubSeq(s, 1, 2) \o Unistr(From(s, 3))

RECURSIVE Concat(_)
Concat(a) ==
  IF a = <<>> THEN VStr(<<>>)
  ELSE IF Head(a).t \in {"null", "err"} THEN Head(a)
  ELSE LET rest == Concat(Tail(a))
       IN IF rest.t # "str" THEN rest ELSE VStr(Show(Head(a)) \o rest.s)
NotNull(v) == v # NULL
ConcatWS(a) ==
  LET parts == SelectSeq(Tail(a), NotNull)
      sep == Show(a[1])
  IN IF Len(a) < 2 \/ a[1] = ERR THEN ERR
     ELSE IF a[1] = NULL THEN NULL
     ELSE IF ERR \in Range(parts) THEN ERR
     ELSE VStr(FoldLeft(LAMBDA acc, i : acc \o (IF i = 1 THEN <<>> ELSE sep) \o Show(parts[i]),
                        <<>>, [i \in DOMAIN parts |-> i]))

(***************************************************************************)
(* Numbers                                                                  *)
(***************************************************************************)
EvalAbs(v) ==
  CASE v.t = "int" -> IF v.n = MinInt THEN ERR ELSE VInt(AbsV(v.n))
    [] v.t = "float" -> VFlt(AbsV(v.num), v.den)
    [] OTHER -> VFlt(0, 1)
\* math.Round: half away from zero.
RoundHalfAway(num, den) ==
  LET q == (2 * AbsV(num) + den) \div (2 * den)
  IN IF num < 0 THEN -q ELSE q
EvalRound(a) ==
  LET p == IF Len(a) = 2 THEN ToInt(a[2]) ELSE VInt(0)
      mult == 10^(IF p = ERR THEN 0 ELSE Max({p.n, 0}))
  IN IF Len(a) \notin {1, 2} \/ a[1] = ERR THEN ERR
     ELSE IF a[1] = NULL THEN NULL
     ELSE IF ~ IsNum(a[1]) THEN VFlt(0, 1)
     ELSE IF Len(a) = 2 /\ a[2] = ERR THEN ERR
     ELSE VFlt(RoundHalfAway(Num(a[1]) * mult, Den(a[1])), mult)
EvalSign(v) ==
  IF ~ IsNum(v) THEN VInt(0) ELSE VInt(Sign3(Num(v) < 0, Num(v) = 0))
\* The first of the greatest (least) arguments that are not NULL.
Extreme(name, a) ==
  LET better(x, y) == IF name = "MAX" THEN Compare(x, y) > 0 ELSE Compare(x, y) < 0
  IN IF ERR \in Range(a) THEN ERR
     ELSE FoldLeft(LAMBDA acc, v : IF v # NULL /\ (acc = NULL \/ better(v, acc)) THEN v ELSE acc, NULL, a)

TypeName(v) ==
  CASE v.t \in {"int", "bool"} -> "integer"
    [] v.t = "float" -> "real"
    [] v.t = "str" -> "text"
    [] OTHER -> v.t

(***************************************************************************)
(* The functions of one argument that give NULL for NULL and fail with it.  *)
(***************************************************************************)
Lenient == {"UNHEX", "SOUNDEX", "UNISTR"}       \* any number of arguments
Strict1 == {"ABS", "HEX", "UNHEX", "SOUNDEX", "UNISTR", "OCTET_LENGTH", "UNICODE"}
CallStrict(name, v) ==
  CASE name = "ABS" -> EvalAbs(v)
    [] name = "HEX" -> VStr(Hex(Show(v)))
    [] name = "UNHEX" -> EvalUnhex(v)
    [] name = "SOUNDEX" -> EvalSoundex(v)
    [] name = "UNISTR" -> IF v.t = "str" THEN VStr(Unistr(v.s)) ELSE NULL
    [] name = "OCTET_LENGTH" -> VInt(Len(Show(v)))
    [] name = "UNICODE" -> VInt(IF Show(v) = <<>> THEN 0 ELSE Head(Show(v)))
\* LENGTH, UPPER, LOWER: ERR for what is not a string, NULL included.
CallOnText(name, v) ==
  IF v.t # "str" THEN ERR
  ELSE CASE name = "LENGTH" -> VInt(Len(v.s))
         [] name = "UPPER" -> VStr(Upper(v.s))
         [] name = "LOWER" -> VStr(Lower(v.s))

Call(name, a) ==
  CASE name \in Strict1 ->
         IF name \in Lenient /\ a = <<>> THEN NULL
         ELSE IF Len(a) # 1 /\ name \notin Lenient THEN ERR
         ELSE IF a[1].t \in {"null", "err"} THEN a[1] ELSE CallStrict(name, a[1])
    [] name \in {"LENGTH", "UPPER", "LOWER"} ->
         IF Len(a) = 0 THEN ERR ELSE CallOnText(name, a[1])
    [] name = "IFNULL" ->
         IF Len(a) # 2 THEN ERR ELSE IF ErrAsNull(a[1]) = NULL THEN a[2] ELSE a[1]
    [] name = "COALESCE" ->
         LET some == SelectSeq(a, LAMBDA v : v.t \notin {"null", "err"})
         IN IF some = <<>> THEN NULL ELSE Head(some)
    [] name = "NULLIF" ->
         IF Len(a) # 2 THEN ERR
         ELSE IF EqualValue(ErrAsNull(a[1]), ErrAsNull(a[2])) THEN NULL ELSE ErrAsNull(a[1])
    [] name \in {"IIF", "IF"} ->
         IF Len(a) # 3 \/ a[1] = ERR THEN ERR ELSE IF Truthy(a[1]) THEN a[2] ELSE a[3]
    [] name = "SUBSTR" -> EvalSubstr(a)
    [] name = "INSTR" -> EvalInstr(a)
    [] name = "REPLACE" -> EvalReplace(a)
    [] name \in {"LTRIM", "RTRIM", "TRIM"} -> EvalTrim(name, a)
    [] name = "ROUND" -> EvalRound(a)
    [] name \in {"MAX", "MIN"} -> Extreme(name, a)
    [] name = "CONCAT" -> Concat(a)
    [] name = "CONCAT_WS" -> ConcatWS(a)
    [] name = "GLOB" ->
         IF Len(a) # 2 \/ a[1] = ERR THEN ERR
         ELSE IF a[1] = NULL THEN NULL
         ELSE IF a[2] = ERR THEN ERR
         ELSE IF a[1].t # "str" \/ a[2].t # "str" THEN NULL
         ELSE VInt(IF GlobMatch(a[1].s, a[2].s) THEN 1 ELSE 0)
    [] name \in {"SIGN", "QUOTE", "TYPEOF"} ->
         IF Len(a) # 1 \/ a[1] = ERR THEN ERR
         ELSE CASE name = "SIGN" -> EvalSign(a[1])
                [] name = "QUOTE" -> EvalQuote(a[1])
                [] name = "TYPEOF" -> [t |-> "type", name |-> TypeName(a[1])]
    [] name \in {"LIKELY", "UNLIKELY", "LIKELIHOOD"} -> IF a = <<>> THEN NULL ELSE a[1]
    [] OTHER -> ERR
=============================================================================
