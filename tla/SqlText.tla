------------------------------- MODULE SqlText -------------------------------
(***************************************************************************)
(* Text to tokens (SQL/LX lx.go) and statements back to text (SQL/RE          *)
(* format.go). Text is a sequence of bytes for the lexer; the formatter's     *)
(* output is given as the tokens the lexer finds in it.                      *)
(***************************************************************************)
EXTENDS SqlStatements

(***************************************************************************)
(* The lexer. Words are left to a table of keywords that is not modelled.     *)
(***************************************************************************)
IsWordChar(c) == IsDigit(c) \/ c \in 65..90 \/ c \in 97..122 \/ c = Underscore
At(cs, i) == IF i <= Len(cs) THEN cs[i] ELSE 0
\* The first place from i on where P does not hold.
While(cs, i, P(_)) == Min({j \in i..(Len(cs) + 1) : j > Len(cs) \/ ~ P(cs[j])})
NotNewline(c) == c # 10
NotZero(c) == c # 0
\* Behind the end of a /* comment.
CommentEnd(cs, i) ==
  LET ends == {j \in (i + 2)..(Len(cs) - 1) : cs[j] = Star /\ cs[j + 1] = 47}
  IN IF ends = {} THEN Len(cs) + 1 ELSE Min(ends) + 2
RECURSIVE SkipBlank(_, _)
SkipBlank(cs, i) ==
  CASE At(cs, i) \in Spaces -> SkipBlank(cs, i + 1)
    [] At(cs, i) = 45 /\ At(cs, i + 1) = 45 -> SkipBlank(cs, While(cs, i + 2, NotNewline))
    [] At(cs, i) = 47 /\ At(cs, i + 1) = Star -> SkipBlank(cs, CommentEnd(cs, i))
    [] OTHER -> i
\* The rest of a string literal: a doubled quote is one quote.
RECURSIVE ScanString(_, _, _)
ScanString(cs, i, acc) ==
  CASE At(cs, i) = 0 -> [tok |-> K("error"), next |-> Len(cs) + 1]
    [] At(cs, i) # Quote -> ScanString(cs, i + 1, Append(acc, cs[i]))
    [] At(cs, i + 1) = Quote -> ScanString(cs, i + 2, Append(acc, Quote))
    [] OTHER -> [tok |-> LitTok(VStr(acc)), next |-> i + 1]
\* The guard without the digit that is about to be added.
RECURSIVE IntLiteralLoose(_, _)
IntLiteralLoose(ds, val) ==
  IF ds = <<>> THEN LitTok(VInt(val))
  ELSE IF val > MaxInt \div 10 THEN K("error")
  ELSE IntLiteralLoose(Tail(ds), Wrap(10 * val + (Head(ds) - 48)))
RECURSIVE IntLiteral(_, _)
IntLiteral(ds, val) ==
  IF ds = <<>> THEN LitTok(VInt(val))
  ELSE IF val > (MaxInt - (Head(ds) - 48)) \div 10 THEN K("error")
  ELSE IntLiteral(Tail(ds), Wrap(10 * val + (Head(ds) - 48)))
ParseIntLiteral(ds) == IntLiteral(ds, 0)
\* Digits and at most one point, which makes it a float.
ScanNumber(cs, i) ==
  LET j == While(cs, i, IsDigit)
      k == IF At(cs, j) = 46 THEN While(cs, j + 1, IsDigit) ELSE j
      lit == SubSeq(cs, i, k - 1)
  IN [tok |-> IF k > j THEN LitTok(ParseFloat(lit)) ELSE ParseIntLiteral(lit), next |-> k]
Pairs == (33 :> "<>") @@ (60 :> "<=") @@ (62 :> ">=")
Singles == (61 :> "=") @@ (60 :> "<") @@ (62 :> ">") @@ (43 :> "+") @@ (45 :> "-") @@ (42 :> "*")
           @@ (47 :> "/") @@ (40 :> "(") @@ (41 :> ")") @@ (44 :> ",") @@ (46 :> ".") @@ (59 :> ";")
           @@ (58 :> ":") @@ (63 :> "?") @@ (38 :> "&") @@ (124 :> "|") @@ (94 :> "#") @@ (126 :> "~")
           @@ (37 :> "%")
ScanOperator(cs, i) ==
  CASE cs[i] \in DOMAIN Pairs /\ At(cs, i + 1) = 61 -> [tok |-> K(Pairs[cs[i]]), next |-> i + 2]
    [] cs[i] = 124 /\ At(cs, i + 1) = 124 -> [tok |-> K("||"), next |-> i + 2]
    [] cs[i] \in DOMAIN Singles -> [tok |-> K(Singles[cs[i]]), next |-> i + 1]
    [] OTHER -> [tok |-> K("error"), next |-> i + 1]
Word(s) == [t |-> "word", s |-> s]
NextToken(cs, i) ==
  CASE cs[i] = Quote -> ScanString(cs, i + 1, <<>>)
    [] IsWordChar(cs[i]) /\ ~ IsDigit(cs[i]) ->
         LET j == While(cs, i, IsWordChar) IN [tok |-> Word(Upper(SubSeq(cs, i, j - 1))), next |-> j]
    [] IsDigit(cs[i]) -> ScanNumber(cs, i)
    [] OTHER -> ScanOperator(cs, i)
RECURSIVE LexFrom(_, _)
LexFrom(cs, i0) ==
  LET i == SkipBlank(cs, i0)
      x == NextToken(cs, i)
  IN IF i > Len(cs) THEN <<>> ELSE <<x.tok>> \o LexFrom(cs, x.next)
Lex(cs) == LexFrom(cs, 1)

(***************************************************************************)
(* Format                                                                   *)
(***************************************************************************)
\* opString: an operator it does not know is a question mark; <> is two tokens for the lexer.
OpToks(op) ==
  CASE op = "<>" -> <<K("<"), K(">")>>
    [] op \in {"=", "<", "<=", ">", ">=", "+", "-", "*", "/", "AND", "OR", "NOT", "LIKE", "IS"} -> <<K(op)>>
    [] OTHER -> <<K("?")>>
\* A minus before a minus starts a comment.
Joined(op, ts) == IF op = "-" /\ ts[1] = K("-") THEN <<K("--")>> \o Tail(ts) ELSE OpToks(op) \o ts
RECURSIVE CommaSep(_)
CommaSep(parts) ==
  CASE parts = <<>> -> <<>>
    [] Len(parts) = 1 -> parts[1]
    [] OTHER -> parts[1] \o <<K(",")>> \o CommaSep(Tail(parts))
FlatCat(parts) == FoldLeft(LAMBDA acc, x : acc \o x, <<>>, parts)
LitToks(v) ==
  CASE v.t = "int" /\ v.n < 0 -> <<K("-"), LitTok(VInt(-v.n))>>
    [] v.t = "float" /\ v.num < 0 -> <<K("-"), LitTok(VFlt(-v.num, v.den))>>
    [] v.t = "str" -> Lex(<<Quote>> \o v.s \o <<Quote>>)
    [] OTHER -> <<LitTok(v)>>
TypeName1(ty) ==
  IF ty \in {"INTEGER", "BIGINT", "FLOAT", "BOOLEAN", "TEXT", "BLOB", "VARCHAR", "TIMESTAMP"} THEN ty ELSE "TEXT"
RECURSIVE ExprToks(_)
ExprToksAll(es) == CommaSep([i \in DOMAIN es |-> ExprToks(es[i])])
OptToks(t, e) == IF e = <<>> THEN <<>> ELSE <<K(t)>> \o ExprToks(e[1])
\* exprString: only what it knows; BETWEEN without parentheses; DISTINCT is forgotten.
ExprToks(e) ==
  CASE e.k = "lit" -> LitToks(e.v)
    [] e.k = "col" -> <<IdTok(e.c)>>
    [] e.k = "alias" -> ExprToks(e.e) \o <<K("AS"), IdTok(e.a)>>
    [] e.k = "star" -> <<K("*")>>
    [] e.k = "bin" -> <<K("(")>> \o ExprToks(e.l) \o OpToks(e.op) \o ExprToks(e.r) \o <<K(")")>>
    [] e.k = "un" -> Joined(e.op, ExprToks(e.e))
    [] e.k = "fn" -> <<IdTok(e.name), K("(")>> \o ExprToksAll(e.args) \o <<K(")")>>
    [] e.k = "agg" -> <<K(e.name), K("(")>> \o (IF e.arg = <<>> THEN <<K("?")>> ELSE ExprToks(e.arg[1])) \o <<K(")")>>
    [] e.k = "cast" -> <<K("CAST"), K("(")>> \o ExprToks(e.e) \o <<K("AS"), TypeTok(TypeName1(e.ty.ty)), K(")")>>
    [] e.k = "between" -> ExprToks(e.e) \o <<K("BETWEEN")>> \o ExprToks(e.lo) \o <<K("AND")>> \o ExprToks(e.hi)
    [] e.k = "case" ->
         <<K("CASE")>> \o ExprToksAll(e.of)
         \o FlatCat([i \in DOMAIN e.whens |-> <<K("WHEN")>> \o ExprToks(e.whens[i].cond)
                                              \o <<K("THEN")>> \o ExprToks(e.whens[i].then)])
         \o OptToks("ELSE", e.else) \o <<K("END")>>
    [] OTHER -> <<K("?")>>
IdToks(names) == CommaSep([i \in DOMAIN names |-> <<IdTok(names[i])>>])
OrderToks(order, asc) ==
  IF order = <<>> THEN <<>>
  ELSE <<K("ORDER"), K("BY")>>
       \o CommaSep([i \in DOMAIN order |-> ExprToks(order[i].e) \o (IF order[i].desc THEN <<K("DESC")>> ELSE asc)])
TrailToks(t, asc) == OrderToks(t.order, asc) \o OptToks("LIMIT", t.limit) \o OptToks("OFFSET", t.offset)
\* formatSelect leaves out joins, GROUP BY, HAVING and a subquery in FROM.
FormatSelect(q) ==
  <<K("SELECT")>> \o (IF q.distinct THEN <<K("DISTINCT")>> ELSE <<>>) \o ExprToksAll(q.cols)
  \o (IF q.from = "" THEN <<>> ELSE <<K("FROM"), IdTok(q.from)>>
                                    \o (IF q.alias = "" THEN <<>> ELSE <<K("AS"), IdTok(q.alias)>>))
  \o OptToks("WHERE", q.where) \o TrailToks(q.trail, <<>>)
ColumnToks(c) ==
  <<IdTok(c.name), TypeTok(TypeName1(c.ty))>> \o (IF c.pk THEN <<K("PRIMARY"), K("KEY")>> ELSE <<>>)
  \o (IF c.nullable THEN <<>> ELSE <<K("NOT"), LitTok(NULL)>>)
CompoundToks(op) == IF op = "UNION ALL" THEN <<K("UNION"), K("ALL")>> ELSE <<K(op)>>
NoFormat == <<K("error")>>
RECURSIVE Format(_)
Format(q) ==
  CASE q.k = "select" -> FormatSelect(q)
    [] q.k = "compound" -> Format(q.l) \o CompoundToks(q.op) \o Format(q.r) \o TrailToks(q.trail, <<K("ASC")>>)
    [] q.k = "insert" ->
         <<K("INSERT"), K("INTO"), IdTok(q.tab)>>
         \o (IF q.cols = <<>> THEN <<>> ELSE <<K("(")>> \o IdToks(q.cols) \o <<K(")")>>) \o <<K("VALUES")>>
         \o CommaSep([i \in DOMAIN q.rows |-> <<K("(")>> \o ExprToksAll(q.rows[i]) \o <<K(")")>>])
    [] q.k = "update" ->
         <<K("UPDATE"), IdTok(q.tab), K("SET")>>
         \o CommaSep([i \in DOMAIN q.set |-> <<IdTok(q.set[i].c), K("=")>> \o ExprToks(q.set[i].e)])
         \o OptToks("WHERE", q.where)
    [] q.k = "delete" -> <<K("DELETE"), K("FROM"), IdTok(q.tab)>> \o OptToks("WHERE", q.where)
    [] q.k = "createTable" ->
         <<K("CREATE"), K("TABLE"), IdTok(q.name), K("(")>>
         \o CommaSep([i \in DOMAIN q.cols |-> ColumnToks(q.cols[i])]) \o <<K(")")>>
    [] q.k = "dropTable" -> <<K("DROP"), K("TABLE"), IdTok(q.name)>>
    [] q.k = "trigger" ->
         <<K("CREATE"), K("TRIGGER"), IdTok(q.name)>>
         \o (IF q.time = "INSTEAD OF" THEN <<K("INSTEAD"), K("OF")>> ELSE <<K(q.time)>>)
         \o <<K(q.event), K("ON"), IdTok(q.on), K("BEGIN")>>
         \o FlatCat([i \in DOMAIN q.body |-> Format(q.body[i]) \o <<K(";")>>]) \o <<K("END")>>
    [] q.k = "with" ->
         <<K("WITH")>> \o (IF q.recursive THEN <<IdTok("RECURSIVE")>> ELSE <<>>)
         \o CommaSep([i \in DOMAIN q.ctes |->
                        <<IdTok(q.ctes[i].name)>>
                        \o (IF q.ctes[i].cols = <<>> THEN <<>> ELSE <<K("(")>> \o IdToks(q.ctes[i].cols) \o <<K(")")>>)
                        \o <<K("AS"), K("(")>> \o Format(q.ctes[i].q) \o <<K(")")>>])
         \o Format(q.q)
    [] OTHER -> NoFormat      \* ALTER TABLE loses its column, the others are refused
\* The tokens of a text end where a comment starts.
Uncommented(ts) ==
  LET at == {i \in DOMAIN ts : ts[i] = K("--")} IN IF at = {} THEN ts ELSE SubSeq(ts, 1, Min(at) - 1)
=============================================================================
