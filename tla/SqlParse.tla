------------------------------ MODULE SqlParse ------------------------------
(***************************************************************************)
(* The parser of SQL (SQL/PS ps.go, ast.go): a recursive descent over the     *)
(* tokens of SQL/LX. A parser state holds the tokens that are left, the       *)
(* number of ? seen, and pendingSubquery, which parseOneSelect keeps in the   *)
(* parser while it goes on with the rest of its SELECT. A parse function      *)
(* takes a state and gives a value and a state; after a syntax error the      *)
(* state has one token, "error", that nothing accepts.                        *)
(*                                                                          *)
(* What may be missing is a sequence of at most one element.                  *)
(***************************************************************************)
EXTENDS SqlExpr

K(t) == [t |-> t]                              \* a keyword or an operator
IdTok(n) == [t |-> "id", name |-> n]
LitTok(v) == [t |-> "lit", v |-> v]            \* number, string, NULL, TRUE, FALSE
TypeTok(ty) == [t |-> "type", ty |-> ty]
IsId(tok, n) == tok.t = "id" /\ tok.name = n

(***************************************************************************)
(* Nodes that evaluation does not know.                                     *)
(***************************************************************************)
Qual(tab, c) == [k |-> "qual", tab |-> tab, c |-> c]
Param(n) == [k |-> "param", n |-> n]
StarE == [k |-> "star"]
Alias(e, a) == [k |-> "alias", e |-> e, a |-> a]
Agg(name, arg, distinct) == [k |-> "agg", name |-> name, arg |-> arg, distinct |-> distinct]
Window(name, args, over) == [k |-> "window", name |-> name, args |-> args, over |-> over]
Sub(q) == [k |-> "sub", q |-> q]
Exists(q) == [k |-> "exists", q |-> q]
InSub(e, q) == [k |-> "insub", e |-> e, q |-> q]
Interval(v, u) == [k |-> "interval", v |-> v, u |-> u]
TypeInfo(ty, size, prec, scale) == [ty |-> ty, size |-> size, prec |-> prec, scale |-> scale]

Order(e, desc) == [e |-> e, desc |-> desc]
Join(kind, right, on) == [kind |-> kind, right |-> right, on |-> on]
Pair(c, e) == [c |-> c, e |-> e]
NoTrail == [order |-> <<>>, limit |-> <<>>, offset |-> <<>>]
Compound(op, l, r) == [k |-> "compound", op |-> op, l |-> l, r |-> r, trail |-> NoTrail]

(***************************************************************************)
(* Tokens                                                                   *)
(***************************************************************************)
Start(ts) == [ts |-> ts, pend |-> <<>>, n |-> 0]
Cur(s) == IF s.ts = <<>> THEN "EOF" ELSE Head(s.ts).t
Peek(s) == IF Len(s.ts) < 2 THEN "EOF" ELSE s.ts[2].t
Peek2(s) == IF Len(s.ts) < 3 THEN "EOF" ELSE s.ts[3].t
Failed1(s) == [s EXCEPT !.ts = <<K("error")>>]
Bad(s) == Cur(s) = "error"
Adv(s) == IF s.ts = <<>> \/ Bad(s) THEN s ELSE [s EXCEPT !.ts = Tail(@)]
Eat(s, t) == IF Cur(s) = t THEN Adv(s) ELSE Failed1(s)
Opt(s, t) == IF Cur(s) = t THEN Adv(s) ELSE s
R(v, s) == [v |-> v, s |-> s]
None == Lit(NULL)                              \* the value beside an error
ErrR(s) == R(None, Failed1(s))
EatName(s) == IF Cur(s) = "id" THEN R(Head(s.ts).name, Adv(s)) ELSE R("", Failed1(s))
OptWord(s, w) == IF Cur(s) = "id" /\ Head(s.ts).name = w THEN Adv(s) ELSE s

\* One or more of what P parses, with commas.
CommaList(P(_), start) ==
  LET RECURSIVE more(_, _)
      more(acc, s) ==
        LET x == P(s)
            all == Append(acc, x.v)
        IN IF Cur(x.s) = "," THEN more(all, Adv(x.s)) ELSE R(all, x.s)
  IN more(<<>>, start)
Names(s) == CommaList(EatName, s)
\* ( names ), when there is a parenthesis.
OptNames(s) ==
  IF Cur(s) # "(" THEN R(<<>>, s) ELSE LET x == Names(Adv(s)) IN R(x.v, Eat(x.s, ")"))

(***************************************************************************)
(* Expressions                                                              *)
(***************************************************************************)
Prec(t) ==
  CASE t = "OR" -> 1 [] t = "AND" -> 2 [] t = "|" -> 3 [] t = "#" -> 4 [] t = "&" -> 5
    [] t \in CompareOps \cup {"LIKE", "IS"} -> 6 [] t = "||" -> 7 [] t \in {"+", "-"} -> 8
    [] t \in {"*", "/", "%"} -> 9 [] OTHER -> 0
\* parseBinary climbs: the right operand takes only what binds tighter.
RightPrecSame(t) == Prec(t)
RightPrec(t) == Prec(t) + 1
UnaryOps == {"NOT", "-", "+", "~"}
WindowNames == {"ROW_NUMBER", "RANK", "DENSE_RANK", "LAG", "LEAD", "FIRST_VALUE", "LAST_VALUE", "NTH_VALUE"}
Units == {"YEAR", "MONTH", "DAY", "HOUR", "MINUTE", "SECOND",
          "YEARS", "MONTHS", "DAYS", "HOURS", "MINUTES", "SECONDS"}

RECURSIVE ParseSelect(_), ParseBinary(_, _), ParseUnary(_)
ParseExpr(s) == ParseBinary(s, 1)
ExprList(s) == CommaList(ParseExpr, s)
\* Items up to a parenthesis, which may be none.
Args(s) ==
  LET x == IF Cur(s) = ")" THEN R(<<>>, s) ELSE ExprList(s) IN R(x.v, Eat(x.s, ")"))
ParenExpr(s) == LET x == ParseExpr(Eat(s, "(")) IN R(x.v, Eat(x.s, ")"))
ParenSelect(s) == LET q == ParseSelect(Eat(s, "(")) IN R(q.v, Eat(q.s, ")"))
\* An optional clause: the keyword and an expression.
OptExpr(s, t) ==
  IF Cur(s) # t THEN R(<<>>, s) ELSE LET x == ParseExpr(Adv(s)) IN R(<<x.v>>, x.s)

\* A size or a precision and a scale after some types.
IntArg(s) ==
  IF Cur(s) = "lit" /\ Head(s.ts).v.t = "int" THEN R(Head(s.ts).v.n, Adv(s)) ELSE R(0, Failed1(s))
ParseType(s) ==
  LET ty == Head(s.ts).ty
      t == Adv(s)
      x == IntArg(Adv(t))
      y == IF Cur(x.s) = "," THEN IntArg(Adv(x.s)) ELSE R(0, x.s)
  IN CASE Cur(s) # "type" -> R(TypeInfo("", 0, 0, 0), Failed1(s))
       [] ty = "VARCHAR" /\ Cur(t) = "(" -> R(TypeInfo(ty, x.v, 0, 0), Eat(x.s, ")"))
       [] ty \in {"NUMERIC", "DECIMAL"} /\ Cur(t) = "(" ->
            R(TypeInfo(ty, x.v, x.v, y.v), Eat(y.s, ")"))
       [] OTHER -> R(TypeInfo(ty, 0, 0, 0), t)

OrderItem(s) ==
  LET x == ParseExpr(s)
  IN R(Order(x.v, Cur(x.s) = "DESC"), IF Cur(x.s) \in {"ASC", "DESC"} THEN Adv(x.s) ELSE x.s)
OptBy(s, t, P(_)) == IF Cur(s) # t THEN R(<<>>, s) ELSE CommaList(P, Eat(Adv(s), "BY"))

FrameBound(s) ==
  LET t == Opt(s, "UNBOUNDED")
      x == ParseExpr(t)
  IN CASE Cur(s) = "UNBOUNDED" /\ Cur(t) \in {"PRECEDING", "FOLLOWING"} ->
            R([kind |-> "UNBOUNDED_" \o Cur(t), n |-> <<>>], Adv(t))
       [] Cur(t) = "CURRENT" -> R([kind |-> "CURRENT_ROW", n |-> <<>>], Eat(Adv(t), "ROW"))
       [] Cur(x.s) \in {"PRECEDING", "FOLLOWING"} -> R([kind |-> Cur(x.s), n |-> <<x.v>>], Adv(x.s))
       [] OTHER -> ErrR(s)
OptFrame(s) ==
  LET lo == FrameBound(Eat(Adv(s), "BETWEEN"))
      hi == FrameBound(Eat(lo.s, "AND"))
  IN IF Cur(s) \notin {"ROWS", "RANGE"} THEN R(<<>>, s)
     ELSE R(<<[kind |-> Cur(s), lo |-> lo.v, hi |-> hi.v]>>, hi.s)
WindowSpec(name, args, s) ==
  LET part == OptBy(Eat(Eat(s, "OVER"), "("), "PARTITION", ParseExpr)
      ord == OptBy(part.s, "ORDER", OrderItem)
      frame == OptFrame(ord.s)
  IN R(Window(name, args, [part |-> part.v, order |-> ord.v, frame |-> frame.v]), Eat(frame.s, ")"))

\* COUNT, SUM, AVG take one argument, MIN and MAX any number: of several they are plain functions.
\* (MIN() indexes an empty slice in the code; it counts as an error here.)
ParseAggregate(s) ==
  LET name == Cur(s)
      t == Eat(Adv(s), "(")
      distinct == Cur(t) = "DISTINCT"
      u == Opt(t, "DISTINCT")
      one == ParseExpr(u)
      args == CASE Cur(u) = "*" -> R(<<StarE>>, Adv(u))
                [] name \in {"MIN", "MAX"} -> ExprList(u)
                [] OTHER -> R(<<one.v>>, one.s)
      v == Eat(args.s, ")")
  IN CASE Len(args.v) > 1 -> R(Fn(name, args.v), v)
       [] Cur(v) = "OVER" -> WindowSpec(name, args.v, v)
       [] OTHER -> R(Agg(name, args.v, distinct), v)
\* A name: a column, a qualified column, a call. GROUP_CONCAT is an aggregate and keeps one argument.
ParseName(s) ==
  LET name == IF Cur(s) = "id" THEN Head(s.ts).name ELSE "EXCLUDED"
      t == Adv(s)
      c == EatName(Adv(t))
      isAgg == name = "GROUP_CONCAT"
      distinct == isAgg /\ Peek(t) = "DISTINCT"
      u == IF distinct THEN Adv(Adv(t)) ELSE Adv(t)
      args == Args(u)
  IN CASE Cur(t) = "." -> R(Qual(name, c.v), c.s)
       [] Cur(t) # "(" -> R(ColRef(name), t)
       [] distinct /\ Cur(u) = "*" -> ErrR(s)
       [] isAgg -> R(Agg(name, SubSeq(args.v, 1, 1), distinct), args.s)
       [] OTHER -> R(Fn(name, args.v), args.s)

ParseWhen(s) ==
  LET c == ParseExpr(Adv(s))
      x == ParseExpr(Eat(c.s, "THEN"))
  IN R(When(c.v, x.v), x.s)
RECURSIVE Whens(_, _)
Whens(acc, s) ==
  IF Cur(s) # "WHEN" THEN R(acc, s) ELSE LET w == ParseWhen(s) IN Whens(Append(acc, w.v), w.s)
ParseCase(s) ==
  LET t == Adv(s)
      x == ParseExpr(t)
      of == IF Cur(t) = "WHEN" THEN R(<<>>, t) ELSE R(<<x.v>>, x.s)
      whens == Whens(<<>>, of.s)
      else == OptExpr(whens.s, "ELSE")
  IN R(CaseOf(of.v, whens.v, else.v), Eat(else.s, "END"))
ParseCast(s) ==
  LET x == ParseExpr(Eat(Adv(s), "("))
      ty == ParseType(Eat(x.s, "AS"))
  IN R(Cast(x.v, ty.v), Eat(ty.s, ")"))
\* COALESCE and NULLIF also without parentheses.
ParseCoalesce(s) ==
  LET open == Peek(s) = "("
      args == ExprList(IF open THEN Adv(Adv(s)) ELSE Adv(s))
  IN R(Fn("COALESCE", args.v), IF open THEN Eat(args.s, ")") ELSE args.s)
ParseNullif(s) ==
  LET open == Peek(s) = "("
      x == ParseExpr(IF open THEN Adv(Adv(s)) ELSE Adv(s))
      y == ParseExpr(Eat(x.s, ","))
  IN R(Fn("NULLIF", <<x.v, y.v>>), IF open THEN Eat(y.s, ")") ELSE y.s)
ParseInterval(s) ==
  LET t == Adv(s)
      u == Adv(t)
      unit == Head(u.ts).name
  IN CASE Cur(t) # "lit" -> ErrR(s)
       [] Cur(t) = "lit" /\ Head(t.ts).v.t # "str" -> ErrR(s)
       [] Cur(u) # "id" -> R(Interval(Head(t.ts).v, "DAY"), u)
       [] unit \in Units -> R(Interval(Head(t.ts).v, unit), Adv(u))
       [] OTHER -> ErrR(s)

ParsePrimary(s) ==
  CASE Cur(s) = "lit" -> R(Lit(Head(s.ts).v), Adv(s))
    [] Cur(s) = "?" -> R(Param(s.n), [Adv(s) EXCEPT !.n = @ + 1])
    [] Cur(s) = "*" -> R(StarE, Adv(s))
    [] Cur(s) \in {"id", "EXCLUDED"} -> ParseName(s)
    [] Cur(s) \in {"COUNT", "SUM", "AVG", "MIN", "MAX"} -> ParseAggregate(s)
    [] Cur(s) \in WindowNames -> LET a == Args(Eat(Adv(s), "(")) IN WindowSpec(Cur(s), a.v, a.s)
    [] Cur(s) = "(" /\ Peek(s) = "SELECT" -> LET q == ParenSelect(s) IN R(Sub(q.v), q.s)
    [] Cur(s) = "(" -> ParenExpr(s)
    [] Cur(s) = "CASE" -> ParseCase(s)
    [] Cur(s) = "CAST" -> ParseCast(s)
    [] Cur(s) = "COALESCE" -> ParseCoalesce(s)
    [] Cur(s) = "NULLIF" -> ParseNullif(s)
    [] Cur(s) = "EXISTS" -> LET q == ParenSelect(Adv(s)) IN R(Exists(q.v), q.s)
    [] Cur(s) = "INTERVAL" -> ParseInterval(s)
    [] OTHER -> ErrR(s)

\* What may follow a primary expression; s stands at the keyword.
ParseBetween(e, s) ==
  LET lo == ParseBinary(Adv(s), 3)
      hi == ParseBinary(Eat(lo.s, "AND"), 3)
  IN R(Between(e, lo.v, hi.v), hi.s)
ParseIn(e, s) ==
  LET t == Adv(s)
      q == ParenSelect(t)
      list == Args(Eat(t, "("))
  IN IF Cur(t) = "(" /\ Peek(t) = "SELECT" THEN R(InSub(e, q.v), q.s) ELSE R(InList(e, list.v), list.s)
ParseLike(e, s) == LET r == ParseBinary(Adv(s), 7) IN R(Bin("LIKE", e, r.v), r.s)
Negated(x) == R(Un("NOT", x.v), x.s)
ParsePostfix(s) ==
  LET x == ParsePrimary(s)
      after == Adv(x.s)
  IN CASE Cur(x.s) = "BETWEEN" -> ParseBetween(x.v, x.s)
       [] Cur(x.s) = "IN" -> ParseIn(x.v, x.s)
       [] Cur(x.s) = "NOT" /\ Cur(after) = "LIKE" -> Negated(ParseLike(x.v, after))
       [] Cur(x.s) = "NOT" /\ Cur(after) = "IN" -> Negated(ParseIn(x.v, after))
       [] Cur(x.s) = "NOT" /\ Cur(after) = "BETWEEN" -> Negated(ParseBetween(x.v, after))
       [] OTHER -> x
ParseUnary(s) ==
  IF Cur(s) \in UnaryOps THEN LET x == ParseUnary(Adv(s)) IN R(Un(Cur(s), x.v), x.s)
  ELSE ParsePostfix(s)
RECURSIVE Climb(_, _)
Climb(l, least) ==
  LET op == Cur(l.s)
      r == ParseBinary(Adv(l.s), RightPrec(op))
  IN IF Prec(op) = 0 \/ Prec(op) < least THEN l ELSE Climb(R(Bin(op, l.v, r.v), r.s), least)
ParseBinary(s, least) == Climb(ParseUnary(s), least)

(***************************************************************************)
(* SELECT                                                                   *)
(***************************************************************************)
SelectItem(s) ==
  LET x == ParseExpr(s)
      a == EatName(Adv(x.s))
  IN IF Cur(x.s) = "AS" THEN R(Alias(x.v, a.v), a.s) ELSE x
Anonymous == "$$subquery$$"
\* The source: a name, or a subquery that waits in pendingSubquery until the SELECT is built.
ParseFrom(s) ==
  LET t == Adv(s)
      q == ParenSelect(t)
      u == Opt(q.s, "AS")
      named == Cur(u) = "id"
      sub == [IF named THEN Adv(u) ELSE u EXCEPT !.pend = <<q.v>>]
  IN CASE Cur(s) # "FROM" -> R("", s)
       [] Cur(t) = "(" /\ Peek(t) = "SELECT" -> R(IF named THEN Head(u.ts).name ELSE Anonymous, sub)
       [] OTHER -> EatName(t)
RECURSIVE CommaJoins(_, _)
CommaJoins(acc, s) ==
  LET n == EatName(Adv(s))
  IN IF Cur(s) # "," THEN R(acc, s) ELSE CommaJoins(Append(acc, Join("CROSS", n.v, <<>>)), n.s)
RECURSIVE Joins(_, _)
Joins(acc, s) ==
  LET kind == IF Cur(s) = "JOIN" THEN "INNER" ELSE Cur(s)
      n == EatName(Opt(Opt(Adv(s), "OUTER"), "JOIN"))
      on == OptExpr(n.s, "ON")
  IN IF Cur(s) \notin {"JOIN", "LEFT", "RIGHT", "INNER", "CROSS"} THEN R(acc, s)
     ELSE Joins(Append(acc, Join(kind, n.v, on.v)), on.s)
\* SubqueryFrom is pendingSubquery as it is left when the clauses have been parsed, whoever set it.
ParseOneSelect(s0) ==
  LET s == Adv([s0 EXCEPT !.pend = <<>>])
      t == Opt(s, "DISTINCT")
      cols == IF Cur(t) = "*" THEN R(<<StarE>>, Adv(t)) ELSE CommaList(SelectItem, t)
      from == ParseFrom(cols.s)
      commas == CommaJoins(<<>>, from.s)
      alias == IF Cur(commas.s) = "AS" THEN EatName(Adv(commas.s)) ELSE R("", commas.s)
      joins == Joins(commas.v, alias.s)
      where == OptExpr(joins.s, "WHERE")
      group == OptBy(where.s, "GROUP", ParseExpr)
      having == OptExpr(group.s, "HAVING")
      built(x) == R([k |-> "select", distinct |-> Cur(s) = "DISTINCT", cols |-> cols.v, from |-> from.v,
                     alias |-> alias.v, sub |-> x.s.pend, joins |-> joins.v,
                     where |-> where.v, group |-> group.v, having |-> x.v, trail |-> NoTrail], x.s)
  IN built(having)
RECURSIVE Intersects(_)
Intersects(l) ==
  LET r == ParseOneSelect(Adv(l.s))
  IN IF Cur(l.s) # "INTERSECT" THEN l ELSE Intersects(R(Compound("INTERSECT", l.v, r.v), r.s))
IntersectChain(s) == Intersects(ParseOneSelect(s))
\* parseOneSelect takes the next token for SELECT without a look.
RECURSIVE Unions(_)
Unions(l) ==
  LET all == Peek(l.s) = "ALL"
      r == IntersectChain(IF all THEN Adv(Adv(l.s)) ELSE Adv(l.s))
      op == IF all THEN "UNION ALL" ELSE Cur(l.s)
  IN IF Cur(l.s) \notin {"UNION", "EXCEPT"} THEN l
     ELSE IF all /\ Cur(l.s) = "EXCEPT" THEN ErrR(l.s)
     ELSE Unions(R(Compound(op, l.v, r.v), r.s))
Trailing(s) ==
  LET order == OptBy(s, "ORDER", OrderItem)
      limit == OptExpr(order.s, "LIMIT")
      offset == OptExpr(limit.s, "OFFSET")
  IN R([order |-> order.v, limit |-> limit.v, offset |-> offset.v], offset.s)
\* ORDER BY, LIMIT and OFFSET belong to the whole chain.
ParseSelect(s) ==
  LET chain == Unions(IntersectChain(s))
      trail == Trailing(chain.s)
  IN IF Bad(trail.s) THEN ErrR(s) ELSE R([chain.v EXCEPT !.trail = trail.v], trail.s)
=============================================================================
