------------------------------ MODULE SqlExpr ------------------------------
(***************************************************************************)
(* SQL expressions: evaluation (SQL/EX eval.go), the rewriter that runs      *)
(* before every plan (SQL/RE rewrite.go) and the batch evaluator (SQL/EX      *)
(* eval_vec.go, batch.go). An expression is a tree of records; a row is a     *)
(* function from column names to values.                                     *)
(***************************************************************************)
EXTENDS SqlFunctions, SqlDateTime, Bitwise

Lit(v) == [k |-> "lit", v |-> v]
ColRef(c) == [k |-> "col", c |-> c]
Un(op, e) == [k |-> "un", op |-> op, e |-> e]
Bin(op, l, r) == [k |-> "bin", op |-> op, l |-> l, r |-> r]
Between(e, lo, hi) == [k |-> "between", e |-> e, lo |-> lo, hi |-> hi]
InList(e, items) == [k |-> "in", e |-> e, items |-> items]
Cast(e, ty) == [k |-> "cast", e |-> e, ty |-> ty]
When(c, t) == [cond |-> c, then |-> t]
\* `of` and `else` are <<>> when missing, and a sequence of one expression otherwise.
CaseOf(of, whens, else) == [k |-> "case", of |-> of, whens |-> whens, else |-> else]
Fn(name, args) == [k |-> "fn", name |-> name, args |-> args]

(***************************************************************************)
(* Evaluation                                                               *)
(***************************************************************************)
\* An integer as the natural number with its bits, and back.
Bits(x) == x % Modulus
BitOp(op, x, y) ==
  IF ToInt(x) = ERR \/ ToInt(y) = ERR THEN NULL
  ELSE LET i == Bits(ToInt(x).n)
           j == Bits(ToInt(y).n)
       IN VInt(Wrap(CASE op = "&" -> i & j [] op = "|" -> i | j [] op = "#" -> i ^^ j))

EvalUnary(op, v) ==
  CASE v = ERR -> ERR
    [] op = "+" -> v
    [] op = "NOT" -> IF v = NULL THEN NULL ELSE VBool(~ Truthy(v))
    [] op = "-" ->
         (CASE v.t = "null" -> NULL
            [] v.t = "int" -> VInt(Wrap(-v.n))
            [] v.t = "float" -> VFlt(-v.num, v.den)
            [] OTHER -> ERR)
    [] op = "~" -> IF ToInt(v) = ERR THEN ERR ELSE VInt(-ToInt(v).n - 1)

\* AND and OR know two values: what is not TRUE is FALSE.
EvalBinary(op, l, r) ==
  CASE l = ERR \/ r = ERR -> ERR
    [] op \in CompareOps -> IF l = NULL \/ r = NULL THEN NULL ELSE VBool(CompareHolds(op, l, r))
    [] op \in {"+", "-"} ->
         LET orNumber(d) == IF d = ERR THEN NumericArith(op, l, r) ELSE d
         IN orNumber(DateArith(op, l, r))
    [] op = "*" -> NumericArith(op, l, r)
    [] op \in {"/", "%"} -> DivMod(op, l, r)
    [] op \in {"&", "|", "#"} -> BitOp(op, l, r)
    [] op = "||" -> IF l = NULL \/ r = NULL THEN NULL ELSE VStr(Show(l) \o Show(r))
    [] op = "AND" -> VBool(IsTrue(l) /\ IsTrue(r))
    [] op = "OR" -> VBool(IsTrue(l) \/ IsTrue(r))
    [] op = "LIKE" -> VBool(l.t = "str" /\ r.t = "str" /\ MatchLike(r.s, l.s))
    [] op = "IS" -> VBool(l = r)

\* The first error, or ERR-free.
Failed(vs) == \E i \in DOMAIN vs : vs[i] = ERR
EvalBetween(v, lo, hi) ==
  IF Failed(<<v, lo, hi>>) THEN ERR ELSE VBool(Compare(v, lo) >= 0 /\ Compare(v, hi) <= 0)
\* Items are evaluated one after the other until one is equal.
RECURSIVE InItems(_, _, _)
InItems(v, items, hadNull) ==
  IF items = <<>> THEN IF hadNull THEN NULL ELSE VBool(FALSE)
  ELSE CASE Head(items) = ERR -> ERR
         [] Head(items) = NULL -> InItems(v, Tail(items), TRUE)
         [] OTHER -> IF EqualValue(v, Head(items)) THEN VBool(TRUE) ELSE InItems(v, Tail(items), hadNull)
EvalIn(v, items) == IF v \in {ERR, NULL} THEN v ELSE InItems(v, items, FALSE)

IsNotNull(e) == e.k = "un" /\ e.op = "NOT" /\ e.e = Lit(NULL)
RECURSIVE Eval(_, _)
EvalAll(es, row) == [i \in DOMAIN es |-> Eval(es[i], row)]
\* The branch that is taken: its place in whens, 0 for ELSE, -1 for an error on the way.
RECURSIVE CaseBranch(_, _, _, _)
CaseBranch(target, whens, i, row) ==
  IF i > Len(whens) THEN 0
  ELSE LET c == Eval(whens[i].cond, row)
           taken == IF target = <<>> THEN Truthy(c) ELSE EqualValue(target[1], c)
       IN IF c = ERR THEN -1 ELSE IF taken THEN i ELSE CaseBranch(target, whens, i + 1, row)
EvalCase(e, row) ==
  LET target == EvalAll(e.of, row)
      i == CaseBranch(target, e.whens, 1, row)
  IN IF Failed(target) \/ i = -1 THEN ERR
     ELSE IF i > 0 THEN Eval(e.whens[i].then, row)
     ELSE IF e.else = <<>> THEN NULL ELSE Eval(e.else[1], row)
\* An unknown name evaluates to itself.
Eval(e, row) ==
  CASE e.k = "lit" -> e.v
    [] e.k = "col" -> IF e.c \in DOMAIN row THEN row[e.c] ELSE VStr(e.c)
    [] e.k = "un" -> EvalUnary(e.op, Eval(e.e, row))
    [] e.k = "bin" ->
         IF e.op = "IS" /\ IsNotNull(e.r) /\ Eval(e.l, row) # ERR
         THEN VBool(Eval(e.l, row) # NULL)
         ELSE EvalBinary(e.op, Eval(e.l, row), Eval(e.r, row))
    [] e.k = "between" -> EvalBetween(Eval(e.e, row), Eval(e.lo, row), Eval(e.hi, row))
    [] e.k = "in" -> EvalIn(Eval(e.e, row), EvalAll(e.items, row))
    [] e.k = "cast" -> CastTo(Eval(e.e, row), e.ty)
    [] e.k = "case" -> EvalCase(e, row)
    [] e.k = "fn" -> Call(e.name, EvalAll(e.args, row))

(***************************************************************************)
(* Rewriting                                                                *)
(***************************************************************************)
IsLit(e) == e.k = "lit"
\* NULL literals are equal to nothing, not to each other either.
EqualLit(x, y) == IsLit(x) /\ IsLit(y) /\ x.v = y.v /\ x.v # NULL
BoolLit(b) == Lit(VBool(b))
NoFold == [k |-> "none"]

\* Go's arithmetic on constants, which wraps; integral floats become integers.
Integral(x) == x.t = "float" /\ x.den = 1 /\ x.num \in MinInt..MaxInt
FoldArith(op, x, y) ==
  CASE x.t = "int" /\ y.t = "int" ->
         IF op # "/" THEN Lit(VInt(Wrap(Op2(op, x.n, y.n))))
         ELSE IF y.n = 0 THEN NoFold ELSE Lit(VInt(Wrap(TruncDiv(x.n, y.n))))
    [] ~ IsNum(x) \/ ~ IsNum(y) -> NoFold
    [] op = "/" -> IF Num(y) = 0 THEN NoFold ELSE Lit(DivMod("/", AsFloat(x), AsFloat(y)))
    [] Integral(AsFloat(x)) /\ Integral(AsFloat(y)) ->
         Lit(VInt(Wrap(Op2(op, IntOfFloat(Num(x)), IntOfFloat(Num(y))))))
    [] OTHER -> Lit(NumericArith(op, AsFloat(x), AsFloat(y)))
\* Two constants of one type; integers are compared as integers here.
FoldCompare(op, x, y) ==
  IF x.t # y.t THEN NoFold
  ELSE IF x.t # "int" THEN BoolLit(CompareHolds(op, x, y))
  ELSE BoolLit(CASE op = "=" -> x.n = y.n [] op = "<>" -> x.n # y.n [] op = "<" -> x.n < y.n
                 [] op = "<=" -> x.n <= y.n [] op = ">" -> x.n > y.n [] op = ">=" -> x.n >= y.n)
FoldBinary(op, l, r) ==
  IF ~ IsLit(l) \/ ~ IsLit(r) THEN NoFold
  ELSE IF l.v = NULL \/ r.v = NULL THEN NoFold
  ELSE CASE op \in {"+", "-", "*", "/"} -> FoldArith(op, l.v, r.v)
         [] op \in CompareOps -> FoldCompare(op, l.v, r.v)
         [] op \in {"AND", "OR"} /\ l.v.t = "bool" /\ r.v.t = "bool" ->
              BoolLit(IF op = "AND" THEN l.v.b /\ r.v.b ELSE l.v.b \/ r.v.b)
         [] OTHER -> NoFold
\* x AND TRUE is x, x OR FALSE is x; FALSE and TRUE absorb.
SimplifyLogicSwapped(op, l, r) ==
  LET unit == BoolLit(op = "OR")
      zero == BoolLit(op = "AND")
  IN CASE l = unit -> r [] l = zero -> l [] r = unit -> l [] r = zero -> r
       [] EqualLit(l, r) -> l
       [] OTHER -> Bin(op, l, r)
SimplifyLogic(op, l, r) ==
  LET unit == BoolLit(op = "AND")
      zero == BoolLit(op = "OR")
  IN CASE l = unit -> r [] l = zero -> l [] r = unit -> l [] r = zero -> r
       [] EqualLit(l, r) -> l
       [] OTHER -> Bin(op, l, r)
SimplifyBinary(op, l, r) ==
  LET simplest(folded) ==
        CASE folded # NoFold -> folded
          [] folded = NoFold /\ op \in {"AND", "OR"} -> SimplifyLogic(op, l, r)
          [] folded = NoFold /\ op \in {"=", "<>"} /\ EqualLit(l, r) -> BoolLit(op = "=")
          [] OTHER -> Bin(op, l, r)
  IN simplest(FoldBinary(op, l, r))
\* NOT NULL is kept, for IS NOT NULL; NOT NOT x is x; + x is x.
SimplifyUnary(op, e) ==
  CASE op = "-" /\ IsLit(e) /\ IsNum(e.v) -> Lit(EvalUnary("-", e.v))
    [] op = "+" -> e
    [] op = "NOT" /\ IsLit(e) /\ e.v.t = "bool" -> BoolLit(~ e.v.b)
    [] op = "NOT" /\ e.k = "un" /\ e.op = "NOT" -> e.e
    [] OTHER -> Un(op, e)
RECURSIVE RewriteExpr(_)
RewriteAll(es) == [i \in DOMAIN es |-> RewriteExpr(es[i])]
RewriteExpr(e) ==
  CASE e.k = "un" -> SimplifyUnary(e.op, RewriteExpr(e.e))
    [] e.k = "bin" -> SimplifyBinary(e.op, RewriteExpr(e.l), RewriteExpr(e.r))
    [] e.k = "between" -> Between(RewriteExpr(e.e), RewriteExpr(e.lo), RewriteExpr(e.hi))
    [] e.k = "in" -> InList(RewriteExpr(e.e), RewriteAll(e.items))
    [] e.k = "cast" -> Cast(RewriteExpr(e.e), e.ty)
    [] e.k = "case" ->
         CaseOf(RewriteAll(e.of),
                [i \in DOMAIN e.whens |-> When(RewriteExpr(e.whens[i].cond), RewriteExpr(e.whens[i].then))],
                RewriteAll(e.else))
    [] e.k = "fn" -> Fn(e.name, RewriteAll(e.args))
    [] e.k = "agg" -> [e EXCEPT !.arg = RewriteAll(e.arg)]
    [] e.k = "alias" -> [e EXCEPT !.e = RewriteExpr(e.e)]
    \* simplifyIn, flattenSubquery: the columns of a SELECT of constants become the list.
    [] e.k = "insub" ->
         IF e.q.k = "select" /\ e.q.from = "" /\ e.q.alias = "" /\ e.q.where = <<>>
            /\ \A i \in DOMAIN e.q.cols : IsLit(e.q.cols[i])
         THEN InList(RewriteExpr(e.e), e.q.cols) ELSE [e EXCEPT !.e = RewriteExpr(e.e)]
    [] OTHER -> e

\* The conjuncts of WHERE, each of which becomes a Filter: a row passes if each is truthy.
RECURSIVE SplitAnd(_)
SplitAnd(e) == IF e.k = "bin" /\ e.op = "AND" THEN SplitAnd(e.l) \o SplitAnd(e.r) ELSE <<e>>
RECURSIVE PassesFilters(_, _)
PassesFilters(es, row) ==
  IF es = <<>> THEN "pass"
  ELSE LET v == Eval(Head(es), row)
       IN IF v = ERR THEN "error" ELSE IF Truthy(v) THEN PassesFilters(Tail(es), row) ELSE "drop"

(***************************************************************************)
(* Batches: columns of a type with a sequence of cells and one of marks for   *)
(* NULL; a cell that is marked holds the zero of its type. A selection is a   *)
(* set of rows, or All when nothing was filtered out by name.                *)
(***************************************************************************)
Zero(ty) == CASE ty = "int" -> VInt(0) [] ty = "float" -> VFlt(0, 1) [] ty = "str" -> VStr(<<>>)
              [] ty = "bool" -> VBool(FALSE)
\* AppendRow: a value of another type than the column's leaves the cell at zero.
BatchColumn(ty, vs) ==
  [ty |-> ty, data |-> [i \in DOMAIN vs |-> IF vs[i].t = ty THEN vs[i] ELSE Zero(ty)],
   nulls |-> {i \in DOMAIN vs : vs[i] = NULL}]
All == {0}            \* nil in the code: no selection
\* The operator left as it is when the operands change sides.
SwapOpNot(op) == op
SwapOp(op) == CASE op = "<" -> ">" [] op = "<=" -> ">=" [] op = ">" -> "<" [] op = ">=" -> "<=" [] OTHER -> op
\* Comparison of cells: by type, without a look at the marks.
Vectorised(ty) == ty \in {"int", "float", "str"}
CellHolds(op, x, y) ==
  op \in CompareOps /\ (IF x.t = "int" THEN FoldCompare(op, x, y) = BoolLit(TRUE) ELSE CompareHolds(op, x, y))
\* Row by row the columns have no names, so a name stands for itself.
RowFallback(e, size) == {i \in 1..size : IsTrue(Eval(e, [c \in {} |-> NULL]))}
\* Columns that cannot be compared are given to the row evaluator without operands, and both
\* sides of IS are NULL then.
Unmatched(op, size) == IF op = "IS" THEN 1..size ELSE {}
CompareColumns(x, y, op, size) ==
  IF x.ty = y.ty /\ Vectorised(x.ty) THEN {i \in 1..size : CellHolds(op, x.data[i], y.data[i])}
  ELSE Unmatched(op, size)
CompareColLiteral(c, v, op, size) ==
  IF Vectorised(c.ty) /\ v.t = c.ty THEN {i \in 1..size : CellHolds(op, c.data[i], v)}
  ELSE Unmatched(op, size)
EvalBinaryBatch(e, cols, size) ==
  LET isCol(x) == x.k = "col" /\ x.c \in DOMAIN cols
  IN CASE isCol(e.l) /\ isCol(e.r) -> CompareColumns(cols[e.l.c], cols[e.r.c], e.op, size)
       [] isCol(e.l) /\ IsLit(e.r) -> CompareColLiteral(cols[e.l.c], e.r.v, e.op, size)
       [] isCol(e.r) /\ IsLit(e.l) -> CompareColLiteral(cols[e.r.c], e.l.v, SwapOp(e.op), size)
       [] OTHER -> RowFallback(e, size)
RECURSIVE EvalBatch(_, _, _)
EvalBatch(e, cols, size) ==
  CASE e.k = "bin" -> EvalBinaryBatch(e, cols, size)
    [] e.k = "un" /\ e.op = "NOT" ->
         LET inner == EvalBatch(e.e, cols, size)
         IN CASE inner = All -> {} [] inner = {} -> All [] OTHER -> (1..size) \ inner
    [] OTHER -> RowFallback(e, size)
Selected(sel, size) == IF sel = All THEN 1..size ELSE sel
=============================================================================
