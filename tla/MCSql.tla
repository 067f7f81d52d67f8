-------------------------------- MODULE MCSql --------------------------------
(***************************************************************************)
(* The pure part of SQL on bounded inputs: statements and expressions are     *)
(* built node by node, on a stack in the order of their text, and inputs of   *)
(* scalar operations are drawn from small sets. Each part has a grammar of     *)
(* its own, and one is SqlScalars; a state is one input, and the properties    *)
(* compare the translated code with a reference definition on it; a part      *)
(* draws databases, and every query of the battery is answered on each.       *)
(***************************************************************************)
EXTENDS SqlPrinter, QueryBattery, SqlJson, SqlScalars

CONSTANTS
  SyntaxNodes, TextNodes, LogicNodes, NotChain,   \* nodes of a tree, by part
  WrapBound                                       \* nodes of an expression that is put into a statement

NodeBound == [syntax |-> SyntaxNodes, text |-> TextNodes, logic |-> LogicNodes, batch |-> NotChain]

VARIABLES
  part,           \* which grammar the input comes from
  stack,          \* expressions that are complete, in the order of the text
  used,           \* nodes built so far
  stmt,           \* a statement around the expression, or <<>>
  probe           \* the input of a scalar operation, or <<>>

grammar == <<part, stack, used, stmt, probe>>
vars == <<part, stack, used, stmt, probe, input>>
Builders == DOMAIN NodeBound
Drawn == {"json", "number", "string", "query"}

(***************************************************************************)
(* Grammars                                                                 *)
(***************************************************************************)
One == Lit(VInt(1))
Two == Lit(VInt(2))
True == BoolLit(TRUE)
False == BoolLit(FALSE)
\* A parameter's number is the number of those before it in the text.
Params(ts) == Cardinality({i \in DOMAIN ts : ts[i] = K("?")})
Shown(es) == FlatCat([i \in DOMAIN es |-> Bare(es[i])])
\* The leaves of a tree are parameters, with a number of its own for each, or, to be put into a statement, columns.
Named == used < WrapBound /\ Params(Shown(stack)) = 0
Numbered == stack = <<>> \/ Params(Shown(stack)) > 0
Leaf ==
  [syntax |-> (IF Named THEN {ColRef("a")} ELSE {}) \cup (IF Numbered THEN {Param(Params(Shown(stack)))} ELSE {}),
   text   |-> {ColRef("a"), One, Lit(VStr(<<120>>))},
   logic  |-> {ColRef("p"), ColRef("q"), True, False, Bin("<", ColRef("n"), One),
               Bin("=", Bin("+", One, One), Two)},
   batch  |-> {Bin(op, x, y) : op \in CompareOps, x \in {ColRef("n"), One}, y \in {ColRef("n"), ColRef("m")}}
              \cup {Bin(op, ColRef("s"), Lit(VStr(<<98>>))) : op \in CompareOps}
              \cup {Bin(op, ColRef("m"), Two) : op \in CompareOps}]
UnaryOf == [syntax |-> {"NOT", "-"}, text |-> {"NOT", "-"}, logic |-> {"NOT"}, batch |-> {"NOT"}]
BinaryOf ==
  [syntax |-> {"OR", "AND", "|", "=", "LIKE", "+", "*"}, text |-> {"OR", "<=", "+", "LIKE"},
   logic |-> {"AND", "OR"}, batch |-> {}]
\* The last n expressions of the stack, and the ones before them.
Tops(n) == SubSeq(stack, Len(stack) - n + 1, Len(stack))
Below(n) == SubSeq(stack, 1, Len(stack) - n)
Select(e) ==
  [k |-> "select", distinct |-> FALSE, cols |-> <<e>>, from |-> "t", alias |-> "", sub |-> <<>>, joins |-> <<>>,
   where |-> <<>>, group |-> <<>>, having |-> <<>>, trail |-> NoTrail]
TernaryOf(x, y, z) ==
  {Between(x, y, z), CaseOf(<<x>>, <<When(y, z)>>, <<>>), CaseOf(<<>>, <<When(x, y)>>, <<z>>)}
  \cup (IF part = "text" THEN {Fn("f", <<x, y, z>>)} ELSE {InList(x, <<y, z>>), Fn("COALESCE", <<x, y, z>>)})

(***************************************************************************)
(* Statements of every kind around an expression.                           *)
(***************************************************************************)
Trail(e) == [order |-> <<Order(e, TRUE)>>, limit |-> <<Two>>, offset |-> <<One>>]
Column(e) == [NewCol("c", "VARCHAR", 8) EXCEPT !.default = <<e>>, !.nullable = FALSE]
Insert(e) == [k |-> "insert", tab |-> "t", cols |-> <<"c">>, rows |-> << <<e>>, <<One>> >>, ret |-> <<>>,
              conflict |-> <<>>, action |-> ""]
Update(e) == [k |-> "update", tab |-> "t", set |-> <<Pair("c", e)>>, where |-> <<One>>, ret |-> <<StarE>>]
Delete(e) == [k |-> "delete", tab |-> "t", where |-> <<e>>, ret |-> <<>>]
OverRows(e) == [part |-> <<e>>, order |-> <<Order(One, FALSE)>>,
            frame |-> <<[kind |-> "ROWS", lo |-> [kind |-> "PRECEDING", n |-> <<e>>],
                         hi |-> [kind |-> "CURRENT_ROW", n |-> <<>>]]>>]
Fk(refs) == [cols |-> <<"c">>, ref |-> "u", refCols |-> refs, onDelete |-> "SET NULL", onUpdate |-> "CASCADE"]
Table(e) == [k |-> "createTable", name |-> "t", cols |-> <<Column(e), NewCol("d", "INTEGER", 0)>>, pk |-> <<"d">>,
             uniques |-> << <<"c", "d">> >>, fks |-> <<Fk(<<"d">>)>>]
Queries(e) ==
  {Select(e),
   [Select(Agg("COUNT", <<e>>, TRUE)) EXCEPT !.distinct = TRUE, !.where = <<e>>, !.group = <<One>>,
                                              !.having = <<e>>, !.trail = Trail(e)],
   [Select(Alias(e, "b")) EXCEPT !.alias = "v", !.joins = <<Join("LEFT", "u", <<e>>), Join("CROSS", "w", <<>>)>>],
   [Select(Window("RANK", <<>>, OverRows(e))) EXCEPT !.sub = <<Select(e)>>, !.from = "v"],
   Compound("UNION ALL", Compound("EXCEPT", Select(e), Compound("INTERSECT", Select(One), Select(e))), Select(Two))}
Changes(e) ==
  {Insert(e), Update(e), Delete(e),
   [Insert(e) EXCEPT !.action = "REPLACE", !.ret = <<e>>],
   [Insert(e) EXCEPT !.conflict = <<[cols |-> <<"c">>, nothing |-> TRUE, set |-> <<>>]>>],
   [Insert(e) EXCEPT !.conflict = <<[cols |-> <<>>, nothing |-> FALSE, set |-> <<Pair("c", e), Pair("d", One)>>]>>]}
Definitions(e) ==
  {Table(e),
   [Table(e) EXCEPT !.cols[1] = [Column(e) EXCEPT !.pk = TRUE, !.unique = TRUE, !.check = <<e>>], !.pk = <<"c">>,
                    !.uniques = <<>>, !.fks = <<>>],
   [Table(e) EXCEPT !.cols[2] = [NewCol("d", "TEXT", 0) EXCEPT !.gen = <<e>>, !.virtual = TRUE, !.ref = "u",
                                 !.refCol = "x", !.onDelete = "NO ACTION"], !.fks = <<Fk(<<>>)>>],
   [k |-> "createView", name |-> "v", q |-> Select(e), temp |-> TRUE],
   Alter("t", "ADD COLUMN", "c", <<Column(e)>>),
   [k |-> "explain", plan |-> TRUE, inner |-> Delete(e)],
   [k |-> "with", recursive |-> TRUE, ctes |-> <<[name |-> "v", cols |-> <<"a">>, q |-> Select(e)],
                                                 [name |-> "w", cols |-> <<>>, q |-> Select(One)]>>, q |-> Select(Two)],
   [k |-> "trigger", name |-> "g", ifNot |-> TRUE, event |-> "UPDATE", of |-> <<"c", "d">>, on |-> "t",
    time |-> "INSTEAD OF", body |-> <<Update(e), Delete(One)>>]}
Fixed ==
  {[k |-> "dropTable", name |-> "t"], [k |-> "dropIndex", name |-> "i"],
   [k |-> "createIndex", name |-> "i", tab |-> "t", cols |-> <<"c", "d">>, unique |-> TRUE],
   Alter("t", "DROP COLUMN", "c", <<>>), Alter("t", "RENAME", "u", <<>>),
   [k |-> "savepoint", name |-> "s"], [k |-> "release", name |-> "s"], [k |-> "rollbackTo", name |-> "s"],
   [k |-> "isolation", level |-> "SERIALIZABLE"], [k |-> "isolation", level |-> "REPEATABLE READ"],
   [k |-> "analyze", tab |-> ""], [k |-> "vacuum", tab |-> "t"],
   [k |-> "pragma", name |-> "p", value |-> <<LitTok(VInt(1))>>]}
\* What Format writes in full.
TextStatements(e) ==
  {[Select(Alias(e, "b")) EXCEPT !.distinct = TRUE, !.alias = "v", !.where = <<e>>, !.trail = Trail(e)],
   Compound("UNION ALL", Select(e), Select(One)), Insert(e), [Update(e) EXCEPT !.ret = <<>>], Delete(e),
   [k |-> "trigger", name |-> "g", ifNot |-> FALSE, event |-> "INSERT", of |-> <<>>, on |-> "t",
    time |-> "BEFORE", body |-> <<Delete(e)>>],
   [k |-> "with", recursive |-> FALSE, ctes |-> <<[name |-> "v", cols |-> <<"a">>, q |-> Select(e)]>>, q |-> Select(e)],
   [k |-> "createTable", name |-> "t", cols |-> <<NewCol("d", "INTEGER", 0), [NewCol("c", "TEXT", 0) EXCEPT !.nullable = FALSE]>>,
    pk |-> <<>>, uniques |-> <<>>, fks |-> <<>>]}
\* A statement prints the expression several times: its parameters would have to be renumbered.
NoParams(e) == Params(Bare(e)) = 0

(***************************************************************************)
(* Inputs of scalar operations                                              *)
(***************************************************************************)
Strings(alphabet, n) == UNION {[1..k -> alphabet] : k \in 0..n}
MCNumbers == MinInt..MaxInt
MCPatterns == Strings({97, 98, Percent, Underscore}, 4)
MCTexts == Strings({97, 98}, 3) \cup {<<97, 98, 97, 98, 98>>, <<97, Percent, 98>>}
\* All of 1999 and 2000, the turns of 1899, 1900, 2099 and 2100, and the first days there are.
MCDays ==
  (10592..11322) \cup {d - 25568 : d \in -400..420} \cup {47481 + d : d \in -400..420} \cup (FirstDay..(FirstDay + 800))
MCSecs == {0, 3661, 86399}
MCAmounts == {-50, -1, 30}
Doc == JObj(("a" :> JVal(VInt(1))) @@ ("b" :> JArr(<<JVal(VInt(2)), JObj("c" :> JVal(NULL))>>)))
Parts == {Part("a", NoNumber), Part("b", NoNumber), Part("c", NoNumber), Part("0", 0), Part("1", 1), Part("2", 2)}
Probes ==
  [json   |-> UNION {[1..k -> Parts] : k \in 1..3},
   number |-> [1..2 -> 48..57] \cup [1..3 -> {48, 50, 51, 52}],
   string |-> Strings({97, 98, 32, Quote}, 2) \X Strings({97, Quote}, 1) \X Strings({98, 32}, 2),
   \* The rows of u, and what is known of the index on a; the rows of t follow.
   query  |-> {<<<<>>, "none">>, <<(1 :> VInt(2)) @@ (2 :> NULL), "known">>, <<(2 :> VInt(1)) @@ (3 :> VInt(3)), "real">>}]

(***************************************************************************)
(* Building                                                                 *)
(***************************************************************************)
InitInput ==
  /\ Init /\ part \in Builders \cup Drawn \cup {"scalar"}
  /\ stack = <<>> /\ used = 0 /\ stmt = <<>> /\ probe = <<>>
\* Room for a node, and for the ones that will join what is on the stack.
Build(new) ==
  /\ part \in Builders /\ stmt = <<>>
  /\ used + Len(new) <= NodeBound[part]
  /\ stack' = new /\ used' = used + 1
  /\ UNCHANGED <<part, stmt, probe, input>>
Push == part \in Builders /\ \E x \in Leaf[part] : Build(Append(stack, x))
ApplyUnary ==
  Len(stack) > 0 /\ \E op \in UnaryOf[part] : Build(Append(Below(1), Un(op, Tops(1)[1])))
ApplyBinary ==
  Len(stack) > 1 /\ \E op \in BinaryOf[part] : Build(Append(Below(2), Bin(op, Tops(2)[1], Tops(2)[2])))
ApplyTernary ==
  /\ part \in {"syntax", "text"} /\ Len(stack) > 2
  /\ \E e \in TernaryOf(Tops(3)[1], Tops(3)[2], Tops(3)[3]) : Build(Append(Below(3), e))
\* A subquery is an operand again.
ApplySubquery ==
  /\ part = "syntax" /\ Len(stack) > 0
  /\ \E e \in {Sub(Select(Tops(1)[1])), Exists(Select(Tops(1)[1])), InSub(ColRef("a"), Select(Tops(1)[1])),
               Cast(Tops(1)[1], TypeInfo("NUMERIC", 6, 6, 2)), Fn("f", Tops(1)), Agg("SUM", Tops(1), TRUE)} :
       Build(Append(Below(1), e))
Wrap1 ==
  /\ part \in {"syntax", "text"} /\ Len(stack) = 1 /\ stmt = <<>>
  /\ used <= WrapBound /\ NoParams(stack[1])
  /\ \E s \in IF part = "syntax" THEN Queries(stack[1]) \cup Changes(stack[1]) \cup Definitions(stack[1]) \cup Fixed
              ELSE TextStatements(stack[1]) : stmt' = <<s>>
  /\ UNCHANGED <<part, stack, used, probe, input>>
Draw ==
  /\ part \in Drawn /\ probe = <<>>
  /\ \E x \in Probes[part] : probe' = <<x>>
  /\ UNCHANGED <<part, stack, used, stmt, input>>
\* Rows of t, for the values an index and a group tell apart.
Fill ==
  /\ part = "query" /\ Len(probe) = 1
  /\ \E rows \in TRows({VInt(1), VInt(2), VInt(3), NULL}, {VInt(1), NULL}, 1..3) : probe' = Append(probe, rows)
  /\ UNCHANGED <<part, stack, used, stmt, input>>
DrawScalar == part = "scalar" /\ Next /\ UNCHANGED grammar
NextInput ==
  Fill \/ Push \/ ApplyUnary \/ ApplyBinary \/ ApplyTernary \/ ApplySubquery \/ Wrap1 \/ Draw \/ DrawScalar
\* Of input, all that Spec of SqlScalars allows, and no more.
Inputs == InitInput /\ [][NextInput]_vars

Complete(p) == part = p /\ Len(stack) = 1
Drew(p) == part = p /\ probe # <<>>
\* The statement that is complete.
Input == IF stmt = <<>> THEN Select(stack[1]) ELSE stmt[1]

(***************************************************************************)
(* Properties, of the state a step of the grammar ends in                   *)
(***************************************************************************)
ReadBack(q) == Parse(Unparse(q)) = q
\* Every kind of statement, and every expression in it, is read back as it was meant: written with
\* the fewest parentheses the operators allow, the parser finds the same tree, the same order of the
\* clauses, and parameters numbered as they occur (ps.go parseBinary, parsePostfix, parseOneSelect).
ParseInverts == [][Complete("syntax")' => ReadBack(Input')]_vars

\* What Format writes without loss: a minus before a minus is a comment, and BETWEEN is written
\* without parentheses.
RECURSIVE Printable(_)
Printables(es) == \A i \in DOMAIN es : Printable(es[i])
Tight(e) == e.k \notin {"between", "un"}
RECURSIVE EndsOpen(_)
EndsOpen(e) == e.k = "between" \/ (e.k = "un" /\ EndsOpen(e.e))
Printable(e) ==
  CASE e.k = "un" -> Printable(e.e) /\ ~ (e.op = "-" /\ e.e.k = "un" /\ e.e.op = "-")
    [] e.k = "bin" -> /\ Printable(e.l) /\ Printable(e.r)
                      /\ EndsOpen(e.l) => Prec(e.op) < 3
                      /\ e.op = "LIKE" => Tight(e.l)
    [] e.k = "between" -> Tight(e.e) /\ Printables(<<e.e, e.lo, e.hi>>)
    [] e.k = "case" -> Printables(e.of) /\ Printables(e.else)
                       /\ \A i \in DOMAIN e.whens : Printable(e.whens[i].cond) /\ Printable(e.whens[i].then)
    [] e.k = "fn" -> Printables(e.args)
    [] OTHER -> TRUE
Reformatted(q) == Parse(Uncommented(Format(q))) = q
Reread(digits) == Lex(digits) = <<IF NumberOf(digits) <= MaxInt THEN LitTok(VInt(NumberOf(digits))) ELSE K("error")>>
Requoted(v) == Lex(EvalQuote(v).s) = <<LitTok(v)>>
\* Text survives a round trip: a statement that is formatted (as a trigger's body is, to be stored)
\* parses to itself, a quoted string lexes to the string, and a number is read exactly or refused
\* (format.go; lx.go scanString, parseIntLiteral).
TextRoundTrips ==
  [][/\ (Complete("text") /\ Printable(stack[1]))' => Reformatted(Input')
     /\ Drew("number")' => Reread(probe'[1])
     /\ Drew("string")' => Requoted(VStr(probe'[1][1]))]_vars

\* A row as a WHERE clause sees it; with NULLs only where no NOT can see what a simplification hides.
RECURSIVE NotFree(_)
NotFree(e) == CASE e.k = "un" -> FALSE [] e.k = "bin" -> NotFree(e.l) /\ NotFree(e.r) [] OTHER -> TRUE
Rows(nulls) ==
  LET bools == {VBool(TRUE), VBool(FALSE)} \cup nulls
  IN {("p" :> p) @@ ("q" :> q) @@ ("n" :> n) : p \in bools, q \in bools, n \in {VInt(0), VInt(1)} \cup nulls}
RewriteKeepsFilter ==
  Complete("logic") =>
    \A row \in Rows(IF NotFree(stack[1]) THEN {NULL} ELSE {}) :
      (PassesFilters(SplitAnd(RewriteExpr(stack[1])), row) = "pass") <=> Truthy(Eval(stack[1], row))

Batch ==
  ("n" :> <<VInt(0), VInt(1), VInt(2)>>) @@ ("m" :> <<VInt(2), VInt(1), VInt(-3)>>)
  @@ ("s" :> <<VStr(<<97>>), VStr(<<98>>), VStr(<<98, 97>>)>>)
VectorAgrees ==
  Complete("batch") =>
    LET cols == [c \in DOMAIN Batch |-> BatchColumn(Batch[c][1].t, Batch[c])]
        row(i) == [c \in DOMAIN Batch |-> Batch[c][i]]
    IN Selected(EvalBatch(stack[1], cols, 3), 3) = {i \in 1..3 : IsTrue(Eval(stack[1], row(i)))}
\* A WHERE clause keeps the same rows however it is evaluated. Rewritten and split into a chain of
\* filters it keeps exactly the rows it is itself true for (rewrite.go; planner.go splits it, Filter.Next
\* applies it); the batch evaluator selects the rows the row evaluator accepts, for comparisons of columns of
\* one type, from either side, under any number of NOTs, also when none or all are selected (eval_vec.go).
FiltersAgree == RewriteKeepsFilter /\ VectorAgrees

TextFunctionsAgree ==
  Drew("string") =>
    LET s == VStr(probe[1][1])
        y == VStr(probe[1][2])
        z == VStr(probe[1][3])
        i == Call("INSTR", <<s, y>>).n
        trimmed == Call("TRIM", <<s, y>>).s
    IN /\ y.s # <<>> => Call("INSTR", <<Call("REPLACE", <<s, y, z>>), y>>) = VInt(0)
       /\ Call("REPLACE", <<s, y, y>>) = s
       /\ i > 0 => Call("CONCAT", <<Call("SUBSTR", <<s, VInt(1), VInt(i - 1)>>), y,
                                    Call("SUBSTR", <<s, VInt(i + Len(y.s))>>)>>) = s
       /\ trimmed # <<>> /\ y.s # <<>> => trimmed[1] # y.s[1] /\ trimmed[Len(trimmed)] # y.s[1]
       /\ Call("UNHEX", <<Call("HEX", <<s>>)>>).s = s.s
       /\ MatchLike(<<Percent>> \o y.s \o <<Percent>>, s.s) <=> (i > 0)

PathsAgree ==
  Drew("json") =>
    LET x == JVal(VStr(<<120>>))
        new == JsonSet(Doc, probe[1], x)
        p == probe[1]
        q == <<Part("b", NoNumber), Part("0", 0)>>
    IN new # JError =>
         /\ JsonExtract(new, p) = x
         /\ ~ IsPrefix(p, q) /\ ~ IsPrefix(q, p) => JsonExtract(new, q) = JVal(VInt(2))
\* Functions agree with one another. Of text, what REPLACE and TRIM leave INSTR no longer finds, SUBSTR
\* cut at INSTR's place makes up the string, and UNHEX undoes HEX (eval.go function calls); a value set
\* at a path of a JSON document is the one found there, with nothing else changed (json.go jsonSetPath, jsonExtract).
FunctionsAgree == TextFunctionsAgree /\ PathsAgree

AllAnswered(db) == \A q \in Battery : AnswersWell(q, db)
\* Every query of the battery, planned and pulled through its operators, answers what its clauses say:
\* by a seek, a range or a scan of the index or the table, through filters, joins, groups, sorts,
\* windows, DISTINCT, OFFSET before LIMIT, set operations and correlated subqueries (planner.go
\* planSelect; operators.go, intermediate.go, join.go, aggregate.go, window.go, compound.go, subq.go).
QueryAnswers ==
  [][(part = "query" /\ Len(probe) = 2)' => AllAnswered(Database(probe'[2], probe'[1][1], probe'[1][2]))]_vars
=============================================================================
