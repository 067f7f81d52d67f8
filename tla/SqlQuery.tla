------------------------------ MODULE SqlQuery ------------------------------
(***************************************************************************)
(* Queries (SQL/EX planner.go, operators.go, intermediate.go, join.go,        *)
(* aggregate.go, window.go, distinct.go, compound.go, values.go, subq.go):    *)
(* the planner turns a SELECT into a tree of operators, and rows are pulled   *)
(* through the tree one at a time. A tree is a record with the state its       *)
(* operators keep between two calls of Next; Close resets what the code        *)
(* resets, and no more, because the planner hands the same tree out again.     *)
(*                                                                          *)
(* Tables are those of the storage engine. A name is a sequence: <<"c">>, or  *)
(* <<"t", "c">> after a join. What may be missing is a sequence of at most    *)
(* one element.                                                             *)
(***************************************************************************)
EXTENDS SqlParse

(***************************************************************************)
(* Rows and the bytes of keys. An integer is one digit of its keys, unsigned. *)
(***************************************************************************)
RowOf(cols, data) == [cols |-> cols, data |-> data, outer |-> <<>>]
Enc(v) ==
  CASE v.t = "int" -> <<Bits(v.n)>>
    [] v.t = "bool" -> <<IF v.b THEN 1 ELSE 0>>
    [] v.t \in {"str", "blob"} -> v.s
\* The column's value: the row's own, then the outer rows'; none leaves the name.
RECURSIVE LookUp(_, _)
LookUp(row, name) ==
  LET own == {i \in DOMAIN row.cols : row.cols[i] = name}
  IN IF own # {} THEN <<row.data[Min(own)]>>
     ELSE IF row.outer = <<>> THEN <<>> ELSE LookUp(row.outer[1], name)
NoRow == RowOf(<<>>, <<>>)

\* db.keys[tab]: a table's rows by the bytes of their primary key; db.index: entries of the index
\* keyspace, from table, index and value bytes to a primary key's bytes.
InOrder(keys) == SetToSortSeq(keys, StrLess)
\* The next key a cursor that reads one ahead has in hand.
Ahead(keys, k) == LET after == {x \in keys : StrLess(k, x)} IN IF after = {} THEN <<>> ELSE <<InOrder(after)[1]>>

(***************************************************************************)
(* What the planner finds in a WHERE clause                                 *)
(***************************************************************************)
IsConst(e) == IsLit(e) /\ e.v.t \in {"int", "str", "bool"}
IsIdent(e) == e.k = "col"
Flip(op) == CASE op = "<" -> ">" [] op = "<=" -> ">=" [] op = ">" -> "<" [] op = ">=" -> "<=" [] OTHER -> op
\* A comparison of a column with a constant, the column on the left.
ColConst(e) ==
  CASE e.k # "bin" -> <<>>
    [] e.k = "bin" /\ IsIdent(e.l) -> IF IsConst(e.r) THEN <<[c |-> e.l.c, op |-> e.op, v |-> Enc(e.r.v)]>> ELSE <<>>
    [] OTHER -> IF IsIdent(e.r) /\ IsConst(e.l) THEN <<[c |-> e.r.c, op |-> Flip(e.op), v |-> Enc(e.l.v)]>> ELSE <<>>
NoBound == [v |-> <<>>, incl |-> FALSE]
Bound(v, incl) == [v |-> <<v>>, incl |-> incl]
\* indexedColumnRange: the column and its bounds.
RangeOf(e) ==
  IF e.k = "between"
  THEN IF IsIdent(e.e) /\ IsConst(e.lo) /\ IsConst(e.hi)
       THEN <<[c |-> e.e.c, lo |-> Bound(Enc(e.lo.v), TRUE), hi |-> Bound(Enc(e.hi.v), TRUE)]>> ELSE <<>>
  ELSE IF ColConst(e) = <<>> THEN <<>>
  ELSE LET x == ColConst(e)[1]
       IN CASE x.op \in {">", ">="} -> <<[c |-> x.c, lo |-> Bound(x.v, x.op = ">="), hi |-> NoBound]>>
            [] x.op \in {"<", "<="} -> <<[c |-> x.c, lo |-> NoBound, hi |-> Bound(x.v, x.op = "<=")]>>
            [] OTHER -> <<>>
\* indexedColumn: any column of the leftmost comparison.
RECURSIVE AnyColumn(_)
AnyColumn(e) ==
  CASE e.k # "bin" -> <<>>
    [] e.k = "bin" /\ IsIdent(e.l) -> <<e.l.c>>
    [] e.k = "bin" /\ IsIdent(e.r) -> <<e.r.c>>
    [] OTHER -> AnyColumn(e.l)

\* selectIndex: an index the planner knows that has the column, whichever the map gives first (here:
\* the first that was registered). hasWriterIndex: CREATE INDEX has been run for it, too.
SelectIndex(db, tab, c) ==
  IF tab \notin DOMAIN db.catalog THEN <<>>
  ELSE LET idx == SelectSeq(db.catalog[tab].indexes, LAMBDA i : \E j \in DOMAIN i.cols : i.cols[j] = c)
       IN IF idx = <<>> THEN <<>> ELSE <<Head(idx).name>>
Maintained(db, tab, name) == \E i \in DOMAIN db.indexes[tab] : db.indexes[tab][i].name = name

(***************************************************************************)
(* Operators                                                                *)
(***************************************************************************)
SeqScan(tab) == [k |-> "scan", tab |-> tab, open |-> FALSE, ahead |-> <<>>]
\* A seek of one value is the scan of its prefix; a range walks the whole index.
IndexScan(tab, name, mode, lo, hi) ==
  [k |-> "index", tab |-> tab, name |-> name, mode |-> mode, lo |-> lo, hi |-> hi, open |-> FALSE, ahead |-> <<>>]
Filter(child, pred) == [k |-> "filter", child |-> child, pred |-> pred]
Project(child, cols) == [k |-> "project", child |-> child, cols |-> cols]
Sort(child, keys) == [k |-> "sort", child |-> child, keys |-> keys, buf |-> <<>>, loaded |-> FALSE, pos |-> 0]
LimitOp(child, n) == [k |-> "limit", child |-> child, n |-> n, seen |-> 0]
OffsetOp(child, n) == [k |-> "offset", child |-> child, n |-> n, seen |-> 0]
Distinct(child) == [k |-> "distinct", child |-> child, buf |-> <<>>, loaded |-> FALSE, pos |-> 0]
Aggregate(child, by, aggs) ==
  [k |-> "aggregate", child |-> child, by |-> by, aggs |-> aggs, buf |-> <<>>, loaded |-> FALSE, pos |-> 0]
NestedLoop(left, right, lt, rt, on, kind) ==
  [k |-> "join", left |-> left, right |-> right, lt |-> lt, rt |-> rt, on |-> on, kind |-> kind,
   cur |-> <<>>, rewind |-> FALSE, matched |-> FALSE]
Values(cols) == [k |-> "values", cols |-> cols, done |-> FALSE]
WindowOp(child, f) == [k |-> "window", child |-> child, f |-> f, rows |-> <<>>, results |-> <<>>, pos |-> 0]
CompoundOp(left, right, op, trail) ==
  [k |-> "set", left |-> left, right |-> right, op |-> op, trail |-> trail, done |-> FALSE, buf |-> <<>>, pos |-> 0]
Injector(child, outer) == [k |-> "inject", child |-> child, outer |-> outer]

(***************************************************************************)
(* Planning                                                                 *)
(***************************************************************************)
RECURSIVE HasKind(_, _)
\* containsAggregate, containsWindowFunc
HasKind(e, kind) ==
  CASE e.k = kind -> TRUE
    [] e.k = "bin" -> HasKind(e.l, kind) \/ HasKind(e.r, kind)
    [] e.k \in {"un", "alias", "cast"} -> HasKind(e.e, kind)
    [] OTHER -> FALSE
Has(es, kind) == \E i \in DOMAIN es : HasKind(es[i], kind)
IsStar(cols) == Len(cols) = 1 /\ cols[1].k = "star"

\* Costs, in hundredths, without statistics: every predicate halves.
RECURSIVE Cost(_)
Cost(op) ==
  CASE op.k = "scan" -> 100
    [] op.k = "index" -> IF op.mode = "prefix" THEN 10 ELSE 5
    [] op.k = "filter" -> Cost(op.child) \div 2
    [] OTHER -> 100

\* Seek, range, or the scan of the whole table that an index only names.
ScanFor(db, tab, where) ==
  IF where = <<>> THEN SeqScan(tab)
  ELSE
    LET e == where[1]
        eq == IF e.k = "bin" /\ e.op = "=" THEN ColConst(e) ELSE <<>>
        rg == RangeOf(e)
        known(c) == SelectIndex(db, tab, c)
        real(c) == known(c) # <<>> /\ Maintained(db, tab, known(c)[1])
        prefix(c) == IndexScan(tab, known(c)[1], "prefix", NoBound, NoBound)
        first ==
          CASE eq # <<>> /\ real(eq[1].c) ->
                 Filter(IndexScan(tab, known(eq[1].c)[1], "seek", Bound(eq[1].v, TRUE), NoBound), e)
            [] rg # <<>> /\ real(rg[1].c) /\ rg[1].lo.v \notin {<<>>, <<<<>>>>} ->
                 IndexScan(tab, known(rg[1].c)[1], "range", rg[1].lo, rg[1].hi)
            [] AnyColumn(e) # <<>> /\ known(AnyColumn(e)[1]) # <<>> -> prefix(AnyColumn(e)[1])
            [] OTHER -> SeqScan(tab)
        \* pickCheaperScan
        cheaper(op, c) ==
          IF c # <<>> /\ real(c[1]) /\ Cost(Filter(prefix(c[1]), e)) < Cost(Filter(op, e)) THEN prefix(c[1]) ELSE op
    IN cheaper(first, IF AnyColumn(e) # <<>> THEN AnyColumn(e) ELSE IF rg # <<>> THEN <<rg[1].c>> ELSE <<>>)

\* The primary key, ascending, is the order of the scan.
PkOrder(db, tab, order) ==
  /\ Len(order) = 1 /\ ~ order[1].desc /\ IsIdent(order[1].e)
  /\ IF tab \in DOMAIN db.catalog THEN db.catalog[tab].pk = order[1].e.c
     ELSE tab \in DOMAIN db.schema /\ db.schema[tab].pk = order[1].e.c
\* limitInt64: a count that is no literal, or negative, has no plan.
Count(e) == IF IsLit(e) /\ e.v.t = "int" /\ e.v.n >= 0 THEN <<e.v.n>> ELSE <<>>

JoinKinds == {"INNER", "LEFT", "RIGHT", "FULL", "CROSS"}
RECURSIVE PlanJoins(_, _, _)
PlanJoins(op, lt, joins) ==
  CASE joins = <<>> -> op
    [] joins # <<>> /\ Head(joins).kind \in JoinKinds ->
         LET j == Head(joins)
         IN PlanJoins(NestedLoop(op, SeqScan(j.right), lt, j.right, j.on, j.kind), j.right, Tail(joins))
    [] OTHER -> PlanJoins(op, lt, Tail(joins))
Layer(cond, On(_), op) == IF cond THEN On(op) ELSE op
Filters(op, preds) == FoldLeft(Filter, op, preds)
Windows(op, cols) == FoldLeft(LAMBDA acc, c : IF c.k = "window" THEN WindowOp(acc, c) ELSE acc, op, cols)

PlanFrom(q, db) ==
  Filters(PlanJoins(ScanFor(db, q.from, q.where), q.from, q.joins), IF q.where = <<>> THEN <<>> ELSE SplitAnd(q.where[1]))
\* The clauses after WHERE in the order they are applied; the group is what GROUP BY says, or else the
\* columns that are no aggregate. <<>> when there is no plan.
PlanRest(q, kept, db) ==
  LET hasAgg == Has(q.cols, "agg")
      aggs == IF hasAgg THEN SelectSeq(q.cols, LAMBDA c : HasKind(c, "agg")) ELSE <<>>
      by == IF q.group # <<>> \/ ~ hasAgg THEN q.group
            ELSE SelectSeq(q.cols, LAMBDA c : ~ HasKind(c, "agg") /\ c.k # "star")
      grouped == Layer(hasAgg \/ q.group # <<>>, LAMBDA op : Aggregate(op, by, aggs), kept)
      having == Filters(grouped, q.having)
      order == q.trail.order
      sorted == Layer(order # <<>> /\ ~ PkOrder(db, q.from, order), LAMBDA op : Sort(op, order), having)
      windows == Windows(sorted, q.cols)
      isWin == Has(q.cols, "window")
      shown == Layer(q.cols # <<>> /\ ~ IsStar(q.cols) /\ ~ hasAgg /\ ~ isWin,
                     LAMBDA op : Project(op, q.cols), windows)
      once == Layer(q.distinct /\ ~ hasAgg, Distinct, shown)
      skip == IF q.trail.offset = <<>> THEN <<>> ELSE Count(q.trail.offset[1])
      skipped == Layer(skip # <<>> /\ skip[1] > 0, LAMBDA op : OffsetOp(op, skip[1]), once)
      limit == IF q.trail.limit = <<>> THEN <<>> ELSE Count(q.trail.limit[1])
  IN IF q.trail.limit # <<>> /\ limit = <<>> THEN <<>>
     ELSE <<Layer(limit # <<>>, LAMBDA op : LimitOp(op, limit[1]), skipped)>>
RECURSIVE PlanSelect(_, _)
PlanSelect(q, db) ==
  IF q.from \in DOMAIN db.views THEN PlanSelect(db.views[q.from], db)
  ELSE IF q.from = "" THEN <<Values(q.cols)>>
  ELSE PlanRest(q, PlanFrom(q, db), db)
RECURSIVE PlanQuery(_, _)
PlanQuery(q, db) ==
  IF q.k = "select" THEN PlanSelect(q, db)
  ELSE <<CompoundOp(PlanQuery(q.l, db)[1], PlanQuery(q.r, db)[1], q.op, q.trail)>>
\* RE.Rewrite leaves ON, GROUP BY and HAVING alone.
RewriteTrail(t) ==
  LET n == Len(t.order)
      all == RewriteAll([i \in 1..n |-> t.order[i].e] \o t.limit \o t.offset)
      m == n + Len(t.limit)
  IN [order |-> [i \in 1..n |-> Order(all[i], t.order[i].desc)],
      limit |-> SubSeq(all, n + 1, m), offset |-> SubSeq(all, m + 1, Len(all))]
RECURSIVE Rewrite(_)
Rewrite(q) ==
  LET parts(r) == IF q.k = "select" THEN [r EXCEPT !.cols = RewriteAll(@), !.where = RewriteAll(@)]
                  ELSE [r EXCEPT !.l = Rewrite(@), !.r = Rewrite(@)]
  IN parts([q EXCEPT !.trail = RewriteTrail(@)])
Plan(q, db) == PlanQuery(Rewrite(q), db)

(***************************************************************************)
(* Expressions over a row: columns, parameters, aggregates and subqueries are *)
(* replaced by their values, and the rest is evaluated. A parameter that was  *)
(* not given is NULL; an aggregate that the row does not have is its zero.    *)
(***************************************************************************)
AggName(e) ==
  CASE e.k # "agg" -> <<>>
    [] e.arg[1].k = "star" -> <<e.name, "(*)">>
    [] IsIdent(e.arg[1]) -> <<e.name, "(", e.arg[1].c>>
    [] OTHER -> <<e.name>>
AggZero(name) == CASE name \in {"COUNT", "SUM"} -> VInt(0) [] name = "AVG" -> VFlt(0, 1) [] OTHER -> NULL
\* The operators pull rows from one another and evaluate expressions, and an expression runs the
\* operators of its subqueries: the executor is one recursion, over what it is asked for.
RECURSIVE Do(_, _, _, _)
NextOf(op, args, db) == Do("next", op, args, db)
Value(e, row, args, db) == Do("value", <<e, row>>, args, db)
\* Rows until the end, or until an error, and the tree that is left.
Drain(op, args, db) == Do("drain", op, args, db)
SubRows(q, outer, args, db) == Do("subquery", <<q, outer>>, args, db)
RECURSIVE CloseOf(_)
DrainAll(op, args, db) ==
  LET n == NextOf(op, args, db)
  IN IF n.row = <<>> THEN [op |-> n.op, rows |-> <<>>, err |-> n.err]
     ELSE LET rest == Drain(n.op, args, db) IN [rest EXCEPT !.rows = n.row \o @]

\* injectOuter: the outer row reaches the scan through these operators only.
RECURSIVE Inject(_, _)
Inject(op, outer) ==
  CASE op.k = "scan" -> Injector(op, outer)
    [] op.k = "inject" -> [op EXCEPT !.outer = outer]
    [] op.k \in {"filter", "project", "sort", "limit", "distinct", "aggregate"} -> [op EXCEPT !.child = Inject(op.child, outer)]
    [] OTHER -> op
\* The plan of a subquery is closed after every use, so each use finds it as if new (subqueries with a FROM).
RunSubquery(q, outer, args, db) == Drain(Inject(PlanQuery(Rewrite(q), db)[1], outer), args, db)
InSubquery(v, sub) ==
  LET firsts == [i \in DOMAIN sub.rows |-> sub.rows[i].data[1]]
  IN IF sub.err THEN ERR
     ELSE IF \E i \in DOMAIN firsts : firsts[i] # NULL /\ EqualValue(v, firsts[i]) THEN VBool(TRUE)
     ELSE IF \E i \in DOMAIN firsts : firsts[i] = NULL THEN NULL ELSE VBool(FALSE)
RECURSIVE Bind(_, _, _, _)
Bind(e, row, args, db) ==
  LET b(x) == Bind(x, row, args, db)
      all(es) == [i \in DOMAIN es |-> b(es[i])]
      named(name, other) == LET v == LookUp(row, name) IN Lit(IF v = <<>> THEN other ELSE v[1])
      sub == SubRows(e.q, row, args, db)
  IN CASE e.k = "col" -> named(<<e.c>>, VStr(<<e.c>>))
       [] e.k = "qual" -> named(<<e.tab, e.c>>, VStr(<<e.c>>))
       [] e.k = "param" -> Lit(IF e.n < Len(args) THEN args[e.n + 1] ELSE NULL)
       [] e.k = "agg" -> named(IF Len(AggName(e)) > 1 THEN AggName(e) ELSE <<"(">>, AggZero(e.name))
       [] e.k = "alias" -> b(e.e)
       [] e.k = "un" -> Un(e.op, b(e.e))
       [] e.k = "bin" -> Bin(e.op, b(e.l), b(e.r))
       [] e.k = "between" -> Between(b(e.e), b(e.lo), b(e.hi))
       [] e.k = "in" -> InList(b(e.e), all(e.items))
       [] e.k = "fn" -> Fn(e.name, all(e.args))
       [] e.k = "exists" -> Lit(IF sub.err THEN ERR ELSE VBool(sub.rows # <<>>))
       [] e.k = "sub" -> Lit(IF sub.err THEN ERR ELSE IF sub.rows = <<>> THEN NULL ELSE sub.rows[1].data[1])
       [] e.k = "insub" -> LET v == Value(e.e, row, args, db)
                           IN Lit(IF v \in {ERR, NULL} THEN v ELSE InSubquery(v, sub))
       [] OTHER -> e
EvalRow(e, row, args, db) == Eval(Bind(e, row, args, db), [c \in {} |-> NULL])

(***************************************************************************)
(* What the operators compute from all their rows                           *)
(***************************************************************************)
\* sort.SliceStable
StableSort(s, Less(_, _)) ==
  LET insert(acc, x) == LET n == Cardinality({i \in DOMAIN acc : ~ Less(x, acc[i])}) IN InsertAt(acc, n + 1, x)
  IN FoldLeft(insert, <<>>, s)
\* The first key that differs decides; an error counts as NULL.
RECURSIVE KeyOrder(_, _, _)
KeyOrder(x, y, descs) ==
  IF x = <<>> THEN 0
  ELSE LET c == Compare(Head(x), Head(y))
       IN IF c # 0 THEN (IF Head(descs) THEN -c ELSE c) ELSE KeyOrder(Tail(x), Tail(y), Tail(descs))
SortKeys(order, row, args, db) ==
  [i \in DOMAIN order |-> LET v == Value(order[i].e, row, args, db) IN IF v = ERR THEN NULL ELSE v]
Descs(order) == [i \in DOMAIN order |-> order[i].desc]
SortRows(rows, order, args, db) ==
  LET less(x, y) == KeyOrder(SortKeys(order, x, args, db), SortKeys(order, y, args, db), Descs(order)) < 0
  IN StableSort(rows, less)

\* distinctKey: floats by three decimals; FALSE and floats begin alike.
KeyCell(v) ==
  CASE v.t = "bool" -> IF v.b THEN <<"T">> ELSE <<"F">>
    [] v.t = "float" -> <<"F", TruncDiv(v.num, v.den), TruncMod(TruncDiv(1000 * v.num, v.den), 1000)>>
    [] OTHER -> <<v>>
DistinctKey(row) == [i \in DOMAIN row.data |-> KeyCell(row.data[i])]
Keys(rows) == {DistinctKey(rows[i]) : i \in DOMAIN rows}
Dedup(rows) == FoldLeft(LAMBDA acc, r : IF DistinctKey(r) \in Keys(acc) THEN acc ELSE Append(acc, r), <<>>, rows)
SetOp(op, l, r) ==
  CASE op = "UNION ALL" -> l \o r
    [] op = "UNION" -> Dedup(l \o r)
    [] op = "INTERSECT" -> Dedup(SelectSeq(l, LAMBDA x : DistinctKey(x) \in Keys(r)))
    [] op = "EXCEPT" -> Dedup(SelectSeq(l, LAMBDA x : DistinctKey(x) \notin Keys(r)))

\* Values that are not NULL, once each if DISTINCT.
Once(vs) == FoldLeft(LAMBDA acc, v : IF \E i \in DOMAIN acc : acc[i] = v THEN acc ELSE Append(acc, v), <<>>, vs)
SumOf(vs) == FoldLeft(LAMBDA acc, v : VFlt(Num(acc) * Den(v) + Num(v) * Den(acc), Den(acc) * Den(v)), VFlt(0, 1), vs)
Best(vs, sign) ==
  FoldLeft(LAMBDA acc, v : IF acc = NULL THEN v ELSE IF sign * Compare(v, acc) > 0 THEN v ELSE acc, NULL, vs)
AggregateOf(e, vs, n) ==
  LET some == SelectSeq(vs, LAMBDA v : v # NULL)
      given == IF e.distinct THEN Once(some) ELSE some
      nums == SelectSeq(given, IsNum)
      ints == SelectSeq(nums, LAMBDA v : v.t = "int")
  IN CASE e.name = "COUNT" -> VInt(IF e.distinct THEN Len(given) ELSE n)
       [] e.name = "SUM" -> IF nums = <<>> THEN NULL
                            ELSE IF Len(ints) = Len(nums) THEN VInt(FoldLeft(LAMBDA acc, v : Wrap(acc + v.n), 0, ints))
                            ELSE SumOf(nums)
       [] e.name = "AVG" -> IF nums = <<>> THEN NULL ELSE DivMod("/", SumOf(nums), VFlt(Len(nums), 1))
       [] e.name = "MIN" -> Best(given, -1)
       [] e.name = "MAX" -> Best(given, 1)
       [] e.name = "GROUP_CONCAT" ->
            IF given = <<>> THEN NULL
            ELSE VStr(FoldLeft(LAMBDA acc, v : acc \o <<44>> \o Show(v), Show(given[1]), Tail(given)))
       [] OTHER -> NULL
\* One value of an aggregate over a group; a column that is more than an aggregate has none. COUNT
\* looks at its argument for DISTINCT only.
AggValue(e, rows, args, db) ==
  LET vs == IF e.k # "agg" THEN <<>>
            ELSE IF e.name = "COUNT" /\ ~ e.distinct THEN <<>>
            ELSE [i \in DOMAIN rows |-> Value(e.arg[1], rows[i], args, db)]
  IN IF e.k # "agg" THEN NULL ELSE IF Failed(vs) THEN ERR ELSE AggregateOf(e, vs, Len(rows))
SameKey(x, y) == \A i \in DOMAIN x : EqualValue(x[i], y[i])
GroupName(e) ==
  CASE IsIdent(e) -> <<e.c>>
    [] e.k = "alias" -> IF IsIdent(e.e) THEN <<e.e.c>> ELSE <<e.a>>
    [] OTHER -> <<"">>
Groups(op, rows, args, db) ==
  LET key(r) == [i \in DOMAIN op.by |-> Value(op.by[i], r, args, db)]
      add(acc, r) ==
        LET same == {i \in DOMAIN acc : SameKey(acc[i].key, key(r))}
        IN IF same = {} THEN Append(acc, [key |-> key(r), rows |-> <<r>>])
           ELSE [acc EXCEPT ![Min(same)].rows = Append(@, r)]
      groups == FoldLeft(add, <<>>, rows)
      less(x, y) == KeyOrder(x.key, y.key, [i \in DOMAIN op.by |-> FALSE]) < 0
  IN IF groups = <<>> /\ op.by = <<>> THEN <<[key |-> <<>>, rows |-> <<>>]>> ELSE StableSort(groups, less)
GroupRows(op, rows, args, db) ==
  LET out(g) == RowOf([i \in DOMAIN op.by |-> GroupName(op.by[i])] \o [i \in DOMAIN op.aggs |-> AggName(op.aggs[i])],
                      g.key \o [i \in DOMAIN op.aggs |-> AggValue(op.aggs[i], g.rows, args, db)])
      gs == Groups(op, rows, args, db)
  IN [i \in DOMAIN gs |-> out(gs[i])]

\* Windows: partitions by the text of the keys; LAG and LEAD with an offset and a default.
Places(rows, over, db) ==
  LET text(i) == [j \in DOMAIN over.part |-> Show(Value(over.part[j], rows[i], <<>>, db))]
      less(i, j) == KeyOrder(SortKeys(over.order, rows[i], <<>>, db), SortKeys(over.order, rows[j], <<>>, db),
                             Descs(over.order)) < 0
      part(i) == StableSort(SelectSeq([j \in DOMAIN rows |-> j], LAMBDA j : text(j) = text(i)), less)
      at(i) == CHOOSE p \in DOMAIN part(i) : part(i)[p] = i
      tie(i, j) == ~ less(i, j) /\ ~ less(j, i)
  IN [i \in DOMAIN rows |->
        [part |-> part(i), at |-> at(i),
         rank |-> 1 + Cardinality({p \in DOMAIN part(i) : less(part(i)[p], i)}),
         dense |-> 1 + Cardinality({p \in 2..at(i) : ~ tie(part(i)[p - 1], part(i)[p])})]]
WindowValue(f, p, rows, db) ==
  LET const(n, other) ==
        LET v == IF Len(f.args) < n THEN ERR ELSE Value(f.args[n], NoRow, <<>>, db) IN IF v = ERR THEN other ELSE v
      step == LET v == ToInt(const(2, VInt(1))) IN IF v = ERR THEN 1 ELSE v.n
      from(i) == IF i \notin DOMAIN p.part \/ f.args = <<>> THEN const(3, NULL)
                 ELSE LET v == Value(f.args[1], rows[p.part[i]], <<>>, db) IN IF v = ERR THEN NULL ELSE v
  IN CASE f.name = "ROW_NUMBER" -> VInt(p.at)
       [] f.name = "RANK" -> VInt(p.rank)
       [] f.name = "DENSE_RANK" -> VInt(p.dense)
       [] f.name = "LAG" -> from(p.at - step)
       [] f.name = "LEAD" -> from(p.at + step)
       [] OTHER -> NULL

(***************************************************************************)
(* Next and Close. An answer is the tree afterwards and a row, or none at the *)
(* end, or none and an error.                                               *)
(***************************************************************************)
Yield(op, row) == [op |-> op, row |-> <<row>>, err |-> FALSE]
End(op) == [op |-> op, row |-> <<>>, err |-> FALSE]
Fail(op) == [op |-> op, row |-> <<>>, err |-> TRUE]
Stop(op, n) == [n EXCEPT !.op = op]         \* what the child answered, without a row

\* The store's cursor over the rows of a table, one key ahead of what it has given out.
NextScan(op, db) ==
  LET keys == DOMAIN db.keys[op.tab]
      now == IF op.open THEN op.ahead ELSE IF keys = {} THEN <<>> ELSE <<[key |-> InOrder(keys)[1], data |-> <<>>]>>
      item == IF now = <<>> \/ op.open THEN now ELSE <<[now[1] EXCEPT !.data = db.keys[op.tab][now[1].key]]>>
      next == IF item = <<>> THEN <<>> ELSE Ahead(keys, item[1].key)
      left == [op EXCEPT !.open = TRUE,
                         !.ahead = IF next = <<>> THEN <<>> ELSE <<[key |-> next[1], data |-> db.keys[op.tab][next[1]]]>>]
  IN IF item = <<>> THEN End(left) ELSE Yield(left, RowOf(db.schema[op.tab].cols, item[1].data))
\* A lower bound that leaves out the bound itself, whatever the comparison was.
BelowRangeTight(op, v) == op.lo.v # <<>> /\ (StrLess(v, op.lo.v[1]) \/ v = op.lo.v[1])
\* The same over the entries of an index; a row is then looked up by its key, and an entry whose row
\* is gone is skipped. A range ends at the first entry beyond it.
BelowRange(op, v) == op.lo.v # <<>> /\ (StrLess(v, op.lo.v[1]) \/ (v = op.lo.v[1] /\ ~ op.lo.incl))
BeyondRange(op, v) == op.hi.v # <<>> /\ (StrLess(op.hi.v[1], v) \/ (v = op.hi.v[1] /\ ~ op.hi.incl))
RECURSIVE NextIndex(_, _)
NextIndex(op, db) ==
  LET entries == db.index[op.tab][op.name]
      keys == {v \in DOMAIN entries : op.mode = "seek" => IsPrefix(op.lo.v[1], v)}
      first == IF op.open THEN op.ahead ELSE IF keys = {} THEN <<>> ELSE <<InOrder(keys)[1]>>
      left == [op EXCEPT !.open = TRUE, !.ahead = IF first = <<>> THEN <<>> ELSE Ahead(keys, first[1])]
  IN IF first = <<>> THEN End(left)
     ELSE IF first[1] \notin keys \/ (op.mode = "range" /\ BelowRange(op, first[1])) THEN NextIndex(left, db)
     ELSE IF op.mode = "range" /\ BeyondRange(op, first[1]) THEN End(left)
     ELSE IF entries[first[1]] \notin DOMAIN db.keys[op.tab] THEN NextIndex(left, db)
     ELSE Yield(left, RowOf(db.schema[op.tab].cols, db.keys[op.tab][entries[first[1]]]))

RECURSIVE NextMatch(_, _, _)
NextMatch(op, args, db) ==
  LET n == NextOf(op.child, args, db)
      left == [op EXCEPT !.child = n.op]
      v == Value(op.pred, n.row[1], args, db)
  IN IF n.row = <<>> THEN Stop(left, n)
     ELSE IF v = ERR THEN Fail(left) ELSE IF Truthy(v) THEN Yield(left, n.row[1]) ELSE NextMatch(left, args, db)
ColName(e) ==
  CASE IsIdent(e) -> <<e.c>>
    [] e.k = "alias" -> <<e.a>>
    [] e.k = "un" -> IF IsIdent(e.e) THEN <<e.e.c>> ELSE <<"">>
    [] OTHER -> <<"">>
NextProject(op, args, db) ==
  LET n == NextOf(op.child, args, db)
      left == [op EXCEPT !.child = n.op]
      data == [i \in DOMAIN op.cols |-> Value(op.cols[i], n.row[1], args, db)]
  IN IF n.row = <<>> THEN Stop(left, n)
     ELSE IF Failed(data) THEN Fail(left) ELSE Yield(left, RowOf([i \in DOMAIN op.cols |-> ColName(op.cols[i])], data))
\* Operators that take all rows first, and then give out what they made of them.
Whole(op, rows, args, db) ==
  CASE op.k = "sort" -> SortRows(rows, op.keys, args, db)
    [] op.k = "distinct" -> Dedup(rows)
    [] op.k = "aggregate" -> GroupRows(op, rows, args, db)
\* DISTINCT and groups without a row are tried again.
Again(op, buf) == op.k = "sort" \/ buf # <<>> \/ (op.k = "aggregate" /\ op.by # <<>>)
NextBuffered(op, args, db) ==
  LET all == IF op.loaded THEN [op |-> op.child, rows |-> <<>>, err |-> FALSE] ELSE Drain(op.child, args, db)
      failed(buf) == op.k = "aggregate" /\ \E i \in DOMAIN buf : Failed(buf[i].data)
      left(buf) == [op EXCEPT !.child = all.op, !.buf = buf, !.loaded = Again(op, buf), !.pos = Min({op.pos + 1, Len(buf)})]
      give(buf) == IF all.err \/ failed(buf) THEN Fail([op EXCEPT !.child = all.op])
                   ELSE IF op.pos < Len(buf) THEN Yield(left(buf), buf[op.pos + 1]) ELSE End(left(buf))
  IN give(IF op.loaded THEN op.buf ELSE Whole(op, all.rows, args, db))
NextLimit(op, args, db) ==
  LET n == NextOf(op.child, args, db)
  IN IF op.seen >= op.n THEN End(op)
     ELSE IF n.row = <<>> THEN Stop([op EXCEPT !.child = n.op], n)
     ELSE Yield([op EXCEPT !.child = n.op, !.seen = @ + 1], n.row[1])
RECURSIVE NextOffset(_, _, _)
NextOffset(op, args, db) ==
  LET n == NextOf(op.child, args, db)
      left == [op EXCEPT !.child = n.op]
  IN IF op.seen >= op.n \/ n.row = <<>> THEN [n EXCEPT !.op = left]
     ELSE NextOffset([left EXCEPT !.seen = @ + 1], args, db)

\* For every left row the right side is closed and read again. ON sees the right row, and the left one
\* behind it. A left row without a match ends with no columns of the right: the code takes them from
\* the rows in memory, and a table of the store has none there.
Prefixed(row, tab) == [row EXCEPT !.cols = [i \in DOMAIN row.cols |-> <<tab>> \o row.cols[i]]]
JoinedRow(x, y) == RowOf(x.cols \o y.cols, x.data \o y.data)
RECURSIVE NextJoin(_, _, _)
NextJoin(op, args, db) ==
  IF op.cur = <<>>
  THEN LET n == NextOf(op.left, args, db)
           left == [op EXCEPT !.left = n.op]
       IN IF n.row = <<>> THEN Stop(left, n)
          ELSE NextJoin([left EXCEPT !.cur = <<RowOf(Prefixed(n.row[1], op.lt).cols, n.row[1].data)>>,
                                     !.rewind = TRUE, !.matched = FALSE], args, db)
  ELSE LET n == NextOf(IF op.rewind THEN CloseOf(op.right) ELSE op.right, args, db)
           left == [op EXCEPT !.right = n.op, !.rewind = FALSE]
           done == [left EXCEPT !.cur = <<>>, !.rewind = TRUE]
           inner == [Prefixed(n.row[1], op.rt) EXCEPT !.outer = op.cur]
           on == IF op.on = <<>> THEN VBool(TRUE) ELSE Value(op.on[1], inner, <<>>, db)
       IN CASE n.row = <<>> /\ n.err -> Fail(left)
            [] n.row = <<>> /\ ~ n.err ->
                 IF op.kind \in {"LEFT", "FULL"} /\ ~ op.matched THEN Yield(done, op.cur[1])
                 ELSE NextJoin(done, args, db)
            [] OTHER ->
                 IF on = ERR THEN Fail(left)
                 ELSE IF Truthy(on) THEN Yield([left EXCEPT !.matched = TRUE], JoinedRow(op.cur[1], inner))
                 ELSE NextJoin(left, args, db)
\* SELECT without FROM gives its one row once.
NextValues(op, db) ==
  LET data == [i \in DOMAIN op.cols |-> Value(op.cols[i], NoRow, <<>>, db)]
      left == [op EXCEPT !.done = TRUE]
  IN IF op.done THEN End(op)
     ELSE IF Failed(data) THEN Fail(left) ELSE Yield(left, RowOf([i \in DOMAIN op.cols |-> <<"expr">>], data))
\* The first column of a row and the function's value.
NextWindow(op, args, db) ==
  LET all == IF op.rows # <<>> THEN [op |-> op.child, rows |-> op.rows, err |-> FALSE] ELSE Drain(op.child, args, db)
      results(places) == IF op.rows # <<>> THEN op.results
                         ELSE [i \in DOMAIN all.rows |-> WindowValue(op.f, places[i], all.rows, db)]
      i == op.pos + 1
      give(left) ==
        IF all.err THEN Fail(left)
        ELSE IF i > Len(left.rows) THEN End(left)
        ELSE Yield([left EXCEPT !.pos = i], RowOf(<<<<"*">>, <<op.f.name>>>>, <<left.rows[i].data[1], left.results[i]>>))
  IN give([op EXCEPT !.child = all.op, !.rows = all.rows, !.results = results(Places(all.rows, op.f.over, db))])
\* Both sides are read to their ends; the names are those of the first row.
Cut(rows, trail, args, db) ==
  LET num(es) == LET v == IF es = <<>> THEN ERR ELSE ToInt(Value(es[1], NoRow, args, db)) IN v
      off == IF num(trail.offset) = ERR THEN 0 ELSE num(trail.offset).n
      rest == IF off >= Len(rows) THEN <<>> ELSE SubSeq(rows, 1 + (IF off > 0 THEN off ELSE 0), Len(rows))
      lim == num(trail.limit)
  IN IF lim # ERR /\ lim.n < Len(rest) THEN SubSeq(rest, 1, lim.n) ELSE rest
NextSet(op, args, db) ==
  LET l == Drain(op.left, args, db)
      r == Drain(op.right, args, db)
      cols == IF l.rows # <<>> THEN l.rows[1].cols ELSE r.rows[1].cols
      both == SetOp(op.op, l.rows, r.rows)
      named == [i \in DOMAIN both |-> RowOf(cols, both[i].data)]
      left == IF op.done THEN op
              ELSE [op EXCEPT !.left = l.op, !.right = r.op, !.done = TRUE,
                              !.buf = Cut(SortRows(named, op.trail.order, args, db), op.trail, args, db)]
      give(new) == IF op.pos < Len(new.buf) THEN Yield([new EXCEPT !.pos = @ + 1], new.buf[op.pos + 1]) ELSE End(new)
      odd == l.rows # <<>> /\ r.rows # <<>> /\ Len(l.rows[1].data) # Len(r.rows[1].data)
  IN IF ~ op.done /\ (l.err \/ r.err \/ odd) THEN Fail([op EXCEPT !.left = l.op, !.right = r.op])
     ELSE give(left)
OperatorNext(op, args, db) ==
  CASE op.k = "scan" -> NextScan(op, db)
    [] op.k = "index" -> IF op.mode = "prefix" THEN NextScan(op, db) ELSE NextIndex(op, db)
    [] op.k = "inject" -> LET n == NextOf(op.child, args, db)
                              left == [op EXCEPT !.child = n.op]
                          IN IF n.row = <<>> THEN Stop(left, n) ELSE Yield(left, [n.row[1] EXCEPT !.outer = <<op.outer>>])
    [] op.k = "filter" -> NextMatch(op, args, db)
    [] op.k = "project" -> NextProject(op, args, db)
    [] op.k \in {"sort", "distinct", "aggregate"} -> NextBuffered(op, args, db)
    [] op.k = "limit" -> NextLimit(op, args, db)
    [] op.k = "offset" -> NextOffset(op, args, db)
    [] op.k = "join" -> NextJoin(op, args, db)
    [] op.k = "values" -> NextValues(op, db)
    [] op.k = "window" -> NextWindow(op, args, db)
    [] op.k = "set" -> NextSet(op, args, db)
Do(what, x, args, db) ==
  CASE what = "next" -> OperatorNext(x, args, db)
    [] what = "value" -> EvalRow(x[1], x[2], args, db)
    [] what = "drain" -> DrainAll(x, args, db)
    [] what = "subquery" -> RunSubquery(x[1], x[2], args, db)

\* SELECT without FROM, windows and compounds keep that they have been read.
CloseOf(op) ==
  CASE op.k \in {"scan", "index"} -> [op EXCEPT !.open = FALSE, !.ahead = <<>>]
    [] op.k \in {"filter", "project", "inject", "window"} -> [op EXCEPT !.child = CloseOf(@)]
    [] op.k \in {"sort", "distinct", "aggregate"} -> [op EXCEPT !.child = CloseOf(@), !.buf = <<>>, !.pos = 0, !.loaded = FALSE]
    [] op.k \in {"limit", "offset"} -> [op EXCEPT !.child = CloseOf(@), !.seen = 0]
    [] op.k = "join" -> [op EXCEPT !.left = CloseOf(@), !.right = CloseOf(@), !.cur = <<>>, !.rewind = FALSE]
    [] op.k = "values" -> op
    [] op.k = "set" -> [op EXCEPT !.left = CloseOf(@), !.right = CloseOf(@), !.buf = <<>>, !.pos = 0]

=============================================================================
