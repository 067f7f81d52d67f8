---------------------------- MODULE QueryReference ----------------------------
(***************************************************************************)
(* What a SELECT means, clause by clause, over whole tables: the reference     *)
(* the plans of SqlQuery are compared with. No operator, no cursor, no plan.  *)
(***************************************************************************)
EXTENDS SqlQuery

\* A row as a function from names to values; a joined row's names say their table.
TableRows(db, tab, named) ==
  LET keys == InOrder(DOMAIN db.keys[tab])
      cols == db.schema[tab].cols
      name(c) == IF named THEN <<tab>> \o c ELSE c
  IN [i \in DOMAIN keys |->
        [n \in {name(cols[j]) : j \in DOMAIN cols} |->
           db.keys[tab][keys[i]][CHOOSE j \in DOMAIN cols : name(cols[j]) = n]]]

RECURSIVE Meaning(_, _, _, _)
RECURSIVE Ground(_, _, _, _, _)
Sat(v) == v # ERR /\ Truthy(v)
SumSeq(s) == FoldLeft(LAMBDA acc, v : acc + v.n, 0, s)

\* An aggregate of a group of rows; its argument is an integer or NULL.
AggMeaning(e, group, args, db) ==
  LET all == [i \in DOMAIN group |-> Eval(Ground(e.arg[1], group[i], <<>>, args, db), [c \in {} |-> NULL])]
      some == SelectSeq(all, LAMBDA v : v # NULL)
      set == {some[i] : i \in DOMAIN some}
      least == CHOOSE v \in set : \A w \in set : Compare(v, w) <= 0
      greatest == CHOOSE v \in set : \A w \in set : Compare(v, w) >= 0
  IN CASE e.arg[1].k = "star" -> VInt(Len(group))
       [] e.name = "COUNT" -> VInt(IF e.distinct THEN Cardinality(set) ELSE Len(some))
       [] some = <<>> -> NULL
       [] e.name = "SUM" -> VInt(SumSeq(IF e.distinct THEN SetToSeq(set) ELSE some))
       [] e.name = "AVG" -> VFlt(SumSeq(some), Len(some))
       [] e.name = "MIN" -> least
       [] e.name = "MAX" -> greatest

\* Names, parameters, aggregates and subqueries of an expression put in.
Ground(e, env, group, args, db) ==
  LET g(x) == Ground(x, env, group, args, db)
      rows == Meaning(e.q, env, args, db)
      v == Eval(g(e.e), [c \in {} |-> NULL])
      firsts == {rows[i][1] : i \in DOMAIN rows}
  IN CASE e.k = "col" -> Lit(env[<<e.c>>])
       [] e.k = "qual" -> Lit(env[<<e.tab, e.c>>])
       [] e.k = "param" -> Lit(args[e.n + 1])
       [] e.k = "agg" -> Lit(AggMeaning(e, group, args, db))
       [] e.k = "alias" -> g(e.e)
       [] e.k = "un" -> Un(e.op, g(e.e))
       [] e.k = "bin" -> Bin(e.op, g(e.l), g(e.r))
       [] e.k = "between" -> Between(g(e.e), g(e.lo), g(e.hi))
       [] e.k = "exists" -> BoolLit(rows # <<>>)
       [] e.k = "sub" -> Lit(IF rows = <<>> THEN NULL ELSE rows[1][1])
       [] e.k = "insub" ->
            Lit(IF v = NULL THEN NULL ELSE IF v \in firsts THEN VBool(TRUE)
                ELSE IF NULL \in firsts THEN NULL ELSE VBool(FALSE))
       [] OTHER -> e
Of(e, env, group, args, db) == Eval(Ground(e, env, group, args, db), [c \in {} |-> NULL])

\* The elements of s in the order of their keys; equal ones stay in place.
Ordered(s, key(_), descs) ==
  LET before(i, j) == LET o == KeyOrder(key(s[i]), key(s[j]), descs) IN o < 0 \/ (o = 0 /\ i < j)
      at(n) == CHOOSE i \in DOMAIN s : Cardinality({j \in DOMAIN s : before(j, i)}) = n - 1
  IN [n \in DOMAIN s |-> s[at(n)]]
Slice(rows, trail) ==
  LET from == IF trail.offset = <<>> THEN 0 ELSE trail.offset[1].v.n
      n == IF trail.limit = <<>> THEN Len(rows) ELSE trail.limit[1].v.n
  IN SubSeq(rows, from + 1, Min({from + n, Len(rows)}))

JoinMeaning(left, join, args, db) ==
  LET right == TableRows(db, join.right, TRUE)
      on(x, y) == join.on = <<>> \/ Sat(Of(join.on[1], y @@ x, <<>>, args, db))
      matches(x) == LET ys == SelectSeq(right, LAMBDA y : on(x, y)) IN [i \in DOMAIN ys |-> ys[i] @@ x]
      kin(x) == IF matches(x) = <<>> /\ join.kind = "LEFT" THEN <<x>> ELSE matches(x)
  IN FlattenSeq([i \in DOMAIN left |-> kin(left[i])])

\* The value of a window function in the i-th row.
WindowMeaning(f, rows, i, db) ==
  LET key(j) == [n \in DOMAIN f.over.order |-> Of(f.over.order[n].e, rows[j], <<>>, <<>>, db)]
      descs == Descs(f.over.order)
      part(j) == [n \in DOMAIN f.over.part |-> Of(f.over.part[n], rows[j], <<>>, <<>>, db)]
      peers == {j \in DOMAIN rows : part(j) = part(i)}
      below(j) == {m \in peers : KeyOrder(key(m), key(j), descs) < 0}
      before(j) == below(j) \cup {m \in peers : m < j /\ KeyOrder(key(m), key(j), descs) = 0}
      at(n) == {j \in peers : Cardinality(before(j)) = n}
      other(n) == IF at(n) = {} THEN NULL
                  ELSE Of(f.args[1], rows[CHOOSE j \in at(n) : TRUE], <<>>, <<>>, db)
  IN CASE f.name = "ROW_NUMBER" -> VInt(Cardinality(before(i)) + 1)
       [] f.name = "RANK" -> VInt(Cardinality(below(i)) + 1)
       [] f.name = "DENSE_RANK" -> VInt(Cardinality({key(m) : m \in below(i)}) + 1)
       [] f.name = "LAG" -> other(Cardinality(before(i)) - 1)
       [] f.name = "LEAD" -> other(Cardinality(before(i)) + 1)

\* The rows of FROM and its joins that WHERE keeps.
Kept(q, outer, args, db) ==
  LET from == TableRows(db, q.from, q.joins # <<>>)
      inner == [i \in DOMAIN from |-> from[i] @@ outer]
      joined == FoldLeft(LAMBDA acc, j : JoinMeaning(acc, j, args, db), inner, q.joins)
  IN SelectSeq(joined, LAMBDA env : q.where = <<>> \/ Sat(Of(q.where[1], env, <<>>, args, db)))
\* A unit is what one row of the answer is made from: a group HAVING keeps, or a row.
UnitsOf(q, kept, args, db) ==
  LET key(env) == [i \in DOMAIN q.group |-> Of(q.group[i], env, <<>>, args, db)]
      keys == SetToSeq({key(kept[i]) : i \in DOMAIN kept})
      groups == IF q.group = <<>> THEN <<kept>>
                ELSE [n \in DOMAIN keys |-> SelectSeq(kept, LAMBDA env : key(env) = keys[n])]
  IN IF q.group # <<>> \/ Has(q.cols, "agg")
     THEN SelectSeq(groups, LAMBDA g : q.having = <<>> \/ Sat(Of(q.having[1], g[1], g, args, db)))
     ELSE [i \in DOMAIN kept |-> <<kept[i]>>]
CellsOf(q, kept, units, outer, args, db) ==
  LET env(unit) == IF unit = <<>> THEN outer ELSE unit[1]
      cell(c, unit, i) == IF c.k = "window" THEN WindowMeaning(c, kept, i, db) ELSE Of(c, env(unit), unit, args, db)
      shown(unit, i) ==
        IF IsStar(q.cols) THEN [j \in DOMAIN db.schema[q.from].cols |-> env(unit)[db.schema[q.from].cols[j]]]
        ELSE [j \in DOMAIN q.cols |-> cell(q.cols[j], unit, i)]
      rows == [i \in DOMAIN units |-> [unit |-> units[i], row |-> shown(units[i], i)]]
      sorted == Ordered(rows, LAMBDA r : [i \in DOMAIN q.trail.order |-> Of(q.trail.order[i].e, env(r.unit), r.unit, args, db)],
                        Descs(q.trail.order))
  IN [i \in DOMAIN sorted |-> sorted[i].row]
Firsts(cells) ==
  LET is == SelectSeq([i \in DOMAIN cells |-> i], LAMBDA i : \A j \in 1..(i - 1) : cells[j] # cells[i])
  IN [n \in DOMAIN is |-> cells[is[n]]]
\* The rows of a query, in its order, before LIMIT and OFFSET.
Unlimited(q, outer, args, db) ==
  LET kept == Kept(q, outer, args, db)
      cells == CellsOf(q, kept, UnitsOf(q, kept, args, db), outer, args, db)
  IN IF q.from = "" THEN <<[i \in DOMAIN q.cols |-> Of(q.cols[i], outer, <<>>, args, db)]>>
     ELSE IF q.distinct THEN Firsts(cells) ELSE cells
RECURSIVE Combined(_, _, _)
Combined(q, args, db) ==
  LET l == IF q.l.k = "select" THEN Meaning(q.l, <<>>, args, db) ELSE Combined(q.l, args, db)
      r == IF q.r.k = "select" THEN Meaning(q.r, <<>>, args, db) ELSE Combined(q.r, args, db)
      elems(s) == {s[i] : i \in DOMAIN s}
      rows == CASE q.op = "UNION ALL" -> l \o r
                [] q.op = "UNION" -> SetToSeq(elems(l) \cup elems(r))
                [] q.op = "INTERSECT" -> SetToSeq(elems(l) \cap elems(r))
                [] q.op = "EXCEPT" -> SetToSeq(elems(l) \ elems(r))
      \* Columns are ordered by their place: the battery orders by the first.
  IN Ordered(rows, LAMBDA r1 : <<r1[1]>>, IF q.trail.order = <<>> THEN <<FALSE>> ELSE Descs(q.trail.order))
Meaning(q, outer, args, db) ==
  IF q.from \in DOMAIN db.views THEN Slice(Unlimited(db.views[q.from], outer, args, db), db.views[q.from].trail)
  ELSE Slice(Unlimited(q, outer, args, db), q.trail)

BagOf(s) == [x \in {s[i] : i \in DOMAIN s} |-> Cardinality({i \in DOMAIN s : s[i] = x})]
\* An answer is right: in the order that was asked for, or the same rows in any order, of which LIMIT and
\* OFFSET may take any.
Answers(q, out, args, db) ==
  LET all == IF q.k = "select" THEN Unlimited(IF q.from \in DOMAIN db.views THEN db.views[q.from] ELSE q, <<>>, args, db)
             ELSE Combined(q, args, db)
  IN IF q.trail.order # <<>> THEN out = Slice(all, q.trail)
     ELSE /\ BagOf(out) \sqsubseteq BagOf(all)
          /\ Len(out) = Len(Slice(all, q.trail))
=============================================================================
