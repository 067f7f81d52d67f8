----------------------------- MODULE QueryBattery -----------------------------
(***************************************************************************)
(* Tables and statements the queries of SqlQuery are checked on: a table t of  *)
(* id, a and b with an index on a, a table u of x and y, and a view.          *)
(***************************************************************************)
EXTENDS QueryReference

A == ColRef("a")
B == ColRef("b")
Id == ColRef("id")
Num0(n) == Lit(VInt(n))
Bin2(op, c, n) == Bin(op, c, Num0(n))
Q(cols, from) ==
  [k |-> "select", distinct |-> FALSE, cols |-> cols, from |-> from, alias |-> "", sub |-> <<>>, joins |-> <<>>,
   where |-> <<>>, group |-> <<>>, having |-> <<>>, trail |-> NoTrail]
Where(q, e) == [q EXCEPT !.where = <<e>>]
By(q, e) == [q EXCEPT !.group = <<e>>]
OrderBy(q, orders) == [q EXCEPT !.trail.order = orders]
Limited(q, n, m) == [q EXCEPT !.trail.limit = <<Num0(n)>>, !.trail.offset = <<Num0(m)>>]
Joined2(q, kind, on) == [q EXCEPT !.joins = <<Join(kind, "u", on)>>]
Asc(e) == Order(e, FALSE)
Desc(e) == Order(e, TRUE)
Everything == Q(<<StarE>>, "t")
IdsOnly == Q(<<Id>>, "t")
CountAll == Agg("COUNT", <<StarE>>, FALSE)
AggOf(name) == Agg(name, <<A>>, FALSE)
Match == Bin("=", Qual("t", "a"), Qual("u", "x"))
Over(part, order) == [part |-> part, order |-> order, frame |-> <<>>]
U(cols) == Q(cols, "u")

\* WHERE: seeks, ranges, scans; constants on either side; NULLs.
Conditions ==
  {Bin2("=", A, 2), Bin("=", Num0(2), A), Bin2(">=", A, 2), Bin2(">", A, 2), Bin("<", Num0(1), A), Bin2("<", A, 3),
   Between(A, Num0(2), Num0(3)), Bin("AND", Bin2(">", A, 1), Bin2("=", B, 1)),
   Bin("OR", Bin2("=", A, 3), Bin2("=", B, 1)), Un("NOT", Bin2("=", A, 2)), Bin2("=", Id, 2),
   Bin("=", A, Param(0)), Bin("=", Bin("+", A, Id), Num0(4))}
Subqueries ==
  {Exists(Where(U(<<ColRef("x")>>), Bin("=", ColRef("x"), A))),
   InSub(Id, U(<<ColRef("y")>>)), Un("NOT", InSub(A, U(<<ColRef("x")>>))),
   Bin("<", A, Sub(U(<<Agg("MAX", <<ColRef("y")>>, FALSE)>>)))}
Plain ==
  {Everything, Where(Everything, Bin("AND", Bin2(">=", A, 2), Bin2("<", A, 3))), Q(<<A, Bin("+", A, B), Alias(B, "c")>>, "t"),
   Q(<<A>>, "v"), Q(<<Bin("+", Num0(1), Num0(2))>>, ""),
   Q(<<Id, Sub(U(<<Agg("MAX", <<ColRef("x")>>, FALSE)>>))>>, "t")}
Sorted ==
  {OrderBy(IdsOnly, <<Asc(Id)>>), OrderBy(IdsOnly, <<Desc(Id)>>), OrderBy(IdsOnly, <<Asc(B), Desc(Id)>>),
   OrderBy(Q(<<B, Id>>, "t"), <<Desc(B), Asc(A), Asc(Id)>>)}
Cuts == {Limited(q, n, m) : q \in Sorted \cup {Everything}, n \in {0, 1}, m \in {0, 1}} \cup {Limited(Everything, 2, 2)}
Onces ==
  {[Q(<<B>>, "t") EXCEPT !.distinct = TRUE],
   Limited([OrderBy(Q(<<B>>, "t"), <<Asc(B)>>) EXCEPT !.distinct = TRUE], 1, 1)}
Grouped ==
  {Q(<<CountAll>>, "t"), Q(<<AggOf("MIN"), AggOf("MAX"), AggOf("SUM"), AggOf("AVG")>>, "t"),
   Where(Q(<<CountAll, AggOf("SUM")>>, "t"), Bin2("=", B, 2)),
   By(Q(<<B, CountAll, AggOf("SUM")>>, "t"), B), By(Q(<<B, Agg("COUNT", <<A>>, TRUE)>>, "t"), B),
   By(Q(<<A, Agg("SUM", <<B>>, TRUE)>>, "t"), A),
   [By(Q(<<B, CountAll>>, "t"), B) EXCEPT !.having = <<Bin2(">", CountAll, 1)>>],
   OrderBy(By(Q(<<B, AggOf("MAX")>>, "t"), B), <<Desc(B)>>)}
JoinsOf ==
  {Joined2(Q(<<Qual("t", "id"), Qual("u", "y")>>, "t"), "INNER", <<Match>>),
   Joined2(Q(<<Qual("t", "id")>>, "t"), "LEFT", <<Match>>),
   Joined2(Q(<<Qual("t", "id"), Qual("u", "x")>>, "t"), "CROSS", <<>>),
   Where(Joined2(Q(<<Qual("t", "id"), Qual("u", "y")>>, "t"), "INNER", <<Match>>), Bin(">", Qual("u", "y"), Qual("t", "id")))}
WindowsOf ==
  {Q(<<Id, Window("ROW_NUMBER", <<>>, Over(<<B>>, <<Desc(A), Asc(Id)>>))>>, "t"),
   Q(<<Id, Window("RANK", <<>>, Over(<<>>, <<Asc(B)>>))>>, "t"),
   Q(<<Id, Window("DENSE_RANK", <<>>, Over(<<>>, <<Asc(B)>>))>>, "t"),
   Q(<<Id, Window("LAG", <<A>>, Over(<<B>>, <<Asc(Id)>>))>>, "t"),
   Q(<<Id, Window("LEAD", <<B>>, Over(<<>>, <<Asc(A), Asc(Id)>>))>>, "t")}
Sets ==
  {Compound(op, Q(<<A>>, "t"), Q(<<B>>, "t")) : op \in {"UNION", "UNION ALL", "INTERSECT", "EXCEPT"}}
  \cup {Limited(OrderBy(Compound("UNION", Q(<<A>>, "t"), Q(<<Id>>, "t")), <<Desc(A)>>), 2, 1),
        OrderBy(Compound("EXCEPT", Compound("UNION", IdsOnly, U(<<ColRef("x")>>)), Q(<<B>>, "t")), <<Asc(Id)>>)}
Battery ==
  {Where(IdsOnly, e) : e \in Conditions \cup Subqueries} \cup Plain \cup Sorted \cup Cuts \cup Onces \cup Grouped \cup JoinsOf
  \cup WindowsOf \cup Sets

(***************************************************************************)
(* Databases: rows of t by their id, without two equal values of a (an index  *)
(* keeps one row to a value) and without negative numbers (the bytes of keys   *)
(* are unsigned); the index is unknown, known to the planner only, or real.   *)
(***************************************************************************)
TRows(as, bs, ids) ==
  {rows \in UNION {[s -> [a : as, b : bs]] : s \in SUBSET ids} :
     \A i, j \in DOMAIN rows : i # j => rows[i].a # rows[j].a \/ rows[i].a = NULL}
Database(rows, us, mode) ==
  [schema |-> ("t" :> [cols |-> <<<<"id">>, <<"a">>, <<"b">>>>, pk |-> "id"])
              @@ ("u" :> [cols |-> <<<<"x">>, <<"y">>>>, pk |-> "x"]),
   keys |-> ("t" :> [k \in {Enc(VInt(i)) : i \in DOMAIN rows} |->
                       LET i == CHOOSE x \in DOMAIN rows : Enc(VInt(x)) = k IN <<VInt(i), rows[i].a, rows[i].b>>])
            @@ ("u" :> [k \in {Enc(VInt(i)) : i \in DOMAIN us} |->
                          LET i == CHOOSE x \in DOMAIN us : Enc(VInt(x)) = k IN <<VInt(i), us[i]>>]),
   index |-> ("t" :> ("ta" :> [v \in {Enc(rows[i].a) : i \in {x \in DOMAIN rows : rows[x].a # NULL}} |->
                                Enc(VInt(CHOOSE i \in DOMAIN rows : rows[i].a # NULL /\ Enc(rows[i].a) = v))])) @@ ("u" :> <<>>),
   indexes |-> ("t" :> IF mode = "real" THEN <<[name |-> "ta", cols |-> <<"a">>]>> ELSE <<>>) @@ ("u" :> <<>>),
   catalog |-> IF mode = "none" THEN <<>> ELSE "t" :> [pk |-> "id", indexes |-> <<[name |-> "ta", cols |-> <<"a">>]>>],
   views |-> "v" :> Where(Q(<<A>>, "t"), Bin2(">=", A, 2))]
Given == <<VInt(2)>>
Delivered(q, db) ==
  LET p == Plan(q, db) IN IF p = <<>> THEN [rows |-> <<>>, err |-> TRUE] ELSE Drain(p[1], Given, db)
\* Every query has an answer, and it is what its clauses say.
AnswersWell(q, db) ==
  LET d == Delivered(q, db) IN ~ d.err /\ Answers(q, [i \in DOMAIN d.rows |-> d.rows[i].data], Given, db)
=============================================================================
