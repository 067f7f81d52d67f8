------------------------------- MODULE MCQueries -------------------------------
(* Statements and tables for the streams of QueryStreams. *)
EXTENDS QueryStreams

Row(a) == [a |-> a, b |-> VInt(1)]
\* Without NULL in the indexed column: an UPDATE from NULL to a value leaves the row without an entry.
MCTables == {(1 :> Row(VInt(2))) @@ (2 :> Row(VInt(1))) @@ (3 :> Row(VInt(3))), (1 :> Row(VInt(3))) @@ (3 :> Row(VInt(2)))}
MCAValues == {VInt(2), VInt(3), VInt(4)}
MCStatements == {Everything, Where(Everything, Bin2(">=", A, 2)), Where(Everything, Bin2("=", B, 1))}
ReuseTables == {1 :> Row(VInt(2))}
ReuseStatements == {Q(<<AggOf("COUNT")>>, "t"), Q(<<Agg("COUNT", <<A>>, TRUE)>>, "t")}
=============================================================================
