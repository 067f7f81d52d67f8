---------------------------- MODULE MCSqlTables ----------------------------
(* SqlTables on small instances: statements over two keys and two values. *)
EXTENDS SqlTables

Row(k, b) == [k |-> k, b |-> b]
Ins(rows) == [kind |-> "insert", rows |-> rows, ret |-> FALSE]
Upd(w, c, v) == [kind |-> "update", where |-> w, col |-> c, val |-> v, ret |-> FALSE]
Del(w) == [kind |-> "delete", where |-> w, ret |-> FALSE]
Create(pk, dflt) == [kind |-> "create", pk |-> pk, dflt |-> dflt]

(* INSERTs whose second row a table without a DEFAULT, or with a primary     *)
(* key, refuses; UPDATEs of a value and to NULL; a DELETE of all rows;       *)
(* tables with and without a key and a DEFAULT.                             *)
SomeStatements ==
  {Ins(<<Row(1, 0), Row(2, Null)>>), Ins(<<Row(2, 1), Row(2, 0)>>),
   Upd(0, "b", 1), Upd(All, "b", Null), Del(All),
   Create(TRUE, FALSE), Create(FALSE, TRUE), [kind |-> "drop"]}

(* For the rollback run: writes, an UPDATE of keys, a DELETE with RETURNING. *)
SomeWrites == {Ins(<<Row(1, 0), Row(2, Null)>>), Upd(0, "b", 1), Upd(All, "k", 0),
               [Del(All) EXCEPT !.ret = TRUE]}

TwoRows == [k \in 1 .. N |-> k - 1]
=============================================================================
