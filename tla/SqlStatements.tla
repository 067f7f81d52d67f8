---------------------------- MODULE SqlStatements ----------------------------
(***************************************************************************)
(* The statements besides SELECT (SQL/PS ps.go).                             *)
(***************************************************************************)
EXTENDS SqlParse

(***************************************************************************)
(* INSERT, UPDATE, DELETE                                                   *)
(***************************************************************************)
ConflictActions == {"ROLLBACK", "ABORT", "FAIL", "IGNORE", "REPLACE"}
RowOfValues(s) == LET x == ExprList(Eat(s, "(")) IN R(x.v, Eat(x.s, ")"))
SetPair(s) ==
  LET c == EatName(s)
      x == ParseExpr(Eat(c.s, "="))
  IN R(Pair(c.v, x.v), x.s)
Returning(s) == IF Cur(s) = "RETURNING" THEN ExprList(Adv(s)) ELSE R(<<>>, s)
\* ON is for ON CONFLICT only when CONFLICT follows.
OnConflict(s) ==
  LET cols == OptNames(Adv(Adv(s)))
      do == Eat(cols.s, "DO")
      set == CommaList(SetPair, Eat(Eat(do, "UPDATE"), "SET"))
  IN CASE Cur(s) # "ON" \/ Peek(s) # "CONFLICT" -> R(<<>>, s)
       [] Cur(do) = "NOTHING" -> R(<<[cols |-> cols.v, nothing |-> TRUE, set |-> <<>>]>>, Adv(do))
       [] OTHER -> R(<<[cols |-> cols.v, nothing |-> FALSE, set |-> set.v]>>, set.s)
InsertTail(action, s) ==
  LET tab == EatName(s)
      cols == OptNames(tab.s)
      rows == CommaList(RowOfValues, Eat(cols.s, "VALUES"))
      ret == Returning(rows.s)
      conflict == OnConflict(ret.s)
  IN R([k |-> "insert", tab |-> tab.v, cols |-> cols.v, rows |-> rows.v, ret |-> ret.v,
        conflict |-> conflict.v, action |-> action], conflict.s)
ParseInsert(s) ==
  LET t == Adv(s)
      a == Adv(t)
      word == IF Cur(a) = "id" THEN Head(a.ts).name ELSE Cur(a)
  IN IF Cur(t) # "OR" THEN InsertTail("", Eat(t, "INTO"))
     ELSE IF word \in ConflictActions THEN InsertTail(word, Eat(Adv(a), "INTO")) ELSE ErrR(s)
ParseUpdate(s) ==
  LET tab == EatName(Adv(s))
      set == CommaList(SetPair, Eat(tab.s, "SET"))
      where == OptExpr(set.s, "WHERE")
      ret == Returning(where.s)
  IN R([k |-> "update", tab |-> tab.v, set |-> set.v, where |-> where.v, ret |-> ret.v], ret.s)
ParseDelete(s) ==
  LET tab == EatName(Eat(Adv(s), "FROM"))
      where == OptExpr(tab.s, "WHERE")
      ret == Returning(where.s)
  IN R([k |-> "delete", tab |-> tab.v, where |-> where.v, ret |-> ret.v], ret.s)

(***************************************************************************)
(* CREATE TABLE                                                             *)
(***************************************************************************)
NewCol(name, ty, size) ==
  [name |-> name, ty |-> ty, size |-> size, nullable |-> TRUE, default |-> <<>>, pk |-> FALSE,
   unique |-> FALSE, check |-> <<>>, gen |-> <<>>, virtual |-> FALSE,
   ref |-> "", refCol |-> "", onDelete |-> "", onUpdate |-> ""]
\* Constraints of a column in any order; a NOT before anything but NULL is passed over.
RECURSIVE Constraints(_)
Constraints(c) ==
  LET s == c.s
      t == Adv(s)
      x == ParseExpr(t)
      p == ParenExpr(t)
  IN CASE Cur(s) = "PRIMARY" /\ Cur(t) = "KEY" /\ Peek(t) # "(" ->
            Constraints(R([c.v EXCEPT !.pk = TRUE], Adv(t)))
       [] Cur(s) = "PRIMARY" /\ Cur(t) = "KEY" -> R(c.v, Adv(t))
       [] Cur(s) = "PRIMARY" -> Constraints(R([c.v EXCEPT !.pk = TRUE, !.nullable = FALSE], t))
       [] Cur(s) = "NOTNULL" -> Constraints(R([c.v EXCEPT !.nullable = FALSE], t))
       [] Cur(s) = "NOT" /\ t.ts # <<>> /\ Head(t.ts) = LitTok(NULL) ->
            Constraints(R([c.v EXCEPT !.nullable = FALSE], Adv(t)))
       [] Cur(s) = "NOT" -> Constraints(R(c.v, t))
       [] Cur(s) = "DEFAULT" -> Constraints(R([c.v EXCEPT !.default = <<x.v>>], x.s))
       [] Cur(s) = "CHECK" -> Constraints(R([c.v EXCEPT !.check = <<p.v>>], p.s))
       [] Cur(s) = "UNIQUE" -> Constraints(R([c.v EXCEPT !.unique = TRUE], Opt(t, "KEY")))
       [] OTHER -> c
Generated(c) ==
  LET p == ParenExpr(Adv(c.s))
      u == OptWord(p.s, "VIRTUAL")
  IN IF Cur(c.s) # "AS" THEN c
     ELSE R([c.v EXCEPT !.gen = <<p.v>>, !.virtual = (u # p.s)],
            IF u # p.s THEN u ELSE OptWord(p.s, "STORED"))
FKAction(s) ==
  LET t == Adv(s)
  IN CASE Cur(s) \in {"CASCADE", "RESTRICT"} -> R(Cur(s), t)
       [] Cur(s) = "SET" /\ Cur(t) = "DEFAULT" -> R("SET DEFAULT", Adv(t))
       [] Cur(s) = "SET" /\ t.ts # <<>> /\ Head(t.ts) = LitTok(NULL) -> R("SET NULL", Adv(t))
       [] Cur(s) = "SET" -> R("SET", t)
       [] Cur(s) = "NO" /\ Cur(t) = "ACTION" -> R("NO ACTION", Adv(t))
       [] Cur(s) = "NO" -> R("NO", t)
       [] OTHER -> R("NO ACTION", s)
RECURSIVE OnActions(_)
OnActions(c) ==
  LET t == Adv(c.s)
      a == FKAction(Adv(t))
  IN CASE Cur(c.s) # "ON" -> c
       [] Cur(t) = "DELETE" -> OnActions(R([c.v EXCEPT !.onDelete = a.v], a.s))
       [] Cur(t) = "UPDATE" -> OnActions(R([c.v EXCEPT !.onUpdate = a.v], a.s))
       [] OTHER -> OnActions(R(c.v, t))
References(c) ==
  LET tab == EatName(Adv(c.s))
      col == IF Cur(tab.s) # "(" THEN R("", tab.s)
             ELSE LET n == EatName(Adv(tab.s)) IN R(n.v, Eat(n.s, ")"))
  IN IF Cur(c.s) # "REFERENCES" THEN c
     ELSE OnActions(R([c.v EXCEPT !.ref = tab.v, !.refCol = col.v], col.s))
ParseColumn(s) ==
  LET n == EatName(s)
      ty == ParseType(n.s)
  IN References(Generated(Constraints(R(NewCol(n.v, ty.v.ty, ty.v.size), ty.s))))
TableWords == {"PRIMARY", "UNIQUE", "FOREIGN"}
RECURSIVE Columns(_, _)
Columns(acc, s) ==
  LET c == ParseColumn(s)
  IN IF Cur(s) \in TableWords THEN R(acc, s)
     ELSE IF Cur(c.s) = "," THEN Columns(Append(acc, c.v), Adv(c.s)) ELSE R(Append(acc, c.v), c.s)
\* Clauses of the table: a second PRIMARY KEY replaces the first; commas may be missing.
RECURSIVE TableClauses(_)
TableClauses(t) ==
  LET kind == Cur(t.s)
      k == IF kind = "UNIQUE" THEN Opt(Adv(t.s), "KEY") ELSE Eat(Adv(t.s), "KEY")
      names == Names(Eat(k, "("))
      s == Eat(names.s, ")")
      tab == EatName(Eat(s, "REFERENCES"))
      refs == OptNames(tab.s)
      fk == OnActions(R([cols |-> names.v, ref |-> tab.v, refCols |-> refs.v, onDelete |-> "", onUpdate |-> ""],
                        refs.s))
  IN CASE kind \notin TableWords -> t
       [] kind = "FOREIGN" -> TableClauses(R([t.v EXCEPT !.fks = Append(@, fk.v)], Opt(fk.s, ",")))
       [] kind = "PRIMARY" /\ Len(names.v) # 1 -> R(t.v, Failed1(s))
       [] kind = "PRIMARY" -> TableClauses(R([t.v EXCEPT !.pk = names.v], Opt(s, ",")))
       [] OTHER -> TableClauses(R([t.v EXCEPT !.uniques = Append(@, names.v)], Opt(s, ",")))
\* The first column that says PRIMARY KEY wins over the clause.
ParseCreateTable(s) ==
  LET name == EatName(Eat(Adv(s), "TABLE"))
      cols == Columns(<<>>, Eat(name.s, "("))
      t == TableClauses(R([k |-> "createTable", name |-> name.v, cols |-> cols.v, pk |-> <<>>,
                           uniques |-> <<>>, fks |-> <<>>], cols.s))
      marked == SelectSeq(cols.v, LAMBDA c : c.pk)
  IN R(IF marked = <<>> THEN t.v ELSE [t.v EXCEPT !.pk = <<Head(marked).name>>], Eat(t.s, ")"))

(***************************************************************************)
(* The other statements                                                     *)
(***************************************************************************)
ParseDropTable(s) ==
  LET n == EatName(Opt(OptWord(Eat(Adv(s), "TABLE"), "IF"), "EXISTS"))
  IN R([k |-> "dropTable", name |-> n.v], n.s)
ParseCreateIndex(s) ==
  LET t == Opt(Adv(s), "UNIQUE")
      n == EatName(Eat(t, "INDEX"))
      tab == EatName(Eat(n.s, "ON"))
      cols == Names(Eat(tab.s, "("))
  IN R([k |-> "createIndex", name |-> n.v, tab |-> tab.v, cols |-> cols.v, unique |-> Peek(s) = "UNIQUE"],
       Eat(cols.s, ")"))
ParseDropIndex(s) ==
  LET n == EatName(Eat(Adv(s), "INDEX")) IN R([k |-> "dropIndex", name |-> n.v], n.s)
ParseCreateView(s) ==
  LET temp == Peek(s) \in {"TEMP", "TEMPORARY"}
      n == EatName(Eat(IF temp THEN Adv(Adv(s)) ELSE Adv(s), "VIEW"))
      q == ParseSelect(Eat(n.s, "AS"))
  IN R([k |-> "createView", name |-> n.v, q |-> q.v, temp |-> temp], q.s)
\* ALTER TABLE ADD knows NOT NULL and DEFAULT; a NOT before anything but NULL is an error here.
RECURSIVE AddedConstraints(_)
AddedConstraints(c) ==
  LET t == Adv(c.s)
      x == ParseExpr(t)
  IN CASE Cur(c.s) = "NOTNULL" -> AddedConstraints(R([c.v EXCEPT !.nullable = FALSE], t))
       [] Cur(c.s) = "DEFAULT" -> AddedConstraints(R([c.v EXCEPT !.default = <<x.v>>], x.s))
       [] Cur(c.s) # "NOT" -> c
       [] t.ts # <<>> /\ Head(t.ts) = LitTok(NULL) ->
            AddedConstraints(R([c.v EXCEPT !.nullable = FALSE], Adv(t)))
       [] OTHER -> R(c.v, Failed1(t))
Alter(tab, action, col, new) == [k |-> "alter", tab |-> tab, action |-> action, col |-> col, new |-> new]
ParseAlterTable(s) ==
  LET tab == EatName(Eat(Adv(s), "TABLE"))
      what == Cur(tab.s)
      n == EatName(Opt(Adv(tab.s), IF what = "RENAME" THEN "TO" ELSE "COLUMN"))
      ty == ParseType(n.s)
      c == AddedConstraints(R(NewCol(n.v, ty.v.ty, ty.v.size), ty.s))
  IN CASE what = "ADD" -> R(Alter(tab.v, "ADD COLUMN", n.v, <<c.v>>), c.s)
       [] what = "DROP" -> R(Alter(tab.v, "DROP COLUMN", n.v, <<>>), n.s)
       [] what = "RENAME" -> R(Alter(tab.v, "RENAME", n.v, <<>>), n.s)
       [] OTHER -> ErrR(s)
ParseSavepoint(s) == LET n == EatName(Adv(s)) IN R([k |-> "savepoint", name |-> n.v], n.s)
ParseRelease(s) == LET n == EatName(Opt(Adv(s), "SAVEPOINT")) IN R([k |-> "release", name |-> n.v], n.s)
ParseRollbackTo(s) ==
  LET n == EatName(Opt(Adv(Adv(s)), "SAVEPOINT")) IN R([k |-> "rollbackTo", name |-> n.v], n.s)
ParseSet(s) ==
  LET t == Eat(Eat(Eat(Adv(s), "TRANSACTION"), "ISOLATION"), "LEVEL")
      level(l, u) == R([k |-> "isolation", level |-> l], u)
  IN CASE Cur(t) = "READ" /\ Peek(t) \in {"UNCOMMITTED", "COMMITTED"} -> level("READ " \o Peek(t), Adv(Adv(t)))
       [] Cur(t) = "REPEATABLE" -> level("REPEATABLE READ", Eat(Adv(t), "READ"))
       [] Cur(t) = "SERIALIZABLE" -> level("SERIALIZABLE", Adv(t))
       [] OTHER -> ErrR(s)
OptTable(kind, s) ==
  LET named == Cur(Adv(s)) = "id"
  IN R([k |-> kind, tab |-> IF named THEN EatName(Adv(s)).v ELSE ""], IF named THEN Adv(Adv(s)) ELSE Adv(s))
ParsePragma(s) ==
  LET n == EatName(Adv(s))
      t == Adv(n.s)
      valued == Cur(n.s) = "=" /\ (Cur(t) = "id" \/ (Cur(t) = "lit" /\ Head(t.ts).v.t \in {"str", "int"}))
  IN R([k |-> "pragma", name |-> n.v, value |-> IF valued THEN <<Head(t.ts)>> ELSE <<>>],
       IF valued THEN Adv(t) ELSE IF Cur(n.s) = "=" THEN t ELSE n.s)
\* A CTE body that is no SELECT goes through Parse, which wants the input to end there.
ParseCTE(s) ==
  LET n == EatName(s)
      cols == OptNames(n.s)
      t == Eat(Eat(cols.s, "AS"), "(")
      q == IF Cur(t) = "SELECT" THEN ParseSelect(t) ELSE ErrR(t)
  IN R([name |-> n.v, cols |-> cols.v, q |-> q.v], Eat(q.s, ")"))
ParseWith(s) ==
  LET t == OptWord(Adv(s), "RECURSIVE")
      ctes == CommaList(ParseCTE, t)
      q == ParseSelect(ctes.s)
  IN R([k |-> "with", recursive |-> t # Adv(s), ctes |-> ctes.v, q |-> q.v], q.s)

\* What is skipped: the WHEN of a trigger, and a statement a trigger body does not know.
RECURSIVE SkipTo(_, _)
SkipTo(s, stop) == IF Cur(s) \in stop \cup {"EOF", "error"} THEN s ELSE SkipTo(Adv(s), stop)
BodyStmt(s) ==
  CASE Cur(s) = "SELECT" -> ParseSelect(s) [] Cur(s) = "INSERT" -> ParseInsert(s)
    [] Cur(s) = "UPDATE" -> ParseUpdate(s) [] Cur(s) = "DELETE" -> ParseDelete(s)
    [] OTHER -> R(None, SkipTo(s, {";", "END"}))
RECURSIVE Body(_, _)
Body(acc, s) ==
  LET b == BodyStmt(s)
  IN CASE Cur(s) \in {"END", "EOF", "error"} -> R(acc, Opt(s, "END"))
       [] Cur(s) = ";" -> Body(acc, Adv(s))
       [] OTHER -> Body(IF b.v = None THEN acc ELSE Append(acc, b.v), b.s)
ParseTrigger(s) ==
  LET t0 == Eat(Adv(s), "TRIGGER")
      t == OptWord(t0, "IF")
      name == EatName(IF t = t0 THEN t ELSE Eat(Eat(t, "NOT"), "EXISTS"))
      at == Cur(name.s)
      u == CASE at \in {"BEFORE", "AFTER"} -> Adv(name.s)
             [] at = "INSTEAD" -> Eat(Adv(name.s), "OF") [] OTHER -> name.s
      event == Cur(u)
      of == IF event = "UPDATE" /\ Peek(u) = "OF" THEN Names(Adv(Adv(u))) ELSE R(<<>>, Adv(u))
      tab == EatName(Eat(IF event \in {"INSERT", "UPDATE", "DELETE"} THEN of.s ELSE Failed1(u), "ON"))
      each(x) == IF Cur(x) = "FOR" THEN Eat(Eat(Adv(x), "EACH"), "ROW") ELSE x
      when(x) == IF Cur(x) = "WHEN" THEN SkipTo(x, {"BEGIN", ";"}) ELSE x
      one(x) == R(<<x.v>>, x.s)
      bodyAt(x) == IF Cur(x) = "BEGIN" THEN Body(<<>>, Adv(x)) ELSE one(BodyStmt(x))
      body == bodyAt(when(each(tab.s)))
  IN R([k |-> "trigger", name |-> name.v, ifNot |-> t # t0, event |-> event, of |-> of.v, on |-> tab.v,
        time |-> CASE at = "AFTER" -> "AFTER" [] at = "INSTEAD" -> "INSTEAD OF" [] OTHER -> "BEFORE",
        body |-> body.v], body.s)

(***************************************************************************)
(* Parse and EXPLAIN, which knows fewer statements.                          *)
(***************************************************************************)
ParseCommon(s) ==
  CASE Cur(s) = "SELECT" -> ParseSelect(s)
    [] Cur(s) = "INSERT" -> ParseInsert(s)
    [] Cur(s) = "UPDATE" -> ParseUpdate(s)
    [] Cur(s) = "DELETE" -> ParseDelete(s)
    [] Cur(s) = "CREATE" /\ (Peek(s) = "INDEX" \/ (Peek(s) = "UNIQUE" /\ Peek2(s) = "INDEX")) -> ParseCreateIndex(s)
    [] Cur(s) = "CREATE" /\ Peek(s) = "VIEW" -> ParseCreateView(s)
    [] Cur(s) = "CREATE" -> ParseCreateTable(s)
    [] Cur(s) = "DROP" -> IF Peek(s) = "INDEX" THEN ParseDropIndex(s) ELSE ParseDropTable(s)
    [] Cur(s) = "ANALYZE" -> OptTable("analyze", s)
    [] Cur(s) = "VACUUM" -> OptTable("vacuum", s)
    [] OTHER -> ErrR(s)
RECURSIVE ParseExplain(_)
ParseExplain(s) ==
  LET plan == Peek(s) = "QUERY" /\ Peek2(s) = "PLAN"
      t == IF plan THEN Adv(Adv(Adv(s))) ELSE Adv(s)
      x == IF Cur(t) = "EXPLAIN" THEN ParseExplain(t) ELSE ParseCommon(t)
  IN R([k |-> "explain", plan |-> plan, inner |-> x.v], x.s)
ParseStmt(s) ==
  CASE Cur(s) = "CREATE" /\ Peek(s) = "TRIGGER" -> ParseTrigger(s)
    [] Cur(s) = "CREATE" /\ Peek(s) \in {"TEMP", "TEMPORARY"} /\ Peek2(s) = "VIEW" -> ParseCreateView(s)
    [] Cur(s) = "EXPLAIN" -> ParseExplain(s)
    [] Cur(s) = "PRAGMA" -> ParsePragma(s)
    [] Cur(s) = "WITH" -> ParseWith(s)
    [] Cur(s) = "SAVEPOINT" -> ParseSavepoint(s)
    [] Cur(s) = "RELEASE" -> ParseRelease(s)
    [] Cur(s) = "ROLLBACK" /\ Peek(s) = "TO" -> ParseRollbackTo(s)
    [] Cur(s) = "SET" -> ParseSet(s)
    [] Cur(s) = "ALTER" -> ParseAlterTable(s)
    [] Cur(s) = "id" /\ Head(s.ts).name = "REPLACE" /\ Peek(s) = "INTO" -> InsertTail("REPLACE", Adv(Adv(s)))
    [] OTHER -> ParseCommon(s)
SyntaxError == [k |-> "error"]
Accepted(x) == IF Cur(x.s) = "EOF" THEN x.v ELSE SyntaxError
Parse(ts) == Accepted(ParseStmt(Start(ts)))
=============================================================================
