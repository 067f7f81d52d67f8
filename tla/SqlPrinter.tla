----------------------------- MODULE SqlPrinter -----------------------------
(***************************************************************************)
(* The grammar of the parser, read backwards: the tokens of a tree, with       *)
(* parentheses only where the precedences of the operators ask for them. It    *)
(* is the reference that SqlParse and SqlStatements are checked against.      *)
(***************************************************************************)
EXTENDS SqlText

\* How tightly a tree holds together when it is written without parentheses.
IsNot(e, kinds) == e.k = "un" /\ e.op = "NOT" /\ e.e.k \in kinds
IsNotLike(e) == IsNot(e, {"bin"}) /\ e.e.op = "LIKE"
Primary == 11
Level(e) ==
  CASE e.k = "bin" -> Prec(e.op)
    [] e.k = "between" \/ IsNot(e, {"between"}) -> 2
    [] IsNotLike(e) -> 6
    [] e.k \in {"un", "in", "insub"} -> 10
    [] OTHER -> Primary
Opened(ts) == <<K("(")>> \o ts \o <<K(")")>>
List(parts) == CommaSep(parts)
Word1(t, ts) == IF ts = <<>> THEN <<>> ELSE <<K(t)>> \o ts

RECURSIVE Bare(_), Unparse(_)
P(e, least) == IF Level(e) < least THEN Opened(Bare(e)) ELSE Bare(e)
Ps(es) == List([i \in DOMAIN es |-> P(es[i], 1)])
OptP(t, e) == IF e = <<>> THEN <<>> ELSE <<K(t)>> \o P(e[1], 1)
Orders(os) == List([i \in DOMAIN os |-> P(os[i].e, 1) \o (IF os[i].desc THEN <<K("DESC")>> ELSE <<>>)])
ByToks(t, ts) == IF ts = <<>> THEN <<>> ELSE <<K(t), K("BY")>> \o ts
PType(ty) ==
  <<TypeTok(ty.ty)>> \o
  (CASE ty.size = 0 -> <<>>
     [] ty.prec = 0 -> Opened(<<LitTok(VInt(ty.size))>>)
     [] OTHER -> Opened(<<LitTok(VInt(ty.prec)), K(","), LitTok(VInt(ty.scale))>>))
PBound(b) ==
  CASE b.kind = "CURRENT_ROW" -> <<K("CURRENT"), K("ROW")>>
    [] b.kind = "UNBOUNDED_PRECEDING" -> <<K("UNBOUNDED"), K("PRECEDING")>>
    [] b.kind = "UNBOUNDED_FOLLOWING" -> <<K("UNBOUNDED"), K("FOLLOWING")>>
    [] OTHER -> P(b.n[1], 1) \o <<K(b.kind)>>
PFrame(f) ==
  IF f = <<>> THEN <<>>
  ELSE <<K(f[1].kind), K("BETWEEN")>> \o PBound(f[1].lo) \o <<K("AND")>> \o PBound(f[1].hi)
Negatable(e, not) ==
  CASE e.k = "between" -> P(e.e, Primary) \o not \o <<K("BETWEEN")>> \o P(e.lo, 3) \o <<K("AND")>> \o P(e.hi, 3)
    [] e.k = "in" -> P(e.e, Primary) \o not \o <<K("IN")>> \o Opened(Ps(e.items))
    [] e.k = "insub" -> P(e.e, Primary) \o not \o <<K("IN")>> \o Opened(Unparse(e.q))
    [] e.k = "bin" -> P(e.l, Primary) \o not \o <<K("LIKE")>> \o P(e.r, 7)
Bare(e) ==
  CASE e.k = "lit" -> <<LitTok(e.v)>>
    [] e.k = "col" -> <<IdTok(e.c)>>
    [] e.k = "qual" -> <<IdTok(e.tab), K("."), IdTok(e.c)>>
    [] e.k = "param" -> <<K("?")>>
    [] e.k = "star" -> <<K("*")>>
    [] e.k = "alias" -> P(e.e, 1) \o <<K("AS"), IdTok(e.a)>>
    [] IsNotLike(e) \/ IsNot(e, {"between", "in", "insub"}) -> Negatable(e.e, <<K("NOT")>>)
    [] e.k = "un" -> <<K(e.op)>> \o P(e.e, 10)
    [] e.k \in {"between", "in", "insub"} -> Negatable(e, <<>>)
    [] e.k = "bin" -> P(e.l, Prec(e.op)) \o <<K(e.op)>> \o P(e.r, Prec(e.op) + 1)
    [] e.k = "fn" -> <<IF e.name \in {"COALESCE", "NULLIF", "MIN", "MAX"} THEN K(e.name) ELSE IdTok(e.name)>>
                     \o Opened(Ps(e.args))
    [] e.k = "agg" -> <<IF e.name = "GROUP_CONCAT" THEN IdTok(e.name) ELSE K(e.name)>>
                      \o Opened((IF e.distinct THEN <<K("DISTINCT")>> ELSE <<>>) \o Ps(e.arg))
    [] e.k = "window" ->
         <<K(e.name)>> \o Opened(Ps(e.args)) \o <<K("OVER")>>
         \o Opened(ByToks("PARTITION", Ps(e.over.part)) \o ByToks("ORDER", Orders(e.over.order)) \o PFrame(e.over.frame))
    [] e.k = "sub" -> Opened(Unparse(e.q))
    [] e.k = "exists" -> <<K("EXISTS")>> \o Opened(Unparse(e.q))
    [] e.k = "interval" -> <<K("INTERVAL"), LitTok(e.v), IdTok(e.u)>>
    [] e.k = "cast" -> <<K("CAST")>> \o Opened(P(e.e, 1) \o <<K("AS")>> \o PType(e.ty))
    [] e.k = "case" ->
         <<K("CASE")>> \o Ps(e.of)
         \o FlatCat([i \in DOMAIN e.whens |-> <<K("WHEN")>> \o P(e.whens[i].cond, 1)
                                              \o <<K("THEN")>> \o P(e.whens[i].then, 1)])
         \o OptP("ELSE", e.else) \o <<K("END")>>

Ids(ns) == IdToks(ns)
OptIds(ns) == IF ns = <<>> THEN <<>> ELSE Opened(Ids(ns))
PTrail(t) == ByToks("ORDER", Orders(t.order)) \o OptP("LIMIT", t.limit) \o OptP("OFFSET", t.offset)
\* The plain joins come first and with commas, as in FROM a, b JOIN c.
PJoin(j) ==
  (CASE j.kind = "INNER" -> <<K("JOIN")>> [] j.kind = "LEFT" -> <<K("LEFT"), K("OUTER"), K("JOIN")>>
     [] OTHER -> <<K(j.kind), K("JOIN")>>) \o <<IdTok(j.right)>> \o OptP("ON", j.on)
PFrom(q) ==
  CASE q.from = "" -> <<>>
    [] q.sub # <<>> -> <<K("FROM")>> \o Opened(Unparse(q.sub[1]))
                       \o (IF q.from = Anonymous THEN <<>> ELSE <<K("AS"), IdTok(q.from)>>)
    [] OTHER -> <<K("FROM"), IdTok(q.from)>>
PSelect(q) ==
  <<K("SELECT")>> \o (IF q.distinct THEN <<K("DISTINCT")>> ELSE <<>>) \o Ps(q.cols) \o PFrom(q)
  \o (IF q.alias = "" THEN <<>> ELSE <<K("AS"), IdTok(q.alias)>>)
  \o FlatCat([i \in DOMAIN q.joins |-> PJoin(q.joins[i])])
  \o OptP("WHERE", q.where) \o ByToks("GROUP", Ps(q.group)) \o OptP("HAVING", q.having)
PSet(set) == List([i \in DOMAIN set |-> <<IdTok(set[i].c), K("=")>> \o P(set[i].e, 1)])
PConflict(c) ==
  IF c = <<>> THEN <<>>
  ELSE <<K("ON"), K("CONFLICT")>> \o OptIds(c[1].cols) \o <<K("DO")>>
       \o (IF c[1].nothing THEN <<K("NOTHING")>> ELSE <<K("UPDATE"), K("SET")>> \o PSet(c[1].set))
ActionToks(t, a) ==
  CASE a = "" -> <<>>
    [] a = "SET NULL" -> <<K("ON"), K(t), K("SET"), LitTok(NULL)>>
    [] a = "NO ACTION" -> <<K("ON"), K(t), K("NO"), K("ACTION")>>
    [] OTHER -> <<K("ON"), K(t), K(a)>>
PRef(tab, cols, c) ==
  <<K("REFERENCES"), IdTok(tab)>> \o OptIds(cols) \o ActionToks("DELETE", c.onDelete) \o ActionToks("UPDATE", c.onUpdate)
PColumn(c) ==
  <<IdTok(c.name)>> \o PType(TypeInfo(c.ty, c.size, 0, 0))
  \o (IF c.pk THEN <<K("PRIMARY"), K("KEY")>> ELSE <<>>) \o (IF c.nullable THEN <<>> ELSE <<K("NOT"), LitTok(NULL)>>)
  \o (IF c.unique THEN <<K("UNIQUE")>> ELSE <<>>) \o OptP("DEFAULT", c.default)
  \o (IF c.check = <<>> THEN <<>> ELSE <<K("CHECK")>> \o Opened(Ps(c.check)))
  \o (IF c.gen = <<>> THEN <<>>
      ELSE <<K("AS")>> \o Opened(Ps(c.gen)) \o <<IdTok(IF c.virtual THEN "VIRTUAL" ELSE "STORED")>>)
  \o (IF c.ref = "" THEN <<>> ELSE PRef(c.ref, IF c.refCol = "" THEN <<>> ELSE <<c.refCol>>, c))
PCreate(q) ==
  LET marked == \E i \in DOMAIN q.cols : q.cols[i].pk
      pk == IF q.pk = <<>> \/ marked THEN <<>> ELSE << <<K("PRIMARY"), K("KEY")>> \o Opened(Ids(q.pk)) >>
      uniques == [i \in DOMAIN q.uniques |-> <<K("UNIQUE")>> \o Opened(Ids(q.uniques[i]))]
      fks == [i \in DOMAIN q.fks |-> <<K("FOREIGN"), K("KEY")>> \o Opened(Ids(q.fks[i].cols))
                                     \o PRef(q.fks[i].ref, q.fks[i].refCols, q.fks[i])]
  IN <<K("CREATE"), K("TABLE"), IdTok(q.name)>>
     \o Opened(List([i \in DOMAIN q.cols |-> PColumn(q.cols[i])] \o pk \o uniques \o fks))
Unparse(q) ==
  CASE q.k = "select" -> PSelect(q) \o PTrail(q.trail)
    [] q.k = "compound" -> Unparse(q.l) \o CompoundToks(q.op) \o Unparse(q.r) \o PTrail(q.trail)
    [] q.k = "insert" ->
         <<K("INSERT")>> \o (IF q.action = "" THEN <<>> ELSE <<K("OR"), IdTok(q.action)>>) \o <<K("INTO"), IdTok(q.tab)>>
         \o OptIds(q.cols) \o <<K("VALUES")>> \o List([i \in DOMAIN q.rows |-> Opened(Ps(q.rows[i]))])
         \o Word1("RETURNING", Ps(q.ret)) \o PConflict(q.conflict)
    [] q.k = "update" ->
         <<K("UPDATE"), IdTok(q.tab), K("SET")>> \o PSet(q.set) \o OptP("WHERE", q.where) \o Word1("RETURNING", Ps(q.ret))
    [] q.k = "delete" -> <<K("DELETE"), K("FROM"), IdTok(q.tab)>> \o OptP("WHERE", q.where) \o Word1("RETURNING", Ps(q.ret))
    [] q.k = "createTable" -> PCreate(q)
    [] q.k = "dropTable" -> <<K("DROP"), K("TABLE"), IdTok("IF"), K("EXISTS"), IdTok(q.name)>>
    [] q.k = "createIndex" ->
         <<K("CREATE")>> \o (IF q.unique THEN <<K("UNIQUE")>> ELSE <<>>)
         \o <<K("INDEX"), IdTok(q.name), K("ON"), IdTok(q.tab)>> \o Opened(Ids(q.cols))
    [] q.k = "dropIndex" -> <<K("DROP"), K("INDEX"), IdTok(q.name)>>
    [] q.k = "createView" ->
         <<K("CREATE")>> \o (IF q.temp THEN <<K("TEMP")>> ELSE <<>>) \o <<K("VIEW"), IdTok(q.name), K("AS")>> \o Unparse(q.q)
    [] q.k = "alter" ->
         <<K("ALTER"), K("TABLE"), IdTok(q.tab)>>
         \o (CASE q.action = "ADD COLUMN" -> <<K("ADD"), K("COLUMN")>> \o PColumn(q.new[1])
               [] q.action = "DROP COLUMN" -> <<K("DROP"), K("COLUMN"), IdTok(q.col)>>
               [] q.action = "RENAME" -> <<K("RENAME"), K("TO"), IdTok(q.col)>>)
    [] q.k = "savepoint" -> <<K("SAVEPOINT"), IdTok(q.name)>>
    [] q.k = "release" -> <<K("RELEASE"), K("SAVEPOINT"), IdTok(q.name)>>
    [] q.k = "rollbackTo" -> <<K("ROLLBACK"), K("TO"), IdTok(q.name)>>
    [] q.k = "isolation" ->
         <<K("SET"), K("TRANSACTION"), K("ISOLATION"), K("LEVEL")>>
         \o (IF q.level = "SERIALIZABLE" THEN <<K("SERIALIZABLE")>> ELSE <<K("REPEATABLE"), K("READ")>>)
    [] q.k = "analyze" -> <<K("ANALYZE")>> \o (IF q.tab = "" THEN <<>> ELSE <<IdTok(q.tab)>>)
    [] q.k = "vacuum" -> <<K("VACUUM")>> \o (IF q.tab = "" THEN <<>> ELSE <<IdTok(q.tab)>>)
    [] q.k = "pragma" -> <<K("PRAGMA"), IdTok(q.name)>> \o (IF q.value = <<>> THEN <<>> ELSE <<K("=")>> \o q.value)
    [] q.k = "explain" ->
         <<K("EXPLAIN")>> \o (IF q.plan THEN <<K("QUERY"), K("PLAN")>> ELSE <<>>) \o Unparse(q.inner)
    [] q.k = "with" ->
         <<K("WITH")>> \o (IF q.recursive THEN <<IdTok("RECURSIVE")>> ELSE <<>>)
         \o List([i \in DOMAIN q.ctes |-> <<IdTok(q.ctes[i].name)>> \o OptIds(q.ctes[i].cols)
                                          \o <<K("AS")>> \o Opened(Unparse(q.ctes[i].q))])
         \o Unparse(q.q)
    [] q.k = "trigger" ->
         <<K("CREATE"), K("TRIGGER")>> \o (IF q.ifNot THEN <<IdTok("IF"), K("NOT"), K("EXISTS")>> ELSE <<>>)
         \o <<IdTok(q.name)>> \o (IF q.time = "INSTEAD OF" THEN <<K("INSTEAD"), K("OF")>> ELSE <<K(q.time)>>)
         \o <<K(q.event)>> \o Word1("OF", Ids(q.of))
         \o <<K("ON"), IdTok(q.on), K("FOR"), K("EACH"), K("ROW"), K("BEGIN")>>
         \o FlatCat([i \in DOMAIN q.body |-> Unparse(q.body[i]) \o <<K(";")>>]) \o <<K("END")>>
=============================================================================
