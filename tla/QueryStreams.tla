----------------------------- MODULE QueryStreams -----------------------------
(***************************************************************************)
(* Streams of rows (SQL/EX ex.go QueryStream and streamIterator, PL memo.go,  *)
(* SYS/AP Rows): Query plans the statement or finds its plan in the memo all    *)
(* sessions share, pulls the first row, and leaves the rest to a goroutine that *)
(* fills a bounded channel the caller reads from; meanwhile a writer changes    *)
(* the table, a row first and the entries of its index after it.               *)
(*                                                                          *)
(* One call of Next on a plan is one step. The context is never cancelled.    *)
(***************************************************************************)
EXTENDS QueryBattery

CONSTANTS
  Statements,     \* SELECTs that are streamed, over the table t
  Tables,         \* rows of t at the start, by id
  AValues,        \* values a writer gives a
  Cap,            \* rows the channel holds, 16 in the code
  MaxStreams, MaxRuns, MaxWrites,     \* bounds: streams, runs of one statement, statements of the writer,
  MaxWork                             \* and a bound on both: two for a stream, one for a statement of the writer

ASSUME BoundAssumption == Cap \in Nat \ {0} /\ MaxStreams \in Nat /\ MaxRuns \in Nat /\ MaxWrites \in Nat /\ MaxWork \in Nat

VARIABLES
  db,             \* the store: rows and index entries
  memo,           \* plans by key, with the state their operators are in
  streams,        \* one record for every call of Query
  todo,           \* store operations left of the writer's statement
  writes          \* statements the writer has begun

vars == <<db, memo, streams, todo, writes>>

(***************************************************************************)
(* The key of a plan: the fields of the syntax tree that are written out.     *)
(* What has no tag of its own (windows, compounds) leaves only its presence.   *)
(***************************************************************************)
RECURSIVE MemoExpr(_)
RECURSIVE MemoStmt(_)
MemoAll(es) == [i \in DOMAIN es |-> MemoExpr(es[i])]
MemoExpr(e) ==
  CASE e.k = "lit" /\ e.v.t = "float" -> <<"float", TruncDiv(e.v.num, e.v.den)>>
    [] e.k = "agg" -> <<"agg", e.name, MemoAll(e.arg)>>
    [] e.k = "cast" -> <<"cast", MemoExpr(e.e), e.ty.ty>>
    [] e.k \in {"lit", "col", "qual", "param", "star"} -> <<"leaf", e>>
    [] e.k = "un" -> <<"un", e.op, MemoExpr(e.e)>>
    [] e.k = "bin" -> <<"bin", e.op, MemoExpr(e.l), MemoExpr(e.r)>>
    [] e.k = "fn" -> <<"fn", e.name, MemoAll(e.args)>>
    [] e.k = "alias" -> <<"alias", MemoExpr(e.e), e.a>>
    [] e.k = "between" -> <<"between", MemoAll(<<e.e, e.lo, e.hi>>)>>
    [] e.k = "case" -> <<"case", MemoAll(e.of), [i \in DOMAIN e.whens |-> MemoAll(<<e.whens[i].cond, e.whens[i].then>>)],
                         MemoAll(e.else)>>
    [] e.k = "in" -> <<"in", MemoExpr(e.e), MemoAll(e.items)>>
    [] e.k = "insub" -> <<"insub", MemoExpr(e.e), MemoStmt(e.q)>>
    [] e.k \in {"exists", "sub"} -> <<e.k, MemoStmt(e.q)>>
    [] OTHER -> <<"expr">>
MemoColumn(c) == <<c.name, c.ty, c.size, c.nullable, c.pk, c.unique, MemoAll(c.default)>>
MemoStmt(s) ==
  CASE s.k = "select" ->
         <<"select", s.distinct, MemoAll(s.cols), s.from, s.alias, MemoAll(s.where),
           [i \in DOMAIN s.trail.order |-> <<MemoExpr(s.trail.order[i].e), s.trail.order[i].desc>>],
           [i \in DOMAIN s.joins |-> <<s.joins[i].kind, s.joins[i].right, MemoAll(s.joins[i].on)>>],
           MemoAll(s.group), MemoAll(s.having), [i \in DOMAIN s.sub |-> MemoStmt(s.sub[i])],
           MemoAll(s.trail.limit), MemoAll(s.trail.offset)>>
    [] s.k = "insert" -> <<"insert", s.tab, s.cols, [i \in DOMAIN s.rows |-> MemoAll(s.rows[i])]>>
    [] s.k = "update" -> <<"update", s.tab, [i \in DOMAIN s.set |-> <<s.set[i].c, MemoExpr(s.set[i].e)>>], MemoAll(s.where)>>
    [] s.k = "delete" -> <<"delete", s.tab, MemoAll(s.where)>>
    [] s.k = "createTable" -> <<"createTable", s.name, [i \in DOMAIN s.cols |-> MemoColumn(s.cols[i])], s.pk>>
    [] s.k = "dropTable" -> <<"dropTable", s.name>>
    [] OTHER -> <<"stmt">>
MemoKey(s) == MemoStmt(s)

(***************************************************************************)
(* Query                                                                    *)
(***************************************************************************)
Done(s) == s.phase = "done"
Work == 2 * Len(streams) + writes
Runs(q) == Cardinality({i \in DOMAIN streams : streams[i].stmt = q})
TRowsNow == {db.keys["t"][k] : k \in DOMAIN db.keys["t"]}
\* Rows no statement is about to finish writing.
Settled == {r \in TRowsNow : todo = <<>> \/ todo[1].id # r[1].n}
\* Ghosts: keep, the rows that have not changed since the stream was opened; seen, all there were since;
\* alone, that no other stream and no writer has been at work since.
Stream(q, chan, phase) ==
  [stmt |-> q, phase |-> phase, chan |-> chan, shut |-> FALSE, closed |-> FALSE,
   worker |-> IF phase = "open" THEN "look" ELSE "gone", held |-> <<>>, got |-> <<>>,
   keep |-> Settled, seen |-> TRowsNow,
   alone |-> todo = <<>> /\ \A i \in DOMAIN streams : Done(streams[i])]
Put(tree, key) == memo' = [k \in DOMAIN memo \cup {key} |-> IF k = key THEN tree ELSE memo[k]]
FirstDropped(n) == <<>>
FirstSent(n) == n.row
\* The plan of the key, whatever state it is in; with no first row it is closed, and the stream ends.
Open(q) ==
  LET key == MemoKey(q)
      start(n) ==
        /\ Put(IF n.row = <<>> THEN CloseOf(n.op) ELSE n.op, key)
        /\ streams' = Append([i \in DOMAIN streams |-> [streams[i] EXCEPT !.alone = @ /\ Done(streams[i])]],
                             Stream(q, FirstSent(n), IF n.err THEN "failed" ELSE IF n.row = <<>> THEN "done" ELSE "open"))
  IN /\ Len(streams) < MaxStreams /\ Runs(q) < MaxRuns /\ Work + 2 <= MaxWork
     /\ start(NextOf(IF key \in DOMAIN memo THEN memo[key] ELSE Plan(q, db)[1], Given, db))
     /\ UNCHANGED <<db, todo, writes>>

(***************************************************************************)
(* The goroutine                                                            *)
(***************************************************************************)
Set(i, s) == streams' = [streams EXCEPT ![i] = s]
\* It looks whether the stream was closed, under the lock, and lets go of it.
LookClosed(i) ==
  LET s == streams[i]
  IN /\ s.worker = "look"
     /\ Set(i, IF s.closed THEN [s EXCEPT !.worker = "gone", !.shut = TRUE] ELSE [s EXCEPT !.worker = "fetch"])
     /\ UNCHANGED <<db, memo, todo, writes>>
EndOpenly(s) == [s EXCEPT !.worker = "gone"]
EndShut(s) == [s EXCEPT !.worker = "gone", !.shut = TRUE]
\* The end and an error both end the goroutine, and with it the channel.
Fetch(i) ==
  LET s == streams[i]
      key == MemoKey(s.stmt)
      got(n) ==
        /\ Put(n.op, key)
        /\ Set(i, IF n.row = <<>> THEN EndShut(s) ELSE [s EXCEPT !.worker = "send", !.held = n.row])
  IN /\ s.worker = "fetch"
     /\ got(NextOf(memo[key], Given, db))
     /\ UNCHANGED <<db, todo, writes>>
Send(i) ==
  LET s == streams[i]
  IN /\ s.worker = "send" /\ Len(s.chan) < Cap
     /\ Set(i, [s EXCEPT !.worker = "look", !.chan = @ \o s.held, !.held = <<>>])
     /\ UNCHANGED <<db, memo, todo, writes>>
Worker(i) == LookClosed(i) \/ Fetch(i) \/ Send(i)

(***************************************************************************)
(* The caller: Rows.Next and Rows.Close. The end closes the iterator without   *)
(* the plan.                                                                *)
(***************************************************************************)
ReadRow(i) ==
  LET s == streams[i]
  IN /\ s.phase = "open" /\ s.chan # <<>>
     /\ Set(i, [s EXCEPT !.got = Append(@, Head(s.chan)), !.chan = Tail(@)])
     /\ UNCHANGED <<db, memo, todo, writes>>
ReadEnd(i) ==
  LET s == streams[i]
  IN /\ s.phase = "open" /\ s.chan = <<>> /\ s.shut
     /\ Set(i, [s EXCEPT !.phase = "done"])
     /\ UNCHANGED <<db, memo, todo, writes>>
Read(i) == ReadRow(i) \/ ReadEnd(i)
Close(i) ==
  LET s == streams[i]
      key == MemoKey(s.stmt)
  IN /\ s.phase = "open"
     /\ Set(i, [s EXCEPT !.phase = "closed", !.closed = TRUE])
     /\ Put(CloseOf(memo[key]), key)
     /\ UNCHANGED <<db, todo, writes>>

(***************************************************************************)
(* The writer: the row, then its index entries, one operation of the store at  *)
(* a time. INSERT replaces a row of the same key; DELETE leaves the entry.     *)
(***************************************************************************)
Key(i) == Enc(VInt(i))
Stored == {i \in 1..3 : Key(i) \in DOMAIN db.keys["t"]}
ValueOf(i) == db.keys["t"][Key(i)][2]
\* Values of a stay unique among the rows.
FreeFor(i, v) == v = NULL \/ \A j \in Stored \ {i} : ValueOf(j) # v
WithRow(i, row) ==
  LET old == db.keys["t"]
  IN [db EXCEPT !.keys["t"] = [k \in DOMAIN old \cup {Key(i)} |-> IF k = Key(i) THEN row ELSE old[k]]]
WithoutRow(i) == LET old == db.keys["t"] IN [db EXCEPT !.keys["t"] = [k \in DOMAIN old \ {Key(i)} |-> old[k]]]
Step(op, i, v) == [op |-> op, id |-> i, v |-> v]
\* maintainIndexesOnUpdate: nothing, when either value has no entry or both have the same.
UpdateSteps(i, old, new) ==
  IF old = NULL \/ new = NULL \/ old = new THEN <<>> ELSE <<Step("drop", i, old), Step("add", i, new)>>
Wrote(new) ==
  LET rows == {new.keys["t"][k] : k \in DOMAIN new.keys["t"]}
  IN /\ db' = new /\ writes' = writes + 1
     /\ streams' = [n \in DOMAIN streams |->
                      [streams[n] EXCEPT !.keep = @ \cap rows, !.seen = @ \cup rows, !.alone = FALSE]]
     /\ UNCHANGED memo
CanWrite == writes < MaxWrites /\ Work + 1 <= MaxWork /\ todo = <<>>
Insert(i, v) ==
  /\ CanWrite /\ FreeFor(i, v)
  /\ Wrote(WithRow(i, <<VInt(i), v, VInt(1)>>))
  /\ todo' = IF v = NULL THEN <<>> ELSE <<Step("add", i, v)>>
Update(i, v) ==
  /\ CanWrite /\ i \in Stored /\ FreeFor(i, v)
  /\ Wrote(WithRow(i, [db.keys["t"][Key(i)] EXCEPT ![2] = v]))
  /\ todo' = UpdateSteps(i, ValueOf(i), v)
Delete(i) == CanWrite /\ i \in Stored /\ Wrote(WithoutRow(i)) /\ todo' = <<>>
IndexStep ==
  LET s == Head(todo)
      entries == db.index["t"]["ta"]
      new == IF s.op = "drop" THEN [v \in DOMAIN entries \ {Enc(s.v)} |-> entries[v]]
             ELSE [v \in DOMAIN entries \cup {Enc(s.v)} |-> IF v = Enc(s.v) THEN Key(s.id) ELSE entries[v]]
  IN /\ todo # <<>>
     /\ db' = [db EXCEPT !.index["t"]["ta"] = new] /\ todo' = Tail(todo)
     /\ UNCHANGED <<memo, streams, writes>>
Write == \E i \in 1..3 : Delete(i) \/ \E v \in AValues : Insert(i, v) \/ Update(i, v)

(***************************************************************************)
(* The specification                                                        *)
(***************************************************************************)
Init ==
  /\ db \in {Database(rows, <<>>, "real") : rows \in Tables}
  /\ memo = <<>> /\ streams = <<>> /\ todo = <<>> /\ writes = 0
Next ==
  \/ \E q \in Statements : Open(q)
  \/ \E i \in DOMAIN streams : Worker(i) \/ Read(i) \/ Close(i)
  \/ Write \/ IndexStep
\* The runtime runs the goroutine, and a caller that does not close its rows reads on: weak fairness of
\* Worker and of Read, with what enables them and what only they change written out.
CanWork(i) ==
  /\ i \in DOMAIN streams
  /\ streams[i].worker \in {"look", "fetch"} \/ (streams[i].worker = "send" /\ Len(streams[i].chan) < Cap)
CanRead(i) == i \in DOMAIN streams /\ streams[i].phase = "open" /\ (streams[i].chan # <<>> \/ streams[i].shut)
Worked(i) == i \in DOMAIN streams /\ streams[i].worker # streams'[i].worker
HasRead(i) == i \in DOMAIN streams /\ (streams[i].got # streams'[i].got \/ streams[i].phase # streams'[i].phase)
Fairness(i) ==
  /\ []<>(~ CanWork(i)) \/ []<> <<Worked(i)>>_vars
  /\ []<>(~ CanRead(i)) \/ []<> <<HasRead(i)>>_vars
Spec == Init /\ [][Next]_vars /\ \A i \in 1..MaxStreams : Fairness(i)

(***************************************************************************)
(* Properties                                                               *)
(***************************************************************************)
Wanted(s, row) ==
  s.stmt.where = <<>> \/ Sat(Eval(s.stmt.where[1], [c \in {"id", "a", "b"} |-> row[CASE c = "id" -> 1 [] c = "a" -> 2 [] c = "b" -> 3]]))
Times(s, row) == Cardinality({i \in DOMAIN s.got : s.got[i].data = row})
UsesIndex(s) == s.stmt.where # <<>> /\ RangeOf(s.stmt.where[1]) # <<>>
\* A stream of whole rows that was read to its end while rows were inserted, changed and deleted has
\* delivered every row of the answer that stayed as it was, once and in the order of the keys when it
\* came from the table, and no row that there never was since it was opened (ex.go QueryStream,
\* operators.go nextFromStore and nextByRange, store.go maintainIndexesOnUpdate).
StreamWhole ==
  \A i \in DOMAIN streams :
    LET s == streams[i]
    IN /\ Done(s) => \A row \in s.keep : Wanted(s, row) => Times(s, row) >= 1
       /\ \A n \in DOMAIN s.got : s.got[n].data \in s.seen /\ Wanted(s, s.got[n].data)
       /\ ~ UsesIndex(s) => \A n \in 2..Len(s.got) : s.got[n - 1].data[1].n < s.got[n].data[1].n
\* A stream whose rows are read, and that is not closed, comes to its end, whatever the writer does
\* and however few rows the channel holds.
StreamEnds == \A i \in 1..MaxStreams : (i \in DOMAIN streams) ~> (i \in DOMAIN streams /\ streams[i].phase # "open")

\* "Stmt is a prepared statement. The same plan is reused across invocations; only the bound
\* arguments vary" (SYS/AP/ap.go:147): what a stream delivered, over a table nobody changed and with no
\* other stream at work, is the answer to its own statement.
StreamAnswers ==
  [][\A i \in DOMAIN streams' :
        LET s == streams'[i]
        IN Done(s) /\ s.alone => Answers(s.stmt, [n \in DOMAIN s.got |-> s.got[n].data], Given, db')]_vars
=============================================================================
