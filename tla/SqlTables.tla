----------------------------- MODULE SqlTables -----------------------------
(***************************************************************************)
(* SQL statements over one table name: SQL/EX's INSERT, UPDATE, DELETE,     *)
(* CREATE TABLE and DROP TABLE as sessions run them (SYS/SE, SYS/TX), on    *)
(* the schema registry of SQL/EX, the catalog of ENG/LS and a store of      *)
(* ordered keys, over restarts of the engine and of the process.            *)
(*                                                                          *)
(* A statement holds no lock from its first look at the registry to its     *)
(* last write; a step is what runs under one lock, or one call of the       *)
(* store. Every table has the columns k and b, b NOT NULL; an incarnation   *)
(* of the table may declare k its primary key and may give b a DEFAULT.     *)
(* The store is one memtable: what changing memtables adds is in LsmEngine. *)
(***************************************************************************)
EXTENDS Naturals, Sequences, FiniteSets

CONSTANTS
  Sessions,     \* sessions, each used by one goroutine (a call holds s.mu)
  Statements,   \* the statements sessions choose from
  OldRows,      \* b of each row of the table that an earlier process may have left
  N,            \* bound: keys and row ids are 1 .. N, table ids 0 .. N
  MaxStmts,     \* bound: statements started and transactions begun
  MaxFaults,    \* bound: catalog files that cannot be written
  MaxRestarts,  \* bound: ends of the engine or of the process
  Null,         \* the SQL NULL
  All,          \* no WHERE clause
  NoNode,       \* a key the store has never held
  Tomb,         \* the value of a deleted key
  None          \* no value of the kind

Default == 0          \* the value of b's DEFAULT
Bs == 0 .. 1

(* What a statement can be: rows to insert; WHERE b = where, SET col = val  *)
(* (a key is set to itself plus one); RETURNING or not; a declared primary  *)
(* key and a DEFAULT or not.                                                *)
InsertStmts == [kind : {"insert"}, rows : Seq([k : 1 .. N, b : Bs \cup {Null}]), ret : BOOLEAN]
UpdateStmts == [kind : {"update"}, where : Bs \cup {All}, col : {"k", "b"},
                val : Bs \cup {Null}, ret : BOOLEAN]
DeleteStmts == [kind : {"delete"}, where : Bs \cup {All}, ret : BOOLEAN]
CreateStmts == [kind : {"create"}, pk : BOOLEAN, dflt : BOOLEAN]
DropStmts == [kind : {"drop"}]
AllStmts == InsertStmts \cup UpdateStmts \cup DeleteStmts \cup CreateStmts \cup DropStmts

ASSUME TablesAssumption ==
  /\ IsFiniteSet(Sessions)
  /\ \A st \in Statements : st \in AllStmts
  /\ N \in Nat \ {0}
  /\ OldRows \in [1 .. N -> Bs]
  /\ MaxStmts \in Nat /\ MaxFaults \in Nat /\ MaxRestarts \in Nat

VARIABLES
  store,     \* the memtable: a row, a tombstone or no node for each key
  saved,     \* what of it is in SST files
  tables,    \* the name is in EX's tables map
  reg,       \* tableIDs and storeSchemas: the id and the schema object of the name
  objs,      \* schema objects (storeSchema), in the order they were made
  seq,       \* tableIDSeq
  cat,       \* the catalog, in memory and in catalog.dat: next id and entry
  op,        \* the statement each session is in
  txn,       \* the transaction each session is in
  writeSet,  \* its write set: the value before the transaction, per key
  gens,      \* history: incarnations of the table so far
  stmts, faults, restarts,         \* history: counters of the bounds
  fellBack,  \* history: an id was drawn from tableIDSeq, not from the catalog
  raced      \* history: a CREATE or DROP overlapped another statement

schemaVars == <<tables, reg, objs, seq, cat, gens, fellBack>>
txnVars == <<txn, writeSet>>
ends == <<saved, restarts>>
vars == <<store, schemaVars, txnVars, ends, op, stmts, faults, raced>>

(* Store keys: <<id, k>> is the key of row k of table id. A key built with   *)
(* no prefix, which a dropped table leaves, is the eight bytes of k alone    *)
(* and sorts before the rows of table k: <<k, 0>>.                          *)
Keys == (0 .. N) \X (0 .. N)
NoId == N + 1     \* not a table id
Rows == [k : 1 .. N, b : Bs, gen : Nat]

(* A mark is none of the values it is told apart from. *)
ASSUME MarksAssumption ==
  /\ Null \notin Bs /\ All \notin Bs
  /\ NoNode \notin Rows /\ Tomb \notin Rows /\ NoNode # Tomb
  /\ None \notin Rows \cup [key : Keys, value : Rows \cup {Tomb}]
  /\ None \notin [id : 0 .. N, obj : Nat] \cup [id : 0 .. N, pk : BOOLEAN, gen : Nat]

(* Without a prefix the iterator runs over every table. *)
HasPrefix(key, id) == id = NoId \/ (key[1] = id /\ key[2] # 0)

Less(x, y) == x[1] < y[1] \/ (x[1] = y[1] /\ x[2] < y[2])

Live(st) == {key \in Keys : st[key] \notin {NoNode, Tomb}}

Schema(pk, dflt, hidden, gen) ==
  [pk |-> pk, dflt |-> dflt, hidden |-> hidden, next |-> 0, gen |-> gen]

NoStmt == [kind |-> "none"]
NoOp == [pc |-> "idle", stmt |-> NoStmt, obj |-> 0, id |-> NoId, scan |-> NoId, prefix |-> NoId,
         item |-> None, row |-> None, writer |-> None, rows |-> 0, ok |-> TRUE,
         base |-> None, alone |-> FALSE]

NoTxn == [phase |-> "none", alone |-> FALSE, base |-> None]

(* openCatalog registers the entry, with RegisterFromCatalog, unless its     *)
(* name is registered. Neither DEFAULTs nor row ids are in the catalog.     *)
Rehydrate(entry, objects, oldSeq, oldTables) ==
  IF entry = None THEN [tables |-> oldTables, reg |-> None, objs |-> objects, seq |-> oldSeq]
  ELSE [tables |-> TRUE, reg |-> [id |-> entry.id, obj |-> Len(objects) + 1],
        objs |-> Append(objects, Schema(entry.pk, FALSE, FALSE, entry.gen)),
        seq |-> IF entry.id >= oldSeq THEN entry.id ELSE oldSeq]
Opened(r) == /\ tables = r.tables /\ reg = r.reg /\ objs = r.objs /\ seq = r.seq

(* A process opens a new database, or one that holds the table. *)
Init ==
  /\ \/ /\ gens = 0 /\ cat = [next |-> 1, entry |-> None]
        /\ store = [key \in Keys |-> NoNode]
     \/ /\ gens = 1 /\ cat = [next |-> 2, entry |-> [id |-> 1, pk |-> TRUE, gen |-> 1]]
        /\ store = [key \in Keys |->
                      IF HasPrefix(key, 1) THEN [k |-> key[2], b |-> OldRows[key[2]], gen |-> 1]
                      ELSE NoNode]
  /\ saved = store
  /\ Opened(Rehydrate(cat.entry, <<>>, 0, FALSE))
  /\ op = [s \in Sessions |-> NoOp]
  /\ txn = [s \in Sessions |-> NoTxn] /\ writeSet = [s \in Sessions |-> <<>>]
  /\ stmts = 0 /\ faults = 0 /\ restarts = 0
  /\ fellBack = FALSE /\ raced = FALSE
-----------------------------------------------------------------------------
(* Steps of a statement *)

Busy(s) == op[s].pc # "idle"
InTxn(s) == txn[s].phase = "open"
IsDDL(st) == st.kind \in {"create", "drop"}

(* The session enters Exec; statements of two sessions from here on overlap. *)
Start(s, st) ==
  /\ ~Busy(s) /\ stmts < MaxStmts
  /\ stmts' = stmts + 1
  /\ LET others == {x \in Sessions : Busy(x)}
     IN /\ op' = [x \in Sessions |->
                   IF x = s
                   THEN [NoOp EXCEPT !.pc = IF IsDDL(st) THEN st.kind ELSE "build", !.stmt = st,
                                     !.alone = (others = {}),
                                     !.base = IF others = {} THEN store ELSE None]
                   ELSE IF Busy(x) THEN [op[x] EXCEPT !.alone = FALSE, !.base = None]
                   ELSE op[x]]
        /\ raced' = (raced \/ \E x \in others : IsDDL(st) \/ IsDDL(op[x].stmt))
  /\ txn' = [x \in Sessions |-> IF x # s /\ InTxn(x)
                                THEN [txn[x] EXCEPT !.alone = FALSE, !.base = None] ELSE txn[x]]
  /\ UNCHANGED <<store, schemaVars, writeSet, ends, faults>>

Goto(s, o) == op' = [op EXCEPT ![s] = o]
Unfinished(s, rows, ok) == [op[s] EXCEPT !.rows = rows, !.ok = ok]
Done(s, rows, ok) == [op[s] EXCEPT !.pc = "done", !.rows = rows, !.ok = ok]

(* Exec returns to the caller. *)
Reply(s) ==
  /\ op[s].pc = "done"
  /\ Goto(s, NoOp)
  /\ UNCHANGED <<store, schemaVars, txnVars, ends, stmts, faults, raced>>

IdOf(r) == IF r = None THEN NoId ELSE r.id

(* buildWriterOp looks the schema up by name: for INSERT to write with, for  *)
(* UPDATE and DELETE to scan with.                                          *)
Build(s) ==
  /\ op[s].pc = "build"
  /\ Goto(s, IF reg = None THEN Done(s, 0, FALSE)
             ELSE [op[s] EXCEPT !.obj = reg.obj,
                                !.pc = IF op[s].stmt.kind = "insert" THEN "prefix" ELSE "scanPrefix"])
  /\ UNCHANGED <<store, schemaVars, txnVars, ends, stmts, faults, raced>>

(* The scan's key prefix is looked up apart from its schema, *)
ScanPrefix(s) ==
  /\ op[s].pc = "scanPrefix"
  /\ Goto(s, [op[s] EXCEPT !.scan = IdOf(reg), !.pc = "writer"])
  /\ UNCHANGED <<store, schemaVars, txnVars, ends, stmts, faults, raced>>

(* and the schema to write with once more. *)
BuildWriter(s) ==
  /\ op[s].pc = "writer"
  /\ Goto(s, IF reg = None THEN Done(s, 0, FALSE)
             ELSE [op[s] EXCEPT !.obj = reg.obj, !.pc = "prefix"])
  /\ UNCHANGED <<store, schemaVars, txnVars, ends, stmts, faults, raced>>

(* Next: the prefix to write under. A statement with RETURNING returns here, *)
(* before any work, and Exec reports one row.                               *)
WritePrefix(s) ==
  /\ op[s].pc = "prefix"
  /\ Goto(s, IF op[s].stmt.ret THEN Done(s, 1, TRUE)
             ELSE [op[s] EXCEPT !.prefix = IdOf(reg),
                                !.pc = IF op[s].stmt.kind = "insert" THEN "rows" ELSE "open"])
  /\ UNCHANGED <<store, schemaVars, txnVars, ends, stmts, faults, raced>>

(* A row to be written: NULL becomes the DEFAULT, and must not remain.      *)
Filled(sc, b) == IF b = Null /\ sc.dflt THEN Default ELSE b
Valid(sc, b) == Filled(sc, b) # Null

RowKey(id, k) == IF id = NoId THEN <<k, 0>> ELSE <<id, k>>

(* extractPK: the column, or, without a primary key, a row id drawn here.    *)
RowId(sc) == sc.next + 1
MayExtract(sc) == sc.pk \/ sc.hidden
KeyOf(s, row) ==
  LET sc == objs[op[s].obj] IN RowKey(op[s].prefix, IF sc.pk THEN row.k ELSE RowId(sc))
DrawnAgain(o) == objs
Drawn(o) == IF objs[o].pk THEN objs ELSE [objs EXCEPT ![o].next = RowId(objs[o])]
WithinBound(s) == objs[op[s].obj].pk \/ objs[op[s].obj].next < N   \* bound of row ids

(* After the write, the hook an operator was built with is told the key. No  *)
(* operator is built with one: buildWriterOp does not pass txWriter on.      *)
Recorded(s, key, value) ==
  IF op[s].writer = None \/ key \in DOMAIN writeSet[s] THEN writeSet
  ELSE [writeSet EXCEPT ![s] = [x \in DOMAIN @ \cup {key} |-> IF x = key THEN value ELSE @[x]]]

Put(s, key, value) ==
  /\ store' = [store EXCEPT ![key] = value]
  /\ writeSet' = Recorded(s, key, value)
  /\ objs' = Drawn(op[s].obj)
  /\ UNCHANGED <<tables, reg, seq, cat, gens, fellBack, txn, ends, stmts, faults, raced>>

(* Only the rows of the same statement are looked at for a duplicate key.    *)
DuplicateAllowed(sc, rows, i) == FALSE
Duplicate(sc, rows, i) == sc.pk /\ \E j \in 1 .. i - 1 : rows[j].k = rows[i].k

(* One row of INSERT. A row that fails ends the statement; those before stay. *)
InsertRow(s) ==
  LET o == op[s]  i == o.rows + 1  sc == objs[o.obj]
  IN /\ o.pc = "rows"
     /\ \/ /\ i > Len(o.stmt.rows)
           /\ Goto(s, Done(s, o.rows, TRUE))
           /\ UNCHANGED <<store, schemaVars, txnVars, ends, stmts, faults, raced>>
        \/ /\ i <= Len(o.stmt.rows)
           /\ ~Valid(sc, o.stmt.rows[i].b) \/ Duplicate(sc, o.stmt.rows, i) \/ ~MayExtract(sc)
           /\ Goto(s, Done(s, o.rows, FALSE))
           /\ UNCHANGED <<store, schemaVars, txnVars, ends, stmts, faults, raced>>
        \/ /\ i <= Len(o.stmt.rows)
           /\ Valid(sc, o.stmt.rows[i].b) /\ ~Duplicate(sc, o.stmt.rows, i) /\ MayExtract(sc)
           /\ WithinBound(s)
           /\ LET row == [k |-> o.stmt.rows[i].k, b |-> Filled(sc, o.stmt.rows[i].b), gen |-> sc.gen]
              IN Put(s, KeyOf(s, row), row)
           /\ Goto(s, [o EXCEPT !.rows = i])
-----------------------------------------------------------------------------
(* The merge iterator, over its one source: it holds the next node, key and  *)
(* value, from the time it returned the one before.                         *)

Nodes == {key \in Keys : store[key] # NoNode}
Least(S) == CHOOSE x \in S : \A y \in S : x = y \/ Less(x, y)
Fetch(S) == IF S = {} THEN None ELSE [key |-> Least(S), value |-> store[Least(S)]]
NodeAfter(key) == Fetch({x \in Nodes : Less(key, x)})

OpenScan(s) ==
  /\ op[s].pc = "open"
  /\ Goto(s, [op[s] EXCEPT !.item = Fetch(Nodes), !.pc = "scan"])
  /\ UNCHANGED <<store, schemaVars, txnVars, ends, stmts, faults, raced>>

Where(w, row) == w = All \/ row.b = w

(* One turn of the iterator's loop, with the filter over it. *)
ScanNext(s) ==
  LET o == op[s]
  IN /\ o.pc = "scan"
     /\ IF o.item = None THEN Goto(s, Done(s, o.rows, TRUE))
        ELSE LET hit == /\ HasPrefix(o.item.key, o.scan)
                        /\ o.item.value # Tomb
                        /\ Where(o.stmt.where, o.item.value)
             IN Goto(s, [o EXCEPT !.item = NodeAfter(o.item.key),
                                  !.row = IF hit THEN o.item.value ELSE None,
                                  !.pc = IF hit THEN o.stmt.kind ELSE "scan"])
     /\ UNCHANGED <<store, schemaVars, txnVars, ends, stmts, faults, raced>>

Assigned(st, row) == IF st.col = "k" THEN row.k + 1 ELSE row.k
NewB(sc, st, row) == Filled(sc, IF st.col = "b" THEN st.val ELSE row.b)

(* UPDATE writes the new row under the key its own columns give; the old     *)
(* key is left as it is.                                                    *)
UpdateRow(s) ==
  LET o == op[s]  sc == objs[o.obj]
  IN /\ o.pc = "update"
     /\ \/ /\ NewB(sc, o.stmt, o.row) = Null \/ ~MayExtract(sc)
           /\ Goto(s, Done(s, o.rows, FALSE))
           /\ UNCHANGED <<store, schemaVars, txnVars, ends, stmts, faults, raced>>
        \/ /\ NewB(sc, o.stmt, o.row) # Null /\ MayExtract(sc)
           /\ WithinBound(s) /\ Assigned(o.stmt, o.row) <= N
           /\ LET row == [k |-> Assigned(o.stmt, o.row), b |-> NewB(sc, o.stmt, o.row),
                          gen |-> o.row.gen]
              IN Put(s, KeyOf(s, row), row)
           /\ Goto(s, [o EXCEPT !.rows = @ + 1, !.row = None, !.pc = "scan"])

(* DELETE writes a tombstone under the key extractPK gives for the row: for  *)
(* a table without a primary key that is a new row id.                      *)
DeleteRow(s) ==
  LET o == op[s]  sc == objs[o.obj]
  IN /\ o.pc = "delete"
     /\ \/ /\ ~MayExtract(sc)
           /\ Goto(s, Done(s, o.rows, FALSE))
           /\ UNCHANGED <<store, schemaVars, txnVars, ends, stmts, faults, raced>>
        \/ /\ MayExtract(sc) /\ WithinBound(s)
           /\ Put(s, KeyOf(s, o.row), Tomb)
           /\ Goto(s, [o EXCEPT !.rows = @ + 1, !.row = None, !.pc = "scan"])
-----------------------------------------------------------------------------
(* CREATE TABLE and DROP TABLE, over the catalog *)

(* A catalog call writes the whole file, or fails and changes nothing.       *)
Persist(fails, new) ==
  /\ fails => faults < MaxFaults
  /\ faults' = IF fails THEN faults + 1 ELSE faults
  /\ cat' = IF fails THEN cat ELSE new

NextIDKept == cat
AfterNextID == [cat EXCEPT !.next = @ + 1]

CreateTable(s) ==
  /\ op[s].pc = "create"
  /\ Goto(s, IF tables THEN Done(s, 0, FALSE) ELSE [op[s] EXCEPT !.pc = "register"])
  /\ tables' = TRUE
  /\ UNCHANGED <<store, reg, objs, seq, cat, gens, fellBack, txnVars, ends, stmts, faults, raced>>

(* registerStoreSchemaWithFK: a name that is still registered keeps its id   *)
(* and its schema object; otherwise the catalog gives the id, or, when it    *)
(* cannot, the counter of the process.                                      *)
Register(s) ==
  LET st == op[s].stmt
  IN /\ op[s].pc = "register"
     /\ gens' = gens + 1
     /\ \/ /\ reg # None
           /\ objs' = [objs EXCEPT ![reg.obj] = [@ EXCEPT !.pk = st.pk, !.dflt = st.dflt, !.gen = gens + 1]]
           /\ Goto(s, [op[s] EXCEPT !.id = reg.id, !.pc = "hide"])
           /\ UNCHANGED <<reg, seq, cat, faults, fellBack>>
        \/ /\ reg = None
           /\ \E fails \in BOOLEAN :
                LET id == IF fails THEN seq + 1 ELSE cat.next
                IN /\ id <= N
                   /\ Persist(fails, AfterNextID)
                   /\ seq' = IF fails THEN id ELSE seq
                   /\ fellBack' = (fellBack \/ fails)
                   /\ reg' = [id |-> id, obj |-> Len(objs) + 1]
                   /\ objs' = Append(objs, Schema(st.pk, st.dflt, FALSE, gens + 1))
                   /\ Goto(s, [op[s] EXCEPT !.id = id, !.pc = "hide"])
     /\ UNCHANGED <<store, tables, txnVars, ends, stmts, raced>>

(* A table without a primary key is given row ids, if it is still there.     *)
Hide(s) ==
  /\ op[s].pc = "hide"
  /\ objs' = IF reg # None /\ reg.id = op[s].id /\ ~op[s].stmt.pk
             THEN [objs EXCEPT ![reg.obj].hidden = TRUE] ELSE objs
  /\ Goto(s, [op[s] EXCEPT !.pc = "name"])
  /\ UNCHANGED <<store, tables, reg, seq, cat, gens, fellBack, txnVars, ends, stmts, faults, raced>>

(* The id is looked up again for the catalog; a name that has gone is given  *)
(* a new one, or 0 when there is none to be had.                            *)
NameId(s) ==
  LET id == IF reg = None THEN 0 ELSE reg.id
  IN /\ op[s].pc = "name"
     /\ \/ /\ id # 0
           /\ Goto(s, [op[s] EXCEPT !.id = id, !.pc = "put"])
           /\ UNCHANGED <<cat, faults>>
        \/ /\ id = 0
           /\ \E fails \in BOOLEAN :
                /\ cat.next <= N
                /\ Persist(fails, AfterNextID)
                /\ Goto(s, [op[s] EXCEPT !.id = IF fails THEN 0 ELSE cat.next, !.pc = "put"])
     /\ UNCHANGED <<store, tables, reg, objs, seq, gens, fellBack, txnVars, ends, stmts, raced>>

(* Catalog.Put refuses a name that it has; CREATE returns nil either way.    *)
CatalogPut(s) ==
  /\ op[s].pc = "put"
  /\ \/ /\ cat.entry # None
        /\ UNCHANGED <<cat, faults>>
     \/ /\ cat.entry = None
        /\ \E fails \in BOOLEAN :
             Persist(fails, [cat EXCEPT !.entry = [id |-> op[s].id, pk |-> op[s].stmt.pk, gen |-> gens]])
  /\ Goto(s, Done(s, 0, TRUE))
  /\ UNCHANGED <<store, tables, reg, objs, seq, gens, fellBack, txnVars, ends, stmts, raced>>

DropTableKept(s) ==
  /\ op[s].pc = "drop"
  /\ Goto(s, [op[s] EXCEPT !.pc = "unregister"])
  /\ UNCHANGED <<store, schemaVars, txnVars, ends, stmts, faults, raced>>
DropTable(s) ==
  /\ op[s].pc = "drop"
  /\ tables' = FALSE
  /\ Goto(s, [op[s] EXCEPT !.pc = "unregister"])
  /\ UNCHANGED <<store, reg, objs, seq, cat, gens, fellBack, txnVars, ends, stmts, faults, raced>>

Unregister(s) ==
  /\ op[s].pc = "unregister"
  /\ reg' = None
  /\ Goto(s, IF reg = None THEN Done(s, 0, TRUE)
             ELSE [op[s] EXCEPT !.id = reg.id, !.pc = "forget"])
  /\ UNCHANGED <<store, tables, objs, seq, cat, gens, fellBack, txnVars, ends, stmts, faults, raced>>

(* Catalog.Delete finds entries by id; DROP returns nil either way.          *)
HasEntry(id) == cat.entry # None /\ cat.entry.id = id
CatalogDelete(s) ==
  /\ op[s].pc = "forget"
  /\ \/ /\ ~HasEntry(op[s].id)
        /\ UNCHANGED <<cat, faults>>
     \/ /\ HasEntry(op[s].id)
        /\ \E fails \in BOOLEAN : Persist(fails, [cat EXCEPT !.entry = None])
  /\ Goto(s, Done(s, 0, TRUE))
  /\ UNCHANGED <<store, tables, reg, objs, seq, gens, fellBack, txnVars, ends, stmts, raced>>
-----------------------------------------------------------------------------
(* Transactions of sessions *)

Begin(s) ==
  /\ ~Busy(s) /\ ~InTxn(s) /\ stmts < MaxStmts
  /\ LET alone == \A x \in Sessions : ~Busy(x)
     IN txn' = [txn EXCEPT ![s] = [phase |-> "open", alone |-> alone,
                                   base |-> IF alone THEN store ELSE None]]
  /\ stmts' = stmts + 1
  /\ UNCHANGED <<store, schemaVars, writeSet, ends, op, faults, raced>>

(* Commit discards the write set, *)
Commit(s) ==
  /\ ~Busy(s) /\ InTxn(s)
  /\ txn' = [txn EXCEPT ![s] = NoTxn]
  /\ writeSet' = [writeSet EXCEPT ![s] = <<>>]
  /\ UNCHANGED <<store, schemaVars, ends, op, stmts, faults, raced>>

(* Rollback writes back what it holds. *)
Restored(s) ==
  [key \in Keys |-> IF key \notin DOMAIN writeSet[s] THEN store[key]
                    ELSE IF writeSet[s][key] \in {NoNode, Tomb} THEN Tomb ELSE writeSet[s][key]]
Rollback(s) ==
  /\ ~Busy(s) /\ InTxn(s)
  /\ store' = Restored(s)
  /\ txn' = [txn EXCEPT ![s] = [NoTxn EXCEPT !.phase = "rolledBack"]]
  /\ writeSet' = [writeSet EXCEPT ![s] = <<>>]
  /\ UNCHANGED <<schemaVars, ends, op, stmts, faults, raced>>
-----------------------------------------------------------------------------
(* Flushes and restarts *)

Flush ==
  /\ saved # store
  /\ restarts < MaxRestarts   \* bound: no restart would read it
  /\ saved' = store
  /\ UNCHANGED <<store, schemaVars, txnVars, op, stmts, faults, restarts, raced>>

Reopened(r) == /\ tables' = r.tables /\ reg' = r.reg /\ objs' = r.objs /\ seq' = r.seq

Restarted ==
  /\ restarts < MaxRestarts /\ restarts' = restarts + 1
  /\ op' = [s \in Sessions |-> NoOp]
  /\ txn' = [s \in Sessions |-> NoTxn] /\ writeSet' = [s \in Sessions |-> <<>>]
  /\ UNCHANGED <<cat, gens, fellBack, stmts, faults, raced>>

(* Close and Open in one process: the registry of SQL/EX is still there.     *)
Reopen ==
  /\ \A s \in Sessions : ~Busy(s)
  /\ Restarted
  /\ saved' = store /\ UNCHANGED store
  /\ IF reg # None THEN UNCHANGED <<tables, reg, objs, seq>>
     ELSE Reopened(Rehydrate(cat.entry, objs, seq, tables))

(* The process ends, at any point or after a Close (which flushes), and      *)
(* another one opens what the files hold.                                   *)
Restart ==
  /\ Restarted
  /\ store' = saved /\ UNCHANGED saved
  /\ Reopened(Rehydrate(cat.entry, <<>>, 0, FALSE))

StatementStep(s) ==
  \/ Build(s) \/ ScanPrefix(s) \/ BuildWriter(s) \/ WritePrefix(s) \/ InsertRow(s)
  \/ OpenScan(s) \/ ScanNext(s) \/ UpdateRow(s) \/ DeleteRow(s)
  \/ CreateTable(s) \/ Register(s) \/ Hide(s) \/ NameId(s) \/ CatalogPut(s)
  \/ DropTable(s) \/ Unregister(s) \/ CatalogDelete(s) \/ Reply(s)

Next ==
  \/ \E s \in Sessions : \/ \E st \in Statements : Start(s, st)
                         \/ StatementStep(s)
                         \/ Begin(s) \/ Commit(s) \/ Rollback(s)
  \/ Flush \/ Reopen \/ Restart

Spec == Init /\ [][Next]_vars

(* A session inside a call is scheduled. *)
FairSpec == Spec /\ \A s \in Sessions : WF_vars(StatementStep(s))
-----------------------------------------------------------------------------
(* Properties *)

Counters == Nat \X Nat \X Nat \X Nat

(* Variables keep their types: keys hold rows of the two columns, registered *)
(* names point to schema objects that exist.                                *)
TypeOK ==
  /\ \A key \in Keys : store[key] \in Rows \cup {NoNode, Tomb} /\ saved[key] \in Rows \cup {NoNode, Tomb}
  /\ tables \in BOOLEAN /\ fellBack \in BOOLEAN /\ raced \in BOOLEAN
  /\ reg # None => reg.id \in 0 .. N /\ reg.obj \in DOMAIN objs
  /\ cat.next \in 1 .. N + 1 /\ (cat.entry # None => cat.entry.id \in 0 .. N)
  /\ <<gens, stmts, faults, restarts>> \in Counters
  /\ \A s \in Sessions : /\ op[s].stmt \in AllStmts \cup {NoStmt}
                         /\ op[s].obj \in 0 .. Len(objs) /\ op[s].rows \in Nat
                         /\ DOMAIN writeSet[s] \subseteq Keys

Calm == ~fellBack /\ ~raced

(* The rows a table shows are its own: whatever the catalog failed to write  *)
(* and wherever a process ended, a table created anew never shows rows of a  *)
(* dropped one of the same name, which DROP leaves in the store             *)
(* (catalog.go:599, writers.go:948). Not so after the fallback to            *)
(* tableIDSeq, nor when CREATE or DROP overlaps another statement.           *)
NoGhostRows ==
  Calm /\ reg # None =>
    \A key \in Live(store) : HasPrefix(key, reg.id) => store[key].gen = objs[reg.obj].gen

(* With no CREATE or DROP under way, none that overlapped and no catalog     *)
(* write failed, the registry says what the catalog says, and so does what a *)
(* restart will register (writers.go:894, store.go:331); the variables keep   *)
(* their types.                                                             *)
CatalogAgrees ==
  /\ TypeOK
  /\ Calm /\ faults = 0 /\ (\A s \in Sessions : ~IsDDL(op[s].stmt)) =>
       /\ (reg # None) = (cat.entry # None) /\ tables = (reg # None)
       /\ reg # None => /\ reg.id = cat.entry.id
                        /\ objs[reg.obj].pk = cat.entry.pk
                        /\ objs[reg.obj].gen = cat.entry.gen

(* INSERT into a table without a primary key never writes where a row, alive *)
(* or deleted, has been (store.go:594: ids are distinct among concurrent     *)
(* inserts).                                                                *)
RowidsFresh ==
  [][\A s \in Sessions :
       InsertRow(s) /\ Calm /\ ~objs[op[s].obj].pk =>
         \A key \in Keys : store'[key] # store[key] => store[key] = NoNode]_vars

(* A statement on a table with a primary key that ran by itself has done,    *)
(* row for row, what it says, and counted how many rows that was: an INSERT  *)
(* all rows before the first it had to refuse, an UPDATE of b and a DELETE   *)
(* every row that its WHERE names, although the scan reads the memtable that *)
(* the statement is writing. UPDATE of the key and RETURNING are left out.   *)
Accepted(sc, rows) ==
  {i \in DOMAIN rows : \A j \in 1 .. i :
     Valid(sc, rows[j].b) /\ \A h \in 1 .. j - 1 : rows[h].k # rows[j].k}
Named(o) == {key \in Live(o.base) : HasPrefix(key, o.prefix) /\ Where(o.stmt.where, o.base[key])}

InsertEffect(o, sc) ==
  LET good == Accepted(sc, o.stmt.rows)
      at(key) == {i \in good : RowKey(o.prefix, o.stmt.rows[i].k) = key}
  IN /\ o.rows = Cardinality(good) /\ o.ok = (good = DOMAIN o.stmt.rows)
     /\ \A key \in Keys : IF at(key) = {} THEN store[key] = o.base[key]
                          ELSE \A i \in at(key) : store[key].b = Filled(sc, o.stmt.rows[i].b)
UpdateEffect(o, sc) ==
  LET refused == ~Valid(sc, o.stmt.val) /\ Named(o) # {}
      done == IF refused THEN {} ELSE Named(o)
  IN /\ o.rows = Cardinality(done) /\ o.ok = ~refused
     /\ \A key \in Keys : store[key] = IF key \in done
                                       THEN [o.base[key] EXCEPT !.b = Filled(sc, o.stmt.val)]
                                       ELSE o.base[key]
DeleteEffect(o) ==
  /\ o.rows = Cardinality(Named(o)) /\ o.ok
  /\ \A key \in Keys : store[key] = IF key \in Named(o) THEN Tomb ELSE o.base[key]

StatementEffect ==
  \A s \in Sessions :
    LET o == op[s]
    IN Calm /\ o.pc = "done" /\ o.alone /\ ~IsDDL(o.stmt) /\ o.prefix # NoId /\ objs[o.obj].pk =>
         /\ o.stmt.kind = "insert" => InsertEffect(o, objs[o.obj])
         /\ o.stmt.kind = "update" /\ o.stmt.col = "b" => UpdateEffect(o, objs[o.obj])
         /\ o.stmt.kind = "delete" => DeleteEffect(o)

(* A statement returns, although its scan meets the rows that it and others  *)
(* write ahead of it; except an UPDATE of the key, and any on a table        *)
(* without a primary key, whose UPDATE inserts rows ahead of its own scan.   *)
MayRunOn(s) ==
  \/ op[s].stmt.kind = "update" /\ op[s].stmt.col = "k"
  \/ op[s].obj # 0 /\ ~objs[op[s].obj].pk
StatementsEnd ==
  \A s \in Sessions :
    Busy(s) /\ ~IsDDL(op[s].stmt) ~> ~Busy(s) \/ MayRunOn(s)

(* ROLLBACK restores, for each key the transaction wrote, the value before   *)
(* it (SYS/TX/tx.go:21), so that a transaction that ran by itself leaves     *)
(* what it found.                                                           *)
RollbackRestores ==
  [][\A s \in Sessions :
       InTxn(s) /\ txn'[s].phase = "rolledBack" /\ txn[s].alone =>
         \A key \in Keys : IF key \in Live(txn[s].base) THEN store'[key] = txn[s].base[key]
                           ELSE key \notin Live(store')]_vars
=============================================================================
