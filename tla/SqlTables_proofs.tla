-------------------------- MODULE SqlTables_proofs --------------------------
(***************************************************************************)
(* Proofs about statements on tables, for any sessions and statements, any  *)
(* bounds on keys, statements, failed catalog writes and restarts.          *)
(*                                                                          *)
(* The inductive invariant IInv says, besides types, how a calm execution   *)
(* looks: a CREATE or DROP is alone (Undisturbed), what a statement looked  *)
(* up is still registered (Steady), how far a CREATE or DROP has got and    *)
(* what the catalog says then (Phases, Synced), that an id belongs to one   *)
(* incarnation of the table wherever it is written down (Owned), and which  *)
(* ids and row ids have no nodes yet (RowIds).                              *)
(***************************************************************************)
EXTENDS SqlTables, TLAPS, SequenceTheorems, FiniteSetTheorems, WellFoundedInduction

Values  == Rows \cup {NoNode, Tomb}
Objects == [pk : BOOLEAN, dflt : BOOLEAN, hidden : BOOLEAN, next : Nat, gen : Nat]
Entries == [id : 0 .. N, pk : BOOLEAN, gen : Nat]
Refs    == [id : 0 .. N, obj : Nat]
Items   == [key : Keys, value : Rows \cup {Tomb}]
Ids     == 0 .. NoId

\* The statements that can be at each place of the code.
Places(st) ==
  IF st.kind = "create" THEN {"create", "register", "hide", "name", "put", "done"}
  ELSE IF st.kind = "drop" THEN {"drop", "unregister", "forget", "done"}
  ELSE IF st.kind = "insert" THEN {"build", "prefix", "rows", "done"}
  ELSE IF st.kind = "update" THEN {"build", "scanPrefix", "writer", "prefix", "open", "scan", "update", "done"}
  ELSE IF st.kind = "delete" THEN {"build", "scanPrefix", "writer", "prefix", "open", "scan", "delete", "done"}
  ELSE {"idle"}

PCs == {"idle", "create", "register", "hide", "name", "put", "drop", "unregister", "forget", "build",
        "scanPrefix", "writer", "prefix", "rows", "open", "scan", "update", "delete", "done"}
WithSchema == {"scanPrefix", "writer", "prefix", "rows", "open", "scan", "update", "delete"}
WithPrefix == {"rows", "open", "scan", "update", "delete"}
WithId     == {"hide", "name", "put", "forget"}

Stmts == Statements \cup {NoStmt}
Bases == [Keys -> Values] \cup {None}
Ops == [pc : PCs, stmt : Stmts, obj : Nat, id : Ids, scan : Ids, prefix : Ids,
        item : Items \cup {None}, row : Rows \cup {None}, writer : {None}, rows : Nat, ok : BOOLEAN,
        base : Bases, alone : BOOLEAN]

DataTypes ==
  /\ store \in [Keys -> Values] /\ saved \in [Keys -> Values]
  /\ cat \in [next : 1 .. N + 1, entry : Entries \cup {None}]
  /\ objs \in Seq(Objects) /\ seq \in Nat
  /\ reg \in Refs \cup {None} /\ (reg # None => reg.obj \in 1 .. Len(objs))
  /\ tables \in BOOLEAN /\ fellBack \in BOOLEAN /\ raced \in BOOLEAN
  /\ gens \in Nat /\ stmts \in Nat /\ faults \in Nat /\ restarts \in Nat
  /\ writeSet = [s \in Sessions |-> <<>>]

\* An operation with n schema objects made.
OpOK(o, n) ==
  /\ o \in Ops
  /\ o.pc \in Places(o.stmt)
  /\ o.obj \in 0 .. n
  /\ o.pc \in WithSchema => o.obj # 0
  /\ o.pc \in {"update", "delete"} => o.row # None
  /\ o.pc \in WithId => o.id \in 0 .. N
OpTypes ==
  /\ op \in [Sessions -> Ops]
  /\ \A s \in Sessions : OpOK(op[s], Len(objs))

\* A CREATE or DROP that overlaps nothing is the only statement under way.
Undisturbed ==
  ~raced => \A s, x \in Sessions : s # x /\ Busy(s) /\ Busy(x) => ~IsDDL(op[s].stmt)

\* What a statement has looked up is still what is registered: r, of incarnation g.
Current(o, r, g) ==
  /\ o.pc \in WithSchema => r # None /\ o.obj = r.obj
  /\ o.pc \in {"writer", "open", "scan", "update", "delete"} \/ (o.pc = "prefix" /\ o.stmt.kind # "insert")
       => o.scan = r.id
  /\ o.pc \in WithPrefix => o.prefix = r.id
  /\ o.pc \in {"scan", "update", "delete"} /\ o.item # None =>
       (o.item.value # Tomb /\ HasPrefix(o.item.key, r.id) => o.item.value.gen = g)
  /\ o.pc \in {"update", "delete"} => o.row.gen = g
Gen == IF reg = None THEN 0 ELSE objs[reg.obj].gen
Steady == Calm => \A s \in Sessions : Current(op[s], reg, Gen)

\* How far a CREATE or DROP has got.
Phases ==
  Calm =>
    /\ \A s \in Sessions :
         /\ op[s].pc = "register" => tables /\ reg = None
         /\ op[s].pc \in {"hide", "name", "put"} =>
              /\ tables /\ reg # None /\ reg.id = op[s].id
              /\ objs[reg.obj].pk = op[s].stmt.pk /\ objs[reg.obj].gen = gens
         /\ op[s].pc = "hide" => \A key \in Keys : key[1] = reg.id /\ key[2] # 0 => store[key] = NoNode
         /\ op[s].pc = "unregister" => ~tables
         /\ op[s].pc = "forget" => ~tables /\ reg = None
    /\ (\A s \in Sessions : op[s].pc # "unregister") /\ reg # None => tables

Agree ==
  /\ (reg # None) = (cat.entry # None) /\ tables = (reg # None)
  /\ reg # None => /\ reg.id = cat.entry.id
                   /\ objs[reg.obj].pk = cat.entry.pk
                   /\ objs[reg.obj].gen = cat.entry.gen

Between == {"register", "hide", "name", "put", "unregister", "forget"}
Synced ==
  Calm /\ faults = 0 =>
    /\ (\A s \in Sessions : op[s].pc \notin Between) => Agree
    /\ \A s \in Sessions :
         /\ op[s].pc \in {"register", "hide", "name", "put"} => cat.entry = None
         /\ op[s].pc = "unregister" => /\ (reg # None) = (cat.entry # None)
                                       /\ reg # None => reg.id = cat.entry.id
         /\ op[s].pc = "forget" => cat.entry # None /\ cat.entry.id = op[s].id

\* The memory, a file, the catalog or the registry says that i is the id of incarnation g.
Says(i, g) ==
  \/ \E key \in Keys : key[1] = i /\ key[2] # 0 /\ store[key] \in Rows /\ store[key].gen = g
  \/ \E key \in Keys : key[1] = i /\ key[2] # 0 /\ saved[key] \in Rows /\ saved[key].gen = g
  \/ cat.entry # None /\ cat.entry.id = i /\ cat.entry.gen = g
  \/ reg # None /\ reg.id = i /\ objs[reg.obj].gen = g
Owned ==
  Calm =>
    /\ \A i \in 0 .. N, g \in Nat : Says(i, g) => 0 < i /\ i < cat.next
    /\ \A i \in 0 .. N, g, h \in Nat : Says(i, g) /\ Says(i, h) => g = h

\* Ids not handed out have no nodes; row ids not drawn neither.
RowIds ==
  Calm =>
    /\ \A key \in Keys : key[2] # 0 /\ (store[key] # NoNode \/ saved[key] # NoNode) => key[1] < cat.next
    /\ reg # None /\ objs[reg.obj].hidden /\ ~objs[reg.obj].pk =>
         \A key \in Keys : key[1] = reg.id /\ store[key] # NoNode => key[2] <= objs[reg.obj].next

IInv == DataTypes /\ OpTypes /\ Undisturbed /\ Steady /\ Phases /\ Synced /\ Owned /\ RowIds

LEMMA ConstantFacts ==
  /\ N \in Nat \ {0} /\ NoId \in Nat /\ NoId = N + 1
  /\ Null \notin Bs /\ All \notin Bs /\ NoNode \notin Rows /\ Tomb \notin Rows /\ NoNode # Tomb
  /\ None \notin Refs /\ None \notin Entries /\ None \notin Rows /\ None \notin Items
BY TablesAssumption, MarksAssumption DEF NoId, Refs, Entries, Items

\* The kinds of statements and what they carry.
LEMMA StmtFacts ==
  ASSUME NEW st \in Stmts
  PROVE  /\ st.kind \in {"insert", "update", "delete", "create", "drop", "none"}
         /\ st.kind = "insert" => st.rows \in Seq([k : 1 .. N, b : Bs \cup {Null}])
         /\ st.kind = "update" => st.col \in {"k", "b"} /\ st.val \in Bs \cup {Null}
         /\ st.kind = "create" => st.pk \in BOOLEAN /\ st.dflt \in BOOLEAN
         /\ st.kind = "none" <=> st = NoStmt
         /\ st \in AllStmts \cup {NoStmt}
<1>1. CASE st = NoStmt
  BY <1>1 DEF NoStmt
<1>2. CASE st \in Statements
  <2>1. st \in AllStmts
    BY <1>2, TablesAssumption
  <2>2. CASE st \in InsertStmts
    BY <2>1, <2>2 DEF InsertStmts, NoStmt
  <2>3. CASE st \in UpdateStmts
    BY <2>1, <2>3 DEF UpdateStmts, NoStmt
  <2>4. CASE st \in DeleteStmts
    BY <2>1, <2>4 DEF DeleteStmts, NoStmt
  <2>5. CASE st \in CreateStmts
    BY <2>1, <2>5 DEF CreateStmts, NoStmt
  <2>6. CASE st \in DropStmts
    BY <2>1, <2>6 DEF DropStmts, NoStmt
  <2> QED
    BY <2>1, <2>2, <2>3, <2>4, <2>5, <2>6 DEF AllStmts
<1> QED
  BY <1>1, <1>2 DEF Stmts

\* Where an operation is tells its statement, and the other way round.
LEMMA PlaceFacts ==
  ASSUME NEW o, NEW n, OpOK(o, n)
  PROVE  /\ o.stmt \in Stmts /\ o.pc \in PCs
         /\ o.pc \in {"create", "register", "hide", "name", "put"} => o.stmt.kind = "create"
         /\ o.pc \in {"drop", "unregister", "forget"} => o.stmt.kind = "drop"
         /\ o.pc \in {"build", "prefix"} => o.stmt.kind \in {"insert", "update", "delete"}
         /\ o.pc = "rows" => o.stmt.kind = "insert"
         /\ o.pc \in {"scanPrefix", "writer", "open", "scan"} => o.stmt.kind \in {"update", "delete"}
         /\ o.pc = "update" => o.stmt.kind = "update"
         /\ o.pc = "delete" => o.stmt.kind = "delete"
         /\ o.pc = "idle" <=> o.stmt.kind = "none"
<1>1. o.stmt \in Stmts /\ o.pc \in PCs /\ o.pc \in Places(o.stmt)
  BY DEF OpOK, Ops
<1> QED
  BY <1>1, StmtFacts DEF Places

LEMMA NoOpOK ==
  ASSUME NEW n \in Nat
  PROVE  OpOK(NoOp, n)
<1>1. NoOp \in Ops
  BY ConstantFacts DEF NoOp, Ops, PCs, Stmts, Bases, Ids
<1> QED
  BY <1>1 DEF OpOK, NoOp, Places, NoStmt, WithSchema, WithId

\* Updating one operation keeps the types of all.
LEMMA GotoTypes ==
  ASSUME OpTypes, NEW n \in Nat, NEW m \in Nat, n = Len(objs), m = Len(objs'), n <= m,
         NEW s \in Sessions, NEW o, OpOK(o, m), Goto(s, o)
  PROVE  OpTypes'
<1>1. o \in Ops
  BY DEF OpOK
<1>2. op' \in [Sessions -> Ops]
  BY <1>1 DEF Goto, OpTypes
<1>3. \A x \in Sessions : OpOK(op'[x], m)
  <2>1. \A x \in Sessions : OpOK(op[x], m)
    BY DEF OpTypes, OpOK
  <2> QED
    BY <2>1 DEF Goto, OpTypes
<1> QED
  BY <1>2, <1>3 DEF OpTypes

\* A change of place alone.
LEMMA MoveOK ==
  ASSUME NEW o, NEW n \in Nat, OpOK(o, n), NEW p \in Places(o.stmt), p \notin {"update", "delete"},
         p \in WithSchema => o.obj # 0, p \in WithId => o.id \in 0 .. N
  PROVE  OpOK([o EXCEPT !.pc = p], n)
<1>1. o \in Ops /\ o.stmt \in Stmts
  BY DEF OpOK, Ops
<1>2. p \in PCs
  BY <1>1, StmtFacts DEF Places, PCs
<1>3. [o EXCEPT !.pc = p] \in Ops
  BY <1>1, <1>2 DEF Ops
<1> QED
  BY <1>1, <1>3 DEF OpOK, Ops

(***************************************************************************)
(* Types                                                                    *)
(***************************************************************************)

\* What is known of the operation of a session, and of its schema object.
LEMMA OpFacts ==
  ASSUME DataTypes, OpTypes, NEW s \in Sessions
  PROVE  /\ op[s] \in Ops /\ OpOK(op[s], Len(objs)) /\ Len(objs) \in Nat /\ op[s].stmt \in Stmts
         /\ op[s].pc \in WithSchema => op[s].obj \in 1 .. Len(objs) /\ objs[op[s].obj] \in Objects
         /\ reg # None => /\ reg.id \in 0 .. N /\ reg.obj \in 1 .. Len(objs) /\ objs[reg.obj] \in Objects
         /\ IdOf(reg) \in Ids
<1>1. op[s] \in Ops /\ OpOK(op[s], Len(objs))
  BY DEF OpTypes
<1>2. objs \in Seq(Objects) /\ Len(objs) \in Nat
  BY DEF DataTypes
<1>3. \A i \in 1 .. Len(objs) : objs[i] \in Objects
  BY <1>2
<1>4. op[s].pc \in WithSchema => op[s].obj \in 1 .. Len(objs)
  BY <1>1, <1>2 DEF OpOK
<1>5. reg # None => reg.id \in 0 .. N /\ reg.obj \in 1 .. Len(objs)
  BY DEF DataTypes, Refs
<1>6. IdOf(reg) \in Ids
  BY <1>5, ConstantFacts DEF IdOf, Ids
<1>7. op[s].stmt \in Stmts
  BY <1>1 DEF Ops
<1> QED
  BY <1>1, <1>2, <1>3, <1>4, <1>5, <1>6, <1>7

LEMMA ObjectKept ==
  ASSUME DataTypes, NEW i \in 1 .. Len(objs), NEW e \in Objects
  PROVE  /\ [objs EXCEPT ![i] = e] \in Seq(Objects)
         /\ Len([objs EXCEPT ![i] = e]) = Len(objs)
         /\ \A j \in 1 .. Len(objs) : [objs EXCEPT ![i] = e][j] = IF j = i THEN e ELSE objs[j]
<1>1. objs \in Seq(Objects)
  BY DEF DataTypes
<1> QED
  BY <1>1, ExceptSeq

\* Drawing a row id.
LEMMA DrawnFacts ==
  ASSUME DataTypes, NEW i \in 1 .. Len(objs)
  PROVE  /\ Drawn(i) \in Seq(Objects) /\ Len(Drawn(i)) = Len(objs)
         /\ \A j \in 1 .. Len(objs) :
              /\ Drawn(i)[j].pk = objs[j].pk /\ Drawn(i)[j].dflt = objs[j].dflt
              /\ Drawn(i)[j].hidden = objs[j].hidden /\ Drawn(i)[j].gen = objs[j].gen
              /\ Drawn(i)[j].next = IF j = i /\ ~objs[i].pk THEN objs[i].next + 1 ELSE objs[j].next
<1>1. objs \in Seq(Objects) /\ \A j \in 1 .. Len(objs) : objs[j] \in Objects
  <2>1. objs \in Seq(Objects)
    BY DEF DataTypes
  <2> QED
    BY <2>1
<1>2. CASE objs[i].pk
  BY <1>1, <1>2 DEF Drawn, Objects
<1>3. CASE ~objs[i].pk
  <2> DEFINE e == [objs[i] EXCEPT !.next = RowId(objs[i])]
  <2>0. objs[i] \in Objects /\ RowId(objs[i]) \in Nat /\ RowId(objs[i]) = objs[i].next + 1
    BY <1>1 DEF RowId, Objects
  <2>1. e \in Objects
    BY <2>0 DEF Objects
  <2>2. Drawn(i) = [objs EXCEPT ![i] = e]
    BY <1>3 DEF Drawn
  <2>3. /\ e.pk = objs[i].pk /\ e.dflt = objs[i].dflt /\ e.hidden = objs[i].hidden /\ e.gen = objs[i].gen
        /\ e.next = objs[i].next + 1
    BY <2>0 DEF Objects
  <2> HIDE DEF e
  <2>4. /\ Drawn(i) \in Seq(Objects) /\ Len(Drawn(i)) = Len(objs)
        /\ \A j \in 1 .. Len(objs) : Drawn(i)[j] = IF j = i THEN e ELSE objs[j]
    BY <2>1, <2>2, ObjectKept
  <2> QED
    BY <1>3, <2>3, <2>4
<1> QED
  BY <1>2, <1>3

\* The steps of a statement that touch nothing but its own place.
Looks(s) ==
  Build(s) \/ ScanPrefix(s) \/ BuildWriter(s) \/ WritePrefix(s) \/ OpenScan(s) \/ ScanNext(s) \/ Reply(s)

\* A set of numbers that is not empty has a least member.
LEMMA LeastNumber ==
  ASSUME NEW A \in SUBSET Nat, A # {}
  PROVE  \E x \in A : \A y \in A : x <= y
<1>1. \E x \in A : \A y \in A : ~ (<<y, x>> \in OpToRel(<, Nat))
  BY NatLessThanWellFounded, WFMin
<1>2. \A x, y \in Nat : y < x => <<y, x>> \in OpToRel(<, Nat)
  BY DEF OpToRel
<1>3. \A x, y \in Nat : ~ (y < x) => x <= y
  OBVIOUS
<1> QED
  BY <1>1, <1>2, <1>3

\* A set of keys that is not empty has a least one.
LEMMA LeastFacts ==
  ASSUME NEW S \in SUBSET Keys, S # {}
  PROVE  Least(S) \in S /\ \A y \in S : Least(S) = y \/ Less(Least(S), y)
<1> DEFINE A == {x[1] : x \in S}
<1>0. \A x \in S : x[1] \in Nat /\ x[2] \in Nat /\ x = <<x[1], x[2]>>
  BY ConstantFacts DEF Keys
<1>1. PICK i \in A : \A y \in A : i <= y
  <2>1. A \in SUBSET Nat /\ A # {}
    BY <1>0
  <2> HIDE DEF A
  <2> QED
    BY <2>1, LeastNumber
<1> DEFINE B == {j \in Nat : <<i, j>> \in S}
<1>2. PICK j \in B : \A y \in B : j <= y
  <2>1. B \in SUBSET Nat /\ B # {}
    BY <1>0
  <2> HIDE DEF B
  <2> QED
    BY <2>1, LeastNumber
<1>3. <<i, j>> \in S
  OBVIOUS
<1>4. ASSUME NEW y \in S PROVE <<i, j>> = y \/ Less(<<i, j>>, y)
  <2>1. i <= y[1] /\ i \in Nat /\ j \in Nat
    BY <1>0, <1>1
  <2>2. y[1] = i => j <= y[2]
    BY <1>0, <1>2
  <2> QED
    BY <1>0, <2>1, <2>2 DEF Less
<1>5. \E x \in S : \A y \in S : x = y \/ Less(x, y)
  BY <1>3, <1>4
<1> QED
  BY <1>5 DEF Least

\* A fetched node is a node.
LEMMA FetchFacts ==
  ASSUME DataTypes, NEW S \in SUBSET Nodes
  PROVE  /\ Fetch(S) \in Items \cup {None}
         /\ Fetch(S) = None <=> S = {}
         /\ Fetch(S) # None => /\ Fetch(S).key \in S /\ Fetch(S).key \in Keys
                               /\ Fetch(S).value = store[Fetch(S).key]
                               /\ \A y \in S : Fetch(S).key = y \/ Less(Fetch(S).key, y)
<1>1. CASE S = {}
  BY <1>1 DEF Fetch
<1>2. CASE S # {}
  <2>1. S \in SUBSET Keys
    BY DEF Nodes
  <2>2. Least(S) \in S /\ Least(S) \in Keys /\ \A y \in S : Least(S) = y \/ Less(Least(S), y)
    BY <1>2, <2>1, LeastFacts
  <2>3. store[Least(S)] \in Rows \cup {Tomb}
    BY <2>2 DEF Nodes, DataTypes, Values
  <2>4. Fetch(S) = [key |-> Least(S), value |-> store[Least(S)]]
    BY <1>2 DEF Fetch
  <2>5. Fetch(S) \in Items
    BY <2>2, <2>3, <2>4 DEF Items
  <2> QED
    BY <1>2, <2>2, <2>4, <2>5, ConstantFacts
<1> QED
  BY <1>1, <1>2

\* A step that moves one operation and makes no schema object.
LEMMA GotoSame ==
  ASSUME DataTypes, OpTypes, Len(objs') = Len(objs), NEW s \in Sessions, NEW p, OpOK(p, Len(objs)), Goto(s, p)
  PROVE  OpTypes'
<1>1. Len(objs) \in Nat
  BY DEF DataTypes
<1> QED
  BY <1>1, GotoTypes

\* Operations edited.
LEMMA Edits ==
  ASSUME NEW o \in Ops, NEW pc \in PCs
  PROVE  /\ \A a \in Nat : [o EXCEPT !.obj = a, !.pc = pc] \in Ops
         /\ \A i \in Ids : [o EXCEPT !.id = i, !.pc = pc] \in Ops /\ [o EXCEPT !.scan = i, !.pc = pc] \in Ops
                           /\ [o EXCEPT !.prefix = i, !.pc = pc] \in Ops
         /\ \A m \in Items \cup {None} : [o EXCEPT !.item = m, !.pc = pc] \in Ops
         /\ \A m \in Items \cup {None}, r \in Rows \cup {None} : [o EXCEPT !.item = m, !.row = r, !.pc = pc] \in Ops
         /\ \A k \in Nat, b \in BOOLEAN : [o EXCEPT !.pc = pc, !.rows = k, !.ok = b] \in Ops
         /\ \A k \in Nat : [o EXCEPT !.rows = k] \in Ops /\ [o EXCEPT !.rows = k, !.row = None, !.pc = pc] \in Ops
         /\ \A b \in Bases, a \in BOOLEAN : [o EXCEPT !.alone = a, !.base = b] \in Ops
BY DEF Ops

\* An operation that ends.
LEMMA DoneOK ==
  ASSUME DataTypes, OpTypes, NEW s \in Sessions, NEW k \in Nat, NEW b \in BOOLEAN, op[s].pc # "idle"
  PROVE  OpOK(Done(s, k, b), Len(objs))
<1> DEFINE o == op[s]
<1>0. o \in Ops /\ OpOK(o, Len(objs)) /\ Len(objs) \in Nat /\ o.stmt \in Stmts
  BY OpFacts
<1>1. "done" \in Places(o.stmt)
  BY <1>0, StmtFacts, PlaceFacts DEF Places
<1>2. Done(s, k, b) \in Ops
  BY <1>0, Edits DEF Done, PCs
<1> QED
  BY <1>0, <1>1, <1>2 DEF OpOK, Done, Ops, WithSchema, WithId

LEMMA LooksTypes ==
  ASSUME DataTypes, OpTypes, NEW s \in Sessions, Looks(s)
  PROVE  DataTypes' /\ OpTypes'
<1> DEFINE o == op[s]
           n == Len(objs)
<1>0. /\ o \in Ops /\ OpOK(o, n) /\ n \in Nat /\ o.stmt \in Stmts /\ IdOf(reg) \in Ids
      /\ reg # None => reg.obj \in 1 .. n
  BY OpFacts
<1>1. UNCHANGED <<store, saved, cat, objs, seq, reg, tables, fellBack, raced, gens, stmts, faults, restarts, writeSet>>
  BY DEF Looks, Build, ScanPrefix, BuildWriter, WritePrefix, OpenScan, ScanNext, Reply, schemaVars, txnVars, ends
<1>2. DataTypes'
  BY <1>1 DEF DataTypes
<1>3. \E p : Goto(s, p) /\ OpOK(p, n)
  <2> HIDE DEF n
  <2>1. CASE Build(s)
    <3>1. o.pc = "build" /\ o.stmt.kind \in {"insert", "update", "delete"}
      BY <1>0, <2>1, PlaceFacts DEF Build
    <3>2. CASE reg = None
      BY <2>1, <3>1, <3>2, DoneOK DEF Build, n
    <3>3. CASE reg # None
      <4>1. PICK q \in {"prefix", "scanPrefix"} :
              /\ Goto(s, [o EXCEPT !.obj = reg.obj, !.pc = q])
              /\ q = IF o.stmt.kind = "insert" THEN "prefix" ELSE "scanPrefix"
        BY <2>1, <3>3 DEF Build
      <4>2. reg.obj \in Nat /\ reg.obj # 0 /\ reg.obj \in 0 .. n /\ q \in PCs
        BY <1>0, <3>3 DEF PCs
      <4>3. [o EXCEPT !.obj = reg.obj, !.pc = q] \in Ops
        BY <1>0, <4>2, Edits
      <4>4. OpOK([o EXCEPT !.obj = reg.obj, !.pc = q], n)
        BY <1>0, <3>1, <4>1, <4>2, <4>3 DEF OpOK, Ops, Places, WithSchema, WithId
      <4> QED
        BY <4>1, <4>4
    <3> QED
      BY <3>2, <3>3
  <2>2. CASE ScanPrefix(s)
    <3>1. o.pc = "scanPrefix" /\ o.stmt.kind \in {"update", "delete"}
      BY <1>0, <2>2, PlaceFacts DEF ScanPrefix
    <3>2. Goto(s, [o EXCEPT !.scan = IdOf(reg), !.pc = "writer"])
      BY <2>2 DEF ScanPrefix
    <3>3. [o EXCEPT !.scan = IdOf(reg), !.pc = "writer"] \in Ops
      BY <1>0, Edits DEF PCs
    <3>4. OpOK([o EXCEPT !.scan = IdOf(reg), !.pc = "writer"], n)
      BY <1>0, <3>1, <3>3 DEF OpOK, Ops, Places, WithSchema, WithId
    <3> QED
      BY <3>2, <3>4
  <2>3. CASE BuildWriter(s)
    <3>1. o.pc = "writer" /\ o.stmt.kind \in {"update", "delete"}
      BY <1>0, <2>3, PlaceFacts DEF BuildWriter
    <3>2. CASE reg = None
      BY <2>3, <3>1, <3>2, DoneOK DEF BuildWriter, n
    <3>3. CASE reg # None
      <4>1. Goto(s, [o EXCEPT !.obj = reg.obj, !.pc = "prefix"])
        BY <2>3, <3>3 DEF BuildWriter
      <4>2. reg.obj \in Nat /\ reg.obj # 0 /\ reg.obj \in 0 .. n
        BY <1>0, <3>3
      <4>3. [o EXCEPT !.obj = reg.obj, !.pc = "prefix"] \in Ops
        BY <1>0, <4>2, Edits DEF PCs
      <4>4. OpOK([o EXCEPT !.obj = reg.obj, !.pc = "prefix"], n)
        BY <1>0, <3>1, <4>2, <4>3 DEF OpOK, Ops, Places, WithSchema, WithId
      <4> QED
        BY <4>1, <4>4
    <3> QED
      BY <3>2, <3>3
  <2>4. CASE WritePrefix(s)
    <3>1. o.pc = "prefix" /\ o.stmt.kind \in {"insert", "update", "delete"} /\ o.obj # 0
      BY <1>0, <2>4, PlaceFacts DEF WritePrefix, OpOK, WithSchema
    <3>2. CASE o.stmt.ret
      BY <2>4, <3>1, <3>2, DoneOK DEF WritePrefix, n
    <3>3. CASE ~ o.stmt.ret
      <4>1. PICK q \in {"rows", "open"} :
              /\ Goto(s, [o EXCEPT !.prefix = IdOf(reg), !.pc = q])
              /\ q = IF o.stmt.kind = "insert" THEN "rows" ELSE "open"
        BY <2>4, <3>3 DEF WritePrefix
      <4>2. [o EXCEPT !.prefix = IdOf(reg), !.pc = q] \in Ops
        BY <1>0, Edits DEF PCs
      <4>3. OpOK([o EXCEPT !.prefix = IdOf(reg), !.pc = q], n)
        BY <1>0, <3>1, <4>1, <4>2 DEF OpOK, Ops, Places, WithSchema, WithId
      <4> QED
        BY <4>1, <4>3
    <3> QED
      BY <3>2, <3>3
  <2>5. CASE OpenScan(s)
    <3>1. o.pc = "open" /\ o.stmt.kind \in {"update", "delete"} /\ o.obj # 0
      BY <1>0, <2>5, PlaceFacts DEF OpenScan, OpOK, WithSchema
    <3>2. Goto(s, [o EXCEPT !.item = Fetch(Nodes), !.pc = "scan"])
      BY <2>5 DEF OpenScan
    <3>3. Fetch(Nodes) \in Items \cup {None}
      BY FetchFacts
    <3>4. [o EXCEPT !.item = Fetch(Nodes), !.pc = "scan"] \in Ops
      BY <1>0, <3>3, Edits DEF PCs
    <3>5. OpOK([o EXCEPT !.item = Fetch(Nodes), !.pc = "scan"], n)
      BY <1>0, <3>1, <3>4 DEF OpOK, Ops, Places, WithSchema, WithId
    <3> QED
      BY <3>2, <3>5
  <2>6. CASE ScanNext(s)
    <3>1. o.pc = "scan" /\ o.stmt.kind \in {"update", "delete"} /\ o.rows \in Nat /\ o.obj # 0
      BY <1>0, <2>6, PlaceFacts DEF ScanNext, Ops, OpOK, WithSchema
    <3>2. CASE o.item = None
      BY <2>6, <3>1, <3>2, DoneOK DEF ScanNext, n
    <3>3. CASE o.item # None
      <4>1. PICK hit \in BOOLEAN : /\ hit => o.item.value # Tomb
              /\ Goto(s, [o EXCEPT !.item = NodeAfter(o.item.key), !.row = IF hit THEN o.item.value ELSE None,
                                   !.pc = IF hit THEN o.stmt.kind ELSE "scan"])
        BY <2>6, <3>3 DEF ScanNext
      <4>2. PICK m, r, q : /\ m = NodeAfter(o.item.key) /\ r = (IF hit THEN o.item.value ELSE None)
                           /\ q = IF hit THEN o.stmt.kind ELSE "scan"
        OBVIOUS
      <4>3. m \in Items \cup {None}
        BY <4>2, FetchFacts DEF NodeAfter
      <4>4. o.item \in Items
        BY <1>0, <3>3 DEF Ops
      <4>5. r \in Rows \cup {None} /\ (hit => r # None)
        BY <4>1, <4>2, <4>4, ConstantFacts DEF Items
      <4>6. q \in PCs
        BY <3>1, <4>2 DEF PCs
      <4>7. [o EXCEPT !.item = m, !.row = r, !.pc = q] \in Ops
        BY <1>0, <4>3, <4>5, <4>6, Edits
      <4>8. OpOK([o EXCEPT !.item = m, !.row = r, !.pc = q], n)
        BY <1>0, <3>1, <4>2, <4>5, <4>7 DEF OpOK, Ops, Places, WithSchema, WithId
      <4> QED
        BY <4>1, <4>2, <4>8
    <3> QED
      BY <3>2, <3>3
  <2>7. CASE Reply(s)
    BY <1>0, <2>7, NoOpOK DEF Reply
  <2> QED
    BY <2>1, <2>2, <2>3, <2>4, <2>5, <2>6, <2>7 DEF Looks
<1>4. Len(objs') = Len(objs)
  BY <1>1
<1> QED
  BY <1>2, <1>3, <1>4, GotoSame

\* A row or a tombstone written under key k of the prefix the statement looked up.
Wrote(s, k, v) ==
  LET o == op[s]  sc == objs[op[s].obj]
  IN /\ o.pc \in {"rows", "update", "delete"}
     /\ k \in 1 .. N /\ v \in Rows \cup {Tomb}
     /\ Put(s, RowKey(o.prefix, k), v)
     /\ v # Tomb => v.gen = IF o.pc = "rows" THEN sc.gen ELSE o.row.gen
     /\ sc.pk \/ (sc.hidden /\ k = sc.next + 1)
     /\ sc.pk /\ v # Tomb => v.k = k
     /\ \/ o.pc = "rows" /\ Goto(s, [o EXCEPT !.rows = @ + 1])
        \/ o.pc # "rows" /\ Goto(s, [o EXCEPT !.rows = @ + 1, !.row = None, !.pc = "scan"])
\* A row refused, or none left.
Stopped(s) ==
  /\ op[s].pc \in {"rows", "update", "delete"}
  /\ \E k \in Nat, b \in BOOLEAN : Goto(s, Done(s, k, b))
  /\ UNCHANGED <<store, schemaVars, txnVars, ends, stmts, faults, raced>>

LEMMA FilledFacts ==
  ASSUME NEW sc, NEW b \in Bs \cup {Null}, Filled(sc, b) # Null
  PROVE  Filled(sc, b) \in Bs
BY DEF Filled, Default, Bs

\* The key extractPK gives.
LEMMA KeyFacts ==
  ASSUME DataTypes, OpTypes, NEW s \in Sessions, op[s].pc \in WithSchema, NEW row, row.k \in 1 .. N,
         WithinBound(s), MayExtract(objs[op[s].obj])
  PROVE  \E k \in 1 .. N : /\ KeyOf(s, row) = RowKey(op[s].prefix, k)
                           /\ objs[op[s].obj].pk \/ (objs[op[s].obj].hidden /\ k = objs[op[s].obj].next + 1)
                           /\ objs[op[s].obj].pk => k = row.k
<1>1. PICK sc : sc \in Objects /\ sc = objs[op[s].obj]
  BY OpFacts
<1>2. sc.next \in Nat /\ sc.pk \in BOOLEAN /\ sc.hidden \in BOOLEAN
  BY <1>1 DEF Objects
<1>3. CASE sc.pk
  BY <1>1, <1>3 DEF KeyOf
<1>4. CASE ~ sc.pk
  <2>1. sc.next + 1 \in 1 .. N /\ sc.hidden
    BY <1>1, <1>2, <1>4, ConstantFacts DEF WithinBound, MayExtract
  <2>2. KeyOf(s, row) = RowKey(op[s].prefix, sc.next + 1)
    BY <1>1, <1>4 DEF KeyOf, RowId
  <2> QED
    BY <1>1, <1>4, <2>1, <2>2
<1> QED
  BY <1>3, <1>4

\* An element of a sequence.
LEMMA ElementOf ==
  ASSUME NEW T, NEW q \in Seq(T), NEW i \in 1 .. Len(q)
  PROVE  q[i] \in T
OBVIOUS

LEMMA InsertSteps ==
  ASSUME DataTypes, OpTypes, NEW s \in Sessions, InsertRow(s)
  PROVE  Stopped(s) \/ \E k, v : Wrote(s, k, v)
<1> DEFINE o == op[s]
           i == o.rows + 1
           sc == objs[o.obj]
<1>1. /\ o \in Ops /\ o.pc = "rows" /\ o.pc \in WithSchema /\ o.rows \in Nat /\ o.stmt \in Stmts
      /\ o.stmt.kind = "insert" /\ sc \in Objects
  BY OpFacts, PlaceFacts DEF InsertRow, Ops, WithSchema
<1>2. o.stmt.rows \in Seq([k : 1 .. N, b : Bs \cup {Null}])
  BY <1>1, StmtFacts
<1>3. CASE \E b \in BOOLEAN : /\ Goto(s, Done(s, o.rows, b))
                              /\ UNCHANGED <<store, schemaVars, txnVars, ends, stmts, faults, raced>>
  BY <1>1, <1>3 DEF Stopped
<1>4. CASE /\ i <= Len(o.stmt.rows)
           /\ Valid(sc, o.stmt.rows[i].b) /\ ~Duplicate(sc, o.stmt.rows, i) /\ MayExtract(sc)
           /\ WithinBound(s)
           /\ LET row == [k |-> o.stmt.rows[i].k, b |-> Filled(sc, o.stmt.rows[i].b), gen |-> sc.gen]
              IN Put(s, KeyOf(s, row), row)
           /\ Goto(s, [o EXCEPT !.rows = i])
  <2>0. i \in 1 .. Len(o.stmt.rows)
    BY <1>1, <1>2, <1>4
  <2>1. o.stmt.rows[i] \in [k : 1 .. N, b : Bs \cup {Null}]
    BY <1>2, <2>0, ElementOf
  <2>2. PICK row : /\ row = [k |-> o.stmt.rows[i].k, b |-> Filled(sc, o.stmt.rows[i].b), gen |-> sc.gen]
                   /\ Put(s, KeyOf(s, row), row)
    BY <1>4
  <2>3. Filled(sc, o.stmt.rows[i].b) \in Bs
    BY <1>4, <2>1, FilledFacts DEF Valid
  <2>4. sc.gen \in Nat
    BY <1>1 DEF Objects
  <2>5. row \in Rows /\ row.k \in 1 .. N /\ row.gen = sc.gen
    BY <2>1, <2>2, <2>3, <2>4 DEF Rows
  <2>6. PICK k \in 1 .. N : /\ KeyOf(s, row) = RowKey(o.prefix, k)
                            /\ sc.pk \/ (sc.hidden /\ k = sc.next + 1)
                            /\ sc.pk => k = row.k
    BY <1>1, <1>4, <2>5, KeyFacts
  <2>7. Goto(s, [o EXCEPT !.rows = @ + 1])
    BY <1>4
  <2>8. Wrote(s, k, row)
    BY <1>1, <2>2, <2>5, <2>6, <2>7 DEF Wrote
  <2> QED
    BY <2>8
<1> QED
  BY <1>3, <1>4 DEF InsertRow

LEMMA UpdateSteps ==
  ASSUME DataTypes, OpTypes, NEW s \in Sessions, UpdateRow(s)
  PROVE  Stopped(s) \/ \E k, v : Wrote(s, k, v)
<1> DEFINE o == op[s]
           sc == objs[o.obj]
<1>1. /\ o \in Ops /\ o.pc = "update" /\ o.pc \in WithSchema /\ o.rows \in Nat /\ o.stmt \in Stmts
      /\ o.stmt.kind = "update" /\ sc \in Objects /\ o.row \in Rows
  BY OpFacts, PlaceFacts DEF UpdateRow, Ops, OpOK, WithSchema
<1>2. o.stmt.col \in {"k", "b"} /\ o.stmt.val \in Bs \cup {Null} /\ o.row.k \in 1 .. N /\ o.row.b \in Bs /\ o.row.gen \in Nat
  BY <1>1, StmtFacts DEF Rows
<1>3. CASE /\ Goto(s, Done(s, o.rows, FALSE))
           /\ UNCHANGED <<store, schemaVars, txnVars, ends, stmts, faults, raced>>
  BY <1>1, <1>3 DEF Stopped
<1>4. CASE /\ NewB(sc, o.stmt, o.row) # Null /\ MayExtract(sc)
           /\ WithinBound(s) /\ Assigned(o.stmt, o.row) <= N
           /\ LET row == [k |-> Assigned(o.stmt, o.row), b |-> NewB(sc, o.stmt, o.row), gen |-> o.row.gen]
              IN Put(s, KeyOf(s, row), row)
           /\ Goto(s, [o EXCEPT !.rows = @ + 1, !.row = None, !.pc = "scan"])
  <2>1. NewB(sc, o.stmt, o.row) \in Bs
    BY <1>2, <1>4, FilledFacts DEF NewB
  <2>2. Assigned(o.stmt, o.row) \in 1 .. N
    BY <1>2, <1>4, ConstantFacts DEF Assigned
  <2>3. PICK row : /\ row = [k |-> Assigned(o.stmt, o.row), b |-> NewB(sc, o.stmt, o.row), gen |-> o.row.gen]
                   /\ Put(s, KeyOf(s, row), row)
    BY <1>4
  <2>4. row \in Rows /\ row.k \in 1 .. N /\ row.gen = o.row.gen
    BY <1>2, <2>1, <2>2, <2>3 DEF Rows
  <2>5. PICK k \in 1 .. N : /\ KeyOf(s, row) = RowKey(o.prefix, k)
                            /\ sc.pk \/ (sc.hidden /\ k = sc.next + 1)
                            /\ sc.pk => k = row.k
    BY <1>1, <1>4, <2>4, KeyFacts
  <2>6. Wrote(s, k, row)
    BY <1>1, <1>4, <2>3, <2>4, <2>5 DEF Wrote
  <2> QED
    BY <2>6
<1> QED
  BY <1>3, <1>4 DEF UpdateRow

LEMMA DeleteSteps ==
  ASSUME DataTypes, OpTypes, NEW s \in Sessions, DeleteRow(s)
  PROVE  Stopped(s) \/ \E k, v : Wrote(s, k, v)
<1> DEFINE o == op[s]
           sc == objs[o.obj]
<1>1. o \in Ops /\ o.pc = "delete" /\ o.pc \in WithSchema /\ o.rows \in Nat /\ o.row \in Rows
  BY OpFacts DEF DeleteRow, Ops, OpOK, WithSchema
<1>2. o.row.k \in 1 .. N
  BY <1>1 DEF Rows
<1>3. CASE /\ Goto(s, Done(s, o.rows, FALSE))
           /\ UNCHANGED <<store, schemaVars, txnVars, ends, stmts, faults, raced>>
  BY <1>1, <1>3 DEF Stopped
<1>4. CASE /\ MayExtract(sc) /\ WithinBound(s)
           /\ Put(s, KeyOf(s, o.row), Tomb)
           /\ Goto(s, [o EXCEPT !.rows = @ + 1, !.row = None, !.pc = "scan"])
  <2>1. PICK k \in 1 .. N : /\ KeyOf(s, o.row) = RowKey(o.prefix, k)
                            /\ sc.pk \/ (sc.hidden /\ k = sc.next + 1)
    BY <1>1, <1>2, <1>4, KeyFacts
  <2>2. Wrote(s, k, Tomb)
    BY <1>1, <1>4, <2>1 DEF Wrote
  <2> QED
    BY <2>2
<1> QED
  BY <1>3, <1>4 DEF DeleteRow

\* What a written row leaves.
LEMMA WroteTypes ==
  ASSUME DataTypes, OpTypes, NEW s \in Sessions, NEW k, NEW v, Wrote(s, k, v)
  PROVE  DataTypes' /\ OpTypes'
<1> DEFINE o == op[s]
           key == RowKey(o.prefix, k)
<1>0. /\ o \in Ops /\ OpOK(o, Len(objs)) /\ o.pc \in WithSchema /\ o.obj \in 1 .. Len(objs)
      /\ Len(objs) \in Nat /\ o.stmt \in Stmts
  BY OpFacts DEF Wrote, WithSchema
<1>1. key \in Keys
  BY <1>0, ConstantFacts DEF Wrote, RowKey, Keys, Ops, Ids
<1>2. store' = [store EXCEPT ![key] = v] /\ writeSet' = Recorded(s, key, v) /\ objs' = Drawn(o.obj) /\ v \in Values
  BY DEF Wrote, Put, Values
<1>3. UNCHANGED <<tables, reg, seq, cat, gens, fellBack, saved, stmts, faults, restarts, raced>>
  BY DEF Wrote, Put, ends
<1> HIDE DEF key
<1>4. store' \in [Keys -> Values]
  BY <1>1, <1>2 DEF DataTypes
<1>5. objs' \in Seq(Objects) /\ Len(objs') = Len(objs)
  BY <1>0, <1>2, DrawnFacts
<1>6. writeSet' = writeSet
  BY <1>0, <1>2 DEF Recorded, Ops
<1>7. DataTypes'
  BY <1>3, <1>4, <1>5, <1>6 DEF DataTypes
<1>8. \E p : Goto(s, p) /\ OpOK(p, Len(objs))
  <2>0. o.rows + 1 \in Nat
    BY <1>0 DEF Ops
  <2>1. CASE o.pc = "rows" /\ Goto(s, [o EXCEPT !.rows = @ + 1])
    <3>1. [o EXCEPT !.rows = o.rows + 1] \in Ops
      BY <1>0, <2>0 DEF Ops
    <3>2. OpOK([o EXCEPT !.rows = o.rows + 1], Len(objs))
      BY <1>0, <2>1, <3>1 DEF OpOK, Ops
    <3> QED
      BY <2>1, <3>2
  <2>2. CASE o.pc # "rows" /\ Goto(s, [o EXCEPT !.rows = @ + 1, !.row = None, !.pc = "scan"])
    <3>1. [o EXCEPT !.rows = o.rows + 1, !.row = None, !.pc = "scan"] \in Ops
      BY <1>0, <2>0, Edits DEF PCs
    <3>2. o.stmt.kind \in {"update", "delete"}
      BY <1>0, <2>2, PlaceFacts DEF Wrote
    <3>3. OpOK([o EXCEPT !.rows = o.rows + 1, !.row = None, !.pc = "scan"], Len(objs))
      BY <1>0, <3>1, <3>2 DEF OpOK, Ops, Places, WithSchema, WithId
    <3> QED
      BY <2>2, <3>3
  <2> QED
    BY <2>1, <2>2 DEF Wrote
<1> QED
  BY <1>5, <1>7, <1>8, GotoSame

LEMMA StoppedTypes ==
  ASSUME DataTypes, OpTypes, NEW s \in Sessions, Stopped(s)
  PROVE  DataTypes' /\ OpTypes'
<1>1. UNCHANGED <<store, saved, cat, objs, seq, reg, tables, fellBack, raced, gens, stmts, faults, restarts, writeSet>>
  BY DEF Stopped, schemaVars, txnVars, ends
<1>2. DataTypes'
  BY <1>1 DEF DataTypes
<1>3. PICK k \in Nat, b \in BOOLEAN : Goto(s, Done(s, k, b))
  BY DEF Stopped
<1>4. OpOK(Done(s, k, b), Len(objs))
  BY DoneOK DEF Stopped
<1> QED
  BY <1>1, <1>2, <1>3, <1>4, GotoSame

\* A catalog call keeps the catalog's type.
LEMMA PersistTypes ==
  ASSUME DataTypes, NEW fails \in BOOLEAN, NEW new \in [next : 1 .. N + 1, entry : Entries \cup {None}], Persist(fails, new)
  PROVE  cat' \in [next : 1 .. N + 1, entry : Entries \cup {None}] /\ faults' \in Nat
BY DEF Persist, DataTypes

LEMMA CatalogFacts ==
  ASSUME DataTypes
  PROVE  /\ cat.next \in 1 .. N + 1 /\ cat.entry \in Entries \cup {None}
         /\ cat.next <= N => AfterNextID \in [next : 1 .. N + 1, entry : Entries \cup {None}]
         /\ AfterNextID.next = cat.next + 1 /\ AfterNextID.entry = cat.entry
         /\ \A e \in Entries \cup {None} : /\ [cat EXCEPT !.entry = e] \in [next : 1 .. N + 1, entry : Entries \cup {None}]
                                           /\ [cat EXCEPT !.entry = e].next = cat.next
                                           /\ [cat EXCEPT !.entry = e].entry = e
<1>1. N \in Nat /\ cat \in [next : 1 .. N + 1, entry : Entries \cup {None}]
  BY ConstantFacts DEF DataTypes
<1>2. cat.next \in 1 .. N + 1 /\ cat.entry \in Entries \cup {None}
  BY <1>1
<1>3. cat.next <= N => cat.next + 1 \in 1 .. N + 1
  BY <1>1, <1>2
<1> QED
  BY <1>1, <1>2, <1>3 DEF AfterNextID

LEMMA SchemaType ==
  ASSUME NEW pk \in BOOLEAN, NEW dflt \in BOOLEAN, NEW hidden \in BOOLEAN, NEW gen \in Nat
  PROVE  Schema(pk, dflt, hidden, gen) \in Objects
BY DEF Schema, Objects

\* A schema object is made.
LEMMA Appended ==
  ASSUME DataTypes, NEW e \in Objects
  PROVE  /\ Append(objs, e) \in Seq(Objects) /\ Len(Append(objs, e)) = Len(objs) + 1
         /\ Append(objs, e)[Len(objs) + 1] = e
         /\ \A i \in 1 .. Len(objs) : Append(objs, e)[i] = objs[i]
<1>1. objs \in Seq(Objects)
  BY DEF DataTypes
<1> QED
  BY <1>1, AppendProperties

\* What openCatalog registers.
Opens(r, entry, objects, t) ==
  /\ r.tables \in BOOLEAN /\ r.seq \in Nat /\ r.reg \in Refs \cup {None} /\ r.objs \in Seq(Objects)
  /\ entry = None => r.reg = None /\ r.objs = objects /\ r.tables = t
  /\ entry # None => /\ r.tables = TRUE /\ r.reg # None /\ r.reg.id = entry.id
                     /\ r.reg.obj \in 1 .. Len(r.objs)
                     /\ r.objs[r.reg.obj] = Schema(entry.pk, FALSE, FALSE, entry.gen)
LEMMA RehydrateTypes ==
  ASSUME NEW entry \in Entries \cup {None}, NEW objects \in Seq(Objects), NEW q \in Nat, NEW t \in BOOLEAN
  PROVE  Opens(Rehydrate(entry, objects, q, t), entry, objects, t)
<1> DEFINE r == Rehydrate(entry, objects, q, t)
<1>1. CASE entry = None
  BY <1>1 DEF Rehydrate, Opens
<1>2. CASE entry # None
  <2>1. entry.id \in 0 .. N /\ entry.pk \in BOOLEAN /\ entry.gen \in Nat /\ N \in Nat
    BY <1>2, ConstantFacts DEF Entries
  <2> DEFINE e == Schema(entry.pk, FALSE, FALSE, entry.gen)
  <2>2. e \in Objects
    BY <2>1, SchemaType
  <2>3. r = [tables |-> TRUE, reg |-> [id |-> entry.id, obj |-> Len(objects) + 1], objs |-> Append(objects, e),
             seq |-> IF entry.id >= q THEN entry.id ELSE q]
    BY <1>2 DEF Rehydrate, r
  <2> HIDE DEF e, r
  <2>4. Append(objects, e) \in Seq(Objects) /\ Len(Append(objects, e)) = Len(objects) + 1 /\ Len(objects) \in Nat
        /\ Append(objects, e)[Len(objects) + 1] = e
    BY <2>2, AppendProperties
  <2>5. r.reg = [id |-> entry.id, obj |-> Len(objects) + 1] /\ r.objs = Append(objects, e) /\ r.tables = TRUE
        /\ r.seq = (IF entry.id >= q THEN entry.id ELSE q)
    BY <2>3
  <2>6. r.reg \in Refs /\ r.reg.id = entry.id /\ r.reg.obj = Len(objects) + 1
    BY <2>1, <2>4, <2>5 DEF Refs
  <2>7. r.seq \in Nat
    BY <2>1, <2>5
  <2>8. r.reg # None
    BY <2>6, ConstantFacts
  <2>9. r.objs[r.reg.obj] = e /\ r.reg.obj = Len(r.objs) /\ r.reg.obj \in 1 .. Len(r.objs)
    BY <2>4, <2>5, <2>6
  <2>10. r.objs[r.reg.obj] = Schema(entry.pk, FALSE, FALSE, entry.gen)
    BY <2>9 DEF e
  <2>11. r.tables = TRUE /\ r.tables \in BOOLEAN /\ r.objs \in Seq(Objects) /\ r.reg \in Refs \cup {None}
    BY <2>4, <2>5, <2>6
  <2>12. Opens(r, entry, objects, t)
    BY <1>2, <2>6, <2>7, <2>8, <2>9, <2>10, <2>11 DEF Opens
  <2> QED
    BY <2>12 DEF r
<1> QED
  BY <1>1, <1>2

LEMMA HideOK ==
  ASSUME NEW o, NEW n \in Nat, OpOK(o, n), o.pc = "register", NEW i \in 0 .. N, NEW m \in Nat, n <= m
  PROVE  OpOK([o EXCEPT !.id = i, !.pc = "hide"], m)
<1>1. o \in Ops /\ o.stmt.kind = "create" /\ i \in Ids
  BY PlaceFacts, ConstantFacts DEF OpOK, Ids
<1>2. [o EXCEPT !.id = i, !.pc = "hide"] \in Ops
  BY <1>1, Edits DEF PCs
<1> QED
  BY <1>1, <1>2 DEF OpOK, Ops, Places, WithSchema, WithId

LEMMA RegisterTypes ==
  ASSUME DataTypes, OpTypes, NEW s \in Sessions, Register(s)
  PROVE  DataTypes' /\ OpTypes'
<1> DEFINE o == op[s]
           st == op[s].stmt
<1>0. /\ o \in Ops /\ OpOK(o, Len(objs)) /\ Len(objs) \in Nat /\ o.pc = "register" /\ st \in Stmts /\ st.kind = "create"
      /\ st.pk \in BOOLEAN /\ st.dflt \in BOOLEAN
  BY OpFacts, PlaceFacts, StmtFacts DEF Register
<1>1. UNCHANGED <<store, saved, tables, raced, stmts, restarts, writeSet>> /\ gens' = gens + 1 /\ gens' \in Nat
  <2>1. gens' = gens + 1 /\ UNCHANGED <<store, tables, txnVars, ends, stmts, raced>>
    BY Zenon DEF Register
  <2>2. gens \in Nat
    BY DEF DataTypes
  <2> QED
    BY <2>1, <2>2 DEF txnVars, ends
<1>2. \A i \in 0 .. N, m \in Nat : Len(objs) <= m => OpOK([o EXCEPT !.id = i, !.pc = "hide"], m)
  BY <1>0, HideOK
<1>3. CASE /\ reg # None
           /\ objs' = [objs EXCEPT ![reg.obj] = [@ EXCEPT !.pk = st.pk, !.dflt = st.dflt, !.gen = gens + 1]]
           /\ Goto(s, [o EXCEPT !.id = reg.id, !.pc = "hide"])
           /\ UNCHANGED <<reg, seq, cat, faults, fellBack>>
  <2>1. reg.obj \in 1 .. Len(objs) /\ objs[reg.obj] \in Objects /\ reg.id \in 0 .. N
    BY <1>3, OpFacts
  <2>2. PICK e \in Objects : objs' = [objs EXCEPT ![reg.obj] = e]
    <3>1. [objs[reg.obj] EXCEPT !.pk = st.pk, !.dflt = st.dflt, !.gen = gens + 1] \in Objects
      BY <1>0, <1>1, <2>1 DEF Objects
    <3> QED
      BY <1>3, <3>1
  <2>3. objs' \in Seq(Objects) /\ Len(objs') = Len(objs)
    BY <2>1, <2>2, ObjectKept
  <2>4. DataTypes'
    BY <1>1, <1>3, <2>3 DEF DataTypes
  <2>5. OpOK([o EXCEPT !.id = reg.id, !.pc = "hide"], Len(objs))
    <3>1. Len(objs) <= Len(objs)
      BY <1>0
    <3> QED
      BY <1>0, <1>2, <2>1, <3>1
  <2> QED
    BY <1>3, <2>3, <2>4, <2>5, GotoSame
<1>4. CASE /\ reg = None
           /\ \E fails \in BOOLEAN :
                LET id == IF fails THEN seq + 1 ELSE cat.next
                IN /\ id <= N
                   /\ Persist(fails, AfterNextID)
                   /\ seq' = IF fails THEN id ELSE seq
                   /\ fellBack' = (fellBack \/ fails)
                   /\ reg' = [id |-> id, obj |-> Len(objs) + 1]
                   /\ objs' = Append(objs, Schema(st.pk, st.dflt, FALSE, gens + 1))
                   /\ Goto(s, [o EXCEPT !.id = id, !.pc = "hide"])
  <2>1. PICK fails \in BOOLEAN, id \in {seq + 1, cat.next} :
           /\ id = (IF fails THEN seq + 1 ELSE cat.next) /\ id <= N
           /\ Persist(fails, AfterNextID)
           /\ seq' = (IF fails THEN id ELSE seq)
           /\ fellBack' = (fellBack \/ fails)
           /\ reg' = [id |-> id, obj |-> Len(objs) + 1]
           /\ objs' = Append(objs, Schema(st.pk, st.dflt, FALSE, gens + 1))
           /\ Goto(s, [o EXCEPT !.id = id, !.pc = "hide"])
    BY <1>4
  <2>2. id \in 0 .. N /\ id \in Nat
    BY <2>1, CatalogFacts, ConstantFacts DEF DataTypes
  <2>3. cat' \in [next : 1 .. N + 1, entry : Entries \cup {None}] /\ faults' \in Nat
    <3>1. CASE fails
      BY <2>1, <3>1 DEF Persist, DataTypes
    <3>2. CASE ~ fails
      BY <2>1, <3>2, PersistTypes, CatalogFacts
    <3> QED
      BY <3>1, <3>2
  <2>4. Schema(st.pk, st.dflt, FALSE, gens + 1) \in Objects
    BY <1>0, <1>1, SchemaType
  <2>5. objs' \in Seq(Objects) /\ Len(objs') = Len(objs) + 1
    BY <2>1, <2>4, Appended
  <2>6. reg' \in Refs /\ reg'.obj \in 1 .. Len(objs')
    BY <1>0, <2>1, <2>2, <2>5 DEF Refs
  <2>7. seq' \in Nat /\ fellBack' \in BOOLEAN
    BY <2>1, <2>2 DEF DataTypes
  <2>8. DataTypes'
    BY <1>1, <2>3, <2>5, <2>6, <2>7 DEF DataTypes
  <2>9. OpOK([o EXCEPT !.id = id, !.pc = "hide"], Len(objs) + 1)
    <3>1. Len(objs) + 1 \in Nat /\ Len(objs) <= Len(objs) + 1
      BY <1>0
    <3> QED
      BY <1>2, <2>2, <3>1
  <2> QED
    BY <1>0, <2>1, <2>5, <2>8, <2>9, GotoTypes
<1> QED
  BY <1>3, <1>4 DEF Register

\* An operation goes on, with an id or without.
LEMMA MoveIdOK ==
  ASSUME NEW o, NEW n \in Nat, OpOK(o, n), NEW p \in Places(o.stmt), p \notin {"update", "delete"} \cup WithSchema,
         NEW i \in 0 .. N
  PROVE  OpOK([o EXCEPT !.id = i, !.pc = p], n)
<1>1. o \in Ops /\ o.stmt \in Stmts /\ i \in Ids
  BY ConstantFacts DEF OpOK, Ops, Ids
<1>2. p \in PCs
  BY <1>1, StmtFacts DEF Places, PCs
<1>3. [o EXCEPT !.id = i, !.pc = p] \in Ops
  BY <1>1, <1>2, Edits
<1> QED
  BY <1>1, <1>3 DEF OpOK, Ops

\* The other steps of CREATE and DROP: what each of them does.
DDLRest(s) ==
  CreateTable(s) \/ Hide(s) \/ NameId(s) \/ CatalogPut(s) \/ DropTable(s) \/ Unregister(s) \/ CatalogDelete(s)

LEMMA DDLTypes ==
  ASSUME DataTypes, OpTypes, NEW s \in Sessions, DDLRest(s)
  PROVE  DataTypes' /\ OpTypes'
<1> DEFINE o == op[s]
           n == Len(objs)
           Cats == [next : 1 .. N + 1, entry : Entries \cup {None}]
<1>0. /\ o \in Ops /\ OpOK(o, n) /\ n \in Nat /\ o.stmt \in Stmts
      /\ reg # None => reg.id \in 0 .. N /\ reg.obj \in 1 .. n /\ objs[reg.obj] \in Objects
  BY OpFacts
<1>1. CASE CreateTable(s)
  <2>1. o.pc = "create" /\ o.stmt.kind = "create"
    BY <1>0, <1>1, PlaceFacts DEF CreateTable
  <2>2. UNCHANGED <<store, saved, cat, objs, seq, reg, fellBack, raced, gens, stmts, faults, restarts, writeSet>> /\ tables' = TRUE
    BY <1>1 DEF CreateTable, txnVars, ends
  <2>3. DataTypes'
    BY <2>2 DEF DataTypes
  <2>4. OpOK([o EXCEPT !.pc = "register"], n)
    BY <1>0, <2>1, MoveOK DEF Places, WithSchema, WithId
  <2>5. OpOK(Done(s, 0, FALSE), n)
    BY <2>1, DoneOK
  <2>6. Goto(s, Done(s, 0, FALSE)) \/ Goto(s, [o EXCEPT !.pc = "register"])
    BY <1>1 DEF CreateTable
  <2> QED
    BY <2>2, <2>3, <2>4, <2>5, <2>6, GotoSame
<1>2. CASE Hide(s)
  <2>1. o.pc = "hide" /\ o.stmt.kind = "create" /\ o.id \in 0 .. N
    BY <1>0, <1>2, PlaceFacts DEF Hide, OpOK, WithId
  <2>2. UNCHANGED <<store, saved, cat, seq, reg, tables, fellBack, raced, gens, stmts, faults, restarts, writeSet>>
    BY <1>2 DEF Hide, txnVars, ends
  <2>3. objs' \in Seq(Objects) /\ Len(objs') = Len(objs)
    <3>1. CASE objs' = objs
      BY <3>1 DEF DataTypes
    <3>2. CASE reg # None /\ objs' = [objs EXCEPT ![reg.obj].hidden = TRUE]
      <4>1. [objs[reg.obj] EXCEPT !.hidden = TRUE] \in Objects
        BY <1>0, <3>2 DEF Objects
      <4>2. PICK e \in Objects : objs' = [objs EXCEPT ![reg.obj] = e]
        BY <3>2, <4>1
      <4> QED
        BY <1>0, <3>2, <4>2, ObjectKept
    <3> QED
      BY <1>2, <3>1, <3>2 DEF Hide
  <2>4. DataTypes'
    BY <2>2, <2>3 DEF DataTypes
  <2>5. OpOK([o EXCEPT !.pc = "name"], n)
    BY <1>0, <2>1, MoveOK DEF Places, WithSchema, WithId
  <2> QED
    BY <1>2, <2>3, <2>4, <2>5, GotoSame DEF Hide
<1>3. CASE NameId(s)
  <2>1. o.pc = "name" /\ o.stmt.kind = "create"
    BY <1>0, <1>3, PlaceFacts DEF NameId
  <2>2. UNCHANGED <<store, saved, objs, seq, reg, tables, fellBack, raced, gens, stmts, restarts, writeSet>>
    BY <1>3 DEF NameId, txnVars, ends
  <2>3. 0 \in 0 .. N /\ (cat.next <= N => cat.next \in 0 .. N) /\ (reg # None => reg.id \in 0 .. N)
    BY <1>0, CatalogFacts, ConstantFacts
  <2>4. cat' \in Cats /\ faults' \in Nat /\ \E i \in 0 .. N : Goto(s, [o EXCEPT !.id = i, !.pc = "put"])
    <3>1. CASE reg # None /\ Goto(s, [o EXCEPT !.id = reg.id, !.pc = "put"]) /\ UNCHANGED <<cat, faults>>
      BY <2>3, <3>1 DEF DataTypes
    <3>2. ASSUME NEW fails \in BOOLEAN, cat.next <= N, Persist(fails, AfterNextID),
                 Goto(s, [o EXCEPT !.id = IF fails THEN 0 ELSE cat.next, !.pc = "put"])
          PROVE  cat' \in Cats /\ faults' \in Nat /\ \E i \in 0 .. N : Goto(s, [o EXCEPT !.id = i, !.pc = "put"])
      <4>1. AfterNextID \in Cats
        BY <3>2, CatalogFacts
      <4>2. cat' \in Cats /\ faults' \in Nat
        BY <3>2, <4>1, PersistTypes
      <4>3. (IF fails THEN 0 ELSE cat.next) \in 0 .. N
        BY <2>3, <3>2
      <4> QED
        BY <3>2, <4>2, <4>3
    <3>3. \/ reg # None /\ Goto(s, [o EXCEPT !.id = reg.id, !.pc = "put"]) /\ UNCHANGED <<cat, faults>>
          \/ \E fails \in BOOLEAN : /\ cat.next <= N /\ Persist(fails, AfterNextID)
                                    /\ Goto(s, [o EXCEPT !.id = IF fails THEN 0 ELSE cat.next, !.pc = "put"])
      BY <1>3 DEF NameId
    <3> HIDE DEF Cats
    <3> QED
      BY <3>1, <3>2, <3>3
  <2>5. DataTypes'
    BY <2>2, <2>4 DEF DataTypes
  <2>6. \A i \in 0 .. N : OpOK([o EXCEPT !.id = i, !.pc = "put"], n)
    BY <1>0, <2>1, MoveIdOK DEF Places, WithSchema
  <2> QED
    BY <2>2, <2>4, <2>5, <2>6, GotoSame
<1>4. CASE CatalogPut(s)
  <2>1. o.pc = "put" /\ o.stmt.kind = "create" /\ o.id \in 0 .. N /\ o.stmt.pk \in BOOLEAN
    BY <1>0, <1>4, PlaceFacts, StmtFacts DEF CatalogPut, OpOK, WithId
  <2>2. UNCHANGED <<store, saved, objs, seq, reg, tables, fellBack, raced, gens, stmts, restarts, writeSet>>
    BY <1>4 DEF CatalogPut, txnVars, ends
  <2>3. [cat EXCEPT !.entry = [id |-> o.id, pk |-> o.stmt.pk, gen |-> gens]] \in Cats
    <3>1. [id |-> o.id, pk |-> o.stmt.pk, gen |-> gens] \in Entries \cup {None}
      BY <2>1 DEF Entries, DataTypes
    <3> QED
      BY <3>1, CatalogFacts
  <2>4. \/ UNCHANGED <<cat, faults>>
        \/ \E fails \in BOOLEAN : Persist(fails, [cat EXCEPT !.entry = [id |-> o.id, pk |-> o.stmt.pk, gen |-> gens]])
    BY <1>4 DEF CatalogPut
  <2>5. cat' \in Cats /\ faults' \in Nat
    BY <2>3, <2>4, PersistTypes DEF DataTypes
  <2>6. DataTypes'
    BY <2>2, <2>5 DEF DataTypes
  <2> QED
    BY <1>4, <2>1, <2>2, <2>6, DoneOK, GotoSame DEF CatalogPut
<1>5. CASE DropTable(s)
  <2>1. o.pc = "drop" /\ o.stmt.kind = "drop"
    BY <1>0, <1>5, PlaceFacts DEF DropTable
  <2>2. UNCHANGED <<store, saved, cat, objs, seq, reg, fellBack, raced, gens, stmts, faults, restarts, writeSet>> /\ tables' = FALSE
    BY <1>5 DEF DropTable, txnVars, ends
  <2>3. DataTypes'
    BY <2>2 DEF DataTypes
  <2>4. OpOK([o EXCEPT !.pc = "unregister"], n)
    BY <1>0, <2>1, MoveOK DEF Places, WithSchema, WithId
  <2> QED
    BY <1>5, <2>2, <2>3, <2>4, GotoSame DEF DropTable
<1>6. CASE Unregister(s)
  <2>1. o.pc = "unregister" /\ o.stmt.kind = "drop"
    BY <1>0, <1>6, PlaceFacts DEF Unregister
  <2>2. UNCHANGED <<store, saved, cat, objs, seq, tables, fellBack, raced, gens, stmts, faults, restarts, writeSet>> /\ reg' = None
    BY <1>6 DEF Unregister, txnVars, ends
  <2>3. DataTypes'
    BY <2>2 DEF DataTypes
  <2>4. reg # None => OpOK([o EXCEPT !.id = reg.id, !.pc = "forget"], n)
    BY <1>0, <2>1, MoveIdOK DEF Places, WithSchema
  <2>5. OpOK(Done(s, 0, TRUE), n)
    BY <2>1, DoneOK
  <2>6. Goto(s, Done(s, 0, TRUE)) \/ (reg # None /\ Goto(s, [o EXCEPT !.id = reg.id, !.pc = "forget"]))
    BY <1>6 DEF Unregister
  <2> QED
    BY <2>2, <2>3, <2>4, <2>5, <2>6, GotoSame
<1>7. CASE CatalogDelete(s)
  <2>1. o.pc = "forget"
    BY <1>7 DEF CatalogDelete
  <2>2. UNCHANGED <<store, saved, objs, seq, reg, tables, fellBack, raced, gens, stmts, restarts, writeSet>>
    BY <1>7 DEF CatalogDelete, txnVars, ends
  <2>3. [cat EXCEPT !.entry = None] \in Cats
    BY CatalogFacts
  <2>4. UNCHANGED <<cat, faults>> \/ \E fails \in BOOLEAN : Persist(fails, [cat EXCEPT !.entry = None])
    BY <1>7 DEF CatalogDelete
  <2>5. cat' \in Cats /\ faults' \in Nat
    BY <2>3, <2>4, PersistTypes DEF DataTypes
  <2>6. DataTypes'
    BY <2>2, <2>5 DEF DataTypes
  <2> QED
    BY <1>7, <2>1, <2>2, <2>6, DoneOK, GotoSame DEF CatalogDelete
<1> QED
  BY <1>1, <1>2, <1>3, <1>4, <1>5, <1>6, <1>7 DEF DDLRest

\* A statement starts.
LEMMA StartTypes ==
  ASSUME DataTypes, OpTypes, NEW s \in Sessions, NEW st \in Statements, Start(s, st)
  PROVE  /\ DataTypes' /\ OpTypes'
         /\ op'[s].pc = (IF IsDDL(st) THEN st.kind ELSE "build") /\ op'[s].stmt = st
         /\ \A x \in Sessions \ {s} : /\ op'[x].pc = op[x].pc /\ op'[x].stmt = op[x].stmt /\ op'[x].obj = op[x].obj
                                      /\ op'[x].id = op[x].id /\ op'[x].scan = op[x].scan /\ op'[x].prefix = op[x].prefix
                                      /\ op'[x].item = op[x].item /\ op'[x].row = op[x].row
<1>1. UNCHANGED <<store, saved, cat, objs, seq, reg, tables, fellBack, gens, faults, restarts, writeSet>>
  BY DEF Start, schemaVars, ends
<1>2. stmts' \in Nat /\ raced' \in BOOLEAN
  <2>0. stmts' = stmts + 1
    BY Zenon DEF Start
  <2>1. stmts' \in Nat
    BY <2>0 DEF DataTypes
  <2>2. PICK R \in BOOLEAN : raced' = R
    <3> DEFINE R == raced \/ \E x \in {y \in Sessions : Busy(y)} : IsDDL(st) \/ IsDDL(op[x].stmt)
    <3>1. raced' = R
      BY Zenon DEF Start
    <3>2. R \in BOOLEAN
      BY Zenon
    <3> HIDE DEF R
    <3> QED
      BY <3>1, <3>2
  <2> QED
    BY <2>1, <2>2
<1>3. DataTypes'
  BY <1>1, <1>2 DEF DataTypes
<1>4. Len(objs) \in Nat /\ \A x \in Sessions : op[x] \in Ops /\ OpOK(op[x], Len(objs))
  BY DEF DataTypes, OpTypes
<1> DEFINE q == IF IsDDL(st) THEN st.kind ELSE "build"
           F(x, a, b) == IF x = s THEN [NoOp EXCEPT !.pc = q, !.stmt = st, !.alone = a, !.base = b]
                         ELSE IF Busy(x) THEN [op[x] EXCEPT !.alone = FALSE, !.base = None] ELSE op[x]
<1>5. PICK a \in BOOLEAN, b \in Bases : op' = [x \in Sessions |-> F(x, a, b)]
  <2>1. store \in Bases /\ None \in Bases
    BY DEF DataTypes, Bases
  <2>2. \E a \in BOOLEAN, b \in {store, None} : op' = [x \in Sessions |-> F(x, a, b)]
    BY DEF Start
  <2> HIDE DEF F
  <2> QED
    BY <2>1, <2>2
<1>6. op'[s] = [NoOp EXCEPT !.pc = q, !.stmt = st, !.alone = a, !.base = b]
  BY <1>5
<1>7. \A x \in Sessions \ {s} : op'[x] = op[x] \/ op'[x] = [op[x] EXCEPT !.alone = FALSE, !.base = None]
  BY <1>5
<1>8. q \in Places(st) /\ q \in PCs /\ q \in {"create", "drop", "build"} /\ st \in Stmts
  <2>1. st \in Stmts /\ st.kind \in {"insert", "update", "delete", "create", "drop"}
    <3>1. st \in AllStmts
      BY TablesAssumption
    <3> QED
      BY <3>1 DEF Stmts, AllStmts, InsertStmts, UpdateStmts, DeleteStmts, CreateStmts, DropStmts
  <2> QED
    BY <2>1 DEF Places, PCs, IsDDL
<1> HIDE DEF q, F
<1>9. op'[s] \in Ops /\ OpOK(op'[s], Len(objs)) /\ op'[s].pc = q /\ op'[s].stmt = st
  <2>0. NoOp \in Ops /\ NoOp.obj = 0
    BY <1>4, NoOpOK DEF OpOK, NoOp
  <2>1. op'[s] \in Ops /\ op'[s].pc = q /\ op'[s].stmt = st /\ op'[s].obj = NoOp.obj
    BY <1>5, <1>6, <1>8, <2>0 DEF Ops
  <2> QED
    BY <1>4, <1>8, <2>0, <2>1 DEF OpOK, WithSchema, WithId
<1>10. ASSUME NEW x \in Sessions \ {s}
       PROVE  /\ op'[x] \in Ops /\ OpOK(op'[x], Len(objs))
              /\ op'[x].pc = op[x].pc /\ op'[x].stmt = op[x].stmt /\ op'[x].obj = op[x].obj
              /\ op'[x].id = op[x].id /\ op'[x].scan = op[x].scan /\ op'[x].prefix = op[x].prefix
              /\ op'[x].item = op[x].item /\ op'[x].row = op[x].row
  <2>1. CASE op'[x] = op[x]
    BY <1>4, <2>1
  <2>2. CASE op'[x] = [op[x] EXCEPT !.alone = FALSE, !.base = None]
    <3>1. op'[x] \in Ops
      <4>1. None \in Bases /\ op[x] \in Ops
        BY <1>4 DEF Bases
      <4> QED
        BY <2>2, <4>1 DEF Ops
    <3>2. /\ op'[x].pc = op[x].pc /\ op'[x].stmt = op[x].stmt /\ op'[x].obj = op[x].obj
          /\ op'[x].id = op[x].id /\ op'[x].scan = op[x].scan /\ op'[x].prefix = op[x].prefix
          /\ op'[x].item = op[x].item /\ op'[x].row = op[x].row
      BY <1>4, <2>2 DEF Ops
    <3>3. OpOK(op'[x], Len(objs))
      BY <1>4, <3>1, <3>2 DEF OpOK
    <3> QED
      BY <3>1, <3>2, <3>3
  <2> QED
    BY <1>7, <2>1, <2>2
<1>11. op' \in [Sessions -> Ops]
  <2>1. \A x \in Sessions : op'[x] \in Ops
    BY <1>9, <1>10
  <2> QED
    BY <1>5, <2>1
<1>12. OpTypes'
  BY <1>1, <1>9, <1>10, <1>11 DEF OpTypes
<1> QED
  BY <1>3, <1>9, <1>10, <1>12 DEF q

\* Transactions and flushes; a write set is always empty.
LEMMA SessionTypes ==
  ASSUME DataTypes, OpTypes, (\E s \in Sessions : Begin(s) \/ Commit(s) \/ Rollback(s)) \/ Flush
  PROVE  /\ DataTypes' /\ OpTypes'
         /\ UNCHANGED <<store, schemaVars, op, faults, raced>> /\ saved' \in {saved, store}
<1>1. UNCHANGED <<schemaVars, op, faults, raced, restarts>> /\ saved' \in {saved, store} /\ stmts' \in Nat
  BY DEF Begin, Commit, Rollback, Flush, ends, txnVars, DataTypes
<1>2. writeSet' = writeSet
  <2>1. ASSUME NEW s \in Sessions, writeSet' = [writeSet EXCEPT ![s] = <<>>] PROVE writeSet' = writeSet
    BY <2>1 DEF DataTypes
  <2> QED
    BY <2>1 DEF Begin, Commit, Rollback, Flush, txnVars
<1>3. store' = store
  <2>1. ASSUME NEW s \in Sessions PROVE Restored(s) = store
    <3>1. DOMAIN writeSet[s] = {}
      BY DEF DataTypes
    <3> QED
      BY <3>1 DEF Restored, DataTypes
  <2> QED
    BY <2>1 DEF Begin, Commit, Rollback, Flush
<1>4. DataTypes'
  BY <1>1, <1>2, <1>3 DEF DataTypes, schemaVars
<1>5. OpTypes'
  BY <1>1 DEF OpTypes, schemaVars
<1> QED
  BY <1>1, <1>3, <1>4, <1>5

\* The engine or the process ends, and the catalog is read.
LEMMA RestartTypes ==
  ASSUME DataTypes, OpTypes, Reopen \/ Restart
  PROVE  /\ DataTypes' /\ OpTypes'
         /\ \A s \in Sessions : op'[s] = NoOp
         /\ UNCHANGED <<cat, gens, fellBack, faults, raced>>
         /\ store' \in {store, saved} /\ saved' \in {store, saved}
         /\ \/ store' = store /\ reg # None /\ UNCHANGED <<tables, reg, objs>> /\ Reopen
            \/ /\ cat.entry = None /\ reg' = None
               /\ (tables' = FALSE \/ (tables' = tables /\ reg = None /\ Reopen))
            \/ /\ cat.entry # None /\ tables' /\ reg' # None
               /\ reg'.id = cat.entry.id /\ objs'[reg'.obj] = Schema(cat.entry.pk, FALSE, FALSE, cat.entry.gen)
<1>1. /\ UNCHANGED <<cat, gens, fellBack, stmts, faults, raced>> /\ restarts' \in Nat
      /\ op' = [s \in Sessions |-> NoOp] /\ writeSet' = [s \in Sessions |-> <<>>]
      /\ store' \in {store, saved} /\ saved' \in {store, saved}
  <2>1. Restarted /\ store' \in {store, saved} /\ saved' \in {store, saved}
    BY Zenon DEF Reopen, Restart
  <2>2. restarts' = restarts + 1
    BY <2>1, Zenon DEF Restarted
  <2>3. restarts' \in Nat
    BY <2>2 DEF DataTypes
  <2>4. /\ UNCHANGED <<cat, gens, fellBack, stmts, faults, raced>>
        /\ op' = [s \in Sessions |-> NoOp] /\ writeSet' = [s \in Sessions |-> <<>>]
    BY <2>1, Zenon DEF Restarted
  <2> QED
    BY <2>1, <2>3, <2>4
<1>2. \A n \in Nat : OpOK(NoOp, n)
  BY NoOpOK
<1>3. cat.entry \in Entries \cup {None} /\ objs \in Seq(Objects) /\ seq \in Nat /\ tables \in BOOLEAN
  BY CatalogFacts DEF DataTypes
<1> DEFINE Got == /\ tables' \in BOOLEAN /\ seq' \in Nat /\ reg' \in Refs \cup {None} /\ objs' \in Seq(Objects)
                  /\ reg' # None => reg'.obj \in 1 .. Len(objs')
           How == \/ store' = store /\ reg # None /\ UNCHANGED <<tables, reg, objs>> /\ Reopen
                  \/ /\ cat.entry = None /\ reg' = None
                     /\ (tables' = FALSE \/ (tables' = tables /\ reg = None /\ Reopen))
                  \/ /\ cat.entry # None /\ tables' /\ reg' # None
                     /\ reg'.id = cat.entry.id /\ objs'[reg'.obj] = Schema(cat.entry.pk, FALSE, FALSE, cat.entry.gen)
<1>4. Got /\ How
  <2>1. CASE Reopen /\ reg # None
    BY <2>1 DEF Reopen, DataTypes
  <2>2. CASE Reopen /\ reg = None
    <3>1. PICK r : r = Rehydrate(cat.entry, objs, seq, tables) /\ Reopened(r)
      BY <2>2 DEF Reopen
    <3>2. tables' = r.tables /\ reg' = r.reg /\ objs' = r.objs /\ seq' = r.seq
      BY <3>1 DEF Reopened
    <3>3. Opens(r, cat.entry, objs, tables)
      BY <1>3, <3>1, RehydrateTypes
    <3> QED
      BY <2>2, <3>2, <3>3 DEF Opens
  <2>3. CASE Restart
    <3>1. PICK r : r = Rehydrate(cat.entry, <<>>, 0, FALSE) /\ Reopened(r)
      BY <2>3 DEF Restart
    <3>2. tables' = r.tables /\ reg' = r.reg /\ objs' = r.objs /\ seq' = r.seq
      BY <3>1 DEF Reopened
    <3>3. <<>> \in Seq(Objects)
      OBVIOUS
    <3>4. Opens(r, cat.entry, <<>>, FALSE)
      BY <1>3, <3>1, <3>3, RehydrateTypes
    <3> QED
      BY <3>2, <3>4 DEF Opens
  <2> QED
    BY <2>1, <2>2, <2>3
<1>5. DataTypes'
  <2>1. cat' \in [next : 1 .. N + 1, entry : Entries \cup {None}] /\ gens' \in Nat /\ stmts' \in Nat /\ faults' \in Nat
        /\ fellBack' \in BOOLEAN /\ raced' \in BOOLEAN
    BY <1>1 DEF DataTypes
  <2>2. store' \in [Keys -> Values] /\ saved' \in [Keys -> Values]
    BY <1>1 DEF DataTypes
  <2> QED
    BY <1>1, <1>4, <2>1, <2>2 DEF DataTypes
<1>6. OpTypes'
  <2>1. Len(objs') \in Nat
    BY <1>4
  <2>2. NoOp \in Ops
    BY <1>2, <2>1 DEF OpOK
  <2> QED
    BY <1>1, <1>2, <2>1, <2>2 DEF OpTypes
<1> QED
  BY <1>1, <1>4, <1>5, <1>6

\* The steps: of a statement, its start, of transactions and files, of restarts.
LEMMA NextSteps ==
  ASSUME Next
  PROVE  \/ \E s \in Sessions : \/ Looks(s) \/ Stopped(s) \/ InsertRow(s) \/ UpdateRow(s) \/ DeleteRow(s)
                               \/ Register(s) \/ DDLRest(s)
         \/ \E s \in Sessions : \E st \in Statements : Start(s, st)
         \/ (\E s \in Sessions : Begin(s) \/ Commit(s) \/ Rollback(s)) \/ Flush
         \/ Reopen \/ Restart
<1>1. ASSUME NEW s \in Sessions, StatementStep(s)
      PROVE  \/ Looks(s) \/ Stopped(s) \/ InsertRow(s) \/ UpdateRow(s) \/ DeleteRow(s) \/ Register(s) \/ DDLRest(s)
  BY <1>1, Zenon DEF StatementStep, Looks, DDLRest
<1> QED
  BY <1>1, Zenon DEF Next

\* Every step keeps the types.
LEMMA TypesStep ==
  ASSUME DataTypes, OpTypes, Next
  PROVE  DataTypes' /\ OpTypes'
<1>1. CASE \E s \in Sessions : \/ Looks(s) \/ Stopped(s) \/ InsertRow(s) \/ UpdateRow(s) \/ DeleteRow(s)
                                 \/ Register(s) \/ DDLRest(s)
  <2>1. PICK s \in Sessions : \/ Looks(s) \/ Stopped(s) \/ InsertRow(s) \/ UpdateRow(s) \/ DeleteRow(s)
                               \/ Register(s) \/ DDLRest(s)
    BY <1>1
  <2>2. CASE Looks(s) \/ Register(s) \/ DDLRest(s)
    BY <2>2, LooksTypes, RegisterTypes, DDLTypes
  <2>3. CASE Stopped(s) \/ \E k, v : Wrote(s, k, v)
    BY <2>3, StoppedTypes, WroteTypes
  <2> QED
    BY <2>1, <2>2, <2>3, InsertSteps, UpdateSteps, DeleteSteps
<1>2. CASE \E s \in Sessions : \E st \in Statements : Start(s, st)
  BY <1>2, StartTypes
<1>3. CASE (\E s \in Sessions : Begin(s) \/ Commit(s) \/ Rollback(s)) \/ Flush
  BY <1>3, SessionTypes
<1>4. CASE Reopen \/ Restart
  BY <1>4, RestartTypes
<1> QED
  BY <1>1, <1>2, <1>3, <1>4, NextSteps

(***************************************************************************)
(* Steps that leave the store, the registry and the catalog alone           *)
(***************************************************************************)
Agrees(o, p) ==
  /\ p.pc = o.pc /\ p.stmt = o.stmt /\ p.obj = o.obj /\ p.id = o.id
  /\ p.scan = o.scan /\ p.prefix = o.prefix /\ p.item = o.item /\ p.row = o.row
Quietly(o, p) == o.pc \notin Between /\ p.pc \notin Between /\ (Calm => Current(p, reg, Gen))

DataInv == Steady /\ Phases /\ Synced /\ Owned /\ RowIds

LEMMA AgreesCurrent ==
  ASSUME NEW o, NEW p, NEW r, NEW g, Agrees(o, p), Current(o, r, g)
  PROVE  Current(p, r, g)
BY DEF Agrees, Current

LEMMA DataKept ==
  ASSUME DataTypes, DataInv,
         UNCHANGED <<store, tables, reg, objs, cat, gens, fellBack, faults>>, saved' \in {saved, store},
         Calm' => Calm,
         \A x \in Sessions : Agrees(op[x], op'[x]) \/ Quietly(op[x], op'[x])
  PROVE  DataInv'
<1>1. Steady'
  <2> SUFFICES ASSUME Calm', NEW x \in Sessions PROVE Current(op'[x], reg', Gen')
    BY DEF Steady
  <2>1. reg' = reg /\ Gen' = Gen
    BY DEF Gen
  <2>2. Current(op[x], reg, Gen)
    BY DEF DataInv, Steady
  <2>3. Current(op'[x], reg, Gen)
    BY <2>2, AgreesCurrent DEF Quietly
  <2> QED
    BY <2>1, <2>3
<1>2. Phases'
  <2> SUFFICES ASSUME Calm' PROVE Phases'
    BY DEF Phases
  <2>1. Phases /\ Calm
    BY DEF DataInv
  <2>2. \A x \in Sessions : Agrees(op[x], op'[x]) \/ (op[x].pc \notin Between /\ op'[x].pc \notin Between)
    BY DEF Quietly
  <2> QED
    BY <2>1, <2>2 DEF Phases, Agrees, Between
<1>3. Synced'
  <2> SUFFICES ASSUME Calm' PROVE Synced'
    BY DEF Synced
  <2>1. Synced /\ Calm
    BY DEF DataInv
  <2>2. \A x \in Sessions : Agrees(op[x], op'[x]) \/ (op[x].pc \notin Between /\ op'[x].pc \notin Between)
    BY DEF Quietly
  <2> QED
    BY <2>1, <2>2 DEF Synced, Agrees, Between, Agree
<1>4. Owned'
  <2>1. ASSUME NEW i, NEW g, Says(i, g)' PROVE Says(i, g)
    BY <2>1 DEF Says
  <2> QED
    BY <2>1 DEF Owned, DataInv
<1>5. RowIds'
  BY DEF RowIds, DataInv
<1> QED
  BY <1>1, <1>2, <1>3, <1>4, <1>5 DEF DataInv

\* Nothing starts.
LEMMA UndisturbedKept ==
  ASSUME Undisturbed, ~raced' => ~raced,
         \A x \in Sessions : op'[x].pc # "idle" => op[x].pc # "idle" /\ op'[x].stmt = op[x].stmt
  PROVE  Undisturbed'
BY DEF Undisturbed, Busy

\* In a calm execution a CREATE or DROP is alone.
LEMMA Alone ==
  ASSUME Undisturbed, OpTypes, Calm, NEW s \in Sessions, NEW x \in Sessions, s # x, Busy(s), IsDDL(op[s].stmt)
  PROVE  op[x].pc = "idle"
BY DEF Undisturbed, Calm, Busy

LEMMA Moved ==
  ASSUME OpTypes, NEW s \in Sessions, NEW p, Goto(s, p)
  PROVE  op'[s] = p /\ \A x \in Sessions : x # s => op'[x] = op[x]
BY DEF Goto, OpTypes

LEMMA StartKeeps ==
  ASSUME IInv, NEW s \in Sessions, NEW st \in Statements, Start(s, st)
  PROVE  Undisturbed' /\ DataInv'
<1>1. /\ UNCHANGED <<store, tables, reg, objs, cat, gens, fellBack, faults, saved>>
      /\ ~Busy(s)
      /\ raced' = (raced \/ \E x \in {x \in Sessions : Busy(x)} : IsDDL(st) \/ IsDDL(op[x].stmt))
  BY Zenon DEF Start, schemaVars, ends
<1>2. /\ op'[s].pc = (IF IsDDL(st) THEN st.kind ELSE "build") /\ op'[s].stmt = st
      /\ \A x \in Sessions \ {s} : Agrees(op[x], op'[x])
  BY StartTypes DEF IInv, Agrees
<1>3. Undisturbed'
  <2> SUFFICES ASSUME ~raced', NEW x \in Sessions, NEW y \in Sessions, x # y, Busy(x)', Busy(y)'
               PROVE  ~IsDDL(op'[x].stmt)
    BY DEF Undisturbed
  <2>1. ~raced /\ \A z \in Sessions : Busy(z) => ~IsDDL(st) /\ ~IsDDL(op[z].stmt)
    BY <1>1
  <2>2. \A z \in Sessions \ {s} : Busy(z)' => Busy(z)
    BY <1>2 DEF Agrees, Busy
  <2>3. CASE x = s
    BY <1>2, <2>1, <2>2, <2>3
  <2>4. CASE x # s
    BY <1>2, <2>1, <2>2, <2>4 DEF Agrees
  <2> QED
    BY <2>3, <2>4
<1>4. Quietly(op[s], op'[s])
  <2>1. op[s].pc = "idle" /\ op'[s].pc \in {"create", "drop", "build"}
    BY <1>1, <1>2 DEF Busy, IsDDL
  <2> QED
    BY <2>1 DEF Quietly, Between, Current, WithSchema, WithPrefix
<1>5. Calm' => Calm
  BY <1>1 DEF Calm
<1>6. \A x \in Sessions : Agrees(op[x], op'[x]) \/ Quietly(op[x], op'[x])
  BY <1>2, <1>4
<1>7. DataInv'
  BY <1>1, <1>5, <1>6, DataKept DEF IInv, DataInv
<1> QED
  BY <1>3, <1>7

LEMMA SessionKeeps ==
  ASSUME IInv, (\E s \in Sessions : Begin(s) \/ Commit(s) \/ Rollback(s)) \/ Flush
  PROVE  Undisturbed' /\ DataInv'
<1>1. UNCHANGED <<store, schemaVars, op, faults, raced>> /\ saved' \in {saved, store}
  BY SessionTypes DEF IInv
<1>2. Undisturbed'
  BY <1>1, UndisturbedKept DEF IInv
<1>3. Calm' => Calm
  BY <1>1 DEF Calm, schemaVars
<1>4. \A x \in Sessions : Agrees(op[x], op'[x])
  BY <1>1 DEF Agrees
<1>5. DataInv'
  BY <1>1, <1>3, <1>4, DataKept DEF IInv, DataInv, schemaVars
<1> QED
  BY <1>2, <1>5

\* The rows that a table shows are of the incarnation it is registered as.
LEMMA OwnRows ==
  ASSUME DataTypes, OpTypes, Owned, Calm, reg # None
  PROVE  /\ 0 < reg.id /\ reg.id < cat.next /\ Gen \in Nat /\ Says(reg.id, Gen)
         /\ \A key \in Keys : store[key] \in Rows /\ HasPrefix(key, reg.id) => store[key].gen = Gen
<1>1. reg.id \in 0 .. N /\ objs[reg.obj] \in Objects
  BY DEF DataTypes, Refs
<1>2. Gen \in Nat /\ Gen = objs[reg.obj].gen
  BY <1>1 DEF Gen, Objects
<1>3. Says(reg.id, Gen)
  BY <1>2 DEF Says
<1>4. 0 < reg.id /\ reg.id < cat.next
  BY <1>1, <1>2, <1>3 DEF Owned
<1>5. ASSUME NEW key \in Keys, store[key] \in Rows, HasPrefix(key, reg.id) PROVE store[key].gen = Gen
  <2>1. key[1] = reg.id /\ key[2] # 0
    BY <1>1, <1>5, ConstantFacts DEF HasPrefix
  <2>2. Says(reg.id, store[key].gen) /\ store[key].gen \in Nat
    BY <1>5, <2>1 DEF Says, Rows
  <2> QED
    BY <1>1, <1>2, <1>3, <2>2 DEF Owned
<1> QED
  BY <1>2, <1>3, <1>4, <1>5

\* So are the rows of the nodes that a scan fetches.
LEMMA FetchedRows ==
  ASSUME DataTypes, OpTypes, Owned, Calm, reg # None, NEW S \in SUBSET Nodes, NEW m, m = Fetch(S), m # None,
         m.value # Tomb, HasPrefix(m.key, reg.id)
  PROVE  m.value.gen = Gen
<1>1. m.key \in Keys /\ m.value = store[m.key] /\ m \in Items
  BY FetchFacts
<1>2. m.value \in Rows
  BY <1>1 DEF Items
<1> QED
  BY <1>1, <1>2, OwnRows

LEMMA LooksQuietly ==
  ASSUME IInv, NEW s \in Sessions, Looks(s)
  PROVE  /\ Quietly(op[s], op'[s])
         /\ op'[s].pc # "idle" => op[s].pc # "idle" /\ op'[s].stmt = op[s].stmt
<1> DEFINE o == op[s]
<1>0. /\ o \in Ops /\ OpOK(o, Len(objs)) /\ o.stmt \in Stmts /\ DataTypes /\ OpTypes /\ Owned
      /\ Calm => Current(o, reg, Gen)
      /\ reg # None => IdOf(reg) = reg.id
  BY OpFacts DEF IInv, Steady, IdOf
<1>1. ASSUME NEW k, NEW b, o.pc \notin Between, Goto(s, Done(s, k, b)), o.pc # "idle"
      PROVE  Quietly(o, op'[s]) /\ op'[s].stmt = o.stmt /\ o.pc # "idle"
  <2>1. op'[s] = Done(s, k, b)
    BY <1>0, <1>1, Moved
  <2>2. op'[s].pc = "done" /\ op'[s].stmt = o.stmt
    BY <1>0, <2>1 DEF Done, Ops
  <2> QED
    BY <1>1, <2>2 DEF Quietly, Between, Current, WithSchema, WithPrefix
<1>2. CASE Build(s)
  <2>1. o.pc = "build"
    BY <1>2 DEF Build
  <2>2. CASE reg = None
    BY <1>1, <1>2, <2>1, <2>2 DEF Build, Between
  <2>3. CASE reg # None
    <3>1. PICK q \in {"prefix", "scanPrefix"} :
            /\ Goto(s, [o EXCEPT !.obj = reg.obj, !.pc = q])
            /\ q = IF o.stmt.kind = "insert" THEN "prefix" ELSE "scanPrefix"
      BY <1>2, <2>3 DEF Build
    <3>2. op'[s] = [o EXCEPT !.obj = reg.obj, !.pc = q]
      BY <1>0, <3>1, Moved
    <3>3. op'[s].pc = q /\ op'[s].obj = reg.obj /\ op'[s].stmt = o.stmt
      BY <1>0, <3>2 DEF Ops
    <3> QED
      BY <2>1, <2>3, <3>1, <3>3 DEF Quietly, Between, Current, WithSchema, WithPrefix
  <2> QED
    BY <2>2, <2>3
<1>3. CASE ScanPrefix(s)
  <2>1. o.pc = "scanPrefix"
    BY <1>3 DEF ScanPrefix
  <2>2. op'[s] = [o EXCEPT !.scan = IdOf(reg), !.pc = "writer"]
    BY <1>0, <1>3, Moved DEF ScanPrefix
  <2>3. op'[s].pc = "writer" /\ op'[s].obj = o.obj /\ op'[s].stmt = o.stmt /\ op'[s].scan = IdOf(reg)
    BY <1>0, <2>2 DEF Ops
  <2> QED
    BY <1>0, <2>1, <2>3 DEF Quietly, Between, Current, WithSchema, WithPrefix
<1>4. CASE BuildWriter(s)
  <2>1. o.pc = "writer"
    BY <1>4 DEF BuildWriter
  <2>2. CASE reg = None
    BY <1>1, <1>4, <2>1, <2>2 DEF BuildWriter, Between
  <2>3. CASE reg # None
    <3>1. op'[s] = [o EXCEPT !.obj = reg.obj, !.pc = "prefix"]
      BY <1>0, <1>4, <2>3, Moved DEF BuildWriter
    <3>2. op'[s].pc = "prefix" /\ op'[s].obj = reg.obj /\ op'[s].stmt = o.stmt /\ op'[s].scan = o.scan
      BY <1>0, <3>1 DEF Ops
    <3> QED
      BY <1>0, <2>1, <2>3, <3>2 DEF Quietly, Between, Current, WithSchema, WithPrefix
  <2> QED
    BY <2>2, <2>3
<1>5. CASE WritePrefix(s)
  <2>1. o.pc = "prefix"
    BY <1>5 DEF WritePrefix
  <2>2. CASE o.stmt.ret
    BY <1>1, <1>5, <2>1, <2>2 DEF WritePrefix, Between
  <2>3. CASE ~ o.stmt.ret
    <3>1. PICK q \in {"rows", "open"} :
            /\ Goto(s, [o EXCEPT !.prefix = IdOf(reg), !.pc = q])
            /\ q = IF o.stmt.kind = "insert" THEN "rows" ELSE "open"
      BY <1>5, <2>3 DEF WritePrefix
    <3>2. op'[s] = [o EXCEPT !.prefix = IdOf(reg), !.pc = q]
      BY <1>0, <3>1, Moved
    <3>3. op'[s].pc = q /\ op'[s].obj = o.obj /\ op'[s].stmt = o.stmt /\ op'[s].scan = o.scan /\ op'[s].prefix = IdOf(reg)
      BY <1>0, <3>2 DEF Ops
    <3> QED
      BY <1>0, <2>1, <3>1, <3>3 DEF Quietly, Between, Current, WithSchema, WithPrefix
  <2> QED
    BY <2>2, <2>3
<1>6. CASE OpenScan(s)
  <2>1. o.pc = "open"
    BY <1>6 DEF OpenScan
  <2>2. op'[s] = [o EXCEPT !.item = Fetch(Nodes), !.pc = "scan"]
    BY <1>0, <1>6, Moved DEF OpenScan
  <2>3. /\ op'[s].pc = "scan" /\ op'[s].obj = o.obj /\ op'[s].stmt = o.stmt /\ op'[s].scan = o.scan
        /\ op'[s].prefix = o.prefix /\ op'[s].item = Fetch(Nodes)
    BY <1>0, <2>2 DEF Ops
  <2>4. Calm /\ reg # None /\ op'[s].item # None /\ op'[s].item.value # Tomb /\ HasPrefix(op'[s].item.key, reg.id)
          => op'[s].item.value.gen = Gen
    BY <1>0, <2>3, FetchedRows
  <2> QED
    BY <1>0, <2>1, <2>3, <2>4 DEF Quietly, Between, Current, WithSchema, WithPrefix
<1>7. CASE ScanNext(s)
  <2>1. o.pc = "scan" /\ o.stmt.kind \in {"update", "delete"}
    BY <1>0, <1>7, PlaceFacts DEF ScanNext
  <2>2. CASE o.item = None
    BY <1>1, <1>7, <2>1, <2>2 DEF ScanNext, Between
  <2>3. CASE o.item # None
    <3>1. PICK hit \in BOOLEAN :
            /\ hit => HasPrefix(o.item.key, o.scan) /\ o.item.value # Tomb
            /\ Goto(s, [o EXCEPT !.item = NodeAfter(o.item.key), !.row = IF hit THEN o.item.value ELSE None,
                                 !.pc = IF hit THEN o.stmt.kind ELSE "scan"])
      BY <1>7, <2>3 DEF ScanNext
    <3>2. PICK m, r, q : /\ m = NodeAfter(o.item.key) /\ r = (IF hit THEN o.item.value ELSE None)
                         /\ q = IF hit THEN o.stmt.kind ELSE "scan"
      OBVIOUS
    <3>3. op'[s] = [o EXCEPT !.item = m, !.row = r, !.pc = q]
      BY <1>0, <3>1, <3>2, Moved
    <3>4. /\ op'[s].pc = q /\ op'[s].obj = o.obj /\ op'[s].stmt = o.stmt /\ op'[s].scan = o.scan
          /\ op'[s].prefix = o.prefix /\ op'[s].item = m /\ op'[s].row = r
      BY <1>0, <3>3 DEF Ops
    <3>5. Calm /\ reg # None /\ m # None /\ m.value # Tomb /\ HasPrefix(m.key, reg.id) => m.value.gen = Gen
      BY <1>0, <3>2, FetchedRows DEF NodeAfter
    <3>6. Calm => reg # None /\ o.scan = reg.id
      BY <1>0, <2>1 DEF Current, WithSchema
    <3>7. Calm /\ hit => r.gen = Gen
      BY <1>0, <2>1, <2>3, <3>1, <3>2, <3>6 DEF Current
    <3>8. q \in {"scan", "update", "delete"} /\ (q # "scan" => hit)
      BY <2>1, <3>2
    <3> QED
      BY <1>0, <2>1, <3>4, <3>5, <3>6, <3>7, <3>8 DEF Quietly, Between, Current, WithSchema, WithPrefix
  <2> QED
    BY <2>2, <2>3
<1>8. CASE Reply(s)
  <2>1. o.pc = "done" /\ op'[s] = NoOp
    BY <1>0, <1>8, Moved DEF Reply
  <2> QED
    BY <2>1 DEF NoOp, Quietly, Between, Current, WithSchema, WithPrefix
<1> QED
  BY <1>2, <1>3, <1>4, <1>5, <1>6, <1>7, <1>8 DEF Looks

LEMMA QuietKeeps ==
  ASSUME IInv, NEW s \in Sessions, Looks(s) \/ Stopped(s)
  PROVE  Undisturbed' /\ DataInv'
<1>1. UNCHANGED <<store, tables, reg, objs, cat, gens, fellBack, faults, saved, raced>>
  BY DEF Looks, Stopped, Build, ScanPrefix, BuildWriter, WritePrefix, OpenScan, ScanNext, Reply, schemaVars, ends
<1>2. \A x \in Sessions : x # s => op'[x] = op[x]
  BY Moved DEF IInv, Looks, Stopped, Build, ScanPrefix, BuildWriter, WritePrefix, OpenScan, ScanNext, Reply
<1>3. /\ Quietly(op[s], op'[s])
      /\ op'[s].pc # "idle" => op[s].pc # "idle" /\ op'[s].stmt = op[s].stmt
  <2>1. CASE Looks(s)
    BY <2>1, LooksQuietly
  <2>2. CASE Stopped(s)
    <3>1. op[s].pc \in {"rows", "update", "delete"} /\ \E k \in Nat, b \in BOOLEAN : op'[s] = Done(s, k, b)
      BY <2>2, Moved DEF Stopped, IInv
    <3>2. op'[s].pc = "done" /\ op'[s].stmt = op[s].stmt
      BY <3>1, OpFacts DEF Done, Ops, IInv
    <3> QED
      BY <3>1, <3>2 DEF Quietly, Between, Current, WithSchema, WithPrefix
  <2> QED
    BY <2>1, <2>2
<1>4. \A x \in Sessions : Agrees(op[x], op'[x]) \/ Quietly(op[x], op'[x])
  BY <1>2, <1>3 DEF Agrees
<1>5. Calm' => Calm
  BY <1>1 DEF Calm
<1>6. DataInv'
  BY <1>1, <1>4, <1>5, DataKept DEF IInv, DataInv
<1>7. Undisturbed'
  BY <1>1, <1>2, <1>3, UndisturbedKept DEF IInv
<1> QED
  BY <1>6, <1>7

(***************************************************************************)
(* A row is written                                                         *)
(***************************************************************************)

\* In a calm execution no CREATE or DROP is under way when a row is written.
LEMMA NoDDL ==
  ASSUME IInv, Calm, NEW s \in Sessions, op[s].pc \in {"rows", "update", "delete"}
  PROVE  \A x \in Sessions : op[x].pc \notin Between
<1>1. Busy(s) /\ ~IsDDL(op[s].stmt)
  BY PlaceFacts DEF IInv, OpTypes, Busy, IsDDL
<1>2. ASSUME NEW x \in Sessions, op[x].pc \in Between PROVE FALSE
  <2>1. IsDDL(op[x].stmt) /\ Busy(x)
    BY <1>2, PlaceFacts DEF IInv, OpTypes, Busy, IsDDL, Between
  <2>2. x # s
    BY <1>1, <2>1
  <2> QED
    BY <1>1, <2>1, <2>2 DEF IInv, Undisturbed, Calm
<1> QED
  BY <1>2

\* What is written in a calm execution.
LEMMA WroteFacts ==
  ASSUME IInv, Calm, NEW s \in Sessions, NEW k, NEW v, Wrote(s, k, v)
  PROVE  /\ reg # None /\ reg.id \in 1 .. N /\ k \in 1 .. N /\ <<reg.id, k>> \in Keys
         /\ store' = [store EXCEPT ![<<reg.id, k>>] = v] /\ v \in Rows \cup {Tomb} /\ (v # Tomb => v.gen = Gen)
         /\ reg.obj \in 1 .. Len(objs) /\ objs[reg.obj] \in Objects /\ objs' = Drawn(reg.obj)
         /\ objs[reg.obj].pk \/ (objs[reg.obj].hidden /\ k = objs[reg.obj].next + 1)
         /\ Gen' = Gen
<1> DEFINE o == op[s]
<1>1. o.pc \in {"rows", "update", "delete"} /\ Current(o, reg, Gen) /\ DataTypes /\ OpTypes /\ Owned
  BY DEF Wrote, IInv, Steady
<1>2. reg # None /\ o.obj = reg.obj /\ o.prefix = reg.id
  BY <1>1 DEF Current, WithSchema, WithPrefix
<1>3. reg.id \in 0 .. N /\ reg.obj \in 1 .. Len(objs) /\ objs[reg.obj] \in Objects
  BY <1>1, <1>2, OpFacts
<1>4. reg.id \in 1 .. N /\ k \in 1 .. N /\ <<reg.id, k>> \in Keys /\ RowKey(reg.id, k) = <<reg.id, k>>
  <2>1. 0 < reg.id
    BY <1>1, <1>2, OwnRows
  <2>2. k \in 1 .. N
    BY DEF Wrote
  <2> QED
    BY <1>3, <2>1, <2>2, ConstantFacts DEF RowKey, Keys
<1>5. /\ store' = [store EXCEPT ![RowKey(o.prefix, k)] = v] /\ objs' = Drawn(o.obj) /\ reg' = reg
      /\ v \in Rows \cup {Tomb}
  BY DEF Wrote, Put
<1>6. v # Tomb => v.gen = Gen
  <2>1. v # Tomb => v.gen = IF o.pc = "rows" THEN objs[o.obj].gen ELSE o.row.gen
    BY DEF Wrote
  <2>2. o.pc # "rows" => o.row.gen = Gen
    BY <1>1 DEF Current
  <2>3. objs[o.obj].gen = Gen
    BY <1>2 DEF Gen
  <2> QED
    BY <2>1, <2>2, <2>3
<1>7. objs[reg.obj].pk \/ (objs[reg.obj].hidden /\ k = objs[reg.obj].next + 1)
  BY <1>2 DEF Wrote
<1>8. Gen' = Gen
  <2>1. objs'[reg.obj].gen = objs[reg.obj].gen
    BY <1>1, <1>2, <1>3, <1>5, DrawnFacts
  <2> QED
    BY <1>2, <1>5, <2>1 DEF Gen
<1> QED
  BY <1>2, <1>3, <1>4, <1>5, <1>6, <1>7, <1>8

\* The statement after it.
LEMMA WroteMoves ==
  ASSUME IInv, NEW s \in Sessions, NEW k, NEW v, Wrote(s, k, v)
  PROVE  /\ op[s].pc \in {"rows", "update", "delete"} /\ op'[s].pc \in {"rows", "scan"} /\ op'[s].stmt = op[s].stmt
         /\ \A x \in Sessions : x # s => op'[x] = op[x]
         /\ Calm => Current(op'[s], reg, Gen)
<1> DEFINE o == op[s]
<1>1. o \in Ops /\ OpTypes /\ o.pc \in {"rows", "update", "delete"} /\ (Calm => Current(o, reg, Gen))
  BY DEF IInv, OpTypes, Steady, Wrote
<1>2. CASE o.pc = "rows" /\ Goto(s, [o EXCEPT !.rows = @ + 1])
  <2>1. op'[s] = [o EXCEPT !.rows = o.rows + 1] /\ \A x \in Sessions : x # s => op'[x] = op[x]
    BY <1>1, <1>2, Moved
  <2>2. /\ op'[s].pc = o.pc /\ op'[s].stmt = o.stmt /\ op'[s].obj = o.obj /\ op'[s].scan = o.scan
        /\ op'[s].prefix = o.prefix /\ op'[s].item = o.item /\ op'[s].row = o.row
    BY <1>1, <2>1 DEF Ops
  <2> QED
    BY <1>1, <1>2, <2>1, <2>2 DEF Current
<1>3. CASE o.pc # "rows" /\ Goto(s, [o EXCEPT !.rows = @ + 1, !.row = None, !.pc = "scan"])
  <2>1. op'[s] = [o EXCEPT !.rows = o.rows + 1, !.row = None, !.pc = "scan"] /\ \A x \in Sessions : x # s => op'[x] = op[x]
    BY <1>1, <1>3, Moved
  <2>2. /\ op'[s].pc = "scan" /\ op'[s].stmt = o.stmt /\ op'[s].obj = o.obj /\ op'[s].scan = o.scan
        /\ op'[s].prefix = o.prefix /\ op'[s].item = o.item
    BY <1>1, <2>1 DEF Ops
  <2> QED
    BY <1>1, <1>3, <2>1, <2>2 DEF Current, WithSchema, WithPrefix
<1> QED
  BY <1>1, <1>2, <1>3 DEF Wrote

LEMMA WroteKeeps ==
  ASSUME IInv, NEW s \in Sessions, NEW k, NEW v, Wrote(s, k, v)
  PROVE  Undisturbed' /\ DataInv'
<1>1. UNCHANGED <<tables, reg, cat, gens, fellBack, faults, saved, raced>>
  BY DEF Wrote, Put, ends
<1>2. /\ op[s].pc \in {"rows", "update", "delete"} /\ op'[s].pc \in {"rows", "scan"} /\ op'[s].stmt = op[s].stmt
      /\ \A x \in Sessions : x # s => op'[x] = op[x]
      /\ Calm => Current(op'[s], reg, Gen)
  BY WroteMoves
<1>3. Undisturbed'
  BY <1>1, <1>2, UndisturbedKept DEF IInv
<1>4. CASE Calm
  <2> DEFINE r == objs[reg.obj]
  <2>0. DataTypes /\ OpTypes /\ DataInv
    BY DEF IInv, DataInv
  <2>1. /\ reg # None /\ reg.id \in 1 .. N /\ k \in 1 .. N /\ <<reg.id, k>> \in Keys
        /\ store' = [store EXCEPT ![<<reg.id, k>>] = v] /\ v \in Rows \cup {Tomb} /\ (v # Tomb => v.gen = Gen)
        /\ reg.obj \in 1 .. Len(objs) /\ r \in Objects /\ objs' = Drawn(reg.obj)
        /\ r.pk \/ (r.hidden /\ k = r.next + 1)
        /\ Gen' = Gen
    BY <1>4, WroteFacts
  <2>2. /\ objs'[reg.obj].pk = r.pk /\ objs'[reg.obj].gen = r.gen /\ objs'[reg.obj].hidden = r.hidden
        /\ objs'[reg.obj].next = IF ~r.pk THEN r.next + 1 ELSE r.next
    BY <2>0, <2>1, DrawnFacts
  <2>3. \A x \in Sessions : op[x].pc \notin Between /\ op'[x].pc \notin Between
    BY <1>2, <1>4, NoDDL DEF Between
  <2>4. Says(reg.id, Gen) /\ 0 < reg.id /\ reg.id < cat.next
    BY <1>4, <2>0, <2>1, OwnRows DEF DataInv
  <2>5. \A key \in Keys : store'[key] = IF key = <<reg.id, k>> THEN v ELSE store[key]
    BY <2>0, <2>1 DEF DataTypes
  <2>6. Steady'
    <3>1. \A x \in Sessions : Current(op[x], reg, Gen)
      BY <1>4, <2>0 DEF DataInv, Steady
    <3>2. \A x \in Sessions : Current(op'[x], reg', Gen')
      BY <1>1, <1>2, <1>4, <2>1, <3>1
    <3> QED
      BY <3>2 DEF Steady
  <2>7. Phases'
    <3>1. \A x \in Sessions : op[x].pc # "unregister" /\ op'[x].pc \notin {"register", "hide", "name", "put", "unregister", "forget"}
      BY <2>3 DEF Between
    <3>2. reg # None => tables
      BY <1>4, <2>0, <3>1 DEF DataInv, Phases
    <3> QED
      BY <1>1, <3>1, <3>2 DEF Phases
  <2>8. Synced'
    <3>1. faults = 0 => Agree
      BY <1>4, <2>0, <2>3 DEF DataInv, Synced
    <3>2. faults' = 0 => Agree'
      BY <1>1, <2>2, <3>1 DEF Agree
    <3>3. \A x \in Sessions : op'[x].pc \notin {"register", "hide", "name", "put", "unregister", "forget"}
      BY <2>3 DEF Between
    <3> QED
      BY <3>2, <3>3 DEF Synced
  <2>9. Owned'
    <3>1. ASSUME NEW i, NEW g, Says(i, g)' PROVE Says(i, g)
      <4>1. CASE \E key \in Keys : key[1] = i /\ key[2] # 0 /\ store'[key] \in Rows /\ store'[key].gen = g
        <5>1. PICK key \in Keys : key[1] = i /\ key[2] # 0 /\ store'[key] \in Rows /\ store'[key].gen = g
          BY <4>1
        <5>2. CASE key = <<reg.id, k>>
          <6>1. store'[key] = v /\ v # Tomb
            BY <2>5, <5>1, <5>2, ConstantFacts
          <6> QED
            BY <2>1, <2>4, <5>1, <5>2, <6>1
        <5>3. CASE key # <<reg.id, k>>
          BY <2>5, <5>1, <5>3 DEF Says
        <5> QED
          BY <5>2, <5>3
      <4>2. CASE \/ \E key \in Keys : key[1] = i /\ key[2] # 0 /\ saved'[key] \in Rows /\ saved'[key].gen = g
                 \/ cat'.entry # None /\ cat'.entry.id = i /\ cat'.entry.gen = g
                 \/ reg' # None /\ reg'.id = i /\ objs'[reg'.obj].gen = g
        BY <1>1, <2>2, <4>2 DEF Says
      <4> QED
        BY <3>1, <4>1, <4>2 DEF Says
    <3> QED
      BY <1>1, <1>4, <2>0, <3>1 DEF DataInv, Owned
  <2>10. RowIds'
    <3>1. ASSUME NEW key \in Keys, key[2] # 0, store'[key] # NoNode \/ saved'[key] # NoNode PROVE key[1] < cat'.next
      <4>1. CASE key = <<reg.id, k>>
        BY <1>1, <2>4, <4>1
      <4>2. CASE key # <<reg.id, k>>
        BY <1>1, <1>4, <2>0, <2>5, <3>1, <4>2 DEF DataInv, RowIds
      <4> QED
        BY <4>1, <4>2
    <3>2. ASSUME r.hidden, ~r.pk, NEW key \in Keys, key[1] = reg.id, store'[key] # NoNode PROVE key[2] <= r.next + 1
      <4>0. key[2] \in Nat /\ r.next \in Nat
        BY <2>1, ConstantFacts DEF Keys, Objects
      <4>1. CASE key = <<reg.id, k>>
        BY <2>1, <3>2, <4>0, <4>1
      <4>2. CASE key # <<reg.id, k>>
        <5>1. key[2] <= r.next
          BY <1>4, <2>0, <2>1, <2>5, <3>2, <4>2 DEF DataInv, RowIds
        <5> QED
          BY <4>0, <5>1
      <4> QED
        BY <4>1, <4>2
    <3> QED
      BY <1>1, <2>1, <2>2, <3>1, <3>2 DEF RowIds
  <2> QED
    BY <1>3, <2>6, <2>7, <2>8, <2>9, <2>10 DEF DataInv
<1>5. CASE ~Calm
  <2>1. ~Calm'
    BY <1>1, <1>5 DEF Calm
  <2> QED
    BY <1>3, <2>1 DEF DataInv, Steady, Phases, Synced, Owned, RowIds
<1> QED
  BY <1>3, <1>4, <1>5

(***************************************************************************)
(* CREATE and DROP, and restarts                                            *)
(***************************************************************************)

\* The step of a CREATE or DROP that is alone: only its own place matters.
LEMMA AloneFacts ==
  ASSUME IInv, Calm, NEW s \in Sessions, Busy(s), IsDDL(op[s].stmt), NEW p, Goto(s, p)
  PROVE  op'[s] = p /\ \A x \in Sessions : x # s => op[x].pc = "idle" /\ op'[x].pc = "idle"
<1>1. \A x \in Sessions : x # s => op[x].pc = "idle"
  BY Alone DEF IInv
<1>2. op'[s] = p /\ \A x \in Sessions : x # s => op'[x] = op[x]
  BY Moved DEF IInv
<1> QED
  BY <1>1, <1>2

\* With the others idle, and this one not in a scan, the steadiness is empty.
LEMMA IdleSteady ==
  ASSUME NEW s \in Sessions, \A x \in Sessions : x # s => op'[x].pc = "idle",
         op'[s].pc \notin WithSchema
  PROVE  Steady'
BY DEF Steady, Current, WithSchema, WithPrefix

LEMMA DDLMoves ==
  ASSUME IInv, NEW s \in Sessions, DDLRest(s) \/ Register(s)
  PROVE  /\ UNCHANGED <<store, saved, raced>> /\ Busy(s) /\ IsDDL(op[s].stmt)
         /\ (fellBack => fellBack')
         /\ \A x \in Sessions : x # s => op'[x] = op[x]
         /\ op'[s].pc \in {"register", "hide", "name", "put", "unregister", "forget", "done"}
         /\ op'[s].stmt = op[s].stmt
<1> DEFINE o == op[s]
<1>0. o \in Ops /\ OpTypes /\ OpOK(o, Len(objs)) /\ DataTypes
  BY DEF IInv, OpTypes
<1>1. UNCHANGED <<store, saved, raced>>
  BY DEF DDLRest, Register, CreateTable, Hide, NameId, CatalogPut, DropTable, Unregister, CatalogDelete, txnVars, ends
<1>2. fellBack => fellBack'
  BY DEF DDLRest, Register, CreateTable, Hide, NameId, CatalogPut, DropTable, Unregister, CatalogDelete
<1>3. o.pc \in {"create", "register", "hide", "name", "put", "drop", "unregister", "forget"}
  BY DEF DDLRest, Register, CreateTable, Hide, NameId, CatalogPut, DropTable, Unregister, CatalogDelete
<1>4. Busy(s) /\ IsDDL(o.stmt)
  BY <1>0, <1>3, PlaceFacts DEF Busy, IsDDL
<1>5. \E p : /\ Goto(s, p) /\ p.stmt = o.stmt
             /\ p.pc \in {"register", "hide", "name", "put", "unregister", "forget", "done"}
  <2>1. \E k, b, i, q : /\ q \in {"register", "hide", "name", "put", "unregister", "forget"}
                        /\ \/ Goto(s, Done(s, k, b)) \/ Goto(s, [o EXCEPT !.pc = q])
                           \/ Goto(s, [o EXCEPT !.id = i, !.pc = q])
    BY DEF DDLRest, Register, CreateTable, Hide, NameId, CatalogPut, DropTable, Unregister, CatalogDelete
  <2>2. PICK k, b, i, q : /\ q \in {"register", "hide", "name", "put", "unregister", "forget"}
                          /\ \/ Goto(s, Done(s, k, b)) \/ Goto(s, [o EXCEPT !.pc = q])
                             \/ Goto(s, [o EXCEPT !.id = i, !.pc = q])
    BY <2>1
  <2>3. Done(s, k, b).stmt = o.stmt /\ Done(s, k, b).pc = "done"
    BY <1>0 DEF Done, Ops
  <2>4. [o EXCEPT !.pc = q].stmt = o.stmt /\ [o EXCEPT !.pc = q].pc = q
    BY <1>0 DEF Ops
  <2>5. [o EXCEPT !.id = i, !.pc = q].stmt = o.stmt /\ [o EXCEPT !.id = i, !.pc = q].pc = q
    BY <1>0 DEF Ops
  <2> QED
    BY <2>2, <2>3, <2>4, <2>5
<1>6. PICK p : /\ Goto(s, p) /\ p.stmt = o.stmt
               /\ p.pc \in {"register", "hide", "name", "put", "unregister", "forget", "done"}
  BY <1>5
<1>7. op'[s] = p /\ \A x \in Sessions : x # s => op'[x] = op[x]
  BY <1>0, <1>6, Moved
<1> QED
  BY <1>1, <1>2, <1>4, <1>6, <1>7

LEMMA RegisterKeeps ==
  ASSUME IInv, NEW s \in Sessions, Register(s), Calm, Calm'
  PROVE  DataInv'
<1> DEFINE o == op[s]
           st == op[s].stmt
           id == cat.next
<1>0. DataTypes /\ OpTypes /\ DataInv /\ o.pc = "register" /\ o \in Ops /\ st.pk \in BOOLEAN /\ st.dflt \in BOOLEAN
  <2>1. o.pc = "register" /\ OpOK(o, Len(objs)) /\ o \in Ops
    BY DEF Register, IInv, OpTypes
  <2>2. st \in Stmts /\ st.kind = "create"
    BY <2>1, PlaceFacts
  <2> QED
    BY <2>1, <2>2, StmtFacts DEF IInv, DataInv
<1>1. tables /\ reg = None
  BY <1>0 DEF DataInv, Phases
<1>2. /\ id <= N /\ Persist(FALSE, AfterNextID)
      /\ reg' = [id |-> id, obj |-> Len(objs) + 1]
      /\ objs' = Append(objs, Schema(st.pk, st.dflt, FALSE, gens + 1))
      /\ Goto(s, [o EXCEPT !.id = id, !.pc = "hide"])
      /\ gens' = gens + 1 /\ UNCHANGED <<store, tables, saved>>
  <2>1. /\ gens' = gens + 1 /\ UNCHANGED <<store, tables, txnVars, ends, stmts, raced>>
        /\ \E fails \in BOOLEAN :
             LET i == IF fails THEN seq + 1 ELSE cat.next
             IN /\ i <= N
                /\ Persist(fails, AfterNextID)
                /\ seq' = IF fails THEN i ELSE seq
                /\ fellBack' = (fellBack \/ fails)
                /\ reg' = [id |-> i, obj |-> Len(objs) + 1]
                /\ objs' = Append(objs, Schema(st.pk, st.dflt, FALSE, gens + 1))
                /\ Goto(s, [o EXCEPT !.id = i, !.pc = "hide"])
    BY <1>1, Zenon DEF Register
  <2>2. PICK fails \in BOOLEAN, i \in {seq + 1, cat.next} :
           /\ i = (IF fails THEN seq + 1 ELSE cat.next) /\ i <= N
           /\ Persist(fails, AfterNextID)
           /\ fellBack' = (fellBack \/ fails)
           /\ reg' = [id |-> i, obj |-> Len(objs) + 1]
           /\ objs' = Append(objs, Schema(st.pk, st.dflt, FALSE, gens + 1))
           /\ Goto(s, [o EXCEPT !.id = i, !.pc = "hide"])
    BY <2>1
  <2>3. ~fails
    BY <2>2 DEF Calm
  <2> QED
    BY <2>1, <2>2, <2>3 DEF ends
<1>3. cat' = AfterNextID /\ cat'.next = id + 1 /\ cat'.entry = cat.entry /\ faults' = faults /\ id \in 1 .. N
  BY <1>0, <1>2, CatalogFacts, ConstantFacts DEF Persist
<1> DEFINE e == Schema(st.pk, st.dflt, FALSE, gens + 1)
<1>4. e \in Objects /\ e.pk = st.pk /\ e.gen = gens + 1 /\ e.hidden = FALSE
  <2>1. gens + 1 \in Nat
    BY <1>0 DEF DataTypes
  <2>2. e \in Objects
    BY <1>0, <2>1, SchemaType
  <2>3. e.pk = st.pk /\ e.gen = gens + 1 /\ e.hidden = FALSE
    BY DEF Schema
  <2> QED
    BY <2>2, <2>3
<1> HIDE DEF e
<1>5. objs'[reg'.obj] = e /\ reg'.id = id /\ reg' # None
  <2>1. reg' = [id |-> id, obj |-> Len(objs) + 1] /\ objs' = Append(objs, e)
    BY <1>2 DEF e
  <2>2. Append(objs, e)[Len(objs) + 1] = e /\ Len(objs) \in Nat
    BY <1>0, <1>4, Appended DEF DataTypes
  <2>3. reg' \in Refs
    BY <1>3, <2>1, <2>2, ConstantFacts DEF Refs
  <2> QED
    BY <2>1, <2>2, <2>3, ConstantFacts
<1>6. op'[s] = [o EXCEPT !.id = id, !.pc = "hide"] /\ \A x \in Sessions : x # s => op[x].pc = "idle" /\ op'[x].pc = "idle"
  BY <1>0, <1>2, PlaceFacts, AloneFacts DEF Busy, IsDDL, OpTypes
<1>7. op'[s].pc = "hide" /\ op'[s].id = id /\ op'[s].stmt = st
  BY <1>0, <1>6 DEF Ops
<1>8. \A key \in Keys : key[2] # 0 /\ (store[key] # NoNode \/ saved[key] # NoNode) => key[1] < id
  BY <1>0 DEF DataInv, RowIds
<1>9. Steady'
  BY <1>6, <1>7, IdleSteady DEF WithSchema
<1>10. Phases'
  <2>1. \A key \in Keys : key[1] = id /\ key[2] # 0 => store[key] = NoNode
    BY <1>3, <1>8
  <2>2. /\ op'[s].pc # "register" /\ op'[s].pc # "unregister" /\ op'[s].pc # "forget"
        /\ \A x \in Sessions : op'[x].pc \in {"register", "hide", "name", "put", "unregister", "forget"} => x = s
    BY <1>6, <1>7
  <2>3. tables' /\ store' = store /\ gens' = gens + 1
    BY <1>1, <1>2
  <2> QED
    BY <1>4, <1>5, <1>7, <2>1, <2>2, <2>3 DEF Phases
<1>11. Synced'
  <2>1. faults = 0 => cat.entry = None
    BY <1>0 DEF DataInv, Synced
  <2>2. op'[s].pc \in Between /\ \A x \in Sessions : op'[x].pc \in {"register", "hide", "name", "put", "unregister", "forget"} => x = s
    BY <1>6, <1>7 DEF Between
  <2> QED
    BY <1>3, <1>7, <2>1, <2>2 DEF Synced
<1>12. Owned'
  <2>1. ASSUME NEW i, NEW g, Says(i, g)' PROVE Says(i, g) \/ (i = id /\ g = gens + 1)
    <3>1. reg'.id = i /\ objs'[reg'.obj].gen = g => i = id /\ g = gens + 1
      BY <1>4, <1>5
    <3> QED
      BY <1>2, <1>3, <2>1, <3>1 DEF Says
  <2>2. \A i \in 0 .. N, g \in Nat : Says(i, g) => 0 < i /\ i < id
    BY <1>0 DEF DataInv, Owned
  <2>3. \A i \in 0 .. N, g, h \in Nat : Says(i, g) /\ Says(i, h) => g = h
    BY <1>0 DEF DataInv, Owned
  <2>4. \A i \in 0 .. N, g \in Nat : Says(i, g)' => 0 < i /\ i < cat'.next
    BY <1>3, <2>1, <2>2
  <2>5. \A i \in 0 .. N, g, h \in Nat : Says(i, g)' /\ Says(i, h)' => g = h
    BY <1>3, <2>1, <2>2, <2>3
  <2> QED
    BY <2>4, <2>5 DEF Owned
<1>13. RowIds'
  <2>1. \A key \in Keys : key[2] # 0 /\ (store'[key] # NoNode \/ saved'[key] # NoNode) => key[1] < cat'.next
    BY <1>2, <1>3, <1>8, ConstantFacts DEF Keys
  <2> QED
    BY <1>4, <1>5, <2>1 DEF RowIds
<1> QED
  BY <1>9, <1>10, <1>11, <1>12, <1>13 DEF DataInv

LEMMA DDLKeeps ==
  ASSUME IInv, NEW s \in Sessions, DDLRest(s), Calm
  PROVE  DataInv'
<1> DEFINE o == op[s]
           st == op[s].stmt
<1>0. /\ DataTypes /\ OpTypes /\ Steady /\ Phases /\ Synced /\ Owned /\ RowIds /\ o \in Ops
      /\ reg # None => reg.id \in 1 .. N /\ reg.obj \in 1 .. Len(objs) /\ objs[reg.obj] \in Objects
  <2>1. reg # None => 0 < reg.id /\ reg.id \in 0 .. N /\ reg.obj \in 1 .. Len(objs) /\ objs[reg.obj] \in Objects
    BY OwnRows, OpFacts DEF IInv
  <2> QED
    BY <2>1, ConstantFacts DEF IInv, OpTypes
<1>1. /\ UNCHANGED <<store, saved>>
      /\ \A x \in Sessions : x # s => op[x].pc = "idle" /\ op'[x].pc = "idle"
      /\ op'[s].stmt = st /\ op'[s].pc \notin WithSchema /\ gens' = gens
      /\ \A x \in Sessions : op'[x].pc \in Between => x = s
  <2>1. /\ UNCHANGED <<store, saved>> /\ Busy(s) /\ IsDDL(st) /\ op'[s].stmt = st
        /\ \A x \in Sessions : x # s => op'[x] = op[x]
        /\ op'[s].pc \in {"register", "hide", "name", "put", "unregister", "forget", "done"}
    BY DDLMoves
  <2>2. \A x \in Sessions : x # s => op[x].pc = "idle"
    BY <2>1, Alone DEF IInv
  <2>3. gens' = gens
    BY DEF DDLRest, CreateTable, Hide, NameId, CatalogPut, DropTable, Unregister, CatalogDelete
  <2> QED
    BY <2>1, <2>2, <2>3 DEF WithSchema, Between
<1>2. Steady'
  BY <1>1, IdleSteady
<1>3. \A p : Goto(s, p) => op'[s] = p
  BY <1>0, Moved
\* A step that leaves the registry alone and may write the entry of what is registered.
<1>4. ASSUME UNCHANGED <<reg, objs>>, cat'.next = cat.next,
             cat'.entry = cat.entry \/ cat'.entry = None \/ (reg # None /\ cat'.entry.id = reg.id /\ cat'.entry.gen = objs[reg.obj].gen)
      PROVE  Owned' /\ RowIds'
  <2>1. ASSUME NEW i, NEW g, Says(i, g)' PROVE Says(i, g)
    BY <1>1, <1>4, <2>1 DEF Says
  <2> QED
    BY <1>0, <1>1, <1>4, <2>1 DEF Owned, RowIds
<1>5. CASE CreateTable(s)
  <2>1. o.pc = "create" /\ tables' = TRUE /\ UNCHANGED <<reg, objs, cat, faults>>
    BY <1>5 DEF CreateTable
  <2>2. \A x \in Sessions : op[x].pc \notin Between
    BY <1>1, <2>1 DEF Between
  <2>3. CASE tables
    <3>1. op'[s].pc = "done"
      BY <1>0, <1>3, <1>5, <2>3 DEF CreateTable, Done, Ops
    <3>2. Phases'
      BY <1>1, <2>1, <3>1 DEF Phases, Between
    <3>3. Synced'
      BY <1>0, <1>1, <2>1, <2>2, <2>3, <3>1 DEF Synced, Between, Agree
    <3> QED
      BY <1>2, <1>4, <2>1, <3>2, <3>3 DEF DataInv
  <2>4. CASE ~tables
    <3>1. op'[s].pc = "register"
      BY <1>0, <1>3, <1>5, <2>4 DEF CreateTable, Ops
    <3>2. reg = None
      BY <1>0, <2>2, <2>4 DEF Phases, Between
    <3>3. Phases'
      BY <1>1, <2>1, <3>1, <3>2 DEF Phases, Between
    <3>4. Synced'
      <4>1. faults = 0 => cat.entry = None
        BY <1>0, <2>2, <3>2 DEF Synced, Agree
      <4> QED
        BY <1>1, <2>1, <3>1, <4>1 DEF Synced, Between
    <3> QED
      BY <1>2, <1>4, <2>1, <3>3, <3>4 DEF DataInv
  <2> QED
    BY <2>3, <2>4
<1>6. CASE Hide(s)
  <2>1. o.pc = "hide" /\ UNCHANGED <<tables, reg, cat, faults>> /\ op'[s].pc = "name" /\ op'[s].id = o.id
    BY <1>0, <1>3, <1>6 DEF Hide, Ops
  <2>2. /\ tables /\ reg # None /\ reg.id = o.id /\ objs[reg.obj].pk = st.pk /\ objs[reg.obj].gen = gens
        /\ \A key \in Keys : key[1] = reg.id /\ key[2] # 0 => store[key] = NoNode
    BY <1>0, <2>1 DEF Phases
  <2>3. objs'[reg.obj].pk = objs[reg.obj].pk /\ objs'[reg.obj].gen = objs[reg.obj].gen
    <3>1. CASE objs' = objs
      BY <3>1
    <3>2. CASE objs' = [objs EXCEPT ![reg.obj].hidden = TRUE]
      <4>1. PICK e \in Objects : e = [objs[reg.obj] EXCEPT !.hidden = TRUE]
        BY <1>0, <2>2 DEF Objects
      <4>2. e.pk = objs[reg.obj].pk /\ e.gen = objs[reg.obj].gen
        BY <1>0, <2>2, <4>1 DEF Objects
      <4>3. objs' = [objs EXCEPT ![reg.obj] = e]
        BY <3>2, <4>1
      <4>4. objs'[reg.obj] = e
        BY <1>0, <2>2, <4>3, ObjectKept
      <4> QED
        BY <4>2, <4>4
    <3> QED
      BY <1>6, <3>1, <3>2 DEF Hide
  <2>4. Phases'
    BY <1>1, <2>1, <2>2, <2>3 DEF Phases, Between
  <2>5. Synced'
    <3>1. faults = 0 => cat.entry = None
      BY <1>0, <2>1 DEF Synced
    <3> QED
      BY <1>1, <2>1, <3>1 DEF Synced, Between
  <2>6. Owned'
    <3>1. ASSUME NEW i, NEW g, Says(i, g)' PROVE Says(i, g)
      BY <1>1, <2>1, <2>3, <3>1 DEF Says
    <3> QED
      BY <1>0, <2>1, <3>1 DEF Owned
  <2>7. RowIds'
    <3>1. \A key \in Keys : key[2] # 0 /\ (store'[key] # NoNode \/ saved'[key] # NoNode) => key[1] < cat'.next
      BY <1>0, <1>1, <2>1 DEF RowIds
    <3>2. objs'[reg.obj].next \in Nat
      <4>1. reg'.obj \in 1 .. Len(objs') /\ objs'[reg.obj] \in Objects
        <5>1. DataTypes'
          BY <1>0, DDLTypes
        <5>2. reg' # None
          BY <2>1, <2>2
        <5>3. reg'.obj \in 1 .. Len(objs') /\ objs' \in Seq(Objects)
          BY <5>1, <5>2 DEF DataTypes
        <5> QED
          BY <2>1, <5>3, ElementOf
      <4> QED
        BY <4>1 DEF Objects
    <3>3. \A key \in Keys : key[1] = reg.id /\ store[key] # NoNode => key[2] <= objs'[reg.obj].next
      <4>1. \A key \in Keys : key[1] = reg.id /\ store[key] # NoNode => key[2] = 0
        BY <2>2
      <4> QED
        BY <3>2, <4>1
    <3> QED
      BY <1>1, <2>1, <3>1, <3>3 DEF RowIds
  <2> QED
    BY <1>2, <2>4, <2>5, <2>6, <2>7 DEF DataInv
<1>7. CASE NameId(s)
  <2>1. o.pc = "name" /\ UNCHANGED <<tables, reg, objs>>
    BY <1>7 DEF NameId
  <2>2. tables /\ reg # None /\ reg.id = o.id /\ objs[reg.obj].pk = st.pk /\ objs[reg.obj].gen = gens
    BY <1>0, <2>1 DEF Phases
  <2>3. UNCHANGED <<cat, faults>> /\ op'[s].pc = "put" /\ op'[s].id = reg.id
    <3>1. reg.id # 0
      BY <1>0, <2>2
    <3>2. Goto(s, [o EXCEPT !.id = reg.id, !.pc = "put"]) /\ UNCHANGED <<cat, faults>>
      BY <1>7, <2>2, <3>1 DEF NameId
    <3> QED
      BY <1>0, <1>3, <3>2 DEF Ops
  <2>4. Phases'
    BY <1>1, <2>1, <2>2, <2>3 DEF Phases, Between
  <2>5. Synced'
    <3>1. faults = 0 => cat.entry = None
      BY <1>0, <2>1 DEF Synced
    <3> QED
      BY <1>1, <2>3, <3>1 DEF Synced, Between
  <2> QED
    BY <1>2, <1>4, <2>1, <2>3, <2>4, <2>5 DEF DataInv
<1>8. CASE CatalogPut(s)
  <2>1. o.pc = "put" /\ UNCHANGED <<tables, reg, objs>> /\ op'[s].pc = "done"
    BY <1>0, <1>3, <1>8 DEF CatalogPut, Done, Ops
  <2>2. tables /\ reg # None /\ reg.id = o.id /\ objs[reg.obj].pk = st.pk /\ objs[reg.obj].gen = gens
    BY <1>0, <2>1 DEF Phases
  <2>3. PICK e : e = [id |-> o.id, pk |-> st.pk, gen |-> gens]
    OBVIOUS
  <2>4. e.id = reg.id /\ e.pk = objs[reg.obj].pk /\ e.gen = objs[reg.obj].gen /\ e \in Entries
    <3>1. o.id \in 0 .. N
      BY <1>0, <2>2, ConstantFacts
    <3>2. st.pk \in BOOLEAN /\ gens \in Nat
      BY <1>0, <2>2 DEF Objects, DataTypes
    <3> QED
      BY <2>2, <2>3, <3>1, <3>2 DEF Entries
  <2>5. \/ cat.entry # None /\ UNCHANGED <<cat, faults>>
        \/ cat.entry = None /\ \E fails \in BOOLEAN : Persist(fails, [cat EXCEPT !.entry = e])
    BY <1>8, <2>3 DEF CatalogPut
  <2>6. \/ UNCHANGED cat /\ (faults' = 0 => cat.entry # None /\ faults = 0)
        \/ cat'.entry = e /\ cat'.next = cat.next /\ faults' = faults /\ cat.entry = None
    <3>1. CASE \E fails \in BOOLEAN : cat.entry = None /\ fails /\ Persist(fails, [cat EXCEPT !.entry = e])
      <4>1. cat' = cat /\ faults' = faults + 1 /\ faults \in Nat
        BY <1>0, <3>1 DEF Persist, DataTypes
      <4> QED
        BY <4>1
    <3>2. CASE \E fails \in BOOLEAN : cat.entry = None /\ ~fails /\ Persist(fails, [cat EXCEPT !.entry = e])
      <4>1. cat' = [cat EXCEPT !.entry = e] /\ faults' = faults
        BY <3>2 DEF Persist
      <4> QED
        BY <1>0, <2>4, <3>2, <4>1, CatalogFacts
    <3> QED
      BY <2>5, <3>1, <3>2
  <2>7. Phases'
    BY <1>1, <2>1, <2>2 DEF Phases, Between
  <2>8. Synced'
    <3>1. faults = 0 => cat.entry = None
      BY <1>0, <2>1 DEF Synced
    <3>2. faults' = 0 => Agree'
      BY <2>1, <2>2, <2>4, <2>6, <3>1, ConstantFacts DEF Agree
    <3> QED
      BY <1>1, <2>1, <3>2 DEF Synced, Between
  <2>9. Owned' /\ RowIds'
    BY <1>4, <2>1, <2>2, <2>4, <2>6
  <2> QED
    BY <1>2, <2>7, <2>8, <2>9 DEF DataInv
<1>9. CASE DropTable(s)
  <2>1. o.pc = "drop" /\ tables' = FALSE /\ UNCHANGED <<reg, objs, cat, faults>> /\ op'[s].pc = "unregister"
    BY <1>0, <1>3, <1>9 DEF DropTable, Ops
  <2>2. \A x \in Sessions : op[x].pc \notin Between
    BY <1>1, <2>1 DEF Between
  <2>3. Phases'
    BY <1>1, <2>1 DEF Phases, Between
  <2>4. Synced'
    <3>1. faults = 0 => Agree
      BY <1>0, <2>2 DEF Synced
    <3> QED
      BY <1>1, <2>1, <3>1 DEF Synced, Between, Agree
  <2> QED
    BY <1>2, <1>4, <2>1, <2>3, <2>4 DEF DataInv
<1>10. CASE Unregister(s)
  <2>1. o.pc = "unregister" /\ reg' = None /\ UNCHANGED <<tables, objs, cat, faults>> /\ ~tables
    BY <1>0, <1>10 DEF Unregister, Phases
  <2>0. tables' = FALSE
    BY <1>0, <2>1 DEF DataTypes
  <2>2. /\ reg = None => op'[s].pc = "done"
        /\ reg # None => op'[s].pc = "forget" /\ op'[s].id = reg.id
    BY <1>0, <1>3, <1>10 DEF Unregister, Done, Ops
  <2>3. Phases'
    BY <1>1, <2>1, <2>2 DEF Phases, Between
  <2>4. Synced'
    <3>1. faults = 0 => (reg # None) = (cat.entry # None) /\ (reg # None => reg.id = cat.entry.id)
      BY <1>0, <2>1 DEF Synced
    <3> QED
      BY <1>1, <2>0, <2>1, <2>2, <3>1 DEF Synced, Between, Agree
  <2>5. Owned'
    <3>1. ASSUME NEW i, NEW g, Says(i, g)' PROVE Says(i, g)
      BY <1>1, <2>1, <3>1 DEF Says
    <3> QED
      BY <1>0, <2>1, <3>1 DEF Owned
  <2>6. RowIds'
    BY <1>0, <1>1, <2>1 DEF RowIds
  <2> QED
    BY <1>2, <2>3, <2>4, <2>5, <2>6 DEF DataInv
<1>11. CASE CatalogDelete(s)
  <2>1. o.pc = "forget" /\ UNCHANGED <<tables, reg, objs>> /\ op'[s].pc = "done"
    BY <1>0, <1>3, <1>11 DEF CatalogDelete, Done, Ops
  <2>2. ~tables /\ reg = None
    BY <1>0, <2>1 DEF Phases
  <2>0. tables' = FALSE
    BY <1>0, <2>1, <2>2 DEF DataTypes
  <2>3. \/ ~HasEntry(o.id) /\ UNCHANGED <<cat, faults>>
        \/ \E fails \in BOOLEAN : Persist(fails, [cat EXCEPT !.entry = None])
    BY <1>11 DEF CatalogDelete
  <2>4. /\ cat'.next = cat.next /\ (cat'.entry = cat.entry \/ cat'.entry = None)
        /\ faults' = 0 => faults = 0 /\ (~HasEntry(o.id) \/ cat'.entry = None)
    <3>1. CASE \E fails \in BOOLEAN : fails /\ Persist(fails, [cat EXCEPT !.entry = None])
      <4>1. cat' = cat /\ faults' = faults + 1 /\ faults \in Nat
        BY <1>0, <3>1 DEF Persist, DataTypes
      <4> QED
        BY <4>1
    <3>2. CASE \E fails \in BOOLEAN : ~fails /\ Persist(fails, [cat EXCEPT !.entry = None])
      <4>1. cat' = [cat EXCEPT !.entry = None] /\ faults' = faults
        BY <3>2 DEF Persist
      <4> QED
        BY <1>0, <4>1, CatalogFacts
    <3> QED
      BY <2>3, <3>1, <3>2
  <2>5. Phases'
    BY <1>1, <2>1, <2>2 DEF Phases, Between
  <2>6. Synced'
    <3>1. faults = 0 => HasEntry(o.id)
      BY <1>0, <2>1 DEF Synced, HasEntry
    <3>2. faults' = 0 => Agree'
      BY <2>0, <2>1, <2>2, <2>4, <3>1 DEF Agree
    <3> QED
      BY <1>1, <2>1, <3>2 DEF Synced, Between
  <2>7. Owned' /\ RowIds'
    BY <1>4, <2>1, <2>4
  <2> QED
    BY <1>2, <2>5, <2>6, <2>7 DEF DataInv
<1> QED
  BY <1>5, <1>6, <1>7, <1>8, <1>9, <1>10, <1>11 DEF DDLRest

LEMMA RestartKeeps ==
  ASSUME IInv, Reopen \/ Restart
  PROVE  Undisturbed' /\ DataInv'
<1>0. DataTypes /\ OpTypes /\ Steady /\ Phases /\ Synced /\ Owned /\ RowIds
  BY DEF IInv
<1>1. /\ \A s \in Sessions : op'[s] = NoOp
      /\ UNCHANGED <<cat, gens, fellBack, faults, raced>>
      /\ store' \in {store, saved} /\ saved' \in {store, saved}
      /\ \/ store' = store /\ reg # None /\ UNCHANGED <<tables, reg, objs>> /\ Reopen
         \/ /\ cat.entry = None /\ reg' = None
            /\ (tables' = FALSE \/ (tables' = tables /\ reg = None /\ Reopen))
         \/ /\ cat.entry # None /\ tables' /\ reg' # None
            /\ reg'.id = cat.entry.id /\ objs'[reg'.obj] = Schema(cat.entry.pk, FALSE, FALSE, cat.entry.gen)
  BY <1>0, RestartTypes
<1>2. \A s \in Sessions : op'[s].pc = "idle"
  BY <1>1 DEF NoOp
<1>3. Undisturbed'
  BY <1>2 DEF Undisturbed, Busy
<1>4. Steady'
  BY <1>2 DEF Steady, Current, WithSchema, WithPrefix
<1>5. Reopen => \A s \in Sessions : op[s].pc = "idle"
  BY DEF Reopen, Busy
<1>6. LET sc == Schema(cat.entry.pk, FALSE, FALSE, cat.entry.gen)
      IN sc.pk = cat.entry.pk /\ sc.gen = cat.entry.gen /\ sc.hidden = FALSE
  BY DEF Schema
<1>7. tables \in BOOLEAN /\ tables' \in BOOLEAN
  BY <1>0, RestartTypes DEF DataTypes
<1>8. CASE Calm'
  <2>0. Calm
    BY <1>1, <1>8 DEF Calm
  <2>1. Reopen /\ reg # None => tables
    BY <1>0, <1>5, <2>0 DEF Phases
  <2>2. Phases'
    <3>1. reg' # None => tables'
      BY <1>1, <1>7, <2>1
    <3> QED
      BY <1>2, <3>1 DEF Phases
  <2>3. Synced'
    <3>1. Reopen /\ faults = 0 => Agree
      BY <1>0, <1>5, <2>0 DEF Synced, Between
    <3>2. faults = 0 => Agree'
      BY <1>1, <1>6, <1>7, <3>1 DEF Agree
    <3> QED
      BY <1>1, <1>2, <3>2 DEF Synced
  <2>4. Owned'
    <3>1. ASSUME NEW i, NEW g, Says(i, g)' PROVE Says(i, g)
      <4>1. reg' # None /\ reg'.id = i /\ objs'[reg'.obj].gen = g => Says(i, g)
        BY <1>1, <1>6 DEF Says
      <4> QED
        BY <1>1, <3>1, <4>1 DEF Says
    <3> QED
      BY <1>0, <1>1, <2>0, <3>1 DEF Owned
  <2>5. RowIds'
    BY <1>0, <1>1, <1>6, <2>0 DEF RowIds
  <2> QED
    BY <1>3, <1>4, <2>2, <2>3, <2>4, <2>5 DEF DataInv
<1>9. CASE ~Calm'
  BY <1>3, <1>4, <1>9 DEF DataInv, Phases, Synced, Owned, RowIds
<1> QED
  BY <1>8, <1>9

LEMMA InitHolds == Init => IInv
<1> SUFFICES ASSUME Init PROVE IInv
  OBVIOUS
<1> DEFINE r == Rehydrate(cat.entry, <<>>, 0, FALSE)
<1>0. /\ N \in Nat \ {0} /\ op = [s \in Sessions |-> NoOp] /\ writeSet = [s \in Sessions |-> <<>>]
      /\ stmts = 0 /\ faults = 0 /\ restarts = 0 /\ fellBack = FALSE /\ raced = FALSE /\ saved = store
      /\ tables = r.tables /\ reg = r.reg /\ objs = r.objs /\ seq = r.seq
  BY ConstantFacts DEF Init, Opened
<1>1. \/ /\ gens = 0 /\ cat = [next |-> 1, entry |-> None]
         /\ store = [key \in Keys |-> NoNode]
      \/ /\ gens = 1 /\ cat = [next |-> 2, entry |-> [id |-> 1, pk |-> TRUE, gen |-> 1]]
         /\ store = [key \in Keys |->
                       IF HasPrefix(key, 1) THEN [k |-> key[2], b |-> OldRows[key[2]], gen |-> 1]
                       ELSE NoNode]
  BY DEF Init
<1>2. [id |-> 1, pk |-> TRUE, gen |-> 1] \in Entries /\ 1 # NoId
  BY <1>0, ConstantFacts DEF Entries
<1>3. /\ cat \in [next : 1 .. N + 1, entry : Entries \cup {None}] /\ gens \in Nat
      /\ cat.entry \in Entries \cup {None}
  <2>1. CASE gens = 0 /\ cat = [next |-> 1, entry |-> None]
    BY <1>0, <2>1
  <2>2. CASE gens = 1 /\ cat = [next |-> 2, entry |-> [id |-> 1, pk |-> TRUE, gen |-> 1]]
    <3>1. 2 \in 1 .. N + 1
      BY <1>0
    <3> QED
      BY <1>2, <2>2, <3>1
  <2> QED
    BY <1>1, <2>1, <2>2
<1>4. store \in [Keys -> Values] /\ \A key \in Keys : store[key] # NoNode =>
        /\ cat.next = 2 /\ cat.entry = [id |-> 1, pk |-> TRUE, gen |-> 1] /\ key[1] = 1 /\ store[key] \in Rows
        /\ store[key].gen = 1
  <2>1. ASSUME NEW key \in Keys, HasPrefix(key, 1)
        PROVE  key[1] = 1 /\ [k |-> key[2], b |-> OldRows[key[2]], gen |-> 1] \in Rows
    <3>1. key[1] = 1 /\ key[2] \in 1 .. N
      BY <1>0, <1>2, <2>1 DEF HasPrefix, Keys
    <3>2. OldRows[key[2]] \in Bs
      BY <3>1, TablesAssumption
    <3> QED
      BY <3>1, <3>2 DEF Rows
  <2>2. CASE store = [key \in Keys |-> NoNode]
    BY <2>2 DEF Values
  <2>3. CASE /\ cat = [next |-> 2, entry |-> [id |-> 1, pk |-> TRUE, gen |-> 1]]
             /\ store = [key \in Keys |->
                          IF HasPrefix(key, 1) THEN [k |-> key[2], b |-> OldRows[key[2]], gen |-> 1]
                          ELSE NoNode]
    <3>1. \A key \in Keys : store[key] = IF HasPrefix(key, 1) THEN [k |-> key[2], b |-> OldRows[key[2]], gen |-> 1]
                                         ELSE NoNode
      BY <2>3
    <3>2. cat.next = 2 /\ cat.entry = [id |-> 1, pk |-> TRUE, gen |-> 1]
      BY <2>3
    <3>3. \A key \in Keys : store[key] \in Values
      BY <2>1, <3>1 DEF Values
    <3> QED
      BY <2>1, <2>3, <3>1, <3>2, <3>3
  <2> QED
    BY <1>1, <2>2, <2>3
<1>5. Opens(r, cat.entry, <<>>, FALSE)
  <2>1. <<>> \in Seq(Objects) /\ 0 \in Nat /\ FALSE \in BOOLEAN
    OBVIOUS
  <2> QED
    BY <1>3, <2>1, RehydrateTypes
<1> HIDE DEF r
<1>6. /\ tables \in BOOLEAN /\ seq \in Nat /\ reg \in Refs \cup {None} /\ objs \in Seq(Objects)
      /\ cat.entry = None => reg = None /\ tables = FALSE
      /\ cat.entry # None => /\ tables = TRUE /\ reg # None /\ reg.id = cat.entry.id
                             /\ reg.obj \in 1 .. Len(objs)
                             /\ objs[reg.obj] = Schema(cat.entry.pk, FALSE, FALSE, cat.entry.gen)
  BY <1>0, <1>5 DEF Opens
<1>7. DataTypes
  BY <1>0, <1>3, <1>4, <1>6 DEF DataTypes
<1>8. \A s \in Sessions : op[s] = NoOp /\ op[s].pc = "idle"
  BY <1>0 DEF NoOp
<1>9. OpTypes
  <2>1. Len(objs) \in Nat
    BY <1>6
  <2>2. OpOK(NoOp, Len(objs)) /\ NoOp \in Ops
    BY <2>1, NoOpOK DEF OpOK
  <2> QED
    BY <1>0, <2>2 DEF OpTypes
<1>10. Undisturbed /\ Steady
  BY <1>8 DEF Undisturbed, Busy, Steady, Current, WithSchema, WithPrefix
<1>11. LET sc == Schema(cat.entry.pk, FALSE, FALSE, cat.entry.gen)
       IN sc.pk = cat.entry.pk /\ sc.gen = cat.entry.gen /\ sc.hidden = FALSE
  BY DEF Schema
<1>12. Phases
  BY <1>6, <1>8 DEF Phases
<1>13. Synced
  BY <1>6, <1>8, <1>11 DEF Synced, Agree, Between
<1>14. cat.entry # None => cat.next = 2 /\ cat.entry.id = 1 /\ cat.entry.gen = 1
  BY <1>1
<1>15. Owned
  <2>1. ASSUME NEW i, NEW g, Says(i, g) PROVE i = 1 /\ g = 1 /\ cat.next = 2
    <3>1. CASE \E key \in Keys : key[1] = i /\ key[2] # 0 /\ store[key] \in Rows /\ store[key].gen = g
      BY <1>4, <3>1, ConstantFacts
    <3>2. CASE cat.entry # None /\ cat.entry.id = i /\ cat.entry.gen = g
      BY <1>14, <3>2
    <3>3. CASE reg # None /\ reg.id = i /\ objs[reg.obj].gen = g
      BY <1>6, <1>11, <1>14, <3>3
    <3> QED
      BY <1>0, <2>1, <3>1, <3>2, <3>3 DEF Says
  <2> QED
    BY <2>1 DEF Owned
<1>16. RowIds
  <2>1. \A key \in Keys : store[key] # NoNode \/ saved[key] # NoNode => key[1] < cat.next
    BY <1>0, <1>4
  <2>2. reg # None => ~objs[reg.obj].hidden
    BY <1>6, <1>11
  <2> QED
    BY <2>1, <2>2 DEF RowIds
<1> QED
  BY <1>7, <1>9, <1>10, <1>12, <1>13, <1>15, <1>16 DEF IInv

LEMMA IInvStep == IInv /\ [Next]_vars => IInv'
<1> SUFFICES ASSUME IInv, [Next]_vars PROVE IInv'
  OBVIOUS
<1>1. CASE UNCHANGED vars
  <2>1. UNCHANGED <<store, saved, tables, reg, objs, seq, cat, op, writeSet, gens, stmts, faults, restarts, fellBack, raced>>
    BY <1>1 DEF vars, schemaVars, txnVars, ends
  <2>2. DataTypes' /\ OpTypes'
    BY <2>1 DEF IInv, DataTypes, OpTypes
  <2>3. Undisturbed'
    BY <2>1, UndisturbedKept DEF IInv
  <2>4. DataInv'
    <3>1. \A x \in Sessions : Agrees(op[x], op'[x])
      BY <2>1 DEF Agrees
    <3>2. Calm' => Calm
      BY <2>1 DEF Calm
    <3> QED
      BY <2>1, <3>1, <3>2, DataKept DEF IInv, DataInv
  <2> QED
    BY <2>2, <2>3, <2>4 DEF IInv, DataInv
<1>2. CASE Next
  <2>1. DataTypes' /\ OpTypes'
    BY <1>2, TypesStep DEF IInv
  <2>2. Undisturbed' /\ DataInv'
    <3>1. CASE \E s \in Sessions : \/ Looks(s) \/ Stopped(s) \/ InsertRow(s) \/ UpdateRow(s) \/ DeleteRow(s)
                                   \/ Register(s) \/ DDLRest(s)
      <4>1. PICK s \in Sessions : \/ Looks(s) \/ Stopped(s) \/ InsertRow(s) \/ UpdateRow(s) \/ DeleteRow(s)
                                  \/ Register(s) \/ DDLRest(s)
        BY <3>1
      <4>2. CASE Looks(s) \/ Stopped(s)
        BY <4>2, QuietKeeps
      <4>3. CASE InsertRow(s) \/ UpdateRow(s) \/ DeleteRow(s)
        <5>1. Stopped(s) \/ \E k, v : Wrote(s, k, v)
          BY <4>3, InsertSteps, UpdateSteps, DeleteSteps DEF IInv
        <5> QED
          BY <5>1, QuietKeeps, WroteKeeps
      <4>4. CASE Register(s) \/ DDLRest(s)
        <5>1. /\ UNCHANGED raced /\ Busy(s) /\ (fellBack => fellBack')
              /\ \A x \in Sessions : x # s => op'[x] = op[x]
              /\ op'[s].stmt = op[s].stmt
          BY <4>4, DDLMoves
        <5>2. Undisturbed'
          BY <5>1, UndisturbedKept DEF IInv, Busy
        <5>3. Calm' => Calm
          BY <5>1 DEF Calm
        <5>4. CASE Calm'
          BY <4>4, <5>2, <5>3, <5>4, RegisterKeeps, DDLKeeps
        <5>5. CASE ~Calm'
          BY <5>2, <5>5 DEF DataInv, Steady, Phases, Synced, Owned, RowIds
        <5> QED
          BY <5>4, <5>5
      <4> QED
        BY <4>1, <4>2, <4>3, <4>4
    <3>2. CASE \E s \in Sessions : \E st \in Statements : Start(s, st)
      BY <3>2, StartKeeps
    <3>3. CASE (\E s \in Sessions : Begin(s) \/ Commit(s) \/ Rollback(s)) \/ Flush
      BY <3>3, SessionKeeps
    <3>4. CASE Reopen \/ Restart
      BY <3>4, RestartKeeps
    <3> QED
      BY <1>2, <3>1, <3>2, <3>3, <3>4, NextSteps
  <2> QED
    BY <2>1, <2>2 DEF IInv, DataInv
<1> QED
  BY <1>1, <1>2

LEMMA IInvAlways == Spec => []IInv
  BY InitHolds, IInvStep, PTL DEF Spec

(***************************************************************************)
(* What follows                                                             *)
(***************************************************************************)

LEMMA TypesFollow ==
  ASSUME IInv
  PROVE  TypeOK
<1>1. DataTypes /\ OpTypes
  BY DEF IInv
<1>2. /\ \A key \in Keys : store[key] \in Rows \cup {NoNode, Tomb} /\ saved[key] \in Rows \cup {NoNode, Tomb}
      /\ tables \in BOOLEAN /\ fellBack \in BOOLEAN /\ raced \in BOOLEAN
      /\ reg # None => reg.id \in 0 .. N /\ reg.obj \in DOMAIN objs
  <2>1. reg # None => reg.id \in 0 .. N /\ reg.obj \in 1 .. Len(objs) /\ DOMAIN objs = 1 .. Len(objs)
    BY <1>1 DEF DataTypes, Refs
  <2> QED
    BY <1>1, <2>1 DEF DataTypes, Values
<1>3. cat.next \in 1 .. N + 1 /\ (cat.entry # None => cat.entry.id \in 0 .. N)
  BY <1>1, CatalogFacts DEF Entries
<1>4. <<gens, stmts, faults, restarts>> \in Counters
  BY <1>1 DEF DataTypes, Counters
<1>5. ASSUME NEW s \in Sessions
      PROVE  /\ op[s].stmt \in AllStmts \cup {NoStmt}
             /\ op[s].obj \in 0 .. Len(objs) /\ op[s].rows \in Nat
             /\ DOMAIN writeSet[s] \subseteq Keys
  <2>1. op[s] \in Ops /\ OpOK(op[s], Len(objs)) /\ op[s].stmt \in Stmts
    BY <1>1, OpFacts
  <2>2. op[s].stmt \in AllStmts \cup {NoStmt}
    BY <2>1, StmtFacts
  <2>3. writeSet[s] = <<>> /\ DOMAIN writeSet[s] = {}
    BY <1>1 DEF DataTypes
  <2> QED
    BY <2>1, <2>2, <2>3 DEF OpOK, Ops
<1> QED
  BY <1>2, <1>3, <1>4, <1>5 DEF TypeOK

(* A table that is created anew never shows rows of a dropped one of the    *)
(* same name (catalog.go:599, writers.go:948), for any statements, sessions, *)
(* row ids, failed catalog writes and restarts.                             *)
THEOREM DroppedRowsStayHidden == Spec => []NoGhostRows
<1>1. IInv => NoGhostRows
  <2> SUFFICES ASSUME IInv, Calm, reg # None, NEW key \in Live(store), HasPrefix(key, reg.id)
               PROVE  store[key].gen = objs[reg.obj].gen
    BY DEF NoGhostRows
  <2>1. DataTypes /\ OpTypes /\ Owned
    BY DEF IInv
  <2>2. key \in Keys /\ store[key] \in Rows
    BY <2>1 DEF Live, DataTypes, Values
  <2> QED
    BY <2>1, <2>2, OwnRows DEF Gen
<1> QED
  BY <1>1, IInvAlways, PTL

(* The registry says what the catalog says, and what a restart registers    *)
(* (writers.go:894, store.go:331); the variables keep their types.           *)
THEOREM CatalogStaysInStep == Spec => []CatalogAgrees
<1>1. IInv => CatalogAgrees
  <2> SUFFICES ASSUME IInv PROVE CatalogAgrees
    OBVIOUS
  <2>1. ASSUME Calm, faults = 0, \A s \in Sessions : ~IsDDL(op[s].stmt) PROVE Agree
    <3>1. \A s \in Sessions : op[s].pc \notin Between
      <4> SUFFICES ASSUME NEW s \in Sessions, op[s].pc \in Between PROVE FALSE
        OBVIOUS
      <4>1. OpOK(op[s], Len(objs))
        BY DEF IInv, OpTypes
      <4>2. op[s].stmt.kind \in {"create", "drop"}
        BY <4>1, PlaceFacts DEF Between
      <4> QED
        BY <2>1, <4>2 DEF IsDDL
    <3> QED
      BY <2>1, <3>1 DEF IInv, Synced
  <2> QED
    BY <2>1, TypesFollow DEF CatalogAgrees, Agree
<1> QED
  BY <1>1, IInvAlways, PTL

(* INSERT into a table without a primary key never writes where a row has    *)
(* been (store.go:594).                                                      *)
THEOREM InsertedRowsAreNew == Spec => RowidsFresh
<1>1. ASSUME IInv, NEW s \in Sessions, InsertRow(s), Calm, ~objs[op[s].obj].pk,
             NEW key \in Keys, store'[key] # store[key]
      PROVE  store[key] = NoNode
  <2>1. DataTypes /\ OpTypes /\ RowIds
    BY <1>1 DEF IInv
  <2>2. ~Stopped(s)
    BY <1>1 DEF Stopped
  <2>3. PICK k, v : Wrote(s, k, v)
    BY <1>1, <2>1, <2>2, InsertSteps
  <2>4. /\ reg # None /\ reg.id \in 1 .. N /\ k \in 1 .. N /\ <<reg.id, k>> \in Keys
        /\ store' = [store EXCEPT ![<<reg.id, k>>] = v]
        /\ objs[reg.obj] \in Objects
        /\ objs[reg.obj].pk \/ (objs[reg.obj].hidden /\ k = objs[reg.obj].next + 1)
    BY <1>1, <2>3, WroteFacts
  <2>5. key = <<reg.id, k>>
    BY <1>1, <2>1, <2>4 DEF DataTypes
  <2>6. op[s].obj = reg.obj
    BY <1>1, <2>3 DEF IInv, Steady, Current, Wrote, WithSchema
  <2>7. objs[reg.obj].hidden /\ ~objs[reg.obj].pk /\ k = objs[reg.obj].next + 1 /\ objs[reg.obj].next \in Nat
    BY <1>1, <2>4, <2>6 DEF Objects
  <2>8. store[key] # NoNode => key[2] <= objs[reg.obj].next
    BY <1>1, <2>1, <2>4, <2>5, <2>7 DEF RowIds
  <2> QED
    BY <2>5, <2>7, <2>8
<1>2. IInv /\ [Next]_vars => [\A s \in Sessions :
        InsertRow(s) /\ Calm /\ ~objs[op[s].obj].pk =>
          \A key \in Keys : store'[key] # store[key] => store[key] = NoNode]_vars
  BY <1>1
<1> QED
  BY <1>2, IInvAlways, PTL DEF Spec, RowidsFresh

(***************************************************************************)
(* A statement on a table with a primary key, run by itself, has done row   *)
(* for row what it says, and counted the rows.                              *)
(***************************************************************************)

\* The rows of table i lie under the keys that their own columns give.
Matches(i) ==
  \A key \in Keys : key[1] = i /\ key[2] # 0 =>
    /\ store[key] \in Rows => store[key].k = key[2]
    /\ saved[key] \in Rows => saved[key].k = key[2]
KeyInv ==
  Calm =>
    /\ reg # None /\ objs[reg.obj].pk => Matches(reg.id)
    /\ cat.entry # None /\ cat.entry.pk => Matches(cat.entry.id)
    /\ reg # None /\ cat.entry # None /\ reg.id = cat.entry.id => objs[reg.obj].pk = cat.entry.pk

\* A statement that runs by itself is the only one under way.
AloneInv ==
  \A s \in Sessions : op[s].alone =>
    /\ op[s].base \in [Keys -> Values] /\ Busy(s)
    /\ \A x \in Sessions : x # s => ~Busy(x)

\* UPDATE of b, and DELETE.
ByScan(o) == o.stmt.kind = "delete" \/ (o.stmt.kind = "update" /\ o.stmt.col = "b")

\* What becomes of a row, and of the rows D.
Changed(o, sc, key) ==
  IF o.stmt.kind = "delete" THEN Tomb ELSE [o.base[key] EXCEPT !.b = Filled(sc, o.stmt.val)]
Progress(o, sc, st, D) ==
  /\ o.rows = Cardinality(D)
  /\ \A key \in Keys : st[key] = IF key \in D THEN Changed(o, sc, key) ELSE o.base[key]
  /\ o.stmt.kind = "update" /\ D # {} => Valid(sc, o.stmt.val)

\* The rows that the scan meets before a key.
Before(o, key) == {x \in Named(o) : Less(x, key)}
\* m is the first node of the base behind key; there may be none.
Node(o, m) == m.key \in Keys /\ o.base[m.key] # NoNode /\ m.value = o.base[m.key]
NodeBehind(o, m, key) ==
  /\ m = None => \A x \in Keys : o.base[x] # NoNode => ~Less(key, x)
  /\ m # None => /\ Node(o, m) /\ Less(key, m.key)
                 /\ \A x \in Keys : o.base[x] # NoNode /\ Less(key, x) => x = m.key \/ Less(m.key, x)

Scanning(o, sc, st) ==
  /\ o.item = None => Progress(o, sc, st, Named(o))
  /\ o.item # None => Node(o, o.item) /\ Progress(o, sc, st, Before(o, o.item.key))
At(o) == <<o.prefix, o.row.k>>
OnRow(o, sc, st) ==
  /\ At(o) \in Named(o) /\ o.row = o.base[At(o)]
  /\ Progress(o, sc, st, Before(o, At(o)))
  /\ NodeBehind(o, o.item, At(o))
ScanDone(o, sc, st) ==
  \/ o.ok = TRUE /\ Progress(o, sc, st, Named(o))
  \/ /\ o.ok = FALSE /\ o.stmt.kind = "update" /\ ~Valid(sc, o.stmt.val)
     /\ Named(o) # {} /\ Progress(o, sc, st, {})

\* The first rows of an INSERT.
Refused(sc, rows, i) == ~Valid(sc, rows[i].b) \/ \E j \in 1 .. i - 1 : rows[j].k = rows[i].k
Inserted(o, sc, st) ==
  /\ o.rows <= Len(o.stmt.rows)
  /\ \A i \in 1 .. o.rows : ~Refused(sc, o.stmt.rows, i)
  /\ \A key \in Keys, i \in 1 .. o.rows :
       RowKey(o.prefix, o.stmt.rows[i].k) = key => st[key].b = Filled(sc, o.stmt.rows[i].b)
  /\ \A key \in Keys : (\A i \in 1 .. o.rows : RowKey(o.prefix, o.stmt.rows[i].k) # key) => st[key] = o.base[key]
InsertDone(o, sc, st) ==
  /\ Inserted(o, sc, st)
  /\ \/ o.ok = TRUE /\ o.rows = Len(o.stmt.rows)
     \/ o.ok = FALSE /\ o.rows < Len(o.stmt.rows) /\ Refused(sc, o.stmt.rows, o.rows + 1)

\* How far statement o is, with schema object sc and store st.
Effect(o, sc, st) ==
  /\ o.pc \in {"build", "scanPrefix", "writer", "prefix"} => o.prefix = NoId
  /\ o.pc \in {"build", "scanPrefix", "writer", "prefix", "open"} => st = o.base /\ o.rows = 0
  /\ sc.pk /\ o.pc = "rows" => Inserted(o, sc, st)
  /\ sc.pk /\ ByScan(o) /\ o.pc = "scan" => Scanning(o, sc, st)
  /\ sc.pk /\ ByScan(o) /\ o.pc \in {"update", "delete"} => OnRow(o, sc, st)
  /\ sc.pk /\ o.pc = "done" /\ o.prefix # NoId =>
       /\ o.stmt.kind = "insert" => InsertDone(o, sc, st)
       /\ ByScan(o) => ScanDone(o, sc, st)
\* A statement that runs by itself has done so far what it says.
EffectInv == \A s \in Sessions : Calm /\ op[s].alone => Effect(op[s], objs[op[s].obj], store)

(***************************************************************************)
(* Rows under their own keys                                                *)
(***************************************************************************)

\* What becomes of the registry, the catalog and the files when no row is written.
Relabels ==
  /\ store' \in {store, saved} /\ saved' \in {store, saved}
  /\ \/ reg' = None
     \/ reg' = reg /\ reg # None /\ objs'[reg.obj].pk = objs[reg.obj].pk
     \/ cat.entry # None /\ reg' # None /\ reg'.id = cat.entry.id /\ objs'[reg'.obj].pk = cat.entry.pk
  /\ \/ cat'.entry = None
     \/ cat'.entry = cat.entry
     \/ reg # None /\ reg' = reg /\ cat'.entry.id = reg.id /\ cat'.entry.pk = objs[reg.obj].pk

LEMMA RelabelsKeeps ==
  ASSUME KeyInv, Relabels, Calm' => Calm
  PROVE  KeyInv'
<1> SUFFICES ASSUME Calm, Calm' PROVE KeyInv'
  BY DEF KeyInv
<1>1. ASSUME NEW i, Matches(i) PROVE Matches(i)'
  BY <1>1 DEF Matches, Relabels
<1>2. reg' # None => \/ reg # None /\ reg' = reg /\ objs'[reg'.obj].pk = objs[reg.obj].pk
                     \/ cat.entry # None /\ reg'.id = cat.entry.id /\ objs'[reg'.obj].pk = cat.entry.pk
  BY DEF Relabels
<1>3. cat'.entry # None => \/ cat'.entry = cat.entry
                           \/ reg # None /\ reg' = reg /\ cat'.entry.id = reg.id /\ cat'.entry.pk = objs[reg.obj].pk
  BY DEF Relabels
<1>4. reg' # None /\ objs'[reg'.obj].pk => Matches(reg'.id)
  BY <1>2 DEF KeyInv
<1>5. cat'.entry # None /\ cat'.entry.pk => Matches(cat'.entry.id)
  BY <1>3 DEF KeyInv
<1>6. reg' # None /\ cat'.entry # None /\ reg'.id = cat'.entry.id => objs'[reg'.obj].pk = cat'.entry.pk
  BY <1>2, <1>3 DEF KeyInv
<1>7. /\ reg' # None /\ objs'[reg'.obj].pk => (\A i : i = reg'.id => Matches(i)')
      /\ cat'.entry # None /\ cat'.entry.pk => (\A i : i = cat'.entry.id => Matches(i)')
  BY <1>1, <1>4, <1>5
<1> QED
  BY <1>6, <1>7 DEF KeyInv, Matches

LEMMA KeyInit == Init => KeyInv
<1> SUFFICES ASSUME Init PROVE KeyInv
  OBVIOUS
<1>1. IInv /\ saved = store
  BY InitHolds DEF Init
<1>2. \A key \in Keys : store[key] # NoNode => store[key].k = key[2]
  BY DEF Init
<1>3. \A i : Matches(i)
  BY <1>1, <1>2, ConstantFacts DEF Matches
<1>4. reg # None => cat.entry # None /\ objs[reg.obj].pk = cat.entry.pk
  <2>1. Opens(Rehydrate(cat.entry, <<>>, 0, FALSE), cat.entry, <<>>, FALSE)
    <3>1. cat.entry \in Entries \cup {None}
      BY <1>1, CatalogFacts DEF IInv
    <3>2. <<>> \in Seq(Objects) /\ 0 \in Nat /\ FALSE \in BOOLEAN
      OBVIOUS
    <3> QED
      BY <3>1, <3>2, RehydrateTypes
  <2>2. reg # None => cat.entry # None /\ objs[reg.obj] = Schema(cat.entry.pk, FALSE, FALSE, cat.entry.gen)
    BY <2>1 DEF Init, Opened, Opens
  <2> QED
    BY <2>2 DEF Schema
<1> QED
  BY <1>3, <1>4 DEF KeyInv

LEMMA KeyWrote ==
  ASSUME IInv, KeyInv, NEW s \in Sessions, NEW k, NEW v, Wrote(s, k, v)
  PROVE  KeyInv'
<1>1. UNCHANGED <<reg, cat, saved, fellBack, raced>>
  BY DEF Wrote, Put, ends
<1>2. CASE ~Calm
  BY <1>1, <1>2 DEF KeyInv, Calm
<1>3. CASE Calm
  <2> DEFINE r == objs[reg.obj]
  <2>1. /\ reg # None /\ reg.id \in 1 .. N /\ k \in 1 .. N /\ <<reg.id, k>> \in Keys
        /\ store' = [store EXCEPT ![<<reg.id, k>>] = v] /\ v \in Rows \cup {Tomb}
        /\ reg.obj \in 1 .. Len(objs) /\ objs' = Drawn(reg.obj)
    BY <1>3, WroteFacts
  <2>2. objs'[reg.obj].pk = r.pk
    BY <2>1, DrawnFacts DEF IInv
  <2>3. r.pk /\ v # Tomb => v.k = k
    <3>1. op[s].obj = reg.obj
      BY <1>3 DEF IInv, Steady, Current, Wrote, WithSchema
    <3> QED
      BY <3>1 DEF Wrote
  <2>4. \A key \in Keys : store'[key] = IF key = <<reg.id, k>> THEN v ELSE store[key]
    BY <2>1 DEF IInv, DataTypes
  <2>5. ASSUME NEW i, Matches(i), i = reg.id => r.pk PROVE Matches(i)'
    <3> SUFFICES ASSUME NEW key \in Keys, key[1] = i, key[2] # 0, store'[key] \in Rows PROVE store'[key].k = key[2]
      BY <1>1, <2>5 DEF Matches
    <3>1. CASE key = <<reg.id, k>>
      <4>1. store'[key] = v /\ v # Tomb /\ r.pk
        BY <2>4, <2>5, <3>1, ConstantFacts
      <4> QED
        BY <2>3, <3>1, <4>1
    <3>2. CASE key # <<reg.id, k>>
      BY <2>4, <2>5, <3>2 DEF Matches
    <3> QED
      BY <3>1, <3>2
  <2>6. reg # None /\ r.pk => (\A i : i = reg.id => Matches(i)')
    BY <1>3, <2>5 DEF KeyInv
  <2>7. cat.entry # None /\ cat.entry.pk => (\A i : i = cat.entry.id => Matches(i)')
    BY <1>3, <2>1, <2>5 DEF KeyInv
  <2>8. reg # None /\ cat.entry # None /\ reg.id = cat.entry.id => r.pk = cat.entry.pk
    BY <1>3 DEF KeyInv
  <2> HIDE DEF r
  <2>9. r = objs[reg.obj]
    BY DEF r
  <2> QED
    BY <1>1, <2>2, <2>6, <2>7, <2>8 DEF KeyInv, Matches
<1> QED
  BY <1>2, <1>3

LEMMA KeyRegister ==
  ASSUME IInv, KeyInv, NEW s \in Sessions, Register(s), Calm, Calm'
  PROVE  KeyInv'
<1>0. DataTypes /\ OpTypes /\ op[s].pc = "register" /\ reg = None
  BY DEF IInv, Register, Phases
<1>1. PICK fails \in BOOLEAN, i \in {seq + 1, cat.next} :
         /\ i = (IF fails THEN seq + 1 ELSE cat.next) /\ i <= N
         /\ Persist(fails, AfterNextID)
         /\ fellBack' = (fellBack \/ fails)
         /\ reg' = [id |-> i, obj |-> Len(objs) + 1]
  BY <1>0, Zenon DEF Register
<1>2. ~fails /\ i = cat.next
  BY <1>1 DEF Calm
<1>3. UNCHANGED <<store, saved>>
  BY DEF Register, ends
<1>4. cat'.entry = cat.entry /\ reg'.id = cat.next
  BY <1>0, <1>1, <1>2, CatalogFacts DEF Persist
<1>5. \A key \in Keys : key[1] = cat.next /\ key[2] # 0 => store[key] \notin Rows /\ saved[key] \notin Rows
  <2>1. \A key \in Keys : key[2] # 0 /\ (store[key] # NoNode \/ saved[key] # NoNode) => key[1] < cat.next
    BY DEF IInv, RowIds
  <2>2. cat.next \in Nat
    BY <1>0, CatalogFacts, ConstantFacts
  <2> QED
    BY <2>1, <2>2, ConstantFacts
<1>6. cat.entry # None => cat.entry.id # cat.next
  <2> SUFFICES ASSUME cat.entry # None PROVE cat.entry.id # cat.next
    OBVIOUS
  <2>1. cat.entry.id \in 0 .. N /\ cat.entry.gen \in Nat
    BY <1>0, CatalogFacts DEF Entries
  <2>2. Says(cat.entry.id, cat.entry.gen)
    BY DEF Says
  <2>3. cat.entry.id < cat.next /\ cat.next \in Nat
    BY <1>0, <2>1, <2>2, CatalogFacts, ConstantFacts DEF IInv, Owned
  <2> QED
    BY <2>1, <2>3
<1>7. \A i2 : i2 = reg'.id => Matches(i2)'
  BY <1>3, <1>4, <1>5 DEF Matches
<1>8. cat.entry # None /\ cat.entry.pk => (\A i2 : i2 = cat.entry.id => Matches(i2)')
  BY <1>3 DEF KeyInv, Matches
<1> QED
  BY <1>4, <1>6, <1>7, <1>8 DEF KeyInv, Matches

\* The other steps of CREATE and DROP.
LEMMA DDLRelabels ==
  ASSUME IInv, NEW s \in Sessions, DDLRest(s), Calm
  PROVE  Relabels
<1> DEFINE o == op[s]
<1>0. /\ DataTypes /\ OpTypes /\ o \in Ops
      /\ reg # None => reg.id \in 0 .. N /\ reg.obj \in 1 .. Len(objs) /\ objs[reg.obj] \in Objects
  BY OpFacts DEF IInv, OpTypes
<1>1. UNCHANGED <<store, saved>>
  BY DDLMoves
<1>2. CASE CreateTable(s) \/ DropTable(s)
  BY <1>1, <1>2 DEF Relabels, CreateTable, DropTable
<1>3. CASE Hide(s)
  <2>1. reg' = reg /\ cat' = cat
    BY <1>3 DEF Hide
  <2>2. reg # None => objs'[reg.obj].pk = objs[reg.obj].pk
    <3> SUFFICES ASSUME reg # None PROVE objs'[reg.obj].pk = objs[reg.obj].pk
      OBVIOUS
    <3> DEFINE e == [objs[reg.obj] EXCEPT !.hidden = TRUE]
    <3>1. e \in Objects /\ e.pk = objs[reg.obj].pk
      BY <1>0 DEF Objects
    <3>2. objs' = objs \/ objs' = [objs EXCEPT ![reg.obj] = e]
      BY <1>3 DEF Hide
    <3> HIDE DEF e
    <3>3. [objs EXCEPT ![reg.obj] = e][reg.obj] = e
      BY <1>0, <3>1, ObjectKept
    <3> QED
      BY <3>1, <3>2, <3>3
  <2> QED
    BY <1>1, <2>1, <2>2 DEF Relabels
<1>4. CASE NameId(s)
  <2>1. UNCHANGED <<reg, objs>>
    BY <1>4 DEF NameId
  <2>2. cat'.entry = cat.entry
    <3>1. cat' = cat \/ cat' = AfterNextID
      BY <1>4 DEF NameId, Persist
    <3> QED
      BY <1>0, <3>1, CatalogFacts
  <2> QED
    BY <1>1, <2>1, <2>2 DEF Relabels
<1>5. CASE CatalogPut(s)
  <2>1. UNCHANGED <<reg, objs>> /\ o.pc = "put"
    BY <1>5 DEF CatalogPut
  <2>2. reg # None /\ reg.id = o.id /\ objs[reg.obj].pk = o.stmt.pk
    BY <2>1 DEF IInv, Phases
  <2> DEFINE e == [id |-> o.id, pk |-> o.stmt.pk, gen |-> gens]
  <2>3. cat' = cat \/ cat' = [cat EXCEPT !.entry = e]
    BY <1>5 DEF CatalogPut, Persist
  <2>4. e.id = reg.id /\ e.pk = objs[reg.obj].pk /\ [cat EXCEPT !.entry = e].entry = e
    BY <1>0, <2>2 DEF DataTypes
  <2> HIDE DEF e
  <2>5. cat'.entry = cat.entry \/ (cat'.entry.id = reg.id /\ cat'.entry.pk = objs[reg.obj].pk)
    BY <2>3, <2>4
  <2> QED
    BY <1>1, <2>1, <2>2, <2>5 DEF Relabels
<1>6. CASE Unregister(s)
  BY <1>1, <1>6 DEF Relabels, Unregister
<1>7. CASE CatalogDelete(s)
  <2>1. UNCHANGED <<reg, objs>>
    BY <1>7 DEF CatalogDelete
  <2>2. cat' = cat \/ cat' = [cat EXCEPT !.entry = None]
    BY <1>7 DEF CatalogDelete, Persist
  <2>3. cat'.entry = cat.entry \/ cat'.entry = None
    BY <1>0, <2>2 DEF DataTypes
  <2> QED
    BY <1>1, <2>1, <2>3 DEF Relabels
<1> QED
  BY <1>2, <1>3, <1>4, <1>5, <1>6, <1>7 DEF DDLRest

LEMMA RestartRelabels ==
  ASSUME IInv, Reopen \/ Restart
  PROVE  Relabels
<1>1. /\ UNCHANGED <<cat, gens, fellBack, faults, raced>>
      /\ store' \in {store, saved} /\ saved' \in {store, saved}
      /\ \/ store' = store /\ reg # None /\ UNCHANGED <<tables, reg, objs>> /\ Reopen
         \/ /\ cat.entry = None /\ reg' = None
            /\ (tables' = FALSE \/ (tables' = tables /\ reg = None /\ Reopen))
         \/ /\ cat.entry # None /\ tables' /\ reg' # None
            /\ reg'.id = cat.entry.id /\ objs'[reg'.obj] = Schema(cat.entry.pk, FALSE, FALSE, cat.entry.gen)
  BY RestartTypes DEF IInv
<1>2. Schema(cat.entry.pk, FALSE, FALSE, cat.entry.gen).pk = cat.entry.pk
  BY DEF Schema
<1> QED
  BY <1>1, <1>2 DEF Relabels

LEMMA KeyStep ==
  ASSUME IInv, KeyInv, Next
  PROVE  KeyInv'
<1>1. CASE \E s \in Sessions : \/ Looks(s) \/ Stopped(s) \/ InsertRow(s) \/ UpdateRow(s) \/ DeleteRow(s)
                                 \/ Register(s) \/ DDLRest(s)
  <2>1. PICK s \in Sessions : \/ Looks(s) \/ Stopped(s) \/ InsertRow(s) \/ UpdateRow(s) \/ DeleteRow(s)
                               \/ Register(s) \/ DDLRest(s)
    BY <1>1
  <2>2. CASE Looks(s) \/ Stopped(s)
    <3>1. UNCHANGED <<store, saved, reg, objs, cat, fellBack, raced>>
      BY <2>2 DEF Looks, Stopped, Build, ScanPrefix, BuildWriter, WritePrefix, OpenScan, ScanNext, Reply, schemaVars, ends
    <3> QED
      BY <3>1, RelabelsKeeps DEF Relabels, Calm
  <2>3. CASE InsertRow(s) \/ UpdateRow(s) \/ DeleteRow(s)
    <3>1. Stopped(s) \/ \E k, v : Wrote(s, k, v)
      BY <2>3, InsertSteps, UpdateSteps, DeleteSteps DEF IInv
    <3> QED
      BY <2>2, <3>1, KeyWrote
  <2>4. CASE Register(s) \/ DDLRest(s)
    <3>1. Calm' => Calm
      BY <2>4, DDLMoves DEF Calm
    <3>2. CASE Calm'
      BY <2>4, <3>1, <3>2, KeyRegister, DDLRelabels, RelabelsKeeps
    <3>3. CASE ~Calm'
      BY <3>3 DEF KeyInv
    <3> QED
      BY <3>2, <3>3
  <2> QED
    BY <2>1, <2>2, <2>3, <2>4
<1>2. CASE \E s \in Sessions : \E st \in Statements : Start(s, st)
  <2>1. PICK s \in Sessions, st \in Statements : Start(s, st)
    BY <1>2
  <2>2. UNCHANGED <<store, saved, reg, objs, cat, fellBack>> /\ (~raced' => ~raced)
    BY <2>1, Zenon DEF Start, schemaVars, ends
  <2> QED
    BY <2>2, RelabelsKeeps DEF Relabels, Calm
<1>3. CASE (\E s \in Sessions : Begin(s) \/ Commit(s) \/ Rollback(s)) \/ Flush
  <2>1. UNCHANGED <<store, schemaVars, op, faults, raced>> /\ saved' \in {saved, store}
    BY <1>3, SessionTypes DEF IInv
  <2> QED
    BY <2>1, RelabelsKeeps DEF Relabels, Calm, schemaVars
<1>4. CASE Reopen \/ Restart
  <2>1. Calm' => Calm
    BY <1>4 DEF Calm, Reopen, Restart, Restarted
  <2> QED
    BY <1>4, <2>1, RestartRelabels, RelabelsKeeps
<1> QED
  BY <1>1, <1>2, <1>3, <1>4, NextSteps

(***************************************************************************)
(* Statements that run by themselves                                        *)
(***************************************************************************)

\* A statement goes on: it is still the one it was.
GoesOn(o, p) ==
  p = NoOp \/ (p.alone = o.alone /\ p.base = o.base /\ p.stmt = o.stmt /\ p.pc # "idle")
Acts(s) == Looks(s) \/ Stopped(s) \/ InsertRow(s) \/ UpdateRow(s) \/ DeleteRow(s) \/ Register(s) \/ DDLRest(s)

LEMMA ActingMoves ==
  ASSUME IInv, NEW s \in Sessions, Acts(s)
  PROVE  /\ Busy(s) /\ GoesOn(op[s], op'[s])
         /\ \A x \in Sessions : x # s => op'[x] = op[x]
         /\ (raced => raced') /\ (fellBack => fellBack')
<1> DEFINE o == op[s]
<1>0. o \in Ops /\ OpTypes /\ DataTypes
  BY DEF IInv, OpTypes
<1>1. (raced => raced') /\ (fellBack => fellBack')
  <2>1. CASE Looks(s)
    <3>1. UNCHANGED <<fellBack, raced>>
      BY <2>1 DEF Looks, Build, ScanPrefix, BuildWriter, WritePrefix, OpenScan, ScanNext, Reply, schemaVars, ends
    <3> QED
      BY <3>1
  <2>2. CASE Stopped(s)
    BY <2>2 DEF Stopped, schemaVars
  <2>3. CASE \E k, v : Wrote(s, k, v)
    BY <2>3 DEF Wrote, Put
  <2>4. CASE Register(s) \/ DDLRest(s)
    BY <2>4, DDLMoves
  <2> QED
    BY <1>0, <2>1, <2>2, <2>3, <2>4, InsertSteps, UpdateSteps, DeleteSteps DEF Acts
<1>2. Busy(s)
  <2>1. CASE Looks(s)
    BY <2>1 DEF Looks, Build, ScanPrefix, BuildWriter, WritePrefix, OpenScan, ScanNext, Reply, Busy
  <2>2. CASE Stopped(s) \/ InsertRow(s) \/ UpdateRow(s) \/ DeleteRow(s)
    BY <2>2 DEF Stopped, InsertRow, UpdateRow, DeleteRow, Busy
  <2>3. CASE Register(s) \/ DDLRest(s)
    BY <2>3, DDLMoves
  <2> QED
    BY <2>1, <2>2, <2>3 DEF Acts
<1> DEFINE Places2 == PCs \ {"idle"}
<1>3. \E q \in Places2 : \E k, b, i, m, r :
        \/ Goto(s, NoOp) \/ Goto(s, Done(s, k, b)) \/ Goto(s, [o EXCEPT !.pc = q])
        \/ Goto(s, [o EXCEPT !.id = i, !.pc = q]) \/ Goto(s, [o EXCEPT !.obj = i, !.pc = q])
        \/ Goto(s, [o EXCEPT !.scan = i, !.pc = q]) \/ Goto(s, [o EXCEPT !.prefix = i, !.pc = q])
        \/ Goto(s, [o EXCEPT !.item = m, !.pc = q]) \/ Goto(s, [o EXCEPT !.item = m, !.row = r, !.pc = q])
        \/ (Goto(s, [o EXCEPT !.rows = k]) /\ o.pc = "rows") \/ Goto(s, [o EXCEPT !.rows = k, !.row = None, !.pc = q])
  <2>1. CASE Build(s) \/ ScanPrefix(s) \/ BuildWriter(s) \/ WritePrefix(s)
    BY <2>1 DEF Build, ScanPrefix, BuildWriter, WritePrefix, PCs
  <2>2. CASE OpenScan(s) \/ Reply(s)
    BY <2>2 DEF OpenScan, Reply, PCs
  <2>3. CASE ScanNext(s)
    <3>1. o.pc = "scan"
      BY <2>3 DEF ScanNext
    <3>2. o.stmt.kind \in {"update", "delete"}
      BY <1>0, <3>1, PlaceFacts DEF OpTypes
    <3>3. \E q \in {"scan", "update", "delete"} : \E k, b, m, r :
            Goto(s, Done(s, k, b)) \/ Goto(s, [o EXCEPT !.item = m, !.row = r, !.pc = q])
      BY <2>3, <3>2 DEF ScanNext
    <3> QED
      BY <3>3 DEF PCs
  <2>4. CASE Stopped(s)
    BY <2>4 DEF Stopped, PCs
  <2>5. CASE \E k, v : Wrote(s, k, v)
    BY <2>5 DEF Wrote, PCs
  <2>6. CASE Register(s) \/ DDLRest(s)
    BY <2>6 DEF DDLRest, Register, CreateTable, Hide, NameId, CatalogPut, DropTable, Unregister, CatalogDelete, PCs
  <2> QED
    BY <1>0, <2>1, <2>2, <2>3, <2>4, <2>5, <2>6, InsertSteps, UpdateSteps, DeleteSteps DEF Acts, Looks
<1>4. PICK q \in Places2 : \E k, b, i, m, r :
        \/ Goto(s, NoOp) \/ Goto(s, Done(s, k, b)) \/ Goto(s, [o EXCEPT !.pc = q])
        \/ Goto(s, [o EXCEPT !.id = i, !.pc = q]) \/ Goto(s, [o EXCEPT !.obj = i, !.pc = q])
        \/ Goto(s, [o EXCEPT !.scan = i, !.pc = q]) \/ Goto(s, [o EXCEPT !.prefix = i, !.pc = q])
        \/ Goto(s, [o EXCEPT !.item = m, !.pc = q]) \/ Goto(s, [o EXCEPT !.item = m, !.row = r, !.pc = q])
        \/ (Goto(s, [o EXCEPT !.rows = k]) /\ o.pc = "rows") \/ Goto(s, [o EXCEPT !.rows = k, !.row = None, !.pc = q])
  BY <1>3
<1>5. \A k, b, i, m, r :
      /\ GoesOn(o, Done(s, k, b)) /\ GoesOn(o, [o EXCEPT !.pc = q]) /\ GoesOn(o, [o EXCEPT !.id = i, !.pc = q])
      /\ GoesOn(o, [o EXCEPT !.obj = i, !.pc = q]) /\ GoesOn(o, [o EXCEPT !.scan = i, !.pc = q])
      /\ GoesOn(o, [o EXCEPT !.prefix = i, !.pc = q]) /\ GoesOn(o, [o EXCEPT !.item = m, !.pc = q])
      /\ GoesOn(o, [o EXCEPT !.item = m, !.row = r, !.pc = q])
      /\ (o.pc = "rows" => GoesOn(o, [o EXCEPT !.rows = k]))
      /\ GoesOn(o, [o EXCEPT !.rows = k, !.row = None, !.pc = q]) /\ GoesOn(o, NoOp)
  BY <1>0 DEF GoesOn, Done, Ops
<1>6. \E p : Goto(s, p) /\ GoesOn(o, p)
  BY <1>4, <1>5
<1> QED
  BY <1>0, <1>1, <1>2, <1>6, Moved

LEMMA AloneStep ==
  ASSUME IInv, AloneInv, Next
  PROVE  AloneInv'
<1>0. NoOp.alone = FALSE
  BY DEF NoOp
<1>1. CASE \E s \in Sessions : Acts(s)
  <2>1. PICK s \in Sessions : Acts(s)
    BY <1>1
  <2>2. /\ Busy(s) /\ GoesOn(op[s], op'[s])
        /\ \A x \in Sessions : x # s => op'[x] = op[x]
    BY <2>1, ActingMoves
  <2> SUFFICES ASSUME NEW y \in Sessions, op'[y].alone
               PROVE  /\ op'[y].base \in [Keys -> Values] /\ op'[y].pc # "idle"
                      /\ \A x \in Sessions : x # y => op'[x].pc = "idle"
    BY DEF AloneInv, Busy
  <2>3. y = s
    BY <2>2 DEF AloneInv
  <2> QED
    BY <1>0, <2>2, <2>3 DEF AloneInv, GoesOn, Busy
<1>2. CASE \E s \in Sessions : \E st \in Statements : Start(s, st)
  <2>1. PICK s \in Sessions, st \in Statements : Start(s, st)
    BY <1>2
  <2>2. /\ ~Busy(s)
        /\ op' = [x \in Sessions |->
                   IF x = s
                   THEN [NoOp EXCEPT !.pc = IF IsDDL(st) THEN st.kind ELSE "build", !.stmt = st,
                                     !.alone = ({z \in Sessions : Busy(z)} = {}),
                                     !.base = IF {z \in Sessions : Busy(z)} = {} THEN store ELSE None]
                   ELSE IF Busy(x) THEN [op[x] EXCEPT !.alone = FALSE, !.base = None]
                   ELSE op[x]]
    BY <2>1, Zenon DEF Start
  <2>3. \A x \in Sessions : x # s => op'[x] = op[x] \/ op'[x].alone = FALSE
    BY <2>2 DEF IInv, OpTypes, Ops
  <2>4. \A x \in Sessions : x # s => (op'[x].alone => FALSE)
    <3>1. \A x \in Sessions : x # s /\ Busy(x) => op'[x].alone = FALSE
      BY <2>2 DEF IInv, OpTypes, Ops
    <3> QED
      BY <2>3, <3>1 DEF AloneInv
  <2>5. op'[s].pc # "idle"
    <3>1. op'[s].pc = IF IsDDL(st) THEN st.kind ELSE "build"
      BY <2>2 DEF NoOp
    <3> QED
      BY <3>1 DEF IsDDL
  <2>6. op'[s].alone => op'[s].base = store /\ \A x \in Sessions : ~Busy(x)
    BY <2>2 DEF NoOp
  <2>7. op'[s].alone => \A x \in Sessions : x # s => op'[x].pc = "idle"
    BY <2>2, <2>6 DEF Busy
  <2> QED
    BY <2>4, <2>5, <2>6, <2>7 DEF AloneInv, Busy, IInv, DataTypes
<1>3. CASE (\E s \in Sessions : Begin(s) \/ Commit(s) \/ Rollback(s)) \/ Flush
  <2>1. op' = op
    BY <1>3, SessionTypes DEF IInv
  <2> QED
    BY <2>1 DEF AloneInv, Busy
<1>4. CASE Reopen \/ Restart
  <2>1. \A s \in Sessions : op'[s] = NoOp
    BY <1>4, RestartTypes DEF IInv
  <2> QED
    BY <1>0, <2>1 DEF AloneInv
<1> QED
  BY <1>1, <1>2, <1>3, <1>4, NextSteps DEF Acts

(***************************************************************************)
(* The order of the keys, and the rows a statement names                    *)
(***************************************************************************)

LEMMA LessFacts ==
  ASSUME NEW x \in Keys, NEW y \in Keys, NEW z \in Keys
  PROVE  /\ ~Less(x, x) /\ (Less(x, y) => ~Less(y, x))
         /\ Less(x, y) /\ Less(y, z) => Less(x, z)
         /\ x = y \/ Less(x, y) \/ Less(y, x)
<1>1. /\ x[1] \in Nat /\ x[2] \in Nat /\ x = <<x[1], x[2]>>
      /\ y[1] \in Nat /\ y[2] \in Nat /\ y = <<y[1], y[2]>>
      /\ z[1] \in Nat /\ z[2] \in Nat
  BY ConstantFacts DEF Keys
<1> QED
  BY <1>1 DEF Less

LEMMA KeysFinite == IsFiniteSet(Keys)
<1>1. IsFiniteSet(0 .. N)
  BY ConstantFacts, FS_Interval
<1> QED
  BY <1>1, FS_Product DEF Keys

\* A scan of a statement that runs by itself.
Scans(o) == o \in Ops /\ o.base \in [Keys -> Values] /\ ByScan(o)

LEMMA NamedFacts ==
  ASSUME NEW o, Scans(o)
  PROVE  /\ Named(o) \subseteq Keys /\ IsFiniteSet(Named(o))
         /\ \A key \in Named(o) : o.base[key] \in Rows /\ o.base[key] # NoNode
         /\ \A key \in Keys : key \in Named(o) <=>
              o.base[key] \in Rows /\ HasPrefix(key, o.prefix) /\ Where(o.stmt.where, o.base[key])
<1>1. \A key \in Keys : o.base[key] \in Rows \/ o.base[key] \in {NoNode, Tomb}
  BY DEF Scans, Values
<1>2. Named(o) \subseteq Keys
  BY DEF Named, Live
<1>3. IsFiniteSet(Named(o))
  BY <1>2, KeysFinite, FS_Subset
<1> QED
  BY <1>1, <1>2, <1>3, ConstantFacts DEF Named, Live

\* A row that is changed is a node still.
LEMMA ChangedFacts ==
  ASSUME NEW o, Scans(o), NEW sc, NEW key \in Named(o), o.stmt.kind = "update" => Valid(sc, o.stmt.val)
  PROVE  Changed(o, sc, key) # NoNode
<1>1. o.base[key] \in Rows /\ o.stmt \in Stmts
  BY NamedFacts DEF Scans, Ops
<1>2. CASE o.stmt.kind = "delete"
  BY <1>2, ConstantFacts DEF Changed
<1>3. CASE o.stmt.kind = "update"
  <2>1. Filled(sc, o.stmt.val) \in Bs
    BY <1>1, <1>3, StmtFacts, FilledFacts DEF Valid
  <2>2. [o.base[key] EXCEPT !.b = Filled(sc, o.stmt.val)] \in Rows
    BY <1>1, <2>1 DEF Rows
  <2> QED
    BY <1>3, <2>2, ConstantFacts DEF Changed
<1> QED
  BY <1>2, <1>3 DEF Scans, ByScan

\* The scan meets the nodes that the statement began with.
LEMMA NodesKept ==
  ASSUME NEW o, Scans(o), NEW sc, NEW st, NEW D \in SUBSET Named(o), Progress(o, sc, st, D)
  PROVE  \A key \in Keys : st[key] # NoNode <=> o.base[key] # NoNode
<1> SUFFICES ASSUME NEW key \in Keys PROVE st[key] # NoNode <=> o.base[key] # NoNode
  OBVIOUS
<1>1. CASE key \in D
  <2>1. Changed(o, sc, key) # NoNode
    BY <1>1, ChangedFacts DEF Progress
  <2>2. st[key] = Changed(o, sc, key) /\ o.base[key] # NoNode
    BY <1>1, NamedFacts DEF Progress
  <2> QED
    BY <2>1, <2>2
<1>2. CASE key \notin D
  BY <1>2 DEF Progress
<1> QED
  BY <1>1, <1>2

\* Past a key, the rows met are those before it and its own.
LEMMA PastKey ==
  ASSUME NEW o, Scans(o), NEW key \in Keys, NEW m, NodeBehind(o, m, key)
  PROVE  LET met == {x \in Named(o) : Less(x, key) \/ x = key}
         IN /\ m = None => Named(o) = met
            /\ m # None => Node(o, m) /\ Before(o, m.key) = met
<1>0. \A x \in Named(o) : x \in Keys /\ o.base[x] # NoNode
  BY NamedFacts
<1>1. ASSUME m = None, NEW x \in Named(o) PROVE Less(x, key) \/ x = key
  <2>1. ~Less(key, x)
    BY <1>0, <1>1 DEF NodeBehind
  <2> QED
    BY <1>0, <2>1, LessFacts
<1>2. ASSUME m # None PROVE Node(o, m) /\ Less(key, m.key) /\ m.key \in Keys
  BY <1>2 DEF NodeBehind, Node
<1>3. ASSUME m # None, NEW x \in Named(o) PROVE Less(x, m.key) <=> (Less(x, key) \/ x = key)
  <2>1. ASSUME Less(x, key) \/ x = key PROVE Less(x, m.key)
    BY <1>0, <1>2, <1>3, <2>1, LessFacts
  <2>2. ASSUME Less(x, m.key) PROVE ~Less(key, x)
    <3>1. ~(x = m.key \/ Less(m.key, x))
      BY <1>0, <1>2, <1>3, <2>2, LessFacts
    <3> QED
      BY <1>0, <1>3, <3>1 DEF NodeBehind
  <2> QED
    BY <1>0, <2>1, <2>2, LessFacts
<1> QED
  BY <1>1, <1>2, <1>3 DEF Before

\* What the effect reads of an operation.
LEMMA SameScan ==
  ASSUME NEW o, NEW p, p.base = o.base, p.stmt = o.stmt, p.prefix = o.prefix, NEW sc
  PROVE  /\ Named(p) = Named(o) /\ ByScan(p) = ByScan(o)
         /\ \A key : Before(p, key) = Before(o, key) /\ Changed(p, sc, key) = Changed(o, sc, key)
         /\ \A m : Node(p, m) = Node(o, m)
         /\ \A m, key : NodeBehind(p, m, key) = NodeBehind(o, m, key)
         /\ \A st, D : p.rows = o.rows => Progress(p, sc, st, D) = Progress(o, sc, st, D)
<1>1. Named(p) = Named(o) /\ ByScan(p) = ByScan(o)
  BY DEF Named, ByScan
<1>2. \A key : Before(p, key) = Before(o, key) /\ Changed(p, sc, key) = Changed(o, sc, key)
  BY <1>1 DEF Before, Changed
<1>3. \A m : Node(p, m) = Node(o, m)
  BY DEF Node
<1>4. \A m, key : NodeBehind(p, m, key) = NodeBehind(o, m, key)
  BY <1>3 DEF NodeBehind
<1>5. ASSUME NEW st, NEW D, p.rows = o.rows PROVE Progress(p, sc, st, D) = Progress(o, sc, st, D)
  BY <1>2, <1>5 DEF Progress
<1> QED
  BY <1>1, <1>2, <1>3, <1>4, <1>5

\* A scan that has been past key.
LEMMA ScanPast ==
  ASSUME NEW p, Scans(p), NEW sc, NEW st, NEW key \in Keys, NodeBehind(p, p.item, key),
         Progress(p, sc, st, {x \in Named(p) : Less(x, key) \/ x = key})
  PROVE  Scanning(p, sc, st)
BY PastKey DEF Scanning

(***************************************************************************)
(* Before the rows, and the scan                                            *)
(***************************************************************************)

LEMMA NotYet ==
  ASSUME NEW p, NEW sc, NEW st,
         p.pc \in {"build", "scanPrefix", "writer", "prefix", "open"}, p.pc # "open" => p.prefix = NoId,
         st = p.base, p.rows = 0
  PROVE  Effect(p, sc, st)
BY DEF Effect

LEMMA NoEffect ==
  ASSUME NEW p, NEW sc, NEW st,
         p.pc \in {"idle", "create", "register", "hide", "name", "put", "drop", "unregister", "forget", "done"},
         p.pc = "done" => p.prefix = NoId \/ p.stmt.kind \in {"create", "drop"}
  PROVE  Effect(p, sc, st)
BY DEF Effect, ByScan

LEMMA EarlyEffect ==
  ASSUME IInv, AloneInv, NEW s \in Sessions, op[s].alone, NEW sc0, Effect(op[s], sc0, store),
         Build(s) \/ ScanPrefix(s) \/ BuildWriter(s) \/ WritePrefix(s), NEW sc
  PROVE  Effect(op'[s], sc, store)
<1> DEFINE o == op[s]
<1>a. PICK p : p = op'[s]
  OBVIOUS
<1>0. o \in Ops /\ OpTypes /\ o.pc \in PCs /\ o.stmt \in Stmts /\ o.base \in [Keys -> Values]
  BY DEF IInv, OpTypes, Ops, AloneInv
<1>1. o.pc \in {"build", "scanPrefix", "writer", "prefix"}
  BY DEF Build, ScanPrefix, BuildWriter, WritePrefix
<1>2. o.prefix = NoId /\ store = o.base /\ o.rows = 0
  BY <1>1 DEF Effect
<1>3. \A q : Goto(s, q) => p = q
  BY <1>0, <1>a, Moved
<1>4. \A k, b : Done(s, k, b).pc = "done" /\ Done(s, k, b).prefix = NoId
  BY <1>0, <1>2 DEF Done, Ops
<1>5. CASE \E k, b : p = Done(s, k, b)
  BY <1>a, <1>4, <1>5, NoEffect
<1>6. CASE \/ p = [o EXCEPT !.obj = reg.obj, !.pc = "prefix"]
           \/ p = [o EXCEPT !.obj = reg.obj, !.pc = "scanPrefix"]
           \/ p = [o EXCEPT !.scan = IdOf(reg), !.pc = "writer"]
  <2>1. p.pc \in {"scanPrefix", "writer", "prefix"} /\ p.prefix = NoId /\ store = p.base /\ p.rows = 0
    <3>1. CASE p = [o EXCEPT !.obj = reg.obj, !.pc = "prefix"]
      BY <1>0, <1>2, <3>1 DEF Ops
    <3>2. CASE p = [o EXCEPT !.obj = reg.obj, !.pc = "scanPrefix"]
      BY <1>0, <1>2, <3>2 DEF Ops
    <3>3. CASE p = [o EXCEPT !.scan = IdOf(reg), !.pc = "writer"]
      BY <1>0, <1>2, <3>3 DEF Ops
    <3> QED
      BY <1>6, <3>1, <3>2, <3>3
  <2> QED
    BY <1>a, <2>1, NotYet
<1>7. CASE p = [o EXCEPT !.prefix = IdOf(reg), !.pc = "open"]
  <2>1. p.pc = "open" /\ store = p.base /\ p.rows = 0
    BY <1>0, <1>2, <1>7 DEF Ops
  <2> QED
    BY <1>a, <2>1, NotYet
<1>8. CASE o.stmt.kind = "insert" /\ p = [o EXCEPT !.prefix = IdOf(reg), !.pc = "rows"]
  <2>1. p.pc = "rows" /\ store = p.base /\ p.rows = 0 /\ p.stmt = o.stmt
    BY <1>0, <1>2, <1>8 DEF Ops
  <2>2. o.stmt.rows \in Seq([k : 1 .. N, b : Bs \cup {Null}])
    BY <1>0, <1>8, StmtFacts
  <2>3. Len(o.stmt.rows) \in Nat
    BY <2>2
  <2>4. Inserted(p, sc, store)
    BY <2>1, <2>3 DEF Inserted
  <2> QED
    BY <1>a, <2>1, <2>4 DEF Effect
<1>9. \/ \E k, b : p = Done(s, k, b)
      \/ p = [o EXCEPT !.obj = reg.obj, !.pc = "prefix"]
      \/ p = [o EXCEPT !.obj = reg.obj, !.pc = "scanPrefix"]
      \/ p = [o EXCEPT !.scan = IdOf(reg), !.pc = "writer"]
      \/ p = [o EXCEPT !.prefix = IdOf(reg), !.pc = "open"]
      \/ o.stmt.kind = "insert" /\ p = [o EXCEPT !.prefix = IdOf(reg), !.pc = "rows"]
  <2>1. CASE Build(s)
    <3>1. CASE reg = None
      BY <1>3, <2>1, <3>1 DEF Build
    <3>2. CASE reg # None /\ o.stmt.kind = "insert"
      BY <1>3, <2>1, <3>2 DEF Build
    <3>3. CASE reg # None /\ o.stmt.kind # "insert"
      BY <1>3, <2>1, <3>3 DEF Build
    <3> QED
      BY <3>1, <3>2, <3>3
  <2>2. CASE ScanPrefix(s)
    BY <1>3, <2>2 DEF ScanPrefix
  <2>3. CASE BuildWriter(s)
    <3>1. CASE reg = None
      BY <1>3, <2>3, <3>1 DEF BuildWriter
    <3>2. CASE reg # None
      BY <1>3, <2>3, <3>2 DEF BuildWriter
    <3> QED
      BY <3>1, <3>2
  <2>4. CASE WritePrefix(s)
    <3>1. CASE o.stmt.ret
      BY <1>3, <2>4, <3>1 DEF WritePrefix
    <3>2. CASE ~o.stmt.ret /\ o.stmt.kind = "insert"
      BY <1>3, <2>4, <3>2 DEF WritePrefix
    <3>3. CASE ~o.stmt.ret /\ o.stmt.kind # "insert"
      BY <1>3, <2>4, <3>3 DEF WritePrefix
    <3> QED
      BY <3>1, <3>2, <3>3
  <2> QED
    BY <2>1, <2>2, <2>3, <2>4
<1> QED
  BY <1>a, <1>5, <1>6, <1>7, <1>8, <1>9

LEMMA OpenEffect ==
  ASSUME IInv, AloneInv, NEW s \in Sessions, op[s].alone, NEW sc0, Effect(op[s], sc0, store), OpenScan(s), NEW sc
  PROVE  Effect(op'[s], sc, store)
<1> DEFINE o == op[s]
<1>a. PICK p : p = op'[s]
  OBVIOUS
<1>0. o \in Ops /\ OpTypes /\ DataTypes /\ o.base \in [Keys -> Values] /\ o.pc = "open"
  BY DEF IInv, OpTypes, AloneInv, OpenScan
<1>1. store = o.base /\ o.rows = 0
  BY <1>0 DEF Effect
<1>2. p = [o EXCEPT !.item = Fetch(Nodes), !.pc = "scan"]
  BY <1>0, <1>a, Moved DEF OpenScan
<1>3. Fetch(Nodes) \in Items \cup {None}
  BY <1>0, FetchFacts
<1>4. /\ p \in Ops /\ p.pc = "scan" /\ p.item = Fetch(Nodes) /\ p.rows = 0 /\ p.base = store
      /\ p.base \in [Keys -> Values]
  <2>1. p \in Ops
    <3>1. "scan" \in PCs
      BY DEF PCs
    <3>2. \A m \in Items \cup {None} : [o EXCEPT !.item = m, !.pc = "scan"] \in Ops
      BY <1>0, <3>1, Edits
    <3> QED
      BY <1>2, <1>3, <3>2
  <2> QED
    BY <1>0, <1>1, <1>2, <2>1 DEF Ops
<1>5. ASSUME ByScan(p) PROVE Scanning(p, sc, store)
  <2>1. Scans(p)
    BY <1>4, <1>5 DEF Scans
  <2>2. \A x \in Named(p) : x \in Nodes /\ x \in Keys
    BY <1>4, <2>1, NamedFacts DEF Nodes
  <2>3. Progress(p, sc, store, {})
    BY <1>4, FS_EmptySet DEF Progress
  <2>4. CASE p.item = None
    <3>1. Nodes = {}
      BY <1>0, <1>4, <2>4, FetchFacts
    <3>2. Named(p) = {}
      BY <2>2, <3>1
    <3> QED
      BY <2>3, <2>4, <3>2 DEF Scanning
  <2>5. CASE p.item # None
    <3>1. /\ p.item.key \in Nodes /\ p.item.key \in Keys /\ p.item.value = store[p.item.key]
          /\ \A y \in Nodes : p.item.key = y \/ Less(p.item.key, y)
      BY <1>0, <1>4, <2>5, FetchFacts
    <3>2. Before(p, p.item.key) = {}
      BY <2>2, <3>1, LessFacts DEF Before
    <3>3. Node(p, p.item)
      BY <1>4, <3>1 DEF Node, Nodes
    <3> QED
      BY <2>3, <2>5, <3>2, <3>3 DEF Scanning
  <2> QED
    BY <2>4, <2>5
<1> QED
  BY <1>a, <1>4, <1>5 DEF Effect

\* An operation past its prefix, of UPDATE of b or DELETE, and the table it is on.
LEMMA OnTable ==
  ASSUME IInv, KeyInv, AloneInv, Calm, NEW s \in Sessions, op[s].alone,
         op[s].pc \in {"rows", "scan", "update", "delete"}
  PROVE  /\ op[s] \in Ops /\ OpOK(op[s], Len(objs)) /\ op[s].base \in [Keys -> Values]
         /\ objs[op[s].obj] \in Objects /\ op[s].prefix \in 1 .. N /\ op[s].prefix # NoId
         /\ op[s].pc # "rows" => op[s].scan = op[s].prefix
         /\ objs[op[s].obj].pk => Matches(op[s].prefix)
<1> DEFINE o == op[s]
<1>1. o \in Ops /\ OpOK(o, Len(objs)) /\ o.base \in [Keys -> Values] /\ Current(o, reg, Gen)
  BY DEF IInv, OpTypes, AloneInv, Steady
<1>2. reg # None /\ o.obj = reg.obj /\ o.prefix = reg.id /\ (o.pc # "rows" => o.scan = reg.id)
  BY <1>1 DEF Current, WithSchema, WithPrefix
<1>3. objs[o.obj] \in Objects /\ reg.id \in 0 .. N /\ 0 < reg.id
  BY <1>2, OpFacts, OwnRows DEF IInv
<1>4. objs[reg.obj].pk => Matches(reg.id)
  BY <1>2 DEF KeyInv
<1> QED
  BY <1>1, <1>2, <1>3, <1>4, ConstantFacts

LEMMA ScanEffect ==
  ASSUME IInv, KeyInv, AloneInv, Calm, NEW s \in Sessions, op[s].alone, NEW sc, sc = objs[op[s].obj],
         Effect(op[s], sc, store), ScanNext(s)
  PROVE  Effect(op'[s], sc, store)
<1> DEFINE o == op[s]
<1>a. PICK p : p = op'[s]
  OBVIOUS
<1>0. /\ o \in Ops /\ o.pc = "scan" /\ o.base \in [Keys -> Values] /\ sc \in Objects
      /\ o.prefix \in 1 .. N /\ o.prefix # NoId /\ o.scan = o.prefix
      /\ sc.pk => Matches(o.prefix)
      /\ OpTypes /\ DataTypes /\ o.stmt.kind \in {"update", "delete"}
  <2>1. o.pc = "scan"
    BY DEF ScanNext
  <2> QED
    BY <2>1, OnTable, PlaceFacts DEF IInv
<1>1. CASE o.item = None
  <2>1. p = Done(s, o.rows, TRUE)
    BY <1>0, <1>1, <1>a, Moved DEF ScanNext
  <2>2. /\ p.pc = "done" /\ p.rows = o.rows /\ p.ok = TRUE /\ p.base = o.base /\ p.stmt = o.stmt
        /\ p.prefix = o.prefix
    BY <1>0, <2>1 DEF Done, Ops
  <2>3. ASSUME sc.pk, ByScan(p) PROVE ScanDone(p, sc, store)
    <3>1. Scanning(o, sc, store) /\ Named(p) = Named(o)
      BY <1>0, <2>2, <2>3, SameScan DEF Effect
    <3>2. Progress(o, sc, store, Named(p))
      BY <1>1, <3>1 DEF Scanning
    <3>3. Progress(p, sc, store, Named(p))
      BY <2>2, <3>2, SameScan
    <3> QED
      BY <2>2, <3>3 DEF ScanDone
  <2> QED
    BY <1>0, <1>a, <2>2, <2>3 DEF Effect
<1>2. CASE o.item # None
  <2> DEFINE m == NodeAfter(o.item.key)
             key == o.item.key
             hit == HasPrefix(key, o.scan) /\ o.item.value # Tomb /\ Where(o.stmt.where, o.item.value)
             S == {x \in Nodes : Less(key, x)}
  <2>1. p = [o EXCEPT !.item = m, !.row = IF hit THEN o.item.value ELSE None,
                      !.pc = IF hit THEN o.stmt.kind ELSE "scan"]
    BY <1>0, <1>2, <1>a, Moved, Zenon DEF ScanNext
  <2>2. /\ p.pc = (IF hit THEN o.stmt.kind ELSE "scan") /\ p.item = m /\ p.rows = o.rows /\ p.base = o.base
        /\ p.stmt = o.stmt /\ p.prefix = o.prefix /\ p.row = (IF hit THEN o.item.value ELSE None)
    BY <1>0, <2>1 DEF Ops
  <2>3. S \in SUBSET Nodes /\ m = Fetch(S)
    BY DEF NodeAfter
  <2>4. /\ m \in Items \cup {None} /\ (m = None <=> S = {})
        /\ m # None => /\ m.key \in S /\ m.key \in Keys /\ m.value = store[m.key]
                       /\ \A y \in S : m.key = y \/ Less(m.key, y)
    <3> HIDE DEF S, m
    <3> QED
      BY <1>0, <2>3, FetchFacts
  <2> HIDE DEF m
  <2>5. p \in Ops
    <3>1. o.item \in Items /\ o.item.value \in Rows \cup {Tomb}
      BY <1>0, <1>2 DEF Ops, Items
    <3>2. p.pc \in PCs /\ p.row \in Rows \cup {None}
      BY <1>0, <2>2, <3>1 DEF PCs
    <3> HIDE DEF hit
    <3>3. (IF hit THEN o.stmt.kind ELSE "scan") \in PCs /\ (IF hit THEN o.item.value ELSE None) \in Rows \cup {None}
      BY <2>2, <3>2
    <3> QED
      BY <1>0, <2>1, <2>4, <3>3, Edits
  <2>6. ASSUME sc.pk, ByScan(p)
        PROVE  IF hit THEN OnRow(p, sc, store) ELSE Scanning(p, sc, store)
    <3>0. Scans(o) /\ Scans(p) /\ Named(p) = Named(o)
      BY <1>0, <2>2, <2>5, <2>6, SameScan DEF Scans
    <3>1. Node(o, o.item) /\ Progress(o, sc, store, Before(o, key))
      BY <1>0, <1>2, <2>6, <3>0 DEF Effect, Scanning, Scans
    <3>2. key \in Keys /\ o.base[key] # NoNode /\ o.item.value = o.base[key]
      BY <3>1 DEF Node
    <3>3. Progress(p, sc, store, Before(p, key)) /\ Before(p, key) = Before(o, key)
      BY <2>2, <3>1, SameScan
    <3>4. \A x \in Keys : store[x] # NoNode <=> p.base[x] # NoNode
      <4>1. Before(p, key) \in SUBSET Named(p)
        BY DEF Before
      <4> QED
        BY <3>0, <3>3, <4>1, NodesKept
    <3>5. \A x \in Keys : ~Less(x, key) => store[x] = p.base[x]
      BY <3>3 DEF Progress, Before
    <3>6. NodeBehind(p, p.item, key)
      <4>1. \A x \in Keys : x \in S <=> p.base[x] # NoNode /\ Less(key, x)
        BY <3>4 DEF Nodes
      <4>2. CASE m = None
        <5>1. S = {}
          BY <2>4, <4>2
        <5>2. \A x \in Keys : p.base[x] # NoNode => ~Less(key, x)
          BY <4>1, <5>1
        <5> QED
          BY <2>2, <4>2, <5>2 DEF NodeBehind
      <4>3. CASE m # None
        <5>1. m.key \in S /\ m.key \in Keys /\ m.value = store[m.key] /\ \A y \in S : m.key = y \/ Less(m.key, y)
          BY <2>4, <4>3
        <5>2. p.base[m.key] # NoNode /\ Less(key, m.key)
          BY <4>1, <5>1
        <5>3. ~Less(m.key, key)
          BY <3>2, <5>1, <5>2, LessFacts
        <5>4. m.value = p.base[m.key]
          BY <3>5, <5>1, <5>3
        <5>5. Node(p, m)
          BY <5>1, <5>2, <5>4 DEF Node
        <5>6. \A x \in Keys : p.base[x] # NoNode /\ Less(key, x) => x = m.key \/ Less(m.key, x)
          BY <4>1, <5>1
        <5> QED
          BY <2>2, <4>3, <5>2, <5>5, <5>6 DEF NodeBehind
      <4> QED
        BY <4>2, <4>3
    <3>7. hit <=> key \in Named(p)
      <4>1. key \in Named(p) <=> p.base[key] \in Rows /\ HasPrefix(key, p.prefix) /\ Where(p.stmt.where, p.base[key])
        BY <3>0, <3>2, NamedFacts
      <4>2. p.base[key] \in Rows <=> o.item.value # Tomb
        BY <1>0, <2>2, <3>2, ConstantFacts DEF Values
      <4> QED
        BY <1>0, <2>2, <3>2, <4>1, <4>2
    <3>8. CASE hit
      <4>1. key[1] = p.prefix /\ key[2] # 0 /\ key = <<key[1], key[2]>>
        BY <1>0, <2>2, <3>2, <3>8, ConstantFacts DEF HasPrefix, Keys
      <4>2. store[key] = p.base[key] /\ p.base[key] \in Rows
        BY <3>0, <3>2, <3>5, <3>7, <3>8, NamedFacts, LessFacts
      <4>3. p.row = p.base[key] /\ p.row.k = key[2]
        BY <1>0, <2>2, <2>6, <3>2, <3>8, <4>1, <4>2 DEF Matches
      <4>4. At(p) = key
        BY <4>1, <4>3 DEF At
      <4> QED
        BY <3>3, <3>6, <3>7, <3>8, <4>3, <4>4 DEF OnRow
    <3>9. CASE ~hit
      <4>1. Before(p, key) = {x \in Named(p) : Less(x, key) \/ x = key}
        BY <3>7, <3>9 DEF Before
      <4>2. Scanning(p, sc, store)
        BY <3>0, <3>2, <3>3, <3>6, <4>1, ScanPast
      <4> QED
        BY <3>9, <4>2
    <3> QED
      BY <3>8, <3>9
  <2> HIDE DEF hit
  <2> QED
    BY <1>0, <1>a, <2>2, <2>6 DEF Effect
<1> QED
  BY <1>1, <1>2

(***************************************************************************)
(* The rows                                                                 *)
(***************************************************************************)

\* One row more of the scan is changed.
LEMMA OneMore ==
  ASSUME NEW o, Scans(o), NEW sc, NEW st, NEW st1, st1 \in [Keys -> Values], OnRow(o, sc, st),
         \A key \in Keys : st1[key] = IF key = At(o) THEN Changed(o, sc, key) ELSE st[key],
         o.stmt.kind = "update" => Valid(sc, o.stmt.val),
         NEW p, Scans(p), p.base = o.base, p.stmt = o.stmt, p.prefix = o.prefix, p.item = o.item, p.rows = o.rows + 1
  PROVE  Scanning(p, sc, st1)
<1> DEFINE key == At(o)
           D == Before(o, key)
           met == {x \in Named(p) : Less(x, key) \/ x = key}
<1>1. key \in Named(o) /\ key \in Keys /\ Progress(o, sc, st, D) /\ NodeBehind(p, p.item, key)
      /\ Named(p) = Named(o) /\ \A x : Changed(p, sc, x) = Changed(o, sc, x)
  BY NamedFacts, SameScan DEF OnRow
<1> HIDE DEF key
<1>2. D \subseteq Named(o) /\ IsFiniteSet(D) /\ key \notin D /\ met = D \cup {key}
  <2>1. IsFiniteSet(Named(o)) /\ D \subseteq Named(o)
    BY NamedFacts DEF Before
  <2>2. IsFiniteSet(D)
    BY <2>1, FS_Subset
  <2>3. key \notin D
    BY <1>1, LessFacts DEF Before
  <2> QED
    BY <1>1, <2>1, <2>2, <2>3 DEF Before
<1> HIDE DEF D, met
<1>3. Cardinality(D \cup {key}) = Cardinality(D) + 1
  BY <1>2, FS_AddElement
<1>4. p.rows = Cardinality(met)
  BY <1>1, <1>2, <1>3 DEF Progress
<1>5. \A x \in Keys : st1[x] = IF x \in met THEN Changed(p, sc, x) ELSE p.base[x]
  <2>1. \A x \in Keys : st[x] = IF x \in D THEN Changed(o, sc, x) ELSE o.base[x]
    BY <1>1 DEF Progress
  <2>2. \A x \in Keys : st1[x] = IF x = key THEN Changed(o, sc, x) ELSE st[x]
    BY DEF key
  <2> QED
    BY <1>1, <1>2, <2>1, <2>2
<1>6. Progress(p, sc, st1, met)
  BY <1>4, <1>5 DEF Progress
<1> QED
  BY <1>1, <1>6, ScanPast DEF met

\* After a row of the scan.
LEMMA RowWritten ==
  ASSUME IInv, KeyInv, AloneInv, Calm, NEW s \in Sessions, op[s].alone, NEW sc, sc = objs[op[s].obj],
         Effect(op[s], sc, store), op[s].pc \in {"update", "delete"}, NEW v,
         sc.pk /\ ByScan(op[s]) =>
           /\ op[s].row \in Rows
           /\ store' = [store EXCEPT ![At(op[s])] = v]
           /\ v = Changed(op[s], sc, At(op[s])) /\ v \in Values
           /\ op[s].stmt.kind = "update" => Valid(sc, op[s].stmt.val),
         Goto(s, [op[s] EXCEPT !.rows = @ + 1, !.row = None, !.pc = "scan"])
  PROVE  Effect(op'[s], sc, store')
<1> DEFINE o == op[s]
<1>a. PICK p : p = op'[s]
  OBVIOUS
<1>0. o \in Ops /\ o.base \in [Keys -> Values] /\ sc \in Objects /\ OpTypes /\ DataTypes /\ o.rows + 1 \in Nat
  BY OnTable DEF IInv, Ops
<1>1. p = [o EXCEPT !.rows = o.rows + 1, !.row = None, !.pc = "scan"]
  BY <1>0, <1>a, Moved
<1>2. /\ p.pc = "scan" /\ p.item = o.item /\ p.rows = o.rows + 1 /\ p.base = o.base /\ p.stmt = o.stmt
      /\ p.prefix = o.prefix
  BY <1>0, <1>1 DEF Ops
<1>3. p \in Ops
  <2>1. "scan" \in PCs
    BY DEF PCs
  <2> QED
    BY <1>0, <1>1, <2>1, Edits
<1>4. ASSUME sc.pk, ByScan(p) PROVE Scanning(p, sc, store')
  <2>1. Scans(o) /\ Scans(p)
    BY <1>0, <1>2, <1>3, <1>4 DEF Scans, ByScan
  <2>2. OnRow(o, sc, store)
    BY <1>4, <2>1 DEF Effect, Scans
  <2>3. At(o) \in Keys
    BY <2>1, <2>2, NamedFacts DEF OnRow
  <2>4. PICK st, st1 : st = store /\ st1 = store'
    OBVIOUS
  <2>5. /\ st1 = [st EXCEPT ![At(o)] = v] /\ v = Changed(o, sc, At(o)) /\ v \in Values
        /\ o.stmt.kind = "update" => Valid(sc, o.stmt.val)
    BY <1>4, <2>1, <2>4 DEF Scans
  <2>6. st \in [Keys -> Values]
    BY <1>0, <2>4 DEF DataTypes
  <2>7. st1 \in [Keys -> Values] /\ \A key \in Keys : st1[key] = IF key = At(o) THEN Changed(o, sc, key) ELSE st[key]
    BY <2>3, <2>5, <2>6
  <2>8. Scanning(p, sc, st1)
    BY <1>2, <2>1, <2>2, <2>4, <2>5, <2>7, OneMore
  <2> QED
    BY <2>4, <2>8
<1> QED
  BY <1>0, <1>a, <1>2, <1>4 DEF Effect

LEMMA UpdateEffects ==
  ASSUME IInv, KeyInv, AloneInv, Calm, NEW s \in Sessions, op[s].alone, NEW sc, sc = objs[op[s].obj],
         Effect(op[s], sc, store), UpdateRow(s)
  PROVE  Effect(op'[s], sc, store')
<1> DEFINE o == op[s]
<1>0. /\ o \in Ops /\ o.pc = "update" /\ o.base \in [Keys -> Values] /\ sc \in Objects /\ OpTypes /\ DataTypes
      /\ o.stmt.kind = "update" /\ o.row \in Rows /\ o.stmt \in Stmts /\ o.prefix \in 1 .. N /\ o.prefix # NoId
  <2>1. o.pc = "update"
    BY DEF UpdateRow
  <2>2. o \in Ops /\ OpOK(o, Len(objs))
    BY DEF IInv, OpTypes
  <2>3. o.row \in Rows /\ o.stmt.kind = "update"
    BY <2>1, <2>2, PlaceFacts DEF OpOK, Ops
  <2> QED
    BY <2>1, <2>2, <2>3, OnTable DEF IInv, Ops
<1>1. sc.pk /\ ByScan(o) =>
        /\ OnRow(o, sc, store) /\ Named(o) # {} /\ o.row = o.base[At(o)] /\ At(o) = <<o.prefix, o.row.k>>
        /\ o.stmt.col = "b" /\ MayExtract(sc)
  BY <1>0 DEF Effect, OnRow, ByScan, At, MayExtract
<1>2. CASE /\ NewB(sc, o.stmt, o.row) = Null \/ ~MayExtract(sc)
           /\ Goto(s, Done(s, o.rows, FALSE))
           /\ UNCHANGED <<store, schemaVars, txnVars, ends, stmts, faults, raced>>
  <2>a. PICK p : p = op'[s]
    OBVIOUS
  <2>1. p = Done(s, o.rows, FALSE) /\ store' = store
    BY <1>0, <1>2, <2>a, Moved
  <2>2. /\ p.pc = "done" /\ p.rows = o.rows /\ p.ok = FALSE /\ p.base = o.base /\ p.stmt = o.stmt
        /\ p.prefix = o.prefix
    BY <1>0, <2>1 DEF Done, Ops
  <2>3. ASSUME sc.pk, ByScan(p) PROVE ScanDone(p, sc, store)
    <3>0. ByScan(o) /\ Named(p) = Named(o)
      BY <2>2, <2>3, SameScan
    <3>1. ~Valid(sc, o.stmt.val)
      BY <1>1, <1>2, <2>3, <3>0 DEF NewB, Valid
    <3>2. Progress(o, sc, store, Before(o, At(o)))
      BY <1>1, <2>3, <3>0 DEF OnRow
    <3>3. Progress(o, sc, store, {})
      BY <1>0, <3>1, <3>2 DEF Progress
    <3>4. Progress(p, sc, store, {})
      BY <2>2, <3>3, SameScan
    <3> QED
      BY <1>0, <1>1, <2>2, <2>3, <3>0, <3>1, <3>4 DEF ScanDone
  <2> QED
    BY <1>0, <2>a, <2>1, <2>2, <2>3 DEF Effect
<1>3. CASE /\ NewB(sc, o.stmt, o.row) # Null /\ MayExtract(sc)
           /\ WithinBound(s) /\ Assigned(o.stmt, o.row) <= N
           /\ LET row == [k |-> Assigned(o.stmt, o.row), b |-> NewB(sc, o.stmt, o.row), gen |-> o.row.gen]
              IN Put(s, KeyOf(s, row), row)
           /\ Goto(s, [o EXCEPT !.rows = @ + 1, !.row = None, !.pc = "scan"])
  <2>1. PICK row : /\ row = [k |-> Assigned(o.stmt, o.row), b |-> NewB(sc, o.stmt, o.row), gen |-> o.row.gen]
                   /\ Put(s, KeyOf(s, row), row)
    BY <1>3
  <2>2. ASSUME sc.pk, ByScan(o)
        PROVE  /\ store' = [store EXCEPT ![At(o)] = row] /\ row = Changed(o, sc, At(o)) /\ row \in Values
               /\ Valid(sc, o.stmt.val)
    <3>1. NewB(sc, o.stmt, o.row) = Filled(sc, o.stmt.val) /\ Assigned(o.stmt, o.row) = o.row.k
      BY <1>1, <2>2 DEF NewB, Assigned
    <3>2. row = [k |-> o.row.k, b |-> Filled(sc, o.stmt.val), gen |-> o.row.gen]
      BY <2>1, <3>1
    <3>3. row = [o.row EXCEPT !.b = Filled(sc, o.stmt.val)]
      BY <1>0, <3>2 DEF Rows
    <3>4. KeyOf(s, row) = At(o)
      BY <1>0, <1>1, <2>2, <3>2 DEF KeyOf, RowKey
    <3>5. Valid(sc, o.stmt.val)
      BY <1>3, <3>1 DEF Valid
    <3>6. Filled(sc, o.stmt.val) \in Bs
      BY <1>0, <3>5, StmtFacts, FilledFacts DEF Valid
    <3>7. row \in Values
      BY <1>0, <3>2, <3>6 DEF Rows, Values
    <3> QED
      BY <1>0, <1>1, <2>1, <2>2, <3>3, <3>4, <3>5, <3>7 DEF Put, Changed
  <2> QED
    BY <1>0, <1>3, <2>2, RowWritten
<1> QED
  BY <1>2, <1>3 DEF UpdateRow

LEMMA DeleteEffects ==
  ASSUME IInv, KeyInv, AloneInv, Calm, NEW s \in Sessions, op[s].alone, NEW sc, sc = objs[op[s].obj],
         Effect(op[s], sc, store), DeleteRow(s)
  PROVE  Effect(op'[s], sc, store')
<1> DEFINE o == op[s]
<1>0. /\ o \in Ops /\ o.pc = "delete" /\ o.base \in [Keys -> Values] /\ sc \in Objects /\ OpTypes /\ DataTypes
      /\ o.stmt.kind = "delete" /\ o.row \in Rows /\ o.prefix \in 1 .. N /\ o.prefix # NoId
  <2>1. o.pc = "delete"
    BY DEF DeleteRow
  <2>2. o \in Ops /\ OpOK(o, Len(objs))
    BY DEF IInv, OpTypes
  <2>3. o.row \in Rows /\ o.stmt.kind = "delete"
    BY <2>1, <2>2, PlaceFacts DEF OpOK, Ops
  <2> QED
    BY <2>1, <2>2, <2>3, OnTable DEF IInv
<1>1. CASE ~MayExtract(sc) /\ Goto(s, Done(s, o.rows, FALSE))
  <2>a. PICK p : p = op'[s]
    OBVIOUS
  <2>1. p = Done(s, o.rows, FALSE) /\ ~sc.pk
    BY <1>0, <1>1, <2>a, Moved DEF MayExtract
  <2>2. p.pc = "done"
    BY <1>0, <2>1 DEF Done, Ops
  <2> QED
    BY <2>a, <2>1, <2>2 DEF Effect
<1>2. CASE /\ MayExtract(sc) /\ WithinBound(s)
           /\ Put(s, KeyOf(s, o.row), Tomb)
           /\ Goto(s, [o EXCEPT !.rows = @ + 1, !.row = None, !.pc = "scan"])
  <2>1. ASSUME sc.pk
        PROVE  store' = [store EXCEPT ![At(o)] = Tomb] /\ Tomb = Changed(o, sc, At(o)) /\ Tomb \in Values
    <3>1. KeyOf(s, o.row) = At(o)
      BY <1>0, <2>1 DEF KeyOf, RowKey, At
    <3> QED
      BY <1>0, <1>2, <3>1 DEF Put, Changed, Values
  <2> QED
    BY <1>0, <1>2, <2>1, RowWritten
<1> QED
  BY <1>1, <1>2 DEF DeleteRow

LEMMA InsertEffects ==
  ASSUME IInv, KeyInv, AloneInv, Calm, NEW s \in Sessions, op[s].alone, NEW sc, sc = objs[op[s].obj],
         Effect(op[s], sc, store), InsertRow(s)
  PROVE  Effect(op'[s], sc, store')
<1> DEFINE o == op[s]
           rows == o.stmt.rows
           i == o.rows + 1
<1>a. PICK p : p = op'[s]
  OBVIOUS
<1>0. /\ o \in Ops /\ o.pc = "rows" /\ o.base \in [Keys -> Values] /\ sc \in Objects /\ OpTypes /\ DataTypes
      /\ o.stmt.kind = "insert" /\ o.prefix \in 1 .. N /\ o.prefix # NoId /\ o.rows \in Nat
      /\ rows \in Seq([k : 1 .. N, b : Bs \cup {Null}]) /\ Len(rows) \in Nat
  <2>1. o.pc = "rows"
    BY DEF InsertRow
  <2>2. o \in Ops /\ OpOK(o, Len(objs))
    BY DEF IInv, OpTypes
  <2>3. o.stmt.kind = "insert" /\ o.stmt \in Stmts /\ o.rows \in Nat
    BY <2>1, <2>2, PlaceFacts DEF Ops
  <2>4. rows \in Seq([k : 1 .. N, b : Bs \cup {Null}])
    BY <2>3, StmtFacts
  <2> QED
    BY <2>1, <2>2, <2>3, <2>4, OnTable DEF IInv
<1>1. sc.pk => Inserted(o, sc, store) /\ MayExtract(sc)
  BY <1>0 DEF Effect, MayExtract
<1>2. ASSUME NEW b \in BOOLEAN, Goto(s, Done(s, o.rows, b)), store' = store,
             sc.pk => \/ b = TRUE /\ o.rows = Len(rows)
                      \/ b = FALSE /\ o.rows < Len(rows) /\ Refused(sc, rows, i)
      PROVE  Effect(p, sc, store')
  <2>1. p = Done(s, o.rows, b)
    BY <1>0, <1>2, <1>a, Moved
  <2>2. /\ p.pc = "done" /\ p.rows = o.rows /\ p.ok = b /\ p.base = o.base /\ p.stmt = o.stmt
        /\ p.prefix = o.prefix
    BY <1>0, <2>1 DEF Done, Ops
  <2>3. ASSUME sc.pk PROVE InsertDone(p, sc, store)
    <3>1. Inserted(p, sc, store)
      BY <1>1, <2>2, <2>3 DEF Inserted
    <3> QED
      BY <1>2, <2>2, <2>3, <3>1 DEF InsertDone
  <2> QED
    BY <1>0, <1>2, <2>2, <2>3 DEF Effect, ByScan
<1>3. CASE /\ i > Len(rows)
           /\ Goto(s, Done(s, o.rows, TRUE))
           /\ UNCHANGED <<store, schemaVars, txnVars, ends, stmts, faults, raced>>
  <2>1. sc.pk => o.rows = Len(rows)
    BY <1>0, <1>1, <1>3 DEF Inserted
  <2> QED
    BY <1>2, <1>3, <1>a, <2>1
<1>4. CASE /\ i <= Len(rows)
           /\ ~Valid(sc, rows[i].b) \/ Duplicate(sc, rows, i) \/ ~MayExtract(sc)
           /\ Goto(s, Done(s, o.rows, FALSE))
           /\ UNCHANGED <<store, schemaVars, txnVars, ends, stmts, faults, raced>>
  <2>1. o.rows < Len(rows)
    BY <1>0, <1>4
  <2>2. sc.pk => ~Valid(sc, rows[i].b) \/ Duplicate(sc, rows, i)
    BY <1>1, <1>4
  <2>3. sc.pk => Refused(sc, rows, i)
    <3> HIDE DEF i, rows
    <3> QED
      BY <2>2 DEF Refused, Duplicate
  <2> QED
    BY <1>2, <1>4, <1>a, <2>1, <2>3
<1>5. CASE /\ i <= Len(rows)
           /\ Valid(sc, rows[i].b) /\ ~Duplicate(sc, rows, i) /\ MayExtract(sc)
           /\ WithinBound(s)
           /\ LET row == [k |-> rows[i].k, b |-> Filled(sc, rows[i].b), gen |-> sc.gen]
              IN Put(s, KeyOf(s, row), row)
           /\ Goto(s, [o EXCEPT !.rows = i])
  <2>1. p = [o EXCEPT !.rows = i]
    BY <1>0, <1>5, <1>a, Moved
  <2>2. /\ p.pc = "rows" /\ p.rows = i /\ p.base = o.base /\ p.stmt = o.stmt /\ p.prefix = o.prefix
    BY <1>0, <2>1 DEF Ops
  <2>3. PICK row : /\ row = [k |-> rows[i].k, b |-> Filled(sc, rows[i].b), gen |-> sc.gen]
                   /\ Put(s, KeyOf(s, row), row)
    BY <1>5
  <2>4. ASSUME sc.pk PROVE Inserted(p, sc, store')
    <3> DEFINE at == RowKey(o.prefix, rows[i].k)
    <3>0. i \in 1 .. Len(rows) /\ \A j \in 1 .. i : rows[j].k \in 1 .. N /\ (j # i => j \in 1 .. o.rows)
      <4>1. i \in 1 .. Len(rows) /\ \A j \in 1 .. i : j \in 1 .. Len(rows) /\ (j # i => j \in 1 .. o.rows)
        BY <1>0, <1>5
      <4>2. \A j \in 1 .. i : rows[j] \in [k : 1 .. N, b : Bs \cup {Null}]
        BY <1>0, <4>1, ElementOf
      <4> QED
        BY <4>1, <4>2
    <3>1. \A k : RowKey(o.prefix, k) = <<o.prefix, k>>
      BY <1>0 DEF RowKey
    <3>2. at \in Keys /\ KeyOf(s, row) = at
      <4>1. at = <<o.prefix, rows[i].k>> /\ rows[i].k \in 1 .. N
        BY <1>0, <3>0, <3>1
      <4>2. at \in Keys
        <5> HIDE DEF at, rows, i
        <5>1. o.prefix \in 0 .. N /\ rows[i].k \in 0 .. N
          BY <1>0, <4>1, ConstantFacts
        <5> QED
          BY <4>1, <5>1 DEF Keys
      <4>3. KeyOf(s, row) = at
        BY <1>0, <2>3, <2>4 DEF KeyOf
      <4> QED
        BY <4>2, <4>3
    <3>3. \A key \in Keys : store'[key] = IF key = at THEN row ELSE store[key]
      BY <1>0, <2>3, <3>2 DEF Put, DataTypes
    <3>4. ~Refused(sc, rows, i) /\ \A j \in 1 .. i - 1 : rows[j].k # rows[i].k
      BY <1>5, <2>4 DEF Refused, Duplicate
    <3>5. /\ \A j \in 1 .. o.rows : ~Refused(sc, rows, j)
          /\ \A key \in Keys, j \in 1 .. o.rows :
               RowKey(o.prefix, rows[j].k) = key => store[key].b = Filled(sc, rows[j].b)
          /\ \A key \in Keys : (\A j \in 1 .. o.rows : RowKey(o.prefix, rows[j].k) # key) => store[key] = o.base[key]
      BY <1>1, <2>4 DEF Inserted
    <3>6. \A j \in 1 .. i : ~Refused(sc, rows, j)
      BY <3>0, <3>4, <3>5
    <3>7. ASSUME NEW key \in Keys, NEW j \in 1 .. i, RowKey(o.prefix, rows[j].k) = key
          PROVE  store'[key].b = Filled(sc, rows[j].b)
      <4>1. CASE j = i
        <5>1. key = at /\ row.b = Filled(sc, rows[i].b)
          BY <2>3, <3>7, <4>1
        <5> HIDE DEF at
        <5>2. store'[key] = row
          BY <3>3, <5>1
        <5> QED
          BY <4>1, <5>1, <5>2
      <4>2. CASE j # i
        <5>1. j \in 1 .. o.rows /\ j \in 1 .. i - 1
          BY <1>0, <3>0, <4>2
        <5>2. rows[j].k # rows[i].k
          BY <3>4, <5>1
        <5>3. key # at
          BY <3>1, <3>7, <5>2
        <5> QED
          BY <3>3, <3>5, <3>7, <5>1, <5>3
      <4> QED
        BY <4>1, <4>2
    <3>8. ASSUME NEW key \in Keys, \A j \in 1 .. i : RowKey(o.prefix, rows[j].k) # key
          PROVE  store'[key] = o.base[key]
      <4>1. i \in 1 .. i /\ \A j \in 1 .. o.rows : j \in 1 .. i
        BY <1>0
      <4>2. key # at /\ store[key] = o.base[key]
        BY <3>5, <3>8, <4>1
      <4> QED
        BY <3>3, <4>2
    <3>9. i <= Len(rows)
      BY <1>5
    <3> HIDE DEF i, rows
    <3>10. p.stmt.rows = rows
      BY <2>2 DEF rows
    <3>11. PICK st : st = store'
      OBVIOUS
    <3>12. Inserted(p, sc, st)
      BY <2>2, <3>6, <3>7, <3>8, <3>9, <3>10, <3>11 DEF Inserted
    <3> QED
      BY <3>11, <3>12
  <2> QED
    BY <1>a, <2>2, <2>4 DEF Effect
<1> QED
  BY <1>3, <1>4, <1>5 DEF InsertRow

(***************************************************************************)
(* Every step                                                               *)
(***************************************************************************)

\* Where and with which schema object a row leaves the statement.
LEMMA ObjKept ==
  ASSUME IInv, NEW s \in Sessions, ScanNext(s) \/ InsertRow(s) \/ UpdateRow(s) \/ DeleteRow(s)
  PROVE  LET sc == objs[op[s].obj]  sc1 == objs'[op'[s].obj]
         IN sc1.pk = sc.pk /\ (sc.pk => sc1 = sc)
<1> DEFINE o == op[s]
<1>0. o \in Ops /\ OpTypes /\ DataTypes /\ o.obj \in 1 .. Len(objs)
  <2>1. o.pc \in WithSchema
    BY DEF ScanNext, InsertRow, UpdateRow, DeleteRow, WithSchema
  <2> QED
    BY <2>1, OpFacts DEF IInv
<1>1. op'[s].obj = o.obj
  <2>1. \E k, b, m, r, q : \/ Goto(s, Done(s, k, b)) \/ Goto(s, [o EXCEPT !.item = m, !.row = r, !.pc = q])
                           \/ Goto(s, [o EXCEPT !.rows = k]) \/ Goto(s, [o EXCEPT !.rows = k, !.row = None, !.pc = q])
    <3>1. CASE ScanNext(s)
      BY <3>1, Zenon DEF ScanNext
    <3>2. CASE InsertRow(s)
      BY <3>2 DEF InsertRow
    <3>3. CASE UpdateRow(s)
      BY <3>3 DEF UpdateRow
    <3>4. CASE DeleteRow(s)
      BY <3>4 DEF DeleteRow
    <3> QED
      BY <3>1, <3>2, <3>3, <3>4
  <2>2. PICK k, b, m, r, q : \/ Goto(s, Done(s, k, b)) \/ Goto(s, [o EXCEPT !.item = m, !.row = r, !.pc = q])
                             \/ Goto(s, [o EXCEPT !.rows = k]) \/ Goto(s, [o EXCEPT !.rows = k, !.row = None, !.pc = q])
    BY <2>1
  <2>3. /\ Done(s, k, b).obj = o.obj /\ [o EXCEPT !.item = m, !.row = r, !.pc = q].obj = o.obj
        /\ [o EXCEPT !.rows = k].obj = o.obj /\ [o EXCEPT !.rows = k, !.row = None, !.pc = q].obj = o.obj
    BY <1>0 DEF Done, Ops
  <2>4. \E x : Goto(s, x) /\ x.obj = o.obj
    BY <2>2, <2>3
  <2> QED
    BY <1>0, <2>4, Moved
<1>2. objs' = objs \/ objs' = Drawn(o.obj)
  <2>1. CASE ScanNext(s)
    BY <2>1 DEF ScanNext, schemaVars
  <2>2. CASE Stopped(s)
    BY <2>2 DEF Stopped, schemaVars
  <2>3. CASE \E k, v : Wrote(s, k, v)
    BY <2>3 DEF Wrote, Put
  <2> QED
    BY <1>0, <2>1, <2>2, <2>3, InsertSteps, UpdateSteps, DeleteSteps
<1>3. Drawn(o.obj)[o.obj].pk = objs[o.obj].pk /\ (objs[o.obj].pk => Drawn(o.obj) = objs)
  BY <1>0, DrawnFacts DEF Drawn
<1> QED
  BY <1>1, <1>2, <1>3

LEMMA EffectSame ==
  ASSUME NEW p, NEW st, NEW sc, NEW sc1, sc1.pk = sc.pk, sc.pk => sc1 = sc, Effect(p, sc, st)
  PROVE  Effect(p, sc1, st)
<1>1. CASE sc.pk
  BY <1>1
<1>2. CASE ~sc.pk
  BY <1>2 DEF Effect
<1> QED
  BY <1>1, <1>2

LEMMA EffectActs ==
  ASSUME IInv, KeyInv, AloneInv, EffectInv, NEW s \in Sessions, StatementStep(s), Calm, op[s].alone, op'[s].alone
  PROVE  Effect(op'[s], objs'[op'[s].obj], store')
<1> DEFINE sc == objs[op[s].obj]
<1>1. Effect(op[s], sc, store)
  BY DEF EffectInv
<1>2. CASE Build(s) \/ ScanPrefix(s) \/ BuildWriter(s) \/ WritePrefix(s)
  <2>1. store' = store
    BY <1>2 DEF Build, ScanPrefix, BuildWriter, WritePrefix
  <2> HIDE DEF sc
  <2>2. \A sc1 : Effect(op'[s], sc1, store)
    BY <1>1, <1>2, EarlyEffect
  <2> QED
    BY <2>1, <2>2
<1>3. CASE OpenScan(s)
  <2>1. store' = store
    BY <1>3 DEF OpenScan
  <2> HIDE DEF sc
  <2>2. \A sc1 : Effect(op'[s], sc1, store)
    BY <1>1, <1>3, OpenEffect
  <2> QED
    BY <2>1, <2>2
<1>4. CASE ScanNext(s) \/ InsertRow(s) \/ UpdateRow(s) \/ DeleteRow(s)
  <2>1. PICK r, p, st, sc1 : r = sc /\ p = op'[s] /\ st = store' /\ sc1 = objs'[op'[s].obj]
    OBVIOUS
  <2>2. ScanNext(s) => store' = store
    BY DEF ScanNext
  <2>3. Effect(op'[s], r, store')
    <3>1. r = objs[op[s].obj] /\ Effect(op[s], r, store)
      BY <1>1, <2>1
    <3> HIDE DEF sc
    <3>2. CASE ScanNext(s)
      BY <2>2, <3>1, <3>2, ScanEffect
    <3>3. CASE InsertRow(s)
      BY <3>1, <3>3, InsertEffects
    <3>4. CASE UpdateRow(s)
      BY <3>1, <3>4, UpdateEffects
    <3>5. CASE DeleteRow(s)
      BY <3>1, <3>5, DeleteEffects
    <3> QED
      BY <1>4, <3>2, <3>3, <3>4, <3>5
  <2>4. sc1.pk = r.pk /\ (r.pk => sc1 = r)
    BY <1>4, <2>1, ObjKept
  <2>5. Effect(p, r, st)
    BY <2>1, <2>3
  <2>6. Effect(p, sc1, st)
    BY <2>4, <2>5, EffectSame
  <2> QED
    BY <2>1, <2>6
<1>5. CASE Register(s) \/ DDLRest(s)
  <2>1. PICK p : p = op'[s]
    OBVIOUS
  <2>2. p.pc \in {"register", "hide", "name", "put", "unregister", "forget", "done"} /\ p.stmt.kind \in {"create", "drop"}
    BY <1>5, <2>1, DDLMoves DEF IsDDL
  <2>3. \A sc1, st : Effect(p, sc1, st)
    BY <2>2, NoEffect
  <2> QED
    BY <2>1, <2>3
<1>6. CASE Reply(s)
  <2>1. op'[s] = NoOp
    BY <1>6, Moved DEF Reply, IInv
  <2> QED
    BY <2>1 DEF NoOp
<1> QED
  BY <1>2, <1>3, <1>4, <1>5, <1>6, Zenon DEF StatementStep, DDLRest

LEMMA EffectStep ==
  ASSUME IInv, KeyInv, AloneInv, EffectInv, Next
  PROVE  EffectInv'
<1>0. NoOp.alone = FALSE
  BY DEF NoOp
<1>1. AloneInv'
  BY AloneStep
<1>2. CASE \E s \in Sessions : StatementStep(s)
  <2>1. PICK s \in Sessions : StatementStep(s)
    BY <1>2
  <2>2. Acts(s)
    BY <2>1, Zenon DEF StatementStep, Acts, Looks, DDLRest
  <2>3. /\ Busy(s) /\ GoesOn(op[s], op'[s])
        /\ \A x \in Sessions : x # s => op'[x] = op[x]
        /\ (raced => raced') /\ (fellBack => fellBack')
    BY <2>2, ActingMoves
  <2>4. ASSUME NEW y \in Sessions, Calm', op'[y].alone PROVE Effect(op'[y], objs'[op'[y].obj], store')
    <3>1. Calm
      BY <2>3, <2>4 DEF Calm
    <3>2. y = s
      BY <2>3, <2>4 DEF AloneInv
    <3>3. op[s].alone
      BY <1>0, <2>3, <2>4, <3>2 DEF GoesOn
    <3>4. Effect(op'[s], objs'[op'[s].obj], store')
      BY <2>1, <2>4, <3>1, <3>2, <3>3, EffectActs
    <3> QED
      BY <3>2, <3>4
  <2> QED
    BY <2>4 DEF EffectInv
<1>3. CASE \E s \in Sessions : \E st \in Statements : Start(s, st)
  <2>1. PICK s \in Sessions, st \in Statements : Start(s, st)
    BY <1>3
  <2>2. /\ UNCHANGED store
        /\ op' = [x \in Sessions |->
                   IF x = s
                   THEN [NoOp EXCEPT !.pc = IF IsDDL(st) THEN st.kind ELSE "build", !.stmt = st,
                                     !.alone = ({z \in Sessions : Busy(z)} = {}),
                                     !.base = IF {z \in Sessions : Busy(z)} = {} THEN store ELSE None]
                   ELSE IF Busy(x) THEN [op[x] EXCEPT !.alone = FALSE, !.base = None]
                   ELSE op[x]]
    BY <2>1, Zenon DEF Start
  <2>3. /\ op'[s].pc = (IF IsDDL(st) THEN st.kind ELSE "build") /\ op'[s].prefix = NoId /\ op'[s].rows = 0
        /\ (op'[s].alone => op'[s].base = store)
    BY <2>2 DEF NoOp
  <2>4. op'[s].pc # "idle"
    BY <2>3 DEF IsDDL
  <2>5. ASSUME NEW y \in Sessions, op'[y].alone PROVE Effect(op'[y], objs'[op'[y].obj], store')
    <3>1. y = s
      BY <1>1, <2>4, <2>5 DEF AloneInv, Busy
    <3>2. PICK p, q, sc : p = op'[s] /\ q = store' /\ sc = objs'[op'[s].obj]
      OBVIOUS
    <3>3. CASE IsDDL(st)
      <4>1. p.pc \in {"create", "drop"}
        BY <2>3, <3>2, <3>3 DEF IsDDL
      <4>2. Effect(p, sc, q)
        BY <4>1, NoEffect
      <4> QED
        BY <3>1, <3>2, <4>2
    <3>4. CASE ~IsDDL(st)
      <4>1. p.pc = "build" /\ p.prefix = NoId /\ p.rows = 0 /\ q = p.base
        BY <2>2, <2>3, <2>5, <3>1, <3>2, <3>4
      <4>2. Effect(p, sc, q)
        BY <4>1, NotYet
      <4> QED
        BY <3>1, <3>2, <4>2
    <3> QED
      BY <3>3, <3>4
  <2> QED
    BY <2>5 DEF EffectInv
<1>4. CASE (\E s \in Sessions : Begin(s) \/ Commit(s) \/ Rollback(s)) \/ Flush
  <2>1. UNCHANGED <<store, schemaVars, op, faults, raced>>
    BY <1>4, SessionTypes DEF IInv
  <2> QED
    BY <2>1 DEF EffectInv, Calm, schemaVars
<1>5. CASE Reopen \/ Restart
  <2>1. \A s \in Sessions : op'[s] = NoOp
    BY <1>5, RestartTypes DEF IInv
  <2> QED
    BY <1>0, <2>1 DEF EffectInv
<1> QED
  BY <1>2, <1>3, <1>4, <1>5, Zenon DEF Next

\* The inductive invariant.
EInv == IInv /\ KeyInv /\ AloneInv /\ EffectInv

LEMMA EInvAlways == Spec => []EInv
<1>1. Init => EInv
  <2>1. Init => \A s \in Sessions : op[s] = NoOp
    BY DEF Init
  <2>2. NoOp.alone = FALSE
    BY DEF NoOp
  <2> QED
    BY <2>1, <2>2, InitHolds, KeyInit DEF EInv, AloneInv, EffectInv
<1>2. EInv /\ [Next]_vars => EInv'
  <2> SUFFICES ASSUME EInv, [Next]_vars PROVE EInv'
    OBVIOUS
  <2>1. IInv'
    BY IInvStep DEF EInv
  <2>2. CASE Next
    BY <2>1, <2>2, KeyStep, AloneStep, EffectStep DEF EInv
  <2>3. CASE UNCHANGED vars
    <3>1. UNCHANGED <<store, saved, reg, objs, cat, op, fellBack, raced>>
      BY <2>3 DEF vars, schemaVars, ends
    <3>2. KeyInv'
      BY <3>1 DEF EInv, KeyInv, Matches, Calm
    <3>3. AloneInv' /\ EffectInv'
      BY <3>1 DEF EInv, AloneInv, EffectInv, Calm, Busy
    <3> QED
      BY <2>1, <3>2, <3>3 DEF EInv
  <2> QED
    BY <2>2, <2>3
<1> QED
  BY <1>1, <1>2, PTL DEF Spec

(***************************************************************************)
(* What follows                                                             *)
(***************************************************************************)

\* The rows an INSERT accepts are those before the first that it refused.
LEMMA InsertedAll ==
  ASSUME NEW o, NEW sc, o.rows \in Nat, NEW T, o.stmt.rows \in Seq(T), InsertDone(o, sc, store)
  PROVE  InsertEffect(o, sc)
<1> DEFINE rows == o.stmt.rows
           n == o.rows
<1>0. Len(rows) \in Nat /\ DOMAIN rows = 1 .. Len(rows) /\ n \in Nat
  OBVIOUS
<1> HIDE DEF rows, n
<1>1. /\ Inserted(o, sc, store) /\ rows = o.stmt.rows /\ n = o.rows
      /\ \/ o.ok = TRUE /\ n = Len(rows)
         \/ o.ok = FALSE /\ n < Len(rows) /\ Refused(sc, rows, n + 1)
  BY DEF InsertDone, rows, n
<1>2. n <= Len(rows) /\ \A i \in 1 .. n : ~Refused(sc, rows, i)
  BY <1>1 DEF Inserted
<1>3. Accepted(sc, rows) = {i \in 1 .. Len(rows) : \A j \in 1 .. i : ~Refused(sc, rows, j)}
  BY <1>0 DEF Accepted, Refused
<1>4. Accepted(sc, rows) = 1 .. n
  <2>1. ASSUME NEW i \in 1 .. n PROVE i \in 1 .. Len(rows) /\ \A j \in 1 .. i : j \in 1 .. n
    BY <1>0, <1>2
  <2>2. ASSUME NEW i \in 1 .. Len(rows), i \notin 1 .. n PROVE n + 1 \in 1 .. i /\ n < Len(rows)
    BY <1>0, <2>2
  <2>3. ASSUME NEW i \in 1 .. Len(rows), i \notin 1 .. n PROVE \E j \in 1 .. i : Refused(sc, rows, j)
    <3>1. n + 1 \in 1 .. i /\ n < Len(rows)
      BY <2>2, <2>3
    <3>2. Refused(sc, rows, n + 1)
      BY <1>0, <1>1, <3>1
    <3> QED
      BY <3>1, <3>2
  <2> QED
    BY <1>2, <1>3, <2>1, <2>3
<1>5. Cardinality(1 .. n) = n
  BY <1>0, FS_Interval
<1>6. o.ok = (1 .. n = DOMAIN rows)
  <2>1. (1 .. n = 1 .. Len(rows)) <=> n = Len(rows)
    <3>1. PICK m \in Nat : m = Len(rows)
      BY <1>0
    <3>2. n <= m /\ n \in Nat
      BY <1>0, <1>2, <3>1
    <3>3. n # m => m \in 1 .. m /\ m \notin 1 .. n
      BY <3>2
    <3> QED
      BY <3>1, <3>3
  <2>2. (o.ok = TRUE /\ n = Len(rows)) \/ (o.ok = FALSE /\ n # Len(rows))
    BY <1>0, <1>1
  <2> QED
    BY <1>0, <2>1, <2>2
<1>7. ASSUME NEW key \in Keys
      PROVE  LET at == {i \in 1 .. n : RowKey(o.prefix, rows[i].k) = key}
             IN IF at = {} THEN store[key] = o.base[key]
                ELSE \A i \in at : store[key].b = Filled(sc, rows[i].b)
  BY <1>1 DEF Inserted
<1> QED
  BY <1>1, <1>4, <1>5, <1>6, <1>7 DEF InsertEffect

(* A statement on a table with a primary key that ran by itself has done,    *)
(* row for row, what it says, and counted how many rows that was, although   *)
(* the scan reads the memtable that the statement is writing                 *)
(* (operators.go:78): for any table, rows, WHERE clauses and restarts.       *)
THEOREM StatementsDoWhatTheySay == Spec => []StatementEffect
<1>1. EInv => StatementEffect
  <2> SUFFICES ASSUME EInv, NEW s \in Sessions, Calm, op[s].pc = "done", op[s].alone,
                      op[s].prefix # NoId, objs[op[s].obj].pk
               PROVE  /\ op[s].stmt.kind = "insert" => InsertEffect(op[s], objs[op[s].obj])
                      /\ op[s].stmt.kind = "update" /\ op[s].stmt.col = "b" => UpdateEffect(op[s], objs[op[s].obj])
                      /\ op[s].stmt.kind = "delete" => DeleteEffect(op[s])
    BY DEF StatementEffect
  <2> DEFINE o == op[s]
             sc == objs[op[s].obj]
  <2>1. Effect(o, sc, store)
    BY DEF EInv, EffectInv
  <2>2. o \in Ops /\ o.rows \in Nat /\ o.stmt \in Stmts
    BY DEF EInv, IInv, OpTypes, Ops
  <2>3. /\ o.stmt.kind = "insert" => InsertDone(o, sc, store)
        /\ ByScan(o) => ScanDone(o, sc, store)
    BY <2>1 DEF Effect
  <2> HIDE DEF o, sc
  <2>4. ASSUME o.stmt.kind = "insert" PROVE InsertEffect(o, sc)
    <3>1. o.stmt.rows \in Seq([k : 1 .. N, b : Bs \cup {Null}])
      BY <2>2, <2>4, StmtFacts
    <3> QED
      BY <2>2, <2>3, <2>4, <3>1, InsertedAll
  <2>5. ASSUME o.stmt.kind = "update", o.stmt.col = "b" PROVE UpdateEffect(o, sc)
    <3>1. ScanDone(o, sc, store)
      BY <2>3, <2>5 DEF ByScan
    <3>2. CASE o.ok = TRUE /\ Progress(o, sc, store, Named(o))
      BY <2>5, <3>2 DEF Progress, Changed, UpdateEffect
    <3>3. CASE /\ o.ok = FALSE /\ ~Valid(sc, o.stmt.val)
               /\ Named(o) # {} /\ Progress(o, sc, store, {})
      BY <2>5, <3>3 DEF Progress, UpdateEffect
    <3> QED
      BY <3>1, <3>2, <3>3 DEF ScanDone
  <2>6. ASSUME o.stmt.kind = "delete" PROVE DeleteEffect(o)
    <3>1. ScanDone(o, sc, store)
      BY <2>3, <2>6 DEF ByScan
    <3>2. o.ok = TRUE /\ Progress(o, sc, store, Named(o))
      BY <2>6, <3>1 DEF ScanDone
    <3> QED
      BY <2>6, <3>2 DEF Progress, Changed, DeleteEffect
  <2> QED
    BY <2>4, <2>5, <2>6 DEF o, sc
<1> QED
  BY <1>1, EInvAlways, PTL
=============================================================================
