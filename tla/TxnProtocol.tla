---------------------------- MODULE TxnProtocol ----------------------------
(***************************************************************************)
(* The transaction manager of TXN/VL over the version store of TXN/MV:      *)
(* slot pool, begin timestamps, version chains, the commit protocol with    *)
(* its WAL record, and abort.                                               *)
(*                                                                          *)
(* A transaction object is used under its own mutex t.mu, so its operations *)
(* are sequential; pc[t] says how far the operation in flight has got. What *)
(* interleaves is the operations of different transactions, at the steps    *)
(* the code takes under sm.mu, by an atomic, or inside the WAL writer.      *)
(*                                                                          *)
(* A version node is the memory of an arena: its address is the arena and   *)
(* the bump offset it was carved at. ReleaseSlot returns the arena to the   *)
(* sync.Pool, and the next owner carves the same addresses again.           *)
(***************************************************************************)
EXTENDS Integers, Sequences, FiniteSets

CONSTANTS
  Txs,            \* transaction objects, each begun at most once
  WalTxs,         \* those with a WAL attached by WithWAL
  Keys,           \* byte strings in the order of bytes.Compare; 0 is the empty one
  NumSlots,       \* MaxConcurrentTXNs
  NumArenas,      \* bound: arenas ever made by the pool's New
  MaxWrites,      \* bound: Insert and Delete calls of one transaction
  MaxTS,          \* bound: timestamps handed out
  Ops,            \* which of Insert and Delete are called
  PoolMayReuse    \* may sync.Pool.Get return an arena put back earlier?

ASSUME ConstantsAssumption ==
  /\ WalTxs \subseteq Txs
  /\ Keys \subseteq Nat
  /\ NumSlots \in Nat \ {0} /\ NumArenas \in Nat /\ MaxWrites \in Nat /\ MaxTS \in Nat
  /\ Ops \subseteq {"Insert", "Delete"}
  /\ PoolMayReuse \in BOOLEAN

VARIABLES
  txnCounter,     \* the process-wide timestamp counter
  freeList,       \* indices of free slots, used as a stack
  status, stxn, sbegin, scommit, writeSet, sarena,   \* the fields of each slot
  made,           \* arenas made so far
  pool,           \* arenas in the sync.Pool
  youngOff,       \* bump offset of each arena, in nodes
  node,           \* contents of each node address
  head,           \* head of each key's version chain
  pc, slotOf, phase, finished,      \* the transaction objects
  cts, todo,      \* locals of Commit: commitTS, the keys still to be stamped
  log, synced,    \* the WAL: commit records appended, and how many are durable
  committed, aborted,               \* the manager's counters
  bts, mine, before                 \* history: see Init

slotVars == <<freeList, status, stxn, sbegin, scommit, writeSet, sarena>>
memVars  == <<made, pool, youngOff, node, head>>
walVars  == <<log, synced>>
ghosts   == <<bts, mine, before>>
vars == <<txnCounter, slotVars, memVars, pc, slotOf, phase, finished, cts, todo,
          walVars, committed, aborted, ghosts>>

Slots  == 1..NumSlots
Arenas == 1..NumArenas
Addr   == Arenas \X (1..MaxWrites)
Nil    == <<0, 0>>                \* the nil *VersionNode; no arena is 0
MaxU64 == MaxTS + 1               \* ^uint64(0): above every timestamp handed out
NoSlot == 0
Tombstone == MaxWrites + 1        \* what mine records for a Delete

Statuses == {"Inactive", "Active", "Committed", "Aborted"}
Phases   == {"Begin", "Read", "Write", "PreCommit", "Commit", "PostCommit", "Aborted"}
PCs      == {"new", "alloc", "open", "commitTS", "stamp", "append", "sync",
             "finalize", "release", "spin", "done"}

(***************************************************************************)
(* Version chains (TXN/MV)                                                  *)
(***************************************************************************)

\* The walk from a chain's head along next: its i-th node, Nil past the end. A walk
\* longer than the number of addresses has gone round a cycle.
WalkLimit == NumArenas * MaxWrites
Walk(k) ==
  LET w[i \in 0..WalkLimit] ==
        IF i = 0 THEN head[k]
        ELSE IF w[i - 1] = Nil THEN Nil ELSE node[w[i - 1]].next
  IN  w

\* a is the first node of k's chain that belongs to S: what a loop from GetHead that
\* stops at the first match finds.
IsFirst(k, S, a) ==
  /\ a \in S
  /\ \E i \in 0..WalkLimit : Walk(k)[i] = a /\ \A j \in 0..(i - 1) : Walk(k)[j] \notin S

\* Such a loop ends: it meets a node of S, or nil.
LoopEnds(k, S) == \E i \in 0..WalkLimit : Walk(k)[i] \in S \cup {Nil}

\* The nodes of one transaction, as the loops of Commit and of Get recognise them.
OfAnyTxn(id) == {a \in Addr : node[a].txnID # 0}
OfTxn(id)    == {a \in Addr : node[a].txnID = id}
NoOwnNodes(t) == {}
OwnNodes(t)  == {a \in Addr : node[a].txnID = stxn[slotOf[t]] /\ node[a].beginTS = sbegin[slotOf[t]]}

\* VersionNode.Commit: a CAS of endTS from MaxU64.
VersionStore(a, ts)  == [node[a] EXCEPT !.endTS = ts]
VersionCommit(a, ts) == IF node[a].endTS = MaxU64 THEN [node[a] EXCEPT !.endTS = ts] ELSE node[a]

\* Arena.Alloc of one node: the address at the bump offset.
AllocRewound(a) == <<a, 1>>
Alloc(a)        == <<a, youngOff[a] + 1>>

\* VersionNode.IsVisible
VisibleAt(readTS) == {a \in Addr : node[a].beginTS < readTS /\ node[a].endTS >= readTS}

\* The version tx.Get settles on, Nil when there is none: the transaction's own newest
\* node, else the first visible one.
GetResult(t, k) ==
  LET readTS == sbegin[slotOf[t]]
      S == IF \E a \in Addr : IsFirst(k, OwnNodes(t), a) THEN OwnNodes(t) ELSE VisibleAt(readTS)
  IN  IF \E a \in Addr : IsFirst(k, S, a) THEN CHOOSE a \in Addr : IsFirst(k, S, a) ELSE Nil

\* What the caller of Get receives: nothing for nil and for a tombstone.
GetValue(t, k) ==
  LET a == GetResult(t, k)
  IN  IF a = Nil \/ node[a].deleted THEN <<0, 0>> ELSE <<node[a].txnID, node[a].val>>

\* Both loops of Get end.
GetEnds(t, k) ==
  /\ LoopEnds(k, OwnNodes(t))
  /\ (\E a \in Addr : IsFirst(k, OwnNodes(t), a)) \/ LoopEnds(k, VisibleAt(sbegin[slotOf[t]]))

(***************************************************************************)
(* Conflict detection (validate.go)                                         *)
(***************************************************************************)

\* RangesOverlap on [Start, End) ranges; nil and the empty string are 0.
RangesOverlap(a, b) ==
  \/ a.start = 0 /\ a.end = 0
  \/ b.start = 0 /\ b.end = 0
  \/ a.start < b.end /\ b.start < a.end

KeyRangesOverlap(as, bs) == \E i \in DOMAIN as, j \in DOMAIN bs : RangesOverlap(as[i], bs[j])

\* slotManager.Validate: no committed slot rules the transaction of slot my out.
Validate(my) ==
  ~ \E s \in Slots :
      /\ status[s] = "Committed"
      /\ sbegin[s] < sbegin[my]
      /\ scommit[s] > sbegin[my]
      /\ KeyRangesOverlap(writeSet[s], writeSet[my])
-----------------------------------------------------------------------------
NoNode == [txnID |-> 0, beginTS |-> 0, endTS |-> 0, key |-> 0, val |-> 0,
           deleted |-> FALSE, next |-> Nil]

Init ==
  /\ txnCounter = 0
  /\ freeList = [i \in 1..NumSlots |-> i]
  /\ status = [s \in Slots |-> "Inactive"]
  /\ stxn = [s \in Slots |-> 0] /\ sbegin = [s \in Slots |-> 0] /\ scommit = [s \in Slots |-> 0]
  /\ writeSet = [s \in Slots |-> <<>>]
  /\ sarena = [s \in Slots |-> 0]
  /\ made = 0 /\ pool = {}
  /\ youngOff = [a \in Arenas |-> 0]
  /\ node = [a \in Addr |-> NoNode]
  /\ head = [k \in Keys |-> Nil]
  /\ pc = [t \in Txs |-> "new"]
  /\ slotOf = [t \in Txs |-> NoSlot]
  /\ phase = [t \in Txs |-> "Begin"]
  /\ finished = [t \in Txs |-> FALSE]
  /\ cts = [t \in Txs |-> 0] /\ todo = [t \in Txs |-> <<>>]
  /\ log = <<>> /\ synced = 0
  /\ committed = 0 /\ aborted = 0
  /\ bts = [t \in Txs |-> 0]                        \* the begin timestamp, kept after release
  /\ mine = [t \in Txs |-> [k \in Keys |-> 0]]      \* ordinal of t's last write of k, or Tombstone
  /\ before = [t \in Txs |-> {}]                    \* transactions whose Commit returned before Begin

\* Commit returned nil to the caller.
Acked(t) == pc[t] = "done" /\ phase[t] = "PostCommit"

(***************************************************************************)
(* Begin (manager.go)                                                       *)
(***************************************************************************)

\* sync.Pool.Get: an arena put back earlier, or a new one, as the scheduler has it.
GetArena(s) ==
  \/ /\ PoolMayReuse
     /\ \E a \in pool : sarena' = [sarena EXCEPT ![s] = a] /\ pool' = pool \ {a}
     /\ UNCHANGED made
  \/ /\ made < NumArenas
     /\ made' = made + 1
     /\ sarena' = [sarena EXCEPT ![s] = made + 1]
     /\ UNCHANGED pool

\* The free list is popped at its end.
LeaveFree == freeList' = freeList
PopFree   == freeList' = SubSeq(freeList, 1, Len(freeList) - 1)

\* AllocateSlot, under sm.mu: pop a slot, reset it, take an arena from the pool or a
\* new one.
AllocateSlot(t) ==
  /\ pc[t] = "new"
  /\ freeList # <<>>
  /\ LET s == freeList[Len(freeList)] IN
     /\ PopFree
     /\ status' = [status EXCEPT ![s] = "Active"]
     /\ stxn' = [stxn EXCEPT ![s] = 0]
     /\ sbegin' = [sbegin EXCEPT ![s] = 0]
     /\ scommit' = [scommit EXCEPT ![s] = 0]
     /\ writeSet' = [writeSet EXCEPT ![s] = <<>>]
     /\ slotOf' = [slotOf EXCEPT ![t] = s]
     /\ GetArena(s)
  /\ pc' = [pc EXCEPT ![t] = "alloc"]
  /\ before' = [before EXCEPT ![t] = {u \in Txs : Acked(u)}]
  /\ UNCHANGED <<txnCounter, youngOff, node, head, phase, finished, cts, todo, walVars,
                 committed, aborted, bts, mine>>

\* The rest of Manager.Begin, outside sm.mu: the timestamp, and Active once more.
BeginTS(t) ==
  /\ pc[t] = "alloc"
  /\ txnCounter < MaxTS
  /\ txnCounter' = txnCounter + 1
  /\ stxn' = [stxn EXCEPT ![slotOf[t]] = txnCounter + 1]
  /\ sbegin' = [sbegin EXCEPT ![slotOf[t]] = txnCounter + 1]
  /\ status' = [status EXCEPT ![slotOf[t]] = "Active"]
  /\ bts' = [bts EXCEPT ![t] = txnCounter + 1]
  /\ pc' = [pc EXCEPT ![t] = "open"]
  /\ UNCHANGED <<freeList, scommit, writeSet, sarena, memVars, slotOf, phase, finished, cts,
                 todo, walVars, committed, aborted, mine, before>>

(***************************************************************************)
(* Reads and writes (protocol.go)                                           *)
(***************************************************************************)

\* tx.Get: the first one moves the phase on; on a cyclic chain it may never return.
Get(t, k) ==
  /\ pc[t] = "open"
  /\ phase' = [phase EXCEPT ![t] = IF @ = "Begin" THEN "Read" ELSE @]
  /\ pc' = [pc EXCEPT ![t] = IF GetEnds(t, k) THEN "open" ELSE "spin"]
  /\ UNCHANGED <<txnCounter, slotVars, memVars, slotOf, finished, cts, todo, walVars,
                 committed, aborted, ghosts>>

\* tx.Insert and tx.Delete: carve a node, CAS it in as the chain's new head, note the key.
\* The node's fields are written before next is, and next before the head.
Write(t, k, op) ==
  LET s == slotOf[t]
      a == sarena[s]
      n == Len(writeSet[s]) + 1
      at == Alloc(a)
  IN
  /\ pc[t] = "open"
  /\ Len(writeSet[s]) < MaxWrites
  /\ youngOff' = [youngOff EXCEPT ![a] = @ + 1]
  /\ node' = [node EXCEPT ![at] =
       [txnID |-> stxn[s], beginTS |-> sbegin[s], endTS |-> MaxU64, key |-> k, val |-> n,
        deleted |-> (op = "Delete"), next |-> head[k]]]
  /\ head' = [head EXCEPT ![k] = at]
  /\ writeSet' = [writeSet EXCEPT ![s] = Append(@, [start |-> k, end |-> 0])]
  /\ phase' = [phase EXCEPT ![t] = "Write"]
  /\ mine' = [mine EXCEPT ![t][k] = IF op = "Delete" THEN Tombstone ELSE n]
  /\ UNCHANGED <<txnCounter, freeList, status, stxn, sbegin, scommit, sarena, made, pool, pc,
                 slotOf, finished, cts, todo, walVars, committed, aborted, bts, before>>

(***************************************************************************)
(* Commit and Abort (protocol.go)                                           *)
(***************************************************************************)

\* Abort is refused, as a no-op, once the transaction is finished.
AbortAgain(t) == pc[t] \in {"open", "done"}
MayAbort(t)   == pc[t] = "open"

\* finalize's first half: the slot's terminal status is visible before the release.
FinalizeStatus(t, st) ==
  /\ status' = [status EXCEPT ![slotOf[t]] = st]
  /\ pc' = [pc EXCEPT ![t] = "release"]

CommitValidate(t) ==
  /\ pc[t] = "open"
  /\ IF Validate(slotOf[t])
       THEN /\ phase' = [phase EXCEPT ![t] = "PreCommit"]
            /\ pc' = [pc EXCEPT ![t] = "commitTS"]
            /\ UNCHANGED status
       ELSE /\ phase' = [phase EXCEPT ![t] = "Aborted"]
            /\ FinalizeStatus(t, "Aborted")
  /\ UNCHANGED <<txnCounter, freeList, stxn, sbegin, scommit, writeSet, sarena, memVars, slotOf,
                 finished, cts, todo, walVars, committed, aborted, ghosts>>

\* NextTS returns the counter after the increment.
NextTSAhead == txnCounter + 2
CommitStamp == txnCounter + 1

CommitTS(t) ==
  /\ pc[t] = "commitTS"
  /\ txnCounter < MaxTS
  /\ txnCounter' = txnCounter + 1
  /\ cts' = [cts EXCEPT ![t] = CommitStamp]
  /\ todo' = [todo EXCEPT ![t] = writeSet[slotOf[t]]]
  /\ phase' = [phase EXCEPT ![t] = "Commit"]
  /\ pc' = [pc EXCEPT ![t] = "stamp"]
  /\ UNCHANGED <<slotVars, memVars, slotOf, finished, walVars, committed, aborted, ghosts>>

\* The range loop over the write set moves on by one key.
KeysKept(ks) == ks
KeysLeft(ks) == Tail(ks)

\* One key of the stamping loop: CAS endTS from MaxU64 on the transaction's newest node.
StampKey(t) ==
  LET k == Head(todo[t]).start
      own == OfTxn(stxn[slotOf[t]])
  IN
  /\ pc[t] = "stamp"
  /\ todo[t] # <<>>
  /\ IF LoopEnds(k, own)
       THEN /\ node' = [a \in Addr |-> IF IsFirst(k, own, a) THEN VersionCommit(a, cts[t])
                                                             ELSE node[a]]
            /\ todo' = [todo EXCEPT ![t] = KeysLeft(@)]
            /\ UNCHANGED pc
       ELSE pc' = [pc EXCEPT ![t] = "spin"] /\ UNCHANGED <<node, todo>>
  /\ UNCHANGED <<txnCounter, slotVars, made, pool, youngOff, head, slotOf, phase, finished, cts,
                 walVars, committed, aborted, ghosts>>

\* Stamping is over; a transaction without a WAL goes straight to finalize.
StampDone(t) ==
  /\ pc[t] = "stamp"
  /\ todo[t] = <<>>
  /\ pc' = [pc EXCEPT ![t] = IF t \in WalTxs THEN "append" ELSE "finalize"]
  /\ UNCHANGED <<txnCounter, slotVars, memVars, slotOf, phase, finished, cts, todo, walVars,
                 committed, aborted, ghosts>>

WalAppend(t) ==
  /\ pc[t] = "append"
  /\ log' = Append(log, [tx |-> t, ts |-> cts[t]])
  /\ pc' = [pc EXCEPT ![t] = "sync"]
  /\ UNCHANGED <<txnCounter, slotVars, memVars, slotOf, phase, finished, cts, todo, synced,
                 committed, aborted, ghosts>>

\* writer.Sync makes everything appended so far durable.
SyncNothing == synced' = synced
SyncLog     == synced' = Len(log)

WalSync(t) ==
  /\ pc[t] = "sync"
  /\ SyncLog
  /\ pc' = [pc EXCEPT ![t] = "finalize"]
  /\ UNCHANGED <<txnCounter, slotVars, memVars, slotOf, phase, finished, cts, todo, log,
                 committed, aborted, ghosts>>

\* Append or Sync failed: Commit returns the error, the transaction is not finished and
\* keeps its slot; the caller may write, commit again, or abort.
WalFail(t) ==
  /\ pc[t] \in {"append", "sync"}
  /\ phase' = [phase EXCEPT ![t] = "Aborted"]
  /\ pc' = [pc EXCEPT ![t] = "open"]
  /\ UNCHANGED <<txnCounter, slotVars, memVars, slotOf, finished, cts, todo, walVars,
                 committed, aborted, ghosts>>

CommitFinalize(t) ==
  /\ pc[t] = "finalize"
  /\ phase' = [phase EXCEPT ![t] = "PostCommit"]
  /\ FinalizeStatus(t, "Committed")
  /\ UNCHANGED <<txnCounter, freeList, stxn, sbegin, scommit, writeSet, sarena, memVars, slotOf,
                 finished, cts, todo, walVars, committed, aborted, ghosts>>

Abort(t) ==
  /\ MayAbort(t)
  /\ phase' = [phase EXCEPT ![t] = "Aborted"]
  /\ FinalizeStatus(t, "Aborted")
  /\ UNCHANGED <<txnCounter, freeList, stxn, sbegin, scommit, writeSet, sarena, memVars, slotOf,
                 finished, cts, todo, walVars, committed, aborted, ghosts>>

\* PutArena: rewind the young generation and give the arena back.
PutUnrewound(a) == youngOff' = youngOff /\ pool' = pool \cup {a}
PutArena(a)     == youngOff' = [youngOff EXCEPT ![a] = 0] /\ pool' = pool \cup {a}

\* slot.arena = nil
KeepArena(s)  == sarena' = sarena
ClearArena(s) == sarena' = [sarena EXCEPT ![s] = 0]

\* ReleaseSlot, under sm.mu, then finished and the manager's counter: the slot is reset,
\* its arena rewound and put back in the pool, its index pushed on the free list.
ReleaseSlot(t) ==
  /\ pc[t] = "release"
  /\ LET s == slotOf[t] IN
     /\ status' = [status EXCEPT ![s] = "Inactive"]
     /\ stxn' = [stxn EXCEPT ![s] = 0]
     /\ sbegin' = [sbegin EXCEPT ![s] = 0]
     /\ scommit' = [scommit EXCEPT ![s] = 0]
     /\ writeSet' = [writeSet EXCEPT ![s] = <<>>]
     /\ PutArena(sarena[s])
     /\ ClearArena(s)
     /\ freeList' = Append(freeList, s)
  /\ finished' = [finished EXCEPT ![t] = TRUE]
  /\ committed' = committed + (IF phase[t] = "PostCommit" THEN 1 ELSE 0)
  /\ aborted' = aborted + (IF phase[t] = "PostCommit" THEN 0 ELSE 1)
  /\ pc' = [pc EXCEPT ![t] = "done"]
  /\ UNCHANGED <<txnCounter, made, node, head, slotOf, phase, cts, todo, walVars, ghosts>>

-----------------------------------------------------------------------------
CommitStep(t) ==
  \/ CommitValidate(t) \/ CommitTS(t) \/ StampKey(t) \/ StampDone(t)
  \/ WalAppend(t) \/ WalSync(t) \/ WalFail(t) \/ CommitFinalize(t)

Next ==
  \/ \E t \in Txs :
       \/ AllocateSlot(t) \/ BeginTS(t) \/ Abort(t) \/ ReleaseSlot(t) \/ CommitStep(t)
       \/ \E k \in Keys : Get(t, k)
       \/ \E k \in Keys, op \in Ops : Write(t, k, op)

Spec == Init /\ [][Next]_vars
-----------------------------------------------------------------------------
(***************************************************************************)
(* Properties                                                               *)
(***************************************************************************)

Holds(t) == pc[t] \notin {"new", "done"}
Free     == {freeList[i] : i \in DOMAIN freeList}
KeyRange == [start : Keys, end : {0}]

NodeType ==
  [txnID : 0..MaxTS, beginTS : 0..MaxTS, endTS : 0..MaxU64, key : Keys \cup {0},
   val : 0..MaxWrites, deleted : BOOLEAN, next : Addr \cup {Nil}]

\* Every variable has its type: slot fields, nodes, transaction objects, the log.
TypeOK ==
  /\ txnCounter \in 0..MaxTS
  /\ freeList \in Seq(Slots)
  /\ status \in [Slots -> Statuses]
  /\ stxn \in [Slots -> 0..MaxTS] /\ sbegin \in [Slots -> 0..MaxTS]
  /\ scommit \in [Slots -> {0}]
  /\ writeSet \in [Slots -> Seq(KeyRange)]
  /\ sarena \in [Slots -> 0..NumArenas]
  /\ made \in 0..NumArenas /\ pool \subseteq Arenas
  /\ youngOff \in [Arenas -> 0..MaxWrites]
  /\ node \in [Addr -> NodeType]
  /\ head \in [Keys -> Addr \cup {Nil}]
  /\ pc \in [Txs -> PCs] /\ slotOf \in [Txs -> Slots \cup {NoSlot}]
  /\ phase \in [Txs -> Phases] /\ finished \in [Txs -> BOOLEAN]
  /\ cts \in [Txs -> 0..MaxTS] /\ todo \in [Txs -> Seq(KeyRange)]
  /\ log \in Seq([tx : WalTxs, ts : 0..MaxTS]) /\ synced \in 0..Len(log)
  /\ committed \in Nat /\ aborted \in Nat
  /\ bts \in [Txs -> 0..MaxTS]
  /\ mine \in [Txs -> [Keys -> 0..Tombstone]]
  /\ before \in [Txs -> SUBSET Txs]

\* AllocateSlot and ReleaseSlot keep the pool a partition: the free list names no slot
\* twice, no two unfinished transactions share a slot, and a slot is on the free list
\* exactly when no transaction holds it, whichever of the failing paths of Commit, retries
\* and aborts were taken (slot.go, protocol.go).
SlotsPartitioned ==
  /\ \A i, j \in DOMAIN freeList : freeList[i] = freeList[j] => i = j
  /\ \A t, u \in Txs : Holds(t) /\ Holds(u) /\ slotOf[t] = slotOf[u] => t = u
  /\ \A s \in Slots : s \in Free <=> ~ \E t \in Txs : Holds(t) /\ slotOf[t] = s

\* An arena has one user: the arenas of held slots are distinct and not in the pool, so no
\* two live transactions carve nodes at the same addresses (slot.go, PutArena).
ArenasExclusive ==
  /\ \A s \in Slots : sarena[s] # 0 <=> s \notin Free
  /\ \A s, r \in Slots : sarena[s] = sarena[r] /\ sarena[s] # 0 => s = r
  /\ \A s \in Slots : sarena[s] \notin pool

\* When Commit of a transaction with a WAL has returned nil, the commit record carrying its
\* commit timestamp is durable, also after failed attempts and retries (protocol.go Commit).
AckedDurable ==
  \A t \in WalTxs : Acked(t) => \E i \in 1..synced : log[i] = [tx |-> t, ts |-> cts[t]]

\* Timestamps follow real time although the slot is taken in one step and the timestamp in a
\* later one: a transaction whose Commit returned before another's Begin has a commit
\* timestamp below the other's begin timestamp (manager.go Begin, protocol.go Commit).
RealTimeOrder ==
  \A t \in Txs : bts[t] # 0 => \A u \in before[t] : cts[u] < bts[t]

\* The commit record of t's current attempt is among the first n of the log.
Recorded(t, n) == \E i \in 1..n : log[i] = [tx |-> t, ts |-> cts[t]]

(* What makes the properties above inductive. *)

\* A transaction past Begin owns its slot's identifiers, and only a transaction with a WAL
\* is inside the WAL.
OwnerInv ==
  \A t \in Txs :
    /\ Holds(t) => slotOf[t] \in Slots
    /\ pc[t] \in {"new", "alloc"} => bts[t] = 0
    /\ pc[t] \notin {"new", "alloc", "done"} =>
         /\ bts[t] # 0 /\ stxn[slotOf[t]] = bts[t]
    /\ pc[t] \in {"append", "sync"} => t \in WalTxs

\* The bump offset of a held arena counts the writes of its transaction; every other arena
\* is rewound. An arena in use or in the pool has been made.
ArenaInv ==
  /\ \A s \in Slots : sarena[s] # 0 => youngOff[sarena[s]] = Len(writeSet[s])
  /\ \A a \in Arenas : (\A s \in Slots : sarena[s] # a) => youngOff[a] = 0
  /\ \A s \in Slots : sarena[s] <= made
  /\ \A a \in pool : a <= made

\* Above the bump offset of a held arena lie only nodes of earlier transactions.
TailInv ==
  /\ \A a \in Addr : node[a].txnID <= txnCounter
  /\ \A t \in Txs : Holds(t) /\ pc[t] # "alloc" =>
       \A a \in Addr : a[1] = sarena[slotOf[t]] /\ a[2] > youngOff[a[1]] => node[a].txnID < bts[t]

\* From Sync on, the record of the attempt is in the log, and durable once Sync returned;
\* only transactions that have begun are in the log.
RecordInv ==
  /\ \A t \in WalTxs :
       /\ pc[t] = "sync" => Recorded(t, Len(log))
       /\ pc[t] = "finalize" => Recorded(t, synced)
       /\ pc[t] \in {"release", "done"} /\ phase[t] = "PostCommit" => Recorded(t, synced)
  /\ \A i \in DOMAIN log : pc[log[i].tx] # "new"

\* Timestamps in use have been handed out; those noted at Begin belong to ended commits.
TimeInv ==
  \A t \in Txs :
    /\ cts[t] <= txnCounter /\ bts[t] <= txnCounter
    /\ \A u \in before[t] : pc[u] = "done"

IInv == /\ SlotsPartitioned /\ ArenasExclusive /\ RealTimeOrder
        /\ OwnerInv /\ ArenaInv /\ TailInv /\ RecordInv /\ TimeInv

\* A version is stamped once: as long as a node belongs to the same transaction its endTS
\* moves only from MaxU64, even when a Commit that failed in the WAL is tried again with
\* another commit timestamp (VersionNode.Commit).
StampedOnce ==
  [][\A a \in Addr : node'[a].txnID = node[a].txnID /\ node[a].endTS # MaxU64
                        => node'[a].endTS = node[a].endTS]_node

\* The abstract life of a transaction (TxnLifecycle), seen through the slot a transaction
\* holds, the outcome its caller was told, and the durable part of the log.
Lifecycle == INSTANCE TxnLifecycle WITH
  Slots <- Slots, NoSlot <- NoSlot,
  held <- [t \in Txs |-> IF Holds(t) THEN slotOf[t] ELSE NoSlot],
  outcome <- [t \in Txs |-> CASE pc[t] = "new" -> "none"
                               [] Holds(t) -> "active"
                               [] OTHER -> IF Acked(t) THEN "committed" ELSE "aborted"],
  durable <- {log[i].tx : i \in 1..synced}

\* The protocol implements the abstract life: one slot from Begin to the end, one outcome,
\* and committed only with a durable record.
ImplementsLifecycle == Lifecycle!LSpec
=============================================================================
