------------------------- MODULE TxnProtocol_proofs -------------------------
(***************************************************************************)
(* Proofs about transactions, for any number of transactions, keys, slots,  *)
(* arenas and timestamps: about the protocol, and about what readers may    *)
(* rely on (TxnIsolation). The inductive invariant is Inv: the types and    *)
(* IInv. Each action has a lemma for the types and, where it can disturb    *)
(* them, for the parts of IInv.                                             *)
(***************************************************************************)
EXTENDS TxnIsolation, TLAPS, FiniteSetTheorems, WellFoundedInduction

Inv == TypeOK /\ IInv

LEMMA ConstantFacts ==
  /\ WalTxs \subseteq Txs /\ Keys \subseteq Nat
  /\ NumSlots \in Nat \ {0} /\ NumArenas \in Nat /\ MaxWrites \in Nat /\ MaxTS \in Nat
  /\ Nil \notin Addr
BY ConstantsAssumption DEF Nil, Addr, Arenas

(***************************************************************************)
(* Types                                                                    *)
(***************************************************************************)

\* The parts of TypeOK, by the component of the code that owns the variables.
SlotTypes ==
  /\ freeList \in Seq(Slots)
  /\ status \in [Slots -> Statuses]
  /\ stxn \in [Slots -> 0..MaxTS] /\ sbegin \in [Slots -> 0..MaxTS]
  /\ scommit \in [Slots -> {0}]
  /\ writeSet \in [Slots -> Seq(KeyRange)]
  /\ sarena \in [Slots -> 0..NumArenas]
MemTypes ==
  /\ made \in 0..NumArenas /\ pool \subseteq Arenas
  /\ youngOff \in [Arenas -> 0..MaxWrites]
  /\ node \in [Addr -> NodeType]
  /\ head \in [Keys -> Addr \cup {Nil}]
TxTypes ==
  /\ txnCounter \in 0..MaxTS
  /\ pc \in [Txs -> PCs] /\ slotOf \in [Txs -> Slots \cup {NoSlot}]
  /\ phase \in [Txs -> Phases] /\ finished \in [Txs -> BOOLEAN]
  /\ cts \in [Txs -> 0..MaxTS] /\ todo \in [Txs -> Seq(KeyRange)]
LogTypes ==
  /\ log \in Seq([tx : WalTxs, ts : 0..MaxTS]) /\ synced \in 0..Len(log)
  /\ committed \in Nat /\ aborted \in Nat
GhostTypes ==
  /\ bts \in [Txs -> 0..MaxTS]
  /\ mine \in [Txs -> [Keys -> 0..Tombstone]]
  /\ before \in [Txs -> SUBSET Txs]

\* TypeOK is its parts, before a step and after it.
LEMMA TypeParts == TypeOK <=> SlotTypes /\ MemTypes /\ TxTypes /\ LogTypes /\ GhostTypes
BY DEF TypeOK, SlotTypes, MemTypes, TxTypes, LogTypes, GhostTypes

LEMMA TypePartsNext ==
  TypeOK' <=> SlotTypes' /\ MemTypes' /\ TxTypes' /\ LogTypes' /\ GhostTypes'
BY DEF TypeOK, SlotTypes, MemTypes, TxTypes, LogTypes, GhostTypes

LEMMA TypeInit == Init => TypeOK
<1> SUFFICES ASSUME Init PROVE TypeOK
  OBVIOUS
<1>1. NoNode \in NodeType
  BY ConstantFacts DEF NoNode, NodeType, MaxU64
<1> QED
  BY <1>1, ConstantFacts, SMTT(60) DEF Init, TypeOK, Slots, Arenas, Statuses, Phases, PCs, NoSlot, MaxU64, Tombstone

LEMMA TypeAllocate ==
  ASSUME Inv, NEW t \in Txs, AllocateSlot(t) PROVE TypeOK'
<1> DEFINE s == freeList[Len(freeList)]
<1>0. SlotTypes /\ MemTypes /\ TxTypes /\ LogTypes /\ GhostTypes
  BY TypeParts DEF Inv
<1>1. freeList \in Seq(Slots) /\ freeList # <<>>
  BY <1>0 DEF AllocateSlot, SlotTypes
<1>2. s \in Slots
  BY <1>1
<1>3. SubSeq(freeList, 1, Len(freeList) - 1) \in Seq(Slots)
  BY <1>1
<1>10. GetArena(s)
  BY DEF AllocateSlot
<1>8. sarena' \in [Slots -> 0..NumArenas]
  <2>1. PICK a \in 0..NumArenas : sarena' = [sarena EXCEPT ![s] = a]
    BY <1>0, <1>10, ConstantFacts DEF GetArena, MemTypes, Arenas
  <2> QED
    BY <1>0, <1>2, <2>1 DEF SlotTypes
<1>9. made' \in 0..NumArenas /\ pool' \subseteq Arenas
  <2>1. made' \in 0..NumArenas
    BY <1>0, <1>10, ConstantFacts DEF GetArena, MemTypes
  <2>2. pool' \subseteq pool
    BY <1>10 DEF GetArena
  <2> QED
    BY <1>0, <2>1, <2>2 DEF MemTypes
<1>4. SlotTypes'
  <2>1. freeList' \in Seq(Slots)
    BY <1>3 DEF AllocateSlot, PopFree
  <2>2. status' \in [Slots -> Statuses]
    BY <1>0, <1>2 DEF AllocateSlot, SlotTypes, Statuses
  <2>3. stxn' \in [Slots -> 0..MaxTS] /\ sbegin' \in [Slots -> 0..MaxTS]
    BY <1>0, <1>2, ConstantFacts DEF AllocateSlot, SlotTypes
  <2>4. scommit' \in [Slots -> {0}]
    BY <1>0, <1>2 DEF AllocateSlot, SlotTypes
  <2>5. writeSet' \in [Slots -> Seq(KeyRange)]
    BY <1>0, <1>2 DEF AllocateSlot, SlotTypes
  <2> QED
    BY <1>8, <2>1, <2>2, <2>3, <2>4, <2>5 DEF SlotTypes
<1>5. MemTypes'
  BY <1>0, <1>9 DEF AllocateSlot, MemTypes
<1>6. TxTypes'
  BY <1>0, <1>2 DEF AllocateSlot, TxTypes, PCs
<1>7. LogTypes' /\ GhostTypes'
  BY <1>0 DEF AllocateSlot, LogTypes, GhostTypes, walVars
<1> QED
  BY <1>4, <1>5, <1>6, <1>7, TypePartsNext

LEMMA TypeBeginTS ==
  ASSUME Inv, NEW t \in Txs, BeginTS(t) PROVE TypeOK'
<1>0. SlotTypes /\ MemTypes /\ TxTypes /\ LogTypes /\ GhostTypes
  BY TypeParts DEF Inv
<1>1. txnCounter + 1 \in 0..MaxTS
  BY <1>0, ConstantFacts DEF BeginTS, TxTypes
<1>2. SlotTypes'
  BY <1>0, <1>1 DEF BeginTS, SlotTypes, Statuses
<1>3. TxTypes'
  BY <1>0, <1>1 DEF BeginTS, TxTypes, PCs
<1>4. GhostTypes'
  BY <1>0, <1>1 DEF BeginTS, GhostTypes
<1>5. MemTypes' /\ LogTypes'
  BY <1>0 DEF BeginTS, LogTypes, MemTypes, memVars, walVars
<1> QED
  BY <1>2, <1>3, <1>4, <1>5, TypePartsNext

\* What every action but AllocateSlot knows of the slot it works on.
LEMMA HeldSlot ==
  ASSUME Inv, NEW t \in Txs, Holds(t)
  PROVE  /\ slotOf[t] \in Slots /\ slotOf[t] \notin Free
         /\ sarena[slotOf[t]] \in Arenas
<1>1. slotOf[t] \in Slots
  BY DEF Inv, IInv, OwnerInv
<1>2. slotOf[t] \notin Free
  BY <1>1 DEF Inv, IInv, SlotsPartitioned
<1>3. sarena[slotOf[t]] # 0
  BY <1>1, <1>2 DEF Inv, IInv, ArenasExclusive
<1> QED
  BY <1>1, <1>2, <1>3 DEF Inv, TypeOK, Arenas

LEMMA TypeWrite ==
  ASSUME Inv, NEW t \in Txs, NEW k \in Keys, NEW op \in Ops, Write(t, k, op) PROVE TypeOK'
<1> DEFINE s == slotOf[t]
           a == sarena[s]
           n == Len(writeSet[s]) + 1
           nd == [txnID |-> stxn[s], beginTS |-> sbegin[s], endTS |-> MaxU64, key |-> k, val |-> n,
                  deleted |-> (op = "Delete"), next |-> head[k]]
<1>0. SlotTypes /\ MemTypes /\ TxTypes /\ LogTypes /\ GhostTypes
  BY TypeParts DEF Inv
<1>1. s \in Slots /\ a \in Arenas
  BY HeldSlot DEF Write, Holds
<1>2. writeSet[s] \in Seq(KeyRange) /\ youngOff[a] = Len(writeSet[s]) /\ Len(writeSet[s]) < MaxWrites
  <2>1. youngOff[a] = Len(writeSet[s])
    BY <1>1, ConstantFacts DEF Inv, IInv, ArenaInv, Arenas
  <2> QED
    BY <1>0, <1>1, <2>1 DEF Write, SlotTypes
<1>3. n \in 1..MaxWrites /\ youngOff[a] + 1 = n
  <2>1. Len(writeSet[s]) \in Nat
    BY <1>2
  <2> QED
    BY <1>2, <2>1, ConstantFacts
<1>4. Alloc(a) \in Addr
  BY <1>1, <1>3 DEF Alloc, Addr
<1>5. nd \in NodeType
  <2>1. stxn[s] \in 0..MaxTS /\ sbegin[s] \in 0..MaxTS /\ head[k] \in Addr \cup {Nil}
    BY <1>0, <1>1 DEF SlotTypes, MemTypes
  <2>2. MaxU64 \in 0..MaxU64 /\ n \in 0..MaxWrites
    BY <1>3, ConstantFacts DEF MaxU64
  <2> QED
    BY <2>1, <2>2 DEF NodeType
<1>6. SlotTypes'
  <2>1. [start |-> k, end |-> 0] \in KeyRange
    BY DEF KeyRange
  <2>2. Append(writeSet[s], [start |-> k, end |-> 0]) \in Seq(KeyRange)
    BY <1>2, <2>1
  <2>3. writeSet' \in [Slots -> Seq(KeyRange)]
    BY <1>0, <1>1, <2>2 DEF Write, SlotTypes
  <2> QED
    BY <1>0, <2>3 DEF Write, SlotTypes
<1>7. MemTypes'
  <2>1. youngOff' \in [Arenas -> 0..MaxWrites]
    BY <1>0, <1>1, <1>3 DEF Write, MemTypes
  <2>2. node' \in [Addr -> NodeType]
    BY <1>0, <1>4, <1>5 DEF Write, MemTypes
  <2>3. head' \in [Keys -> Addr \cup {Nil}]
    BY <1>0, <1>4 DEF Write, MemTypes
  <2> QED
    BY <1>0, <2>1, <2>2, <2>3 DEF Write, MemTypes
<1>8. TxTypes' /\ LogTypes'
  BY <1>0 DEF Write, TxTypes, LogTypes, Phases, walVars
<1>9. GhostTypes'
  <2>1. (IF op = "Delete" THEN Tombstone ELSE n) \in 0..Tombstone
    BY <1>3, ConstantFacts DEF Tombstone
  <2>2. mine' \in [Txs -> [Keys -> 0..Tombstone]]
    BY <1>0, <2>1 DEF Write, GhostTypes
  <2> QED
    BY <1>0, <2>2 DEF Write, GhostTypes
<1> QED
  BY <1>6, <1>7, <1>8, <1>9, TypePartsNext

LEMMA TypeCommitTS ==
  ASSUME Inv, NEW t \in Txs, CommitTS(t) PROVE TypeOK'
<1>0. SlotTypes /\ MemTypes /\ TxTypes /\ LogTypes /\ GhostTypes
  BY TypeParts DEF Inv
<1>1. slotOf[t] \in Slots
  BY HeldSlot DEF CommitTS, Holds
<1>2. TxTypes'
  <2>1. txnCounter' \in 0..MaxTS /\ cts' \in [Txs -> 0..MaxTS]
    BY <1>0, ConstantFacts DEF CommitTS, CommitStamp, TxTypes
  <2>2. todo' \in [Txs -> Seq(KeyRange)]
    BY <1>0, <1>1 DEF CommitTS, TxTypes, SlotTypes
  <2> QED
    BY <1>0, <2>1, <2>2 DEF CommitTS, TxTypes, Phases, PCs
<1>3. SlotTypes' /\ MemTypes'
  BY <1>0 DEF CommitTS, SlotTypes, MemTypes, slotVars, memVars
<1>4. LogTypes' /\ GhostTypes'
  BY <1>0 DEF CommitTS, LogTypes, GhostTypes, walVars, ghosts
<1> QED
  BY <1>2, <1>3, <1>4, TypePartsNext

LEMMA TypeStampKey ==
  ASSUME Inv, NEW t \in Txs, StampKey(t) PROVE TypeOK'
<1>0. SlotTypes /\ MemTypes /\ TxTypes /\ LogTypes /\ GhostTypes
  BY TypeParts DEF Inv
<1>1. \A a \in Addr : VersionCommit(a, cts[t]) \in NodeType
  <2> TAKE a \in Addr
  <2>1. node[a] \in NodeType /\ cts[t] \in 0..MaxU64
    BY <1>0, ConstantFacts DEF MemTypes, TxTypes, MaxU64
  <2> QED
    BY <2>1 DEF VersionCommit, NodeType
<1>2. node' \in [Addr -> NodeType]
  BY <1>0, <1>1 DEF StampKey, MemTypes
<1>3. todo' \in [Txs -> Seq(KeyRange)]
  <2>1. Tail(todo[t]) \in Seq(KeyRange)
    BY <1>0 DEF StampKey, TxTypes
  <2> QED
    BY <1>0, <2>1 DEF StampKey, KeysLeft, TxTypes
<1>4. TxTypes'
  BY <1>0, <1>3 DEF StampKey, TxTypes, PCs
<1>5. SlotTypes' /\ MemTypes'
  BY <1>0, <1>2 DEF StampKey, SlotTypes, MemTypes, slotVars
<1>6. LogTypes' /\ GhostTypes'
  BY <1>0 DEF StampKey, LogTypes, GhostTypes, walVars, ghosts
<1> QED
  BY <1>4, <1>5, <1>6, TypePartsNext

LEMMA TypeWal ==
  ASSUME Inv, NEW t \in Txs, WalAppend(t) \/ WalSync(t) \/ WalFail(t) PROVE TypeOK'
<1>0. SlotTypes /\ MemTypes /\ TxTypes /\ LogTypes /\ GhostTypes
  BY TypeParts DEF Inv
<1>1. SlotTypes' /\ MemTypes' /\ GhostTypes'
  BY <1>0 DEF WalAppend, WalSync, WalFail, SlotTypes, MemTypes, GhostTypes, slotVars, memVars, ghosts
<1>2. TxTypes'
  BY <1>0 DEF WalAppend, WalSync, WalFail, TxTypes, PCs, Phases
<1>3. LogTypes'
  <2>1. CASE WalAppend(t)
    <3>1. t \in WalTxs
      BY <2>1 DEF WalAppend, Inv, IInv, OwnerInv
    <3>2. [tx |-> t, ts |-> cts[t]] \in [tx : WalTxs, ts : 0..MaxTS]
      BY <1>0, <3>1 DEF TxTypes
    <3>3. log' = Append(log, [tx |-> t, ts |-> cts[t]]) /\ log \in Seq([tx : WalTxs, ts : 0..MaxTS])
      BY <1>0, <2>1 DEF WalAppend, LogTypes
    <3>4. log' \in Seq([tx : WalTxs, ts : 0..MaxTS]) /\ Len(log') = Len(log) + 1 /\ Len(log) \in Nat
      BY <3>2, <3>3
    <3> QED
      BY <1>0, <2>1, <3>4 DEF WalAppend, LogTypes
  <2>2. CASE WalSync(t)
    <3>1. Len(log) \in Nat
      BY <1>0 DEF LogTypes
    <3> QED
      BY <1>0, <2>2, <3>1 DEF WalSync, SyncLog, LogTypes
  <2>3. CASE WalFail(t)
    BY <1>0, <2>3 DEF WalFail, LogTypes, walVars
  <2> QED
    BY <2>1, <2>2, <2>3
<1> QED
  BY <1>1, <1>2, <1>3, TypePartsNext

LEMMA TypeStatus ==
  ASSUME Inv, NEW t \in Txs, CommitValidate(t) \/ CommitFinalize(t) \/ Abort(t) PROVE TypeOK'
<1>0. SlotTypes /\ MemTypes /\ TxTypes /\ LogTypes /\ GhostTypes
  BY TypeParts DEF Inv
<1>1. slotOf[t] \in Slots
  BY HeldSlot DEF CommitValidate, CommitFinalize, Abort, MayAbort, Holds
<1>2. status' \in [Slots -> Statuses]
  BY <1>0, <1>1 DEF CommitValidate, CommitFinalize, Abort, FinalizeStatus, SlotTypes, Statuses
<1>3. SlotTypes'
  BY <1>0, <1>2 DEF CommitValidate, CommitFinalize, Abort, SlotTypes
<1>4. TxTypes'
  BY <1>0 DEF CommitValidate, CommitFinalize, Abort, FinalizeStatus, TxTypes, PCs, Phases
<1>5. MemTypes' /\ LogTypes' /\ GhostTypes'
  BY <1>0 DEF CommitValidate, CommitFinalize, Abort, MemTypes, LogTypes, GhostTypes, memVars, walVars, ghosts
<1> QED
  BY <1>3, <1>4, <1>5, TypePartsNext

LEMMA TypeQuiet ==
  ASSUME Inv, NEW t \in Txs, StampDone(t) \/ \E k \in Keys : Get(t, k) PROVE TypeOK'
<1>0. SlotTypes /\ MemTypes /\ TxTypes /\ LogTypes /\ GhostTypes
  BY TypeParts DEF Inv
<1>1. TxTypes'
  BY <1>0 DEF StampDone, Get, TxTypes, PCs, Phases
<1>2. SlotTypes' /\ MemTypes'
  BY <1>0 DEF StampDone, Get, SlotTypes, MemTypes, slotVars, memVars
<1>3. LogTypes' /\ GhostTypes'
  BY <1>0 DEF StampDone, Get, LogTypes, GhostTypes, walVars, ghosts
<1> QED
  BY <1>1, <1>2, <1>3, TypePartsNext

LEMMA TypeRelease ==
  ASSUME Inv, NEW t \in Txs, ReleaseSlot(t) PROVE TypeOK'
<1> DEFINE s == slotOf[t]
<1>0. SlotTypes /\ MemTypes /\ TxTypes /\ LogTypes /\ GhostTypes
  BY TypeParts DEF Inv
<1>1. s \in Slots /\ sarena[s] \in Arenas
  BY HeldSlot DEF ReleaseSlot, Holds
<1>2. SlotTypes'
  <2>1. freeList' \in Seq(Slots)
    BY <1>0, <1>1 DEF ReleaseSlot, SlotTypes
  <2>2. status' \in [Slots -> Statuses]
    BY <1>0, <1>1 DEF ReleaseSlot, SlotTypes, Statuses
  <2>3. stxn' \in [Slots -> 0..MaxTS] /\ sbegin' \in [Slots -> 0..MaxTS]
    BY <1>0, <1>1, ConstantFacts DEF ReleaseSlot, SlotTypes
  <2>4. scommit' \in [Slots -> {0}] /\ writeSet' \in [Slots -> Seq(KeyRange)]
    BY <1>0, <1>1 DEF ReleaseSlot, SlotTypes
  <2>5. sarena' \in [Slots -> 0..NumArenas]
    BY <1>0, <1>1, ConstantFacts DEF ReleaseSlot, ClearArena, SlotTypes
  <2> QED
    BY <2>1, <2>2, <2>3, <2>4, <2>5 DEF SlotTypes
<1>3. MemTypes'
  <2>1. youngOff' \in [Arenas -> 0..MaxWrites] /\ pool' \subseteq Arenas
    BY <1>0, <1>1, ConstantFacts DEF ReleaseSlot, PutArena, MemTypes
  <2> QED
    BY <1>0, <2>1 DEF ReleaseSlot, MemTypes
<1>4. TxTypes'
  BY <1>0 DEF ReleaseSlot, TxTypes, PCs
<1>5. LogTypes' /\ GhostTypes'
  BY <1>0 DEF ReleaseSlot, LogTypes, GhostTypes, walVars, ghosts
<1> QED
  BY <1>2, <1>3, <1>4, <1>5, TypePartsNext

(***************************************************************************)
(* The parts of IInv                                                        *)
(***************************************************************************)

LEMMA IInvInit == Init => IInv
<1> SUFFICES ASSUME Init PROVE IInv
  OBVIOUS
<1>0. \A t \in Txs : ~ Holds(t)
  BY DEF Init, Holds
<1>1. SlotsPartitioned
  <2>1. freeList = [i \in 1..NumSlots |-> i] /\ DOMAIN freeList = Slots
    BY DEF Init, Slots
  <2>2. Free = Slots
    BY <2>1 DEF Free, Slots
  <2> QED
    BY <1>0, <2>1, <2>2 DEF SlotsPartitioned, Slots
<1>2. ArenasExclusive
  <2>1. freeList = [i \in 1..NumSlots |-> i] /\ DOMAIN freeList = Slots
    BY DEF Init, Slots
  <2>2. Free = Slots
    BY <2>1 DEF Free, Slots
  <2> QED
    BY <2>2 DEF Init, ArenasExclusive
<1>3. RealTimeOrder /\ OwnerInv /\ TimeInv
  BY <1>0, ConstantFacts DEF Init, RealTimeOrder, OwnerInv, TimeInv
<1>4. ArenaInv
  BY ConstantFacts DEF Init, ArenaInv, Arenas
<1>5. TailInv
  BY <1>0, ConstantFacts DEF Init, TailInv, NoNode
<1>6. RecordInv
  BY ConstantFacts DEF Init, RecordInv
<1> QED
  BY <1>1, <1>2, <1>3, <1>4, <1>5, <1>6 DEF IInv

\* The steps between Begin's AllocateSlot and the release.
HeldStep(t) ==
  \/ BeginTS(t) \/ Abort(t) \/ CommitStep(t)
  \/ \E k \in Keys : Get(t, k)
  \/ \E k \in Keys, op \in Ops : Write(t, k, op)

LEMMA NextSteps ==
  Next <=> \E t \in Txs : AllocateSlot(t) \/ HeldStep(t) \/ ReleaseSlot(t)
BY DEF Next, HeldStep

\* They move no slot and no arena, and touch the program counter of one transaction only.
LEMMA HeldStepFrame ==
  ASSUME Inv, NEW t \in Txs, HeldStep(t)
  PROVE  /\ UNCHANGED <<freeList, slotOf, sarena, made, pool, before>>
         /\ Holds(t) /\ pc'[t] \notin {"new", "alloc", "done"}
         /\ \A u \in Txs : u # t => pc'[u] = pc[u]
<1>0. pc \in [Txs -> PCs]
  BY DEF Inv, TypeOK
<1>1. CASE BeginTS(t)
  BY <1>0, <1>1 DEF BeginTS, Holds, memVars
<1>2. CASE Abort(t)
  BY <1>0, <1>2 DEF Abort, MayAbort, FinalizeStatus, Holds, memVars, ghosts
<1>3. CASE CommitStep(t)
  <2>1. CASE CommitValidate(t)
    BY <1>0, <2>1 DEF CommitValidate, FinalizeStatus, Holds, memVars, ghosts
  <2>2. CASE CommitTS(t)
    BY <1>0, <2>2 DEF CommitTS, Holds, slotVars, memVars, ghosts
  <2>3. CASE StampKey(t) \/ StampDone(t)
    BY <1>0, <2>3 DEF StampKey, StampDone, Holds, slotVars, memVars, ghosts
  <2>4. CASE WalAppend(t) \/ WalSync(t) \/ WalFail(t)
    BY <1>0, <2>4 DEF WalAppend, WalSync, WalFail, Holds, slotVars, memVars, ghosts
  <2>5. CASE CommitFinalize(t)
    BY <1>0, <2>5 DEF CommitFinalize, FinalizeStatus, Holds, memVars, ghosts
  <2> QED
    BY <1>3, <2>1, <2>2, <2>3, <2>4, <2>5 DEF CommitStep
<1>4. CASE \E k \in Keys : Get(t, k)
  BY <1>0, <1>4 DEF Get, Holds, slotVars, memVars, ghosts
<1>5. CASE \E k \in Keys, op \in Ops : Write(t, k, op)
  BY <1>0, <1>5 DEF Write, Holds
<1> QED
  BY <1>1, <1>2, <1>3, <1>4, <1>5 DEF HeldStep

LEMMA TypeStep == Inv /\ [Next]_vars => TypeOK'
<1> SUFFICES ASSUME Inv, [Next]_vars PROVE TypeOK'
  OBVIOUS
<1>1. CASE UNCHANGED vars
  BY <1>1 DEF Inv, TypeOK, vars, slotVars, memVars, walVars, ghosts
<1>2. ASSUME NEW t \in Txs, AllocateSlot(t) \/ HeldStep(t) \/ ReleaseSlot(t) PROVE TypeOK'
  BY <1>2, TypeAllocate, TypeBeginTS, TypeWrite, TypeCommitTS, TypeStampKey, TypeWal, TypeStatus,
     TypeQuiet, TypeRelease DEF HeldStep, CommitStep
<1> QED
  BY <1>1, <1>2, NextSteps

LEMMA LastIndex ==
  ASSUME NEW n \in Nat \ {0}
  PROVE  1..n = (1..(n - 1)) \cup {n} /\ n \notin 1..(n - 1)
OBVIOUS

\* What AllocateSlot takes: the last free slot, whose arena is 0, and an arena nobody uses.
LEMMA AllocateFacts ==
  ASSUME Inv, NEW t \in Txs, AllocateSlot(t)
  PROVE  \E s \in Slots, a \in Arenas :
           /\ s \in Free /\ Free' = Free \ {s} /\ sarena[s] = 0
           /\ slotOf' = [slotOf EXCEPT ![t] = s]
           /\ sarena' = [sarena EXCEPT ![s] = a]
           /\ \A r \in Slots : sarena[r] # a
           /\ a \notin pool' /\ pool' \subseteq pool /\ a <= made' /\ made <= made'
           /\ stxn' = [stxn EXCEPT ![s] = 0] /\ writeSet' = [writeSet EXCEPT ![s] = <<>>]
<1> DEFINE n == Len(freeList)
           s == freeList[n]
<1>1. freeList \in Seq(Slots) /\ n \in Nat \ {0} /\ DOMAIN freeList = 1..n
  <2>1. freeList \in Seq(Slots) /\ freeList # <<>>
    BY DEF AllocateSlot, Inv, TypeOK
  <2> QED
    BY <2>1
<1>2. s \in Slots /\ s \in Free
  BY <1>1 DEF Free
<1>3. \A i, j \in 1..n : freeList[i] = freeList[j] => i = j
  BY <1>1 DEF Inv, IInv, SlotsPartitioned
<1>4. DOMAIN freeList' = 1..(n - 1) /\ \A i \in 1..(n - 1) : freeList'[i] = freeList[i]
  <2>1. freeList' = SubSeq(freeList, 1, n - 1)
    BY DEF AllocateSlot, PopFree
  <2> QED
    BY <1>1, <2>1
<1>5. Free' = Free \ {s}
  <2>1. Free' = {freeList[i] : i \in 1..(n - 1)}
    BY <1>4 DEF Free
  <2>2. Free = {freeList[i] : i \in 1..n}
    BY <1>1 DEF Free
  <2>3. 1..n = (1..(n - 1)) \cup {n} /\ n \notin 1..(n - 1)
    BY <1>1, LastIndex
  <2> QED
    BY <1>3, <2>1, <2>2, <2>3, Zenon
<1>6. sarena[s] = 0
  BY <1>2 DEF Inv, IInv, ArenasExclusive
<1>7. \E a \in Arenas :
        /\ sarena' = [sarena EXCEPT ![s] = a]
        /\ \A r \in Slots : sarena[r] # a
        /\ a \notin pool' /\ pool' \subseteq pool /\ a <= made' /\ made <= made'
  <2>0. GetArena(s)
    BY DEF AllocateSlot
  <2>1. /\ made \in 0..NumArenas /\ pool \subseteq Arenas /\ sarena \in [Slots -> 0..NumArenas]
        /\ \A r \in Slots : sarena[r] \notin pool /\ sarena[r] <= made
        /\ \A b \in pool : b <= made
    BY DEF Inv, TypeOK, IInv, ArenasExclusive, ArenaInv
  <2>2. CASE \E a \in pool : sarena' = [sarena EXCEPT ![s] = a] /\ pool' = pool \ {a} /\ UNCHANGED made
    <3>1. PICK a \in pool : sarena' = [sarena EXCEPT ![s] = a] /\ pool' = pool \ {a} /\ UNCHANGED made
      BY <2>2
    <3>2. a \in Arenas /\ \A r \in Slots : sarena[r] # a
      BY <2>1
    <3>3. a \notin pool' /\ pool' \subseteq pool /\ a <= made' /\ made <= made'
      BY <2>1, <3>1
    <3> QED
      BY <3>1, <3>2, <3>3, Zenon
  <2>3. CASE /\ made < NumArenas /\ made' = made + 1 /\ UNCHANGED pool
             /\ sarena' = [sarena EXCEPT ![s] = made + 1]
    <3>1. made + 1 \in Arenas
      BY <2>1, <2>3, ConstantFacts DEF Arenas
    <3>2. \A r \in Slots : sarena[r] # made + 1
      BY <2>1, ConstantFacts
    <3>3. made + 1 \notin pool' /\ pool' \subseteq pool /\ made + 1 <= made' /\ made <= made'
      BY <2>1, <2>3, ConstantFacts
    <3> QED
      BY <2>3, <3>1, <3>2, <3>3, Zenon
  <2> QED
    BY <2>0, <2>2, <2>3 DEF GetArena
<1>8. /\ slotOf' = [slotOf EXCEPT ![t] = s]
      /\ stxn' = [stxn EXCEPT ![s] = 0] /\ writeSet' = [writeSet EXCEPT ![s] = <<>>]
  BY DEF AllocateSlot
<1> QED
  BY <1>2, <1>5, <1>6, <1>7, <1>8

\* What ReleaseSlot gives back.
LEMMA ReleaseFacts ==
  ASSUME Inv, NEW t \in Txs, ReleaseSlot(t)
  PROVE  /\ slotOf[t] \in Slots /\ slotOf[t] \notin Free /\ sarena[slotOf[t]] \in Arenas
         /\ Free' = Free \cup {slotOf[t]}
         /\ DOMAIN freeList' = 1..(Len(freeList) + 1) /\ DOMAIN freeList = 1..Len(freeList)
         /\ Len(freeList) \in Nat
         /\ freeList'[Len(freeList) + 1] = slotOf[t]
         /\ \A i \in 1..Len(freeList) : freeList'[i] = freeList[i]
         /\ Holds(t) /\ pc' = [pc EXCEPT ![t] = "done"]
<1>1. Holds(t) /\ pc' = [pc EXCEPT ![t] = "done"]
  BY DEF ReleaseSlot, Holds
<1>2. slotOf[t] \in Slots /\ slotOf[t] \notin Free /\ sarena[slotOf[t]] \in Arenas
  BY <1>1, HeldSlot
<1>3. freeList \in Seq(Slots) /\ freeList' = Append(freeList, slotOf[t])
  BY DEF ReleaseSlot, Inv, TypeOK
<1>4. /\ DOMAIN freeList' = 1..(Len(freeList) + 1) /\ DOMAIN freeList = 1..Len(freeList)
      /\ Len(freeList) \in Nat
  BY <1>2, <1>3
<1>5. /\ freeList'[Len(freeList) + 1] = slotOf[t]
      /\ \A i \in 1..Len(freeList) : freeList'[i] = freeList[i]
  BY <1>2, <1>3
<1>6. Free' = Free \cup {slotOf[t]}
  <2> DEFINE n == Len(freeList) + 1
  <2>1. 1..n = (1..Len(freeList)) \cup {n}
    BY <1>4
  <2>2. Free' = {freeList'[i] : i \in 1..n}
    BY <1>4 DEF Free
  <2>3. Free = {freeList[i] : i \in 1..Len(freeList)}
    BY <1>4 DEF Free
  <2> QED
    BY <1>5, <2>1, <2>2, <2>3, Zenon
<1> QED
  BY <1>1, <1>2, <1>4, <1>5, <1>6

LEMMA PartitionStep == Inv /\ [Next]_vars => SlotsPartitioned'
<1> SUFFICES ASSUME Inv, [Next]_vars PROVE SlotsPartitioned'
  OBVIOUS
<1>0. SlotsPartitioned /\ pc \in [Txs -> PCs] /\ slotOf \in [Txs -> Slots \cup {NoSlot}]
  BY DEF Inv, IInv, TypeOK
<1>1. CASE UNCHANGED vars
  BY <1>0, <1>1 DEF SlotsPartitioned, Free, Holds, vars, slotVars
<1>2. ASSUME NEW t \in Txs, HeldStep(t) PROVE SlotsPartitioned'
  <2>1. UNCHANGED <<freeList, slotOf>> /\ \A u \in Txs : Holds(u)' <=> Holds(u)
    BY <1>2, HeldStepFrame DEF Holds
  <2>2. Free' = Free
    BY <2>1 DEF Free
  <2> QED
    BY <1>0, <2>1, <2>2, Zenon DEF SlotsPartitioned
<1>3. ASSUME NEW t \in Txs, AllocateSlot(t) PROVE SlotsPartitioned'
  <2>1. PICK s \in Slots : s \in Free /\ Free' = Free \ {s} /\ slotOf' = [slotOf EXCEPT ![t] = s]
    BY <1>3, AllocateFacts
  <2>2. /\ \A u \in Txs : Holds(u)' <=> Holds(u) \/ u = t
        /\ ~ Holds(t)
    BY <1>0, <1>3 DEF AllocateSlot, Holds
  <2>3. /\ slotOf'[t] = s
        /\ \A u \in Txs : u # t => slotOf'[u] = slotOf[u]
        /\ \A u \in Txs : Holds(u) => slotOf[u] # s
    BY <1>0, <2>1 DEF SlotsPartitioned
  <2>4. \A i, j \in DOMAIN freeList' : freeList'[i] = freeList'[j] => i = j
    <3>1. freeList \in Seq(Slots) /\ freeList # <<>> /\ freeList' = SubSeq(freeList, 1, Len(freeList) - 1)
      BY <1>3 DEF AllocateSlot, PopFree, Inv, TypeOK
    <3>2. /\ DOMAIN freeList' \subseteq DOMAIN freeList
          /\ \A i \in DOMAIN freeList' : freeList'[i] = freeList[i]
      BY <3>1
    <3> QED
      BY <1>0, <3>2 DEF SlotsPartitioned
  <2>5. \A u, v \in Txs : Holds(u)' /\ Holds(v)' /\ slotOf'[u] = slotOf'[v] => u = v
    BY <1>0, <2>2, <2>3 DEF SlotsPartitioned
  <2>6. \A r \in Slots : r \in Free' <=> ~ \E u \in Txs : Holds(u)' /\ slotOf'[u] = r
    BY <1>0, <2>1, <2>2, <2>3 DEF SlotsPartitioned
  <2> QED
    BY <2>4, <2>5, <2>6 DEF SlotsPartitioned
<1>4. ASSUME NEW t \in Txs, ReleaseSlot(t) PROVE SlotsPartitioned'
  <2>1. slotOf' = slotOf /\ slotOf[t] \in Slots /\ slotOf[t] \notin Free /\ Free' = Free \cup {slotOf[t]}
    BY <1>4, ReleaseFacts DEF ReleaseSlot
  <2>2. Holds(t) /\ \A u \in Txs : Holds(u)' <=> Holds(u) /\ u # t
    BY <1>0, <1>4 DEF ReleaseSlot, Holds
  <2>3. \A i, j \in DOMAIN freeList' : freeList'[i] = freeList'[j] => i = j
    <3> DEFINE n == Len(freeList) + 1
    <3>1. /\ DOMAIN freeList = 1..Len(freeList) /\ freeList'[n] = slotOf[t]
          /\ \A i \in 1..Len(freeList) : freeList'[i] = freeList[i]
      BY <1>4, ReleaseFacts
    <3>2. DOMAIN freeList' = (1..Len(freeList)) \cup {n}
      <4>1. Len(freeList) \in Nat /\ DOMAIN freeList' = 1..n
        BY <1>4, ReleaseFacts
      <4> HIDE DEF n
      <4> QED
        BY <4>1 DEF n
    <3>3. \A i \in 1..Len(freeList) : freeList[i] # slotOf[t]
      BY <2>1, <3>1 DEF Free
    <3> QED
      BY <1>0, <3>1, <3>2, <3>3, Zenon DEF SlotsPartitioned
  <2>4. \A u, v \in Txs : Holds(u)' /\ Holds(v)' /\ slotOf'[u] = slotOf'[v] => u = v
    BY <1>0, <2>1, <2>2, Zenon DEF SlotsPartitioned
  <2>5. \A r \in Slots : r \in Free' <=> ~ \E u \in Txs : Holds(u)' /\ slotOf'[u] = r
    BY <1>0, <2>1, <2>2 DEF SlotsPartitioned
  <2> QED
    BY <2>3, <2>4, <2>5 DEF SlotsPartitioned
<1> QED
  BY <1>1, <1>2, <1>3, <1>4, NextSteps

LEMMA ExclusiveStep == Inv /\ [Next]_vars => ArenasExclusive'
<1> SUFFICES ASSUME Inv, [Next]_vars PROVE ArenasExclusive'
  OBVIOUS
<1>0. ArenasExclusive /\ sarena \in [Slots -> 0..NumArenas] /\ pool \subseteq Arenas
  BY DEF Inv, IInv, TypeOK
<1>1. CASE UNCHANGED vars
  BY <1>0, <1>1 DEF ArenasExclusive, Free, vars, slotVars, memVars
<1>2. ASSUME NEW t \in Txs, HeldStep(t) PROVE ArenasExclusive'
  BY <1>0, <1>2, HeldStepFrame DEF ArenasExclusive, Free
<1>3. ASSUME NEW t \in Txs, AllocateSlot(t) PROVE ArenasExclusive'
  <2>1. PICK s \in Slots, a \in Arenas :
           /\ Free' = Free \ {s} /\ sarena' = [sarena EXCEPT ![s] = a]
           /\ \A r \in Slots : sarena[r] # a
           /\ a \notin pool' /\ pool' \subseteq pool
    BY <1>3, AllocateFacts
  <2>2. a # 0 /\ sarena'[s] = a /\ \A r \in Slots : r # s => sarena'[r] = sarena[r]
    BY <1>0, <2>1 DEF Arenas
  <2> QED
    BY <1>0, <2>1, <2>2 DEF ArenasExclusive
<1>4. ASSUME NEW t \in Txs, ReleaseSlot(t) PROVE ArenasExclusive'
  <2>1. /\ slotOf[t] \in Slots /\ sarena[slotOf[t]] \in Arenas /\ Free' = Free \cup {slotOf[t]}
        /\ sarena' = [sarena EXCEPT ![slotOf[t]] = 0] /\ pool' = pool \cup {sarena[slotOf[t]]}
    BY <1>4, ReleaseFacts DEF ReleaseSlot, PutArena, ClearArena
  <2>2. /\ sarena'[slotOf[t]] = 0 /\ 0 \notin pool'
        /\ \A r \in Slots : r # slotOf[t] => sarena'[r] = sarena[r]
    BY <1>0, <2>1 DEF Arenas
  <2> QED
    BY <1>0, <2>1, <2>2 DEF ArenasExclusive, Arenas
<1> QED
  BY <1>1, <1>2, <1>3, <1>4, NextSteps

LEMMA RealTimeStep == Inv /\ [Next]_vars => RealTimeOrder'
<1> SUFFICES ASSUME Inv, [Next]_vars PROVE RealTimeOrder'
  OBVIOUS
<1>0. /\ RealTimeOrder /\ TimeInv /\ OwnerInv
      /\ pc \in [Txs -> PCs] /\ cts \in [Txs -> 0..MaxTS] /\ bts \in [Txs -> 0..MaxTS]
      /\ before \in [Txs -> SUBSET Txs] /\ txnCounter \in 0..MaxTS
  BY DEF Inv, IInv, TypeOK
<1>1. CASE UNCHANGED <<cts, bts, before>>
  BY <1>0, <1>1 DEF RealTimeOrder
<1>2. ASSUME NEW t \in Txs, AllocateSlot(t) PROVE RealTimeOrder'
  <2>1. bts' = bts /\ cts' = cts /\ bts[t] = 0 /\ \A u \in Txs : u # t => before'[u] = before[u]
    BY <1>0, <1>2 DEF AllocateSlot, OwnerInv
  <2> QED
    BY <1>0, <2>1 DEF RealTimeOrder
<1>3. ASSUME NEW t \in Txs, BeginTS(t) PROVE RealTimeOrder'
  <2>1. /\ bts' = [bts EXCEPT ![t] = txnCounter + 1] /\ UNCHANGED <<cts, before>>
    BY <1>3 DEF BeginTS
  <2>2. \A u \in Txs : cts[u] <= txnCounter
    BY <1>0 DEF TimeInv
  <2>3. \A u \in Txs : cts[u] < txnCounter + 1
    BY <1>0, <2>2, ConstantFacts
  <2> QED
    BY <1>0, <2>1, <2>3 DEF RealTimeOrder
<1>4. ASSUME NEW t \in Txs, CommitTS(t) PROVE RealTimeOrder'
  <2>1. /\ UNCHANGED <<bts, before>> /\ pc[t] = "commitTS"
        /\ \A u \in Txs : u # t => cts'[u] = cts[u]
    BY <1>0, <1>4 DEF CommitTS, ghosts
  <2>2. \A u \in Txs : t \notin before[u]
    BY <1>0, <2>1 DEF TimeInv
  <2> QED
    BY <1>0, <2>1, <2>2 DEF RealTimeOrder
<1>5. ASSUME NEW t \in Txs, HeldStep(t), ~ BeginTS(t), ~ CommitTS(t) PROVE UNCHANGED <<cts, bts, before>>
  BY <1>5 DEF HeldStep, CommitStep, Abort, CommitValidate, StampKey, StampDone, WalAppend, WalSync, WalFail,
     CommitFinalize, Get, Write, ghosts
<1>6. ASSUME NEW t \in Txs, ReleaseSlot(t) PROVE UNCHANGED <<cts, bts, before>>
  BY <1>6 DEF ReleaseSlot, ghosts
<1>7. CASE UNCHANGED vars
  BY <1>1, <1>7 DEF vars, ghosts
<1> QED
  BY <1>1, <1>2, <1>3, <1>4, <1>5, <1>6, <1>7, NextSteps

LEMMA TimeStep == Inv /\ [Next]_vars => TimeInv'
<1> SUFFICES ASSUME Inv, [Next]_vars PROVE TimeInv'
  OBVIOUS
<1>0. /\ TimeInv
      /\ pc \in [Txs -> PCs] /\ cts \in [Txs -> 0..MaxTS] /\ bts \in [Txs -> 0..MaxTS]
      /\ before \in [Txs -> SUBSET Txs] /\ txnCounter \in 0..MaxTS
  BY DEF Inv, IInv, TypeOK
<1> DEFINE ClockMoves ==
         /\ txnCounter <= txnCounter'
         /\ \A u \in Txs : cts'[u] = cts[u] \/ cts'[u] = txnCounter'
         /\ \A u \in Txs : bts'[u] = bts[u] \/ bts'[u] = txnCounter'
<1>1. ClockMoves
  <2>0. UNCHANGED <<txnCounter, cts, bts>> => ClockMoves
    BY <1>0, ConstantFacts
  <2>1. CASE UNCHANGED vars
    BY <2>0, <2>1 DEF vars, ghosts
  <2>2. ASSUME NEW t \in Txs, BeginTS(t) \/ CommitTS(t) PROVE ClockMoves
    BY <1>0, <2>2, ConstantFacts DEF BeginTS, CommitTS, CommitStamp, ghosts
  <2>3. ASSUME NEW t \in Txs, HeldStep(t), ~ BeginTS(t), ~ CommitTS(t) PROVE UNCHANGED <<txnCounter, cts, bts>>
    BY <2>3 DEF HeldStep, CommitStep, Abort, CommitValidate, StampKey, StampDone, WalAppend, WalSync, WalFail,
       CommitFinalize, Get, Write, ghosts
  <2>4. ASSUME NEW t \in Txs, AllocateSlot(t) \/ ReleaseSlot(t) PROVE UNCHANGED <<txnCounter, cts, bts>>
    BY <2>4 DEF AllocateSlot, ReleaseSlot, ghosts
  <2> QED
    BY <2>0, <2>1, <2>2, <2>3, <2>4, NextSteps
<1>2. \A t \in Txs : cts'[t] <= txnCounter' /\ bts'[t] <= txnCounter'
  <2>1. txnCounter' \in 0..MaxTS
    BY TypeStep DEF TypeOK
  <2> QED
    BY <1>0, <1>1, <2>1, ConstantFacts DEF TimeInv
<1>3. \A t \in Txs : \A u \in before'[t] : pc'[u] = "done"
  <2>1. ASSUME NEW u \in Txs, pc[u] = "done" PROVE pc'[u] = "done"
    <3>1. CASE UNCHANGED vars
      BY <2>1, <3>1 DEF vars
    <3>2. ASSUME NEW t \in Txs, HeldStep(t) PROVE pc'[u] = "done"
      BY <2>1, <3>2, HeldStepFrame DEF Holds
    <3>3. ASSUME NEW t \in Txs, AllocateSlot(t) \/ ReleaseSlot(t) PROVE pc'[u] = "done"
      BY <1>0, <2>1, <3>3 DEF AllocateSlot, ReleaseSlot
    <3> QED
      BY <3>1, <3>2, <3>3, NextSteps
  <2>2. ASSUME NEW t \in Txs, NEW u \in before'[t] PROVE u \in Txs /\ pc[u] = "done"
    <3>1. CASE UNCHANGED before
      BY <1>0, <3>1 DEF TimeInv
    <3>2. ASSUME NEW r \in Txs, AllocateSlot(r) PROVE u \in Txs /\ pc[u] = "done"
      <4>1. before' = [before EXCEPT ![r] = {v \in Txs : Acked(v)}]
        BY <3>2 DEF AllocateSlot
      <4>2. u \in before[t] \/ (Acked(u) /\ u \in Txs)
        BY <1>0, <4>1
      <4> QED
        BY <1>0, <4>2 DEF TimeInv, Acked
    <3>3. ASSUME NEW r \in Txs, HeldStep(r) \/ ReleaseSlot(r) PROVE UNCHANGED before
      BY <3>3, HeldStepFrame DEF ReleaseSlot, ghosts
    <3>4. CASE UNCHANGED vars
      BY <3>1, <3>4 DEF vars, ghosts
    <3> QED
      BY <3>1, <3>2, <3>3, <3>4, NextSteps
  <2> QED
    BY <1>0, <2>1, <2>2 DEF TimeInv
<1> QED
  BY <1>2, <1>3 DEF TimeInv

LEMMA OwnerStep == Inv /\ [Next]_vars => OwnerInv'
<1> SUFFICES ASSUME Inv, [Next]_vars PROVE OwnerInv'
  OBVIOUS
<1>0. /\ OwnerInv /\ SlotsPartitioned
      /\ pc \in [Txs -> PCs] /\ bts \in [Txs -> 0..MaxTS] /\ slotOf \in [Txs -> Slots \cup {NoSlot}]
      /\ stxn \in [Slots -> 0..MaxTS] /\ txnCounter \in 0..MaxTS
  BY DEF Inv, IInv, TypeOK
<1>1. CASE UNCHANGED vars
  BY <1>0, <1>1 DEF OwnerInv, Holds, vars, slotVars, ghosts
<1>2. ASSUME NEW t \in Txs, AllocateSlot(t) PROVE OwnerInv'
  <2>1. PICK s \in Slots : s \in Free /\ slotOf' = [slotOf EXCEPT ![t] = s] /\ stxn' = [stxn EXCEPT ![s] = 0]
    BY <1>2, AllocateFacts
  <2>2. pc[t] = "new" /\ pc' = [pc EXCEPT ![t] = "alloc"] /\ bts' = bts
    BY <1>2 DEF AllocateSlot
  <2>3. \A u \in Txs : Holds(u) => slotOf[u] # s
    BY <1>0, <2>1 DEF SlotsPartitioned
  <2>4. ASSUME NEW u \in Txs, u # t
        PROVE  /\ pc'[u] = pc[u] /\ slotOf'[u] = slotOf[u]
               /\ Holds(u) => stxn'[slotOf[u]] = stxn[slotOf[u]]
    <3>1. Holds(u) => slotOf[u] \in Slots
      BY <1>0 DEF OwnerInv
    <3> QED
      BY <1>0, <2>1, <2>2, <2>3, <2>4, <3>1
  <2>5. pc'[t] = "alloc" /\ slotOf'[t] = s
    BY <1>0, <2>1, <2>2
  <2> QED
    BY <1>0, <2>1, <2>2, <2>4, <2>5 DEF OwnerInv, Holds
<1>3. ASSUME NEW t \in Txs, BeginTS(t) PROVE OwnerInv'
  <2>1. /\ pc[t] = "alloc" /\ pc' = [pc EXCEPT ![t] = "open"] /\ slotOf' = slotOf
        /\ bts' = [bts EXCEPT ![t] = txnCounter + 1]
        /\ stxn' = [stxn EXCEPT ![slotOf[t]] = txnCounter + 1]
    BY <1>3 DEF BeginTS
  <2>2. slotOf[t] \in Slots /\ txnCounter + 1 # 0
    BY <1>0, <2>1, ConstantFacts DEF OwnerInv, Holds
  <2>3. ASSUME NEW u \in Txs, u # t
        PROVE  /\ pc'[u] = pc[u] /\ bts'[u] = bts[u]
               /\ Holds(u) => stxn'[slotOf[u]] = stxn[slotOf[u]]
    <3>1. Holds(u) => slotOf[u] \in Slots /\ slotOf[u] # slotOf[t]
      BY <1>0, <2>1, <2>3 DEF OwnerInv, SlotsPartitioned, Holds
    <3> QED
      BY <1>0, <2>1, <2>2, <2>3, <3>1
  <2>4. pc'[t] = "open" /\ bts'[t] = txnCounter + 1 /\ stxn'[slotOf[t]] = txnCounter + 1
    BY <1>0, <2>1, <2>2
  <2> QED
    BY <1>0, <2>1, <2>2, <2>3, <2>4 DEF OwnerInv, Holds
<1>4. ASSUME NEW t \in Txs, HeldStep(t), ~ BeginTS(t) PROVE OwnerInv'
  <2>1. UNCHANGED <<stxn, bts, slotOf>>
    BY <1>4 DEF HeldStep, CommitStep, Abort, CommitValidate, CommitTS, StampKey, StampDone, WalAppend,
       WalSync, WalFail, CommitFinalize, Get, Write, slotVars, ghosts
  <2>2. pc[t] \notin {"new", "alloc", "done"}
    BY <1>4 DEF HeldStep, CommitStep, Abort, MayAbort, CommitValidate, CommitTS, StampKey, StampDone,
       WalAppend, WalSync, WalFail, CommitFinalize, Get, Write
  <2>3. pc'[t] \in {"append", "sync"} => t \in WalTxs
    BY <1>0, <1>4 DEF OwnerInv, HeldStep, CommitStep, Abort, FinalizeStatus, CommitValidate, CommitTS, StampKey,
       StampDone, WalAppend, WalSync, WalFail, CommitFinalize, Get, Write
  <2>4. pc'[t] \notin {"new", "alloc", "done"} /\ \A u \in Txs : u # t => pc'[u] = pc[u]
    BY <1>4, HeldStepFrame
  <2> QED
    BY <1>0, <2>1, <2>2, <2>3, <2>4 DEF OwnerInv, Holds
<1>5. ASSUME NEW t \in Txs, ReleaseSlot(t) PROVE OwnerInv'
  <2>1. /\ pc' = [pc EXCEPT ![t] = "done"] /\ UNCHANGED <<bts, slotOf>>
        /\ stxn' = [stxn EXCEPT ![slotOf[t]] = 0] /\ Holds(t)
    BY <1>5 DEF ReleaseSlot, Holds, ghosts
  <2>2. ASSUME NEW u \in Txs, u # t
        PROVE pc'[u] = pc[u] /\ (Holds(u) => stxn'[slotOf[u]] = stxn[slotOf[u]])
    <3>1. Holds(u) => slotOf[u] \in Slots /\ slotOf[u] # slotOf[t]
      BY <1>0, <2>1, <2>2 DEF OwnerInv, SlotsPartitioned
    <3> QED
      BY <1>0, <2>1, <2>2, <3>1
  <2>3. pc'[t] = "done"
    BY <1>0, <2>1
  <2> QED
    BY <1>0, <2>1, <2>2, <2>3 DEF OwnerInv, Holds
<1> QED
  BY <1>1, <1>2, <1>3, <1>4, <1>5, NextSteps

\* The actions that change no bump offset and no write set.
LEMMA OffsetFrame ==
  ASSUME NEW t \in Txs, HeldStep(t), ~ \E k \in Keys, op \in Ops : Write(t, k, op)
  PROVE  UNCHANGED <<writeSet, youngOff>>
BY DEF HeldStep, BeginTS, CommitStep, Abort, CommitValidate, CommitTS, StampKey, StampDone, WalAppend,
   WalSync, WalFail, CommitFinalize, Get, slotVars, memVars

LEMMA ArenaStep == Inv /\ [Next]_vars => ArenaInv'
<1> SUFFICES ASSUME Inv, [Next]_vars PROVE ArenaInv'
  OBVIOUS
<1>0. /\ ArenaInv /\ ArenasExclusive
      /\ sarena \in [Slots -> 0..NumArenas] /\ youngOff \in [Arenas -> 0..MaxWrites]
      /\ writeSet \in [Slots -> Seq(KeyRange)] /\ made \in 0..NumArenas /\ pool \subseteq Arenas
  BY DEF Inv, IInv, TypeOK
<1>1. CASE UNCHANGED <<sarena, youngOff, writeSet, made, pool>>
  BY <1>0, <1>1 DEF ArenaInv
<1>2. CASE UNCHANGED vars
  BY <1>1, <1>2 DEF vars, slotVars, memVars
<1>3. ASSUME NEW t \in Txs, HeldStep(t), ~ \E k \in Keys, op \in Ops : Write(t, k, op)
      PROVE  ArenaInv'
  BY <1>1, <1>3, OffsetFrame, HeldStepFrame
<1>4. ASSUME NEW t \in Txs, AllocateSlot(t) PROVE ArenaInv'
  <2>1. PICK s \in Slots, a \in Arenas :
           /\ sarena[s] = 0 /\ sarena' = [sarena EXCEPT ![s] = a]
           /\ \A r \in Slots : sarena[r] # a
           /\ pool' \subseteq pool /\ a <= made' /\ made <= made'
           /\ writeSet' = [writeSet EXCEPT ![s] = <<>>]
    BY <1>4, AllocateFacts
  <2>2. /\ sarena'[s] = a /\ writeSet'[s] = <<>> /\ youngOff' = youngOff
        /\ \A r \in Slots : r # s => sarena'[r] = sarena[r] /\ writeSet'[r] = writeSet[r]
    BY <1>0, <1>4, <2>1 DEF AllocateSlot
  <2>3. youngOff[a] = 0 /\ a # 0
    BY <1>0, <2>1 DEF ArenaInv, Arenas
  <2>4. \A r \in Slots : sarena'[r] # 0 => youngOff'[sarena'[r]] = Len(writeSet'[r])
    BY <1>0, <2>2, <2>3 DEF ArenaInv
  <2>5. \A b \in Arenas : (\A r \in Slots : sarena'[r] # b) => youngOff'[b] = 0
    BY <1>0, <2>1, <2>2 DEF ArenaInv, Arenas
  <2>6. /\ \A r \in Slots : sarena'[r] <= made'
        /\ \A b \in pool' : b <= made'
    <3>1. made' \in 0..NumArenas
      BY TypeStep DEF TypeOK
    <3> QED
      BY <1>0, <2>1, <2>2, <3>1, ConstantFacts DEF ArenaInv, Arenas
  <2> QED
    BY <2>4, <2>5, <2>6 DEF ArenaInv
<1>5. ASSUME NEW t \in Txs, NEW k \in Keys, NEW op \in Ops, Write(t, k, op) PROVE ArenaInv'
  <2> DEFINE s == slotOf[t]
             a == sarena[s]
  <2>1. s \in Slots /\ a \in Arenas /\ a # 0
    BY <1>5, HeldSlot DEF Write, Holds, Arenas
  <2>2. /\ UNCHANGED <<sarena, made, pool>>
        /\ youngOff' = [youngOff EXCEPT ![a] = @ + 1]
        /\ writeSet' = [writeSet EXCEPT ![s] = Append(@, [start |-> k, end |-> 0])]
    BY <1>5 DEF Write
  <2>3. [start |-> k, end |-> 0] \in KeyRange /\ writeSet[s] \in Seq(KeyRange)
    BY <1>0, <2>1 DEF KeyRange
  <2>4. Len(Append(writeSet[s], [start |-> k, end |-> 0])) = Len(writeSet[s]) + 1
    BY <2>3
  <2>5. /\ youngOff'[a] = youngOff[a] + 1 /\ Len(writeSet'[s]) = Len(writeSet[s]) + 1
        /\ \A b \in Arenas : b # a => youngOff'[b] = youngOff[b]
        /\ \A r \in Slots : r # s => writeSet'[r] = writeSet[r]
    BY <1>0, <2>1, <2>2, <2>4
  <2>6. \A r \in Slots : sarena[r] # 0 => sarena[r] \in Arenas /\ (r # s => sarena[r] # a)
    BY <1>0, <2>1 DEF ArenasExclusive, Arenas
  <2>7. \A r \in Slots : sarena'[r] # 0 => youngOff'[sarena'[r]] = Len(writeSet'[r])
    BY <1>0, <2>1, <2>2, <2>5, <2>6 DEF ArenaInv
  <2>8. \A b \in Arenas : (\A r \in Slots : sarena'[r] # b) => youngOff'[b] = 0
    BY <1>0, <2>1, <2>2, <2>5 DEF ArenaInv
  <2> QED
    BY <1>0, <2>2, <2>7, <2>8 DEF ArenaInv
<1>6. ASSUME NEW t \in Txs, ReleaseSlot(t) PROVE ArenaInv'
  <2> DEFINE s == slotOf[t]
             a == sarena[s]
  <2>1. s \in Slots /\ a \in Arenas /\ a # 0
    BY <1>6, ReleaseFacts DEF Arenas
  <2>2. /\ sarena' = [sarena EXCEPT ![s] = 0] /\ youngOff' = [youngOff EXCEPT ![a] = 0]
        /\ writeSet' = [writeSet EXCEPT ![s] = <<>>] /\ pool' = pool \cup {a} /\ made' = made
    BY <1>6 DEF ReleaseSlot, PutArena, ClearArena
  <2>3. /\ sarena'[s] = 0 /\ youngOff'[a] = 0
        /\ \A b \in Arenas : b # a => youngOff'[b] = youngOff[b]
        /\ \A r \in Slots : r # s => sarena'[r] = sarena[r] /\ writeSet'[r] = writeSet[r]
    BY <1>0, <2>1, <2>2
  <2>4. \A r \in Slots : sarena[r] # 0 => sarena[r] \in Arenas /\ (r # s => sarena[r] # a)
    BY <1>0, <2>1 DEF ArenasExclusive, Arenas
  <2>5. \A r \in Slots : sarena'[r] # 0 => youngOff'[sarena'[r]] = Len(writeSet'[r])
    <3>1. ASSUME NEW r \in Slots, sarena'[r] # 0 PROVE youngOff'[sarena'[r]] = Len(writeSet'[r])
      <4>1. r # s
        BY <2>3, <3>1
      <4>2. sarena'[r] = sarena[r] /\ writeSet'[r] = writeSet[r]
        BY <2>3, <4>1
      <4>3. sarena[r] \in Arenas /\ sarena[r] # a /\ youngOff[sarena[r]] = Len(writeSet[r])
        BY <1>0, <2>4, <3>1, <4>1, <4>2 DEF ArenaInv
      <4> QED
        BY <2>3, <4>2, <4>3
    <3> QED
      BY <3>1
  <2>6. \A b \in Arenas : (\A r \in Slots : sarena'[r] # b) => youngOff'[b] = 0
    <3>1. ASSUME NEW b \in Arenas, \A r \in Slots : sarena'[r] # b, b # a PROVE youngOff'[b] = 0
      <4>1. \A r \in Slots : sarena[r] # b
        BY <2>3, <3>1
      <4>2. youngOff[b] = 0
        BY <1>0, <4>1 DEF ArenaInv
      <4> QED
        BY <2>3, <3>1, <4>2
    <3> QED
      BY <2>3, <3>1
  <2>7. (\A r \in Slots : sarena'[r] <= made') /\ (\A b \in pool' : b <= made')
    BY <1>0, <2>1, <2>2, <2>3, ConstantFacts DEF ArenaInv
  <2> QED
    BY <2>5, <2>6, <2>7 DEF ArenaInv
<1> QED
  BY <1>2, <1>3, <1>4, <1>5, <1>6, NextSteps

LEMMA TailStep == Inv /\ [Next]_vars => TailInv'
<1> SUFFICES ASSUME Inv, [Next]_vars PROVE TailInv'
  OBVIOUS
<1>0. /\ TailInv /\ ArenasExclusive /\ OwnerInv /\ SlotsPartitioned /\ TimeInv
      /\ pc \in [Txs -> PCs] /\ bts \in [Txs -> 0..MaxTS] /\ txnCounter \in 0..MaxTS
      /\ sarena \in [Slots -> 0..NumArenas] /\ youngOff \in [Arenas -> 0..MaxWrites]
      /\ node \in [Addr -> NodeType] /\ slotOf \in [Txs -> Slots \cup {NoSlot}]
  BY DEF Inv, IInv, TypeOK
\* The arena of a transaction is carved by nobody else.
<1>1. ASSUME NEW u \in Txs, NEW t \in Txs, u # t, Holds(u), Holds(t)
      PROVE  /\ slotOf[u] \in Slots /\ sarena[slotOf[u]] \in Arenas
             /\ slotOf[u] # slotOf[t] /\ sarena[slotOf[u]] # sarena[slotOf[t]]
  <2>1. slotOf[u] \in Slots /\ sarena[slotOf[u]] \in Arenas /\ slotOf[t] \in Slots
    BY <1>1, HeldSlot
  <2>2. slotOf[u] # slotOf[t]
    BY <1>0, <1>1 DEF SlotsPartitioned
  <2> QED
    BY <1>0, <2>1, <2>2 DEF ArenasExclusive, Arenas
<1>2. CASE UNCHANGED vars
  BY <1>0, <1>2 DEF TailInv, Holds, vars, slotVars, memVars, ghosts
<1>3. ASSUME NEW t \in Txs, AllocateSlot(t) PROVE TailInv'
  <2>1. PICK s \in Slots, a \in Arenas :
           s \in Free /\ slotOf' = [slotOf EXCEPT ![t] = s] /\ sarena' = [sarena EXCEPT ![s] = a]
    BY <1>3, AllocateFacts
  <2>2. pc' = [pc EXCEPT ![t] = "alloc"] /\ UNCHANGED <<txnCounter, node, youngOff, bts>>
    BY <1>3 DEF AllocateSlot
  <2>3. pc'[t] = "alloc" /\ \A u \in Txs : u # t => pc'[u] = pc[u] /\ slotOf'[u] = slotOf[u]
    BY <1>0, <2>1, <2>2
  <2>4. \A u \in Txs : Holds(u) => slotOf[u] \in Slots /\ slotOf[u] # s
    BY <1>0, <2>1 DEF SlotsPartitioned, OwnerInv
  <2>5. \A u \in Txs : u # t /\ Holds(u) => sarena'[slotOf'[u]] = sarena[slotOf[u]]
    BY <1>0, <2>1, <2>3, <2>4
  <2> QED
    BY <1>0, <2>2, <2>3, <2>5 DEF TailInv, Holds
<1>4. ASSUME NEW t \in Txs, BeginTS(t) PROVE TailInv'
  <2>1. /\ pc' = [pc EXCEPT ![t] = "open"] /\ txnCounter' = txnCounter + 1
        /\ bts' = [bts EXCEPT ![t] = txnCounter + 1]
        /\ UNCHANGED <<sarena, slotOf, node, youngOff>>
    BY <1>4 DEF BeginTS, memVars
  <2>2. \A a \in Addr : node[a].txnID < txnCounter + 1 /\ node[a].txnID <= txnCounter + 1
    <3>1. \A a \in Addr : node[a].txnID \in 0..MaxTS /\ node[a].txnID <= txnCounter
      BY <1>0 DEF NodeType, TailInv
    <3> QED
      BY <1>0, <3>1, ConstantFacts
  <2>3. bts'[t] = txnCounter + 1 /\ \A u \in Txs : u # t => pc'[u] = pc[u] /\ bts'[u] = bts[u]
    BY <1>0, <2>1
  <2> QED
    BY <1>0, <2>1, <2>2, <2>3 DEF TailInv, Holds
<1>5. ASSUME NEW t \in Txs, NEW k \in Keys, NEW op \in Ops, Write(t, k, op) PROVE TailInv'
  <2> DEFINE s == slotOf[t]
             a == sarena[s]
             at == Alloc(a)
  <2>1. Holds(t) /\ pc[t] = "open" /\ s \in Slots /\ a \in Arenas
    BY <1>5, HeldSlot DEF Write, Holds
  <2>2. /\ UNCHANGED <<pc, txnCounter, sarena, slotOf, bts>>
        /\ youngOff' = [youngOff EXCEPT ![a] = @ + 1]
        /\ \A b \in Addr : b # at => node'[b] = node[b]
    BY <1>0, <1>5 DEF Write
  <2>3. at \in Addr => node'[at].txnID = stxn[s]
    BY <1>0, <1>5 DEF Write
  <2>4. stxn[s] = bts[t] /\ bts[t] <= txnCounter
    BY <1>0, <2>1 DEF OwnerInv, TimeInv
  <2>5. at[1] = a /\ at[2] = youngOff[a] + 1
    BY DEF Alloc
  <2>6. youngOff'[a] = youngOff[a] + 1 /\ \A b \in Arenas : b # a => youngOff'[b] = youngOff[b]
    BY <1>0, <2>1, <2>2
  <2>7. \A b \in Addr : node'[b].txnID <= txnCounter'
    BY <1>0, <2>2, <2>3, <2>4 DEF TailInv
  <2>8. ASSUME NEW u \in Txs, Holds(u)', pc'[u] # "alloc", NEW b \in Addr,
               b[1] = sarena'[slotOf'[u]], b[2] > youngOff'[b[1]]
        PROVE  node'[b].txnID < bts'[u]
    <3>1. Holds(u) /\ pc[u] # "alloc" /\ b[1] = sarena[slotOf[u]]
      BY <2>2, <2>8 DEF Holds
    <3>2. CASE u = t
      <4>1. b[1] = a /\ b[2] > youngOff[a] + 1 /\ youngOff[a] \in Nat /\ b[2] \in Nat
        BY <1>0, <2>1, <2>6, <2>8, <3>1, <3>2, ConstantFacts DEF Addr
      <4>2. b # at /\ b[2] > youngOff[b[1]]
        BY <2>5, <4>1
      <4> QED
        BY <1>0, <2>2, <3>1, <4>2 DEF TailInv
    <3>3. CASE u # t
      <4>1. b[1] # a /\ b[1] \in Arenas
        BY <1>1, <2>1, <3>1, <3>3
      <4>2. b # at /\ b[2] > youngOff[b[1]]
        BY <2>5, <2>6, <2>8, <4>1
      <4> QED
        BY <1>0, <2>2, <3>1, <4>2 DEF TailInv
    <3> QED
      BY <3>2, <3>3
  <2> QED
    BY <2>7, <2>8 DEF TailInv
<1>6. ASSUME NEW t \in Txs, HeldStep(t), ~ BeginTS(t), ~ \E k \in Keys, op \in Ops : Write(t, k, op)
      PROVE  TailInv'
  <2>1. UNCHANGED <<youngOff, sarena, slotOf, bts>>
    BY <1>6, OffsetFrame, HeldStepFrame DEF HeldStep, CommitStep, Abort, CommitValidate, CommitTS, StampKey,
       StampDone, WalAppend, WalSync, WalFail, CommitFinalize, Get, ghosts
  <2>2. \A a \in Addr : node'[a].txnID = node[a].txnID
    <3>1. CASE StampKey(t)
      <4>1. \A a \in Addr : node'[a] = node[a] \/ node'[a] = VersionCommit(a, cts[t])
        BY <3>1 DEF StampKey
      <4>2. \A a \in Addr : VersionCommit(a, cts[t]).txnID = node[a].txnID
        BY <1>0 DEF VersionCommit, NodeType
      <4> QED
        BY <4>1, <4>2
    <3>2. CASE ~ StampKey(t)
      <4>1. node' = node
        BY <1>6, <3>2 DEF HeldStep, CommitStep, Abort, CommitValidate, CommitTS, StampDone, WalAppend,
           WalSync, WalFail, CommitFinalize, Get, memVars
      <4> QED
        BY <4>1
    <3> QED
      BY <3>1, <3>2
  <2>3. txnCounter <= txnCounter' /\ txnCounter' \in 0..MaxTS
    <3>1. txnCounter' = txnCounter \/ txnCounter' = txnCounter + 1
      BY <1>6 DEF HeldStep, CommitStep, Abort, CommitValidate, CommitTS, StampKey, StampDone, WalAppend,
         WalSync, WalFail, CommitFinalize, Get
    <3>2. txnCounter' \in 0..MaxTS
      BY TypeStep DEF TypeOK
    <3> QED
      BY <1>0, <3>1, <3>2, ConstantFacts
  <2>4. pc[t] # "alloc" /\ Holds(t) /\ \A u \in Txs : u # t => pc'[u] = pc[u]
    <3>1. pc[t] # "alloc"
      BY <1>6 DEF HeldStep, CommitStep, Abort, MayAbort, CommitValidate, CommitTS, StampKey, StampDone,
         WalAppend, WalSync, WalFail, CommitFinalize, Get
    <3> QED
      BY <1>6, <3>1, HeldStepFrame
  <2>5. \A a \in Addr : node[a].txnID \in 0..MaxTS /\ node[a].txnID <= txnCounter
    BY <1>0 DEF NodeType, TailInv
  <2>6. \A a \in Addr : node'[a].txnID <= txnCounter'
    BY <1>0, <2>2, <2>3, <2>5, ConstantFacts
  <2>7. \A u \in Txs : Holds(u)' /\ pc'[u] # "alloc" => Holds(u) /\ pc[u] # "alloc"
    BY <2>4 DEF Holds
  <2> QED
    BY <1>0, <2>1, <2>2, <2>6, <2>7 DEF TailInv
<1>7. ASSUME NEW t \in Txs, ReleaseSlot(t) PROVE TailInv'
  <2> DEFINE s == slotOf[t]
             a == sarena[s]
  <2>1. /\ UNCHANGED <<txnCounter, node, slotOf, bts>> /\ pc' = [pc EXCEPT ![t] = "done"]
        /\ sarena' = [sarena EXCEPT ![s] = 0] /\ youngOff' = [youngOff EXCEPT ![a] = 0]
    BY <1>7 DEF ReleaseSlot, PutArena, ClearArena, ghosts
  <2>2. Holds(t) /\ pc'[t] = "done" /\ \A u \in Txs : u # t => pc'[u] = pc[u]
    BY <1>0, <1>7, <2>1 DEF ReleaseSlot, Holds
  <2>3. ASSUME NEW u \in Txs, Holds(u)'
        PROVE  /\ Holds(u) /\ pc'[u] = pc[u] /\ sarena'[slotOf'[u]] = sarena[slotOf[u]]
               /\ youngOff'[sarena[slotOf[u]]] = youngOff[sarena[slotOf[u]]]
    <3>1. u # t /\ Holds(u) /\ pc'[u] = pc[u]
      BY <2>2, <2>3 DEF Holds
    <3>2. /\ slotOf[u] \in Slots /\ sarena[slotOf[u]] \in Arenas
          /\ slotOf[u] # s /\ sarena[slotOf[u]] # a
      BY <1>1, <2>2, <3>1
    <3> QED
      BY <1>0, <2>1, <3>1, <3>2
  <2> QED
    BY <1>0, <2>1, <2>3 DEF TailInv
<1> QED
  BY <1>2, <1>3, <1>4, <1>5, <1>6, <1>7, NextSteps

InLog(u)   == Recorded(u, Len(log))
Durable(u) == Recorded(u, synced)
RecordedFor(u) ==
  /\ pc[u] = "sync" => InLog(u)
  /\ pc[u] = "finalize" => Durable(u)
  /\ pc[u] \in {"release", "done"} /\ phase[u] = "PostCommit" => Durable(u)

LEMMA RecordParts ==
  RecordInv <=> (\A u \in WalTxs : RecordedFor(u)) /\ \A i \in DOMAIN log : pc[log[i].tx] # "new"
BY DEF RecordInv, RecordedFor, InLog, Durable

LEMMA RecordPartsNext ==
  RecordInv' <=> (\A u \in WalTxs : RecordedFor(u)') /\ \A i \in DOMAIN log' : pc'[log'[i].tx] # "new"
BY DEF RecordInv, RecordedFor, InLog, Durable

LEMMA RecordStep == Inv /\ [Next]_vars => RecordInv'
<1> SUFFICES ASSUME Inv, [Next]_vars PROVE RecordInv'
  OBVIOUS
<1> DEFINE Entries == [tx : WalTxs, ts : 0..MaxTS]
<1>0. /\ RecordInv /\ OwnerInv /\ pc \in [Txs -> PCs] /\ phase \in [Txs -> Phases]
      /\ cts \in [Txs -> 0..MaxTS] /\ log \in Seq(Entries) /\ synced \in 0..Len(log)
      /\ Len(log) \in Nat /\ DOMAIN log = 1..Len(log)
  <2>1. log \in Seq(Entries)
    BY DEF Inv, TypeOK
  <2>2. Len(log) \in Nat /\ DOMAIN log = 1..Len(log)
    BY <2>1
  <2> QED
    BY <2>1, <2>2 DEF Inv, IInv, TypeOK
<1>1. \A i \in 1..Len(log) : log[i].tx \in WalTxs
  <2>0. log \in Seq(Entries)
    BY <1>0
  <2> HIDE DEF Entries
  <2>1. \A i \in 1..Len(log) : log[i] \in Entries
    BY <2>0
  <2>2. \A e \in Entries : e.tx \in WalTxs
    BY DEF Entries
  <2> QED
    BY <2>1, <2>2
\* A step leaves alone what is recorded for the other transactions.
<1>2. ASSUME NEW t \in Txs, log' = log, synced' \in {synced, Len(log)},
             \A u \in Txs : u # t => pc'[u] = pc[u] /\ cts'[u] = cts[u] /\ phase'[u] = phase[u],
             pc'[t] # "new",
             t \in WalTxs => /\ pc'[t] # "sync"
                             /\ pc'[t] = "finalize" => Durable(t)'
                             /\ pc'[t] \in {"release", "done"} /\ phase'[t] = "PostCommit"
                                  => Durable(t)'
      PROVE RecordInv'
  <2>1. synced \in 0..Len(log) /\ synced' \in 0..Len(log) /\ \A i \in 1..synced : i \in 1..synced'
    BY <1>0, <1>2
  <2>2. \A u \in WalTxs : u # t => (Durable(u) => Durable(u)') /\ (InLog(u) => InLog(u)')
    BY <1>2, <2>1, ConstantFacts DEF Recorded, InLog, Durable
  <2>3. \A i \in DOMAIN log' : pc'[log'[i].tx] # "new"
    BY <1>0, <1>1, <1>2, ConstantFacts DEF RecordInv
  <2>4. ASSUME NEW u \in WalTxs, u # t PROVE RecordedFor(u)'
    <3>1. RecordedFor(u) /\ u \in Txs
      BY <1>0, ConstantFacts, RecordParts
    <3>2. pc'[u] = pc[u] /\ phase'[u] = phase[u]
      BY <1>2, <2>4, <3>1
    <3> QED
      BY <2>2, <2>4, <3>1, <3>2 DEF RecordedFor
  <2>5. t \in WalTxs => RecordedFor(t)'
    BY <1>2 DEF RecordedFor
  <2> QED
    BY <2>3, <2>4, <2>5, RecordPartsNext
<1>3. CASE UNCHANGED vars
  BY <1>0, <1>3 DEF RecordInv, Recorded, vars, walVars
<1>4. ASSUME NEW t \in Txs, AllocateSlot(t) \/ BeginTS(t) \/ Abort(t) PROVE RecordInv'
  <2>1. /\ UNCHANGED <<log, synced, cts>>
        /\ \A u \in Txs : u # t => pc'[u] = pc[u] /\ phase'[u] = phase[u]
        /\ pc'[t] \in {"alloc", "open", "release"} /\ (pc'[t] = "release" => phase'[t] = "Aborted")
    BY <1>0, <1>4 DEF AllocateSlot, BeginTS, Abort, MayAbort, FinalizeStatus, walVars
  <2> QED
    BY <1>2, <2>1
<1>5. ASSUME NEW t \in Txs, (\E k \in Keys : Get(t, k)) \/ \E k \in Keys, op \in Ops : Write(t, k, op)
      PROVE  RecordInv'
  <2>1. /\ UNCHANGED <<log, synced, cts>>
        /\ \A u \in Txs : u # t => pc'[u] = pc[u] /\ phase'[u] = phase[u]
        /\ pc'[t] \in {"open", "spin"}
    BY <1>0, <1>5 DEF Get, Write, walVars
  <2> QED
    BY <1>2, <2>1
<1>6. ASSUME NEW t \in Txs, CommitValidate(t) \/ CommitTS(t) \/ StampKey(t) \/ WalFail(t) PROVE RecordInv'
  <2>1. /\ UNCHANGED <<log, synced>>
        /\ \A u \in Txs : u # t => pc'[u] = pc[u] /\ phase'[u] = phase[u] /\ cts'[u] = cts[u]
        /\ pc'[t] \in {"open", "spin", "commitTS", "stamp", "release"}
        /\ pc'[t] = "release" => phase'[t] = "Aborted"
    BY <1>0, <1>6 DEF CommitValidate, CommitTS, StampKey, WalFail, FinalizeStatus, walVars
  <2> QED
    BY <1>2, <2>1
<1>7. ASSUME NEW t \in Txs, StampDone(t) PROVE RecordInv'
  <2>1. /\ UNCHANGED <<log, synced, cts, phase>>
        /\ \A u \in Txs : u # t => pc'[u] = pc[u]
        /\ pc'[t] \in {"append", "finalize"} /\ (t \in WalTxs => pc'[t] = "append")
    BY <1>0, <1>7 DEF StampDone, walVars
  <2> QED
    BY <1>2, <2>1
<1>8. ASSUME NEW t \in Txs, WalAppend(t) PROVE RecordInv'
  <2> DEFINE e == [tx |-> t, ts |-> cts[t]]
  <2>1. /\ log' = Append(log, e) /\ UNCHANGED <<synced, cts, phase>> /\ t \in WalTxs
        /\ pc' = [pc EXCEPT ![t] = "sync"]
    BY <1>0, <1>8 DEF WalAppend, OwnerInv
  <2>2. /\ Len(log') = Len(log) + 1 /\ log'[Len(log) + 1] = e /\ DOMAIN log' = 1..(Len(log) + 1)
        /\ \A i \in 1..Len(log) : log'[i] = log[i]
    <3>1. e \in Entries
      BY <1>0, <2>1, ConstantFacts
    <3> QED
      BY <1>0, <2>1, <3>1
  <2>3. /\ \A i \in 1..Len(log) : i \in 1..Len(log')
        /\ \A i \in 1..synced : i \in 1..Len(log)
        /\ Len(log) + 1 \in 1..Len(log')
    BY <1>0, <2>2
  <2>4. InLog(t)'
    BY <2>1, <2>2, <2>3 DEF Recorded, InLog, Durable
  <2>5. \A u \in WalTxs : (Durable(u) => Durable(u)') /\ (InLog(u) => InLog(u)')
    BY <2>1, <2>2, <2>3 DEF Recorded, InLog, Durable
  <2>6. \A i \in DOMAIN log' : pc'[log'[i].tx] # "new"
    <3>1. ASSUME NEW i \in 1..Len(log) PROVE pc'[log'[i].tx] # "new"
      BY <1>0, <1>1, <2>1, <2>2, ConstantFacts DEF RecordInv
    <3>2. pc'[log'[Len(log) + 1].tx] # "new"
      BY <1>0, <2>1, <2>2
    <3>3. DOMAIN log' = (1..Len(log)) \cup {Len(log) + 1}
      BY <1>0, <2>2
    <3> QED
      BY <3>1, <3>2, <3>3
  <2>7. pc'[t] = "sync" /\ \A u \in Txs : u # t => pc'[u] = pc[u]
    BY <1>0, <2>1
  <2>8. ASSUME NEW u \in WalTxs, u # t PROVE RecordedFor(u)'
    <3>1. RecordedFor(u) /\ u \in Txs
      BY <1>0, ConstantFacts, RecordParts
    <3>2. pc'[u] = pc[u] /\ phase'[u] = phase[u]
      BY <2>1, <2>7, <2>8, <3>1
    <3> QED
      BY <2>5, <2>8, <3>1, <3>2 DEF RecordedFor
  <2>9. RecordedFor(t)'
    BY <2>4, <2>7 DEF RecordedFor
  <2> QED
    BY <2>6, <2>8, <2>9, RecordPartsNext
<1>9. ASSUME NEW t \in Txs, WalSync(t) PROVE RecordInv'
  <2>1. /\ UNCHANGED <<log, cts, phase>> /\ synced' = Len(log) /\ pc[t] = "sync"
        /\ pc'[t] = "finalize" /\ \A u \in Txs : u # t => pc'[u] = pc[u]
    BY <1>0, <1>9 DEF WalSync, SyncLog
  <2>2. t \in WalTxs => Durable(t)'
    BY <1>0, <2>1 DEF RecordInv, Recorded, InLog, Durable
  <2> QED
    BY <1>2, <2>1, <2>2
<1>10. ASSUME NEW t \in Txs, CommitFinalize(t) \/ ReleaseSlot(t) PROVE RecordInv'
  <2>1. /\ UNCHANGED <<log, synced, cts>> /\ pc[t] \in {"finalize", "release"}
        /\ pc'[t] \in {"release", "done"}
        /\ pc[t] = "release" => phase'[t] = phase[t]
        /\ \A u \in Txs : u # t => pc'[u] = pc[u] /\ phase'[u] = phase[u]
    BY <1>0, <1>10 DEF CommitFinalize, ReleaseSlot, FinalizeStatus, walVars
  <2>2. t \in WalTxs /\ phase'[t] = "PostCommit" => Durable(t)'
    BY <1>0, <2>1 DEF RecordInv, Recorded, InLog, Durable
  <2> QED
    BY <1>2, <2>1, <2>2
<1> QED
  BY <1>3, <1>4, <1>5, <1>6, <1>7, <1>8, <1>9, <1>10, NextSteps DEF HeldStep, CommitStep

(***************************************************************************)
(* The theorems                                                             *)
(***************************************************************************)

\* Inv holds initially and is preserved by every step.
LEMMA InvInductive == (Init => Inv) /\ (Inv /\ [Next]_vars => Inv')
BY TypeInit, IInvInit, TypeStep, PartitionStep, ExclusiveStep, RealTimeStep, OwnerStep, ArenaStep,
   TailStep, RecordStep, TimeStep DEF Inv, IInv

LEMMA Invariance == Spec => []Inv
BY InvInductive, PTL DEF Spec

\* Every variable keeps its type.
THEOREM TypeCorrect == Spec => []TypeOK
BY Invariance, PTL DEF Inv

\* Whatever the interleaving of Begin, the failing paths of Commit, retries and aborts, the
\* slot pool stays a partition between the free list and the transactions that hold a slot.
THEOREM SlotsStayPartitioned == Spec => []SlotsPartitioned
<1>1. Inv => SlotsPartitioned
  BY DEF Inv, IInv
<1> QED
  BY <1>1, Invariance, PTL

\* No arena is used by two live transactions, or by one while it is in the sync.Pool.
THEOREM ArenasStayExclusive == Spec => []ArenasExclusive
<1>1. Inv => ArenasExclusive
  BY DEF Inv, IInv
<1> QED
  BY <1>1, Invariance, PTL

\* A Commit that returned nil with a WAL attached has its record in the durable log.
THEOREM AcknowledgedIsDurable == Spec => []AckedDurable
<1>1. Inv => AckedDurable
  BY ConstantFacts DEF Inv, IInv, RecordInv, AckedDurable, Acked, Recorded
<1> QED
  BY <1>1, Invariance, PTL

\* Timestamps follow real time although slot and timestamp are taken in two steps.
THEOREM TimestampsFollowRealTime == Spec => []RealTimeOrder
<1>1. Inv => RealTimeOrder
  BY DEF Inv, IInv
<1> QED
  BY <1>1, Invariance, PTL

\* Only a Write can change whose node an address holds, and then to another transaction's
\* (TailInv); a stamping CAS leaves a stamped node as it is.
LEMMA StampStep ==
  Inv /\ [Next]_vars =>
    [\A a \in Addr : node'[a].txnID = node[a].txnID /\ node[a].endTS # MaxU64
                        => node'[a].endTS = node[a].endTS]_node
<1> SUFFICES ASSUME Inv, [Next]_vars, NEW a \in Addr,
                    node'[a].txnID = node[a].txnID, node[a].endTS # MaxU64, node' # node
             PROVE  node'[a].endTS = node[a].endTS
  OBVIOUS
<1>0. /\ TailInv /\ OwnerInv /\ bts \in [Txs -> 0..MaxTS] /\ node \in [Addr -> NodeType]
  BY DEF Inv, IInv, TypeOK
<1>1. ASSUME NEW t \in Txs, StampKey(t) PROVE node'[a].endTS = node[a].endTS
  <2>1. node'[a] = node[a] \/ node'[a] = VersionCommit(a, cts[t])
    BY <1>1 DEF StampKey
  <2> QED
    BY <2>1 DEF VersionCommit
<1>2. ASSUME NEW t \in Txs, NEW k \in Keys, NEW op \in Ops, Write(t, k, op)
      PROVE  node'[a].endTS = node[a].endTS
  <2> DEFINE s == slotOf[t]
             at == Alloc(sarena[s])
  <2>1. /\ \A b \in Addr : b # at => node'[b] = node[b]
        /\ at \in Addr => node'[at].txnID = stxn[s]
    BY <1>0, <1>2 DEF Write
  <2>2. Holds(t) /\ pc[t] = "open" /\ stxn[s] = bts[t] /\ sarena[s] \in Arenas
    BY <1>0, <1>2, HeldSlot DEF Write, Holds, OwnerInv
  <2>3. at[1] = sarena[s] /\ at[2] = youngOff[at[1]] + 1 /\ youngOff[at[1]] \in Nat
    BY <2>2, ConstantFacts DEF Alloc, Inv, TypeOK
  <2>4. at \in Addr => node[at].txnID < bts[t]
    BY <1>0, <2>2, <2>3 DEF TailInv
  <2>5. node[a].txnID \in Nat /\ bts[t] \in Nat
    BY <1>0, ConstantFacts DEF NodeType
  <2>6. a # at
    BY <2>1, <2>2, <2>4, <2>5
  <2> QED
    BY <2>1, <2>6
<1>3. ASSUME NEW t \in Txs, AllocateSlot(t) \/ HeldStep(t) \/ ReleaseSlot(t), ~ StampKey(t),
             ~ \E k \in Keys, op \in Ops : Write(t, k, op)
      PROVE  node' = node
  BY <1>3 DEF AllocateSlot, ReleaseSlot, HeldStep, BeginTS, CommitStep, Abort, CommitValidate, CommitTS,
     StampDone, WalAppend, WalSync, WalFail, CommitFinalize, Get, memVars
<1>4. CASE UNCHANGED vars
  BY <1>4 DEF vars, memVars
<1> QED
  BY <1>1, <1>2, <1>3, <1>4, NextSteps

\* A version of a transaction is stamped once, however often its Commit is retried.
THEOREM VersionsStampedOnce == Spec => StampedOnce
BY Invariance, StampStep, PTL DEF Spec, StampedOnce

(***************************************************************************)
(* The protocol implements the abstract life of a transaction               *)
(***************************************************************************)

\* The refinement mapping of Lifecycle.
HeldBar    == [t \in Txs |-> IF Holds(t) THEN slotOf[t] ELSE NoSlot]
OutcomeBar == [t \in Txs |-> CASE pc[t] = "new" -> "none"
                              [] Holds(t) -> "active"
                              [] OTHER -> IF Acked(t) THEN "committed" ELSE "aborted"]
DurableBar == {log[i].tx : i \in 1..synced}

LEMMA LifecycleInit == Init => Lifecycle!LInit
BY DEF Init, Lifecycle!LInit, Holds, Acked

\* A step that moves neither of them is a stutter of the abstract specification.
LEMMA LifecycleStutter ==
  UNCHANGED <<HeldBar, OutcomeBar, DurableBar>> => UNCHANGED Lifecycle!lvars
BY DEF HeldBar, OutcomeBar, DurableBar, Lifecycle!lvars

\* The abstract actions in terms of the mapping.
LEMMA LifecycleActions ==
  ASSUME NEW t \in Txs
  PROVE  /\ Lifecycle!LBegin(t) <=>
              /\ OutcomeBar[t] = "none"
              /\ \E s \in Slots : (\A u \in Txs : HeldBar[u] # s) /\ HeldBar' = [HeldBar EXCEPT ![t] = s]
              /\ OutcomeBar' = [OutcomeBar EXCEPT ![t] = "active"]
              /\ DurableBar' = DurableBar
         /\ Lifecycle!LEnd(t) <=>
              /\ OutcomeBar[t] = "active"
              /\ \E o \in {"committed", "aborted"} :
                   /\ o = "committed" => t \in DurableBar \/ t \notin WalTxs
                   /\ OutcomeBar' = [OutcomeBar EXCEPT ![t] = o]
              /\ HeldBar' = [HeldBar EXCEPT ![t] = NoSlot]
              /\ DurableBar' = DurableBar
         /\ Lifecycle!LLog <=>
              /\ \E T \in SUBSET {u \in WalTxs : OutcomeBar[u] # "none"} : DurableBar' = DurableBar \cup T
              /\ HeldBar' = HeldBar /\ OutcomeBar' = OutcomeBar
BY Zenon DEF HeldBar, OutcomeBar, DurableBar, Lifecycle!LBegin, Lifecycle!LEnd, Lifecycle!LLog

LEMMA LifecycleStep == Inv /\ [Next]_vars => [Lifecycle!LNext]_(Lifecycle!lvars)
<1> SUFFICES ASSUME Inv, [Next]_vars PROVE [Lifecycle!LNext]_(Lifecycle!lvars)
  OBVIOUS
<1>0. /\ pc \in [Txs -> PCs] /\ phase \in [Txs -> Phases] /\ slotOf \in [Txs -> Slots \cup {NoSlot}]
      /\ SlotsPartitioned /\ RecordInv /\ OwnerInv /\ synced \in 0..Len(log) /\ NoSlot \notin Slots
  BY DEF Inv, IInv, TypeOK, NoSlot, Slots
<1> DEFINE Outcome(u) == IF pc[u] = "new" THEN "none" ELSE IF Holds(u) THEN "active"
                         ELSE IF Acked(u) THEN "committed" ELSE "aborted"
<1>1. /\ OutcomeBar = [u \in Txs |-> Outcome(u)]
      /\ OutcomeBar' = [u \in Txs |-> Outcome(u)']
  BY DEF OutcomeBar, Holds, Acked
<1>2. CASE UNCHANGED vars
  <2>1. UNCHANGED <<pc, phase, slotOf, log, synced>>
    BY <1>2 DEF vars, walVars
  <2> QED
    BY <2>1, LifecycleStutter DEF HeldBar, OutcomeBar, DurableBar, Holds, Acked
<1>3. ASSUME NEW t \in Txs, AllocateSlot(t) PROVE Lifecycle!LBegin(t)
  <2>1. PICK s \in Slots : s \in Free /\ slotOf' = [slotOf EXCEPT ![t] = s]
    BY <1>3, AllocateFacts
  <2>2. pc[t] = "new" /\ pc' = [pc EXCEPT ![t] = "alloc"] /\ UNCHANGED <<phase, log, synced>>
    BY <1>3 DEF AllocateSlot, walVars
  <2>3. \A u \in Txs : HeldBar[u] # s
    BY <1>0, <2>1 DEF SlotsPartitioned, HeldBar
  <2>4. HeldBar' = [HeldBar EXCEPT ![t] = s]
    BY <1>0, <2>1, <2>2 DEF HeldBar, Holds
  <2>5. OutcomeBar[t] = "none" /\ OutcomeBar' = [OutcomeBar EXCEPT ![t] = "active"]
    BY <1>0, <1>1, <2>2 DEF Holds, Acked
  <2>6. DurableBar' = DurableBar
    BY <2>2 DEF DurableBar
  <2> QED
    BY <2>1, <2>3, <2>4, <2>5, <2>6, LifecycleActions
<1>4. ASSUME NEW t \in Txs, ReleaseSlot(t) PROVE Lifecycle!LEnd(t)
  <2>1. /\ pc[t] = "release" /\ pc' = [pc EXCEPT ![t] = "done"]
        /\ UNCHANGED <<phase, slotOf, log, synced>>
    BY <1>4 DEF ReleaseSlot, walVars
  <2> DEFINE o == IF phase[t] = "PostCommit" THEN "committed" ELSE "aborted"
  <2>2. o = "committed" => t \in DurableBar \/ t \notin WalTxs
    <3>1. ASSUME t \in WalTxs, phase[t] = "PostCommit" PROVE t \in DurableBar
      <4>1. PICK i \in 1..synced : log[i] = [tx |-> t, ts |-> cts[t]]
        BY <1>0, <2>1, <3>1 DEF RecordInv, Recorded
      <4> QED
        BY <4>1 DEF DurableBar
    <3> QED
      BY <3>1
  <2>3. HeldBar' = [HeldBar EXCEPT ![t] = NoSlot]
    BY <1>0, <2>1 DEF HeldBar, Holds
  <2>4. OutcomeBar[t] = "active" /\ OutcomeBar' = [OutcomeBar EXCEPT ![t] = o]
    BY <1>0, <1>1, <2>1 DEF Holds, Acked
  <2>5. DurableBar' = DurableBar
    BY <2>1 DEF DurableBar
  <2> QED
    BY <2>2, <2>3, <2>4, <2>5, LifecycleActions
<1>5. ASSUME NEW t \in Txs, HeldStep(t) PROVE UNCHANGED <<HeldBar, OutcomeBar>>
  <2>1. slotOf' = slotOf /\ \A u \in Txs : (Holds(u)' <=> Holds(u)) /\ (pc'[u] = "new" <=> pc[u] = "new")
    BY <1>5, HeldStepFrame DEF Holds
  <2>2. \A u \in Txs : u # t => pc'[u] = pc[u] /\ phase'[u] = phase[u]
    <3>1. \A u \in Txs : u # t => phase'[u] = phase[u]
      BY <1>0, <1>5 DEF HeldStep, BeginTS, CommitStep, Abort, CommitValidate, CommitTS, StampKey, StampDone,
         WalAppend, WalSync, WalFail, CommitFinalize, Get, Write
    <3> QED
      BY <1>5, <3>1, HeldStepFrame
  <2>3. Holds(t) /\ Holds(t)'
    BY <1>5, <2>1, HeldStepFrame
  <2>4. \A u \in Txs : Outcome(u)' = Outcome(u)
    BY <2>1, <2>2, <2>3 DEF Acked
  <2> QED
    BY <1>1, <2>1, <2>4 DEF HeldBar
<1>6. ASSUME NEW t \in Txs, HeldStep(t), ~ WalAppend(t), ~ WalSync(t) PROVE DurableBar' = DurableBar
  <2>1. UNCHANGED <<log, synced>>
    BY <1>6 DEF HeldStep, BeginTS, CommitStep, Abort, CommitValidate, CommitTS, StampKey, StampDone,
       WalFail, CommitFinalize, Get, Write, walVars
  <2> QED
    BY <2>1 DEF DurableBar
<1>7. ASSUME NEW t \in Txs, WalAppend(t) PROVE DurableBar' = DurableBar
  <2>1. log' = Append(log, [tx |-> t, ts |-> cts[t]]) /\ synced' = synced /\ t \in WalTxs
    BY <1>0, <1>7 DEF WalAppend, OwnerInv
  <2>2. log \in Seq([tx : WalTxs, ts : 0..MaxTS]) /\ [tx |-> t, ts |-> cts[t]] \in [tx : WalTxs, ts : 0..MaxTS]
    BY <2>1 DEF Inv, TypeOK
  <2>3. Len(log) \in Nat /\ \A i \in 1..Len(log) : log'[i] = log[i]
    BY <2>1, <2>2
  <2>4. \A i \in 1..synced : log'[i] = log[i]
    BY <1>0, <2>3
  <2> QED
    BY <2>1, <2>4 DEF DurableBar
<1>8. ASSUME NEW t \in Txs, WalSync(t) PROVE Lifecycle!LLog
  <2> DEFINE T == {log[i].tx : i \in 1..Len(log)}
  <2>1. log' = log /\ synced' = Len(log)
    BY <1>8 DEF WalSync, SyncLog
  <2>2. log \in Seq([tx : WalTxs, ts : 0..MaxTS])
    BY DEF Inv, TypeOK
  <2>3. DOMAIN log = 1..Len(log) /\ Len(log) \in Nat /\ \A i \in 1..Len(log) : log[i].tx \in WalTxs
    <3> DEFINE Entries == [tx : WalTxs, ts : 0..MaxTS]
    <3>1. \A e \in Entries : e.tx \in WalTxs
      OBVIOUS
    <3> HIDE DEF Entries
    <3>2. log \in Seq(Entries)
      BY <2>2 DEF Entries
    <3>3. \A i \in 1..Len(log) : log[i] \in Entries
      BY <3>2
    <3>4. DOMAIN log = 1..Len(log) /\ Len(log) \in Nat
      BY <3>2
    <3> QED
      BY <3>1, <3>3, <3>4
  <2>4. T \in SUBSET {u \in WalTxs : OutcomeBar[u] # "none"}
    <3>1. \A i \in 1..Len(log) : pc[log[i].tx] # "new" /\ log[i].tx \in WalTxs /\ log[i].tx \in Txs
      BY <1>0, <2>3, ConstantFacts DEF RecordInv
    <3>2. \A i \in 1..Len(log) : OutcomeBar[log[i].tx] # "none"
      BY <1>1, <3>1
    <3> QED
      BY <3>1, <3>2
  <2>5. DurableBar' = DurableBar \cup T
    <3>1. \A i \in 1..synced : i \in 1..Len(log)
      BY <1>0, <2>3
    <3> QED
      BY <2>1, <3>1 DEF DurableBar
  <2>6. UNCHANGED <<HeldBar, OutcomeBar>>
    BY <1>5, <1>8 DEF HeldStep, CommitStep
  <2> QED
    BY <2>4, <2>5, <2>6, LifecycleActions
<1>9. ASSUME NEW t \in Txs, HeldStep(t), ~ WalSync(t) PROVE UNCHANGED Lifecycle!lvars
  BY <1>5, <1>6, <1>7, <1>9, LifecycleStutter
<1> QED
  BY <1>2, <1>3, <1>4, <1>8, <1>9, NextSteps DEF Lifecycle!LNext

\* The slot pool, the commit protocol and the WAL record implement the life of a transaction
\* that TxnLifecycle promises.
THEOREM ProtocolImplementsLifecycle == Spec => ImplementsLifecycle
<1>1. Spec => Lifecycle!LInit /\ [][Lifecycle!LNext]_(Lifecycle!lvars)
  BY Invariance, LifecycleInit, LifecycleStep, PTL DEF Spec
<1> QED
  BY <1>1 DEF ImplementsLifecycle, Lifecycle!LSpec

(***************************************************************************)
(* What readers may rely on.                                                *)
(*                                                                          *)
(* A version is stamped by its own transaction whatever the sync.Pool does. *)
(* The chains of versions, and what a transaction reads of its own writes,  *)
(* hold as long as no arena is carved twice, ~ PoolMayReuse; run            *)
(* txn_arena_reuse shows what reuse does to them. Under that assumption the *)
(* inductive invariant is ChainInv: the nodes a walk visits form a sequence *)
(* without repetition that ends in nil.                                     *)
(***************************************************************************)

\* A transaction stamps with a timestamp above its begin timestamp.
StampInv ==
  /\ StampedByOwner
  /\ \A t \in Txs : pc[t] = "stamp" => bts[t] < cts[t]

\* The begin timestamp tells transactions apart, and a node carries it twice.
BeginInv ==
  /\ \A t \in Txs : pc[t] \notin {"new", "alloc", "done"} => sbegin[slotOf[t]] = bts[t]
  /\ \A t \in Txs : bts[t] = 0 => \A k \in Keys : mine[t][k] = 0
  /\ \A t, u \in Txs : bts[t] = bts[u] /\ bts[t] # 0 => t = u
  /\ \A a \in Addr : node[a].beginTS = node[a].txnID

\* Nobody has written above the bump offset of an arena in use, or in an arena not made yet.
FreshInv ==
  /\ \A a \in Addr : a[1] > made => node[a].txnID = 0
  /\ \A s \in Slots : sarena[s] # 0 =>
       \A a \in Addr : a[1] = sarena[s] /\ a[2] > youngOff[a[1]] => node[a].txnID = 0

\* s lists the n nodes of k's chain from its head: each of them once, written, and k's.
Chain(k, n, s) ==
  /\ \A i, j \in 1..n : s[i] = s[j] => i = j
  /\ head[k] = IF n = 0 THEN Nil ELSE s[1]
  /\ \A i \in 1..n : /\ node[s[i]].next = IF i = n THEN Nil ELSE s[i + 1]
                     /\ node[s[i]].key = k
                     /\ node[s[i]].txnID # 0

\* Node a is what t's last write of k left.
Matches(t, k, a) ==
  /\ node[a].txnID = bts[t]
  /\ node[a].deleted <=> mine[t][k] = Tombstone
  /\ mine[t][k] \in {node[a].val, Tombstone}

\* The first node of t in the chain is its last write of k; without a write there is none.
OwnFirst(t, k, n, s) ==
  /\ mine[t][k] = 0 => \A i \in 1..n : node[s[i]].txnID # bts[t]
  /\ mine[t][k] # 0 => \E i \in 1..n : /\ Matches(t, k, s[i])
                                       /\ \A j \in 1..(i - 1) : node[s[j]].txnID # bts[t]

ChainInv ==
  \A k \in Keys : \E n \in 0..WalkLimit : \E s \in [1..n -> Addr] :
    /\ Chain(k, n, s)
    /\ \A t \in Txs : bts[t] # 0 => OwnFirst(t, k, n, s)

(***************************************************************************)
(* What the steps do to the nodes                                           *)
(***************************************************************************)

IsWrite(t) == \E k \in Keys, op \in Ops : Write(t, k, op)

\* A step of t that is neither Write nor StampKey leaves the nodes alone.
LEMMA NodeFrame ==
  ASSUME NEW t \in Txs, AllocateSlot(t) \/ HeldStep(t) \/ ReleaseSlot(t), ~ IsWrite(t), ~ StampKey(t)
  PROVE  node' = node
BY DEF IsWrite, AllocateSlot, ReleaseSlot, HeldStep, BeginTS, CommitStep, Abort, CommitValidate, CommitTS,
   StampDone, WalAppend, WalSync, WalFail, CommitFinalize, Get, memVars

\* The stamping CAS touches only the endTS of nodes of its own transaction.
LEMMA StampFacts ==
  ASSUME Inv, NEW t \in Txs, StampKey(t), NEW a \in Addr
  PROVE  \/ node'[a] = node[a]
         \/ /\ node[a].txnID = bts[t] /\ node[a].endTS = MaxU64
            /\ node'[a] = [node[a] EXCEPT !.endTS = cts[t]]
<1>1. pc[t] = "stamp" /\ stxn[slotOf[t]] = bts[t]
  BY DEF StampKey, Inv, IInv, OwnerInv
<1>2. CASE LoopEnds(Head(todo[t]).start, OfTxn(stxn[slotOf[t]]))
  <2>1. \/ node'[a] = node[a]
        \/ /\ IsFirst(Head(todo[t]).start, OfTxn(stxn[slotOf[t]]), a)
           /\ node'[a] = VersionCommit(a, cts[t])
    BY <1>2 DEF StampKey
  <2>2. IsFirst(Head(todo[t]).start, OfTxn(stxn[slotOf[t]]), a) => node[a].txnID = bts[t]
    BY <1>1 DEF IsFirst, OfTxn
  <2> QED
    BY <2>1, <2>2 DEF VersionCommit
<1>3. CASE ~ LoopEnds(Head(todo[t]).start, OfTxn(stxn[slotOf[t]]))
  BY <1>3 DEF StampKey
<1> QED
  BY <1>2, <1>3

\* Only Write moves what a walk sees of a node, the heads, and the history of writes.
LEMMA ChainFrame ==
  ASSUME Inv, [Next]_vars, ~ \E t \in Txs : IsWrite(t)
  PROVE  /\ \A a \in Addr : /\ node'[a].txnID = node[a].txnID /\ node'[a].beginTS = node[a].beginTS
                            /\ node'[a].key = node[a].key /\ node'[a].val = node[a].val
                            /\ node'[a].deleted = node[a].deleted /\ node'[a].next = node[a].next
         /\ head' = head /\ mine' = mine
<1>0. node \in [Addr -> NodeType]
  BY DEF Inv, TypeOK
<1>1. CASE UNCHANGED vars
  BY <1>1 DEF vars, memVars, ghosts
<1>2. ASSUME NEW t \in Txs, AllocateSlot(t) \/ HeldStep(t) \/ ReleaseSlot(t)
      PROVE  head' = head /\ mine' = mine
  BY <1>2 DEF IsWrite, AllocateSlot, ReleaseSlot, HeldStep, BeginTS, CommitStep, Abort, CommitValidate, CommitTS,
     StampKey, StampDone, WalAppend, WalSync, WalFail, CommitFinalize, Get, memVars, ghosts
<1>3. ASSUME NEW t \in Txs, AllocateSlot(t) \/ HeldStep(t) \/ ReleaseSlot(t), NEW a \in Addr
      PROVE  /\ node'[a].txnID = node[a].txnID /\ node'[a].beginTS = node[a].beginTS
             /\ node'[a].key = node[a].key /\ node'[a].val = node[a].val
             /\ node'[a].deleted = node[a].deleted /\ node'[a].next = node[a].next
  <2>1. CASE StampKey(t)
    <3>1. node[a] \in NodeType
      BY <1>0
    <3>2. node'[a] = node[a] \/ node'[a] = [node[a] EXCEPT !.endTS = cts[t]]
      BY <2>1, StampFacts
    <3> QED
      BY <3>1, <3>2 DEF NodeType
  <2>2. CASE ~ StampKey(t)
    BY <1>3, <2>2, NodeFrame
  <2> QED
    BY <2>1, <2>2
<1> QED
  BY <1>1, <1>2, <1>3, NextSteps

\* Only BeginTS gives out begin timestamps.
LEMMA BtsFrame ==
  ASSUME [Next]_vars, ~ \E t \in Txs : BeginTS(t)
  PROVE  bts' = bts
<1>1. CASE UNCHANGED vars
  BY <1>1 DEF vars, ghosts
<1>2. ASSUME NEW t \in Txs, AllocateSlot(t) \/ HeldStep(t) \/ ReleaseSlot(t) PROVE bts' = bts
  BY <1>2 DEF AllocateSlot, ReleaseSlot, HeldStep, CommitStep, Abort, CommitValidate, CommitTS,
     StampKey, StampDone, WalAppend, WalSync, WalFail, CommitFinalize, Get, Write, ghosts
<1> QED
  BY <1>1, <1>2, NextSteps

\* BeginTS takes the next timestamp for a transaction that has none.
LEMMA BeginFacts ==
  ASSUME Inv, NEW t \in Txs, BeginTS(t)
  PROVE  /\ bts[t] = 0 /\ bts'[t] = txnCounter + 1 /\ \A u \in Txs : u # t => bts'[u] = bts[u]
         /\ pc[t] = "alloc" /\ txnCounter \in Nat /\ UNCHANGED <<node, head, mine, cts>>
         /\ slotOf[t] \in Slots /\ slotOf' = slotOf /\ sbegin' = [sbegin EXCEPT ![slotOf[t]] = txnCounter + 1]
         /\ \A u \in Txs : bts[u] \in Nat /\ bts[u] <= txnCounter
         /\ \A a \in Addr : node[a].txnID \in Nat /\ node[a].txnID <= txnCounter
<1>0. /\ bts \in [Txs -> 0..MaxTS] /\ txnCounter \in 0..MaxTS /\ node \in [Addr -> NodeType]
      /\ OwnerInv /\ TimeInv /\ TailInv
  BY DEF Inv, IInv, TypeOK
<1>1. \A a \in Addr : node[a].txnID \in Nat /\ node[a].txnID <= txnCounter
  BY <1>0, ConstantFacts DEF NodeType, TailInv
<1>2. \A u \in Txs : bts[u] \in Nat /\ bts[u] <= txnCounter
  BY <1>0, ConstantFacts DEF TimeInv
<1>3. pc[t] = "alloc" /\ slotOf[t] \in Slots
  BY <1>0 DEF BeginTS, OwnerInv, Holds
<1> QED
  BY <1>0, <1>1, <1>2, <1>3, ConstantFacts DEF BeginTS, OwnerInv, memVars

\* Write carves node <<a, n>>, the next of its arena, and makes it the head of the chain.
NewNode(t, k, op, n) ==
  [txnID |-> bts[t], beginTS |-> sbegin[slotOf[t]], endTS |-> MaxU64, key |-> k, val |-> n,
   deleted |-> (op = "Delete"), next |-> head[k]]

Wrote(t, k, op, a, n) ==
  /\ slotOf[t] \in Slots /\ a = sarena[slotOf[t]] /\ <<a, n>> \in Addr
  /\ n = youngOff[a] + 1 /\ youngOff' = [youngOff EXCEPT ![a] = n]
  /\ node' = [node EXCEPT ![<<a, n>>] = NewNode(t, k, op, n)]
  /\ head' = [head EXCEPT ![k] = <<a, n>>]
  /\ mine' = [mine EXCEPT ![t][k] = IF op = "Delete" THEN Tombstone ELSE n]
  /\ UNCHANGED <<pc, slotOf, sarena, sbegin, made, bts, cts>>
  /\ pc[t] = "open" /\ Holds(t) /\ bts[t] # 0

LEMMA WriteFacts ==
  ASSUME Inv, NEW t \in Txs, NEW k \in Keys, NEW op \in Ops, Write(t, k, op)
  PROVE  \E a \in Arenas, n \in 1..MaxWrites : Wrote(t, k, op, a, n)
<1> DEFINE s == slotOf[t]
           a == sarena[s]
           n == Len(writeSet[s]) + 1
<1>1. Holds(t) /\ pc[t] = "open" /\ s \in Slots /\ a \in Arenas
  BY HeldSlot DEF Write, Holds
<1>2. bts[t] # 0 /\ stxn[s] = bts[t]
  BY <1>1 DEF Inv, IInv, OwnerInv
<1>3. youngOff[a] = Len(writeSet[s]) /\ writeSet[s] \in Seq(KeyRange) /\ youngOff \in [Arenas -> 0..MaxWrites]
  <2>1. writeSet \in [Slots -> Seq(KeyRange)] /\ youngOff \in [Arenas -> 0..MaxWrites] /\ ArenaInv
    BY DEF Inv, IInv, TypeOK
  <2>2. a # 0
    BY <1>1, ConstantFacts DEF Arenas
  <2>3. youngOff[a] = Len(writeSet[s])
    BY <1>1, <2>1, <2>2 DEF ArenaInv
  <2> QED
    BY <1>1, <2>1, <2>3
<1>4. Len(writeSet[s]) \in Nat /\ Len(writeSet[s]) < MaxWrites
  BY <1>3 DEF Write
<1>5. n \in 1..MaxWrites /\ n = youngOff[a] + 1
  BY <1>3, <1>4, ConstantFacts
<1>6. Alloc(a) = <<a, n>> /\ <<a, n>> \in Addr
  BY <1>1, <1>5 DEF Alloc, Addr
<1>7. youngOff' = [youngOff EXCEPT ![a] = n]
  BY <1>3, <1>5 DEF Write
<1> QED
  <2>1. Wrote(t, k, op, a, n)
    BY <1>1, <1>2, <1>5, <1>6, <1>7, Zenon DEF Write, Wrote, NewNode
  <2> QED
    BY <1>1, <1>5, <2>1

\* The slots of two transactions that hold one differ.
LEMMA SlotsDiffer ==
  ASSUME Inv, NEW t \in Txs, NEW u \in Txs, u # t, Holds(t), Holds(u)
  PROVE  /\ slotOf[t] \in Slots /\ slotOf[u] \in Slots /\ slotOf[u] # slotOf[t]
         /\ sarena[slotOf[u]] # sarena[slotOf[t]]
<1>1. slotOf[t] \in Slots /\ slotOf[u] \in Slots /\ sarena[slotOf[u]] \in Arenas
  BY HeldSlot
<1>2. slotOf[u] # slotOf[t]
  BY DEF Inv, IInv, SlotsPartitioned
<1>3. sarena[slotOf[u]] # 0
  BY <1>1, ConstantFacts DEF Arenas
<1> QED
  BY <1>1, <1>2, <1>3 DEF Inv, IInv, ArenasExclusive

(***************************************************************************)
(* Stamps                                                                   *)
(***************************************************************************)

LEMMA StampInit == Init => StampInv
BY DEF Init, StampInv, StampedByOwner, NoNode

LEMMA StampInvStep == Inv /\ StampInv /\ [Next]_vars => StampInv'
<1> SUFFICES ASSUME Inv, StampInv, [Next]_vars PROVE StampInv'
  OBVIOUS
<1>0. /\ bts \in [Txs -> 0..MaxTS] /\ cts \in [Txs -> 0..MaxTS] /\ txnCounter \in 0..MaxTS
      /\ node \in [Addr -> NodeType] /\ pc \in [Txs -> PCs] /\ TimeInv /\ OwnerInv
  BY DEF Inv, IInv, TypeOK
<1>1. /\ \A a \in Addr : node[a].txnID # 0 /\ node[a].endTS # MaxU64 =>
           \E t \in Txs : bts[t] = node[a].txnID /\ bts[t] < node[a].endTS /\ node[a].endTS <= cts[t]
      /\ \A t \in Txs : pc[t] = "stamp" => bts[t] < cts[t]
  BY DEF StampInv, StampedByOwner
<1>2. \A a \in Addr : node[a].txnID \in Nat /\ node[a].endTS \in Nat
  BY <1>0, ConstantFacts DEF NodeType, MaxU64
\* The step keeps the begin timestamps there are and moves no commit timestamp back.
<1>3. /\ \A t \in Txs : bts[t] # 0 => bts'[t] = bts[t]
      /\ \A t \in Txs : cts[t] \in Nat /\ cts'[t] \in Nat /\ cts[t] <= cts'[t]
  <2>1. \A t \in Txs : bts[t] # 0 => bts'[t] = bts[t]
    <3>1. ASSUME NEW t \in Txs, BeginTS(t) PROVE \A u \in Txs : bts[u] # 0 => bts'[u] = bts[u]
      BY <3>1, BeginFacts
    <3> QED
      BY <3>1, BtsFrame
  <2>2. CASE \E t \in Txs : CommitTS(t)
    <3>1. PICK t \in Txs : cts' = [cts EXCEPT ![t] = txnCounter + 1]
      BY <2>2 DEF CommitTS, CommitStamp
    <3>2. cts[t] <= txnCounter
      BY <1>0 DEF TimeInv
    <3> QED
      BY <1>0, <2>1, <3>1, <3>2, ConstantFacts
  <2>3. CASE ~ \E t \in Txs : CommitTS(t)
    <3>1. cts' = cts
      <4>1. ASSUME NEW t \in Txs, AllocateSlot(t) \/ HeldStep(t) \/ ReleaseSlot(t) PROVE cts' = cts
        BY <2>3, <4>1 DEF AllocateSlot, ReleaseSlot, HeldStep, BeginTS, CommitStep, Abort, CommitValidate,
           StampKey, StampDone, WalAppend, WalSync, WalFail, CommitFinalize, Get, Write
      <4> QED
        BY <4>1, NextSteps DEF vars
    <3> QED
      BY <1>0, <2>1, <3>1, ConstantFacts
  <2> QED
    BY <2>2, <2>3
\* A stamp that was there before the step stays right.
<1>4. ASSUME NEW a \in Addr, node[a].txnID # 0, node[a].endTS # MaxU64, node'[a] = node[a]
      PROVE  \E t \in Txs : bts'[t] = node'[a].txnID /\ bts'[t] < node'[a].endTS /\ node'[a].endTS <= cts'[t]
  <2>1. PICK t \in Txs : bts[t] = node[a].txnID /\ bts[t] < node[a].endTS /\ node[a].endTS <= cts[t]
    BY <1>1, <1>4
  <2>2. bts'[t] = bts[t] /\ node[a].endTS <= cts'[t]
    BY <1>2, <1>3, <1>4, <2>1
  <2> QED
    BY <1>4, <2>1, <2>2
<1>5. ASSUME NEW a \in Addr, node'[a] # node[a], node'[a].endTS # MaxU64'
      PROVE  \E t \in Txs : bts'[t] = node'[a].txnID /\ bts'[t] < node'[a].endTS /\ node'[a].endTS <= cts'[t]
  <2>0. MaxU64' = MaxU64
    BY DEF MaxU64
  <2>1. CASE \E t \in Txs : StampKey(t)
    <3>1. PICK t \in Txs : StampKey(t)
      BY <2>1
    <3>2. node[a].txnID = bts[t] /\ node'[a] = [node[a] EXCEPT !.endTS = cts[t]] /\ node[a] \in NodeType
      BY <1>0, <1>5, <3>1, StampFacts
    <3>3. node'[a].txnID = bts[t] /\ node'[a].endTS = cts[t]
      BY <3>2 DEF NodeType
    <3>4. bts[t] < cts[t] /\ bts' = bts /\ cts' = cts
      BY <1>1, <3>1 DEF StampKey, ghosts
    <3> QED
      BY <1>0, <3>3, <3>4, ConstantFacts
  <2>2. CASE \E t \in Txs : IsWrite(t)
    <3>1. PICK t \in Txs, k \in Keys, op \in Ops : Write(t, k, op)
      BY <2>2 DEF IsWrite
    <3>2. PICK b \in Arenas, n \in 1..MaxWrites : Wrote(t, k, op, b, n)
      BY <3>1, WriteFacts
    <3>3. node'[a].endTS = MaxU64
      BY <1>0, <1>5, <3>2 DEF Wrote, NewNode
    <3> QED
      BY <1>5, <2>0, <3>3
  <2>3. CASE ~ (\E t \in Txs : StampKey(t)) /\ ~ \E t \in Txs : IsWrite(t)
    <3>1. node' = node
      BY <2>3, NodeFrame, NextSteps DEF vars, memVars
    <3> QED
      BY <1>5, <3>1
  <2> QED
    BY <2>1, <2>2, <2>3
<1>6. ASSUME NEW u \in Txs, pc'[u] = "stamp" PROVE bts'[u] < cts'[u]
  <2>1. CASE UNCHANGED vars
    BY <1>1, <1>6, <2>1 DEF vars, ghosts
  <2>2. ASSUME NEW t \in Txs, CommitTS(t) PROVE bts'[u] < cts'[u]
    <3>1. /\ cts' = [cts EXCEPT ![t] = txnCounter + 1] /\ bts' = bts
          /\ pc' = [pc EXCEPT ![t] = "stamp"]
      BY <2>2 DEF CommitTS, CommitStamp, ghosts
    <3>2. bts[t] <= txnCounter
      BY <1>0 DEF TimeInv
    <3>3. u # t => pc[u] = "stamp" /\ cts'[u] = cts[u]
      BY <1>0, <1>6, <3>1
    <3> QED
      BY <1>0, <1>1, <3>1, <3>2, <3>3, ConstantFacts
  <2>3. ASSUME NEW t \in Txs, AllocateSlot(t) \/ HeldStep(t) \/ ReleaseSlot(t), ~ CommitTS(t)
        PROVE  pc[u] = "stamp" /\ bts'[u] = bts[u]
    <3>1. pc[u] = "stamp"
      BY <1>0, <1>6, <2>3 DEF AllocateSlot, ReleaseSlot, HeldStep, BeginTS, CommitStep, Abort, CommitValidate,
         FinalizeStatus, StampKey, StampDone, WalAppend, WalSync, WalFail, CommitFinalize, Get, Write
    <3>2. bts[u] # 0
      BY <1>0, <3>1 DEF OwnerInv
    <3> QED
      BY <1>3, <3>1, <3>2
  <2>4. pc[u] = "stamp" /\ bts'[u] = bts[u] => bts'[u] < cts'[u]
    BY <1>0, <1>1, <1>3, ConstantFacts
  <2> QED
    BY <2>1, <2>2, <2>3, <2>4, NextSteps
<1>7. StampedByOwner'
  BY <1>4, <1>5 DEF StampedByOwner, MaxU64
<1> QED
  BY <1>6, <1>7 DEF StampInv

\* A version carries the commit timestamp of the transaction that wrote it, of its current or
\* an earlier attempt, and of nobody else, whether or not arenas are reused.
THEOREM StampsComeFromOwner == Spec => []StampedByOwner
<1>1. StampInv => StampedByOwner
  BY DEF StampInv
<1> QED
  BY <1>1, Invariance, StampInit, StampInvStep, PTL DEF Spec

(***************************************************************************)
(* Begin timestamps                                                         *)
(***************************************************************************)

LEMMA BeginInit == Init => BeginInv
BY DEF Init, BeginInv, NoNode

LEMMA BeginInvStep == Inv /\ BeginInv /\ [Next]_vars => BeginInv'
<1> SUFFICES ASSUME Inv, BeginInv, [Next]_vars PROVE BeginInv'
  OBVIOUS
<1> DEFINE Begun(u) == pc[u] \notin {"new", "alloc", "done"}
<1>0. /\ bts \in [Txs -> 0..MaxTS] /\ node \in [Addr -> NodeType] /\ pc \in [Txs -> PCs]
      /\ sbegin \in [Slots -> 0..MaxTS] /\ slotOf \in [Txs -> Slots \cup {NoSlot}]
      /\ mine \in [Txs -> [Keys -> 0..Tombstone]] /\ OwnerInv /\ SlotsPartitioned
  BY DEF Inv, IInv, TypeOK
<1>1. /\ \A u \in Txs : Begun(u) => sbegin[slotOf[u]] = bts[u]
      /\ \A u \in Txs : bts[u] = 0 => \A k \in Keys : mine[u][k] = 0
      /\ \A u, v \in Txs : bts[u] = bts[v] /\ bts[u] # 0 => u = v
      /\ \A a \in Addr : node[a].beginTS = node[a].txnID
  BY DEF BeginInv
<1>2. \A u \in Txs : Begun(u)' => sbegin'[slotOf'[u]] = bts'[u]
  <2>1. CASE UNCHANGED vars
    BY <1>1, <2>1 DEF vars, slotVars, ghosts
  <2>2. ASSUME NEW t \in Txs, AllocateSlot(t), NEW u \in Txs, Begun(u)' PROVE sbegin'[slotOf'[u]] = bts'[u]
    <3>1. PICK s \in Slots : s \in Free /\ slotOf' = [slotOf EXCEPT ![t] = s] /\ s = freeList[Len(freeList)]
      <4>1. freeList \in Seq(Slots) /\ freeList # <<>>
        BY <2>2 DEF AllocateSlot, Inv, TypeOK
      <4>2. freeList[Len(freeList)] \in Slots /\ Len(freeList) \in DOMAIN freeList
        BY <4>1
      <4> QED
        BY <2>2, <4>2 DEF AllocateSlot, Free
    <3>2. sbegin' = [sbegin EXCEPT ![s] = 0] /\ pc' = [pc EXCEPT ![t] = "alloc"] /\ bts' = bts
      BY <2>2, <3>1 DEF AllocateSlot
    <3>3. u # t /\ Begun(u) /\ slotOf'[u] = slotOf[u]
      BY <1>0, <2>2, <3>1, <3>2
    <3>4. slotOf[u] \in Slots /\ slotOf[u] # s
      BY <1>0, <3>1, <3>3 DEF Holds, SlotsPartitioned, OwnerInv
    <3> QED
      BY <1>0, <1>1, <3>2, <3>3, <3>4
  <2>3. ASSUME NEW t \in Txs, BeginTS(t), NEW u \in Txs, Begun(u)' PROVE sbegin'[slotOf'[u]] = bts'[u]
    <3>1. pc' = [pc EXCEPT ![t] = "open"] /\ pc[t] = "alloc"
      BY <2>3 DEF BeginTS
    <3>2. CASE u = t
      BY <1>0, <2>3, <3>2, BeginFacts
    <3>3. CASE u # t
      <4>1. Begun(u) /\ Holds(u) /\ Holds(t)
        BY <1>0, <2>3, <3>1, <3>3 DEF Holds
      <4>2. slotOf[u] # slotOf[t] /\ slotOf[u] \in Slots
        BY <3>3, <4>1, SlotsDiffer
      <4> QED
        BY <1>0, <1>1, <2>3, <3>3, <4>1, <4>2, BeginFacts
    <3> QED
      BY <3>2, <3>3
  <2>4. ASSUME NEW t \in Txs, HeldStep(t), ~ BeginTS(t), NEW u \in Txs, Begun(u)'
        PROVE  sbegin'[slotOf'[u]] = bts'[u]
    <3>1. UNCHANGED <<sbegin, bts>> /\ Begun(t)
      BY <2>4 DEF HeldStep, CommitStep, Abort, MayAbort, CommitValidate, CommitTS, StampKey, StampDone, WalAppend,
         WalSync, WalFail, CommitFinalize, Get, Write, slotVars, ghosts
    <3>2. Begun(u) /\ slotOf' = slotOf
      BY <2>4, <3>1, HeldStepFrame
    <3> QED
      BY <1>1, <3>1, <3>2
  <2>5. ASSUME NEW t \in Txs, ReleaseSlot(t), NEW u \in Txs, Begun(u)' PROVE sbegin'[slotOf'[u]] = bts'[u]
    <3>1. /\ pc[t] = "release" /\ pc' = [pc EXCEPT ![t] = "done"] /\ UNCHANGED <<slotOf, bts>>
          /\ sbegin' = [sbegin EXCEPT ![slotOf[t]] = 0]
      BY <2>5 DEF ReleaseSlot, ghosts
    <3>2. u # t /\ Begun(u) /\ Holds(u) /\ Holds(t)
      BY <1>0, <2>5, <3>1 DEF Holds
    <3>3. slotOf[u] # slotOf[t] /\ slotOf[u] \in Slots
      BY <3>2, SlotsDiffer
    <3> QED
      BY <1>0, <1>1, <3>1, <3>2, <3>3
  <2> QED
    BY <2>1, <2>2, <2>3, <2>4, <2>5, NextSteps
<1>3. \A u \in Txs : bts'[u] = 0 => \A k \in Keys : mine'[u][k] = 0
  <2>1. ASSUME NEW t \in Txs, BeginTS(t) PROVE \A u \in Txs : bts'[u] = 0 => bts[u] = 0 /\ mine' = mine
    BY <2>1, BeginFacts
  <2>2. ASSUME NEW t \in Txs, IsWrite(t), NEW u \in Txs, bts'[u] = 0, NEW k \in Keys PROVE mine'[u][k] = 0
    <3>1. PICK j \in Keys, op \in Ops : Write(t, j, op)
      BY <2>2 DEF IsWrite
    <3>2. PICK a \in Arenas, n \in 1..MaxWrites : Wrote(t, j, op, a, n)
      BY <3>1, WriteFacts
    <3>3. bts' = bts /\ bts[t] # 0 /\ \A v \in Txs : v # t => mine'[v] = mine[v]
      BY <1>0, <3>2 DEF Wrote
    <3> QED
      BY <1>1, <2>2, <3>3
  <2>3. CASE ~ (\E t \in Txs : BeginTS(t)) /\ ~ \E t \in Txs : IsWrite(t)
    BY <1>1, <2>3, BtsFrame, ChainFrame
  <2> QED
    BY <1>1, <2>1, <2>2, <2>3
<1>4. \A u, v \in Txs : bts'[u] = bts'[v] /\ bts'[u] # 0 => u = v
  <2>1. ASSUME NEW t \in Txs, BeginTS(t) PROVE \A u, v \in Txs : bts'[u] = bts'[v] /\ bts'[u] # 0 => u = v
    BY <1>1, <2>1, BeginFacts
  <2> QED
    BY <1>1, <2>1, BtsFrame
<1>5. \A a \in Addr : node'[a].beginTS = node'[a].txnID
  <2>1. ASSUME NEW t \in Txs, IsWrite(t), NEW a \in Addr PROVE node'[a].beginTS = node'[a].txnID
    <3>1. PICK k \in Keys, op \in Ops : Write(t, k, op)
      BY <2>1 DEF IsWrite
    <3>2. PICK b \in Arenas, n \in 1..MaxWrites : Wrote(t, k, op, b, n)
      BY <3>1, WriteFacts
    <3>3. sbegin[slotOf[t]] = bts[t]
      BY <1>1, <3>2 DEF Wrote
    <3> QED
      BY <1>0, <1>1, <3>2, <3>3 DEF Wrote, NewNode
  <2>2. CASE ~ \E t \in Txs : IsWrite(t)
    BY <1>1, <2>2, ChainFrame
  <2> QED
    BY <2>1, <2>2
<1> QED
  BY <1>2, <1>3, <1>4, <1>5 DEF BeginInv

(***************************************************************************)
(* Fresh memory                                                             *)
(***************************************************************************)

LEMMA FreshInit == Init => FreshInv
BY DEF Init, FreshInv, NoNode

LEMMA FreshInvStep == ~ PoolMayReuse /\ Inv /\ FreshInv /\ [Next]_vars => FreshInv'
<1> SUFFICES ASSUME ~ PoolMayReuse, Inv, FreshInv, [Next]_vars PROVE FreshInv'
  OBVIOUS
<1>0. /\ node \in [Addr -> NodeType] /\ sarena \in [Slots -> 0..NumArenas]
      /\ youngOff \in [Arenas -> 0..MaxWrites] /\ made \in 0..NumArenas
      /\ ArenasExclusive /\ ArenaInv
  BY DEF Inv, IInv, TypeOK
<1>1. /\ \A a \in Addr : a[1] > made => node[a].txnID = 0
      /\ \A s \in Slots : sarena[s] # 0 =>
           \A a \in Addr : a[1] = sarena[s] /\ a[2] > youngOff[a[1]] => node[a].txnID = 0
  BY DEF FreshInv
<1>2. \A a \in Addr : a[1] \in Arenas /\ a[2] \in 1..MaxWrites /\ a = <<a[1], a[2]>>
  BY DEF Addr
<1>3. ASSUME NEW t \in Txs, AllocateSlot(t) PROVE FreshInv'
  <2>1. UNCHANGED <<node, youngOff>>
    BY <1>3 DEF AllocateSlot
  <2>2. PICK s : made' = made + 1 /\ sarena' = [sarena EXCEPT ![s] = made + 1]
    BY <1>3 DEF AllocateSlot, GetArena
  <2>3. ASSUME NEW a \in Addr, a[1] > made PROVE node[a].txnID = 0
    BY <1>1, <2>3
  <2>4. ASSUME NEW a \in Addr, a[1] > made' PROVE node'[a].txnID = 0
    BY <1>0, <1>2, <2>1, <2>2, <2>3, <2>4, ConstantFacts DEF Arenas
  <2>5. ASSUME NEW r \in Slots, sarena'[r] # 0, NEW a \in Addr, a[1] = sarena'[r], a[2] > youngOff'[a[1]]
        PROVE  node'[a].txnID = 0
    <3>1. CASE r = s
      BY <1>0, <1>2, <2>1, <2>2, <2>3, <2>5, <3>1, ConstantFacts DEF Arenas
    <3>2. CASE r # s
      BY <1>0, <1>1, <2>1, <2>2, <2>5, <3>2
    <3> QED
      BY <3>1, <3>2
  <2> QED
    BY <2>4, <2>5 DEF FreshInv
<1>4. ASSUME NEW t \in Txs, IsWrite(t) PROVE FreshInv'
  <2>1. PICK k \in Keys, op \in Ops : Write(t, k, op)
    BY <1>4 DEF IsWrite
  <2>2. PICK b \in Arenas, n \in 1..MaxWrites : Wrote(t, k, op, b, n)
    BY <2>1, WriteFacts
  <2>7. /\ b = sarena[slotOf[t]] /\ slotOf[t] \in Slots /\ <<b, n>> \in Addr /\ n = youngOff[b] + 1
        /\ youngOff' = [youngOff EXCEPT ![b] = n]
        /\ node' = [node EXCEPT ![<<b, n>>] = NewNode(t, k, op, n)]
        /\ UNCHANGED <<sarena, made>>
    BY <2>2 DEF Wrote
  <2>3. b # 0 /\ b <= made
    BY <1>0, <2>7, ConstantFacts DEF Arenas, ArenaInv
  <2>4. \A a \in Addr : a # <<b, n>> => node'[a] = node[a]
    BY <1>0, <2>7
  <2>5. ASSUME NEW a \in Addr, a[1] > made' PROVE node'[a].txnID = 0
    <3>1. a # <<b, n>>
      BY <1>0, <1>2, <2>7, <2>3, <2>5, ConstantFacts DEF Arenas
    <3> QED
      BY <1>1, <2>7, <2>4, <2>5, <3>1
  <2>6. ASSUME NEW r \in Slots, sarena'[r] # 0, NEW a \in Addr, a[1] = sarena'[r], a[2] > youngOff'[a[1]]
        PROVE  node'[a].txnID = 0
    <3>1. a # <<b, n>> /\ a[2] > youngOff[a[1]]
      BY <1>0, <1>2, <2>7, <2>6, ConstantFacts
    <3> QED
      BY <1>1, <2>7, <2>4, <2>6, <3>1
  <2> QED
    BY <2>5, <2>6 DEF FreshInv
<1>5. ASSUME NEW t \in Txs, ReleaseSlot(t) PROVE FreshInv'
  <2> DEFINE s == slotOf[t]
             b == sarena[s]
  <2>1. s \in Slots /\ b \in Arenas
    BY <1>5, HeldSlot DEF ReleaseSlot, Holds
  <2>2. /\ sarena' = [sarena EXCEPT ![s] = 0] /\ youngOff' = [youngOff EXCEPT ![b] = 0]
        /\ UNCHANGED <<node, made>>
    BY <1>5 DEF ReleaseSlot, PutArena, ClearArena
  <2>3. ASSUME NEW r \in Slots, sarena'[r] # 0 PROVE sarena'[r] = sarena[r] /\ sarena[r] # b
    BY <1>0, <2>1, <2>2, <2>3 DEF ArenasExclusive
  <2>4. ASSUME NEW r \in Slots, sarena'[r] # 0, NEW a \in Addr, a[1] = sarena'[r], a[2] > youngOff'[a[1]]
        PROVE  node'[a].txnID = 0
    <3>1. sarena'[r] = sarena[r] /\ a[1] # b
      BY <2>3, <2>4
    <3>2. youngOff'[a[1]] = youngOff[a[1]]
      BY <1>0, <1>2, <2>2, <3>1
    <3> QED
      BY <1>1, <2>2, <2>4, <3>1, <3>2
  <2> QED
    BY <1>1, <2>2, <2>4 DEF FreshInv
<1>6. ASSUME NEW t \in Txs, HeldStep(t), ~ IsWrite(t) PROVE FreshInv'
  <2>1. UNCHANGED <<sarena, made, youngOff>>
    <3>1. youngOff' = youngOff
      BY <1>6 DEF IsWrite, HeldStep, BeginTS, CommitStep, Abort, CommitValidate, CommitTS, StampKey, StampDone,
         WalAppend, WalSync, WalFail, CommitFinalize, Get, memVars
    <3> QED
      BY <1>6, <3>1, HeldStepFrame
  <2>2. \A a \in Addr : node'[a].txnID = node[a].txnID
    <3>1. CASE StampKey(t)
      <4>1. \A a \in Addr : node'[a] = node[a] \/ node'[a] = [node[a] EXCEPT !.endTS = cts[t]]
        BY <3>1, StampFacts
      <4>2. \A a \in Addr : [node[a] EXCEPT !.endTS = cts[t]].txnID = node[a].txnID
        BY <1>0 DEF NodeType
      <4> QED
        BY <4>1, <4>2
    <3>2. CASE ~ StampKey(t)
      BY <1>6, <3>2, NodeFrame
    <3> QED
      BY <3>1, <3>2
  <2> QED
    BY <1>1, <2>1, <2>2 DEF FreshInv
<1>7. CASE UNCHANGED vars
  BY <1>1, <1>7 DEF FreshInv, vars, slotVars, memVars
<1> QED
  BY <1>3, <1>4, <1>5, <1>6, <1>7, NextSteps

(***************************************************************************)
(* Walks                                                                    *)
(***************************************************************************)

\* A sequence of addresses without repetition is no longer than there are addresses.
LEMMA RoomInAddr ==
  ASSUME NEW n \in Nat, NEW s \in [1..n -> Addr], \A i, j \in 1..n : s[i] = s[j] => i = j
  PROVE  n <= WalkLimit
<1>1. IsFiniteSet(Addr) /\ Cardinality(Addr) = WalkLimit
  <2>1. /\ IsFiniteSet(Arenas) /\ Cardinality(Arenas) = NumArenas
        /\ IsFiniteSet(1..MaxWrites) /\ Cardinality(1..MaxWrites) = MaxWrites
    BY ConstantFacts, FS_Interval DEF Arenas
  <2>2. /\ IsFiniteSet(Arenas \X (1..MaxWrites))
        /\ Cardinality(Arenas \X (1..MaxWrites)) = Cardinality(Arenas) * Cardinality(1..MaxWrites)
    BY <2>1, FS_Product
  <2> QED
    BY <2>1, <2>2 DEF Addr, WalkLimit
<1>2. IsFiniteSet(1..n) /\ Cardinality(1..n) = n
  BY FS_Interval
<1>3. ~ (Cardinality(Addr) < Cardinality(1..n))
  BY <1>1, <1>2, FS_PigeonHole
<1>4. WalkLimit \in Nat
  BY ConstantFacts DEF WalkLimit
<1> QED
  BY <1>1, <1>2, <1>3, <1>4

\* A set of numbers that is not empty has a least member.
LEMMA LeastNumber ==
  ASSUME NEW A \in SUBSET Nat, A # {}
  PROVE  \E x \in A : \A y \in A : x <= y
<1>1. \E x \in A : \A y \in A : ~ (<<y, x>> \in OpToRel(<, Nat))
  BY NatLessThanWellFounded, WFMin
<1>2. \A x, y \in Nat : y < x => <<y, x>> \in OpToRel(<, Nat)
  BY DEF OpToRel
<1>3. \A x, y \in Nat : ~ (y < x) => x <= y
  OBVIOUS
<1> QED
  BY <1>1, <1>2, <1>3

\* The walk from the head visits the listed nodes in their order, then stays at nil.
LEMMA WalkFacts ==
  ASSUME NEW k \in Keys, NEW n \in 0..WalkLimit, NEW s \in [1..n -> Addr], Chain(k, n, s)
  PROVE  \A i \in 0..WalkLimit : Walk(k)[i] = IF i < n THEN s[i + 1] ELSE Nil
<1> DEFINE Step(w) == [i \in 0..WalkLimit |-> IF i = 0 THEN head[k]
                         ELSE IF w[i - 1] = Nil THEN Nil ELSE node[w[i - 1]].next]
           g == [i \in 0..WalkLimit |-> IF i < n THEN s[i + 1] ELSE Nil]
           w == Walk(k)
<1>0. WalkLimit \in Nat /\ n \in Nat
  BY ConstantFacts DEF WalkLimit
<1>1. w = CHOOSE f : f = Step(f)
  BY DEF Walk
<1>2. g = Step(g)
  <2>1. ASSUME NEW i \in 0..WalkLimit PROVE g[i] = Step(g)[i]
    <3>1. CASE i = 0
      BY <1>0, <3>1 DEF Chain
    <3>2. CASE i # 0 /\ i - 1 < n
      <4>1. i \in 1..n /\ i - 1 \in 0..WalkLimit /\ g[i - 1] = s[i]
        BY <1>0, <3>2
      <4>2. s[i] # Nil
        BY <4>1, ConstantFacts
      <4>3. node[s[i]].next = IF i = n THEN Nil ELSE s[i + 1]
        BY <4>1 DEF Chain
      <4> QED
        BY <1>0, <3>2, <4>1, <4>2, <4>3
    <3>3. CASE i # 0 /\ ~ (i - 1 < n)
      <4>1. i - 1 \in 0..WalkLimit /\ g[i - 1] = Nil /\ g[i] = Nil
        BY <1>0, <3>3
      <4> QED
        BY <3>3, <4>1
    <3> QED
      BY <3>1, <3>2, <3>3
  <2> QED
    BY <2>1
<1>3. w = Step(w)
  <2> HIDE DEF g, Step, w
  <2> QED
    BY <1>1, <1>2
<1>4. \A i \in 0..WalkLimit : w[i] = g[i]
  <2> SUFFICES ASSUME ~ \A i \in 0..WalkLimit : w[i] = g[i] PROVE FALSE
    OBVIOUS
  <2> DEFINE D == {i \in 0..WalkLimit : w[i] # g[i]}
  <2>1. D \in SUBSET Nat /\ D # {}
    BY <1>0
  <2>2. PICK i \in D : \A j \in D : i <= j
    <3> HIDE DEF D
    <3> QED
      BY <2>1, LeastNumber
  <2> HIDE DEF w, g
  <2>3. i \in 0..WalkLimit /\ w[i] # g[i]
    OBVIOUS
  <2>4. w[i] = Step(w)[i] /\ g[i] = Step(g)[i]
    BY <1>2, <1>3
  <2>5. CASE i = 0
    BY <2>3, <2>4, <2>5
  <2>6. CASE i # 0
    <3>1. i - 1 \in 0..WalkLimit /\ i - 1 \notin D
      BY <1>0, <2>2, <2>3, <2>6
    <3>2. w[i - 1] = g[i - 1]
      BY <3>1
    <3> QED
      BY <2>3, <2>4, <2>6, <3>2
  <2> QED
    BY <2>5, <2>6
<1> QED
  BY <1>4

(***************************************************************************)
(* Chains                                                                   *)
(***************************************************************************)

LEMMA ChainInit == Init => ChainInv
<1> SUFFICES ASSUME Init, NEW k \in Keys
             PROVE  \E n \in 0..WalkLimit : \E s \in [1..n -> Addr] :
                      Chain(k, n, s) /\ \A t \in Txs : bts[t] # 0 => OwnFirst(t, k, n, s)
  BY DEF ChainInv
<1> DEFINE s == [i \in 1..0 |-> <<1, 1>>]
<1>1. s \in [1..0 -> Addr] /\ 0 \in 0..WalkLimit
  BY ConstantFacts DEF WalkLimit
<1>2. Chain(k, 0, s)
  BY DEF Init, Chain
<1>3. \A t \in Txs : bts[t] = 0
  BY DEF Init
<1> QED
  BY <1>1, <1>2, <1>3

\* What a step must leave alone for a chain, and a transaction's place in it, to stay.
SameNode(a) ==
  /\ node'[a].txnID = node[a].txnID /\ node'[a].key = node[a].key /\ node'[a].val = node[a].val
  /\ node'[a].deleted = node[a].deleted /\ node'[a].next = node[a].next

LEMMA ChainKept ==
  ASSUME NEW k, NEW n \in Nat, NEW s \in [1..n -> Addr], Chain(k, n, s),
         \A i \in 1..n : SameNode(s[i]), head'[k] = head[k]
  PROVE  Chain(k, n, s)'
BY DEF Chain, SameNode

LEMMA OwnFirstKept ==
  ASSUME NEW k, NEW n \in Nat, NEW s \in [1..n -> Addr], NEW t, OwnFirst(t, k, n, s),
         \A i \in 1..n : SameNode(s[i]), mine'[t][k] = mine[t][k], bts'[t] = bts[t]
  PROVE  OwnFirst(t, k, n, s)'
<1>1. \A i \in 1..n : node'[s[i]].txnID = node[s[i]].txnID
  BY DEF SameNode
<1>2. \A i \in 1..n : Matches(t, k, s[i]) => Matches(t, k, s[i])'
  BY DEF SameNode, Matches, Tombstone
<1>3. CASE mine[t][k] = 0
  BY <1>1, <1>3 DEF OwnFirst
<1>4. CASE mine[t][k] # 0
  <2>1. PICK i \in 1..n : /\ Matches(t, k, s[i])
                          /\ \A j \in 1..(i - 1) : node[s[j]].txnID # bts[t]
    BY <1>4 DEF OwnFirst
  <2>2. \A j \in 1..(i - 1) : j \in 1..n /\ node'[s[j]].txnID # bts'[t]
    BY <1>1, <2>1
  <2> QED
    BY <1>2, <1>4, <2>1, <2>2 DEF OwnFirst
<1> QED
  BY <1>3, <1>4

\* s with address a before its first.
Pushed(a, n, s) == [i \in 1..(n + 1) |-> IF i = 1 THEN a ELSE s[i - 1]]

IsPushed(p, a, n, s) ==
  /\ p \in [1..(n + 1) -> Addr] /\ p[1] = a
  /\ \A i \in 1..n : i + 1 \in 1..(n + 1) /\ p[i + 1] = s[i]
  /\ \A i \in 1..(n + 1) : i # 1 => i - 1 \in 1..n /\ p[i] = s[i - 1]
  /\ \A i, j \in 1..(n + 1) : p[i] = p[j] => i = j
  /\ n + 1 \in 0..WalkLimit

LEMMA PushedFacts ==
  ASSUME NEW n \in Nat, NEW s \in [1..n -> Addr], NEW a \in Addr, \A i \in 1..n : s[i] # a,
         \A i, j \in 1..n : s[i] = s[j] => i = j
  PROVE  IsPushed(Pushed(a, n, s), a, n, s)
<1> DEFINE p == Pushed(a, n, s)
<1>1. \A i \in 1..(n + 1) : i # 1 => i - 1 \in 1..n /\ p[i] = s[i - 1]
  BY DEF Pushed
<1>2. p \in [1..(n + 1) -> Addr] /\ p[1] = a
  <2>1. \A i \in 1..(n + 1) : (IF i = 1 THEN a ELSE s[i - 1]) \in Addr
    BY <1>1
  <2> QED
    BY <2>1 DEF Pushed
<1>3. \A i \in 1..n : i + 1 \in 1..(n + 1) /\ p[i + 1] = s[i]
  BY DEF Pushed
<1>4. \A i, j \in 1..(n + 1) : p[i] = p[j] => i = j
  <2> SUFFICES ASSUME NEW i \in 1..(n + 1), NEW j \in 1..(n + 1), p[i] = p[j] PROVE i = j
    OBVIOUS
  <2>1. CASE i = 1 \/ j = 1
    BY <1>1, <1>2, <2>1
  <2>2. CASE i # 1 /\ j # 1
    <3>1. i - 1 \in 1..n /\ j - 1 \in 1..n /\ s[i - 1] = s[j - 1]
      BY <1>1, <2>2
    <3>2. i - 1 = j - 1
      BY <3>1
    <3> QED
      BY <3>2
  <2> QED
    BY <2>1, <2>2
<1>5. n + 1 <= WalkLimit
  <2>1. n + 1 \in Nat
    OBVIOUS
  <2> HIDE DEF p
  <2> QED
    BY <1>2, <1>4, <2>1, RoomInAddr
<1>6. WalkLimit \in Nat
  BY ConstantFacts DEF WalkLimit
<1> QED
  BY <1>1, <1>2, <1>3, <1>4, <1>5, <1>6 DEF IsPushed

LEMMA ChainWrite ==
  ASSUME Inv, BeginInv, FreshInv, ChainInv,
         NEW t \in Txs, NEW k \in Keys, NEW op \in Ops, Write(t, k, op), NEW j \in Keys
  PROVE  \E n \in 0..WalkLimit : \E s \in [1..n -> Addr] :
           Chain(j, n, s)' /\ \A u \in Txs : bts'[u] # 0 => OwnFirst(u, j, n, s)'
<1>0. /\ node \in [Addr -> NodeType] /\ head \in [Keys -> Addr \cup {Nil}] /\ bts \in [Txs -> 0..MaxTS]
      /\ mine \in [Txs -> [Keys -> 0..Tombstone]] /\ youngOff \in [Arenas -> 0..MaxWrites]
  BY DEF Inv, TypeOK
<1>1. PICK a \in Arenas, m \in 1..MaxWrites : Wrote(t, k, op, a, m)
  BY WriteFacts
<1> DEFINE at == <<a, m>>
<1>2. /\ at \in Addr /\ node' = [node EXCEPT ![at] = NewNode(t, k, op, m)]
      /\ head' = [head EXCEPT ![k] = at] /\ bts' = bts /\ bts[t] # 0
      /\ mine' = [mine EXCEPT ![t][k] = IF op = "Delete" THEN Tombstone ELSE m]
  BY <1>1 DEF Wrote
<1>3. node[at].txnID = 0
  <2>1. slotOf[t] \in Slots /\ a = sarena[slotOf[t]] /\ m = youngOff[a] + 1
    BY <1>1 DEF Wrote
  <2>2. a # 0 /\ youngOff[a] \in Nat
    BY <1>0, ConstantFacts DEF Arenas
  <2>3. at[1] = a /\ at[2] = m
    OBVIOUS
  <2>4. at[2] > youngOff[at[1]]
    BY <2>1, <2>2, <2>3
  <2> QED
    BY <1>2, <2>1, <2>2, <2>3, <2>4 DEF FreshInv
<1>3a. PICK n \in 0..WalkLimit : \E s \in [1..n -> Addr] :
         Chain(j, n, s) /\ \A u \in Txs : bts[u] # 0 => OwnFirst(u, j, n, s)
  BY DEF ChainInv
<1>4. PICK s \in [1..n -> Addr] :
         Chain(j, n, s) /\ \A u \in Txs : bts[u] # 0 => OwnFirst(u, j, n, s)
  BY <1>3a
<1> HIDE DEF at
<1>5. n \in Nat /\ \A i \in 1..n : s[i] \in Addr /\ s[i] # at
  BY <1>3, <1>4 DEF Chain
<1>6. \A i \in 1..n : SameNode(s[i])
  BY <1>0, <1>2, <1>5 DEF SameNode
<1>7. CASE j # k
  <2>1. head'[j] = head[j] /\ \A u \in Txs : mine'[u][j] = mine[u][j]
    BY <1>0, <1>2, <1>7
  <2>2. Chain(j, n, s)'
    BY <1>4, <1>5, <1>6, <2>1, ChainKept
  <2>3. \A u \in Txs : bts'[u] # 0 => OwnFirst(u, j, n, s)'
    BY <1>2, <1>4, <1>5, <1>6, <2>1, OwnFirstKept
  <2> QED
    BY <2>2, <2>3
<1>8. CASE j = k
  <2> DEFINE p == Pushed(at, n, s)
  <2>1. IsPushed(p, at, n, s)
    <3>1. \A i, l \in 1..n : s[i] = s[l] => i = l
      BY <1>4 DEF Chain
    <3>2. n \in Nat /\ s \in [1..n -> Addr] /\ at \in Addr /\ \A i \in 1..n : s[i] # at
      BY <1>2, <1>5
    <3> QED
      BY <3>1, <3>2, PushedFacts
  <2> HIDE DEF p
  <2>2. /\ p \in [1..(n + 1) -> Addr] /\ p[1] = at
        /\ \A i \in 1..n : i + 1 \in 1..(n + 1) /\ p[i + 1] = s[i]
        /\ \A i \in 1..(n + 1) : i # 1 => i - 1 \in 1..n /\ p[i] = s[i - 1]
        /\ \A i, l \in 1..(n + 1) : p[i] = p[l] => i = l
        /\ n + 1 \in 0..WalkLimit
    BY <2>1 DEF IsPushed
  <2>3. /\ node'[at].txnID = bts[t] /\ node'[at].key = k /\ node'[at].next = head[k]
        /\ node'[at].val = m /\ node'[at].deleted = (op = "Delete")
    BY <1>0, <1>2 DEF NewNode
  <2>4. Chain(k, n + 1, p)'
    <3>1. head'[k] = p[1]
      BY <1>0, <1>2, <2>2
    <3>2. node'[p[1]].next = IF 1 = n + 1 THEN Nil ELSE p[1 + 1]
      BY <1>4, <1>5, <1>8, <2>2, <2>3 DEF Chain
    <3>3. ASSUME NEW i \in 1..(n + 1), i # 1
          PROVE  /\ node'[p[i]].next = IF i = n + 1 THEN Nil ELSE p[i + 1]
                 /\ node'[p[i]].key = k /\ node'[p[i]].txnID # 0
      <4>1. i - 1 \in 1..n /\ p[i] = s[i - 1]
        BY <2>2, <3>3
      <4>2. node[s[i - 1]].next = IF i - 1 = n THEN Nil ELSE s[(i - 1) + 1]
        BY <1>4, <4>1 DEF Chain
      <4>3. node[s[i - 1]].key = k /\ node[s[i - 1]].txnID # 0
        BY <1>4, <1>8, <4>1 DEF Chain
      <4>4. SameNode(s[i - 1])
        BY <1>6, <4>1
      <4>5. i # n + 1 => i \in 1..n /\ (i - 1) + 1 = i
        BY <1>5
      <4> QED
        BY <1>5, <2>2, <4>1, <4>2, <4>3, <4>4, <4>5 DEF SameNode
    <3>4. node'[p[1]].key = k /\ node'[p[1]].txnID # 0
      BY <1>2, <2>2, <2>3
    <3> QED
      BY <1>5, <2>2, <3>1, <3>2, <3>3, <3>4 DEF Chain
  <2>5. OwnFirst(t, k, n + 1, p)'
    <3>1. mine'[t][k] = IF op = "Delete" THEN Tombstone ELSE m
      BY <1>0, <1>2
    <3>2. m # Tombstone /\ Tombstone # 0 /\ m # 0 /\ Tombstone' = Tombstone
      BY ConstantFacts DEF Tombstone
    <3>3. Matches(t, k, p[1])'
      <4>1. node'[p[1]].deleted <=> mine'[t][k] = Tombstone
        BY <2>2, <2>3, <3>1, <3>2
      <4>2. mine'[t][k] \in {node'[p[1]].val, Tombstone}
        BY <2>2, <2>3, <3>1
      <4> QED
        BY <1>2, <2>2, <2>3, <3>2, <4>1, <4>2 DEF Matches
    <3>4. 1 \in 1..(n + 1) /\ 1..(1 - 1) = {}
      BY <1>5
    <3> QED
      BY <3>1, <3>2, <3>3, <3>4 DEF OwnFirst
  <2>6. ASSUME NEW u \in Txs, u # t, bts'[u] # 0 PROVE OwnFirst(u, k, n + 1, p)'
    <3>1. OwnFirst(u, k, n, s)'
      <4>1. mine'[u][k] = mine[u][k] /\ bts'[u] = bts[u]
        BY <1>0, <1>2, <2>6
      <4> QED
        BY <1>4, <1>5, <1>6, <1>8, <2>6, <4>1, OwnFirstKept
    <3>2. node'[p[1]].txnID # bts'[u]
      BY <1>2, <2>2, <2>3, <2>6 DEF BeginInv
    <3>3. CASE mine'[u][k] = 0
      <4>1. \A i \in 1..n : node'[s[i]].txnID # bts'[u]
        BY <3>1, <3>3 DEF OwnFirst
      <4>2. \A i \in 1..(n + 1) : node'[p[i]].txnID # bts'[u]
        BY <2>2, <3>2, <4>1
      <4> QED
        BY <3>3, <4>2 DEF OwnFirst
    <3>4. CASE mine'[u][k] # 0
      <4>1. PICK i \in 1..n : /\ Matches(u, k, s[i])'
                              /\ \A l \in 1..(i - 1) : node'[s[l]].txnID # bts'[u]
        BY <3>1, <3>4 DEF OwnFirst
      <4>2. i + 1 \in 1..(n + 1) /\ Matches(u, k, p[i + 1])'
        <5>1. i + 1 \in 1..(n + 1) /\ p[i + 1] = s[i]
          BY <2>2
        <5> QED
          BY <4>1, <5>1 DEF Matches
      <4>3. ASSUME NEW l \in 1..((i + 1) - 1) PROVE node'[p[l]].txnID # bts'[u]
        <5>1. CASE l = 1
          BY <3>2, <5>1
        <5>2. CASE l # 1
          <6>1. l \in 1..(n + 1) /\ l - 1 \in 1..(i - 1)
            BY <1>5, <5>2
          <6>2. p[l] = s[l - 1]
            BY <2>2, <5>2, <6>1
          <6> QED
            BY <4>1, <6>1, <6>2
        <5> QED
          BY <5>1, <5>2
      <4> QED
        BY <3>4, <4>2, <4>3 DEF OwnFirst
    <3> QED
      BY <3>3, <3>4
  <2> QED
    BY <1>8, <2>2, <2>4, <2>5, <2>6
<1> QED
  BY <1>7, <1>8

LEMMA ChainInvStep ==
  Inv /\ BeginInv /\ FreshInv /\ ChainInv /\ [Next]_vars => ChainInv'
<1> SUFFICES ASSUME Inv, BeginInv, FreshInv, ChainInv, [Next]_vars PROVE ChainInv'
  OBVIOUS
<1>0. WalkLimit' = WalkLimit /\ Addr' = Addr
  BY DEF WalkLimit, Addr, Arenas
<1>1. ASSUME NEW t \in Txs, IsWrite(t) PROVE ChainInv'
  <2>1. PICK k \in Keys, op \in Ops : Write(t, k, op)
    BY <1>1 DEF IsWrite
  <2> QED
    BY <1>0, <2>1, ChainWrite DEF ChainInv
<1>2. CASE ~ \E t \in Txs : IsWrite(t)
  <2> SUFFICES ASSUME NEW k \in Keys
               PROVE  \E n \in 0..WalkLimit : \E s \in [1..n -> Addr] :
                        Chain(k, n, s)' /\ \A u \in Txs : bts'[u] # 0 => OwnFirst(u, k, n, s)'
    BY <1>0 DEF ChainInv
  <2>0. PICK n \in 0..WalkLimit : \E s \in [1..n -> Addr] :
           Chain(k, n, s) /\ \A u \in Txs : bts[u] # 0 => OwnFirst(u, k, n, s)
    BY DEF ChainInv
  <2>1. PICK s \in [1..n -> Addr] :
           Chain(k, n, s) /\ \A u \in Txs : bts[u] # 0 => OwnFirst(u, k, n, s)
    BY <2>0
  <2>2. n \in Nat /\ \A i \in 1..n : s[i] \in Addr
    OBVIOUS
  <2>3. (\A i \in 1..n : SameNode(s[i])) /\ head' = head /\ mine' = mine
    BY <1>2, <2>2, ChainFrame DEF SameNode
  <2>4. Chain(k, n, s)'
    BY <2>1, <2>2, <2>3, ChainKept
  <2>5. ASSUME NEW u \in Txs, bts'[u] = bts[u], bts'[u] # 0 PROVE OwnFirst(u, k, n, s)'
    BY <2>1, <2>2, <2>3, <2>5, OwnFirstKept
  <2>6. ASSUME NEW t \in Txs, BeginTS(t) PROVE OwnFirst(t, k, n, s)'
    <3>1. mine'[t][k] = 0
      BY <2>3, <2>6, BeginFacts DEF BeginInv
    <3>2. \A i \in 1..n : node'[s[i]].txnID # bts'[t]
      BY <2>2, <2>6, BeginFacts
    <3> QED
      BY <3>1, <3>2 DEF OwnFirst
  <2>7. ASSUME NEW u \in Txs, bts'[u] # 0 PROVE OwnFirst(u, k, n, s)'
    <3>1. bts'[u] = bts[u] \/ BeginTS(u)
      <4>1. ASSUME NEW t \in Txs, BeginTS(t), t # u PROVE bts'[u] = bts[u]
        BY <4>1, BeginFacts
      <4> QED
        BY <4>1, BtsFrame
    <3> QED
      BY <2>5, <2>6, <2>7, <3>1
  <2> QED
    BY <2>4, <2>7
<1> QED
  BY <1>1, <1>2

\* The invariant of an instance whose sync.Pool gives back no arena.
FreshIso == BeginInv /\ FreshInv /\ ChainInv

LEMMA FreshIsoInvariance ==
  ASSUME ~ PoolMayReuse
  PROVE  Spec => [](Inv /\ FreshIso)
<1>1. Init => FreshIso
  BY BeginInit, FreshInit, ChainInit DEF FreshIso
<1>2. Inv /\ FreshIso /\ [Next]_vars => FreshIso'
  BY BeginInvStep, FreshInvStep, ChainInvStep DEF FreshIso
<1> QED
  BY <1>1, <1>2, Invariance, PTL DEF Spec

LEMMA ChainsAreWellFormed == ChainInv => ChainsWellFormed
<1> SUFFICES ASSUME ChainInv, NEW k \in Keys
             PROVE  \E i \in 0..WalkLimit :
                      /\ Walk(k)[i] = Nil
                      /\ \A j \in 0..(i - 1) : Walk(k)[j] # Nil => node[Walk(k)[j]].key = k
  BY DEF ChainsWellFormed
<1>1. PICK n \in 0..WalkLimit : \E s \in [1..n -> Addr] : Chain(k, n, s)
  BY DEF ChainInv
<1>2. PICK s \in [1..n -> Addr] : Chain(k, n, s)
  BY <1>1
<1>3. WalkLimit \in Nat /\ n \in Nat /\ n <= WalkLimit
  BY ConstantFacts DEF WalkLimit
<1>4. \A i \in 0..WalkLimit : Walk(k)[i] = IF i < n THEN s[i + 1] ELSE Nil
  BY <1>2, WalkFacts
<1>5. Walk(k)[n] = Nil
  BY <1>3, <1>4
<1>6. ASSUME NEW j \in 0..(n - 1) PROVE node[Walk(k)[j]].key = k
  <2>1. j \in 0..WalkLimit /\ j < n /\ j + 1 \in 1..n
    BY <1>3
  <2>2. Walk(k)[j] = s[j + 1]
    BY <1>4, <2>1
  <2> QED
    BY <1>2, <2>1, <2>2 DEF Chain
<1> QED
  BY <1>5, <1>6

LEMMA OwnWritesAreRead == Inv /\ BeginInv /\ ChainInv => ReadYourWrites
<1> SUFFICES ASSUME Inv, BeginInv, ChainInv, NEW t \in Txs, NEW k \in Keys, pc[t] = "open", mine[t][k] # 0
             PROVE  GetValue(t, k) = IF mine[t][k] = Tombstone THEN <<0, 0>> ELSE <<bts[t], mine[t][k]>>
  BY DEF ReadYourWrites
<1>0. bts[t] # 0 /\ stxn[slotOf[t]] = bts[t] /\ sbegin[slotOf[t]] = bts[t]
  BY DEF Inv, IInv, OwnerInv, BeginInv
<1>1. PICK n \in 0..WalkLimit : \E s \in [1..n -> Addr] : Chain(k, n, s) /\ OwnFirst(t, k, n, s)
  BY <1>0 DEF ChainInv
<1>2. PICK s \in [1..n -> Addr] : Chain(k, n, s) /\ OwnFirst(t, k, n, s)
  BY <1>1
<1>3. WalkLimit \in Nat /\ n \in Nat /\ n <= WalkLimit
  BY ConstantFacts DEF WalkLimit
<1>4. \A i \in 0..WalkLimit : Walk(k)[i] = IF i < n THEN s[i + 1] ELSE Nil
  BY <1>2, WalkFacts
<1>5. PICK i \in 1..n : /\ Matches(t, k, s[i])
                        /\ \A j \in 1..(i - 1) : node[s[j]].txnID # bts[t]
  BY <1>2 DEF OwnFirst
<1>6. \A a \in Addr : a \in OwnNodes(t) <=> node[a].txnID = bts[t]
  BY <1>0 DEF OwnNodes, BeginInv
<1> DEFINE S == OwnNodes(t)
<1>7. s[i] \in Addr /\ s[i] \in S
  BY <1>5, <1>6 DEF Matches
<1>8. \A j \in 0..((i - 1) - 1) : Walk(k)[j] \notin S
  <2> TAKE j \in 0..((i - 1) - 1)
  <2>1. j \in 0..WalkLimit /\ j < n /\ j + 1 \in 1..(i - 1) /\ j + 1 \in 1..n
    BY <1>3
  <2>2. Walk(k)[j] = s[j + 1]
    BY <1>4, <2>1
  <2> QED
    BY <1>5, <1>6, <2>1, <2>2
<1>9. i - 1 \in 0..WalkLimit /\ Walk(k)[i - 1] = s[i]
  BY <1>3, <1>4
<1>10. IsFirst(k, S, s[i])
  <2> HIDE DEF S
  <2> QED
    BY <1>7, <1>8, <1>9 DEF IsFirst
\* Nothing else comes first.
<1>11. ASSUME NEW b \in Addr, IsFirst(k, S, b) PROVE b = s[i]
  <2> HIDE DEF S
  <2>1. PICK l \in 0..WalkLimit : Walk(k)[l] = b /\ \A j \in 0..(l - 1) : Walk(k)[j] \notin S
    BY <1>11 DEF IsFirst
  <2>2. b \in S
    BY <1>11 DEF IsFirst
  <2>3. ~ (l < i - 1)
    BY <1>8, <2>1, <2>2
  <2>4. ~ (i - 1 < l)
    BY <1>7, <1>9, <2>1
  <2> QED
    BY <1>9, <2>1, <2>3, <2>4
<1>12. GetResult(t, k) = s[i]
  <2>1. GetResult(t, k) = CHOOSE a \in Addr : IsFirst(k, S, a)
    BY <1>7, <1>10 DEF GetResult
  <2> HIDE DEF S
  <2>2. \E a \in Addr : IsFirst(k, S, a)
    BY <1>7, <1>10
  <2>3. (CHOOSE a \in Addr : IsFirst(k, S, a)) \in Addr /\ IsFirst(k, S, CHOOSE a \in Addr : IsFirst(k, S, a))
    BY <2>2
  <2> QED
    BY <1>11, <2>1, <2>3
<1>13. s[i] # Nil /\ node[s[i]] \in NodeType
  BY <1>7, ConstantFacts DEF Inv, TypeOK
<1>14. node[s[i]].val # Tombstone
  BY <1>13, ConstantFacts DEF NodeType, Tombstone
<1> QED
  BY <1>5, <1>12, <1>13, <1>14 DEF GetValue, Matches

\* As long as no arena is carved twice, every chain ends in nil, has no cycle and holds the
\* versions of its own key only, whatever the interleaving of writers, aborts and retries.
THEOREM ChainsStayWellFormed ==
  ASSUME ~ PoolMayReuse
  PROVE  Spec => []ChainsWellFormed
<1>1. Inv /\ FreshIso => ChainsWellFormed
  BY ChainsAreWellFormed DEF FreshIso
<1> QED
  BY <1>1, FreshIsoInvariance, PTL

\* As long as no arena is carved twice, a transaction reads its own last write of a key.
THEOREM OwnWritesStayReadable ==
  ASSUME ~ PoolMayReuse
  PROVE  Spec => []ReadYourWrites
<1>1. Inv /\ FreshIso => ReadYourWrites
  BY OwnWritesAreRead DEF FreshIso
<1> QED
  BY <1>1, FreshIsoInvariance, PTL
=============================================================================
