-------------------------- MODULE LsmEngine_proofs --------------------------
(***************************************************************************)
(* The three invariants of the LSM engine, proved for every number of       *)
(* clients, keys, writes, lives and faults and every capacity.              *)
(*                                                                          *)
(* The inductive invariant follows a value on its way to level 0: the       *)
(* active memtable, the memtable a client has frozen and not yet sent, the  *)
(* queue, the job of flushLoop, a listed file. Its parts say what each of   *)
(* these stations holds, and in which order the stations stand.             *)
(***************************************************************************)
EXTENDS LsmEngine, TLAPS, SequenceTheorems, FiniteSetTheorems, WellFoundedInduction

\* The program counters of a client and of flushLoop.
ClientPCs == {"idle", "insert", "capture", "swap", "request", "blocked", "erase", "wait",
              "stop", "closing"}
LoopPCs == {"idle", "rename", "apply", "exited"}

Mapping == [Keys -> Nat]
Memtable == [kv : Mapping, size : Nat, frozen : BOOLEAN]
Call == [pc : ClientPCs, op : {"none", "write", "sync", "close"}, key : Nat, mem : Nat,
         num : Nat, owed : SUBSET Nat]

Sending == {"request", "blocked"}         \* a memtable captured, replaced and not enqueued
Holding == {"swap", "request", "blocked"} \* a memtable captured and not enqueued
Flushing == {"rename", "apply"}           \* flushLoop has a job

\* Every value stored under a key is the number of a write of that key, in the history ws.
Faithful(kv, ws) ==
  \A k \in Keys : kv[k] # Missing => kv[k] \in 1..Len(ws) /\ ws[kv[k]] = k

HistoryTypes ==
  /\ writes \in Seq(Keys) /\ acked \subseteq 1..Len(writes) /\ synced \subseteq 1..Len(writes)
FlagTypes == done \in BOOLEAN /\ lastErr \in BOOLEAN /\ up \in BOOLEAN

\* Memtables are numbered in the order they were made, and the last one is active.
MemTypes ==
  /\ mems \in Seq(Memtable) /\ Len(mems) >= 1 /\ activeMem = Len(mems)
  /\ memtables \in Seq(1..Len(mems)) /\ Len(memtables) >= 1
  /\ \A m \in 1..Len(mems) : Faithful(mems[m].kv, writes)

\* A call in an engine of M memtables and W writes; the one in sender is blocked.
CallOK(r, M, W) ==
  /\ r.pc = "insert" => r.key \in Keys /\ r.mem \in 1..M /\ r.op = "write"
  /\ r.pc \in Holding => r.mem \in 1..M
  /\ r.op = "write" /\ r.pc # "insert" => r.num \in 1..W
  /\ r.owed \subseteq 1..W

ClientTypes ==
  /\ cli \in [Clients -> Call]
  /\ \A c \in Clients : CallOK(cli[c], Len(mems), Len(writes))
  /\ sender \in Clients \cup {Nobody}
  /\ \A c \in Clients : cli[c].pc = "blocked" <=> sender = c

JobTypes ==
  /\ pending \in Nat /\ fileID \in Nat
  /\ queue \in Seq([mem : 1..Len(mems), id : 1..fileID]) /\ Len(queue) <= QueueCap
  /\ sender # Nobody => fileID >= 1

\* A job that runs holds keys of its memtable; a renamed file has what the job read.
LoopTypes ==
  /\ loop = [pc |-> loop.pc, job |-> loop.job, data |-> loop.data, meta |-> loop.meta]
  /\ loop.pc \in LoopPCs
  /\ loop.pc \notin Flushing => loop.job = NoJob
  /\ loop.pc \in Flushing =>
       /\ loop.job \in [mem : 1..Len(mems), id : 1..fileID]
       /\ loop.data \in Mapping /\ Faithful(loop.data, writes)
       /\ KeysIn(loop.data) \subseteq KeysIn(mems[loop.job.mem].kv)
  /\ loop.pc = "apply" => loop.meta \in DOMAIN files /\ files[loop.meta] = loop.data

FileTypes ==
  /\ \A f \in DOMAIN files :
       /\ f \in Names /\ f.min <= f.max
       /\ files[f] \in Mapping /\ Faithful(files[f], writes)
       /\ \A k \in KeysIn(files[f]) : f.min <= k /\ k <= f.max
  /\ levels0 \in Seq(Names)
  /\ \A i \in 1..Len(levels0) : levels0[i] \in DOMAIN files

Types ==
  HistoryTypes /\ FlagTypes /\ MemTypes /\ ClientTypes /\ JobTypes /\ LoopTypes /\ FileTypes

\* Nobody is blocked in a send once Stop was called, and nothing is queued once flushLoop left.
Stopped ==
  /\ done => sender = Nobody
  /\ loop.pc = "exited" => done /\ queue = <<>>

Base == Types /\ JobsAccounted /\ Stopped

-----------------------------------------------------------------------------
(* What a Sync is owed, and where it stands *)

InMem(m, n) == mems[m].kv[writes[n]] >= n
InQueue(n) == \E i \in 1..Len(queue) : InMem(queue[i].mem, n)
InLoop(n) == loop.pc \in Flushing /\ loop.data[writes[n]] >= n
Underway(n) == InQueue(n) \/ InLoop(n) \/ OnDisk(n)

\* A write that a Sync owes its caller: in the memtable it sends, then under way.
Due(c, n) ==
  /\ cli[c].op = "sync"
  /\ cli[c].pc \in Holding \cup {"erase", "wait"}
  /\ cli[c].pc \in Holding => InMem(cli[c].mem, n)
  /\ cli[c].pc \in {"erase", "wait"} => lastErr \/ Underway(n)

Owed ==
  ~ clobbered =>
    /\ \A n \in synced : OnDisk(n)
    /\ \A c \in Clients : \A n \in cli[c].owed : Due(c, n)

-----------------------------------------------------------------------------
(* Calls that do not overlap: the stations of the memtables, in order *)

OneBusy == \A c, d \in Clients : Busy(c) /\ Busy(d) => c = d

\* The memtables that still have to reach level 0, and the place of each in the line: the job,
\* the queue, the client that sends, the active memtable.
QueueInLine ==
  /\ \A i, j \in 1..Len(queue) : i < j => queue[i].mem < queue[j].mem
  /\ \A i \in 1..Len(queue) : queue[i].mem < activeMem
JobInLine ==
  loop.pc \in Flushing =>
    /\ loop.job.mem < activeMem
    /\ loop.data = mems[loop.job.mem].kv
    /\ \A i \in 1..Len(queue) : loop.job.mem < queue[i].mem
CallInLine(c) ==
  /\ cli[c].pc \in {"insert", "swap"} => cli[c].mem = activeMem
  /\ cli[c].pc \in Sending =>
       /\ cli[c].mem < activeMem
       /\ \A i \in 1..Len(queue) : queue[i].mem < cli[c].mem
       /\ loop.pc \in Flushing => loop.job.mem < cli[c].mem
InLine == QueueInLine /\ JobInLine /\ \A c \in Clients : CallInLine(c)

\* A memtable made later has later values.
Later(kv1, kv2) == \A k \in Keys : kv1[k] # Missing /\ kv2[k] # Missing => kv1[k] < kv2[k]
MemsOrdered == \A m, l \in 1..Len(mems) : m < l => Later(mems[m].kv, mems[l].kv)

\* The memtable m still has to reach level 0.
Waits(m) ==
  \/ m = activeMem
  \/ \E i \in 1..Len(queue) : m = queue[i].mem
  \/ \E c \in Clients : cli[c].pc \in Holding /\ m = cli[c].mem
  \/ loop.pc \in Flushing /\ m = loop.job.mem

\* What waits is later than what level 0 has.
FilesOlder ==
  \A i \in 1..Len(levels0) : \A m \in 1..Len(mems) :
    Waits(m) => Later(files[levels0[i]], mems[m].kv)

Newest ==
  \A i, j \in 1..Len(levels0) : i < j => Later(files[levels0[j]], files[levels0[i]])

\* The list: the active memtable, before it the one being sent.
Listing == {"request", "blocked", "erase"}
ListShape ==
  /\ (\A c \in Clients : cli[c].pc \notin Listing) => memtables = <<activeMem>>
  /\ \A c \in Clients : cli[c].pc \in Listing => Len(memtables) = 2 /\ memtables[2] = activeMem
  /\ (\A c \in Clients : cli[c].pc # "swap") => ~ mems[activeMem].frozen

Ordered ==
  ~ overlapped =>
    /\ OneBusy /\ InLine /\ MemsOrdered /\ ListShape
    /\ ~ clobbered => FilesOlder /\ Newest

\* Where a write that is acknowledged, or about to be, can be found.
Held(n) ==
  \/ Underway(n) \/ InMem(activeMem, n)
  \/ \E c \in Clients : cli[c].pc \in Holding /\ InMem(cli[c].mem, n)

Kept ==
  ~ overlapped /\ ~ clobbered /\ ~ lastErr /\ ~ done =>
    /\ \A n \in acked : Held(n)
    /\ \A c \in Clients : cli[c].op = "write" /\ cli[c].pc # "insert" => Held(cli[c].num)

IInv == Base /\ Owed /\ Ordered /\ Kept

(***************************************************************************)
(* Facts about the constants and the operators                              *)
(***************************************************************************)

LEMMA ConstantFacts ==
  /\ Keys \subseteq Nat /\ IsFiniteSet(Keys) /\ IsFiniteSet(Clients) /\ Nobody \notin Clients
  /\ MemCap \in Nat /\ MemCap >= 1 /\ QueueCap \in Nat /\ QueueCap >= 1
BY EngineAssumption DEF Nobody

\* A finite set of numbers has a last member: one above which the fewest members are.
LEMMA LastFacts ==
  ASSUME NEW A \in SUBSET Nat, IsFiniteSet(A), A # {}
  PROVE  LastOf(A) \in A /\ \A y \in A : y <= LastOf(A)
<1> DEFINE Above(x) == {y \in A : y > x}
           T == {Above(x) : x \in A}
<1>1. T \subseteq FiniteSubsetsOf(A) /\ T # {}
  <2>1. \A x \in A : Above(x) \in SUBSET A
    OBVIOUS
  <2>2. FiniteSubsetsOf(A) = SUBSET A
    BY FS_FiniteSubsetsOfFinite
  <2>3. T # {}
    OBVIOUS
  <2> HIDE DEF Above
  <2>4. T \subseteq SUBSET A
    BY <2>1
  <2> QED
    BY <2>2, <2>3, <2>4
<1>2. PICK X \in T : \A Y \in T : ~ (<<Y, X>> \in StrictSubsetOrdering(A))
  <2> DEFINE R == StrictSubsetOrdering(A)
             S == FiniteSubsetsOf(A)
  <2>1. IsWellFoundedOn(R, S)
    BY FS_StrictSubsetOrderingWellFounded
  <2> HIDE DEF T, R, S
  <2>2. T \subseteq S
    BY <1>1 DEF S
  <2>3. \E X \in T : \A Y \in T : ~ (<<Y, X>> \in R)
    BY <1>1, <2>1, <2>2, WFMin
  <2> QED
    BY <2>3 DEF R
<1>3. PICK x \in A : X = Above(x)
  BY <1>2
<1>4. \A z \in Above(x) : FALSE
  <2> SUFFICES ASSUME NEW z \in Above(x) PROVE FALSE
    OBVIOUS
  <2>1. z \in A /\ x \in A /\ z > x /\ A \subseteq Nat
    OBVIOUS
  <2>2. Above(z) \subseteq Above(x)
    <3>1. \A y \in A : y > z => y > x
      BY <2>1
    <3> QED
      BY <3>1
  <2>3. z \notin Above(z)
    BY <2>1
  <2> HIDE DEF Above
  <2>4. Above(z) \in T
    BY <2>1
  <2>5. Above(z) \in SUBSET A /\ X \in SUBSET A /\ Above(z) \subseteq X /\ Above(z) # X
    BY <1>3, <2>2, <2>3 DEF Above
  <2>6. \A Y, Z \in SUBSET A :
          Y \subseteq Z /\ Y # Z => <<Y, Z>> \in StrictSubsetOrdering(A)
    BY DEF StrictSubsetOrdering
  <2>7. <<Above(z), X>> \in StrictSubsetOrdering(A)
    BY <2>5, <2>6
  <2> QED
    BY <1>2, <2>4, <2>7
<1>5. \A y \in A : y <= x
  BY <1>4
<1> QED
  BY <1>5 DEF LastOf

\* A set of numbers has a first member: the last number that no member is below.
LEMMA FirstFacts ==
  ASSUME NEW A \in SUBSET Nat, A # {}
  PROVE  FirstOf(A) \in A /\ \A y \in A : FirstOf(A) <= y
<1> DEFINE B == {n \in Nat : \A y \in A : n <= y}
           m == LastOf(B)
<1>1. PICK x \in A : TRUE
  OBVIOUS
<1>2. B \in SUBSET Nat /\ B \in SUBSET (0..x) /\ 0 \in B
  BY <1>1
<1>3. IsFiniteSet(B)
  <2>1. IsFiniteSet(0..x)
    BY FS_Interval
  <2> HIDE DEF B
  <2> QED
    BY <1>2, <2>1, FS_Subset
<1>4. m \in B /\ \A y \in B : y <= m
  BY <1>2, <1>3, LastFacts
<1>5. m \in Nat /\ (\A y \in A : m <= y) /\ m + 1 \notin B
  BY <1>4
<1> HIDE DEF m
<1>6. m \in A
  <2>1. PICK y \in A : ~ (m + 1 <= y)
    BY <1>5
  <2>2. y \in Nat /\ m <= y
    BY <1>5
  <2> QED
    BY <1>5, <2>1, <2>2
<1> QED
  BY <1>5, <1>6 DEF FirstOf

(***************************************************************************)
(* Steps                                                                    *)
(***************************************************************************)

\* A step is one of the actions, or changes nothing.
LEMMA NextSteps ==
  ASSUME [Next]_vars, NEW P,
         \A c \in Clients : \A k \in Keys : (BeginWrite(c, k) => P),
         \A c \in Clients : \A op \in {"sync", "close"} : (BeginSync(c, op) => P),
         \A c \in Clients : (BeginCloseEmpty(c) => P),
         \A c \in Clients : (Insert(c) => P),
         \A c \in Clients : (Capture(c) => P),
         \A c \in Clients : (Swap(c) => P),
         \A c \in Clients : (RequestDropped(c) => P),
         \A c \in Clients : (Request(c) => P),
         \A c \in Clients : (RequestBlocks(c) => P),
         \A c \in Clients : (RequestSent(c) => P),
         \A c \in Clients : (Erase(c) => P),
         \A c \in Clients : (SyncReturns(c) => P),
         \A c \in Clients : (CloseSynced(c) => P),
         \A c \in Clients : (CloseStops(c) => P),
         \A c \in Clients : (CloseEnds(c) => P),
         (StopFlush => P), (Kill => P), (Reopen => P),
         (LoopTake => P), (LoopExit => P), (DropEmpty => P), (RenameSST => P),
         (ApplyManifest => P), (JobFails => P),
         vars' = vars => P
  PROVE  P
BY DEF Next, ClientStep, LoopStep

(***************************************************************************)
(* What the actions do to one variable                                      *)
(***************************************************************************)

\* A call goes on: the other calls are where they were.
LEMMA NowFacts ==
  ASSUME cli \in [Clients -> Call], NEW c \in Clients, NEW r \in Call, Now(c, r)
  PROVE  /\ cli' \in [Clients -> Call] /\ cli'[c] = r
         /\ \A d \in Clients : d # c => cli'[d] = cli[d]
BY DEF Now

LEMMA IdleFacts ==
  /\ Idle \in Call /\ Idle.pc = "idle" /\ Idle.op = "none" /\ Idle.owed = {}
  /\ \A M, W \in Nat : CallOK(Idle, M, W)
BY DEF Idle, Call, ClientPCs, CallOK, Holding

LEMMA GotoFacts ==
  ASSUME cli \in [Clients -> Call], NEW c \in Clients, NEW pc \in ClientPCs, Goto(c, pc)
  PROVE  /\ cli' \in [Clients -> Call]
         /\ \A d \in Clients : d # c => cli'[d] = cli[d]
         /\ cli'[c].pc = pc /\ cli'[c].op = cli[c].op /\ cli'[c].key = cli[c].key
         /\ cli'[c].mem = cli[c].mem /\ cli'[c].num = cli[c].num /\ cli'[c].owed = cli[c].owed
<1> DEFINE r == [cli[c] EXCEPT !.pc = pc]
<1>1. cli[c] \in Call
  OBVIOUS
<1>2. /\ r \in Call
      /\ r.pc = pc /\ r.op = cli[c].op /\ r.key = cli[c].key
      /\ r.mem = cli[c].mem /\ r.num = cli[c].num /\ r.owed = cli[c].owed
  BY <1>1 DEF Call
<1>3. Now(c, r)
  BY DEF Goto
<1> HIDE DEF r
<1> QED
  BY <1>2, <1>3, NowFacts

\* One memtable is another one now.
LEMMA ReplaceFacts ==
  ASSUME NEW M \in Seq(Memtable), NEW m \in 1..Len(M), NEW t \in Memtable,
         NEW N, N = [M EXCEPT ![m] = t]
  PROVE  /\ N \in Seq(Memtable) /\ Len(N) = Len(M)
         /\ N[m] = t /\ \A l \in 1..Len(M) : l # m => N[l] = M[l]
BY ExceptSeq

\* Inserting changes one value of one memtable.
LEMMA PutFacts ==
  ASSUME NEW t \in Memtable, NEW k \in Keys, NEW n \in Nat
  PROVE  /\ Put(t, k, n) \in Memtable /\ Put(t, k, n).kv = [t.kv EXCEPT ![k] = n]
         /\ Put(t, k, n).frozen = t.frozen
<1> DEFINE kv == [t.kv EXCEPT ![k] = n]
<1>1. kv \in Mapping
  BY DEF Memtable, Mapping
<1>2. Put(t, k, n) = [kv |-> kv, size |-> t.size + 1, frozen |-> t.frozen]
  BY DEF Put
<1> HIDE DEF kv
<1>3. Put(t, k, n) \in Memtable /\ Put(t, k, n).kv = kv /\ Put(t, k, n).frozen = t.frozen
  BY <1>1, <1>2 DEF Memtable
<1> QED
  BY <1>3 DEF kv

LEMMA InsertFacts ==
  ASSUME mems \in Seq(Memtable), NEW m \in 1..Len(mems), NEW k \in Keys, NEW n \in Nat,
         mems' = [mems EXCEPT ![m] = Put(@, k, n)]
  PROVE  /\ mems' \in Seq(Memtable) /\ Len(mems') = Len(mems)
         /\ \A l \in 1..Len(mems) : l # m => mems'[l] = mems[l]
         /\ mems'[m].kv = [mems[m].kv EXCEPT ![k] = n] /\ mems'[m].frozen = mems[m].frozen
<1>1. mems[m] \in Memtable
  OBVIOUS
<1>2. Put(mems[m], k, n) \in Memtable
  BY <1>1, PutFacts
<1>3. /\ mems' \in Seq(Memtable) /\ Len(mems') = Len(mems)
      /\ mems'[m] = Put(mems[m], k, n)
      /\ \A l \in 1..Len(mems) : l # m => mems'[l] = mems[l]
  BY <1>2, ReplaceFacts
<1> QED
  BY <1>1, <1>3, PutFacts

\* Freezing changes no value.
LEMMA FreezeFacts ==
  ASSUME mems \in Seq(Memtable), NEW m \in 1..Len(mems),
         mems' = [mems EXCEPT ![m] = Frozen(@)]
  PROVE  /\ mems' \in Seq(Memtable) /\ Len(mems') = Len(mems)
         /\ \A l \in 1..Len(mems) : mems'[l].kv = mems[l].kv
         /\ \A l \in 1..Len(mems) : l # m => mems'[l] = mems[l]
<1>1. mems[m] \in Memtable
  OBVIOUS
<1>2. Frozen(mems[m]) \in Memtable /\ Frozen(mems[m]).kv = mems[m].kv
  BY <1>1 DEF Frozen, Memtable
<1>3. /\ mems' \in Seq(Memtable) /\ Len(mems') = Len(mems)
      /\ mems'[m] = Frozen(mems[m])
      /\ \A l \in 1..Len(mems) : l # m => mems'[l] = mems[l]
  BY <1>2, ReplaceFacts
<1> QED
  BY <1>2, <1>3

LEMMA NewMemFacts ==
  /\ NewMem \in Memtable /\ ~ NewMem.frozen
  /\ \A k \in Keys : NewMem.kv[k] = 0
BY DEF NewMem, Memtable, Mapping, Missing

\* A write adds to the history what was not in it.
LEMMA HistoryFacts ==
  ASSUME writes \in Seq(Keys), NEW k \in Keys
  PROVE  /\ Append(writes, k) \in Seq(Keys) /\ Len(Append(writes, k)) = Len(writes) + 1
         /\ Append(writes, k)[Len(writes) + 1] = k
         /\ \A n \in 1..Len(writes) : Append(writes, k)[n] = writes[n]
         /\ Len(writes) \in Nat /\ 1..Len(writes) \subseteq 1..Len(Append(writes, k))
         /\ Len(writes) + 1 \in 1..Len(Append(writes, k))
OBVIOUS

LEMMA FaithfulGrows ==
  ASSUME writes \in Seq(Keys), NEW k \in Keys, NEW kv \in Mapping, Faithful(kv, writes)
  PROVE  Faithful(kv, Append(writes, k))
BY HistoryFacts DEF Faithful

LEMMA FaithfulPut ==
  ASSUME writes \in Seq(Keys), NEW k \in Keys, NEW kv \in Mapping, Faithful(kv, writes)
  PROVE  Faithful([kv EXCEPT ![k] = Len(writes) + 1], Append(writes, k))
BY HistoryFacts DEF Faithful, Mapping

LEMMA FaithfulNew == \A ws \in Seq(Keys) : Faithful(NewMem.kv, ws)
BY NewMemFacts DEF Faithful, Missing


(***************************************************************************)
(* The types are kept                                                       *)
(***************************************************************************)

LEMMA TypesInit == Init => Types
<1> SUFFICES ASSUME Init PROVE Types
  OBVIOUS
<1>1. HistoryTypes
  BY DEF Init, FreshMemory, HistoryTypes
<1>2. MemTypes
  <2>1. mems = <<NewMem>> /\ Len(mems) = 1 /\ mems[1] = NewMem /\ mems \in Seq(Memtable)
    BY NewMemFacts DEF Init, FreshMemory
  <2>2. memtables = <<1>> /\ activeMem = 1 /\ writes \in Seq(Keys)
    BY DEF Init, FreshMemory
  <2> QED
    BY <2>1, <2>2, FaithfulNew DEF MemTypes
<1>3. ClientTypes
  <2>1. /\ cli = [c \in Clients |-> Idle] /\ sender = Nobody
        /\ Len(mems) \in Nat /\ Len(writes) \in Nat
    BY DEF Init, FreshMemory
  <2> QED
    BY <2>1, ConstantFacts, IdleFacts DEF ClientTypes
<1>4. JobTypes
  BY ConstantFacts DEF Init, FreshMemory, JobTypes
<1>5. LoopTypes
  BY DEF Init, FreshMemory, LoopTypes, Resting, LoopPCs, Flushing
<1>6. FileTypes
  BY DEF Init, FileTypes
<1>7. FlagTypes
  BY Zenon DEF Init, FreshMemory, FlagTypes
<1> QED
  BY <1>1, <1>2, <1>3, <1>4, <1>5, <1>6, <1>7 DEF Types

\* The history: what an action adds to it is a number of a write.
LEMMA HistoryStep == ASSUME Types, [Next]_vars PROVE HistoryTypes'
<1> USE DEF HistoryTypes
<1>1. /\ HistoryTypes /\ ClientTypes
      /\ acked \subseteq 1..Len(writes) /\ synced \subseteq 1..Len(writes)
  BY DEF Types
<1>2. ASSUME NEW c \in Clients, Insert(c) PROVE HistoryTypes'
  <2>1. cli[c].key \in Keys /\ writes' = Append(writes, cli[c].key)
    <3>1. At(c, "insert") /\ writes' = Append(writes, cli[c].key)
      BY <1>2, Zenon DEF Insert
    <3> QED
      BY <1>1, <3>1 DEF At, ClientTypes, CallOK
  <2>2. /\ writes' \in Seq(Keys) /\ 1..Len(writes) \subseteq 1..Len(writes')
        /\ Len(writes) + 1 \in 1..Len(writes')
    BY <1>1, <2>1, HistoryFacts
  <2>3. acked' \subseteq acked \cup {Len(writes) + 1} /\ synced' = synced
    BY <1>2, Zenon DEF Insert
  <2> QED
    BY <1>1, <2>2, <2>3
<1>3. ASSUME NEW c \in Clients, Erase(c) PROVE HistoryTypes'
  <2>1. /\ UNCHANGED <<writes, synced>>
        /\ (acked' = acked \/ (cli[c].op = "write" /\ acked' = acked \cup {cli[c].num}))
    BY <1>3, Zenon DEF Erase
  <2>2. cli[c].op = "write" => cli[c].num \in 1..Len(writes)
    BY <1>1, <1>3 DEF Erase, At, ClientTypes, CallOK
  <2> QED
    BY <1>1, <2>1, <2>2
<1>4. ASSUME NEW c \in Clients, SyncReturns(c) PROVE HistoryTypes'
  <2>1. UNCHANGED <<writes, acked>> /\ (synced' = synced \/ synced' = synced \cup cli[c].owed)
    BY <1>4, Zenon DEF SyncReturns
  <2>2. cli[c].owed \subseteq 1..Len(writes)
    BY <1>1 DEF ClientTypes, CallOK
  <2> QED
    BY <1>1, <2>1, <2>2
<1>5. ASSUME Down PROVE HistoryTypes'
  <2>1. UNCHANGED <<writes, synced>> /\ acked' = acked \cap synced
    BY <1>5 DEF Down
  <2> QED
    BY <1>1, <2>1
<1>6. ASSUME NEW c \in Clients, CloseEnds(c) PROVE HistoryTypes'
  BY <1>5, <1>6 DEF CloseEnds
<1>7. ASSUME Kill PROVE HistoryTypes'
  BY <1>5, <1>7 DEF Kill
<1>8. ASSUME UNCHANGED <<writes, acked, synced>> PROVE HistoryTypes'
  BY <1>1, <1>8
<1> QED
  BY <1>2, <1>3, <1>4, <1>6, <1>7, <1>8, NextSteps
     DEF BeginWrite, BeginSync, BeginCloseEmpty, Capture, Swap, RequestDropped, Request,
         RequestBlocks, RequestSent, CloseSynced, CloseStops, StopFlush, Reopen, LoopTake,
         LoopExit, DropEmpty, RenameSST, ApplyManifest, JobFails, LoopVars, vars

\* Flags are set and cleared.
LEMMA FlagStep == ASSUME Types, [Next]_vars PROVE FlagTypes'
<1>1. done \in BOOLEAN /\ lastErr \in BOOLEAN /\ up \in BOOLEAN
  BY DEF Types, FlagTypes
<1>2. TRUE \in BOOLEAN /\ FALSE \in BOOLEAN
  OBVIOUS
<1>3. done' = done \/ done' = TRUE \/ done' = FALSE
  BY NextSteps, Zenon
     DEF BeginWrite, BeginSync, BeginCloseEmpty, Insert, Capture, Swap, RequestDropped, Request,
         RequestBlocks, RequestSent, Erase, SyncReturns, CloseSynced, CloseStops, CloseEnds,
         StopFlush, Kill, Down, Reopen, LoopTake, LoopExit, DropEmpty, RenameSST, ApplyManifest,
         JobFails, LoopVars, jobVars, vars
<1>4. lastErr' = lastErr \/ lastErr' = TRUE \/ lastErr' = FALSE
  BY NextSteps, Zenon
     DEF BeginWrite, BeginSync, BeginCloseEmpty, Insert, Capture, Swap, RequestDropped, Request,
         RequestBlocks, RequestSent, Erase, SyncReturns, CloseSynced, CloseStops, CloseEnds,
         StopFlush, Kill, Down, Reopen, LoopTake, LoopExit, DropEmpty, RenameSST, ApplyManifest,
         JobFails, vars
<1>5. up' = up \/ up' = TRUE \/ up' = FALSE
  BY NextSteps, Zenon
     DEF BeginWrite, BeginSync, BeginCloseEmpty, Insert, Capture, Swap, RequestDropped, Request,
         RequestBlocks, RequestSent, Erase, SyncReturns, CloseSynced, CloseStops, CloseEnds,
         StopFlush, Kill, Down, Reopen, LoopTake, LoopExit, DropEmpty, RenameSST, ApplyManifest,
         JobFails, LoopVars, vars
<1> QED
  BY <1>1, <1>2, <1>3, <1>4, <1>5, Zenon DEF FlagTypes

\* A value is stored: the write is the last of the history, the other values stay.
Puts(c) ==
  /\ At(c, "insert")
  /\ cli[c].key \in Keys /\ cli[c].mem \in 1..Len(mems) /\ cli[c].op = "write"
  /\ Len(mems) \in Nat /\ mems' \in Seq(Memtable) /\ Len(mems') = Len(mems)
  /\ \A l \in 1..Len(mems) : l # cli[c].mem => mems'[l] = mems[l]
  /\ mems'[cli[c].mem].kv = [mems[cli[c].mem].kv EXCEPT ![cli[c].key] = Len(writes) + 1]
  /\ mems'[cli[c].mem].frozen = mems[cli[c].mem].frozen
  /\ writes' = Append(writes, cli[c].key)
  /\ writes' \in Seq(Keys) /\ Len(writes) \in Nat /\ Len(writes') = Len(writes) + 1
  /\ Len(writes) + 1 \in 1..Len(writes')
  /\ \A n \in 1..Len(writes) : writes'[n] = writes[n]
  /\ writes'[Len(writes) + 1] = cli[c].key

LEMMA InsertPuts == ASSUME Types, NEW c \in Clients, Insert(c) PROVE Puts(c)
<1> DEFINE m == cli[c].mem
           k == cli[c].key
           n == Len(writes) + 1
<1>1. /\ At(c, "insert") /\ writes' = Append(writes, k)
      /\ mems' = [mems EXCEPT ![m] = Put(@, k, n)]
  BY Zenon DEF Insert
<1>2. /\ k \in Keys /\ m \in 1..Len(mems) /\ cli[c].op = "write"
      /\ mems \in Seq(Memtable) /\ writes \in Seq(Keys)
  BY <1>1 DEF At, Types, ClientTypes, CallOK, MemTypes, HistoryTypes
<1>3. n \in Nat /\ Len(mems) \in Nat /\ Len(writes) \in Nat
  BY <1>2
<1>4. /\ writes' \in Seq(Keys) /\ Len(writes') = Len(writes) + 1 /\ n \in 1..Len(writes')
      /\ writes'[n] = k
      /\ \A i \in 1..Len(writes) : writes'[i] = writes[i]
  BY <1>1, <1>2, HistoryFacts
<1> HIDE DEF m, k, n
<1>5. /\ mems' \in Seq(Memtable) /\ Len(mems') = Len(mems)
      /\ \A l \in 1..Len(mems) : l # m => mems'[l] = mems[l]
      /\ mems'[m].kv = [mems[m].kv EXCEPT ![k] = n] /\ mems'[m].frozen = mems[m].frozen
  BY <1>1, <1>2, <1>3, InsertFacts, Zenon
<1> QED
  BY <1>1, <1>2, <1>3, <1>4, <1>5, Zenon DEF Puts, m, k, n

\* The memtables: what changes is the value of one, or there is one more.
LEMMA MemStep == ASSUME Types, [Next]_vars PROVE MemTypes'
<1>1. /\ MemTypes /\ ClientTypes /\ writes \in Seq(Keys)
      /\ mems \in Seq(Memtable) /\ Len(mems) \in Nat /\ Len(mems) >= 1 /\ activeMem = Len(mems)
      /\ activeMem \in 1..Len(mems)
      /\ memtables \in Seq(1..Len(mems)) /\ Len(memtables) >= 1 /\ Len(memtables) \in Nat
      /\ \A m \in 1..Len(mems) : mems[m].kv \in Mapping /\ Faithful(mems[m].kv, writes)
  <2>1. MemTypes /\ ClientTypes /\ writes \in Seq(Keys)
    BY DEF Types, HistoryTypes
  <2>2. \A m \in 1..Len(mems) : mems[m] \in Memtable
    BY <2>1 DEF MemTypes
  <2> QED
    BY <2>1, <2>2 DEF MemTypes, Memtable
<1>2. ASSUME NEW c \in Clients, Insert(c) PROVE MemTypes'
  <2> DEFINE m == cli[c].mem
             k == cli[c].key
  <2>1. Puts(c)
    BY <1>2, InsertPuts
  <2>2. /\ k \in Keys /\ m \in 1..Len(mems) /\ writes' = Append(writes, k)
        /\ mems' \in Seq(Memtable) /\ Len(mems') = Len(mems)
        /\ \A l \in 1..Len(mems) : l # m => mems'[l] = mems[l]
        /\ mems'[m].kv = [mems[m].kv EXCEPT ![k] = Len(writes) + 1]
    BY <2>1 DEF Puts
  <2>3. UNCHANGED <<memtables, activeMem>>
    BY <1>2, Zenon DEF Insert
  <2>4. Faithful(mems'[m].kv, writes')
    BY <1>1, <2>2, FaithfulPut
  <2>5. \A l \in 1..Len(mems) : l # m => Faithful(mems'[l].kv, writes')
    BY <1>1, <2>2, FaithfulGrows
  <2> HIDE DEF m, k
  <2>6. \A l \in 1..Len(mems') : Faithful(mems'[l].kv, writes')
    BY <2>2, <2>4, <2>5
  <2> QED
    BY <1>1, <2>2, <2>3, <2>6 DEF MemTypes
<1>3. ASSUME NEW m \in 1..Len(mems), mems' = [mems EXCEPT ![m] = Frozen(@)],
             UNCHANGED <<memtables, activeMem, writes>>
      PROVE  MemTypes'
  <2>1. /\ mems' \in Seq(Memtable) /\ Len(mems') = Len(mems)
        /\ \A l \in 1..Len(mems) : mems'[l].kv = mems[l].kv
    BY <1>1, <1>3, FreezeFacts
  <2> QED
    BY <1>1, <1>3, <2>1 DEF MemTypes
<1>4. ASSUME NEW c \in Clients, Capture(c) PROVE MemTypes'
  BY <1>1, <1>3, <1>4 DEF Capture
<1>5. ASSUME NEW c \in Clients, Request(c) PROVE MemTypes'
  <2>1. cli[c].mem \in 1..Len(mems)
    BY <1>1, <1>5 DEF Request, CanRequest, At, ClientTypes, CallOK, Holding
  <2> QED
    BY <1>3, <1>5, <2>1 DEF Request
<1>6. ASSUME NEW c \in Clients, RequestBlocks(c) PROVE MemTypes'
  <2>1. cli[c].mem \in 1..Len(mems)
    BY <1>1, <1>6 DEF RequestBlocks, CanRequest, At, ClientTypes, CallOK, Holding
  <2> QED
    BY <1>3, <1>6, <2>1 DEF RequestBlocks
<1>7. ASSUME NEW c \in Clients, Swap(c) PROVE MemTypes'
  <2>1. /\ mems' = Append(mems, NewMem) /\ activeMem' = Len(mems') /\ writes' = writes
        /\ memtables' = Append(memtables, Len(mems'))
    BY <1>7 DEF Swap
  <2>2. /\ mems' \in Seq(Memtable) /\ Len(mems') = Len(mems) + 1 /\ mems'[Len(mems) + 1] = NewMem
        /\ \A l \in 1..Len(mems) : mems'[l] = mems[l]
    BY <1>1, <2>1, NewMemFacts
  <2>3. \A l \in 1..Len(mems') : Faithful(mems'[l].kv, writes')
    BY <1>1, <2>1, <2>2, FaithfulNew
  <2>4. memtables' \in Seq(1..Len(mems')) /\ Len(memtables') >= 1
    BY <1>1, <2>1, <2>2
  <2> QED
    BY <1>1, <2>1, <2>2, <2>3, <2>4 DEF MemTypes
<1>8. ASSUME NEW c \in Clients, Erase(c) PROVE MemTypes'
  <2>1. /\ UNCHANGED <<mems, activeMem, writes>>
        /\ memtables' = SubSeq(memtables, 1, FrozenIndex - 1)
                        \o SubSeq(memtables, FrozenIndex + 1, Len(memtables))
    BY <1>8 DEF Erase, RemoveAt
  <2>2. memtables' \in Seq(1..Len(mems)) /\ Len(memtables') >= 1
    <3> DEFINE n == Len(memtables)
               a == SubSeq(memtables, 1, n - 2)
               b == SubSeq(memtables, n, n)
    <3>1. \A i \in 1..n : memtables[i] \in 1..Len(mems)
      BY <1>1
    <3>2. a \in Seq(1..Len(mems)) /\ Len(a) \in Nat
      BY <1>1, <3>1, SubSeqProperties
    <3>3. b \in Seq(1..Len(mems)) /\ Len(b) = 1
      BY <1>1, <3>1, SubSeqProperties
    <3>4. memtables' = a \o b
      BY <1>1, <2>1 DEF FrozenIndex
    <3> HIDE DEF a, b
    <3> QED
      BY <3>2, <3>3, <3>4, ConcatProperties
  <2> QED
    BY <1>1, <2>1, <2>2 DEF MemTypes
<1>9. ASSUME Down PROVE MemTypes'
  <2>1. mems' = <<NewMem>> /\ Len(mems') = 1 /\ mems'[1] = NewMem /\ mems' \in Seq(Memtable)
    BY <1>9, NewMemFacts DEF Down
  <2>2. memtables' = <<1>> /\ activeMem' = 1 /\ writes' = writes
    BY <1>9 DEF Down
  <2> QED
    BY <1>1, <2>1, <2>2, FaithfulNew DEF MemTypes
<1>10. ASSUME NEW c \in Clients, CloseEnds(c) PROVE MemTypes'
  BY <1>9, <1>10 DEF CloseEnds
<1>11. ASSUME Kill PROVE MemTypes'
  BY <1>9, <1>11 DEF Kill
<1>12. ASSUME UNCHANGED <<mems, memtables, activeMem, writes>> PROVE MemTypes'
  BY <1>1, <1>12 DEF MemTypes
<1> QED
  BY <1>2, <1>4, <1>5, <1>6, <1>7, <1>8, <1>10, <1>11, <1>12, NextSteps
     DEF BeginWrite, BeginSync, BeginCloseEmpty, RequestDropped, RequestSent, SyncReturns,
         CloseSynced, CloseStops, StopFlush, Reopen, LoopTake, LoopExit, DropEmpty, RenameSST,
         ApplyManifest, JobFails, LoopVars, memVars, vars

\* Every other step of a life keeps the values and the history; a new memtable is empty.
Stays ==
  /\ writes' = writes /\ Len(mems) \in Nat /\ Len(mems') \in Nat /\ Len(mems) <= Len(mems')
  /\ \A m \in 1..Len(mems) : mems'[m].kv = mems[m].kv
  /\ \A m \in 1..Len(mems') : m > Len(mems) => mems'[m].kv = NewMem.kv

\* A life ends.
Ends == Down /\ fileID' \in {0, fileID}

LEMMA DataStep == ASSUME Types, [Next]_vars PROVE Stays \/ Ends \/ \E c \in Clients : Puts(c)
<1> DEFINE P == Stays \/ Ends \/ \E c \in Clients : Puts(c)
<1>1. /\ mems \in Seq(Memtable) /\ Len(mems) \in Nat /\ activeMem \in 1..Len(mems) /\ ClientTypes
  BY DEF Types, MemTypes
<1>2. ASSUME NEW c \in Clients, Insert(c) PROVE P
  BY <1>2, InsertPuts
<1>3. ASSUME NEW m \in 1..Len(mems), mems' = [mems EXCEPT ![m] = Frozen(@)], writes' = writes
      PROVE  P
  <2>1. /\ mems' \in Seq(Memtable) /\ Len(mems') = Len(mems)
        /\ \A l \in 1..Len(mems) : mems'[l].kv = mems[l].kv
    BY <1>1, <1>3, FreezeFacts, Zenon
  <2>2. writes' = writes
    BY <1>3
  <2>3. Stays
    BY <1>1, <2>1, <2>2 DEF Stays
  <2> QED
    BY <2>3
<1>4. ASSUME NEW c \in Clients, Capture(c) PROVE P
  BY <1>1, <1>3, <1>4 DEF Capture
<1>5. ASSUME NEW c \in Clients, Request(c) PROVE P
  <2>1. cli[c].mem \in 1..Len(mems)
    BY <1>1, <1>5 DEF Request, CanRequest, At, ClientTypes, CallOK, Holding
  <2> QED
    BY <1>3, <1>5, <2>1 DEF Request
<1>6. ASSUME NEW c \in Clients, RequestBlocks(c) PROVE P
  <2>1. cli[c].mem \in 1..Len(mems)
    BY <1>1, <1>6 DEF RequestBlocks, CanRequest, At, ClientTypes, CallOK, Holding
  <2> QED
    BY <1>3, <1>6, <2>1 DEF RequestBlocks
<1>7. ASSUME NEW c \in Clients, Swap(c) PROVE P
  <2>1. mems' = Append(mems, NewMem) /\ writes' = writes
    BY <1>7 DEF Swap
  <2>2. /\ Len(mems') = Len(mems) + 1 /\ mems'[Len(mems) + 1] = NewMem
        /\ \A l \in 1..Len(mems) : mems'[l] = mems[l]
    BY <1>1, <2>1, NewMemFacts
  <2> QED
    BY <1>1, <2>1, <2>2 DEF Stays
<1>8. ASSUME NEW c \in Clients, CloseEnds(c) PROVE P
  BY <1>8 DEF CloseEnds, Ends
<1>9. ASSUME Kill PROVE P
  BY <1>9 DEF Kill, Ends
<1>10. ASSUME UNCHANGED <<mems, writes>> PROVE P
  BY <1>1, <1>10 DEF Stays
<1> HIDE DEF P
<1>11. P
  BY <1>2, <1>4, <1>5, <1>6, <1>7, <1>8, <1>9, <1>10, NextSteps
     DEF BeginWrite, BeginSync, BeginCloseEmpty, RequestDropped, RequestSent, Erase, SyncReturns,
         CloseSynced, CloseStops, StopFlush, Reopen, LoopTake, LoopExit, DropEmpty, RenameSST,
         ApplyManifest, JobFails, LoopVars, memVars, vars
<1> QED
  BY <1>11 DEF P

\* Within a life memtables stay, their values grow, and the history is only added to.
Grown ==
  /\ Len(mems) \in Nat /\ Len(mems') \in Nat /\ Len(mems) <= Len(mems')
  /\ Len(writes) \in Nat /\ Len(writes') \in Nat /\ Len(writes) <= Len(writes')
  /\ writes \in Seq(Keys) /\ writes' \in Seq(Keys)
  /\ \A n \in 1..Len(writes) : writes'[n] = writes[n]
  /\ \A m \in 1..Len(mems) : \A k \in Keys :
       mems[m].kv[k] \in Nat /\ mems'[m].kv[k] \in Nat /\ mems[m].kv[k] <= mems'[m].kv[k]

LEMMA GrowStep == ASSUME Types, [Next]_vars PROVE Grown \/ Ends
<1>1. /\ mems \in Seq(Memtable) /\ Len(mems) \in Nat /\ writes \in Seq(Keys) /\ Len(writes) \in Nat
      /\ \A m \in 1..Len(mems) : Faithful(mems[m].kv, writes)
  BY DEF Types, MemTypes, HistoryTypes
<1>2. \A m \in 1..Len(mems) : mems[m] \in Memtable
  BY <1>1
<1>3. \A m \in 1..Len(mems) : mems[m].kv \in Mapping
  BY <1>2 DEF Memtable
<1>4. \A m \in 1..Len(mems) : \A k \in Keys : mems[m].kv[k] \in Nat /\ mems[m].kv[k] <= Len(writes)
  <2> SUFFICES ASSUME NEW m \in 1..Len(mems), NEW k \in Keys
               PROVE  mems[m].kv[k] \in Nat /\ mems[m].kv[k] <= Len(writes)
    OBVIOUS
  <2>1. mems[m].kv[k] \in Nat
    BY <1>3 DEF Mapping
  <2>2. mems[m].kv[k] # 0 => mems[m].kv[k] \in 1..Len(writes)
    BY <1>1 DEF Faithful, Missing
  <2> QED
    BY <1>1, <2>1, <2>2
<1>5. CASE Stays
  BY <1>1, <1>4, <1>5 DEF Stays, Grown
<1>6. ASSUME NEW c \in Clients, Puts(c) PROVE Grown
  <2> DEFINE m == cli[c].mem
             k == cli[c].key
             n == Len(writes) + 1
  <2>1. /\ m \in 1..Len(mems) /\ k \in Keys /\ Len(mems') = Len(mems) /\ Len(writes') = n
        /\ writes' \in Seq(Keys) /\ \A i \in 1..Len(writes) : writes'[i] = writes[i]
        /\ \A l \in 1..Len(mems) : l # m => mems'[l] = mems[l]
        /\ mems'[m].kv = [mems[m].kv EXCEPT ![k] = n]
    BY <1>6 DEF Puts
  <2>2. n \in Nat /\ Len(writes) < n
    BY <1>1
  <2>3. mems[m].kv \in [Keys -> Nat]
    BY <1>3, <2>1 DEF Mapping
  <2> HIDE DEF m, k, n
  <2>4. \A j \in Keys : mems'[m].kv[j] = IF j = k THEN n ELSE mems[m].kv[j]
    BY <2>1, <2>3
  <2>5. \A l \in 1..Len(mems) : \A j \in Keys :
          mems[l].kv[j] \in Nat /\ mems'[l].kv[j] \in Nat /\ mems[l].kv[j] <= mems'[l].kv[j]
    <3> SUFFICES ASSUME NEW l \in 1..Len(mems), NEW j \in Keys
                 PROVE  mems[l].kv[j] \in Nat /\ mems'[l].kv[j] \in Nat
                        /\ mems[l].kv[j] <= mems'[l].kv[j]
      OBVIOUS
    <3>1. mems[l].kv[j] \in Nat /\ mems[l].kv[j] <= Len(writes)
      BY <1>4
    <3>2. CASE l = m
      BY <1>1, <2>2, <2>4, <3>1, <3>2
    <3>3. CASE l # m
      BY <2>1, <3>1, <3>3
    <3> QED
      BY <3>2, <3>3
  <2> QED
    BY <1>1, <2>1, <2>2, <2>5 DEF Grown
<1> QED
  BY <1>5, <1>6, DataStep

\* A call whose memtable and writes stay is as it was.
LEMMA CallGrows ==
  ASSUME NEW r \in Call, NEW M \in Nat, NEW W \in Nat, NEW M1 \in Nat, NEW W1 \in Nat,
         M <= M1, W <= W1, CallOK(r, M, W)
  PROVE  CallOK(r, M1, W1)
<1>1. 1..M \subseteq 1..M1 /\ 1..W \subseteq 1..W1
  OBVIOUS
<1> QED
  BY <1>1 DEF CallOK

\* One call goes on.
LEMMA OneCall ==
  ASSUME ClientTypes, Grown, NEW c \in Clients, cli' \in [Clients -> Call],
         \A d \in Clients : d # c => cli'[d] = cli[d],
         CallOK(cli'[c], Len(mems'), Len(writes')),
         sender' \in Clients \cup {Nobody},
         \A d \in Clients : d # c => (sender' = d <=> sender = d),
         cli'[c].pc = "blocked" <=> sender' = c
  PROVE  ClientTypes'
<1>1. ASSUME NEW d \in Clients PROVE CallOK(cli'[d], Len(mems'), Len(writes'))
  <2>1. CASE d = c
    BY <2>1
  <2>2. CASE d # c
    <3>1. cli'[d] = cli[d] /\ cli[d] \in Call /\ CallOK(cli[d], Len(mems), Len(writes))
      BY <2>2 DEF ClientTypes
    <3> QED
      BY <3>1, CallGrows DEF Grown
  <2> QED
    BY <2>1, <2>2
<1>2. ASSUME NEW d \in Clients PROVE cli'[d].pc = "blocked" <=> sender' = d
  BY DEF ClientTypes
<1> QED
  BY <1>1, <1>2, Zenon DEF ClientTypes

\* The calls: one goes on, or a new one starts, or all of them end with the process.
LEMMA ClientStep1 == ASSUME Types, [Next]_vars PROVE ClientTypes'
<1>1. /\ ClientTypes /\ cli \in [Clients -> Call] /\ sender \in Clients \cup {Nobody}
      /\ \A c \in Clients : /\ CallOK(cli[c], Len(mems), Len(writes)) /\ cli[c] \in Call
                            /\ cli[c].pc = "blocked" <=> sender = c
      /\ activeMem \in 1..Len(mems) /\ Len(mems) \in Nat /\ Len(writes) \in Nat
  BY DEF Types, ClientTypes, MemTypes, HistoryTypes
<1>2. ASSUME Down PROVE ClientTypes'
  <2>1. /\ cli' = [c \in Clients |-> Idle] /\ sender' = Nobody
        /\ Len(mems') \in Nat /\ Len(writes') \in Nat
    BY <1>1, <1>2 DEF Down
  <2> QED
    BY <2>1, ConstantFacts, IdleFacts DEF ClientTypes
<1>3. CASE Grown
  <2> USE <1>3
  <2>1. ASSUME NEW c \in Clients, NEW r \in Call, Now(c, r), CallOK(r, Len(mems'), Len(writes')),
               sender' = sender, cli[c].pc # "blocked", r.pc # "blocked"
        PROVE  ClientTypes'
    <3>1. /\ cli' \in [Clients -> Call] /\ cli'[c] = r
          /\ \A d \in Clients : d # c => cli'[d] = cli[d]
      BY <1>1, <2>1, NowFacts
    <3>2. sender' # c
      BY <1>1, <2>1
    <3> QED
      BY <1>1, <2>1, <3>1, <3>2, OneCall
  <2>2. ASSUME NEW c \in Clients, NEW pc \in ClientPCs \ {"insert"}, Goto(c, pc),
               cli[c].pc \notin {"idle", "insert"}, pc \in Holding => cli[c].pc \in Holding,
               sender' \in Clients \cup {Nobody},
               \A d \in Clients : d # c => (sender' = d <=> sender = d),
               pc = "blocked" <=> sender' = c
        PROVE  ClientTypes'
    <3>1. /\ cli' \in [Clients -> Call]
          /\ \A d \in Clients : d # c => cli'[d] = cli[d]
          /\ cli'[c].pc = pc /\ cli'[c].op = cli[c].op /\ cli'[c].key = cli[c].key
          /\ cli'[c].mem = cli[c].mem /\ cli'[c].num = cli[c].num /\ cli'[c].owed = cli[c].owed
      BY <1>1, <2>2, GotoFacts
    <3>2. CallOK(cli'[c], Len(mems), Len(writes))
      BY <1>1, <2>2, <3>1 DEF CallOK
    <3>3. CallOK(cli'[c], Len(mems'), Len(writes'))
      BY <3>1, <3>2, CallGrows DEF Grown
    <3> QED
      BY <1>1, <2>2, <3>1, <3>3, OneCall
  <2>3. ASSUME NEW c \in Clients, NEW k \in Keys, BeginWrite(c, k) PROVE ClientTypes'
    <3> DEFINE r == [Idle EXCEPT !.pc = "insert", !.op = "write", !.key = k, !.mem = activeMem]
    <3>1. Now(c, r) /\ At(c, "idle") /\ UNCHANGED <<mems, writes, sender>>
      BY <2>3 DEF BeginWrite, Start, memVars, jobVars
    <3>2. k \in Nat /\ activeMem \in Nat
      BY <1>1, ConstantFacts
    <3>3. Idle \in Call /\ Idle.owed = {}
      BY IdleFacts
    <3>4. r \in Call
      BY <3>2, <3>3 DEF Call, ClientPCs
    <3>5. /\ r.pc = "insert" /\ r.op = "write" /\ r.key = k /\ r.mem = activeMem /\ r.owed = {}
      BY <3>3 DEF Call
    <3> HIDE DEF r
    <3>6. CallOK(r, Len(mems), Len(writes))
      BY <1>1, <3>5 DEF CallOK, Holding
    <3> QED
      BY <1>1, <2>1, <3>1, <3>4, <3>5, <3>6 DEF At
  <2>4. ASSUME NEW c \in Clients, NEW op \in {"sync", "close"}, BeginSync(c, op) PROVE ClientTypes'
    <3> DEFINE r == [Idle EXCEPT !.pc = "capture", !.op = op]
    <3>1. Now(c, r) /\ At(c, "idle") /\ UNCHANGED <<mems, writes, sender>>
      BY <2>4 DEF BeginSync, Start, memVars, jobVars
    <3>2. r \in Call /\ CallOK(r, Len(mems), Len(writes)) /\ r.pc = "capture"
      BY <1>1, ConstantFacts DEF Idle, Call, ClientPCs, CallOK, Holding
    <3> HIDE DEF r
    <3> QED
      BY <1>1, <2>1, <3>1, <3>2 DEF At
  <2>5. ASSUME NEW c \in Clients, BeginCloseEmpty(c) PROVE ClientTypes'
    <3> DEFINE r == [Idle EXCEPT !.pc = "stop", !.op = "close"]
    <3>1. Now(c, r) /\ At(c, "idle") /\ UNCHANGED <<mems, writes, sender>>
      BY <2>5 DEF BeginCloseEmpty, Start, memVars, jobVars
    <3>2. r \in Call /\ CallOK(r, Len(mems), Len(writes)) /\ r.pc = "stop"
      BY <1>1, ConstantFacts DEF Idle, Call, ClientPCs, CallOK, Holding
    <3> HIDE DEF r
    <3> QED
      BY <1>1, <2>1, <3>1, <3>2 DEF At
  <2>6. ASSUME NEW c \in Clients, Now(c, Idle), sender' = sender, cli[c].pc # "blocked"
        PROVE  ClientTypes'
    BY <1>1, <2>1, <2>6, IdleFacts DEF Grown
  <2>7. ASSUME NEW c \in Clients, Insert(c) PROVE ClientTypes'
    <3> DEFINE r == [cli[c] EXCEPT !.pc = "capture", !.num = Len(writes) + 1]
    <3>1. (Now(c, r) \/ Now(c, Idle)) /\ At(c, "insert") /\ sender' = sender
      BY <2>7, Zenon DEF Insert, jobVars
    <3>2. Len(writes) + 1 \in 1..Len(writes')
      BY <2>7, InsertPuts DEF Puts
    <3>3. r \in Call /\ r.pc = "capture" /\ r.num = Len(writes) + 1 /\ r.owed = cli[c].owed
      <4> DEFINE n == Len(writes) + 1
      <4>1. n \in Nat /\ cli[c] \in Call
        BY <1>1
      <4> HIDE DEF n
      <4>2. /\ [cli[c] EXCEPT !.pc = "capture", !.num = n] \in Call
            /\ [cli[c] EXCEPT !.pc = "capture", !.num = n].pc = "capture"
            /\ [cli[c] EXCEPT !.pc = "capture", !.num = n].num = n
            /\ [cli[c] EXCEPT !.pc = "capture", !.num = n].owed = cli[c].owed
        BY <4>1 DEF Call, ClientPCs
      <4> QED
        BY <4>2 DEF n
    <3> HIDE DEF r
    <3>4. 1..Len(writes) \subseteq 1..Len(writes')
      BY DEF Grown
    <3>5. CallOK(r, Len(mems'), Len(writes'))
      BY <1>1, <3>2, <3>3, <3>4 DEF CallOK, Holding
    <3> QED
      BY <2>1, <2>6, <3>1, <3>3, <3>5 DEF At
  <2>8. ASSUME NEW c \in Clients, Capture(c) PROVE ClientTypes'
    <3> DEFINE o == Contents(c)
               r == [cli[c] EXCEPT !.pc = "swap", !.mem = activeMem, !.owed = o]
    <3>1. Now(c, r) /\ At(c, "capture") /\ sender' = sender
      BY <2>8, Zenon DEF Capture, jobVars
    <3>2. o \subseteq 1..Len(writes)
      <4>1. mems[activeMem].kv \in Mapping /\ Faithful(mems[activeMem].kv, writes)
        <5>1. mems[activeMem] \in Memtable /\ Faithful(mems[activeMem].kv, writes)
          BY <1>1 DEF Types, MemTypes
        <5> QED
          BY <5>1 DEF Memtable
      <4>2. \A k \in KeysIn(mems[activeMem].kv) : mems[activeMem].kv[k] \in 1..Len(writes)
        BY <4>1 DEF KeysIn, Faithful, Mapping
      <4> QED
        BY <4>2 DEF Contents
    <3> HIDE DEF o
    <3>3. /\ r \in Call /\ r.pc = "swap" /\ r.mem = activeMem /\ r.owed = o
          /\ r.op = cli[c].op /\ r.num = cli[c].num
      <4>1. o \in SUBSET Nat /\ activeMem \in Nat /\ cli[c] \in Call
        BY <1>1, <3>2
      <4> QED
        BY <4>1 DEF Call, ClientPCs
    <3> HIDE DEF r
    <3>4. CallOK(r, Len(mems), Len(writes))
      BY <1>1, <3>1, <3>2, <3>3 DEF CallOK, At
    <3>5. CallOK(r, Len(mems'), Len(writes'))
      BY <3>3, <3>4, CallGrows DEF Grown
    <3> QED
      BY <2>1, <3>1, <3>3, <3>5 DEF At
  <2>9. ASSUME NEW c \in Clients, Swap(c) PROVE ClientTypes'
    BY <1>1, <2>2, <2>9 DEF Swap, At, jobVars, ClientPCs, Holding
  <2>10. ASSUME NEW c \in Clients, RequestDropped(c) PROVE ClientTypes'
    <3> DEFINE r == [cli[c] EXCEPT !.pc = "erase", !.owed = {}]
    <3>1. Now(c, r) /\ At(c, "request") /\ sender' = sender
      BY <2>10, Zenon DEF RequestDropped, CanRequest, jobVars
    <3>2. /\ r \in Call /\ r.pc = "erase" /\ r.owed = {} /\ r.op = cli[c].op /\ r.num = cli[c].num
      BY <1>1 DEF Call, ClientPCs
    <3> HIDE DEF r
    <3>3. CallOK(r, Len(mems), Len(writes))
      BY <1>1, <3>1, <3>2 DEF CallOK, At, Holding
    <3>4. CallOK(r, Len(mems'), Len(writes'))
      BY <3>2, <3>3, CallGrows DEF Grown
    <3> QED
      BY <2>1, <3>1, <3>2, <3>4 DEF At
  <2>11. ASSUME NEW c \in Clients, Request(c) PROVE ClientTypes'
    BY <1>1, <2>2, <2>11 DEF Request, CanRequest, At, ClientPCs, Holding
  <2>12. ASSUME NEW c \in Clients, RequestBlocks(c) PROVE ClientTypes'
    BY <1>1, <2>2, <2>12, ConstantFacts DEF RequestBlocks, CanRequest, At, ClientPCs, Holding
  <2>13. ASSUME NEW c \in Clients, RequestSent(c) PROVE ClientTypes'
    BY <1>1, <2>2, <2>13, ConstantFacts DEF RequestSent, At, ClientPCs, Holding
  <2>14. ASSUME NEW c \in Clients, Erase(c) PROVE ClientTypes'
    <3>1. (Now(c, Idle) \/ Goto(c, "wait")) /\ At(c, "erase") /\ sender' = sender
      BY <2>14, Zenon DEF Erase, jobVars
    <3> QED
      BY <1>1, <2>2, <2>6, <3>1 DEF At, ClientPCs, Holding
  <2>15. ASSUME NEW c \in Clients, SyncReturns(c) PROVE ClientTypes'
    <3>1. Now(c, Idle) /\ At(c, "wait") /\ sender' = sender
      BY <2>15, Zenon DEF SyncReturns, Waited, jobVars
    <3> QED
      BY <1>1, <2>6, <3>1 DEF At
  <2>16. ASSUME NEW c \in Clients, CloseSynced(c) PROVE ClientTypes'
    BY <1>1, <2>2, <2>16 DEF CloseSynced, Waited, At, jobVars, ClientPCs, Holding
  <2>17. ASSUME NEW c \in Clients, CloseStops(c) PROVE ClientTypes'
    BY <1>1, <2>2, <2>17 DEF CloseStops, At, ClientPCs, Holding
  <2>18. ASSUME NEW c \in Clients, CloseEnds(c) PROVE ClientTypes'
    BY <1>2, <2>18 DEF CloseEnds
  <2>19. ASSUME Kill PROVE ClientTypes'
    BY <1>2, <2>19 DEF Kill
  <2>20. ASSUME UNCHANGED <<mems, writes, cli, sender>> PROVE ClientTypes'
    BY <1>1, <2>20 DEF ClientTypes
  <2> QED
    BY <2>3, <2>4, <2>5, <2>7, <2>8, <2>9, <2>10, <2>11, <2>12, <2>13, <2>14, <2>15, <2>16,
       <2>17, <2>18, <2>19, <2>20, NextSteps
       DEF StopFlush, Reopen, LoopTake, LoopExit, DropEmpty, RenameSST,
           ApplyManifest, JobFails, LoopVars, memVars, jobVars, vars
<1> QED
  BY <1>2, <1>3, GrowStep DEF Ends

Jobs(M, F) == [mem : 1..M, id : 1..F]

LEMMA JobsGrow ==
  ASSUME NEW M \in Nat, NEW F \in Nat, NEW M1 \in Nat, NEW F1 \in Nat, M <= M1, F <= F1,
         NEW q \in Seq(Jobs(M, F))
  PROVE  q \in Seq(Jobs(M1, F1)) /\ Jobs(M, F) \subseteq Jobs(M1, F1)
<1>1. 1..M \subseteq 1..M1 /\ 1..F \subseteq 1..F1
  OBVIOUS
<1>2. Jobs(M, F) \subseteq Jobs(M1, F1)
  BY <1>1 DEF Jobs
<1>3. \A i \in 1..Len(q) : q[i] \in Jobs(M1, F1)
  BY <1>2
<1> QED
  BY <1>2, <1>3

\* The accounts, with the number of jobs that run and of jobs about to be sent.
Running == IF loop.pc \in Flushing THEN 1 ELSE 0
Sent == IF sender = Nobody THEN 0 ELSE 1

LEMMA Accounts == ASSUME LoopTypes PROVE JobsAccounted <=> (pending = Len(queue) + Running + Sent
                                                            /\ (loop.pc = "exited" => pending = 0))
<1>1. loop.pc \in Flushing <=> loop.job # NoJob
  BY DEF LoopTypes, NoJob
<1> QED
  BY <1>1 DEF JobsAccounted, Running, Sent

\* What flushLoop does: nothing, or it takes a job, renames its file, ends it, or exits. A file
\* is listed when its job ends well.
Disk == <<files, levels0, clobbered>>
TakesJob ==
  /\ loop.pc = "idle" /\ queue # <<>>
  /\ loop' = [Resting EXCEPT !.pc = "rename", !.job = Head(queue),
                             !.data = mems[Head(queue).mem].kv]
  /\ queue' = Tail(queue)
  /\ UNCHANGED <<LoopVars, pending, lastErr, Disk>>
EndsJob ==
  /\ loop.pc \in Flushing /\ loop' = Resting
  /\ UNCHANGED <<LoopVars, queue, files, clobbered>>
  /\ \/ loop.pc = "apply" /\ levels0' = Listed(loop.meta) /\ lastErr' = lastErr
     \/ levels0' = levels0 /\ lastErr' = TRUE
     \/ loop.pc = "rename" /\ KeysIn(mems[loop.job.mem].kv) = {} /\ levels0' = levels0
        /\ lastErr' = lastErr
Exits ==
  /\ loop.pc = "idle" /\ loop' = [loop EXCEPT !.pc = "exited"]
  /\ UNCHANGED <<LoopVars, queue, lastErr, Disk>>

Idles == loop' = loop /\ UNCHANGED <<Disk, lastErr>>

LEMMA LoopKinds ==
  ASSUME Types, [Next]_vars
  PROVE  Idles \/ Ends \/ TakesJob \/ RenameSST \/ EndsJob \/ Exits
<1> DEFINE P == Idles \/ Ends \/ TakesJob \/ RenameSST \/ EndsJob \/ Exits
<1>1. ASSUME LoopTake PROVE P
  BY <1>1 DEF LoopTake, TakesJob, Disk
<1>2. ASSUME LoopExit PROVE P
  BY <1>2 DEF LoopExit, Exits, Disk
<1>3. ASSUME DropEmpty PROVE P
  BY <1>3 DEF DropEmpty, EndsJob, JobDone, Flushing
<1>4. ASSUME ApplyManifest PROVE P
  BY <1>4 DEF ApplyManifest, EndsJob, JobDone, Flushing
<1>5. ASSUME JobFails PROVE P
  BY <1>5, Zenon DEF JobFails, EndsJob, JobDone, Flushing
<1>6. ASSUME Kill PROVE P
  BY <1>6 DEF Kill, Ends
<1>7. ASSUME NEW c \in Clients, CloseEnds(c) PROVE P
  BY <1>7 DEF CloseEnds, Ends
<1>8. ASSUME RenameSST PROVE P
  BY <1>8
<1>9. ASSUME UNCHANGED <<loop, files, levels0, clobbered, lastErr>> PROVE P
  BY <1>9 DEF Idles, Disk
<1> HIDE DEF P
<1>10. P
  BY <1>1, <1>2, <1>3, <1>4, <1>5, <1>6, <1>7, <1>8, <1>9, NextSteps
     DEF BeginWrite, BeginSync, BeginCloseEmpty, Insert, Capture, Swap, RequestDropped, Request,
         RequestBlocks, RequestSent, Erase, SyncReturns, CloseSynced, CloseStops, StopFlush,
         Reopen, vars
<1> QED
  BY <1>10 DEF P

JobInv == JobTypes /\ pending = Len(queue) + Running + Sent /\ Stopped

LEMMA JobInvIs == ASSUME LoopTypes PROVE JobInv <=> JobTypes /\ JobsAccounted /\ Stopped
<1>1. ASSUME JobInv PROVE loop.pc = "exited" => pending = 0
  BY <1>1 DEF JobInv, Stopped, Running, Sent, Flushing
<1> QED
  BY <1>1, Accounts DEF JobInv

\* The jobs stay counted when one is added, sent, taken or done.
LEMMA JobStep == ASSUME Types, JobInv, [Next]_vars PROVE JobInv'
<1>1. /\ queue \in Seq(Jobs(Len(mems), fileID)) /\ Len(queue) <= QueueCap /\ Len(queue) \in Nat
      /\ pending \in Nat /\ fileID \in Nat /\ sender \in Clients \cup {Nobody}
      /\ (sender # Nobody => fileID >= 1)
      /\ pending = Len(queue) + Running + Sent /\ (done => sender = Nobody)
      /\ (loop.pc = "exited" => done /\ queue = <<>>)
      /\ Len(mems) \in Nat /\ ClientTypes /\ LoopTypes
  <2>1. JobTypes /\ MemTypes /\ ClientTypes /\ LoopTypes
    BY DEF JobInv, Types
  <2>2. queue \in Seq(Jobs(Len(mems), fileID)) /\ Len(queue) \in Nat /\ Len(mems) \in Nat
    BY <2>1 DEF JobTypes, MemTypes, Jobs
  <2> QED
    BY <2>1, <2>2 DEF JobInv, JobTypes, ClientTypes, Stopped
<1>2. ASSUME Ends PROVE JobInv'
  <2>1. queue' = <<>> /\ pending' = 0 /\ sender' = Nobody /\ ~ done' /\ loop' = Resting
    BY <1>2 DEF Down, Ends
  <2>2. loop'.pc = "idle" /\ fileID' \in Nat
    BY <1>1, <1>2, <2>1 DEF Resting, Ends
  <2>3. JobTypes'
    BY <2>1, <2>2, ConstantFacts DEF JobTypes
  <2>4. Stopped'
    BY <2>1, <2>2 DEF Stopped
  <2>5. pending' = Len(queue') + Running' + Sent'
    BY <2>1, <2>2 DEF Running, Sent, Flushing
  <2> QED
    BY <2>3, <2>4, <2>5 DEF JobInv
<1>3. CASE Grown
  <2>1. ASSUME fileID' \in Nat, fileID <= fileID' PROVE queue \in Seq(Jobs(Len(mems'), fileID'))
    BY <1>1, <1>3, <2>1, JobsGrow DEF Grown
  <2>2. ASSUME UNCHANGED <<queue, pending, fileID, sender, loop>>,
               done' = done \/ (done' /\ sender = Nobody)
        PROVE  JobInv'
    <3>1. JobTypes'
      BY <1>1, <2>1, <2>2 DEF JobTypes, Jobs
    <3>2. Stopped'
      BY <1>1, <2>2 DEF Stopped
    <3>3. Running' = Running /\ Sent' = Sent
      BY <2>2 DEF Running, Sent
    <3> QED
      BY <1>1, <2>2, <3>1, <3>2, <3>3 DEF JobInv
  <2>3. ASSUME NEW c \in Clients, Request(c) PROVE JobInv'
    <3> DEFINE j == [mem |-> cli[c].mem, id |-> fileID + 1]
    <3>1. /\ cli[c].pc = "request" /\ sender = Nobody /\ ~ done /\ Len(queue) < QueueCap
          /\ fileID' = fileID + 1 /\ pending' = pending + 1 /\ queue' = Append(queue, j)
          /\ UNCHANGED <<sender, done, loop>>
      BY <2>3 DEF Request, CanRequest, At, Enqueued
    <3>2. cli[c].mem \in 1..Len(mems)
      BY <1>1, <3>1 DEF ClientTypes, CallOK, Holding
    <3>3. j \in Jobs(Len(mems'), fileID')
      BY <1>1, <1>3, <3>1, <3>2 DEF Jobs, Grown
    <3>4. queue \in Seq(Jobs(Len(mems'), fileID'))
      BY <1>1, <2>1, <3>1
    <3> HIDE DEF j
    <3>5. queue' \in Seq(Jobs(Len(mems'), fileID')) /\ Len(queue') = Len(queue) + 1
      BY <3>1, <3>3, <3>4
    <3>6. JobTypes'
      BY <1>1, <3>1, <3>5, ConstantFacts DEF JobTypes, Jobs
    <3>7. Stopped'
      BY <1>1, <3>1 DEF Stopped
    <3>8. Running' = Running /\ Sent' = Sent /\ Running \in Nat /\ Sent \in Nat
      BY <3>1 DEF Running, Sent
    <3> QED
      BY <1>1, <3>1, <3>5, <3>6, <3>7, <3>8 DEF JobInv
  <2>4. ASSUME NEW c \in Clients, RequestBlocks(c) PROVE JobInv'
    <3>1. /\ sender = Nobody /\ ~ done /\ sender' = c
          /\ fileID' = fileID + 1 /\ pending' = pending + 1
          /\ UNCHANGED <<queue, done, loop>>
      BY <2>4 DEF RequestBlocks, CanRequest
    <3>2. queue \in Seq(Jobs(Len(mems'), fileID'))
      BY <1>1, <2>1, <3>1
    <3>3. JobTypes'
      BY <1>1, <3>1, <3>2 DEF JobTypes, Jobs
    <3>4. Stopped'
      BY <1>1, <3>1 DEF Stopped
    <3>5. Running' = Running /\ Sent = 0 /\ Sent' = 1 /\ Running \in Nat
      BY <3>1, ConstantFacts DEF Running, Sent
    <3> QED
      BY <1>1, <3>1, <3>3, <3>4, <3>5 DEF JobInv
  <2>5. ASSUME NEW c \in Clients, RequestSent(c) PROVE JobInv'
    <3> DEFINE j == [mem |-> cli[c].mem, id |-> fileID]
    <3>1. /\ cli[c].pc = "blocked" /\ Len(queue) < QueueCap /\ sender' = Nobody
          /\ queue' = Append(queue, j)
          /\ UNCHANGED <<mems, fileID, pending, done, loop>>
      BY <2>5 DEF RequestSent, At, memVars
    <3>2. cli[c].mem \in 1..Len(mems) /\ sender = c
      BY <1>1, <3>1 DEF ClientTypes, CallOK, Holding
    <3>3. j \in Jobs(Len(mems), fileID)
      BY <1>1, <3>2, ConstantFacts DEF Jobs
    <3> HIDE DEF j
    <3>4. queue' \in Seq(Jobs(Len(mems), fileID)) /\ Len(queue') = Len(queue) + 1
      BY <1>1, <3>1, <3>3
    <3>5. JobTypes'
      BY <1>1, <3>1, <3>4, ConstantFacts DEF JobTypes, Jobs
    <3>6. Stopped'
      BY <1>1, <3>1, <3>2, ConstantFacts DEF Stopped
    <3>7. Running' = Running /\ Sent = 1 /\ Sent' = 0 /\ Running \in Nat
      BY <3>1, <3>2, ConstantFacts DEF Running, Sent
    <3> QED
      BY <1>1, <3>1, <3>4, <3>5, <3>6, <3>7 DEF JobInv
  <2>6. ASSUME NEW c \in Clients, CloseStops(c) PROVE JobInv'
    BY <2>2, <2>6 DEF CloseStops
  <2>7. ASSUME StopFlush PROVE JobInv'
    BY <2>2, <2>7 DEF StopFlush
  <2>8. ASSUME LoopTake PROVE JobInv'
    <3>1. /\ loop.pc = "idle" /\ queue # <<>> /\ queue' = Tail(queue) /\ loop'.pc = "rename"
          /\ UNCHANGED <<mems, pending, fileID, sender, done>>
      BY <2>8 DEF LoopTake, LoopVars, memVars, Resting
    <3>2. queue' \in Seq(Jobs(Len(mems), fileID)) /\ Len(queue') = Len(queue) - 1 /\ Len(queue) >= 1
      BY <1>1, <3>1
    <3>3. JobTypes'
      BY <1>1, <3>1, <3>2, ConstantFacts DEF JobTypes, Jobs
    <3>4. Stopped'
      BY <1>1, <3>1 DEF Stopped
    <3>5. Running = 0 /\ Running' = 1 /\ Sent' = Sent /\ Sent \in Nat
      BY <3>1 DEF Running, Sent, Flushing
    <3> QED
      BY <1>1, <3>1, <3>2, <3>3, <3>4, <3>5 DEF JobInv
  <2>9. ASSUME LoopExit PROVE JobInv'
    <3>1. /\ loop.pc = "idle" /\ done /\ queue = <<>> /\ loop'.pc = "exited"
          /\ UNCHANGED <<mems, queue, pending, fileID, sender, done>>
      BY <1>1, <2>9 DEF LoopExit, LoopVars, memVars, Drained, LoopTypes
    <3>2. JobTypes'
      BY <1>1, <3>1 DEF JobTypes, Jobs
    <3>3. Stopped'
      BY <1>1, <3>1 DEF Stopped
    <3>4. Running' = Running /\ Sent' = Sent
      BY <3>1 DEF Running, Sent, Flushing
    <3> QED
      BY <1>1, <3>1, <3>2, <3>3, <3>4 DEF JobInv
  <2>10. ASSUME RenameSST PROVE JobInv'
    <3>1. /\ loop.pc = "rename" /\ loop'.pc = "apply"
          /\ UNCHANGED <<mems, queue, pending, fileID, sender, done>>
      BY <1>1, <2>10 DEF RenameSST, LoopVars, memVars, LoopTypes
    <3>2. JobTypes'
      BY <1>1, <3>1 DEF JobTypes, Jobs
    <3>3. Stopped'
      BY <1>1, <3>1 DEF Stopped
    <3>4. Running' = Running /\ Sent' = Sent
      BY <3>1 DEF Running, Sent, Flushing
    <3> QED
      BY <1>1, <3>1, <3>2, <3>3, <3>4 DEF JobInv
  <2>11. ASSUME loop.pc \in Flushing, loop' = Resting, pending' = pending - 1,
                UNCHANGED <<LoopVars, queue>>
         PROVE  JobInv'
    <3>1. loop'.pc = "idle" /\ UNCHANGED <<mems, queue, fileID, sender, done>>
      BY <2>11 DEF Resting, LoopVars, memVars
    <3>2. Running = 1 /\ Running' = 0 /\ Sent' = Sent /\ Sent \in Nat
      BY <2>11, <3>1 DEF Running, Sent, Flushing
    <3>3. pending' \in Nat
      BY <1>1, <2>11, <3>2
    <3>4. JobTypes'
      BY <1>1, <3>1, <3>3 DEF JobTypes, Jobs
    <3>5. Stopped'
      BY <1>1, <3>1 DEF Stopped
    <3> QED
      BY <1>1, <2>11, <3>1, <3>2, <3>4, <3>5 DEF JobInv
  <2>12. ASSUME NEW c \in Clients, CloseEnds(c) PROVE JobInv'
    BY <1>2, <2>12 DEF CloseEnds, Ends
  <2>13. ASSUME Kill PROVE JobInv'
    BY <1>2, <2>13 DEF Kill, Ends
  <2>14. ASSUME DropEmpty \/ ApplyManifest \/ JobFails PROVE JobInv'
    BY <2>11, <2>14 DEF DropEmpty, ApplyManifest, JobFails, JobDone, Flushing
  <2> QED
    BY <2>2, <2>3, <2>4, <2>5, <2>6, <2>7, <2>8, <2>9, <2>10, <2>12, <2>13, <2>14, NextSteps
       DEF BeginWrite, BeginSync, BeginCloseEmpty, Insert, Capture, Swap, RequestDropped,
           Erase, SyncReturns, CloseSynced, Reopen, jobVars, vars
<1> QED
  BY <1>2, <1>3, GrowStep

LEMMA FaithfulKept ==
  ASSUME Grown, NEW kv \in Mapping, Faithful(kv, writes)
  PROVE  Faithful(kv, writes')
BY DEF Faithful, Grown

\* What a rename needs of the metadata: the range of a memtable's keys covers them.
LEMMA MetadataFacts ==
  ASSUME Types, loop.pc = "rename", KeysIn(mems[loop.job.mem].kv) # {}
  PROVE  /\ Metadata \in Names /\ Metadata.min <= Metadata.max
         /\ \A k \in KeysIn(mems[loop.job.mem].kv) : Metadata.min <= k /\ k <= Metadata.max
<1> DEFINE kv == mems[loop.job.mem].kv
           ks == KeysIn(kv)
<1>1. loop.job \in [mem : 1..Len(mems), id : 1..fileID] /\ fileID \in Nat
  BY DEF Types, LoopTypes, JobTypes, Flushing
<1>2. loop.job.mem \in 1..Len(mems) /\ loop.job.id \in Nat
  BY <1>1
<1>3. kv \in Mapping
  <2>1. mems[loop.job.mem] \in Memtable
    BY <1>2 DEF Types, MemTypes
  <2> QED
    BY <2>1 DEF Memtable
<1>4. ks \in SUBSET Keys
  <2> HIDE DEF kv
  <2> QED
    BY <1>3 DEF KeysIn, Mapping
<1>5. ks \in SUBSET Nat /\ IsFiniteSet(ks) /\ ks # {}
  <2> HIDE DEF ks
  <2>1. IsFiniteSet(ks)
    BY <1>4, ConstantFacts, FS_Subset
  <2>2. ks \in SUBSET Nat
    BY <1>4, ConstantFacts
  <2>3. ks # {}
    BY DEF ks
  <2> QED
    BY <2>1, <2>2, <2>3
<1>6. Metadata = [id |-> loop.job.id, min |-> FirstOf(ks), max |-> LastOf(ks)]
  BY DEF Metadata
<1> HIDE DEF ks
<1>7. FirstOf(ks) \in ks /\ LastOf(ks) \in ks /\ \A k \in ks : FirstOf(ks) <= k /\ k <= LastOf(ks)
  BY <1>5, LastFacts, FirstFacts
<1>8. Metadata \in Names
  BY <1>2, <1>4, <1>6, <1>7 DEF Names
<1>9. Metadata.min = FirstOf(ks) /\ Metadata.max = LastOf(ks)
  BY <1>6
<1>10. Metadata.min <= Metadata.max
  BY <1>7, <1>9
<1>11. \A k \in ks : Metadata.min <= k /\ k <= Metadata.max
  BY <1>7, <1>9
<1> QED
  BY <1>8, <1>10, <1>11 DEF ks

\* What renaming does to the files.
LEMMA RenameFacts ==
  ASSUME Types, RenameSST
  PROVE  /\ loop.pc = "rename" /\ KeysIn(mems[loop.job.mem].kv) # {}
         /\ DOMAIN files' = DOMAIN files \cup {Metadata} /\ files'[Metadata] = loop.data
         /\ \A f \in DOMAIN files : f # Metadata => files'[f] = files[f]
         /\ ~ clobbered' => ~ clobbered /\ Metadata \notin DOMAIN files
         /\ loop'.pc = "apply" /\ loop'.job = loop.job /\ loop'.data = loop.data
         /\ loop'.meta = Metadata
         /\ UNCHANGED <<LoopVars, queue, pending, lastErr, levels0>>
<1>1. /\ loop.pc = "rename" /\ KeysIn(mems[loop.job.mem].kv) # {}
      /\ files' = [f \in DOMAIN files \cup {Metadata} |-> IF f = Metadata THEN loop.data ELSE files[f]]
      /\ clobbered' = (clobbered \/ Metadata \in DOMAIN files)
      /\ loop' = [loop EXCEPT !.pc = "apply", !.meta = Metadata]
      /\ UNCHANGED <<LoopVars, queue, pending, lastErr, levels0>>
  BY Zenon DEF RenameSST
<1>2. ~ clobbered' => ~ clobbered /\ Metadata \notin DOMAIN files
  BY <1>1, Zenon
<1>3. /\ DOMAIN files' = DOMAIN files \cup {Metadata} /\ files'[Metadata] = loop.data
      /\ \A f \in DOMAIN files : f # Metadata => files'[f] = files[f]
  <2> DEFINE d == Metadata
  <2>1. files' = [f \in DOMAIN files \cup {d} |-> IF f = d THEN loop.data ELSE files[f]]
    BY <1>1
  <2> HIDE DEF d
  <2>2. DOMAIN files' = DOMAIN files \cup {d} /\ files'[d] = loop.data
        /\ \A f \in DOMAIN files : f # d => files'[f] = files[f]
    BY <2>1
  <2> QED
    BY <2>2 DEF d
<1>4. /\ loop'.pc = "apply" /\ loop'.job = loop.job /\ loop'.data = loop.data
      /\ loop'.meta = Metadata
  BY <1>1 DEF Types, LoopTypes
<1> QED
  BY <1>1, <1>2, <1>3, <1>4

\* flushLoop's job is one of the queue, and the file it renamed holds what it read.
LEMMA LoopStepTypes == ASSUME Types, [Next]_vars PROVE LoopTypes'
<1>1. /\ LoopTypes /\ Len(mems) \in Nat /\ fileID \in Nat
      /\ queue \in Seq(Jobs(Len(mems), fileID))
      /\ loop = [pc |-> loop.pc, job |-> loop.job, data |-> loop.data, meta |-> loop.meta]
      /\ \A m \in 1..Len(mems) : mems[m].kv \in Mapping /\ Faithful(mems[m].kv, writes)
  <2>1. LoopTypes /\ JobTypes /\ MemTypes
    BY DEF Types
  <2>2. mems \in Seq(Memtable) /\ \A m \in 1..Len(mems) : Faithful(mems[m].kv, writes)
    BY <2>1 DEF MemTypes
  <2>3. \A m \in 1..Len(mems) : mems[m] \in Memtable
    BY <2>2
  <2>4. \A m \in 1..Len(mems) : mems[m].kv \in Mapping
    BY <2>3 DEF Memtable
  <2> QED
    BY <2>1, <2>2, <2>4 DEF LoopTypes, JobTypes, Jobs
<1>2. ASSUME loop' = Resting PROVE LoopTypes'
  BY <1>2 DEF LoopTypes, Resting, Flushing, LoopPCs
<1>3. CASE Ends
  BY <1>2, <1>3 DEF Ends, Down
<1>4. CASE EndsJob
  BY <1>2, <1>4 DEF EndsJob
<1>5. CASE Exits
  <2>1. /\ loop'.pc = "exited" /\ loop' = [loop EXCEPT !.pc = "exited"] /\ loop'.job = loop.job
        /\ loop.pc = "idle"
    BY <1>1, <1>5 DEF Exits
  <2>2. loop'.data = loop.data /\ loop'.meta = loop.meta
    BY <1>1, <2>1
  <2>3. loop' = [pc |-> loop'.pc, job |-> loop'.job, data |-> loop'.data, meta |-> loop'.meta]
    BY <1>1, <2>1
  <2> QED
    BY <1>1, <2>1, <2>3 DEF LoopTypes, Flushing, LoopPCs
<1>6. ASSUME TakesJob PROVE LoopTypes'
  <2> DEFINE j == Head(queue)
             kv == mems[j.mem].kv
  <2>1. j \in Jobs(Len(mems), fileID) /\ j = queue[1]
    BY <1>1, <1>6 DEF TakesJob
  <2>2. j.mem \in 1..Len(mems) /\ j.id \in 1..fileID
    BY <2>1 DEF Jobs
  <2>3. kv \in Mapping /\ Faithful(kv, writes)
    BY <1>1, <2>2
  <2>4. UNCHANGED <<mems, writes, fileID>>
    BY <1>6 DEF TakesJob, LoopVars, memVars
  <2>5. loop' = [Resting EXCEPT !.pc = "rename", !.job = j, !.data = kv]
    BY <1>6 DEF TakesJob
  <2> HIDE DEF kv, j
  <2>6. /\ loop'.pc = "rename" /\ loop'.job = j /\ loop'.data = kv
        /\ loop' = [pc |-> loop'.pc, job |-> loop'.job, data |-> loop'.data, meta |-> loop'.meta]
    BY <2>5 DEF Resting
  <2>7. KeysIn(loop'.data) \subseteq KeysIn(mems'[loop'.job.mem].kv)
    BY <2>4, <2>6 DEF kv
  <2> QED
    BY <2>1, <2>3, <2>4, <2>6, <2>7 DEF LoopTypes, Flushing, LoopPCs, Jobs
<1>7. ASSUME Grown, loop'.pc \in Flushing, loop'.pc = "apply" => loop'.meta \in DOMAIN files' /\ files'[loop'.meta] = loop'.data,
             loop.pc \in Flushing, loop'.job = loop.job, loop'.data = loop.data, fileID <= fileID',
             fileID' \in Nat,
             loop' = [pc |-> loop'.pc, job |-> loop'.job, data |-> loop'.data, meta |-> loop'.meta]
      PROVE  LoopTypes'
  <2>1. /\ loop.job \in Jobs(Len(mems), fileID) /\ loop.data \in Mapping
        /\ Faithful(loop.data, writes)
        /\ KeysIn(loop.data) \subseteq KeysIn(mems[loop.job.mem].kv)
    BY <1>1, <1>7 DEF LoopTypes, Jobs
  <2>2. loop'.job \in Jobs(Len(mems'), fileID')
    BY <1>1, <1>7, <2>1, JobsGrow DEF Grown
  <2>3. Faithful(loop'.data, writes')
    BY <1>7, <2>1, FaithfulKept
  <2>4. KeysIn(mems[loop.job.mem].kv) \subseteq KeysIn(mems'[loop.job.mem].kv)
    <3> DEFINE m == loop.job.mem
    <3>1. m \in 1..Len(mems)
      BY <2>1 DEF Jobs
    <3> HIDE DEF m
    <3>2. m \in 1..Len(mems')
      BY <1>7, <3>1 DEF Grown
    <3>3. mems[m].kv \in [Keys -> Nat]
      BY <1>1, <3>1 DEF Mapping
    <3>4. mems'[m].kv \in [Keys -> Nat]
      <4>1. mems' \in Seq(Memtable) /\ Len(mems') \in Nat
        BY MemStep DEF MemTypes
      <4>2. mems'[m] \in Memtable
        BY <3>2, <4>1
      <4> QED
        BY <4>2 DEF Memtable, Mapping
    <3>5. \A k \in Keys : mems[m].kv[k] # 0 => mems'[m].kv[k] # 0
      BY <1>7, <3>1 DEF Grown
    <3> QED
      BY <3>3, <3>4, <3>5 DEF KeysIn, Missing, m
  <2> QED
    BY <1>7, <2>1, <2>2, <2>3, <2>4 DEF LoopTypes, Flushing, LoopPCs, Jobs
<1>8. (fileID' \in Nat /\ fileID <= fileID') \/ Ends
  <2>1. fileID' = fileID \/ fileID' = fileID + 1 \/ Ends
    BY NextSteps, Zenon
       DEF BeginWrite, BeginSync, BeginCloseEmpty, Insert, Capture, Swap, RequestDropped, Request,
           RequestBlocks, RequestSent, Erase, SyncReturns, CloseSynced, CloseStops, CloseEnds,
           StopFlush, Kill, Reopen, LoopTake, LoopExit, DropEmpty, RenameSST, ApplyManifest,
           JobFails, LoopVars, Ends, jobVars, vars
  <2> QED
    BY <1>1, <2>1
<1>9. CASE RenameSST /\ Grown
  <2>1. /\ loop.pc = "rename" /\ loop'.pc = "apply" /\ loop'.job = loop.job /\ loop'.data = loop.data
        /\ loop'.meta = Metadata /\ Metadata \in DOMAIN files' /\ files'[Metadata] = loop.data
        /\ fileID' = fileID
    BY <1>9, RenameFacts DEF LoopVars
  <2>2. loop' = [pc |-> loop'.pc, job |-> loop'.job, data |-> loop'.data, meta |-> loop'.meta]
    <3>1. loop' = [loop EXCEPT !.pc = "apply", !.meta = Metadata]
      BY <1>9 DEF RenameSST
    <3> QED
      BY <1>1, <3>1
  <2> QED
    BY <1>1, <1>7, <1>9, <2>1, <2>2 DEF Flushing
<1>10. CASE Idles /\ Grown
  <2>1. CASE loop.pc \in Flushing
    BY <1>1, <1>3, <1>7, <1>8, <1>10, <2>1 DEF Idles, Disk, LoopTypes
  <2>2. CASE loop.pc \notin Flushing
    BY <1>1, <1>10, <2>2 DEF Idles, Disk, LoopTypes, Flushing
  <2> QED
    BY <2>1, <2>2
<1> QED
  BY <1>3, <1>4, <1>5, <1>6, <1>9, <1>10, LoopKinds, GrowStep

\* The files: each holds values of the history, within the range of its name.
LEMMA FileStep == ASSUME Types, [Next]_vars PROVE FileTypes'
<1>1. FileTypes /\ LoopTypes /\ FileTypes
  BY DEF Types
<1>2. ASSUME Grown, UNCHANGED files, levels0' \in Seq(Names),
             \A i \in 1..Len(levels0') : levels0'[i] \in DOMAIN files
      PROVE  FileTypes'
  <2>1. \A f \in DOMAIN files : Faithful(files[f], writes')
    BY <1>1, <1>2, FaithfulKept DEF FileTypes
  <2> QED
    BY <1>1, <1>2, <2>1 DEF FileTypes
<1>3. CASE Ends
  BY <1>1, <1>3 DEF Ends, Down, FileTypes
<1>4. CASE Grown /\ UNCHANGED <<files, levels0>>
  BY <1>1, <1>2, <1>4 DEF FileTypes
<1>5. CASE Grown /\ EndsJob
  <2>1. files' = files /\ (levels0' = levels0 \/ (loop.pc = "apply" /\ levels0' = <<loop.meta>> \o levels0))
    BY <1>5, Zenon DEF EndsJob, Listed
  <2>2. CASE levels0' = levels0
    BY <1>4, <1>5, <2>1, <2>2
  <2>3. CASE loop.pc = "apply" /\ levels0' = <<loop.meta>> \o levels0
    <3>1. loop.meta \in DOMAIN files /\ loop.meta \in Names
      BY <1>1, <2>3 DEF LoopTypes, FileTypes
    <3>2. levels0 \in Seq(Names) /\ \A i \in 1..Len(levels0) : levels0[i] \in DOMAIN files
      BY <1>1 DEF FileTypes
    <3>3. levels0' \in Seq(Names) /\ Len(levels0') = Len(levels0) + 1 /\ levels0'[1] = loop.meta
          /\ \A i \in 1..Len(levels0) : levels0'[i + 1] = levels0[i]
      BY <2>3, <3>1, <3>2
    <3>4. \A i \in 1..Len(levels0') : levels0'[i] \in DOMAIN files
      <4> SUFFICES ASSUME NEW i \in 1..Len(levels0') PROVE levels0'[i] \in DOMAIN files
        OBVIOUS
      <4>1. CASE i = 1
        BY <3>1, <3>3, <4>1
      <4>2. CASE i # 1
        <5>1. i - 1 \in 1..Len(levels0) /\ (i - 1) + 1 = i
          BY <3>2, <3>3, <4>2
        <5>2. levels0'[(i - 1) + 1] = levels0[i - 1]
          BY <3>3, <5>1
        <5> QED
          BY <3>2, <5>1, <5>2
      <4> QED
        BY <4>1, <4>2
    <3> QED
      BY <1>2, <1>5, <2>1, <3>3, <3>4
  <2> QED
    BY <2>1, <2>2, <2>3
<1>6. CASE Grown /\ RenameSST
  <2>1. /\ loop.pc = "rename" /\ KeysIn(mems[loop.job.mem].kv) # {}
        /\ DOMAIN files' = DOMAIN files \cup {Metadata} /\ files'[Metadata] = loop.data
        /\ \A f \in DOMAIN files : f # Metadata => files'[f] = files[f]
        /\ levels0' = levels0
    BY <1>6, RenameFacts
  <2>2. /\ Metadata \in Names /\ Metadata.min <= Metadata.max
        /\ \A k \in KeysIn(mems[loop.job.mem].kv) : Metadata.min <= k /\ k <= Metadata.max
    BY <2>1, MetadataFacts
  <2> DEFINE d == Metadata
  <2> HIDE DEF d
  <2>3. /\ loop.data \in Mapping /\ Faithful(loop.data, writes)
        /\ KeysIn(loop.data) \subseteq KeysIn(mems[loop.job.mem].kv)
    BY <1>1, <2>1 DEF LoopTypes, Flushing
  <2>4. Faithful(loop.data, writes')
    BY <1>6, <2>3, FaithfulKept
  <2>5. \A f \in DOMAIN files : Faithful(files[f], writes')
    BY <1>1, <1>6, FaithfulKept DEF FileTypes
  <2>6. ASSUME NEW f \in DOMAIN files'
        PROVE  /\ f \in Names /\ f.min <= f.max
               /\ files'[f] \in Mapping /\ Faithful(files'[f], writes')
               /\ \A k \in KeysIn(files'[f]) : f.min <= k /\ k <= f.max
    <3>1. CASE f = Metadata
      BY <2>1, <2>2, <2>3, <2>4, <3>1
    <3>2. CASE f # Metadata
      <4>1. f \in DOMAIN files /\ files'[f] = files[f]
        BY <2>1, <3>2
      <4> QED
        BY <1>1, <2>5, <4>1 DEF FileTypes
    <3> QED
      BY <3>1, <3>2
  <2>7. levels0' \in Seq(Names) /\ \A i \in 1..Len(levels0') : levels0'[i] \in DOMAIN files'
    BY <1>1, <2>1 DEF FileTypes
  <2> QED
    BY <2>6, <2>7 DEF FileTypes
<1>7. Idles \/ TakesJob \/ Exits => UNCHANGED <<files, levels0>>
  BY DEF Idles, TakesJob, Exits, Disk
<1> QED
  BY <1>3, <1>4, <1>5, <1>6, <1>7, LoopKinds, GrowStep

LEMMA TypesStep == ASSUME Types, JobInv, [Next]_vars PROVE Types'
BY HistoryStep, FlagStep, MemStep, ClientStep1, JobStep, LoopStepTypes, FileStep DEF Types, JobInv

(***************************************************************************)
(* What a step of a client does, field by field                             *)
(***************************************************************************)

Others(c) == cli' \in [Clients -> Call] /\ \A d \in Clients : d # c => cli'[d] = cli[d]
Keeps(c) ==
  /\ cli'[c].op = cli[c].op /\ cli'[c].key = cli[c].key /\ cli'[c].mem = cli[c].mem
  /\ cli'[c].num = cli[c].num /\ cli'[c].owed = cli[c].owed
Goes(c, from, to) == cli[c].pc = from /\ Others(c) /\ cli'[c].pc = to /\ Keeps(c)
SameMems == UNCHANGED <<mems, memtables, activeMem>>
SameHistory == UNCHANGED <<writes, acked, synced, overlapped>>
SameLoop == UNCHANGED <<loop, files, levels0, clobbered, lastErr>>

Starts(c) ==
  /\ cli[c].pc = "idle" /\ Others(c) /\ cli'[c].owed = {}
  /\ \/ cli'[c].pc = "insert" /\ cli'[c].op = "write" /\ cli'[c].mem = activeMem
     \/ cli'[c].pc \in {"capture", "stop"} /\ cli'[c].op # "write"
  /\ overlapped' = (overlapped \/ \E d \in Clients \ {c} : Busy(d))
  /\ SameMems /\ SameLoop /\ UNCHANGED <<queue, done, writes, acked, synced>>

Inserts(c) ==
  /\ Puts(c) /\ Others(c)
  /\ \/ cli'[c] = Idle /\ acked' = acked \cup {Len(writes) + 1}
     \/ /\ cli'[c].pc = "capture" /\ cli'[c].num = Len(writes) + 1 /\ acked' = acked
        /\ cli'[c].op = cli[c].op /\ cli'[c].owed = cli[c].owed
  /\ SameLoop /\ UNCHANGED <<memtables, activeMem, queue, done, synced, overlapped>>

Freezes(m) ==
  /\ mems' \in Seq(Memtable) /\ Len(mems') = Len(mems)
  /\ \A l \in 1..Len(mems) : mems'[l].kv = mems[l].kv
  /\ \A l \in 1..Len(mems) : l # m => mems'[l].frozen = mems[l].frozen

Captures(c) ==
  /\ cli[c].pc = "capture" /\ Others(c)
  /\ cli'[c].pc = "swap" /\ cli'[c].mem = activeMem /\ cli'[c].owed = Contents(c)
  /\ cli'[c].op = cli[c].op /\ cli'[c].num = cli[c].num
  /\ Freezes(activeMem)
  /\ SameHistory /\ SameLoop /\ UNCHANGED <<memtables, activeMem, queue, done>>

Swaps(c) ==
  /\ Goes(c, "swap", "request")
  /\ mems' \in Seq(Memtable) /\ Len(mems') = Len(mems) + 1 /\ mems'[Len(mems) + 1] = NewMem
  /\ \A l \in 1..Len(mems) : mems'[l] = mems[l]
  /\ memtables' = Append(memtables, Len(mems')) /\ activeMem' = Len(mems')
  /\ SameHistory /\ SameLoop /\ UNCHANGED <<queue, done>>

Drops(c) ==
  /\ cli[c].pc = "request" /\ done /\ Others(c)
  /\ cli'[c].pc = "erase" /\ cli'[c].owed = {} /\ cli'[c].op = cli[c].op /\ cli'[c].num = cli[c].num
  /\ SameMems /\ SameHistory /\ SameLoop /\ UNCHANGED <<queue, done>>

Enqueues(c) ==
  /\ Goes(c, "request", "erase") \/ Goes(c, "blocked", "erase")
  /\ Freezes(cli[c].mem)
  /\ \E id \in Nat : queue' = Append(queue, [mem |-> cli[c].mem, id |-> id])
  /\ SameHistory /\ SameLoop /\ UNCHANGED <<memtables, activeMem, done>>

Blocks(c) ==
  /\ Goes(c, "request", "blocked") /\ Freezes(cli[c].mem)
  /\ SameHistory /\ SameLoop /\ UNCHANGED <<memtables, activeMem, queue, done>>

Erases(c) ==
  /\ cli[c].pc = "erase" /\ Others(c)
  /\ \/ cli[c].op = "write" /\ cli'[c] = Idle /\ acked' = acked \cup {cli[c].num}
     \/ cli[c].op # "write" /\ cli'[c].pc = "wait" /\ Keeps(c) /\ acked' = acked
  /\ memtables' = RemoveAt(memtables, FrozenIndex)
  /\ SameLoop /\ UNCHANGED <<mems, activeMem, queue, done, writes, synced, overlapped>>

Returns(c) ==
  /\ cli[c].pc = "wait" /\ pending = 0 /\ Others(c) /\ cli'[c] = Idle
  /\ \/ lastErr /\ synced' = synced
     \/ ~ lastErr /\ synced' = synced \cup cli[c].owed
  /\ SameMems /\ SameLoop /\ UNCHANGED <<queue, done, writes, acked, overlapped>>

Closes(c) ==
  /\ \/ Goes(c, "wait", "stop") /\ cli[c].op = "close" /\ done' = done
     \/ Goes(c, "stop", "closing") /\ done' = TRUE
  /\ SameMems /\ SameHistory /\ SameLoop /\ UNCHANGED queue

Acts(c) ==
  \/ Starts(c) \/ Inserts(c) \/ Captures(c) \/ Swaps(c) \/ Drops(c) \/ Enqueues(c)
  \/ Blocks(c) \/ Erases(c) \/ Returns(c) \/ Closes(c)

\* A step of flushLoop, of Stop or of the process leaves the calls alone.
Loops == UNCHANGED LoopVars /\ (TakesJob \/ RenameSST \/ EndsJob \/ Exits)
Rests == SameMems /\ SameHistory /\ SameLoop /\ UNCHANGED <<cli, queue>> /\ (done' = done \/ done')

LEMMA LoopFrame ==
  /\ TakesJob => UNCHANGED LoopVars
  /\ RenameSST => UNCHANGED LoopVars
  /\ EndsJob => UNCHANGED LoopVars
  /\ Exits => UNCHANGED LoopVars
BY Zenon DEF TakesJob, RenameSST, EndsJob, Exits

LEMMA GoesIs ==
  ASSUME cli \in [Clients -> Call], NEW c \in Clients, NEW to \in ClientPCs, Goto(c, to)
  PROVE  Goes(c, cli[c].pc, to)
BY GotoFacts DEF Goes, Others, Keeps

LEMMA IdlesIs ==
  ASSUME cli \in [Clients -> Call], NEW c \in Clients, Now(c, Idle)
  PROVE  Others(c) /\ cli'[c] = Idle
BY NowFacts, IdleFacts DEF Others

LEMMA FreezesIs ==
  ASSUME mems \in Seq(Memtable), NEW m \in 1..Len(mems),
         mems' = [mems EXCEPT ![m] = Frozen(@)]
  PROVE  Freezes(m)
<1>1. /\ mems' \in Seq(Memtable) /\ Len(mems') = Len(mems)
      /\ \A l \in 1..Len(mems) : mems'[l].kv = mems[l].kv
      /\ \A l \in 1..Len(mems) : l # m => mems'[l] = mems[l]
  BY FreezeFacts, Zenon
<1> QED
  BY <1>1, Zenon DEF Freezes

LEMMA FreezesNothing == ASSUME mems \in Seq(Memtable), mems' = mems, NEW m PROVE Freezes(m)
BY DEF Freezes

LEMMA ActKinds ==
  ASSUME Types, [Next]_vars
  PROVE  Ends \/ Loops \/ Rests \/ \E c \in Clients : Acts(c)
<1> DEFINE P == Ends \/ Loops \/ Rests \/ \E c \in Clients : Acts(c)
<1>1. /\ cli \in [Clients -> Call] /\ mems \in Seq(Memtable) /\ activeMem \in 1..Len(mems)
      /\ Len(mems) \in Nat /\ fileID \in Nat /\ Len(writes) \in Nat
      /\ \A c \in Clients : cli[c] \in Call
      /\ \A c \in Clients : cli[c].pc \in Holding => cli[c].mem \in 1..Len(mems)
  BY DEF Types, ClientTypes, CallOK, MemTypes, JobTypes, HistoryTypes
<1>2. ASSUME NEW c \in Clients, NEW k \in Keys, BeginWrite(c, k) PROVE Starts(c)
  <2> DEFINE r == [Idle EXCEPT !.pc = "insert", !.op = "write", !.key = k, !.mem = activeMem]
  <2>1. /\ Now(c, r) /\ cli[c].pc = "idle"
        /\ overlapped' = (overlapped \/ \E d \in Clients \ {c} : Busy(d))
        /\ SameMems /\ SameLoop /\ UNCHANGED <<queue, done, writes, acked, synced>>
    BY <1>2, Zenon DEF BeginWrite, Start, At, memVars, jobVars, SameMems, SameLoop
  <2>2. k \in Nat /\ activeMem \in Nat
    BY <1>1, ConstantFacts
  <2>3. r \in Call /\ r.owed = {} /\ r.pc = "insert" /\ r.op = "write" /\ r.mem = activeMem
    <3>1. Idle \in Call /\ Idle.owed = {}
      BY IdleFacts
    <3> QED
      BY <2>2, <3>1 DEF Call, ClientPCs
  <2> HIDE DEF r
  <2>4. Others(c) /\ cli'[c] = r
    BY <1>1, <2>1, <2>3, NowFacts DEF Others
  <2> QED
    BY <2>1, <2>3, <2>4, Zenon DEF Starts
<1>3. ASSUME NEW c \in Clients, NEW op \in {"sync", "close"}, BeginSync(c, op) PROVE Starts(c)
  <2> DEFINE r == [Idle EXCEPT !.pc = "capture", !.op = op]
  <2>1. /\ Now(c, r) /\ cli[c].pc = "idle"
        /\ overlapped' = (overlapped \/ \E d \in Clients \ {c} : Busy(d))
        /\ SameMems /\ SameLoop /\ UNCHANGED <<queue, done, writes, acked, synced>>
    BY <1>3, Zenon DEF BeginSync, Start, At, memVars, jobVars, SameMems, SameLoop
  <2>2. r \in Call /\ r.owed = {} /\ r.pc \in {"capture", "stop"} /\ r.op # "write"
    <3>1. Idle \in Call /\ Idle.owed = {}
      BY IdleFacts
    <3> QED
      BY <3>1 DEF Call, ClientPCs
  <2> HIDE DEF r
  <2>3. Others(c) /\ cli'[c] = r
    BY <1>1, <2>1, <2>2, NowFacts DEF Others
  <2> QED
    BY <2>1, <2>2, <2>3, Zenon DEF Starts
<1>4. ASSUME NEW c \in Clients, BeginCloseEmpty(c) PROVE Starts(c)
  <2> DEFINE r == [Idle EXCEPT !.pc = "stop", !.op = "close"]
  <2>1. /\ Now(c, r) /\ cli[c].pc = "idle"
        /\ overlapped' = (overlapped \/ \E d \in Clients \ {c} : Busy(d))
        /\ SameMems /\ SameLoop /\ UNCHANGED <<queue, done, writes, acked, synced>>
    BY <1>4, Zenon DEF BeginCloseEmpty, Start, At, memVars, jobVars, SameMems, SameLoop
  <2>2. r \in Call /\ r.owed = {} /\ r.pc \in {"capture", "stop"} /\ r.op # "write"
    <3>1. Idle \in Call /\ Idle.owed = {}
      BY IdleFacts
    <3> QED
      BY <3>1 DEF Call, ClientPCs
  <2> HIDE DEF r
  <2>3. Others(c) /\ cli'[c] = r
    BY <1>1, <2>1, <2>2, NowFacts DEF Others
  <2> QED
    BY <2>1, <2>2, <2>3, Zenon DEF Starts
<1>5. ASSUME NEW c \in Clients, Insert(c) PROVE Inserts(c)
  <2> DEFINE n == Len(writes) + 1
             r == [cli[c] EXCEPT !.pc = "capture", !.num = n]
  <2>1. /\ \/ Now(c, r) /\ acked' = acked
           \/ Now(c, Idle) /\ acked' = acked \cup {n}
        /\ SameLoop /\ UNCHANGED <<memtables, activeMem, queue, done, synced, overlapped>>
    BY <1>5, Zenon DEF Insert, SameLoop, jobVars
  <2>2. Puts(c)
    BY <1>5, InsertPuts
  <2>3. n \in Nat /\ cli[c] \in Call
    BY <1>1
  <2> HIDE DEF n
  <2>4. r \in Call /\ r.pc = "capture" /\ r.num = n /\ r.op = cli[c].op /\ r.owed = cli[c].owed
    BY <2>3 DEF Call, ClientPCs
  <2> HIDE DEF r
  <2>5. CASE Now(c, r) /\ acked' = acked
    <3>1. Others(c) /\ cli'[c] = r
      BY <1>1, <2>4, <2>5, NowFacts DEF Others
    <3> QED
      BY <2>1, <2>2, <2>4, <2>5, <3>1, Zenon DEF Inserts, n
  <2>6. CASE Now(c, Idle) /\ acked' = acked \cup {n}
    BY <1>1, <2>1, <2>2, <2>6, IdlesIs, Zenon DEF Inserts, n
  <2> QED
    BY <2>1, <2>5, <2>6
<1>6. ASSUME NEW c \in Clients, Capture(c) PROVE Captures(c)
  <2> DEFINE o == Contents(c)
             r == [cli[c] EXCEPT !.pc = "swap", !.mem = activeMem, !.owed = o]
  <2>1. /\ Now(c, r) /\ cli[c].pc = "capture" /\ mems' = [mems EXCEPT ![activeMem] = Frozen(@)]
        /\ SameHistory /\ SameLoop /\ UNCHANGED <<memtables, activeMem, queue, done>>
    BY <1>6, Zenon DEF Capture, At, SameLoop, SameHistory, jobVars
  <2>2. o \in SUBSET Nat
    <3>1. mems[activeMem] \in Memtable
      BY <1>1
    <3>2. mems[activeMem].kv \in Mapping
      BY <3>1 DEF Memtable
    <3> QED
      BY <3>2 DEF Contents, KeysIn, Mapping
  <2> HIDE DEF o
  <2>3. /\ r \in Call /\ r.pc = "swap" /\ r.mem = activeMem /\ r.owed = o
        /\ r.op = cli[c].op /\ r.num = cli[c].num
    <3>1. activeMem \in Nat /\ cli[c] \in Call
      BY <1>1
    <3> QED
      BY <2>2, <3>1 DEF Call, ClientPCs
  <2> HIDE DEF r
  <2>4. Others(c) /\ cli'[c] = r
    BY <1>1, <2>1, <2>3, NowFacts, Zenon DEF Others
  <2>5. Freezes(activeMem)
    BY <1>1, <2>1, FreezesIs, Zenon
  <2> QED
    BY <2>1, <2>3, <2>4, <2>5, Zenon DEF Captures, o
<1>7. ASSUME NEW c \in Clients, Swap(c) PROVE Swaps(c)
  <2>1. /\ cli[c].pc = "swap" /\ Goto(c, "request") /\ mems' = Append(mems, NewMem)
        /\ memtables' = Append(memtables, Len(mems')) /\ activeMem' = Len(mems')
        /\ SameHistory /\ SameLoop /\ UNCHANGED <<queue, done>>
    BY <1>7, Zenon DEF Swap, At, SameLoop, SameHistory, jobVars
  <2>2. Goes(c, "swap", "request")
    BY <1>1, <2>1, GoesIs DEF ClientPCs
  <2>3. /\ mems' \in Seq(Memtable) /\ Len(mems') = Len(mems) + 1 /\ mems'[Len(mems) + 1] = NewMem
        /\ \A l \in 1..Len(mems) : mems'[l] = mems[l]
    BY <1>1, <2>1, NewMemFacts
  <2> QED
    BY <2>1, <2>2, <2>3, Zenon DEF Swaps
<1>8. ASSUME NEW c \in Clients, RequestDropped(c) PROVE Drops(c)
  <2> DEFINE r == [cli[c] EXCEPT !.pc = "erase", !.owed = {}]
  <2>1. /\ Now(c, r) /\ cli[c].pc = "request" /\ done
        /\ SameMems /\ SameHistory /\ SameLoop /\ UNCHANGED <<queue, done>>
    BY <1>8, Zenon DEF RequestDropped, CanRequest, At, SameLoop, SameHistory, SameMems, memVars, jobVars
  <2>2. r \in Call /\ r.pc = "erase" /\ r.owed = {} /\ r.op = cli[c].op /\ r.num = cli[c].num
    BY <1>1 DEF Call, ClientPCs
  <2> HIDE DEF r
  <2>3. Others(c) /\ cli'[c] = r
    BY <1>1, <2>1, <2>2, NowFacts, Zenon DEF Others
  <2> QED
    BY <2>1, <2>2, <2>3, Zenon DEF Drops
<1>9. ASSUME NEW c \in Clients, Request(c) PROVE Enqueues(c)
  <2>1. /\ Goto(c, "erase") /\ cli[c].pc = "request"
        /\ mems' = [mems EXCEPT ![cli[c].mem] = Frozen(@)]
        /\ queue' = Append(queue, [mem |-> cli[c].mem, id |-> fileID + 1])
        /\ SameHistory /\ SameLoop /\ UNCHANGED <<memtables, activeMem, done>>
    BY <1>9, Zenon DEF Request, CanRequest, At, SameLoop, SameHistory, Enqueued
  <2>2. Goes(c, "request", "erase")
    BY <1>1, <2>1, GoesIs, Zenon DEF ClientPCs
  <2>3. cli[c].mem \in 1..Len(mems)
    BY <1>1, <2>1 DEF Holding
  <2>4. Freezes(cli[c].mem)
    BY <1>1, <2>1, <2>3, FreezesIs, Zenon
  <2>5. fileID + 1 \in Nat
    BY <1>1
  <2> QED
    BY <2>1, <2>2, <2>4, <2>5, Zenon DEF Enqueues
<1>10. ASSUME NEW c \in Clients, RequestBlocks(c) PROVE Blocks(c)
  <2>1. /\ Goto(c, "blocked") /\ cli[c].pc = "request"
        /\ mems' = [mems EXCEPT ![cli[c].mem] = Frozen(@)]
        /\ SameHistory /\ SameLoop /\ UNCHANGED <<memtables, activeMem, queue, done>>
    BY <1>10, Zenon DEF RequestBlocks, CanRequest, At, SameLoop, SameHistory
  <2>2. Goes(c, "request", "blocked")
    BY <1>1, <2>1, GoesIs, Zenon DEF ClientPCs
  <2>3. cli[c].mem \in 1..Len(mems)
    BY <1>1, <2>1 DEF Holding
  <2>4. Freezes(cli[c].mem)
    BY <1>1, <2>1, <2>3, FreezesIs, Zenon
  <2> QED
    BY <2>1, <2>2, <2>4, Zenon DEF Blocks
<1>11. ASSUME NEW c \in Clients, RequestSent(c) PROVE Enqueues(c)
  <2>1. /\ Goto(c, "erase") /\ cli[c].pc = "blocked" /\ mems' = mems
        /\ queue' = Append(queue, [mem |-> cli[c].mem, id |-> fileID])
        /\ SameHistory /\ SameLoop /\ UNCHANGED <<memtables, activeMem, done>>
    BY <1>11, Zenon DEF RequestSent, At, SameLoop, SameHistory, memVars
  <2>2. Goes(c, "blocked", "erase")
    BY <1>1, <2>1, GoesIs, Zenon DEF ClientPCs
  <2>3. Freezes(cli[c].mem)
    BY <1>1, <2>1, FreezesNothing
  <2> QED
    BY <1>1, <2>1, <2>2, <2>3, Zenon DEF Enqueues
<1>12. ASSUME NEW c \in Clients, Erase(c) PROVE Erases(c)
  <2>1. /\ cli[c].pc = "erase" /\ memtables' = RemoveAt(memtables, FrozenIndex)
        /\ \/ cli[c].op = "write" /\ Now(c, Idle) /\ acked' = acked \cup {cli[c].num}
           \/ cli[c].op # "write" /\ Goto(c, "wait") /\ acked' = acked
        /\ SameLoop /\ UNCHANGED <<mems, activeMem, queue, done, writes, synced, overlapped>>
    BY <1>12, Zenon DEF Erase, At, SameLoop, jobVars
  <2>2. Now(c, Idle) => Others(c) /\ cli'[c] = Idle
    BY <1>1, IdlesIs
  <2>3. Goto(c, "wait") => Others(c) /\ cli'[c].pc = "wait" /\ Keeps(c)
    BY <1>1, GoesIs, Zenon DEF ClientPCs, Goes
  <2> QED
    BY <2>1, <2>2, <2>3, Zenon DEF Erases
<1>13. ASSUME NEW c \in Clients, SyncReturns(c) PROVE Returns(c)
  <2>1. /\ cli[c].pc = "wait" /\ pending = 0 /\ Now(c, Idle)
        /\ (lastErr /\ synced' = synced) \/ (~ lastErr /\ synced' = synced \cup cli[c].owed)
        /\ SameMems /\ SameLoop /\ UNCHANGED <<queue, done, writes, acked, overlapped>>
    BY <1>13, Zenon DEF SyncReturns, Waited, At, SameLoop, SameMems, memVars, jobVars
  <2>2. Others(c) /\ cli'[c] = Idle
    BY <1>1, <2>1, IdlesIs
  <2> QED
    BY <2>1, <2>2, Zenon DEF Returns
<1>14. ASSUME NEW c \in Clients, CloseSynced(c) PROVE Closes(c)
  <2>1. /\ cli[c].pc = "wait" /\ cli[c].op = "close" /\ Goto(c, "stop") /\ done' = done
        /\ SameMems /\ SameHistory /\ SameLoop /\ queue' = queue
    BY <1>14, Zenon DEF CloseSynced, Waited, At, SameLoop, SameHistory, SameMems, memVars, jobVars
  <2>2. Goes(c, "wait", "stop")
    BY <1>1, <2>1, GoesIs, Zenon DEF ClientPCs
  <2> QED
    BY <2>1, <2>2, Zenon DEF Closes
<1>15. ASSUME NEW c \in Clients, CloseStops(c) PROVE Closes(c)
  <2>1. /\ cli[c].pc = "stop" /\ Goto(c, "closing") /\ done' = TRUE
        /\ SameMems /\ SameHistory /\ SameLoop /\ queue' = queue
    BY <1>15, Zenon DEF CloseStops, At, SameLoop, SameHistory, SameMems, memVars
  <2>2. Goes(c, "stop", "closing")
    BY <1>1, <2>1, GoesIs, Zenon DEF ClientPCs
  <2> QED
    BY <2>1, <2>2, Zenon DEF Closes
<1>16. ASSUME NEW c \in Clients, CloseEnds(c) PROVE Ends
  BY <1>16 DEF CloseEnds, Ends
<1>17. ASSUME Kill PROVE Ends
  BY <1>17 DEF Kill, Ends
<1>18. ASSUME StopFlush PROVE Rests
  BY <1>18, Zenon DEF StopFlush, Rests, SameLoop, SameHistory, SameMems, memVars
<1>19. ASSUME Reopen PROVE Rests
  BY <1>19, Zenon DEF Reopen, Rests, SameLoop, SameHistory, SameMems, memVars, jobVars
<1>20. ASSUME vars' = vars PROVE Rests
  BY <1>20, Zenon DEF vars, Rests, SameLoop, SameHistory, SameMems, memVars, jobVars
<1>21. ASSUME LoopTake PROVE Loops
  BY <1>21 DEF LoopTake, TakesJob, Loops, Disk
<1>22. ASSUME LoopExit PROVE Loops
  BY <1>22 DEF LoopExit, Exits, Loops, Disk
<1>23. ASSUME DropEmpty PROVE Loops
  BY <1>23 DEF DropEmpty, EndsJob, JobDone, Flushing, Loops
<1>24. ASSUME ApplyManifest PROVE Loops
  BY <1>24 DEF ApplyManifest, EndsJob, JobDone, Flushing, Loops
<1>25. ASSUME JobFails PROVE Loops
  BY <1>25, Zenon DEF JobFails, EndsJob, JobDone, Flushing, Loops
<1>26. ASSUME RenameSST PROVE Loops
  BY <1>26, LoopFrame DEF Loops
<1> HIDE DEF P
<1>27. (\E c \in Clients : Acts(c)) => P
  BY DEF P
<1>28. \A c \in Clients :
         Starts(c) \/ Inserts(c) \/ Captures(c) \/ Swaps(c) \/ Drops(c) \/ Enqueues(c)
         \/ Blocks(c) \/ Erases(c) \/ Returns(c) \/ Closes(c) => P
  BY <1>27, Zenon DEF Acts
<1>29. Ends \/ Loops \/ Rests => P
  BY DEF P
<1>30. P
  BY <1>2, <1>3, <1>4, <1>5, <1>6, <1>7, <1>8, <1>9, <1>10, <1>11, <1>12, <1>13, <1>14, <1>15,
     <1>16, <1>17, <1>18, <1>19, <1>20, <1>21, <1>22, <1>23, <1>24, <1>25, <1>26, <1>28, <1>29,
     NextSteps, Zenon
<1> QED
  BY <1>30 DEF P

(***************************************************************************)
(* Sync: what is owed is under way, what was acknowledged is on disk        *)
(***************************************************************************)

\* A write that was counted keeps its key.
LEMMA KeyKept ==
  ASSUME Types, [Next]_vars, NEW n \in 1..Len(writes)
  PROVE  writes'[n] = writes[n] /\ writes[n] \in Keys /\ n \in Nat /\ n >= 1
<1>1. writes \in Seq(Keys) /\ Len(writes) \in Nat
  BY DEF Types, HistoryTypes
<1>2. CASE Grown
  BY <1>1, <1>2 DEF Grown
<1>3. CASE Ends
  BY <1>1, <1>3 DEF Ends, Down
<1> QED
  BY <1>2, <1>3, GrowStep

\* A listed file stays listed, and stays as it is until its name is taken again.
LEMMA DiskKept ==
  ASSUME Types, [Next]_vars, ~ clobbered', NEW i \in 1..Len(levels0)
  PROVE  /\ ~ clobbered
         /\ \E j \in 1..Len(levels0') : levels0'[j] = levels0[i]
         /\ levels0[i] \in DOMAIN files /\ levels0[i] \in DOMAIN files'
         /\ files'[levels0[i]] = files[levels0[i]]
<1>1. /\ levels0[i] \in DOMAIN files /\ levels0 \in Seq(Names) /\ Len(levels0) \in Nat
      /\ (loop.pc = "apply" => loop.meta \in Names)
  BY DEF Types, FileTypes, LoopTypes
<1>2. ASSUME UNCHANGED <<files, clobbered>>, levels0' = levels0 PROVE
        /\ ~ clobbered
        /\ \E j \in 1..Len(levels0') : levels0'[j] = levels0[i]
        /\ levels0[i] \in DOMAIN files /\ levels0[i] \in DOMAIN files'
        /\ files'[levels0[i]] = files[levels0[i]]
  BY <1>1, <1>2
<1>3. CASE Idles \/ Ends \/ TakesJob \/ Exits
  BY <1>2, <1>3 DEF Idles, Ends, Down, TakesJob, Exits, Disk
<1>4. CASE RenameSST
  BY <1>1, <1>4, RenameFacts
<1>5. CASE EndsJob
  <2>1. /\ UNCHANGED <<files, clobbered>>
        /\ (levels0' = levels0 \/ (loop.pc = "apply" /\ levels0' = <<loop.meta>> \o levels0))
    BY <1>5, Zenon DEF EndsJob, Listed
  <2>2. CASE levels0' = levels0
    BY <1>2, <2>1, <2>2
  <2>3. CASE loop.pc = "apply" /\ levels0' = <<loop.meta>> \o levels0
    <3>1. i + 1 \in 1..Len(levels0') /\ levels0'[i + 1] = levels0[i]
      BY <1>1, <2>3
    <3> QED
      BY <1>1, <2>1, <3>1
  <2> QED
    BY <2>1, <2>2, <2>3
<1> QED
  BY <1>3, <1>4, <1>5, LoopKinds

LEMMA OnDiskKept ==
  ASSUME Types, [Next]_vars, ~ clobbered', NEW n \in 1..Len(writes), OnDisk(n)
  PROVE  OnDisk(n)'
<1>1. PICK i \in DOMAIN levels0 : levels0[i] \in DOMAIN files /\ files[levels0[i]][writes[n]] >= n
  BY DEF OnDisk
<1>2. i \in 1..Len(levels0)
  BY DEF Types, FileTypes
<1>3. writes'[n] = writes[n]
  BY KeyKept
<1>4. /\ \E j \in 1..Len(levels0') : levels0'[j] = levels0[i]
      /\ levels0[i] \in DOMAIN files' /\ files'[levels0[i]] = files[levels0[i]]
  BY <1>2, DiskKept
<1>5. levels0' \in Seq(Names)
  BY FileStep DEF FileTypes
<1>6. DOMAIN levels0' = 1..Len(levels0')
  BY <1>5
<1> QED
  BY <1>1, <1>3, <1>4, <1>6 DEF OnDisk

\* The queue: jobs are added at its end and taken from its front.
LEMMA QueueKinds ==
  ASSUME Types, [Next]_vars
  PROVE  queue' = queue \/ Ends \/ TakesJob \/ \E c \in Clients : Enqueues(c)
BY ActKinds, Zenon
   DEF Loops, Rests, Acts, Starts, Inserts, Captures, Swaps, Drops, Blocks, Erases, Returns, Closes,
       TakesJob, RenameSST, EndsJob, Exits

LEMMA InMemKept ==
  ASSUME Types, [Next]_vars, Grown, NEW n \in 1..Len(writes), NEW m \in 1..Len(mems),
         mems[m].kv[writes[n]] >= n
  PROVE  mems'[m].kv[writes'[n]] >= n
<1>1. writes'[n] = writes[n] /\ writes[n] \in Keys /\ n \in Nat
  BY KeyKept
<1>2. /\ mems[m].kv[writes[n]] \in Nat /\ mems'[m].kv[writes[n]] \in Nat
      /\ mems[m].kv[writes[n]] <= mems'[m].kv[writes[n]]
  BY <1>1 DEF Grown
<1> QED
  BY <1>1, <1>2

\* What is under way goes on, and stays under way, unless a flush fails.
LEMMA UnderwayKept ==
  ASSUME Types, JobInv, [Next]_vars, Grown, ~ clobbered', NEW n \in 1..Len(writes), Underway(n)
  PROVE  Underway(n)' \/ lastErr'
<1>1. /\ writes'[n] = writes[n] /\ writes[n] \in Keys /\ n \in Nat /\ n >= 1
      /\ queue \in Seq(Jobs(Len(mems), fileID)) /\ Len(queue) \in Nat
      /\ LoopTypes /\ Len(mems) \in Nat
      /\ levels0 \in Seq(Names)
  BY KeyKept DEF Types, JobInv, JobTypes, Jobs, MemTypes, FileTypes
<1>2. CASE OnDisk(n)
  BY <1>2, OnDiskKept DEF Underway
<1>3. CASE InQueue(n)
  <2>1. PICK i \in 1..Len(queue) : mems[queue[i].mem].kv[writes[n]] >= n
    BY <1>3 DEF InQueue, InMem
  <2>2. queue[i].mem \in 1..Len(mems)
    <3>1. queue[i] \in Jobs(Len(mems), fileID)
      BY <1>1
    <3> QED
      BY <3>1 DEF Jobs
  <2>3. mems'[queue[i].mem].kv[writes'[n]] >= n
    BY <2>1, <2>2, InMemKept
  <2>4. ASSUME NEW j \in 1..Len(queue'), queue'[j] = queue[i] PROVE Underway(n)'
    BY <2>3, <2>4 DEF Underway, InQueue, InMem
  <2>5. CASE queue' = queue
    BY <2>4, <2>5
  <2>6. ASSUME NEW c \in Clients, Enqueues(c) PROVE Underway(n)'
    <3>1. PICK id \in Nat : queue' = Append(queue, [mem |-> cli[c].mem, id |-> id])
      BY <2>6 DEF Enqueues
    <3>2. i \in 1..Len(queue') /\ queue'[i] = queue[i]
      BY <1>1, <3>1
    <3> QED
      BY <2>4, <3>2
  <2>7. CASE TakesJob
    <3>1. /\ queue # <<>> /\ queue' = Tail(queue) /\ mems' = mems
          /\ loop'.pc = "rename" /\ loop'.data = mems[Head(queue).mem].kv
      BY <2>7 DEF TakesJob, Resting, LoopVars, memVars
    <3>2. CASE i = 1
      <4>1. Head(queue) = queue[i]
        BY <1>1, <3>1, <3>2
      <4>2. loop'.data[writes'[n]] >= n
        BY <1>1, <2>1, <3>1, <4>1
      <4> QED
        BY <3>1, <4>2 DEF Underway, InLoop, Flushing
    <3>3. CASE i # 1
      <4>1. i - 1 \in 1..Len(queue') /\ queue'[i - 1] = queue[i]
        <5>1. /\ Len(queue') = Len(queue) - 1
              /\ \A j \in 1..Len(queue') : queue'[j] = queue[j + 1]
          BY <1>1, <3>1
        <5>2. i - 1 \in 1..Len(queue') /\ i = (i - 1) + 1
          BY <1>1, <3>3, <5>1
        <5> QED
          BY <5>1, <5>2
      <4> QED
        BY <2>4, <4>1
    <3> QED
      BY <3>2, <3>3
  <2>8. CASE Ends
    <3>1. Len(mems') = 1 /\ mems'[1] = NewMem /\ queue[i].mem = 1
      BY <1>1, <2>2, <2>8 DEF Ends, Down, Grown
    <3>2. NewMem.kv[writes[n]] = 0
      BY <1>1, NewMemFacts
    <3> QED
      BY <1>1, <2>3, <3>1, <3>2
  <2> QED
    BY <2>5, <2>6, <2>7, <2>8, QueueKinds
<1>4. CASE InLoop(n)
  <2>1. loop.pc \in Flushing /\ loop.data[writes[n]] >= n
    BY <1>4 DEF InLoop
  <2>2. CASE Idles
    BY <1>1, <2>1, <2>2 DEF Idles, Underway, InLoop
  <2>3. CASE RenameSST
    <3>1. loop'.pc = "apply" /\ loop'.data = loop.data
      BY <2>3, RenameFacts
    <3> QED
      BY <1>1, <2>1, <3>1 DEF Underway, InLoop, Flushing
  <2>4. CASE TakesJob \/ Exits
    BY <2>1, <2>4 DEF TakesJob, Exits, Flushing
  <2>5. CASE EndsJob
    <3>1. CASE loop.pc = "apply" /\ levels0' = Listed(loop.meta)
      <4>1. loop.meta \in DOMAIN files /\ files[loop.meta] = loop.data
        BY <1>1, <3>1 DEF LoopTypes
      <4>2. loop.meta \in Names
        BY <4>1 DEF Types, FileTypes
      <4>3. 1 \in DOMAIN levels0' /\ levels0'[1] = loop.meta
        BY <1>1, <3>1, <4>2 DEF Listed
      <4>4. files' = files
        BY <2>5 DEF EndsJob
      <4> QED
        BY <1>1, <2>1, <4>1, <4>3, <4>4 DEF Underway, OnDisk
    <3>2. CASE lastErr'
      BY <3>2
    <3>3. CASE loop.pc = "rename" /\ KeysIn(mems[loop.job.mem].kv) = {}
      <4>1. KeysIn(loop.data) = {} /\ loop.data \in [Keys -> Nat]
        BY <1>1, <2>1, <3>3 DEF LoopTypes, Mapping
      <4>2. loop.data[writes[n]] = 0
        BY <1>1, <4>1 DEF KeysIn, Missing
      <4> QED
        BY <1>1, <2>1, <4>2
    <3> QED
      BY <2>5, <3>1, <3>2, <3>3, Zenon DEF EndsJob
  <2>6. CASE Ends
    <3>1. loop.job.mem \in 1..Len(mems) /\ loop.data \in [Keys -> Nat]
      BY <1>1, <2>1 DEF LoopTypes, Mapping
    <3>2. writes[n] \in KeysIn(loop.data)
      BY <1>1, <2>1, <3>1 DEF KeysIn, Missing
    <3>3. mems[loop.job.mem].kv[writes[n]] # 0
      BY <1>1, <2>1, <3>2 DEF LoopTypes, KeysIn, Missing
    <3>4. /\ mems[loop.job.mem].kv[writes[n]] \in Nat
          /\ mems[loop.job.mem].kv[writes[n]] <= mems'[loop.job.mem].kv[writes[n]]
      BY <1>1, <3>1 DEF Grown
    <3>5. mems'[loop.job.mem] = NewMem
      BY <1>1, <2>6, <3>1 DEF Ends, Down, Grown
    <3>6. NewMem.kv[writes[n]] = 0
      BY <1>1, NewMemFacts
    <3> QED
      BY <3>3, <3>4, <3>5, <3>6
  <2> QED
    BY <2>2, <2>3, <2>4, <2>5, <2>6, LoopKinds
<1> QED
  BY <1>2, <1>3, <1>4 DEF Underway


LEMMA ClobberedKept == ASSUME Types, [Next]_vars, ~ clobbered' PROVE ~ clobbered
BY LoopKinds, RenameFacts, Zenon DEF Idles, Ends, Down, TakesJob, EndsJob, Exits, Disk

LEMMA ErrorKept == ASSUME Types, [Next]_vars, lastErr, ~ Ends PROVE lastErr'
BY LoopKinds, RenameFacts, Zenon DEF Idles, TakesJob, EndsJob, Exits

\* What a Sync owes stays due while its call goes on.
LEMMA DueKept ==
  ASSUME Types, JobInv, [Next]_vars, Grown, ~ Ends, ~ clobbered',
         NEW c \in Clients, NEW n \in cli[c].owed, Due(c, n),
         cli'[c].op = cli[c].op, cli'[c].mem = cli[c].mem,
         cli'[c].pc \in Holding \cup {"erase", "wait"},
         cli'[c].pc \in Holding => cli[c].pc \in Holding,
         cli[c].pc \in Holding /\ cli'[c].pc \notin Holding => InQueue(n)'
  PROVE  Due(c, n)'
<1>1. n \in 1..Len(writes) /\ (cli[c].pc \in Holding => cli[c].mem \in 1..Len(mems))
  BY DEF Types, ClientTypes, CallOK
<1>2. cli'[c].op = "sync"
  BY DEF Due
<1>3. ASSUME cli'[c].pc \in Holding PROVE InMem(cli[c].mem, n)'
  <2>1. mems[cli[c].mem].kv[writes[n]] >= n
    BY <1>3 DEF Due, InMem
  <2> QED
    BY <1>1, <1>3, <2>1, InMemKept DEF InMem
<1>4. ASSUME cli'[c].pc \in {"erase", "wait"} PROVE lastErr' \/ Underway(n)'
  <2>1. CASE cli[c].pc \in Holding
    BY <1>4, <2>1 DEF Underway, Holding
  <2>2. CASE cli[c].pc \notin Holding
    <3>1. lastErr \/ Underway(n)
      BY <2>2 DEF Due
    <3> QED
      BY <1>1, <3>1, ErrorKept, UnderwayKept
  <2> QED
    BY <2>1, <2>2
<1> QED
  BY <1>2, <1>3, <1>4, Zenon DEF Due

\* When no job is pending, none is queued and none runs.
LEMMA PendingNone == ASSUME JobInv, pending = 0 PROVE queue = <<>> /\ loop.pc \notin Flushing
<1>1. pending = Len(queue) + Running + Sent /\ queue \in Seq(Jobs(Len(mems), fileID))
  BY DEF JobInv, JobTypes, Jobs
<1>2. Running \in Nat /\ Sent \in Nat /\ (Running = 0 => loop.pc \notin Flushing)
  BY DEF Running, Sent
<1>3. Len(queue) = 0 /\ Running = 0
  BY <1>1, <1>2
<1> QED
  BY <1>1, <1>2, <1>3

LEMMA OwedStep == ASSUME Types, JobInv, Owed, [Next]_vars PROVE Owed'
<1> SUFFICES ASSUME ~ clobbered'
             PROVE  /\ \A n \in synced' : OnDisk(n)'
                    /\ \A c \in Clients : \A n \in cli'[c].owed : Due(c, n)'
  BY DEF Owed
<1>1. /\ \A n \in synced : OnDisk(n)
      /\ \A c \in Clients : \A n \in cli[c].owed : Due(c, n)
      /\ synced \subseteq 1..Len(writes)
      /\ \A c \in Clients : cli[c].owed \subseteq 1..Len(writes)
  BY ClobberedKept DEF Owed, Types, HistoryTypes, ClientTypes, CallOK
<1>2. \A n \in synced : OnDisk(n)'
  BY <1>1, OnDiskKept
<1>3. ASSUME NEW c \in Clients, Returns(c) PROVE \A n \in synced' : OnDisk(n)'
  <2>1. ASSUME ~ lastErr, NEW n \in cli[c].owed PROVE OnDisk(n)'
    <3>1. Underway(n)
      BY <1>1, <1>3, <2>1 DEF Due, Returns
    <3>2. queue = <<>> /\ loop.pc \notin Flushing
      BY <1>3, PendingNone DEF Returns
    <3>3. OnDisk(n)
      BY <3>1, <3>2 DEF Underway, InQueue, InLoop
    <3> QED
      BY <1>1, <3>3, OnDiskKept
  <2> QED
    BY <1>2, <1>3, <2>1, Zenon DEF Returns
<1>4. \A n \in synced' : OnDisk(n)'
  <2>1. CASE \E c \in Clients : Returns(c)
    BY <1>3, <2>1
  <2>2. CASE synced' = synced
    BY <1>2, <2>2
  <2> QED
    BY <2>1, <2>2, ActKinds, Zenon
       DEF Ends, Down, Loops, LoopVars, Rests, SameHistory, Acts, Starts, Inserts, Captures, Swaps,
           Drops, Enqueues, Blocks, Erases, Closes
<1>5. CASE Ends
  <2>1. \A c \in Clients : cli'[c].owed = {}
    BY <1>5, IdleFacts DEF Ends, Down
  <2> QED
    BY <1>4, <2>1
<1>6. CASE ~ Ends
  <2>1. Grown
    BY <1>6, GrowStep
  <2>2. ASSUME NEW c \in Clients, cli'[c] = cli[c] PROVE \A n \in cli'[c].owed : Due(c, n)'
    <3>1. \A n \in cli[c].owed : cli[c].pc \in Holding \cup {"erase", "wait"}
      BY <1>1 DEF Due
    <3> QED
      BY <1>1, <1>6, <2>1, <2>2, <3>1, DueKept
  <2>3. ASSUME NEW c \in Clients, cli'[c].owed = {} PROVE \A n \in cli'[c].owed : Due(c, n)'
    BY <2>3
  <2>4. ASSUME NEW c \in Clients, Inserts(c) PROVE \A n \in cli'[c].owed : Due(c, n)'
    <3>1. cli'[c] = Idle \/ cli'[c].owed = cli[c].owed
      BY <2>4 DEF Inserts
    <3>2. cli[c].op = "write"
      BY <2>4 DEF Inserts, Puts
    <3>3. cli[c].owed = {}
      BY <1>1, <3>2 DEF Due
    <3> QED
      BY <3>1, <3>3, IdleFacts
  <2>5. ASSUME NEW c \in Clients, Captures(c) PROVE \A n \in cli'[c].owed : Due(c, n)'
    <3> SUFFICES ASSUME NEW n \in cli'[c].owed PROVE Due(c, n)'
      OBVIOUS
    <3>1. /\ cli'[c].pc = "swap" /\ cli'[c].mem = activeMem /\ cli'[c].op = cli[c].op
          /\ n \in Contents(c) /\ writes' = writes
      BY <2>5 DEF Captures, SameHistory
    <3>2. \A m \in 1..Len(mems) : mems'[m].kv = mems[m].kv
      BY <2>5 DEF Captures, Freezes
    <3>3. /\ activeMem \in 1..Len(mems) /\ mems[activeMem] \in Memtable
          /\ Faithful(mems[activeMem].kv, writes)
      BY DEF Types, MemTypes
    <3>4. cli[c].op = "sync" /\ \E k \in KeysIn(mems[activeMem].kv) : n = mems[activeMem].kv[k]
      BY <3>1 DEF Contents
    <3>5. PICK k \in KeysIn(mems[activeMem].kv) : n = mems[activeMem].kv[k]
      BY <3>4
    <3>6. k \in Keys /\ n # 0 /\ n \in Nat
      BY <3>3, <3>5 DEF Memtable, Mapping, KeysIn, Missing
    <3>7. writes[n] = k
      BY <3>3, <3>5, <3>6 DEF Faithful, Missing
    <3>8. mems'[cli'[c].mem].kv[writes'[n]] >= n
      BY <3>1, <3>2, <3>3, <3>5, <3>6, <3>7
    <3> QED
      BY <3>1, <3>4, <3>8 DEF Due, InMem, Holding
  <2>6. ASSUME NEW c \in Clients, Enqueues(c) PROVE \A n \in cli'[c].owed : Due(c, n)'
    <3>1. /\ cli[c].pc \in {"request", "blocked"} /\ cli'[c].pc = "erase" /\ Keeps(c)
          /\ \E id \in Nat : queue' = Append(queue, [mem |-> cli[c].mem, id |-> id])
      BY <2>6 DEF Enqueues, Goes
    <3>2. ASSUME NEW n \in cli[c].owed PROVE InQueue(n)'
      <4>1. n \in 1..Len(writes) /\ cli[c].mem \in 1..Len(mems) /\ queue \in Seq(Jobs(Len(mems), fileID))
        BY <1>1, <3>1 DEF Types, ClientTypes, CallOK, Holding, JobTypes, Jobs
      <4>2. mems[cli[c].mem].kv[writes[n]] >= n
        BY <1>1, <3>1, <3>2 DEF Due, Holding, InMem
      <4>3. mems'[cli[c].mem].kv[writes'[n]] >= n
        BY <2>1, <4>1, <4>2, InMemKept
      <4>4. Len(queue) + 1 \in 1..Len(queue') /\ queue'[Len(queue) + 1].mem = cli[c].mem
        BY <3>1, <4>1
      <4> QED
        BY <4>3, <4>4 DEF InQueue, InMem
    <3> QED
      BY <1>1, <1>6, <2>1, <3>1, <3>2, DueKept DEF Keeps, Holding
  <2>7. ASSUME NEW c \in Clients, Keeps(c), NEW p, NEW q, cli[c].pc = p, cli'[c].pc = q,
               <<p, q>> \in {<<"swap", "request">>, <<"request", "blocked">>, <<"erase", "wait">>}
        PROVE  \A n \in cli'[c].owed : Due(c, n)'
    <3>1. /\ cli'[c].pc \in Holding \cup {"erase", "wait"}
          /\ (cli'[c].pc \in Holding <=> cli[c].pc \in Holding)
      BY <2>7 DEF Holding
    <3> QED
      BY <1>1, <1>6, <2>1, <2>7, <3>1, DueKept DEF Keeps
  <2>8. ASSUME NEW c \in Clients, Closes(c) PROVE \A n \in cli'[c].owed : Due(c, n)'
    <3>1. cli'[c].owed = cli[c].owed /\ (cli[c].op = "close" \/ cli[c].pc = "stop")
      BY <2>8 DEF Closes, Goes, Keeps
    <3> QED
      BY <1>1, <3>1 DEF Due, Holding
  <2>9. ASSUME NEW c \in Clients, Acts(c) PROVE \A n \in cli'[c].owed : Due(c, n)'
    <3>1. Swaps(c) => \A n \in cli'[c].owed : Due(c, n)'
      BY <2>7 DEF Swaps, Goes
    <3>2. Blocks(c) => \A n \in cli'[c].owed : Due(c, n)'
      BY <2>7 DEF Blocks, Goes
    <3>3. Erases(c) => \A n \in cli'[c].owed : Due(c, n)'
      BY <2>3, <2>7, IdleFacts DEF Erases
    <3>4. Starts(c) \/ Drops(c) \/ Returns(c) => \A n \in cli'[c].owed : Due(c, n)'
      BY <2>3, IdleFacts, Zenon DEF Starts, Drops, Returns
    <3> QED
      BY <2>4, <2>5, <2>6, <2>8, <2>9, <3>1, <3>2, <3>3, <3>4, Zenon DEF Acts
  <2>10. ASSUME NEW c \in Clients, Acts(c), NEW d \in Clients, d # c PROVE cli'[d] = cli[d]
    BY <2>10, Zenon
       DEF Acts, Starts, Inserts, Captures, Swaps, Drops, Enqueues, Blocks, Erases, Returns, Closes,
           Goes, Others
  <2>11. \A c \in Clients : \A n \in cli'[c].owed : Due(c, n)'
    <3>1. CASE Loops \/ Rests
      <4>1. cli' = cli
        BY <3>1 DEF Loops, Rests, LoopVars
      <4> QED
        BY <2>2, <4>1
    <3>2. ASSUME NEW c \in Clients, Acts(c) PROVE \A d \in Clients : \A n \in cli'[d].owed : Due(d, n)'
      BY <2>2, <2>9, <2>10, <3>2
    <3> QED
      BY <1>6, <3>1, <3>2, ActKinds
  <2> QED
    BY <1>4, <2>11
<1> QED
  BY <1>5, <1>6

(***************************************************************************)
(* Calls that do not overlap: the line                                      *)
(***************************************************************************)

LEMMA OtherCalls ==
  ASSUME NEW c \in Clients, Acts(c), NEW d \in Clients, d # c
  PROVE  cli'[d] = cli[d]
BY Zenon DEF Acts, Starts, Inserts, Captures, Swaps, Drops, Enqueues, Blocks, Erases, Returns,
             Closes, Goes, Others

LEMMA OverlappedKept == ASSUME Types, [Next]_vars, ~ overlapped' PROVE ~ overlapped
BY ActKinds, Zenon
   DEF Ends, Down, Loops, LoopVars, Rests, SameHistory, Acts, Starts, Inserts, Captures, Swaps,
       Drops, Enqueues, Blocks, Erases, Returns, Closes

\* When a call acts and none overlap, the other clients are idle.
LEMMA OthersIdle ==
  ASSUME Types, [Next]_vars, OneBusy, ~ overlapped', NEW c \in Clients, Acts(c),
         NEW d \in Clients, d # c
  PROVE  cli'[d] = cli[d] /\ cli[d].pc = "idle"
<1>1. CASE Starts(c)
  <2>1. ~ (\E e \in Clients \ {c} : Busy(e))
    BY <1>1, Zenon DEF Starts
  <2> QED
    BY <2>1, OtherCalls DEF Busy
<1>2. CASE ~ Starts(c)
  <2>1. cli[c].pc \in ClientPCs \ {"idle"}
    BY <1>2
       DEF Acts, Inserts, Puts, At, Captures, Swaps, Drops, Enqueues, Blocks, Erases, Returns,
           Closes, Goes, ClientPCs
  <2> QED
    BY <2>1, OtherCalls DEF OneBusy, Busy
<1> QED
  BY <1>1, <1>2

LEMMA OneBusyStep == ASSUME Types, OneBusy, [Next]_vars, ~ overlapped' PROVE OneBusy'
<1>1. CASE Ends
  BY <1>1, IdleFacts DEF Ends, Down, OneBusy, Busy
<1>2. CASE Loops \/ Rests
  BY <1>2 DEF Loops, LoopVars, Rests, OneBusy, Busy
<1>3. ASSUME NEW c \in Clients, Acts(c) PROVE OneBusy'
  <2>1. \A d \in Clients : d # c => cli'[d].pc = "idle"
    BY <1>3, OthersIdle
  <2> QED
    BY <2>1 DEF OneBusy, Busy
<1> QED
  BY <1>1, <1>2, <1>3, ActKinds

\* Only the active memtable is written.
LEMMA ValuesKept ==
  ASSUME Types, InLine, [Next]_vars, ~ Ends, NEW m \in 1..Len(mems), m # activeMem
  PROVE  mems'[m].kv = mems[m].kv
<1>1. CASE Stays
  BY <1>1 DEF Stays
<1>2. ASSUME NEW c \in Clients, Puts(c) PROVE mems'[m].kv = mems[m].kv
  <2>1. cli[c].mem = activeMem
    BY <1>2 DEF Puts, At, InLine, CallInLine
  <2> QED
    BY <1>2, <2>1 DEF Puts
<1> QED
  BY <1>1, <1>2, DataStep

\* The stations of the line, as numbers.
LEMMA LineFacts ==
  ASSUME Types
  PROVE  /\ activeMem = Len(mems) /\ Len(mems) \in Nat /\ Len(mems) >= 1
         /\ queue \in Seq(Jobs(Len(mems), fileID)) /\ Len(queue) \in Nat
         /\ \A i \in 1..Len(queue) : queue[i].mem \in 1..Len(mems)
         /\ loop.pc \in Flushing => loop.job.mem \in 1..Len(mems)
         /\ \A c \in Clients : cli[c].pc \in Holding => cli[c].mem \in 1..Len(mems)
<1>1. queue \in Seq(Jobs(Len(mems), fileID))
  BY DEF Types, JobTypes, Jobs
<1>2. \A i \in 1..Len(queue) : queue[i] \in Jobs(Len(mems), fileID)
  BY <1>1
<1> QED
  BY <1>1, <1>2 DEF Jobs, Types, MemTypes, LoopTypes, ClientTypes, CallOK

\* flushLoop has no job once it ended one or has exited.
LEMMA EndsFacts ==
  ASSUME Types, EndsJob \/ Exits
  PROVE  queue' = queue /\ loop'.pc \notin Flushing
<1>1. CASE EndsJob
  <2>1. queue' = queue /\ loop' = Resting
    BY <1>1, Zenon DEF EndsJob
  <2> QED
    BY <2>1 DEF Resting, Flushing
<1>2. CASE Exits
  <2>1. queue' = queue /\ loop' = [loop EXCEPT !.pc = "exited"] /\ LoopTypes
    BY <1>2, Zenon DEF Exits, Types
  <2>2. loop = [pc |-> loop.pc, job |-> loop.job, data |-> loop.data, meta |-> loop.meta]
    BY <2>1 DEF LoopTypes
  <2> QED
    BY <2>1, <2>2 DEF Flushing
<1> QED
  BY <1>1, <1>2

LEMMA InLineStep == ASSUME Types, OneBusy, InLine, [Next]_vars, ~ overlapped' PROVE InLine'
<1>0. /\ Len(queue) \in Nat
      /\ \A i, j \in 1..Len(queue) : i < j => queue[i].mem < queue[j].mem
      /\ \A i \in 1..Len(queue) : queue[i].mem < activeMem
  BY LineFacts DEF InLine, QueueInLine
<1>1. CASE Ends
  <2>1. queue' = <<>> /\ loop'.pc = "idle" /\ \A c \in Clients : cli'[c].pc = "idle"
    BY <1>1, IdleFacts DEF Ends, Down, Resting
  <2> QED
    BY <2>1 DEF InLine, QueueInLine, JobInLine, CallInLine, Flushing, Sending
<1>2. CASE Rests
  BY <1>2 DEF Rests, SameMems, SameLoop, InLine, QueueInLine, JobInLine, CallInLine
<1>3. CASE Loops
  <2>1. UNCHANGED <<mems, activeMem, cli>>
    BY <1>3 DEF Loops, LoopVars, memVars
  <2>2. CASE TakesJob
    <3>1. /\ queue # <<>> /\ queue' = Tail(queue)
          /\ loop'.job = Head(queue) /\ loop'.data = mems[Head(queue).mem].kv
      BY <2>2 DEF TakesJob, Resting
    <3>2. /\ Len(queue') = Len(queue) - 1 /\ Len(queue) >= 1 /\ Head(queue) = queue[1]
          /\ \A i \in 1..Len(queue') : i + 1 \in 1..Len(queue) /\ queue'[i] = queue[i + 1]
      BY <3>1, LineFacts
    <3>3. QueueInLine'
      <4>1. \A i \in 1..Len(queue') : queue'[i].mem < activeMem
        BY <3>2, <1>0
      <4>2. ASSUME NEW i \in 1..Len(queue'), NEW j \in 1..Len(queue'), i < j
            PROVE  queue'[i].mem < queue'[j].mem
        BY <3>2, <4>2, <1>0
      <4> QED
        BY <2>1, <4>1, <4>2 DEF QueueInLine
    <3>4. JobInLine'
      <4>1. Head(queue).mem < activeMem
        BY <3>2, <1>0
      <4>2. \A i \in 1..Len(queue') : Head(queue).mem < queue'[i].mem
        BY <3>2, <1>0
      <4> QED
        BY <2>1, <3>1, <4>1, <4>2 DEF JobInLine
    <3>5. ASSUME NEW c \in Clients PROVE CallInLine(c)'
      BY <2>1, <3>1, <3>2, LineFacts DEF InLine, CallInLine
    <3> QED
      BY <3>3, <3>4, <3>5, Zenon DEF InLine
  <2>3. CASE RenameSST
    <3>1. loop.pc = "rename" /\ loop'.job = loop.job /\ loop'.data = loop.data /\ queue' = queue
      BY <2>3, RenameFacts
    <3> QED
      BY <2>1, <3>1 DEF InLine, QueueInLine, JobInLine, CallInLine, Flushing
  <2>4. CASE EndsJob \/ Exits
    <3>1. queue' = queue /\ loop'.pc \notin Flushing
      BY <2>4, EndsFacts
    <3> QED
      BY <2>1, <3>1 DEF InLine, QueueInLine, JobInLine, CallInLine
  <2> QED
    BY <1>3, <2>2, <2>3, <2>4 DEF Loops
<1>4. ASSUME ~ Ends, NEW c \in Clients, Acts(c) PROVE InLine'
  <2>1. \A d \in Clients : d # c => CallInLine(d)'
    <3>1. \A d \in Clients : d # c => cli'[d].pc = "idle"
      BY <1>4, OthersIdle
    <3> QED
      BY <3>1 DEF CallInLine, Sending
  <2>2. ASSUME queue' = queue, loop' = loop, activeMem' \in Nat, activeMem <= activeMem'
        PROVE  QueueInLine' /\ JobInLine'
    <3>1. QueueInLine'
      <4>1. activeMem \in Nat /\ \A i \in 1..Len(queue) : queue[i].mem \in Nat
        BY LineFacts
      <4>2. \A i \in 1..Len(queue) : queue[i].mem < activeMem'
        BY <2>2, <4>1, <1>0
      <4> QED
        BY <2>2, <4>2, <1>0 DEF QueueInLine
    <3>2. loop.pc \in Flushing => mems'[loop.job.mem].kv = mems[loop.job.mem].kv
      BY <1>4, LineFacts, ValuesKept DEF InLine, JobInLine
    <3>3. JobInLine'
      BY <2>2, <3>2, LineFacts DEF InLine, JobInLine
    <3> QED
      BY <3>1, <3>3
  <2>3. ASSUME queue' = queue, loop' = loop, activeMem' = activeMem, CallInLine(c)' PROVE InLine'
    <3>1. QueueInLine' /\ JobInLine'
      BY <2>2, <2>3, LineFacts
    <3> QED
      BY <2>1, <2>3, <3>1, Zenon DEF InLine
  <2>4. ASSUME queue' = queue, loop' = loop, activeMem' = activeMem,
               cli'[c].pc \in ClientPCs \ {"insert", "swap", "request", "blocked"}
        PROVE  InLine'
    BY <2>3, <2>4 DEF CallInLine, Sending
  <2>5. CASE Starts(c)
    <3>1. queue' = queue /\ loop' = loop /\ activeMem' = activeMem
      BY <2>5, Zenon DEF Starts, SameMems, SameLoop
    <3>2. (cli'[c].pc = "insert" /\ cli'[c].mem = activeMem) \/ cli'[c].pc \in {"capture", "stop"}
      BY <2>5, Zenon DEF Starts
    <3> QED
      BY <2>3, <3>1, <3>2 DEF CallInLine, Sending
  <2>6. CASE Captures(c)
    <3>1. /\ queue' = queue /\ loop' = loop /\ activeMem' = activeMem
          /\ cli'[c].pc = "swap" /\ cli'[c].mem = activeMem
      BY <2>6, Zenon DEF Captures, SameLoop
    <3> QED
      BY <2>3, <3>1 DEF CallInLine, Sending
  <2>7. CASE Inserts(c) \/ Drops(c) \/ Erases(c) \/ Returns(c) \/ Closes(c)
    <3>1. queue' = queue /\ loop' = loop /\ activeMem' = activeMem
      BY <2>7, Zenon DEF Inserts, Drops, Erases, Returns, Closes, SameMems, SameLoop
    <3>2. cli'[c].pc \in {"idle", "capture", "erase", "wait", "stop", "closing"}
      BY <2>7, IdleFacts DEF Inserts, Drops, Erases, Returns, Closes, Goes
    <3> QED
      BY <2>4, <3>1, <3>2 DEF ClientPCs
  <2>8. CASE Swaps(c)
    <3>1. /\ queue' = queue /\ loop' = loop /\ Len(mems') = Len(mems) + 1 /\ activeMem' = Len(mems')
          /\ cli[c].pc = "swap" /\ cli'[c].pc = "request" /\ cli'[c].mem = cli[c].mem
      BY <2>8, Zenon DEF Swaps, Goes, Keeps, SameLoop
    <3>2. QueueInLine' /\ JobInLine'
      BY <2>2, <3>1, LineFacts
    <3>3. cli[c].mem = activeMem
      BY <3>1 DEF InLine, CallInLine
    <3>4. CallInLine(c)'
      BY <3>1, <3>3, LineFacts DEF InLine, QueueInLine, JobInLine, CallInLine
    <3> QED
      BY <2>1, <3>2, <3>4, Zenon DEF InLine
  <2>9. CASE Blocks(c)
    <3>1. /\ queue' = queue /\ loop' = loop /\ activeMem' = activeMem
          /\ cli[c].pc = "request" /\ cli'[c].pc = "blocked" /\ cli'[c].mem = cli[c].mem
      BY <2>9, Zenon DEF Blocks, Goes, Keeps, SameLoop
    <3>2. CallInLine(c)'
      BY <3>1 DEF InLine, CallInLine, Sending
    <3> QED
      BY <2>3, <3>1, <3>2
  <2>10. CASE Enqueues(c)
    <3>1. /\ loop' = loop /\ activeMem' = activeMem
          /\ cli[c].pc \in Sending /\ cli'[c].pc = "erase" /\ cli'[c].mem = cli[c].mem
          /\ \A m \in 1..Len(mems) : mems'[m].kv = mems[m].kv
      BY <2>10 DEF Enqueues, Goes, Keeps, SameLoop, Sending, Freezes
    <3>2. PICK id \in Nat : queue' = Append(queue, [mem |-> cli[c].mem, id |-> id])
      BY <2>10 DEF Enqueues
    <3>3. /\ Len(queue') = Len(queue) + 1 /\ queue'[Len(queue) + 1].mem = cli[c].mem
          /\ \A i \in 1..Len(queue) : queue'[i] = queue[i]
      BY <3>2, LineFacts
    <3>4. /\ cli[c].mem < activeMem
          /\ \A i \in 1..Len(queue) : queue[i].mem < cli[c].mem
          /\ loop.pc \in Flushing => loop.job.mem < cli[c].mem
      BY <3>1 DEF InLine, CallInLine
    <3>5. QueueInLine'
      <4>1. \A i \in 1..Len(queue') : i = Len(queue) + 1 \/ i \in 1..Len(queue)
        BY <3>3, <1>0
      <4>2. \A i \in 1..Len(queue') : queue'[i].mem < activeMem
        BY <3>3, <3>4, <4>1, <1>0
      <4>3. ASSUME NEW i \in 1..Len(queue'), NEW j \in 1..Len(queue'), i < j
            PROVE  queue'[i].mem < queue'[j].mem
        <5>1. i \in 1..Len(queue)
          BY <3>3, <4>3, <1>0
        <5> QED
          BY <3>3, <3>4, <4>1, <4>3, <5>1, <1>0
      <4> QED
        BY <3>1, <4>2, <4>3 DEF QueueInLine
    <3>6. JobInLine'
      <4>1. ASSUME loop.pc \in Flushing
            PROVE  /\ loop.job.mem < activeMem /\ loop.data = mems'[loop.job.mem].kv
                   /\ \A i \in 1..Len(queue) : loop.job.mem < queue[i].mem
        BY <3>1, <4>1, LineFacts, Zenon DEF InLine, JobInLine
      <4>2. \A i \in 1..Len(queue') : i = Len(queue) + 1 \/ i \in 1..Len(queue)
        BY <3>3, <1>0
      <4> QED
        BY <3>1, <3>3, <3>4, <4>1, <4>2 DEF JobInLine
    <3>7. CallInLine(c)'
      BY <3>1 DEF CallInLine, Sending
    <3> QED
      BY <2>1, <3>5, <3>6, <3>7, Zenon DEF InLine
  <2> QED
    BY <1>4, <2>5, <2>6, <2>7, <2>8, <2>9, <2>10, Zenon DEF Acts
<1> QED
  BY <1>1, <1>2, <1>3, <1>4, ActKinds

(***************************************************************************)
(* Calls that do not overlap: what is later in the line has later values    *)
(***************************************************************************)

LEMMA FaithfulFacts ==
  ASSUME Types, NEW kv \in Mapping, Faithful(kv, writes), NEW k \in Keys
  PROVE  kv[k] \in Nat /\ kv[k] <= Len(writes) /\ Len(writes) \in Nat
<1>1. kv[k] \in Nat /\ Len(writes) \in Nat
  BY DEF Mapping, Types, HistoryTypes
<1>2. kv[k] # 0 => kv[k] \in 1..Len(writes)
  BY DEF Faithful, Missing
<1> QED
  BY <1>1, <1>2

LEMMA MemFacts ==
  ASSUME Types, NEW m \in 1..Len(mems)
  PROVE  mems[m].kv \in Mapping /\ Faithful(mems[m].kv, writes)
<1>1. mems[m] \in Memtable /\ Faithful(mems[m].kv, writes)
  BY DEF Types, MemTypes
<1> QED
  BY <1>1 DEF Memtable

\* What is written now is later than everything.
LEMMA LaterStep ==
  ASSUME Types, [Next]_vars, ~ Ends, NEW kv \in Mapping, Faithful(kv, writes),
         NEW m \in 1..Len(mems), Later(kv, mems[m].kv)
  PROVE  Later(kv, mems'[m].kv)
<1>1. CASE Stays
  BY <1>1 DEF Stays
<1>2. ASSUME NEW c \in Clients, Puts(c) PROVE Later(kv, mems'[m].kv)
  <2>1. CASE m = cli[c].mem
    <3> DEFINE n == Len(writes) + 1
               key == cli[c].key
    <3>1. mems'[m].kv = [mems[m].kv EXCEPT ![key] = n] /\ key \in Keys
      BY <1>2, <2>1 DEF Puts
    <3>2. mems[m].kv \in [Keys -> Nat]
      BY MemFacts DEF Mapping
    <3>3. \A k \in Keys : kv[k] < n
      BY FaithfulFacts
    <3> HIDE DEF n, key
    <3>4. \A k \in Keys : mems'[m].kv[k] = n \/ mems'[m].kv[k] = mems[m].kv[k]
      BY <3>1, <3>2
    <3> QED
      BY <3>3, <3>4 DEF Later
  <2>2. CASE m # cli[c].mem
    BY <1>2, <2>2 DEF Puts
  <2> QED
    BY <2>1, <2>2
<1> QED
  BY <1>1, <1>2, DataStep

LEMMA LaterNew == \A kv : Later(kv, NewMem.kv)
BY NewMemFacts DEF Later, Missing

LEMMA MemsOrderedStep ==
  ASSUME Types, InLine, MemsOrdered, [Next]_vars PROVE MemsOrdered'
<1>1. CASE Ends
  <2>1. Len(mems') = 1
    BY <1>1 DEF Ends, Down
  <2> QED
    BY <2>1 DEF MemsOrdered
<1>2. CASE ~ Ends
  <2>1. Len(mems) \in Nat /\ Len(mems') \in Nat /\ Len(mems) <= Len(mems')
    BY <1>2, GrowStep DEF Grown
  <2>2. ASSUME NEW l \in 1..Len(mems'), l > Len(mems) PROVE mems'[l].kv = NewMem.kv
    <3>1. ASSUME NEW c \in Clients, Puts(c) PROVE FALSE
      <4>1. Len(mems') = Len(mems)
        BY <3>1 DEF Puts
      <4> QED
        BY <2>1, <2>2, <4>1
    <3>2. Stays
      BY <1>2, <3>1, DataStep
    <3> QED
      BY <2>2, <3>2 DEF Stays
  <2>3. ASSUME NEW m \in 1..Len(mems'), NEW l \in 1..Len(mems'), m < l
        PROVE  Later(mems'[m].kv, mems'[l].kv)
    <3>1. CASE l > Len(mems)
      BY <2>2, <3>1, LaterNew
    <3>2. CASE l <= Len(mems)
      <4>1. m \in 1..Len(mems) /\ l \in 1..Len(mems) /\ m # activeMem
        BY <2>1, <2>3, <3>2, LineFacts
      <4>2. Later(mems[m].kv, mems[l].kv)
        BY <2>3, <4>1 DEF MemsOrdered
      <4>3. mems'[m].kv = mems[m].kv
        BY <1>2, <4>1, ValuesKept
      <4> QED
        BY <1>2, <4>1, <4>2, <4>3, MemFacts, LaterStep
    <3> QED
      BY <2>1, <3>1, <3>2
  <2> QED
    BY <2>3 DEF MemsOrdered
<1> QED
  BY <1>1, <1>2

(***************************************************************************)
(* Calls that do not overlap: the list of memtables                         *)
(***************************************************************************)

\* The list as the call sees it that is in progress.
ListFor(c) ==
  /\ cli[c].pc \notin Listing => memtables = <<activeMem>>
  /\ cli[c].pc \in Listing => Len(memtables) = 2 /\ memtables[2] = activeMem
  /\ cli[c].pc # "swap" => ~ mems[activeMem].frozen

LEMMA ListShapeStep ==
  ASSUME Types, OneBusy, InLine, ListShape, [Next]_vars, ~ overlapped' PROVE ListShape'
<1>1. CASE Ends
  <2>1. /\ memtables' = <<activeMem'>> /\ mems'[activeMem'] = NewMem
        /\ \A c \in Clients : cli'[c].pc = "idle"
    BY <1>1, IdleFacts DEF Ends, Down
  <2> QED
    BY <2>1, NewMemFacts DEF ListShape, Listing
<1>2. CASE Loops \/ Rests
  <2>1. UNCHANGED <<mems, memtables, activeMem, cli>>
    BY <1>2, Zenon DEF Loops, LoopVars, memVars, Rests, SameMems
  <2> QED
    BY <2>1 DEF ListShape
<1>3. ASSUME NEW c \in Clients, Acts(c) PROVE ListShape'
  <2>1. \A d \in Clients : d # c => cli'[d].pc = "idle" /\ cli[d].pc = "idle"
    BY <1>3, OthersIdle
  <2>2. ListFor(c)
    BY <2>1, Zenon DEF ListShape, ListFor, Listing
  <2>3. ASSUME ListFor(c)' PROVE ListShape'
    BY <2>1, <2>3, Zenon DEF ListShape, ListFor, Listing
  <2>4. ASSUME UNCHANGED <<mems, memtables, activeMem>>, cli[c].pc # "swap", cli'[c].pc # "swap",
               cli'[c].pc \in Listing <=> cli[c].pc \in Listing
        PROVE  ListFor(c)'
    BY <2>2, <2>4, Zenon DEF ListFor
  <2>5. CASE Starts(c) \/ Drops(c) \/ Returns(c) \/ Closes(c)
    <3>1. UNCHANGED <<mems, memtables, activeMem>>
      BY <2>5, Zenon DEF Starts, Drops, Returns, Closes, SameMems
    <3>2. /\ cli[c].pc # "swap" /\ cli'[c].pc # "swap"
          /\ cli'[c].pc \in Listing <=> cli[c].pc \in Listing
      BY <2>5, IdleFacts DEF Starts, Drops, Returns, Closes, Goes, Listing
    <3> QED
      BY <2>3, <2>4, <3>1, <3>2
  <2>6. CASE Inserts(c)
    <3>1. /\ UNCHANGED <<memtables, activeMem>> /\ Puts(c)
          /\ cli'[c] = Idle \/ cli'[c].pc = "capture"
      BY <2>6, Zenon DEF Inserts
    <3>2. cli[c].pc = "insert" /\ mems'[cli[c].mem].frozen = mems[cli[c].mem].frozen
      BY <3>1, Zenon DEF Puts, At
    <3>3. cli[c].mem = activeMem /\ cli'[c].pc \notin Listing /\ cli[c].pc \notin Listing
      BY <3>1, <3>2, IdleFacts DEF InLine, CallInLine, Listing
    <3>4. cli[c].pc # "swap"
      BY <3>2
    <3>5. ~ mems'[activeMem].frozen
      BY <2>2, <3>2, <3>3, <3>4, Zenon DEF ListFor
    <3>6. ListFor(c)'
      BY <2>2, <3>1, <3>3, <3>5, Zenon DEF ListFor
    <3> QED
      BY <2>3, <3>6
  <2>7. CASE Captures(c)
    <3>1. /\ UNCHANGED <<memtables, activeMem>> /\ cli[c].pc = "capture" /\ cli'[c].pc = "swap"
      BY <2>7, Zenon DEF Captures
    <3>2. cli'[c].pc \notin Listing /\ cli[c].pc \notin Listing
      BY <3>1 DEF Listing
    <3>3. ListFor(c)'
      BY <2>2, <3>1, <3>2, Zenon DEF ListFor
    <3> QED
      BY <2>3, <3>3
  <2>8. CASE Swaps(c)
    <3>1. /\ cli[c].pc = "swap" /\ cli'[c].pc = "request"
          /\ memtables' = Append(memtables, Len(mems')) /\ activeMem' = Len(mems')
          /\ mems'[Len(mems) + 1] = NewMem /\ Len(mems') = Len(mems) + 1
      BY <2>8, Zenon DEF Swaps, Goes
    <3>2. memtables = <<activeMem>>
      BY <2>2, <3>1 DEF ListFor, Listing
    <3>3. Len(memtables') = 2 /\ memtables'[2] = activeMem'
      BY <3>1, <3>2
    <3>4. mems'[activeMem'] = NewMem
      BY <3>1
    <3>5. cli'[c].pc \in Listing
      BY <3>1 DEF Listing
    <3>6. ListFor(c)'
      BY <3>3, <3>4, <3>5, NewMemFacts, Zenon DEF ListFor
    <3> QED
      BY <2>3, <3>6
  <2>9. CASE Enqueues(c) \/ Blocks(c)
    <3>1. /\ UNCHANGED <<memtables, activeMem>> /\ Freezes(cli[c].mem)
          /\ cli[c].pc \in {"request", "blocked"} /\ cli'[c].pc \in {"blocked", "erase"}
      BY <2>9 DEF Enqueues, Blocks, Goes
    <3>2. /\ cli[c].pc \in Listing /\ cli'[c].pc \in Listing /\ cli[c].pc # "swap"
          /\ activeMem \in 1..Len(mems) /\ cli[c].mem < activeMem
      BY <3>1, LineFacts DEF InLine, CallInLine, Listing, Sending
    <3>3. activeMem # cli[c].mem
      BY <3>2, LineFacts DEF Holding
    <3>4. mems'[activeMem].frozen = mems[activeMem].frozen
      BY <3>1, <3>2, <3>3, Zenon DEF Freezes
    <3>5. ListFor(c)'
      BY <2>2, <3>1, <3>2, <3>4, Zenon DEF ListFor
    <3> QED
      BY <2>3, <3>5
  <2>10. CASE Erases(c)
    <3>1. /\ UNCHANGED <<mems, activeMem>> /\ cli[c].pc = "erase"
          /\ cli'[c] = Idle \/ cli'[c].pc = "wait"
          /\ memtables' = SubSeq(memtables, 1, FrozenIndex - 1)
                          \o SubSeq(memtables, FrozenIndex + 1, Len(memtables))
      BY <2>10, Zenon DEF Erases, RemoveAt
    <3>2. Len(memtables) = 2 /\ memtables[2] = activeMem
      BY <2>2, <3>1 DEF ListFor, Listing
    <3>3. memtables' = <<activeMem>>
      <4>1. memtables \in Seq(Nat)
        BY LineFacts DEF Types, MemTypes
      <4>2. memtables' = SubSeq(memtables, 1, 0) \o SubSeq(memtables, 2, 2)
        BY <3>1, <3>2 DEF FrozenIndex
      <4>3. SubSeq(memtables, 1, 0) = <<>>
        BY <4>1
      <4>4. /\ SubSeq(memtables, 2, 2) \in Seq(Nat) /\ Len(SubSeq(memtables, 2, 2)) = 1
            /\ SubSeq(memtables, 2, 2)[1] = memtables[2]
        <5>1. \A i \in 2..2 : memtables[i] \in Nat
          <6>1. \A i \in 1..2 : memtables[i] \in Nat
            BY <3>2, <4>1, ElementOfSeq
          <6> QED
            BY <6>1
        <5> QED
          BY <5>1, SubSeqProperties
      <4>5. memtables' = SubSeq(memtables, 2, 2)
        BY <4>2, <4>3, <4>4, ConcatEmptySeq
      <4>6. \A s \in Seq(Nat) : Len(s) = 1 => s = <<s[1]>>
        OBVIOUS
      <4>7. memtables' = <<memtables[2]>>
        BY <4>4, <4>5, <4>6
      <4> QED
        BY <3>2, <4>7
    <3>4. cli'[c].pc \notin Listing /\ cli[c].pc # "swap"
      BY <3>1, IdleFacts DEF Listing
    <3>5. ListFor(c)'
      BY <2>2, <3>1, <3>3, <3>4, Zenon DEF ListFor
    <3> QED
      BY <2>3, <3>5
  <2> QED
    BY <1>3, <2>5, <2>6, <2>7, <2>8, <2>9, <2>10, Zenon DEF Acts
<1> QED
  BY <1>1, <1>2, <1>3, ActKinds

(***************************************************************************)
(* Calls that do not overlap: level 0                                       *)
(***************************************************************************)

LEMMA WaitsFacts == ASSUME Types, NEW m, Waits(m) PROVE m \in 1..Len(mems)
BY LineFacts DEF Waits

\* A memtable that waits did so before, or is new.
LEMMA WaitsStep ==
  ASSUME Types, [Next]_vars, ~ Ends, NEW m \in 1..Len(mems'), Waits(m)'
  PROVE  (m \in 1..Len(mems) /\ Waits(m)) \/ mems'[m].kv = NewMem.kv
<1>1. CASE Rests
  BY <1>1, WaitsFacts DEF Rests, SameMems, SameLoop, Waits
<1>2. CASE Loops
  <2>1. UNCHANGED <<mems, activeMem, cli>>
    BY <1>2 DEF Loops, LoopVars, memVars
  <2>2. CASE TakesJob
    <3>1. queue # <<>> /\ queue' = Tail(queue) /\ loop'.job = Head(queue)
      BY <2>2 DEF TakesJob, Resting
    <3>2. /\ Head(queue) = queue[1] /\ 1 \in 1..Len(queue)
          /\ \A i \in 1..Len(queue') : i + 1 \in 1..Len(queue) /\ queue'[i] = queue[i + 1]
      BY <3>1, LineFacts
    <3>3. Waits(m)
      BY <2>1, <3>1, <3>2 DEF Waits
    <3> QED
      BY <3>3, WaitsFacts
  <2>3. CASE RenameSST
    <3>1. loop.pc = "rename" /\ loop'.job = loop.job /\ queue' = queue
      BY <2>3, RenameFacts
    <3>2. Waits(m)
      BY <2>1, <3>1 DEF Waits, Flushing
    <3> QED
      BY <3>2, WaitsFacts
  <2>4. CASE EndsJob \/ Exits
    <3>1. queue' = queue /\ loop'.pc \notin Flushing
      BY <2>4, EndsFacts
    <3>2. Waits(m)
      BY <2>1, <3>1 DEF Waits
    <3> QED
      BY <3>2, WaitsFacts
  <2> QED
    BY <1>2, <2>2, <2>3, <2>4 DEF Loops
<1>3. ASSUME NEW c \in Clients, Acts(c)
      PROVE  (m \in 1..Len(mems) /\ Waits(m)) \/ mems'[m].kv = NewMem.kv
  <2>1. loop' = loop
    BY <1>3, Zenon
       DEF Acts, Starts, Inserts, Captures, Swaps, Drops, Enqueues, Blocks, Erases, Returns, Closes,
           SameLoop
  <2>2. CASE m = activeMem'
    <3>1. CASE Swaps(c)
      BY <2>2, <3>1, LineFacts DEF Swaps
    <3>2. CASE ~ Swaps(c)
      <4>1. activeMem' = activeMem
        BY <1>3, <3>2, Zenon
           DEF Acts, Starts, Inserts, Captures, Drops, Enqueues, Blocks, Erases, Returns, Closes,
               SameMems
      <4> QED
        BY <2>2, <4>1, WaitsFacts DEF Waits
    <3> QED
      BY <3>1, <3>2
  <2>3. ASSUME NEW i \in 1..Len(queue'), m = queue'[i].mem PROVE Waits(m)
    <3>1. CASE Enqueues(c)
      <4>1. PICK id \in Nat : queue' = Append(queue, [mem |-> cli[c].mem, id |-> id])
        BY <3>1 DEF Enqueues
      <4>2. (i \in 1..Len(queue) /\ queue'[i] = queue[i]) \/ queue'[i].mem = cli[c].mem
        BY <4>1, LineFacts
      <4>3. cli[c].pc \in Holding
        BY <3>1 DEF Enqueues, Goes, Holding
      <4> QED
        BY <2>3, <4>2, <4>3 DEF Waits
    <3>2. CASE ~ Enqueues(c)
      <4>1. queue' = queue
        BY <1>3, <3>2, Zenon
           DEF Acts, Starts, Inserts, Captures, Swaps, Drops, Blocks, Erases, Returns, Closes
      <4> QED
        BY <2>3, <4>1 DEF Waits
    <3> QED
      BY <3>1, <3>2
  <2>4. ASSUME NEW d \in Clients, cli'[d].pc \in Holding, m = cli'[d].mem PROVE Waits(m)
    <3>1. CASE d # c
      BY <1>3, <2>4, <3>1, OtherCalls DEF Waits
    <3>2. CASE d = c
      <4>1. CASE Captures(c)
        BY <2>4, <3>2, <4>1 DEF Captures, Waits
      <4>2. CASE Swaps(c) \/ Blocks(c)
        BY <2>4, <3>2, <4>2 DEF Swaps, Blocks, Goes, Keeps, Waits, Holding
      <4>3. CASE ~ Captures(c) /\ ~ Swaps(c) /\ ~ Blocks(c)
        <5>1. cli'[c].pc \notin Holding
          BY <1>3, <4>3, IdleFacts
             DEF Acts, Starts, Inserts, Drops, Enqueues, Erases, Returns, Closes, Goes, Holding
        <5> QED
          BY <2>4, <3>2, <5>1
      <4> QED
        BY <4>1, <4>2, <4>3
    <3> QED
      BY <3>1, <3>2
  <2>5. CASE loop'.pc \in Flushing /\ m = loop'.job.mem
    BY <2>1, <2>5, WaitsFacts DEF Waits
  <2> QED
    BY <2>2, <2>3, <2>4, <2>5, WaitsFacts DEF Waits
<1> QED
  BY <1>1, <1>2, <1>3, ActKinds

\* Level 0 stays, or the file of the job is put in front of it.
Lists == EndsJob /\ loop.pc = "apply" /\ levels0' = <<loop.meta>> \o levels0

LEMMA LevelKinds == ASSUME Types, [Next]_vars PROVE levels0' = levels0 \/ Lists
BY LoopKinds, RenameFacts, Zenon
   DEF Idles, Ends, Down, TakesJob, Disk, Exits, EndsJob, Listed, Lists

LEMMA ListsFacts ==
  ASSUME Types, Lists
  PROVE  /\ Len(levels0) \in Nat /\ Len(levels0') = Len(levels0) + 1
         /\ levels0'[1] = loop.meta
         /\ \A i \in 1..Len(levels0') : i # 1 => i - 1 \in 1..Len(levels0) /\ levels0'[i] = levels0[i - 1]
         /\ files'[loop.meta] = loop.data /\ queue' = queue /\ loop'.pc \notin Flushing
         /\ UNCHANGED <<mems, activeMem, cli>>
<1>1. /\ levels0' = <<loop.meta>> \o levels0 /\ EndsJob /\ loop.pc = "apply"
      /\ LoopTypes /\ FileTypes
  BY DEF Lists, Types
<1>2. loop.meta \in Names /\ files[loop.meta] = loop.data /\ levels0 \in Seq(Names)
  BY <1>1 DEF LoopTypes, FileTypes
<1>3. files' = files /\ UNCHANGED <<mems, activeMem, cli>>
  BY <1>1, Zenon DEF EndsJob, LoopVars, memVars
<1>4. /\ Len(levels0) \in Nat /\ Len(levels0') = Len(levels0) + 1
      /\ levels0'[1] = loop.meta
      /\ \A i \in 1..Len(levels0') : i # 1 => i - 1 \in 1..Len(levels0) /\ levels0'[i] = levels0[i - 1]
  BY <1>1, <1>2
<1> QED
  BY <1>1, <1>2, <1>3, <1>4, EndsFacts

LEMMA ListedFacts ==
  ASSUME Types, NEW i \in 1..Len(levels0)
  PROVE  files[levels0[i]] \in Mapping /\ Faithful(files[levels0[i]], writes)
BY DEF Types, FileTypes

\* What is listed now is older than what waits still.
LEMMA ListedOlder ==
  ASSUME Types, InLine, MemsOrdered, [Next]_vars, Lists, NEW m \in 1..Len(mems), Waits(m)'
  PROVE  Later(loop.data, mems[m].kv)
<1>1. /\ queue' = queue /\ loop'.pc \notin Flushing /\ UNCHANGED <<mems, activeMem, cli>>
      /\ loop.pc \in Flushing
  BY ListsFacts DEF Lists, Flushing
<1>2. /\ loop.data = mems[loop.job.mem].kv /\ loop.job.mem < activeMem
      /\ \A i \in 1..Len(queue) : loop.job.mem < queue[i].mem
  BY <1>1 DEF InLine, JobInLine
<1>3. \A c \in Clients : cli[c].pc \in Holding => loop.job.mem < cli[c].mem
  BY <1>1, <1>2 DEF InLine, CallInLine, Holding, Sending
<1>4. loop.job.mem < m
  BY <1>1, <1>2, <1>3 DEF Waits
<1> QED
  BY <1>1, <1>2, <1>4, LineFacts DEF MemsOrdered

LEMMA FilesOlderStep ==
  ASSUME Types, InLine, MemsOrdered, FilesOlder, [Next]_vars, ~ clobbered' PROVE FilesOlder'
<1> SUFFICES ASSUME NEW i \in 1..Len(levels0'), NEW m \in 1..Len(mems'), Waits(m)'
             PROVE  Later(files'[levels0'[i]], mems'[m].kv)
  BY DEF FilesOlder
<1>1. CASE Ends
  <2>1. m = 1 /\ mems'[m] = NewMem
    BY <1>1 DEF Ends, Down
  <2> QED
    BY <2>1, LaterNew
<1>2. CASE mems'[m].kv = NewMem.kv
  BY <1>2, LaterNew
<1>3. CASE ~ Ends /\ m \in 1..Len(mems) /\ Waits(m)
  <2>1. ASSUME NEW j \in 1..Len(levels0), levels0'[i] = levels0[j]
        PROVE  Later(files'[levels0'[i]], mems'[m].kv)
    <3>1. files'[levels0'[i]] = files[levels0[j]]
      BY <2>1, DiskKept
    <3>2. Later(files[levels0[j]], mems[m].kv)
      BY <1>3 DEF FilesOlder
    <3> QED
      BY <1>3, <3>1, <3>2, ListedFacts, LaterStep
  <2>2. CASE levels0' = levels0
    BY <2>1, <2>2
  <2>3. CASE Lists
    <3>1. CASE i = 1
      <4>1. files'[levels0'[i]] = loop.data /\ mems' = mems
        BY <2>3, <3>1, ListsFacts
      <4> QED
        BY <1>3, <2>3, <4>1, ListedOlder
    <3>2. CASE i # 1
      BY <2>1, <2>3, <3>2, ListsFacts
    <3> QED
      BY <3>1, <3>2
  <2> QED
    BY <2>2, <2>3, LevelKinds
<1> QED
  BY <1>1, <1>2, <1>3, WaitsStep

LEMMA NewestStep ==
  ASSUME Types, InLine, FilesOlder, Newest, [Next]_vars, ~ clobbered' PROVE Newest'
<1> SUFFICES ASSUME NEW i \in 1..Len(levels0'), NEW j \in 1..Len(levels0'), i < j
             PROVE  Later(files'[levels0'[j]], files'[levels0'[i]])
  BY DEF Newest
<1>1. ASSUME NEW a \in 1..Len(levels0), NEW b \in 1..Len(levels0), a < b,
             levels0'[i] = levels0[a], levels0'[j] = levels0[b]
      PROVE  Later(files'[levels0'[j]], files'[levels0'[i]])
  <2>1. files'[levels0[a]] = files[levels0[a]] /\ files'[levels0[b]] = files[levels0[b]]
    BY DiskKept
  <2> QED
    BY <1>1, <2>1 DEF Newest
<1>2. CASE levels0' = levels0
  BY <1>1, <1>2
<1>3. CASE Lists
  <2>1. j # 1 /\ j - 1 \in 1..Len(levels0) /\ levels0'[j] = levels0[j - 1]
    BY <1>3, ListsFacts
  <2>2. CASE i = 1
    <3>1. files'[levels0'[i]] = loop.data /\ loop.pc \in Flushing
      BY <1>3, <2>2, ListsFacts DEF Lists, Flushing
    <3>2. loop.data = mems[loop.job.mem].kv /\ loop.job.mem \in 1..Len(mems) /\ Waits(loop.job.mem)
      BY <3>1, LineFacts DEF InLine, JobInLine, Waits
    <3>3. files'[levels0'[j]] = files[levels0[j - 1]]
      BY <2>1, DiskKept
    <3> QED
      BY <2>1, <3>1, <3>2, <3>3 DEF FilesOlder
  <2>3. CASE i # 1
    <3>1. i - 1 \in 1..Len(levels0) /\ levels0'[i] = levels0[i - 1] /\ i - 1 < j - 1
      BY <1>3, <2>3, ListsFacts
    <3> QED
      BY <1>1, <2>1, <3>1
  <2> QED
    BY <2>2, <2>3
<1> QED
  BY <1>2, <1>3, LevelKinds

LEMMA OrderedStep == ASSUME Types, Ordered, [Next]_vars PROVE Ordered'
<1> SUFFICES ASSUME ~ overlapped'
             PROVE  /\ OneBusy' /\ InLine' /\ MemsOrdered' /\ ListShape'
                    /\ ~ clobbered' => FilesOlder' /\ Newest'
  BY DEF Ordered
<1>1. /\ OneBusy /\ InLine /\ MemsOrdered /\ ListShape
      /\ ~ clobbered => FilesOlder /\ Newest
  BY OverlappedKept DEF Ordered
<1>2. OneBusy' /\ InLine' /\ MemsOrdered' /\ ListShape'
  BY <1>1, OneBusyStep, InLineStep, MemsOrderedStep, ListShapeStep
<1>3. ASSUME ~ clobbered' PROVE FilesOlder' /\ Newest'
  BY <1>1, <1>3, ClobberedKept, FilesOlderStep, NewestStep
<1> QED
  BY <1>2, <1>3

(***************************************************************************)
(* Acknowledged writes can be found                                         *)
(***************************************************************************)

LEMMA DoneKept == ASSUME Types, [Next]_vars, done, ~ Ends PROVE done'
BY ActKinds, Zenon
   DEF Loops, LoopVars, Rests, Acts, Starts, Inserts, Captures, Swaps, Drops, Enqueues, Blocks,
       Erases, Returns, Closes

\* A client that holds a memtable goes on holding it, until it enqueues it.
LEMMA HoldersKept ==
  ASSUME Types, [Next]_vars, ~ Ends, ~ done, NEW c \in Clients, cli[c].pc \in Holding
  PROVE  (cli'[c].pc \in Holding /\ cli'[c].mem = cli[c].mem) \/ Enqueues(c)
<1>1. CASE Loops \/ Rests
  BY <1>1 DEF Loops, LoopVars, Rests
<1>2. ASSUME NEW d \in Clients, Acts(d)
      PROVE  (cli'[c].pc \in Holding /\ cli'[c].mem = cli[c].mem) \/ Enqueues(c)
  <2>1. CASE d # c
    BY <1>2, <2>1, OtherCalls
  <2>2. CASE d = c
    <3>1. Swaps(c) \/ Blocks(c) => cli'[c].pc \in Holding /\ cli'[c].mem = cli[c].mem
      BY DEF Swaps, Blocks, Goes, Keeps, Holding
    <3>2. ~ Starts(c) /\ ~ Inserts(c) /\ ~ Captures(c) /\ ~ Erases(c) /\ ~ Returns(c) /\ ~ Closes(c)
      BY DEF Starts, Inserts, Puts, At, Captures, Erases, Returns, Closes, Goes, Holding
    <3>3. ~ Drops(c)
      BY Zenon DEF Drops
    <3> QED
      BY <1>2, <2>2, <3>1, <3>2, <3>3, Zenon DEF Acts
  <2> QED
    BY <2>1, <2>2
<1> QED
  BY <1>1, <1>2, ActKinds

\* The active memtable stays so, until a client that holds it replaces it.
LEMMA ActiveKept ==
  ASSUME Types, InLine, [Next]_vars, ~ Ends
  PROVE  activeMem' = activeMem \/ \E c \in Clients : cli[c].pc \in Holding /\ cli[c].mem = activeMem
<1>1. CASE Loops \/ Rests
  BY <1>1 DEF Loops, LoopVars, memVars, Rests, SameMems
<1>2. ASSUME NEW c \in Clients, Acts(c), ~ Swaps(c) PROVE activeMem' = activeMem
  BY <1>2, Zenon
     DEF Acts, Starts, Inserts, Captures, Drops, Enqueues, Blocks, Erases, Returns, Closes, SameMems
<1>3. ASSUME NEW c \in Clients, Swaps(c) PROVE cli[c].pc \in Holding /\ cli[c].mem = activeMem
  BY <1>3 DEF Swaps, Goes, InLine, CallInLine, Holding
<1> QED
  BY <1>1, <1>2, <1>3, ActKinds

LEMMA HeldKept ==
  ASSUME Types, JobInv, InLine, [Next]_vars, ~ Ends, ~ done, ~ clobbered', ~ lastErr',
         NEW n \in 1..Len(writes), Held(n)
  PROVE  Held(n)'
<1>1. Grown
  BY GrowStep
<1>2. CASE Underway(n)
  BY <1>1, <1>2, UnderwayKept DEF Held
<1>3. ASSUME NEW c \in Clients, cli[c].pc \in Holding, InMem(cli[c].mem, n) PROVE Held(n)'
  <2>1. cli[c].mem \in 1..Len(mems)
    BY <1>3, LineFacts
  <2>2. mems'[cli[c].mem].kv[writes'[n]] >= n
    BY <1>1, <1>3, <2>1, InMemKept DEF InMem
  <2>3. CASE cli'[c].pc \in Holding /\ cli'[c].mem = cli[c].mem
    BY <2>2, <2>3 DEF Held, InMem
  <2>4. CASE Enqueues(c)
    <3>1. PICK id \in Nat : queue' = Append(queue, [mem |-> cli[c].mem, id |-> id])
      BY <2>4 DEF Enqueues
    <3>2. Len(queue) + 1 \in 1..Len(queue') /\ queue'[Len(queue) + 1].mem = cli[c].mem
      BY <3>1, LineFacts
    <3> QED
      BY <2>2, <3>2 DEF Held, Underway, InQueue, InMem
  <2> QED
    BY <1>3, <2>3, <2>4, HoldersKept
<1>4. CASE InMem(activeMem, n)
  <2>1. CASE activeMem' = activeMem
    <3>1. mems'[activeMem].kv[writes'[n]] >= n
      BY <1>1, <1>4, LineFacts, InMemKept DEF InMem
    <3> QED
      BY <2>1, <3>1 DEF Held, InMem
  <2> QED
    BY <1>3, <1>4, <2>1, ActiveKept
<1> QED
  BY <1>2, <1>3, <1>4 DEF Held

\* The write that was just stored is held.
LEMMA PutHeld ==
  ASSUME Types, InLine, NEW c \in Clients, Puts(c), activeMem' = activeMem,
         NEW n, n = Len(writes) + 1
  PROVE  Held(n)'
<1>1. /\ cli[c].mem = activeMem /\ cli[c].mem \in 1..Len(mems) /\ cli[c].key \in Keys
      /\ mems'[cli[c].mem].kv = [mems[cli[c].mem].kv EXCEPT ![cli[c].key] = n]
      /\ writes'[n] = cli[c].key /\ n \in Nat
  BY DEF Puts, At, InLine, CallInLine
<1>2. mems[activeMem].kv \in [Keys -> Nat]
  BY <1>1, MemFacts DEF Mapping
<1>3. mems'[activeMem].kv[writes'[n]] = n
  BY <1>1, <1>2
<1>4. InMem(activeMem, n)'
  BY <1>1, <1>3 DEF InMem
<1> QED
  BY <1>4 DEF Held

LEMMA KeptStep ==
  ASSUME Types, JobInv, Owed, Ordered, Kept, [Next]_vars PROVE Kept'
<1> SUFFICES ASSUME ~ overlapped', ~ clobbered', ~ lastErr', ~ done'
             PROVE  /\ \A n \in acked' : Held(n)'
                    /\ \A c \in Clients : \A n \in Nat :
                         cli'[c].op = "write" /\ cli'[c].pc # "insert" /\ n = cli'[c].num => Held(n)'
  <2>1. \A c \in Clients : cli'[c].num \in Nat
    BY ClientStep1 DEF ClientTypes, Call
  <2> QED
    BY <2>1 DEF Kept
<1>1. ~ overlapped /\ ~ clobbered
  BY OverlappedKept, ClobberedKept
<1>2. CASE Ends
  <2>1. /\ acked' = acked \cap synced /\ \A c \in Clients : cli'[c].op = "none"
    BY <1>2, IdleFacts DEF Ends, Down
  <2>2. \A n \in synced : OnDisk(n) /\ n \in 1..Len(writes)
    BY <1>1 DEF Owed, Types, HistoryTypes
  <2>3. \A n \in synced : OnDisk(n)'
    BY <2>2, OnDiskKept
  <2> QED
    BY <2>1, <2>3 DEF Held, Underway
<1>3. CASE ~ Ends
  <2>1. ~ lastErr /\ ~ done
    BY <1>3, ErrorKept, DoneKept
  <2>2. /\ \A n \in acked : Held(n)
        /\ \A c \in Clients : cli[c].op = "write" /\ cli[c].pc # "insert" => Held(cli[c].num)
    BY <1>1, <2>1 DEF Kept
  <2>3. InLine
    BY <1>1 DEF Ordered
  <2>4. \A n \in acked : Held(n)'
    BY <1>3, <2>1, <2>2, <2>3, HeldKept DEF Types, HistoryTypes
  <2>5. ASSUME NEW c \in Clients, cli[c].op = "write", cli[c].pc # "insert",
               NEW n, n = cli[c].num
        PROVE  Held(n)'
    <3>1. n \in 1..Len(writes) /\ Held(n)
      BY <2>2, <2>5 DEF Types, ClientTypes, CallOK
    <3> QED
      BY <1>3, <2>1, <2>3, <3>1, HeldKept
  <2>6. ASSUME NEW c \in Clients, Inserts(c), NEW n, n = Len(writes) + 1 PROVE Held(n)'
    BY <2>3, <2>6, PutHeld, Zenon DEF Inserts
  <2>7. \A n \in acked' : Held(n)'
    <3>1. ASSUME NEW c \in Clients, Inserts(c) PROVE \A n \in acked' : Held(n)'
      <4>1. acked' = acked \/ acked' = acked \cup {Len(writes) + 1}
        BY <3>1, Zenon DEF Inserts
      <4>2. \A n : n = Len(writes) + 1 => Held(n)'
        BY <2>6, <3>1
      <4> QED
        BY <2>4, <4>1, <4>2
    <3>2. ASSUME NEW c \in Clients, Erases(c) PROVE \A n \in acked' : Held(n)'
      <4>1. /\ acked' = acked \/ (cli[c].op = "write" /\ acked' = acked \cup {cli[c].num})
            /\ cli[c].pc = "erase"
        BY <3>2, Zenon DEF Erases
      <4>2. cli[c].op = "write" => \A n : n = cli[c].num => Held(n)'
        BY <2>5, <4>1
      <4> QED
        BY <2>4, <4>1, <4>2
    <3>3. ASSUME acked' = acked PROVE \A n \in acked' : Held(n)'
      BY <2>4, <3>3
    <3> QED
      BY <1>3, <3>1, <3>2, <3>3, ActKinds, Zenon
         DEF Loops, LoopVars, Rests, SameHistory, Acts, Starts, Captures, Swaps, Drops, Enqueues,
             Blocks, Returns, Closes
  <2>8. ASSUME NEW c \in Clients, cli'[c].op = "write", cli'[c].pc # "insert",
               NEW n \in Nat, n = cli'[c].num
        PROVE  Held(n)'
    <3>1. ASSUME cli[c].op = "write", cli[c].pc # "insert", cli'[c].num = cli[c].num
          PROVE  Held(n)'
      BY <2>5, <2>8, <3>1
    <3>2. CASE Loops \/ Rests
      <4>1. cli' = cli
        BY <3>2 DEF Loops, Rests, LoopVars
      <4> QED
        BY <2>8, <3>1, <4>1
    <3>3. ASSUME NEW d \in Clients, Acts(d), d # c PROVE Held(n)'
      BY <2>8, <3>1, <3>3, OtherCalls
    <3>4. CASE Inserts(c)
      <4>1. cli'[c] = Idle \/ cli'[c].num = Len(writes) + 1
        BY <3>4, Zenon DEF Inserts
      <4> QED
        BY <2>6, <2>8, <3>4, <4>1, IdleFacts
    <3>5. CASE Acts(c) /\ ~ Inserts(c)
      <4>1. CASE Starts(c) \/ Returns(c)
        BY <2>8, <4>1, IdleFacts DEF Starts, Returns
      <4>2. CASE Captures(c) \/ Drops(c)
        <5>1. cli'[c].op = cli[c].op /\ cli'[c].num = cli[c].num /\ cli[c].pc \in {"capture", "request"}
          BY <4>2 DEF Captures, Drops
        <5> QED
          BY <2>8, <3>1, <5>1
      <4>3. CASE Swaps(c) \/ Enqueues(c) \/ Blocks(c) \/ Closes(c)
        <5>1. cli'[c].op = cli[c].op /\ cli'[c].num = cli[c].num /\ cli[c].pc # "insert"
          BY <4>3 DEF Swaps, Enqueues, Blocks, Closes, Goes, Keeps
        <5> QED
          BY <2>8, <3>1, <5>1
      <4>4. CASE Erases(c)
        BY <2>8, <3>1, <4>4, IdleFacts DEF Erases, Keeps
      <4> QED
        BY <3>5, <4>1, <4>2, <4>3, <4>4, Zenon DEF Acts
    <3> QED
      BY <1>3, <3>2, <3>3, <3>4, <3>5, ActKinds
  <2> QED
    BY <2>7, <2>8
<1> QED
  BY <1>2, <1>3

(***************************************************************************)
(* The inductive invariant                                                  *)
(***************************************************************************)

LEMMA IInvInit == Init => IInv
<1> SUFFICES ASSUME Init PROVE IInv
  OBVIOUS
<1>1. Types
  BY TypesInit
<1>2. /\ mems = <<NewMem>> /\ memtables = <<1>> /\ activeMem = 1
      /\ cli = [c \in Clients |-> Idle]
      /\ queue = <<>> /\ pending = 0 /\ sender = Nobody /\ ~ done
      /\ ~ lastErr /\ loop = Resting /\ levels0 = <<>>
      /\ acked = {} /\ synced = {} /\ writes = <<>>
  BY DEF Init, FreshMemory
<1>3. \A c \in Clients : cli[c].pc = "idle" /\ cli[c].owed = {} /\ cli[c].op = "none"
  BY <1>2, IdleFacts
<1>4. JobsAccounted /\ Stopped
  BY <1>2 DEF JobsAccounted, Stopped, Resting
<1>5. Owed
  BY <1>2, <1>3 DEF Owed
<1>6. Ordered
  <2>1. OneBusy
    BY <1>3 DEF OneBusy, Busy
  <2>2. InLine
    BY <1>2, <1>3 DEF InLine, QueueInLine, JobInLine, CallInLine, Resting, Flushing, Sending
  <2>3. MemsOrdered
    BY <1>2 DEF MemsOrdered
  <2>4. ListShape
    BY <1>2, <1>3, NewMemFacts DEF ListShape, Listing
  <2>5. FilesOlder /\ Newest
    BY <1>2 DEF FilesOlder, Newest
  <2> QED
    BY <2>1, <2>2, <2>3, <2>4, <2>5 DEF Ordered
<1>7. Kept
  BY <1>2, <1>3 DEF Kept
<1> QED
  BY <1>1, <1>4, <1>5, <1>6, <1>7 DEF IInv, Base

LEMMA AccountsNext == (LoopTypes /\ JobInv => JobsAccounted /\ Stopped)'
<1>1. LoopTypes /\ JobInv => JobsAccounted /\ Stopped
  BY JobInvIs
<1> QED
  BY <1>1, PTL

LEMMA IInvStep == ASSUME IInv, [Next]_vars PROVE IInv'
<1>1. Types /\ JobInv /\ Owed /\ Ordered /\ Kept
  BY JobInvIs DEF IInv, Base, Types
<1>2. Types' /\ JobInv'
  BY <1>1, TypesStep, JobStep
<1>3. Base'
  <2>1. LoopTypes'
    BY <1>2 DEF Types
  <2>2. JobsAccounted' /\ Stopped'
    BY <1>2, <2>1, AccountsNext DEF JobInv
  <2> QED
    BY <1>2, <2>2 DEF Base
<1>4. Owed' /\ Ordered' /\ Kept'
  BY <1>1, OwedStep, OrderedStep, KeptStep
<1> QED
  BY <1>3, <1>4 DEF IInv

LEMMA IInvAlways == Spec => []IInv
<1>1. IInv /\ [Next]_vars => IInv'
  BY IInvStep
<1> QED
  BY <1>1, IInvInit, PTL DEF Spec

(***************************************************************************)
(* The engine is well formed                                                *)
(***************************************************************************)

LEMMA TypesTypeOK == ASSUME Types, JobInv PROVE TypeOK
<1>1. HistoryTypes /\ FlagTypes /\ MemTypes /\ ClientTypes /\ JobTypes /\ FileTypes
  BY DEF Types
<1>2. DOMAIN mems = 1..Len(mems)
  BY <1>1 DEF MemTypes
<1>3. \A m \in 1..Len(mems) : mems[m] \in Memtable
  BY <1>1 DEF MemTypes
<1>4. ASSUME NEW m \in 1..Len(mems)
      PROVE  mems[m].kv \in [Keys -> Values] /\ mems[m].size \in Nat
  <2>1. mems[m].kv \in [Keys -> Nat] /\ mems[m].size \in Nat
    BY <1>3 DEF Memtable, Mapping
  <2>2. \A k \in Keys : mems[m].kv[k] \in 0..Len(writes)
    BY MemFacts, FaithfulFacts
  <2> QED
    BY <2>1, <2>2 DEF Values
<1>5. \A m \in 1..Len(mems) : mems[m].frozen \in BOOLEAN
  BY <1>3, Zenon DEF Memtable
<1>6. activeMem \in DOMAIN mems /\ memtables \in Seq(DOMAIN mems)
  BY <1>1, <1>2, LineFacts DEF MemTypes
<1>7. queue \in Seq([mem : DOMAIN mems, id : 1..fileID]) /\ Len(queue) <= QueueCap
  BY <1>1, <1>2 DEF JobTypes
<1>8. pending \in Nat /\ fileID \in Nat /\ sender \in Clients \cup {Nobody}
  BY <1>1 DEF JobTypes, ClientTypes
<1>9. \A c \in Clients : cli[c].pc = "blocked" <=> sender = c
  BY <1>1 DEF ClientTypes
<1>10. levels0 \in Seq(Names) /\ \A f \in DOMAIN files : f \in Names /\ f.min <= f.max
  BY <1>1 DEF FileTypes
<1> QED
  BY <1>1, <1>2, <1>4, <1>5, <1>6, <1>7, <1>8, <1>9, <1>10, Zenon DEF TypeOK, HistoryTypes, FlagTypes

LEMMA FilesAreWhole == ASSUME Types PROVE ListedFilesWhole
<1>1. FileTypes /\ DOMAIN levels0 = 1..Len(levels0)
  BY DEF Types, FileTypes
<1> QED
  BY <1>1 DEF ListedFilesWhole, FileTypes

LEMMA LevelIsOrdered == ASSUME Types, Ordered PROVE L0NewestFirst
<1> SUFFICES ASSUME ~ overlapped, ~ clobbered,
                    NEW i \in DOMAIN levels0, NEW j \in DOMAIN levels0, i < j,
                    NEW k \in KeysIn(files[levels0[i]]) \cap KeysIn(files[levels0[j]])
             PROVE  files[levels0[i]][k] > files[levels0[j]][k]
  BY DEF L0NewestFirst
<1>1. i \in 1..Len(levels0) /\ j \in 1..Len(levels0)
  BY DEF Types, FileTypes
<1>2. files[levels0[i]] \in [Keys -> Nat] /\ files[levels0[j]] \in [Keys -> Nat]
  BY <1>1, ListedFacts DEF Mapping
<1>3. k \in Keys /\ files[levels0[i]][k] # Missing /\ files[levels0[j]][k] # Missing
  BY <1>2 DEF KeysIn
<1>4. Later(files[levels0[j]], files[levels0[i]])
  BY <1>1 DEF Ordered, Newest
<1>5. files[levels0[j]][k] < files[levels0[i]][k]
  BY <1>3, <1>4 DEF Later
<1> QED
  BY <1>2, <1>3, <1>5

(***************************************************************************)
(* Acknowledged writes are read                                             *)
(***************************************************************************)

\* Two members are more than one.
LEMMA TwoMembers ==
  ASSUME NEW S, IsFiniteSet(S), NEW x \in S, NEW y \in S, x # y
  PROVE  Cardinality(S) > 1
<1>1. IsFiniteSet({x}) /\ Cardinality({x}) = 1
  BY FS_Singleton
<1>2. Cardinality({x} \cup {y}) = 2
  BY <1>1, FS_AddElement
<1>3. Cardinality({x} \cup {y}) <= Cardinality(S) /\ Cardinality(S) \in Nat
  BY FS_Subset, FS_CardinalityType
<1> QED
  BY <1>2, <1>3

LEMMA FilesWithFacts ==
  ASSUME Types, NEW k \in Keys
  PROVE  /\ FilesWith(k) \in SUBSET Nat /\ IsFiniteSet(FilesWith(k))
         /\ \A i \in 1..Len(levels0) : files[levels0[i]][k] # Missing => i \in FilesWith(k)
<1>1. /\ DOMAIN levels0 = 1..Len(levels0) /\ Len(levels0) \in Nat
      /\ \A i \in 1..Len(levels0) : levels0[i] \in DOMAIN files
      /\ \A f \in DOMAIN files : files[f] \in [Keys -> Nat]
                                 /\ \A j \in KeysIn(files[f]) : f.min <= j /\ j <= f.max
  BY DEF Types, FileTypes, Mapping
<1>2. FilesWith(k) \subseteq 1..Len(levels0)
  BY <1>1 DEF FilesWith
<1>3. IsFiniteSet(1..Len(levels0))
  BY <1>1, FS_Interval
<1>4. IsFiniteSet(FilesWith(k))
  BY <1>2, <1>3, FS_Subset
<1>5. ASSUME NEW i \in 1..Len(levels0), files[levels0[i]][k] # Missing PROVE i \in FilesWith(k)
  <2>1. k \in KeysIn(files[levels0[i]])
    BY <1>1, <1>5 DEF KeysIn
  <2> QED
    BY <1>1, <1>5, <2>1 DEF FilesWith
<1> QED
  BY <1>1, <1>2, <1>4, <1>5

LEMMA AckedAreRead == ASSUME IInv PROVE AckedReadable
<1> SUFFICES ASSUME Quiet, ~ overlapped, ~ clobbered, ~ lastErr, NEW n \in acked
             PROVE  /\ Read(writes[n]) # Missing
                    /\ \/ Read(writes[n]) >= LastAcked(writes[n])
                       \/ MemsWith(writes[n], FALSE) = {} /\ Cardinality(FilesWith(writes[n])) > 1
  BY DEF AckedReadable
<1> DEFINE k == writes[n]
           l == LastAcked(k)
           A == {a \in acked : writes[a] = k}
<1>1. Types /\ JobInv /\ Owed /\ Ordered /\ Kept
  BY JobInvIs DEF IInv, Base, Types
<1>2. /\ acked \subseteq 1..Len(writes) /\ Len(writes) \in Nat /\ k \in Keys
      /\ activeMem \in 1..Len(mems) /\ mems[activeMem].kv \in [Keys -> Nat]
  <2>1. acked \subseteq 1..Len(writes) /\ writes \in Seq(Keys) /\ Len(writes) \in Nat
    BY <1>1 DEF Types, HistoryTypes
  <2>2. activeMem \in 1..Len(mems)
    BY <1>1, LineFacts
  <2>3. mems[activeMem].kv \in [Keys -> Nat]
    BY <1>1, <2>2, MemFacts DEF Mapping
  <2>4. n \in 1..Len(writes)
    BY <2>1
  <2> QED
    BY <2>1, <2>2, <2>3, <2>4
<1>3. l \in A /\ n \in A /\ l \in acked /\ l \in Nat /\ l >= 1
  <2>1. A \subseteq 1..Len(writes) /\ A \in SUBSET Nat /\ n \in A
    <3>1. A \subseteq acked /\ n \in A
      OBVIOUS
    <3> HIDE DEF A, k, l
    <3>2. \A a \in acked : a \in 1..Len(writes) /\ a \in Nat
      BY <1>2
    <3> QED
      BY <3>1, <3>2
  <2>2. IsFiniteSet(A)
    <3>1. IsFiniteSet(1..Len(writes))
      BY <1>2, FS_Interval
    <3> HIDE DEF A
    <3> QED
      BY <2>1, <3>1, FS_Subset
  <2>3. l = LastOf(A)
    BY DEF LastAcked
  <2> HIDE DEF A, l, k
  <2>4. l \in A
    BY <2>1, <2>2, <2>3, LastFacts
  <2>5. l \in 1..Len(writes)
    BY <2>1, <2>4
  <2> USE DEF A
  <2> QED
    BY <1>2, <2>1, <2>4, <2>5
<1>4. queue = <<>> /\ loop.pc \notin Flushing
  BY <1>1, PendingNone DEF Quiet
<1>5. \A c \in Clients : cli[c].pc = "idle"
  BY DEF Quiet, Busy
<1>6. \A a \in acked : OnDisk(a) \/ InMem(activeMem, a)
  BY <1>1, <1>4, <1>5 DEF Kept, Quiet, Held, Underway, InQueue, InLoop, Holding
<1>7. memtables = <<activeMem>> /\ ~ mems[activeMem].frozen /\ FilesOlder
  BY <1>1, <1>5 DEF Ordered, ListShape, Listing
<1> DEFINE v == mems[activeMem].kv[k]
<1>8. DOMAIN memtables = {1} /\ memtables[1] = activeMem /\ v \in Nat
  BY <1>2, <1>7
<1>9. ASSUME NEW a \in A, OnDisk(a)
      PROVE  \E i \in FilesWith(k) : i \in 1..Len(levels0) /\ files[levels0[i]][k] >= a
  <2>1. PICK i \in DOMAIN levels0 : files[levels0[i]][writes[a]] >= a
    BY <1>9 DEF OnDisk
  <2>2. i \in 1..Len(levels0) /\ a \in Nat /\ a >= 1 /\ writes[a] = k
    BY <1>1, <1>2 DEF Types, FileTypes
  <2>3. files[levels0[i]][k] # Missing
    BY <2>1, <2>2 DEF Missing
  <2> QED
    BY <1>1, <1>2, <2>1, <2>2, <2>3, FilesWithFacts
<1>10. CASE v # Missing
  <2>1. MemsWith(k, FALSE) = {1}
    <3>1. mems[activeMem] \in Memtable
      BY <1>1, <1>2 DEF Types, MemTypes
    <3>2. mems[activeMem].frozen \in BOOLEAN
      BY <3>1, Zenon DEF Memtable
    <3>3. mems[activeMem].frozen = FALSE
      BY <1>7, <3>2, Zenon
    <3> QED
      BY <1>8, <1>10, <3>3, Zenon DEF MemsWith
  <2>2. LastOf({1}) = 1
    BY DEF LastOf
  <2>3. Read(k) = v
    BY <1>8, <2>1, <2>2 DEF Read
  <2>4. CASE InMem(activeMem, l)
    <3>1. v >= l
      BY <1>3, <2>4 DEF InMem
    <3> QED
      BY <1>10, <2>3, <3>1
  <2>5. CASE OnDisk(l)
    <3>1. PICK i \in 1..Len(levels0) : files[levels0[i]][k] >= l
      BY <1>3, <1>9, <2>5
    <3>2. Later(files[levels0[i]], mems[activeMem].kv)
      BY <1>2, <1>7 DEF FilesOlder, Waits
    <3>3. files[levels0[i]][k] \in Nat /\ files[levels0[i]][k] # Missing
      <4>1. files[levels0[i]] \in [Keys -> Nat]
        BY <1>1, ListedFacts DEF Mapping
      <4> HIDE DEF l, k
      <4> QED
        BY <1>2, <1>3, <3>1, <4>1 DEF Missing
    <3>4. files[levels0[i]][k] < v
      BY <1>2, <1>10, <3>2, <3>3 DEF Later
    <3>5. l \in Nat
      BY <1>2, <1>3
    <3> HIDE DEF l, v
    <3>6. v >= l
      BY <1>8, <3>1, <3>3, <3>4, <3>5
    <3> QED
      BY <1>10, <2>3, <3>6 DEF l, v
  <2> QED
    BY <1>3, <1>6, <2>4, <2>5
<1>11. CASE v = Missing
  <2>1. MemsWith(k, FALSE) = {} /\ MemsWith(k, TRUE) = {}
    BY <1>8, <1>11 DEF MemsWith
  <2>2. Read(k) = ReadSST(k)
    BY <2>1 DEF Read
  <2>3. ASSUME NEW a \in A PROVE \E i \in FilesWith(k) : files[levels0[i]][k] >= a
    <3>1. writes[a] = k /\ a \in acked /\ a >= 1 /\ a \in Nat
      BY <1>2
    <3>2. ~ InMem(activeMem, a)
      BY <1>11, <3>1 DEF InMem, Missing
    <3> QED
      BY <1>6, <1>9, <3>1, <3>2
  <2>4. PICK i \in FilesWith(k) : files[levels0[i]][k] >= l
    BY <1>3, <2>3
  <2>5. FilesWith(k) \in SUBSET Nat /\ IsFiniteSet(FilesWith(k))
    BY <1>1, <1>2, FilesWithFacts
  <2> DEFINE j == LastOf(FilesWith(k))
  <2>6. j \in FilesWith(k)
    BY <2>4, <2>5, LastFacts
  <2>7. Read(k) = files[levels0[j]][k]
    BY <2>2, <2>4 DEF ReadSST
  <2>8. Read(k) # Missing
    BY <2>6, <2>7 DEF FilesWith
  <2>9. CASE i = j
    BY <2>4, <2>7, <2>8, <2>9
  <2>10. CASE i # j
    <3> HIDE DEF j
    <3>1. Cardinality(FilesWith(k)) > 1
      BY <2>4, <2>5, <2>6, <2>10, TwoMembers
    <3> QED
      BY <2>1, <2>8, <3>1
  <2> QED
    BY <2>9, <2>10
<1> QED
  BY <1>10, <1>11

(***************************************************************************)
(* The theorems                                                             *)
(***************************************************************************)

\* In every state of every run the engine is well formed: the jobs of pendingWGs are counted, so
\* the counter never goes negative and nobody waits for a job that flushLoop left behind (flush.go);
\* a listed file is on disk and its range covers its keys; and level 0 is ordered newest first
\* while calls do not overlap and no file name is used twice.
THEOREM AlwaysWellFormed == Spec => []EngineWellFormed
<1>1. IInv => EngineWellFormed
  <2> SUFFICES ASSUME IInv PROVE EngineWellFormed
    OBVIOUS
  <2>1. Types /\ JobInv /\ Ordered /\ JobsAccounted
    BY JobInvIs DEF IInv, Base, Types
  <2> QED
    BY <2>1, TypesTypeOK, FilesAreWhole, LevelIsOrdered DEF EngineWellFormed
<1> QED
  BY <1>1, IInvAlways, PTL

\* What a Sync flushed and acknowledged is in a listed file of level 0 in every later state,
\* through failed flushes, kills and restarts, until a flush renames its file over an older one
\* (Sync and flushActiveMemtable in engine.go, Run in flush.go).
THEOREM SyncedPersists == Spec => []SyncPersists
<1>1. IInv => SyncPersists
  BY DEF IInv, Owed, SyncPersists
<1> QED
  BY <1>1, IInvAlways, PTL

\* When no call is in progress and no job is left, every acknowledged write is found by Read, or a
\* later one of its key, unless several files hold the key (Read in engine.go).
THEOREM AcknowledgedReadable == Spec => []AckedReadable
<1>1. IInv => AckedReadable
  BY AckedAreRead
<1> QED
  BY <1>1, IInvAlways, PTL
=============================================================================
