----------------------------- MODULE LsmEngine -----------------------------
(***************************************************************************)
(* The LSM engine of ENG/LS: memtables, the flush queue and its goroutine,  *)
(* SST files and the manifest, Sync, Stop, Close, and what a process that   *)
(* is killed at any point finds when it opens the directory again.          *)
(*                                                                          *)
(* Write and flushActiveMemtable take no lock: every statement of theirs    *)
(* that reads or changes the engine is a step of its own. requestFlush and  *)
(* Stop hold enqueueMu. A load or store of one field is taken to be atomic. *)
(*                                                                          *)
(* A value is the number of the write that stored it, so newer is larger.   *)
(* Every SST lands in level 0: a level 1 exists only if compaction made it, *)
(* and both entry points of compaction stop short of the last level, so a   *)
(* directory that starts empty never has one.                               *)
(***************************************************************************)
EXTENDS Naturals, Sequences, FiniteSets, SequencesExt

CONSTANTS
  Clients,      \* goroutines calling the engine
  Keys,         \* keys, in the order of bytes.Compare
  MemCap,       \* maxSize of a memtable, in writes
  QueueCap,     \* capacity of flushQueue
  MaxWrites,    \* bound: Insert and Delete calls
  MaxSyncs,     \* bound: Sync and Close calls
  MaxLives,     \* bound: times the directory is opened
  MaxFaults     \* bound: flush jobs that fail, and kills

ASSUME EngineAssumption ==
  /\ Keys \subseteq Nat /\ IsFiniteSet(Keys) /\ IsFiniteSet(Clients)
  /\ "nobody" \notin Clients
  /\ MemCap \in Nat \ {0} /\ QueueCap \in Nat \ {0}
  /\ {MaxWrites, MaxSyncs, MaxLives, MaxFaults} \subseteq Nat

VARIABLES
  mems,         \* every memtable made in this life
  memtables,    \* e.memtables, the list readers look at
  activeMem,    \* e.activeMem
  cli,          \* where each client is in its call
  queue,        \* flushQueue
  pending,      \* pendingWGs
  fileID,       \* fileIDCounter, a variable of the process
  sender,       \* the client blocked in requestFlush with enqueueMu held, or Nobody
  done,         \* fm.done is closed
  lastErr,      \* fm.lastErr is set
  loop,         \* flushLoop
  files,        \* SST files on disk, by name
  levels0,      \* level 0 of the manifest
  up,           \* is the engine open?
  lives, faults, syncs,   \* history: counters of the bounds
  writes,       \* history: the key of every write, in order
  acked,        \* history: writes that returned nil
  synced,       \* history: writes that a Sync flushed and acknowledged
  overlapped,   \* history: two calls that change the engine have overlapped
  clobbered     \* history: a flush renamed its file over an older one

memVars == <<mems, memtables, activeMem>>
jobVars == <<queue, pending, fileID, sender, done>>
vars == <<memVars, cli, jobVars, lastErr, loop, files, levels0, up, lives, faults, syncs,
          writes, acked, synced, overlapped, clobbered>>

Nobody == "nobody"
Missing == 0                              \* no value under a key
NewMem == [kv |-> [k \in Keys |-> Missing], size |-> 0, frozen |-> FALSE]
Idle == [pc |-> "idle", op |-> "none", key |-> 0, mem |-> 0, num |-> 0, owed |-> {}]
NoJob == [mem |-> 0, id |-> 0]
Resting == [pc |-> "idle", job |-> NoJob, data |-> <<>>, meta |-> <<>>]

KeysIn(kv) == {k \in DOMAIN kv : kv[k] # Missing}

FreshMemory ==
  /\ mems = <<NewMem>> /\ memtables = <<1>> /\ activeMem = 1
  /\ cli = [c \in Clients |-> Idle]
  /\ queue = <<>> /\ pending = 0 /\ sender = Nobody /\ done = FALSE
  /\ lastErr = FALSE /\ loop = Resting

Init ==
  /\ FreshMemory
  /\ fileID = 0 /\ files = <<>> /\ levels0 = <<>> /\ up = TRUE
  /\ lives = 1 /\ faults = 0 /\ syncs = 0
  /\ writes = <<>> /\ acked = {} /\ synced = {} /\ overlapped = FALSE /\ clobbered = FALSE

-----------------------------------------------------------------------------
(* What Read returns in this state (engine.go): memtables that are not      *)
(* frozen from the newest, frozen ones in list order, then level 0 of the   *)
(* manifest from its last entry to its first.                               *)

MemsWith(k, frozen) ==
  {i \in DOMAIN memtables : /\ mems[memtables[i]].frozen = frozen
                            /\ mems[memtables[i]].kv[k] # Missing}
FilesWith(k) ==
  {i \in DOMAIN levels0 : /\ levels0[i].min <= k /\ k <= levels0[i].max
                          /\ levels0[i] \in DOMAIN files
                          /\ files[levels0[i]][k] # Missing}

LastOf(S)  == CHOOSE i \in S : \A j \in S : j <= i
FirstOf(S) == CHOOSE i \in S : \A j \in S : i <= j

ReadSST(k) == IF FilesWith(k) = {} THEN Missing ELSE files[levels0[LastOf(FilesWith(k))]][k]
Read(k) ==
  IF MemsWith(k, FALSE) # {} THEN mems[memtables[LastOf(MemsWith(k, FALSE))]].kv[k]
  ELSE IF MemsWith(k, TRUE) # {} THEN mems[memtables[FirstOf(MemsWith(k, TRUE))]].kv[k]
  ELSE ReadSST(k)

-----------------------------------------------------------------------------
At(c, pc) == up /\ cli[c].pc = pc
Now(c, call) == cli' = [cli EXCEPT ![c] = call]
Goto(c, pc) == Now(c, [cli[c] EXCEPT !.pc = pc])
Busy(c) == cli[c].pc # "idle"

\* A call starts; two calls in progress at once are remembered.
Start(c, call) ==
  /\ At(c, "idle")
  /\ Now(c, call)
  /\ overlapped' = (overlapped \/ \E d \in Clients \ {c} : Busy(d))

(* Write (engine.go): the active memtable is loaded, then written, and the  *)
(* memtable that is active after that is the one whose size is checked.     *)
Put(t, k, n) == [kv |-> [t.kv EXCEPT ![k] = n], size |-> t.size + 1, frozen |-> t.frozen]
Full(m) == mems'[m].size >= MemCap

BeginWrite(c, k) ==
  /\ Len(writes) + Cardinality({d \in Clients : cli[d].pc = "insert"}) < MaxWrites
  /\ Start(c, [Idle EXCEPT !.pc = "insert", !.op = "write", !.key = k, !.mem = activeMem])
  /\ UNCHANGED <<memVars, jobVars, lastErr, loop, files, levels0, up, lives, faults, syncs,
                 writes, acked, synced, clobbered>>

Insert(c) ==
  /\ At(c, "insert")
  /\ LET n == Len(writes) + 1  m == cli[c].mem IN
       /\ mems' = [mems EXCEPT ![m] = Put(@, cli[c].key, n)]
       /\ writes' = Append(writes, cli[c].key)
       /\ IF Full(activeMem)
          THEN Now(c, [cli[c] EXCEPT !.pc = "capture", !.num = n]) /\ acked' = acked
          ELSE Now(c, Idle) /\ acked' = acked \cup {n}
  /\ UNCHANGED <<memtables, activeMem, jobVars, lastErr, loop, files, levels0, up, lives,
                 faults, syncs, synced, overlapped, clobbered>>

(* Sync and Close: nothing to do when the active memtable is empty. *)
BeginSync(c, op) ==
  /\ syncs < MaxSyncs /\ syncs' = syncs + 1
  /\ mems[activeMem].size # 0
  /\ Start(c, [Idle EXCEPT !.pc = "capture", !.op = op])
  /\ UNCHANGED <<memVars, jobVars, lastErr, loop, files, levels0, up, lives, faults,
                 writes, acked, synced, clobbered>>

\* Sync of an empty memtable returns nil at once; Close goes on to stop the managers.
BeginCloseEmpty(c) ==
  /\ syncs < MaxSyncs /\ syncs' = syncs + 1
  /\ mems[activeMem].size = 0
  /\ Start(c, [Idle EXCEPT !.pc = "stop", !.op = "close"])
  /\ UNCHANGED <<memVars, jobVars, lastErr, loop, files, levels0, up, lives, faults,
                 writes, acked, synced, clobbered>>

Frozen(t) == [kv |-> t.kv, size |-> t.size, frozen |-> TRUE]

(* flushActiveMemtable; a Sync owes its caller what the memtable now holds. *)
Contents(c) ==
  IF cli[c].op # "sync" THEN {}
  ELSE {mems[activeMem].kv[k] : k \in KeysIn(mems[activeMem].kv)}

Capture(c) ==
  /\ At(c, "capture")
  /\ mems' = [mems EXCEPT ![activeMem] = Frozen(@)]
  /\ Now(c, [cli[c] EXCEPT !.pc = "swap", !.mem = activeMem, !.owed = Contents(c)])
  /\ UNCHANGED <<memtables, activeMem, jobVars, lastErr, loop, files, levels0, up, lives,
                 faults, syncs, writes, acked, synced, overlapped, clobbered>>

Swap(c) ==
  /\ At(c, "swap")
  /\ mems' = Append(mems, NewMem)
  /\ memtables' = Append(memtables, Len(mems'))
  /\ activeMem' = Len(mems')
  /\ Goto(c, "request")
  /\ UNCHANGED <<jobVars, lastErr, loop, files, levels0, up, lives, faults, syncs, writes,
                 acked, synced, overlapped, clobbered>>

(* requestFlush (flush.go), with enqueueMu held: dropped without a word     *)
(* once Stop was called; enqueued; or, when the queue stays full for eight  *)
(* attempts, left blocked in the send with the mutex held.                  *)
Enqueued(m) == [mem |-> m, id |-> fileID + 1]
CanRequest(c) == At(c, "request") /\ sender = Nobody

RequestDropped(c) ==
  /\ CanRequest(c) /\ done
  /\ Now(c, [cli[c] EXCEPT !.pc = "erase", !.owed = {}])
  /\ UNCHANGED <<memVars, jobVars, lastErr, loop, files, levels0, up, lives, faults, syncs,
                 writes, acked, synced, overlapped, clobbered>>

Request(c) ==
  /\ CanRequest(c) /\ ~ done /\ Len(queue) < QueueCap
  /\ mems' = [mems EXCEPT ![cli[c].mem] = Frozen(@)]
  /\ fileID' = fileID + 1
  /\ pending' = pending + 1
  /\ queue' = Append(queue, Enqueued(cli[c].mem))
  /\ Goto(c, "erase")
  /\ UNCHANGED <<memtables, activeMem, sender, done, lastErr, loop, files, levels0, up,
                 lives, faults, syncs, writes, acked, synced, overlapped, clobbered>>

RequestBlocks(c) ==
  /\ CanRequest(c) /\ ~ done /\ Len(queue) = QueueCap
  /\ mems' = [mems EXCEPT ![cli[c].mem] = Frozen(@)]
  /\ fileID' = fileID + 1
  /\ pending' = pending + 1
  /\ sender' = c
  /\ Goto(c, "blocked")
  /\ UNCHANGED <<memtables, activeMem, queue, done, lastErr, loop, files, levels0, up,
                 lives, faults, syncs, writes, acked, synced, overlapped, clobbered>>

RequestSent(c) ==
  /\ At(c, "blocked") /\ Len(queue) < QueueCap
  /\ queue' = Append(queue, [mem |-> cli[c].mem, id |-> fileID])
  /\ sender' = Nobody
  /\ Goto(c, "erase")
  /\ UNCHANGED <<memVars, pending, fileID, done, lastErr, loop, files, levels0, up,
                 lives, faults, syncs, writes, acked, synced, overlapped, clobbered>>

\* The frozen memtable is dropped from the list by position: the last but one. A write that
\* filled the memtable returns here; Sync goes on to wait.
LastIndex == Len(memtables)
FrozenIndex == Len(memtables) - 1

Erase(c) ==
  /\ At(c, "erase")
  /\ memtables' = RemoveAt(memtables, FrozenIndex)
  /\ IF cli[c].op = "write"
     THEN Now(c, Idle) /\ acked' = acked \cup {cli[c].num}
     ELSE Goto(c, "wait") /\ acked' = acked
  /\ UNCHANGED <<mems, activeMem, jobVars, lastErr, loop, files, levels0, up, lives, faults,
                 syncs, writes, synced, overlapped, clobbered>>

\* Sync waits for every job, and reports an error of any job of this life.
WaitSkipped(c) == At(c, "wait")
Waited(c) == At(c, "wait") /\ pending = 0

SyncReturns(c) ==
  /\ Waited(c) /\ cli[c].op = "sync"
  /\ synced' = IF lastErr THEN synced ELSE synced \cup cli[c].owed
  /\ Now(c, Idle)
  /\ UNCHANGED <<memVars, jobVars, lastErr, loop, files, levels0, up, lives, faults, syncs,
                 writes, acked, overlapped, clobbered>>

\* Close drops the error of Sync and stops the flush manager.
CloseSynced(c) ==
  /\ Waited(c) /\ cli[c].op = "close"
  /\ Goto(c, "stop")
  /\ UNCHANGED <<memVars, jobVars, lastErr, loop, files, levels0, up, lives, faults, syncs,
                 writes, acked, synced, overlapped, clobbered>>

(* flushManager.Stop: by Close, and by the shutdown sequence before Close.  *)
StopFlush ==
  /\ up /\ ~ done /\ sender = Nobody
  /\ done' = TRUE
  /\ UNCHANGED <<memVars, cli, queue, pending, fileID, sender, lastErr, loop, files, levels0,
                 up, lives, faults, syncs, writes, acked, synced, overlapped, clobbered>>

CloseStops(c) ==
  /\ At(c, "stop") /\ sender = Nobody
  /\ done' = TRUE
  /\ Goto(c, "closing")
  /\ UNCHANGED <<memVars, queue, pending, fileID, sender, lastErr, loop, files, levels0, up,
                 lives, faults, syncs, writes, acked, synced, overlapped, clobbered>>

-----------------------------------------------------------------------------
(* The process is gone, or the engine is closed: memory is lost, files and  *)
(* the manifest stay. What was acknowledged and not synced is not promised. *)
(* Calls still running when Close ends are taken to end with the process.   *)
Down ==
  /\ up' = FALSE
  /\ mems' = <<NewMem>> /\ memtables' = <<1>> /\ activeMem' = 1
  /\ cli' = [c \in Clients |-> Idle]
  /\ queue' = <<>> /\ pending' = 0 /\ sender' = Nobody /\ done' = FALSE
  /\ lastErr' = FALSE /\ loop' = Resting
  /\ acked' = acked \cap synced
  /\ UNCHANGED <<files, levels0, lives, syncs, writes, synced, overlapped, clobbered>>

Fault == faults < MaxFaults /\ faults' = faults + 1

\* The counter of file names starts again with the process; the process may also go on.
CloseEnds(c) ==
  At(c, "closing") /\ loop.pc = "exited" /\ Down /\ fileID' \in {0, fileID} /\ UNCHANGED faults
Kill == up /\ Fault /\ Down /\ fileID' = 0

Reopen ==
  /\ ~ up /\ lives < MaxLives
  /\ up' = TRUE /\ lives' = lives + 1
  /\ UNCHANGED <<memVars, cli, jobVars, lastErr, loop, files, levels0, faults, syncs, writes,
                 acked, synced, overlapped, clobbered>>

-----------------------------------------------------------------------------
(* flushLoop and flushJob.Run (flush.go)                                    *)

LoopVars == <<memVars, cli, fileID, sender, done, up, lives, syncs, writes, acked, synced,
              overlapped>>

\* The job is taken, and its memtable read a first time, for the content of the file ...
LoopTake ==
  /\ up /\ loop.pc = "idle" /\ queue # <<>>
  /\ loop' = [Resting EXCEPT !.pc = "rename", !.job = Head(queue),
                             !.data = mems[Head(queue).mem].kv]
  /\ queue' = Tail(queue)
  /\ UNCHANGED <<LoopVars, pending, lastErr, files, levels0, faults, clobbered>>

\* ... and a second time for its key range, which with the id makes its name.
Metadata ==
  LET ks == KeysIn(mems[loop.job.mem].kv) IN
  [id |-> loop.job.id, min |-> FirstOf(ks), max |-> LastOf(ks)]

JobDoneUncounted == loop' = Resting /\ pending' = pending
JobDone == loop' = Resting /\ pending' = pending - 1

DropEmpty ==
  /\ up /\ loop.pc = "rename" /\ KeysIn(mems[loop.job.mem].kv) = {}
  /\ JobDone
  /\ UNCHANGED <<LoopVars, queue, lastErr, files, levels0, faults, clobbered>>

RenameSST ==
  /\ up /\ loop.pc = "rename" /\ KeysIn(mems[loop.job.mem].kv) # {}
  /\ files' = [f \in DOMAIN files \cup {Metadata} |->
                 IF f = Metadata THEN loop.data ELSE files[f]]
  /\ clobbered' = (clobbered \/ Metadata \in DOMAIN files)
  /\ loop' = [loop EXCEPT !.pc = "apply", !.meta = Metadata]
  /\ UNCHANGED <<LoopVars, queue, pending, lastErr, levels0, faults>>

\* The new file goes in front of level 0, and the manifest is replaced by a rename.
ListedLast(meta) == Append(levels0, meta)
Listed(meta) == <<meta>> \o levels0

ApplyManifest ==
  /\ up /\ loop.pc = "apply"
  /\ levels0' = Listed(loop.meta)
  /\ JobDone
  /\ UNCHANGED <<LoopVars, queue, lastErr, files, faults, clobbered>>

\* Once done is closed, the queue is drained before the loop exits.
Drained == queue = <<>>

LoopExit ==
  /\ up /\ loop.pc = "idle" /\ done /\ Drained
  /\ loop' = [loop EXCEPT !.pc = "exited"]
  /\ UNCHANGED <<LoopVars, queue, pending, lastErr, files, levels0, faults, clobbered>>

\* A job that fails is not tried again: its memtable is gone, lastErr stays.
JobFails ==
  /\ up /\ loop.pc \in {"rename", "apply"}
  /\ Fault
  /\ lastErr' = TRUE
  /\ JobDone
  /\ UNCHANGED <<LoopVars, queue, files, levels0, clobbered>>

-----------------------------------------------------------------------------
ClientStep(c) ==
  \/ Insert(c) \/ Capture(c) \/ Swap(c) \/ RequestDropped(c) \/ Request(c) \/ RequestBlocks(c)
  \/ RequestSent(c) \/ Erase(c) \/ SyncReturns(c) \/ CloseSynced(c) \/ CloseStops(c)
  \/ CloseEnds(c)

LoopStep == LoopTake \/ LoopExit \/ DropEmpty \/ RenameSST \/ ApplyManifest

Next ==
  \/ \E c \in Clients : \/ \E k \in Keys : BeginWrite(c, k)
                        \/ \E op \in {"sync", "close"} : BeginSync(c, op)
                        \/ BeginCloseEmpty(c)
                        \/ ClientStep(c)
  \/ StopFlush \/ Kill \/ Reopen \/ LoopStep \/ JobFails

Spec == Init /\ [][Next]_vars

\* Goroutines that can run do run.
FairSpec == Spec /\ WF_vars(LoopStep) /\ \A c \in Clients : WF_vars(ClientStep(c))

-----------------------------------------------------------------------------
(* Properties *)

Names == [id : Nat, min : Keys, max : Keys]
Values == 0..Len(writes)

\* Types, and where the fields of the engine point: the active memtable was made in this
\* life, the list and the queue hold such memtables, every listed file name has a range.
TypeOK ==
  /\ \A m \in DOMAIN mems : /\ mems[m].kv \in [Keys -> Values]
                            /\ mems[m].size \in Nat /\ mems[m].frozen \in BOOLEAN
  /\ activeMem \in DOMAIN mems /\ memtables \in Seq(DOMAIN mems)
  /\ queue \in Seq([mem : DOMAIN mems, id : 1..fileID]) /\ Len(queue) <= QueueCap
  /\ pending \in Nat /\ fileID \in Nat /\ sender \in Clients \cup {Nobody}
  /\ \A c \in Clients : cli[c].pc = "blocked" <=> sender = c
  /\ done \in BOOLEAN /\ lastErr \in BOOLEAN /\ up \in BOOLEAN
  /\ levels0 \in Seq(Names)
  /\ \A f \in DOMAIN files : f \in Names /\ f.min <= f.max
  /\ writes \in Seq(Keys) /\ acked \subseteq 1..Len(writes) /\ synced \subseteq 1..Len(writes)

\* pendingWGs counts the jobs in the queue, the one that runs and the one about to be sent, so
\* it never goes negative (a panic), and no job is left behind once flushLoop has exited, so
\* nobody waits for ever in WaitForFlush (requestFlush against Stop, REQ000364).
JobsAccounted ==
  /\ pending = Len(queue) + (IF loop.job = NoJob THEN 0 ELSE 1) + (IF sender = Nobody THEN 0 ELSE 1)
  /\ loop.pc = "exited" => pending = 0

\* Every file of level 0 is on disk, and its key range covers its keys, although the memtable is
\* read twice and calls may still insert into it: readFromSST prunes by the range (flush.go Run).
ListedFilesWhole ==
  \A i \in DOMAIN levels0 :
    /\ levels0[i] \in DOMAIN files
    /\ \A k \in KeysIn(files[levels0[i]]) : levels0[i].min <= k /\ k <= levels0[i].max

\* Level 0 is ordered newest first, which every reader of it has to rely on: of two files that
\* hold a key, the first holds the later write. It takes writers that do not overlap, and no
\* file name used twice (updateManifest).
L0NewestFirst ==
  ~ overlapped /\ ~ clobbered =>
    \A i, j \in DOMAIN levels0 : i < j =>
      \A k \in KeysIn(files[levels0[i]]) \cap KeysIn(files[levels0[j]]) :
        files[levels0[i]][k] > files[levels0[j]][k]

\* The shape of the engine between any two steps of its clients and its flush goroutine: jobs
\* counted, listed files present and covered by their ranges, level 0 in order (engine.go, flush.go).
EngineWellFormed == TypeOK /\ JobsAccounted /\ ListedFilesWhole /\ L0NewestFirst

\* What a Sync flushed and acknowledged stays in a listed file, through failed flushes, kills and
\* restarts and with other calls in between, until a flush takes an old file's name: the write
\* itself, or a later one of its key (Sync, api.go:104-107).
OnDisk(n) ==
  \E i \in DOMAIN levels0 : levels0[i] \in DOMAIN files /\ files[levels0[i]][writes[n]] >= n
SyncPersists == ~ clobbered => \A n \in synced : OnDisk(n)

\* Whenever no call and no flush is under way, and no flush of this life failed, no calls
\* overlapped and the flush loop was not stopped, every key with an acknowledged write is found; what is found
\* is not older than the key's last acknowledged write unless two files hold the key
\* (flushActiveMemtable drops from the list the memtable it enqueued, REQ000347).
LastAcked(k) == LastOf({n \in acked : writes[n] = k})
Quiet == up /\ ~ done /\ pending = 0 /\ \A c \in Clients : ~ Busy(c)
AckedReadable ==
  Quiet /\ ~ overlapped /\ ~ clobbered /\ ~ lastErr =>
    \A n \in acked :
      /\ Read(writes[n]) # Missing
      /\ \/ Read(writes[n]) >= LastAcked(writes[n])
         \/ MemsWith(writes[n], FALSE) = {} /\ Cardinality(FilesWith(writes[n])) > 1

\* Every Write, Sync and Close returns: WaitForFlush, the full queue and Stop never wait for
\* each other (flush.go).
CallsReturn == \A c \in Clients : Busy(c) ~> ~ Busy(c)

-----------------------------------------------------------------------------
(* Statements of the documentation that the code does not keep *)

\* ENG.md:244: Get checks "L0 (newest first)".
ReadsNewest ==
  Quiet /\ ~ overlapped /\ ~ clobbered /\ ~ lastErr =>
    \A n \in acked : Read(writes[n]) >= LastAcked(writes[n])
=============================================================================
