------------------------------ MODULE Shutdown ------------------------------
(***************************************************************************)
(* Closing the engine: SYS/SY's Engine.Close runs the phases of runShutdown *)
(* while sessions are still inside their calls, over the drain of the       *)
(* transaction manager (TXN/VL) and the flush manager of ENG/LS.            *)
(*                                                                          *)
(* One call of the LSM engine is one step here (LsmEngine has the steps     *)
(* inside it): Insert, the hand-over of a full memtable, one flush job. A   *)
(* session call is split where it can be overtaken: it looks at the closed  *)
(* flag first and acts later. No transaction of a session has a WAL, so the *)
(* log and its directory have nothing to sync.                              *)
(***************************************************************************)
EXTENDS Naturals, Sequences, FiniteSets

CONSTANTS
  Sessions,     \* sessions, each used by one goroutine (its calls hold s.mu)
  Closers,      \* goroutines that call Close; the signal handler is one of them
  MaxTxs,       \* bound: calls of Begin
  MaxWrites,    \* bound: calls of Exec
  MaxFaults     \* bound: flush jobs that fail

ASSUME ShutdownAssumption ==
  /\ IsFiniteSet(Sessions) /\ IsFiniteSet(Closers) /\ Sessions \cap Closers = {}
  /\ MaxTxs \in Nat /\ MaxWrites \in Nat /\ MaxFaults \in Nat

VARIABLES
  closed,       \* e.closed
  phase,        \* where the call that won the closed flag is in runShutdown
  closer,       \* where each Close call is
  firstErr,     \* the winner will return an error
  pc,           \* where each session is in its call
  held,         \* sessions whose transaction holds a slot (not in freeList)
  status,       \* status of that slot
  left,         \* slots ForceAbortAll has not visited
  saw,          \* the slot it found active and is about to mark, or Nobody
  mgrClosed,    \* Manager.closed
  active,       \* writes in the active memtable
  jobs,         \* memtables handed to the flush goroutine, oldest first
  sst,          \* writes in a listed SST
  loop,         \* flushLoop: running, told to stop, gone
  lastErr,      \* fm.lastErr is set
  engineOpen,   \* eng.e is not nil
  begun, writes, faults,   \* history: counters of the bounds
  acked,        \* history: writes whose Exec returned nil
  early,        \* history: writes acknowledged before the closed flag was set
  openAtClose,  \* history: sessions holding a slot when the flag was set
  timedOut      \* history: WaitForActive gave up

sessionVars == <<pc, held, status, begun>>
engineVars == <<active, jobs, sst, loop, lastErr, engineOpen>>
closeVars == <<closed, phase, closer, firstErr, left, saw, mgrClosed>>
history == <<early, openAtClose, timedOut>>
vars == <<sessionVars, engineVars, closeVars, history, writes, faults, acked>>

Nobody == "nobody"
Phases == {"open", "wait", "force", "sync", "flushing", "stopCompaction", "stopFlush",
           "stopping", "closeTxn", "closeSync", "closeFlush", "down"}

Init ==
  /\ closed = FALSE /\ phase = "open" /\ closer = [c \in Closers |-> "idle"]
  /\ firstErr = FALSE /\ left = {} /\ saw = Nobody /\ mgrClosed = FALSE
  /\ pc = [s \in Sessions |-> "idle"] /\ held = {} /\ begun = 0
  /\ status = [s \in Sessions |-> "inactive"]
  /\ active = {} /\ jobs = <<>> /\ sst = {} /\ loop = "running"
  /\ lastErr = FALSE /\ engineOpen = TRUE
  /\ writes = 0 /\ faults = 0 /\ acked = {} /\ early = {} /\ openAtClose = {}
  /\ timedOut = FALSE

-----------------------------------------------------------------------------
(* Sessions (SE/se.go, TX/tx.go). Each call looks at the closed flag, more  *)
(* than once on its way; the last look is the one that counts.              *)

Call(s, from, to) ==
  /\ pc[s] = from /\ ~closed /\ pc' = [pc EXCEPT ![s] = to]
Step(s, from, to) == pc[s] = from /\ pc' = [pc EXCEPT ![s] = to]

\* Begin: ErrLocked while the session has a transaction.
Begin(s) ==
  /\ s \notin held /\ begun < MaxTxs /\ begun' = begun + 1
  /\ Call(s, "idle", "begin")
  /\ UNCHANGED <<held, status, engineVars, closeVars, history, writes, faults, acked>>

\* Manager.Begin: closed is looked at, and a slot is taken later, when the manager may have
\* been closed. The status is stored by AllocateSlot and again when the timestamp is known.
AllocateSlot(s) ==
  /\ Step(s, "begin", "activate")
  /\ held' = held \cup {s} /\ status' = [status EXCEPT ![s] = "active"]
  /\ UNCHANGED <<begun, engineVars, closeVars, history, writes, faults, acked>>
BeginRefused(s) ==
  /\ mgrClosed /\ Step(s, "begin", "idle")
  /\ UNCHANGED <<held, status, begun, engineVars, closeVars, history, writes, faults, acked>>
Activate(s) ==
  /\ Step(s, "activate", "idle") /\ status' = [status EXCEPT ![s] = "active"]
  /\ UNCHANGED <<held, begun, engineVars, closeVars, history, writes, faults, acked>>

\* Commit and Rollback: the same checks, then finalize stores the outcome and ReleaseSlot
\* puts the slot back. Nothing looks at the status on the way.
End(s) ==
  /\ s \in held /\ Call(s, "idle", "end")
  /\ UNCHANGED <<held, status, begun, engineVars, closeVars, history, writes, faults, acked>>
Finalize(s) ==
  /\ Step(s, "end", "release")
  /\ \E outcome \in {"committed", "aborted"} : status' = [status EXCEPT ![s] = outcome]
  /\ UNCHANGED <<held, begun, engineVars, closeVars, history, writes, faults, acked>>
ReleaseSlot(s) ==
  /\ Step(s, "release", "idle")
  /\ held' = held \ {s} /\ status' = [status EXCEPT ![s] = "inactive"]
  /\ UNCHANGED <<begun, engineVars, closeVars, history, writes, faults, acked>>

\* Exec: of the session or of its transaction, which writes to the same engine.
Exec(s) ==
  /\ Call(s, "idle", "exec")
  /\ UNCHANGED <<held, status, begun, engineVars, closeVars, history, writes, faults, acked>>

\* A frozen memtable goes to the flush goroutine, or nowhere once that was told to stop.
RequestFlush(mem) == jobs' = IF loop = "running" THEN Append(jobs, mem) ELSE jobs

\* The write may fill the memtable; it is then handed over before the call returns.
Write(s) ==
  /\ engineOpen /\ writes < MaxWrites /\ writes' = writes + 1
  /\ Step(s, "exec", "idle")
  /\ acked' = acked \cup {writes'}
  /\ \/ active' = active \cup {writes'} /\ jobs' = jobs
     \/ active' = {} /\ RequestFlush(active \cup {writes'})
  /\ UNCHANGED <<held, status, begun, sst, loop, lastErr, engineOpen, closeVars, history,
                 faults>>
WriteRefused(s) ==
  /\ ~engineOpen /\ Step(s, "exec", "idle")
  /\ UNCHANGED <<held, status, begun, engineVars, closeVars, history, writes, faults, acked>>

SessionStep(s) ==
  \/ AllocateSlot(s) \/ BeginRefused(s) \/ Activate(s)
  \/ Finalize(s) \/ ReleaseSlot(s) \/ Write(s) \/ WriteRefused(s)

-----------------------------------------------------------------------------
(* The flush goroutine (LS/flush.go flushLoop). A job that fails leaves its *)
(* error in lastErr and its memtable nowhere. Told to stop, the loop runs   *)
(* what is queued and ends.                                                 *)

RunJob ==
  /\ loop # "gone" /\ jobs # <<>>
  /\ jobs' = Tail(jobs)
  /\ \/ sst' = sst \cup Head(jobs) /\ UNCHANGED <<lastErr, faults>>
     \/ faults < MaxFaults /\ faults' = faults + 1 /\ lastErr' = TRUE /\ sst' = sst
  /\ UNCHANGED <<active, loop, engineOpen, sessionVars, closeVars, history, writes, acked>>

LoopMayEndAtOnce == TRUE
LoopMayEnd == jobs = <<>>
LoopEnds ==
  /\ loop = "stopping" /\ LoopMayEnd
  /\ loop' = "gone"
  /\ UNCHANGED <<active, jobs, sst, lastErr, engineOpen, sessionVars, closeVars, history,
                 writes, faults, acked>>
-----------------------------------------------------------------------------
(* Close (SY/shutdown.go). The first call wins the flag and runs the phases *)
(* one after the other; every other call returns nil at once.               *)

Close(c) ==
  /\ closer[c] = "idle" /\ ~closed
  /\ closed' = TRUE /\ phase' = "wait"
  /\ closer' = [closer EXCEPT ![c] = "closing"]
  /\ early' = acked /\ openAtClose' = held
  /\ UNCHANGED <<firstErr, left, saw, mgrClosed, timedOut, sessionVars, engineVars, writes,
                 faults, acked>>
CloseAgain(c) ==
  /\ closer[c] = "idle" /\ closed
  /\ closer' = [closer EXCEPT ![c] = "returned"]
  /\ UNCHANGED <<closed, phase, firstErr, left, saw, mgrClosed, history, sessionVars,
                 engineVars, writes, faults, acked>>

Goto(from, to) == phase = from /\ phase' = to

\* Phase 2: poll until no slot is in use, or until the time is up, which may be at any poll.
DrainedByStatus == \A s \in held : status[s] # "active"
Drained == held = {}
NeverUp == FALSE
TimeUp == TRUE
WaitForActive ==
  /\ \/ Drained /\ Goto("wait", "sync") /\ UNCHANGED <<left, timedOut>>
     \/ ~Drained /\ TimeUp /\ Goto("wait", "force") /\ left' = Sessions /\ timedOut' = TRUE
  /\ UNCHANGED <<closed, closer, firstErr, saw, mgrClosed, early, openAtClose, sessionVars,
                 engineVars, writes, faults, acked>>

\* ForceAbortAll: the status of each slot is loaded, and stored if it was active.
ForceLoad(s) ==
  /\ phase = "force" /\ saw = Nobody /\ s \in left
  /\ left' = left \ {s} /\ saw' = IF status[s] = "active" THEN s ELSE Nobody
  /\ UNCHANGED <<closed, phase, closer, firstErr, mgrClosed, history, sessionVars,
                 engineVars, writes, faults, acked>>
ForceStore ==
  /\ saw # Nobody /\ saw' = Nobody
  /\ status' = [status EXCEPT ![saw] = "aborted"]
  /\ UNCHANGED <<closed, phase, closer, firstErr, left, mgrClosed, pc, held, begun, history,
                 engineVars, writes, faults, acked>>
ForceDone ==
  /\ left = {} /\ saw = Nobody /\ Goto("force", "sync")
  /\ UNCHANGED <<closed, closer, firstErr, left, saw, mgrClosed, history, sessionVars,
                 engineVars, writes, faults, acked>>

\* Engine.Sync: with an empty active memtable it returns at once, and says nothing of jobs
\* under way or failed; otherwise it hands the memtable over and waits for all jobs.
NothingToFlush == active = {}
SyncBegin(from, flushing, next) ==
  /\ \/ NothingToFlush /\ Goto(from, next) /\ UNCHANGED <<active, jobs>>
     \/ ~NothingToFlush /\ Goto(from, flushing) /\ active' = {} /\ RequestFlush(active)
  /\ UNCHANGED <<closed, closer, firstErr, left, saw, mgrClosed, sst, loop, lastErr,
                 engineOpen, history, sessionVars, writes, faults, acked>>
Flushed == jobs = <<>>

\* Phase 3.
EngineSync == SyncBegin("sync", "flushing", "stopCompaction")
SyncReturns ==
  /\ Flushed /\ Goto("flushing", "stopCompaction")
  /\ firstErr' = (firstErr \/ lastErr)
  /\ UNCHANGED <<closed, closer, left, saw, mgrClosed, history, sessionVars, engineVars,
                 writes, faults, acked>>

\* Phase 4: each Stop returns when its goroutine is gone or when the time is up. The
\* compaction loop has no jobs here, but it may be late; the epoch manager was never
\* started, and stopping it does nothing.
StopCompaction ==
  /\ Goto("stopCompaction", "stopFlush")
  /\ firstErr' \in {firstErr, TRUE}
  /\ UNCHANGED <<closed, closer, left, saw, mgrClosed, history, sessionVars, engineVars,
                 writes, faults, acked>>
StopFlush ==
  /\ Goto("stopFlush", "stopping")
  /\ loop' = IF loop = "running" THEN "stopping" ELSE loop
  /\ UNCHANGED <<closed, closer, firstErr, left, saw, mgrClosed, active, jobs, sst, lastErr,
                 engineOpen, history, sessionVars, writes, faults, acked>>
StopReturns ==
  /\ Goto("stopping", "closeTxn")
  /\ \/ loop = "gone" /\ UNCHANGED firstErr
     \/ firstErr' = TRUE
  /\ UNCHANGED <<closed, closer, left, saw, mgrClosed, history, sessionVars, engineVars,
                 writes, faults, acked>>

\* Phase 5: the transaction manager, then the engine, whose Close syncs once more and drops
\* the outcome, and waits for the flush goroutine without a limit.
CloseTxn ==
  /\ Goto("closeTxn", "closeSync") /\ mgrClosed' = TRUE
  /\ UNCHANGED <<closed, closer, firstErr, left, saw, history, sessionVars, engineVars,
                 writes, faults, acked>>
CloseSync == SyncBegin("closeSync", "closeFlush", "closeFlush")
FailureForgotten == FALSE
FailureAtClose == lastErr
CloseEngine ==
  /\ Flushed /\ loop = "gone" /\ Goto("closeFlush", "down")
  /\ engineOpen' = FALSE
  /\ firstErr' = (firstErr \/ FailureAtClose)
  /\ closer' = [c \in Closers |-> IF closer[c] = "closing" THEN "returned" ELSE closer[c]]
  /\ UNCHANGED <<closed, left, saw, mgrClosed, active, jobs, sst, loop, lastErr, history,
                 sessionVars, writes, faults, acked>>

ShutdownStep ==
  \/ WaitForActive \/ (\E s \in Sessions : ForceLoad(s)) \/ ForceStore \/ ForceDone
  \/ EngineSync \/ SyncReturns \/ StopCompaction \/ StopFlush \/ StopReturns
  \/ CloseTxn \/ CloseSync \/ CloseEngine

Next ==
  \/ \E s \in Sessions : Begin(s) \/ End(s) \/ Exec(s) \/ SessionStep(s)
  \/ \E c \in Closers : Close(c) \/ CloseAgain(c)
  \/ ShutdownStep \/ RunJob \/ LoopEnds

\* The goroutine that runs the phases and the flush goroutine are scheduled. Sessions need
\* not take another step, and no time limit need ever be the one that fires.
Fairness == WF_vars(ShutdownStep) /\ WF_vars(RunJob \/ LoopEnds)

Spec == Init /\ [][Next]_vars
FairSpec == Spec /\ Fairness

-----------------------------------------------------------------------------
Writes == 1..MaxWrites

TypeOK ==
  /\ closed \in BOOLEAN /\ phase \in Phases
  /\ closer \in [Closers -> {"idle", "closing", "returned"}]
  /\ firstErr \in BOOLEAN /\ left \subseteq Sessions /\ saw \in Sessions \cup {Nobody}
  /\ mgrClosed \in BOOLEAN
  /\ pc \in [Sessions -> {"idle", "begin", "activate", "end", "release", "exec"}]
  /\ held \subseteq Sessions
  /\ status \in [Sessions -> {"inactive", "active", "committed", "aborted"}]
  /\ active \subseteq Writes /\ jobs \in Seq((SUBSET Writes) \ {{}}) /\ sst \subseteq Writes
  /\ loop \in {"running", "stopping", "gone"}
  /\ lastErr \in BOOLEAN /\ engineOpen \in BOOLEAN
  /\ begun \in 0..MaxTxs /\ writes \in 0..MaxWrites /\ faults \in 0..MaxFaults
  /\ acked \subseteq Writes /\ early \subseteq acked /\ openAtClose \subseteq Sessions
  /\ timedOut \in BOOLEAN

\* What was acknowledged before Close was called is in an SST by the time the flush
\* goroutine is gone, unless a job failed: phase 3 comes before phase 4, and the loop runs
\* what is queued before it ends (shutdown.go, flush.go flushLoop).
EarlyWritesFlushed == loop = "gone" => early \subseteq sst \/ lastErr

\* A Close that ran the phases and returns nil has lost nothing that was acknowledged before
\* it was called: "the public contract is Close persists" (LS/api.go Close). A job that
\* failed long before shows here although neither Sync looked at it.
NilCloseLosesNothing == phase = "down" /\ ~firstErr => early \subseteq sst

\* When phase 2 ends before its time is up, every transaction that was open when Close was
\* called has been ended by its session, a Commit under way included, before anything is
\* flushed or stopped, and the variables keep their types (VL/cond.go WaitForActive).
DrainedMeansEnded ==
  /\ TypeOK
  /\ phase \notin {"open", "wait"} /\ ~timedOut => openAtClose \cap held = {}

\* Every Close returns, whatever the sessions do: nobody has to end a transaction, finish a
\* call or release a slot for it (shutdown.go runShutdown, cond.go, flush.go Stop).
CloseReturns == \A c \in Closers : closer[c] = "closing" ~> closer[c] = "returned"
=============================================================================
