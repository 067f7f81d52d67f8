--------------------------- MODULE Shutdown_proofs ---------------------------
(***************************************************************************)
(* Proofs about Shutdown, for any number of sessions and of callers of       *)
(* Close, any number of transactions, writes and failing jobs. The inductive   *)
(* invariant is Inv: the types, where the flush loop is in each phase            *)
(* (LoopInv), which sessions may still take a slot (SlotInv), and where the      *)
(* acknowledged writes are (KeptInv).                                         *)
(***************************************************************************)
EXTENDS Shutdown, TLAPS

\* The writes of the memtables in a queue.
Queued(q) == UNION {q[i] : i \in DOMAIN q}

\* The flush loop runs until phase 4 stops it, ends with an empty queue, and is gone when the
\* engine is down, whose Close has then told of any failure.
Serving == {"open", "wait", "force", "sync", "flushing", "stopCompaction", "stopFlush"}
LoopInv ==
  /\ closed <=> phase # "open"
  /\ loop = "running" <=> phase \in Serving
  /\ loop = "gone" => jobs = <<>>
  /\ phase = "down" => loop = "gone" /\ (lastErr => firstErr)

\* A session between the look at the closed flag and its slot holds none, and was not one of
\* those that held one when the flag was set.
SlotInv ==
  /\ \A s \in Sessions : pc[s] = "begin" => s \notin held
  /\ closed => \A s \in openAtClose : pc[s] # "begin"
  /\ phase \notin {"open", "wait"} /\ ~timedOut => openAtClose \cap held = {}

\* Unless a job failed, acknowledged writes are in the active memtable, in the queue or in a file
\* while the loop serves; those from before Close have left the memtable once phase 3 began.
KeptInv ==
  lastErr \/
    /\ loop = "running" => acked \subseteq active \cup Queued(jobs) \cup sst
    /\ phase \notin {"open", "wait", "force", "sync"} => early \subseteq Queued(jobs) \cup sst

Inv == TypeOK /\ LoopInv /\ SlotInv /\ KeptInv

(***************************************************************************)
(* Queues                                                                   *)
(***************************************************************************)

\* A memtable handed over adds its writes to those of the queue.
LEMMA QueuedAppend ==
  ASSUME NEW S, NEW q \in Seq(S), NEW m \in S
  PROVE  Queued(Append(q, m)) = Queued(q) \cup m
<1>1. DOMAIN Append(q, m) = DOMAIN q \cup {Len(q) + 1}
  OBVIOUS
<1>2. Append(q, m)[Len(q) + 1] = m
  OBVIOUS
<1>3. \A i \in DOMAIN q : Append(q, m)[i] = q[i] /\ i # Len(q) + 1
  OBVIOUS
<1> QED
  BY <1>1, <1>2, <1>3, Zenon DEF Queued

\* The job that is run takes its writes out of the queue, and no others.
LEMMA QueuedTail ==
  ASSUME NEW S, NEW q \in Seq(S), q # <<>>
  PROVE  Queued(q) = Head(q) \cup Queued(Tail(q))
<1>1. \A i \in DOMAIN q : i = 1 \/ (i - 1 \in DOMAIN Tail(q) /\ Tail(q)[i - 1] = q[i])
  OBVIOUS
<1>2. \A i \in DOMAIN Tail(q) : i + 1 \in DOMAIN q /\ Tail(q)[i] = q[i + 1]
  OBVIOUS
<1>3. Head(q) = q[1] /\ 1 \in DOMAIN q
  OBVIOUS
<1>4. ASSUME NEW x \in Queued(q) PROVE x \in Head(q) \cup Queued(Tail(q))
  <2>1. PICK i \in DOMAIN q : x \in q[i]
    BY <1>4 DEF Queued
  <2>2. CASE i = 1
    BY <2>1, <2>2, <1>3
  <2>3. CASE i - 1 \in DOMAIN Tail(q) /\ Tail(q)[i - 1] = q[i]
    BY <2>1, <2>3 DEF Queued
  <2> QED
    BY <1>1, <2>2, <2>3
<1>5. ASSUME NEW x \in Queued(Tail(q)) PROVE x \in Queued(q)
  <2>1. PICK i \in DOMAIN Tail(q) : x \in Tail(q)[i]
    BY <1>5 DEF Queued
  <2> QED
    BY <1>2, <2>1 DEF Queued
<1>6. ASSUME NEW x \in Head(q) PROVE x \in Queued(q)
  BY <1>3, <1>6 DEF Queued
<1> QED
  BY <1>4, <1>5, <1>6

\* What the loop takes, and what it leaves, are of the queue's type.
LEMMA HeadTail ==
  ASSUME NEW S, NEW q \in Seq(S), q # <<>>
  PROVE  Head(q) \in S /\ Tail(q) \in Seq(S)
OBVIOUS

\* An empty queue holds no writes.
LEMMA QueuedEmpty == Queued(<<>>) = {}
BY DEF Queued

(***************************************************************************)
(* Types                                                                    *)
(***************************************************************************)

\* The bounds are numbers.
LEMMA ConstantFacts == MaxTxs \in Nat /\ MaxWrites \in Nat /\ MaxFaults \in Nat
BY ShutdownAssumption

\* A step is one of the actions, or changes nothing.
LEMMA NextSteps ==
  ASSUME [Next]_vars, NEW P,

         \A s \in Sessions : (Begin(s) => P),
         \A s \in Sessions : (AllocateSlot(s) => P),
         \A s \in Sessions : (BeginRefused(s) => P),
         \A s \in Sessions : (Activate(s) => P),
         \A s \in Sessions : (End(s) => P),
         \A s \in Sessions : (Finalize(s) => P),
         \A s \in Sessions : (ReleaseSlot(s) => P),
         \A s \in Sessions : (Exec(s) => P),
         \A s \in Sessions : (Write(s) => P),
         \A s \in Sessions : (WriteRefused(s) => P),
         \A c \in Closers : (Close(c) => P),
         \A c \in Closers : (CloseAgain(c) => P),
         (WaitForActive => P),
         \A s \in Sessions : (ForceLoad(s) => P),
         (ForceStore => P),
         (ForceDone => P),
         (EngineSync => P),
         (SyncReturns => P),
         (StopCompaction => P),
         (StopFlush => P),
         (StopReturns => P),
         (CloseTxn => P),
         (CloseSync => P),
         (CloseEngine => P),
         (RunJob => P),
         (LoopEnds => P),
         vars' = vars => P
  PROVE  P
BY DEF Next, SessionStep, ShutdownStep

\* The types hold at the start.
LEMMA TypeInit == Init => TypeOK
<1> SUFFICES ASSUME Init PROVE TypeOK
  OBVIOUS
<1>1. jobs \in Seq((SUBSET Writes) \ {{}})
  BY DEF Init
<1>2. /\ closer \in [Closers -> {"idle", "closing", "returned"}]
      /\ pc \in [Sessions -> {"idle", "begin", "activate", "end", "release", "exec"}]
      /\ status \in [Sessions -> {"inactive", "active", "committed", "aborted"}]
  BY DEF Init
<1>3. /\ closed \in BOOLEAN /\ phase \in Phases /\ firstErr \in BOOLEAN /\ left \subseteq Sessions
      /\ saw \in Sessions \cup {Nobody} /\ mgrClosed \in BOOLEAN /\ held \subseteq Sessions
  BY DEF Init, Phases
<1>4. /\ active \subseteq Writes /\ sst \subseteq Writes /\ acked \subseteq Writes
      /\ early \subseteq acked /\ openAtClose \subseteq Sessions
  BY DEF Init
<1>5. /\ loop \in {"running", "stopping", "gone"} /\ lastErr \in BOOLEAN
      /\ engineOpen \in BOOLEAN /\ timedOut \in BOOLEAN
  BY DEF Init
<1>6. begun \in 0..MaxTxs /\ writes \in 0..MaxWrites /\ faults \in 0..MaxFaults
  BY ConstantFacts DEF Init
<1> QED
  BY <1>1, <1>2, <1>3, <1>4, <1>5, <1>6 DEF TypeOK

\* Every step keeps the types.
LEMMA TypeStep == TypeOK /\ [Next]_vars => TypeOK'
<1> SUFFICES ASSUME TypeOK, [Next]_vars PROVE TypeOK'
  OBVIOUS
<1>1. ASSUME NEW s \in Sessions, Begin(s) PROVE TypeOK'
  BY <1>1, ConstantFacts DEF TypeOK, Phases, Nobody, Begin, Call, sessionVars, engineVars, closeVars, history, vars
<1>2. ASSUME NEW s \in Sessions, AllocateSlot(s) PROVE TypeOK'
  BY <1>2, ConstantFacts DEF TypeOK, Phases, Nobody, AllocateSlot, Step, sessionVars, engineVars, closeVars, history, vars
<1>3. ASSUME NEW s \in Sessions, BeginRefused(s) PROVE TypeOK'
  BY <1>3, ConstantFacts DEF TypeOK, Phases, Nobody, BeginRefused, Step, sessionVars, engineVars, closeVars, history, vars
<1>4. ASSUME NEW s \in Sessions, Activate(s) PROVE TypeOK'
  BY <1>4, ConstantFacts DEF TypeOK, Phases, Nobody, Activate, Step, sessionVars, engineVars, closeVars, history, vars
<1>5. ASSUME NEW s \in Sessions, End(s) PROVE TypeOK'
  BY <1>5, ConstantFacts DEF TypeOK, Phases, Nobody, End, Call, sessionVars, engineVars, closeVars, history, vars
<1>6. ASSUME NEW s \in Sessions, Finalize(s) PROVE TypeOK'
  BY <1>6, ConstantFacts DEF TypeOK, Phases, Nobody, Finalize, Step, sessionVars, engineVars, closeVars, history, vars
<1>7. ASSUME NEW s \in Sessions, ReleaseSlot(s) PROVE TypeOK'
  BY <1>7, ConstantFacts DEF TypeOK, Phases, Nobody, ReleaseSlot, Step, sessionVars, engineVars, closeVars, history, vars
<1>8. ASSUME NEW s \in Sessions, Exec(s) PROVE TypeOK'
  BY <1>8, ConstantFacts DEF TypeOK, Phases, Nobody, Exec, Call, sessionVars, engineVars, closeVars, history, vars
<1>9. ASSUME NEW s \in Sessions, Write(s) PROVE TypeOK'
  <2> DEFINE Memtables == (SUBSET Writes) \ {{}}
  <2>1. writes + 1 \in Writes
    BY <1>9, ConstantFacts DEF TypeOK, Write, Writes
  <2>2. active \cup {writes + 1} \in Memtables
    BY <2>1 DEF TypeOK
  <2>3. jobs' \in Seq(Memtables) /\ active' \subseteq Writes
    <3>1. jobs \in Seq(Memtables)
      BY DEF TypeOK
    <3>2. writes' = writes + 1
      BY <1>9 DEF Write
    <3> HIDE DEF Memtables
    <3>3. Append(jobs, active \cup {writes + 1}) \in Seq(Memtables)
      BY <2>2, <3>1
    <3>4. jobs' \in Seq(Memtables)
      BY <1>9, <3>1, <3>2, <3>3 DEF Write, RequestFlush
    <3>5. active' \subseteq active \cup {writes + 1}
      BY <1>9, <3>2 DEF Write
    <3> QED
      BY <2>2, <3>4, <3>5 DEF Memtables
  <2>4. acked' \subseteq Writes /\ writes' \in 0..MaxWrites
    BY <1>9, <2>1 DEF TypeOK, Write, Writes
  <2>5. pc' \in [Sessions -> {"idle", "begin", "activate", "end", "release", "exec"}]
    BY <1>9 DEF TypeOK, Write, Step
  <2>6. acked \subseteq acked'
    BY <1>9 DEF Write
  <2> QED
    BY <1>9, <2>3, <2>4, <2>5, <2>6 DEF TypeOK, Write, closeVars, history
<1>10. ASSUME NEW s \in Sessions, WriteRefused(s) PROVE TypeOK'
  BY <1>10, ConstantFacts DEF TypeOK, Phases, Nobody, WriteRefused, Step, sessionVars, engineVars, closeVars, history, vars
<1>11. ASSUME NEW c \in Closers, Close(c) PROVE TypeOK'
  BY <1>11, ConstantFacts DEF TypeOK, Phases, Nobody, Close, sessionVars, engineVars, closeVars, history, vars
<1>12. ASSUME NEW c \in Closers, CloseAgain(c) PROVE TypeOK'
  BY <1>12, ConstantFacts DEF TypeOK, Phases, Nobody, CloseAgain, sessionVars, engineVars, closeVars, history, vars
<1>13. ASSUME WaitForActive PROVE TypeOK'
  BY <1>13, ConstantFacts DEF TypeOK, Phases, Nobody, WaitForActive, Goto, Drained, sessionVars, engineVars, closeVars, history, vars
<1>14. ASSUME NEW s \in Sessions, ForceLoad(s) PROVE TypeOK'
  BY <1>14, ConstantFacts DEF TypeOK, Phases, Nobody, ForceLoad, sessionVars, engineVars, closeVars, history, vars
<1>15. ASSUME ForceStore PROVE TypeOK'
  BY <1>15, ConstantFacts DEF TypeOK, Phases, Nobody, ForceStore, sessionVars, engineVars, closeVars, history, vars
<1>16. ASSUME ForceDone PROVE TypeOK'
  BY <1>16, ConstantFacts DEF TypeOK, Phases, Nobody, ForceDone, Goto, sessionVars, engineVars, closeVars, history, vars
<1>17. ASSUME EngineSync PROVE TypeOK'
  BY <1>17, ConstantFacts DEF TypeOK, Phases, Nobody, EngineSync, SyncBegin, Goto, RequestFlush, NothingToFlush, sessionVars, engineVars, closeVars, history, vars
<1>18. ASSUME SyncReturns PROVE TypeOK'
  BY <1>18, ConstantFacts DEF TypeOK, Phases, Nobody, SyncReturns, Goto, sessionVars, engineVars, closeVars, history, vars
<1>19. ASSUME StopCompaction PROVE TypeOK'
  BY <1>19, ConstantFacts DEF TypeOK, Phases, Nobody, StopCompaction, Goto, sessionVars, engineVars, closeVars, history, vars
<1>20. ASSUME StopFlush PROVE TypeOK'
  BY <1>20, ConstantFacts DEF TypeOK, Phases, Nobody, StopFlush, Goto, sessionVars, engineVars, closeVars, history, vars
<1>21. ASSUME StopReturns PROVE TypeOK'
  BY <1>21, ConstantFacts DEF TypeOK, Phases, Nobody, StopReturns, Goto, sessionVars, engineVars, closeVars, history, vars
<1>22. ASSUME CloseTxn PROVE TypeOK'
  BY <1>22, ConstantFacts DEF TypeOK, Phases, Nobody, CloseTxn, Goto, sessionVars, engineVars, closeVars, history, vars
<1>23. ASSUME CloseSync PROVE TypeOK'
  BY <1>23, ConstantFacts DEF TypeOK, Phases, Nobody, CloseSync, SyncBegin, Goto, RequestFlush, NothingToFlush, sessionVars, engineVars, closeVars, history, vars
<1>24. ASSUME CloseEngine PROVE TypeOK'
  BY <1>24, ConstantFacts DEF TypeOK, Phases, Nobody, CloseEngine, Goto, FailureAtClose, sessionVars, engineVars, closeVars, history, vars
<1>25. ASSUME RunJob PROVE TypeOK'
  <2> DEFINE Memtables == (SUBSET Writes) \ {{}}
  <2>1. Head(jobs) \in Memtables /\ Tail(jobs) \in Seq(Memtables)
    <3> HIDE DEF Memtables
    <3> QED
      BY <1>25, HeadTail DEF RunJob, TypeOK, Memtables
  <2>2. jobs' \in Seq(Memtables) /\ sst' \subseteq Writes
    BY <1>25, <2>1 DEF RunJob, TypeOK
  <2>3. lastErr' \in BOOLEAN /\ faults' \in 0..MaxFaults
    <3>1. lastErr \in BOOLEAN /\ faults \in 0..MaxFaults
      BY DEF TypeOK
    <3>2. \/ lastErr' = lastErr /\ faults' = faults
          \/ faults < MaxFaults /\ faults' = faults + 1 /\ lastErr' = TRUE
      BY <1>25, Zenon DEF RunJob
    <3>3. lastErr' \in BOOLEAN
      BY <3>1, <3>2, Zenon
    <3>4. faults' \in 0..MaxFaults
      <4>1. faults' = faults \/ (faults < MaxFaults /\ faults' = faults + 1)
        BY <3>2, Zenon
      <4> QED
        BY <3>1, <4>1, ConstantFacts
    <3> QED
      BY <3>3, <3>4
  <2> QED
    BY <1>25, <2>2, <2>3 DEF TypeOK, RunJob, sessionVars, closeVars, history
<1>26. ASSUME LoopEnds PROVE TypeOK'
  BY <1>26, ConstantFacts DEF TypeOK, Phases, Nobody, LoopEnds, LoopMayEnd, sessionVars, engineVars, closeVars, history, vars
<1>27. ASSUME vars' = vars PROVE TypeOK'
  BY <1>27 DEF TypeOK, sessionVars, engineVars, closeVars, history, vars
<1> QED
  BY <1>1, <1>2, <1>3, <1>4, <1>5, <1>6, <1>7, <1>8, <1>9, <1>10, <1>11, <1>12, <1>13, <1>14, <1>15, <1>16, <1>17, <1>18, <1>19, <1>20, <1>21, <1>22, <1>23, <1>24, <1>25, <1>26, <1>27, NextSteps

(***************************************************************************)
(* The invariant                                                            *)
(***************************************************************************)

\* An engine that has just been opened has the invariant.
LEMMA InvInit == Init => Inv
<1> SUFFICES ASSUME Init PROVE Inv
  OBVIOUS
<1>1. LoopInv
  BY DEF Init, LoopInv, Serving
<1>2. SlotInv
  BY DEF Init, SlotInv
<1>3. KeptInv
  BY DEF Init, KeptInv
<1> QED
  BY <1>1, <1>2, <1>3, TypeInit DEF Inv

\* Phases of the shutdown and the flush loop stay in step.
LEMMA LoopInvStep == LoopInv /\ [Next]_vars => LoopInv'
<1> SUFFICES ASSUME LoopInv, [Next]_vars PROVE LoopInv'
  OBVIOUS
<1>1. ASSUME NEW s \in Sessions, Begin(s) PROVE LoopInv'
  BY <1>1 DEF LoopInv, Serving, Begin, Call, sessionVars, engineVars, closeVars, history, vars
<1>2. ASSUME NEW s \in Sessions, AllocateSlot(s) PROVE LoopInv'
  BY <1>2 DEF LoopInv, Serving, AllocateSlot, Step, sessionVars, engineVars, closeVars, history, vars
<1>3. ASSUME NEW s \in Sessions, BeginRefused(s) PROVE LoopInv'
  BY <1>3 DEF LoopInv, Serving, BeginRefused, Step, sessionVars, engineVars, closeVars, history, vars
<1>4. ASSUME NEW s \in Sessions, Activate(s) PROVE LoopInv'
  BY <1>4 DEF LoopInv, Serving, Activate, Step, sessionVars, engineVars, closeVars, history, vars
<1>5. ASSUME NEW s \in Sessions, End(s) PROVE LoopInv'
  BY <1>5 DEF LoopInv, Serving, End, Call, sessionVars, engineVars, closeVars, history, vars
<1>6. ASSUME NEW s \in Sessions, Finalize(s) PROVE LoopInv'
  BY <1>6 DEF LoopInv, Serving, Finalize, Step, sessionVars, engineVars, closeVars, history, vars
<1>7. ASSUME NEW s \in Sessions, ReleaseSlot(s) PROVE LoopInv'
  BY <1>7 DEF LoopInv, Serving, ReleaseSlot, Step, sessionVars, engineVars, closeVars, history, vars
<1>8. ASSUME NEW s \in Sessions, Exec(s) PROVE LoopInv'
  BY <1>8 DEF LoopInv, Serving, Exec, Call, sessionVars, engineVars, closeVars, history, vars
<1>9. ASSUME NEW s \in Sessions, Write(s) PROVE LoopInv'
  BY <1>9 DEF LoopInv, Serving, Write, Step, RequestFlush, sessionVars, engineVars, closeVars, history, vars
<1>10. ASSUME NEW s \in Sessions, WriteRefused(s) PROVE LoopInv'
  BY <1>10 DEF LoopInv, Serving, WriteRefused, Step, sessionVars, engineVars, closeVars, history, vars
<1>11. ASSUME NEW c \in Closers, Close(c) PROVE LoopInv'
  BY <1>11 DEF LoopInv, Serving, Close, sessionVars, engineVars, closeVars, history, vars
<1>12. ASSUME NEW c \in Closers, CloseAgain(c) PROVE LoopInv'
  BY <1>12 DEF LoopInv, Serving, CloseAgain, sessionVars, engineVars, closeVars, history, vars
<1>13. ASSUME WaitForActive PROVE LoopInv'
  BY <1>13 DEF LoopInv, Serving, WaitForActive, Goto, Drained, sessionVars, engineVars, closeVars, history, vars
<1>14. ASSUME NEW s \in Sessions, ForceLoad(s) PROVE LoopInv'
  BY <1>14 DEF LoopInv, Serving, ForceLoad, sessionVars, engineVars, closeVars, history, vars
<1>15. ASSUME ForceStore PROVE LoopInv'
  BY <1>15 DEF LoopInv, Serving, ForceStore, sessionVars, engineVars, closeVars, history, vars
<1>16. ASSUME ForceDone PROVE LoopInv'
  BY <1>16 DEF LoopInv, Serving, ForceDone, Goto, sessionVars, engineVars, closeVars, history, vars
<1>17. ASSUME EngineSync PROVE LoopInv'
  BY <1>17 DEF LoopInv, Serving, EngineSync, SyncBegin, Goto, RequestFlush, NothingToFlush, sessionVars, engineVars, closeVars, history, vars
<1>18. ASSUME SyncReturns PROVE LoopInv'
  BY <1>18 DEF LoopInv, Serving, SyncReturns, Goto, sessionVars, engineVars, closeVars, history, vars
<1>19. ASSUME StopCompaction PROVE LoopInv'
  BY <1>19 DEF LoopInv, Serving, StopCompaction, Goto, sessionVars, engineVars, closeVars, history, vars
<1>20. ASSUME StopFlush PROVE LoopInv'
  BY <1>20 DEF LoopInv, Serving, StopFlush, Goto, sessionVars, engineVars, closeVars, history, vars
<1>21. ASSUME StopReturns PROVE LoopInv'
  BY <1>21 DEF LoopInv, Serving, StopReturns, Goto, sessionVars, engineVars, closeVars, history, vars
<1>22. ASSUME CloseTxn PROVE LoopInv'
  BY <1>22 DEF LoopInv, Serving, CloseTxn, Goto, sessionVars, engineVars, closeVars, history, vars
<1>23. ASSUME CloseSync PROVE LoopInv'
  BY <1>23 DEF LoopInv, Serving, CloseSync, SyncBegin, Goto, RequestFlush, NothingToFlush, sessionVars, engineVars, closeVars, history, vars
<1>24. ASSUME CloseEngine PROVE LoopInv'
  BY <1>24 DEF LoopInv, Serving, CloseEngine, Goto, FailureAtClose, sessionVars, engineVars, closeVars, history, vars
<1>25. ASSUME RunJob PROVE LoopInv'
  BY <1>25 DEF LoopInv, Serving, RunJob, sessionVars, engineVars, closeVars, history, vars
<1>26. ASSUME LoopEnds PROVE LoopInv'
  BY <1>26 DEF LoopInv, Serving, LoopEnds, LoopMayEnd, sessionVars, engineVars, closeVars, history, vars
<1>27. ASSUME vars' = vars PROVE LoopInv'
  BY <1>27 DEF LoopInv, Serving, sessionVars, engineVars, closeVars, history, vars
<1> QED
  BY <1>1, <1>2, <1>3, <1>4, <1>5, <1>6, <1>7, <1>8, <1>9, <1>10, <1>11, <1>12, <1>13, <1>14, <1>15, <1>16, <1>17, <1>18, <1>19, <1>20, <1>21, <1>22, <1>23, <1>24, <1>25, <1>26, <1>27, NextSteps

\* No step lets a session of before the drain back in.
LEMMA SlotInvStep == TypeOK /\ LoopInv /\ SlotInv /\ [Next]_vars => SlotInv'
<1> SUFFICES ASSUME TypeOK, LoopInv, SlotInv, [Next]_vars PROVE SlotInv'
  OBVIOUS
<1>1. ASSUME NEW s \in Sessions, Begin(s) PROVE SlotInv'
  BY <1>1 DEF SlotInv, LoopInv, TypeOK, Begin, Call, sessionVars, engineVars, closeVars, history, vars
<1>2. ASSUME NEW s \in Sessions, AllocateSlot(s) PROVE SlotInv'
  BY <1>2 DEF SlotInv, LoopInv, TypeOK, AllocateSlot, Step, sessionVars, engineVars, closeVars, history, vars
<1>3. ASSUME NEW s \in Sessions, BeginRefused(s) PROVE SlotInv'
  BY <1>3 DEF SlotInv, LoopInv, TypeOK, BeginRefused, Step, sessionVars, engineVars, closeVars, history, vars
<1>4. ASSUME NEW s \in Sessions, Activate(s) PROVE SlotInv'
  BY <1>4 DEF SlotInv, LoopInv, TypeOK, Activate, Step, sessionVars, engineVars, closeVars, history, vars
<1>5. ASSUME NEW s \in Sessions, End(s) PROVE SlotInv'
  BY <1>5 DEF SlotInv, LoopInv, TypeOK, End, Call, sessionVars, engineVars, closeVars, history, vars
<1>6. ASSUME NEW s \in Sessions, Finalize(s) PROVE SlotInv'
  BY <1>6 DEF SlotInv, LoopInv, TypeOK, Finalize, Step, sessionVars, engineVars, closeVars, history, vars
<1>7. ASSUME NEW s \in Sessions, ReleaseSlot(s) PROVE SlotInv'
  BY <1>7 DEF SlotInv, LoopInv, TypeOK, ReleaseSlot, Step, sessionVars, engineVars, closeVars, history, vars
<1>8. ASSUME NEW s \in Sessions, Exec(s) PROVE SlotInv'
  BY <1>8 DEF SlotInv, LoopInv, TypeOK, Exec, Call, sessionVars, engineVars, closeVars, history, vars
<1>9. ASSUME NEW s \in Sessions, Write(s) PROVE SlotInv'
  BY <1>9 DEF SlotInv, LoopInv, TypeOK, Write, Step, RequestFlush, sessionVars, engineVars, closeVars, history, vars
<1>10. ASSUME NEW s \in Sessions, WriteRefused(s) PROVE SlotInv'
  BY <1>10 DEF SlotInv, LoopInv, TypeOK, WriteRefused, Step, sessionVars, engineVars, closeVars, history, vars
<1>11. ASSUME NEW c \in Closers, Close(c) PROVE SlotInv'
  BY <1>11 DEF SlotInv, LoopInv, TypeOK, Close, sessionVars, engineVars, closeVars, history, vars
<1>12. ASSUME NEW c \in Closers, CloseAgain(c) PROVE SlotInv'
  BY <1>12 DEF SlotInv, LoopInv, TypeOK, CloseAgain, sessionVars, engineVars, closeVars, history, vars
<1>13. ASSUME WaitForActive PROVE SlotInv'
  BY <1>13 DEF SlotInv, LoopInv, TypeOK, WaitForActive, Goto, Drained, sessionVars, engineVars, closeVars, history, vars
<1>14. ASSUME NEW s \in Sessions, ForceLoad(s) PROVE SlotInv'
  BY <1>14 DEF SlotInv, LoopInv, TypeOK, ForceLoad, sessionVars, engineVars, closeVars, history, vars
<1>15. ASSUME ForceStore PROVE SlotInv'
  BY <1>15 DEF SlotInv, LoopInv, TypeOK, ForceStore, sessionVars, engineVars, closeVars, history, vars
<1>16. ASSUME ForceDone PROVE SlotInv'
  BY <1>16 DEF SlotInv, LoopInv, TypeOK, ForceDone, Goto, sessionVars, engineVars, closeVars, history, vars
<1>17. ASSUME EngineSync PROVE SlotInv'
  BY <1>17 DEF SlotInv, LoopInv, TypeOK, EngineSync, SyncBegin, Goto, RequestFlush, NothingToFlush, sessionVars, engineVars, closeVars, history, vars
<1>18. ASSUME SyncReturns PROVE SlotInv'
  BY <1>18 DEF SlotInv, LoopInv, TypeOK, SyncReturns, Goto, sessionVars, engineVars, closeVars, history, vars
<1>19. ASSUME StopCompaction PROVE SlotInv'
  BY <1>19 DEF SlotInv, LoopInv, TypeOK, StopCompaction, Goto, sessionVars, engineVars, closeVars, history, vars
<1>20. ASSUME StopFlush PROVE SlotInv'
  BY <1>20 DEF SlotInv, LoopInv, TypeOK, StopFlush, Goto, sessionVars, engineVars, closeVars, history, vars
<1>21. ASSUME StopReturns PROVE SlotInv'
  BY <1>21 DEF SlotInv, LoopInv, TypeOK, StopReturns, Goto, sessionVars, engineVars, closeVars, history, vars
<1>22. ASSUME CloseTxn PROVE SlotInv'
  BY <1>22 DEF SlotInv, LoopInv, TypeOK, CloseTxn, Goto, sessionVars, engineVars, closeVars, history, vars
<1>23. ASSUME CloseSync PROVE SlotInv'
  BY <1>23 DEF SlotInv, LoopInv, TypeOK, CloseSync, SyncBegin, Goto, RequestFlush, NothingToFlush, sessionVars, engineVars, closeVars, history, vars
<1>24. ASSUME CloseEngine PROVE SlotInv'
  BY <1>24 DEF SlotInv, LoopInv, TypeOK, CloseEngine, Goto, FailureAtClose, sessionVars, engineVars, closeVars, history, vars
<1>25. ASSUME RunJob PROVE SlotInv'
  BY <1>25 DEF SlotInv, LoopInv, TypeOK, RunJob, sessionVars, engineVars, closeVars, history, vars
<1>26. ASSUME LoopEnds PROVE SlotInv'
  BY <1>26 DEF SlotInv, LoopInv, TypeOK, LoopEnds, LoopMayEnd, sessionVars, engineVars, closeVars, history, vars
<1>27. ASSUME vars' = vars PROVE SlotInv'
  BY <1>27 DEF SlotInv, LoopInv, TypeOK, sessionVars, engineVars, closeVars, history, vars
<1> QED
  BY <1>1, <1>2, <1>3, <1>4, <1>5, <1>6, <1>7, <1>8, <1>9, <1>10, <1>11, <1>12, <1>13, <1>14, <1>15, <1>16, <1>17, <1>18, <1>19, <1>20, <1>21, <1>22, <1>23, <1>24, <1>25, <1>26, <1>27, NextSteps

\* No step loses an acknowledged write on its way from memtable to queue to file.
LEMMA KeptInvStep == TypeOK /\ LoopInv /\ KeptInv /\ [Next]_vars => KeptInv'
<1> SUFFICES ASSUME TypeOK, LoopInv, KeptInv, [Next]_vars PROVE KeptInv'
  OBVIOUS
<1>1. ASSUME NEW s \in Sessions, Begin(s) PROVE KeptInv'
  BY <1>1 DEF KeptInv, LoopInv, Serving, Begin, Call, sessionVars, engineVars, closeVars, history, vars
<1>2. ASSUME NEW s \in Sessions, AllocateSlot(s) PROVE KeptInv'
  BY <1>2 DEF KeptInv, LoopInv, Serving, AllocateSlot, Step, sessionVars, engineVars, closeVars, history, vars
<1>3. ASSUME NEW s \in Sessions, BeginRefused(s) PROVE KeptInv'
  BY <1>3 DEF KeptInv, LoopInv, Serving, BeginRefused, Step, sessionVars, engineVars, closeVars, history, vars
<1>4. ASSUME NEW s \in Sessions, Activate(s) PROVE KeptInv'
  BY <1>4 DEF KeptInv, LoopInv, Serving, Activate, Step, sessionVars, engineVars, closeVars, history, vars
<1>5. ASSUME NEW s \in Sessions, End(s) PROVE KeptInv'
  BY <1>5 DEF KeptInv, LoopInv, Serving, End, Call, sessionVars, engineVars, closeVars, history, vars
<1>6. ASSUME NEW s \in Sessions, Finalize(s) PROVE KeptInv'
  BY <1>6 DEF KeptInv, LoopInv, Serving, Finalize, Step, sessionVars, engineVars, closeVars, history, vars
<1>7. ASSUME NEW s \in Sessions, ReleaseSlot(s) PROVE KeptInv'
  BY <1>7 DEF KeptInv, LoopInv, Serving, ReleaseSlot, Step, sessionVars, engineVars, closeVars, history, vars
<1>8. ASSUME NEW s \in Sessions, Exec(s) PROVE KeptInv'
  BY <1>8 DEF KeptInv, LoopInv, Serving, Exec, Call, sessionVars, engineVars, closeVars, history, vars
<1>9. ASSUME NEW s \in Sessions, Write(s) PROVE KeptInv'
  <2>1. early \subseteq acked /\ UNCHANGED <<early, sst, loop, lastErr, phase>>
    BY <1>9 DEF TypeOK, Write, history, closeVars
  <2>2. acked' = acked \cup {writes'}
    BY <1>9 DEF Write
  <2>3. CASE active' = active \cup {writes'} /\ jobs' = jobs
    BY <2>1, <2>2, <2>3 DEF KeptInv
  <2>4. CASE active' = {} /\ RequestFlush(active \cup {writes'})
    <3> DEFINE full == active \cup {writes'}
    <3>1. full \in (SUBSET Writes) \ {{}}
      <4>1. writes' \in Writes
        BY <1>9, ConstantFacts DEF TypeOK, Write, Writes
      <4> QED
        BY <4>1 DEF TypeOK
    <3>2. jobs \in Seq((SUBSET Writes) \ {{}})
      BY DEF TypeOK
    <3> HIDE DEF full
    <3>3. Queued(Append(jobs, full)) = Queued(jobs) \cup full
      BY <3>1, <3>2, QueuedAppend
    <3>4. CASE loop = "running"
      <4>1. jobs' = Append(jobs, full)
        BY <2>4, <3>4 DEF RequestFlush, full
      <4>2. Queued(jobs') = Queued(jobs) \cup full
        BY <3>3, <4>1
      <4> QED
        BY <2>1, <2>2, <4>2 DEF KeptInv, full
    <3>5. CASE loop # "running"
      <4>1. jobs' = jobs
        BY <2>4, <3>5 DEF RequestFlush
      <4> QED
        BY <2>1, <3>5, <4>1 DEF KeptInv
    <3> QED
      BY <3>4, <3>5
  <2> QED
    BY <1>9, <2>3, <2>4 DEF Write
<1>10. ASSUME NEW s \in Sessions, WriteRefused(s) PROVE KeptInv'
  BY <1>10 DEF KeptInv, LoopInv, Serving, WriteRefused, Step, sessionVars, engineVars, closeVars, history, vars
<1>11. ASSUME NEW c \in Closers, Close(c) PROVE KeptInv'
  <2>1. phase' = "wait" /\ UNCHANGED <<active, jobs, sst, loop, lastErr, acked>>
    BY <1>11 DEF Close, engineVars
  <2> QED
    BY <2>1 DEF KeptInv
<1>12. ASSUME NEW c \in Closers, CloseAgain(c) PROVE KeptInv'
  BY <1>12 DEF KeptInv, LoopInv, Serving, CloseAgain, sessionVars, engineVars, closeVars, history, vars
<1>13. ASSUME WaitForActive PROVE KeptInv'
  BY <1>13 DEF KeptInv, LoopInv, Serving, WaitForActive, Goto, Drained, sessionVars, engineVars, closeVars, history, vars
<1>14. ASSUME NEW s \in Sessions, ForceLoad(s) PROVE KeptInv'
  BY <1>14 DEF KeptInv, LoopInv, Serving, ForceLoad, sessionVars, engineVars, closeVars, history, vars
<1>15. ASSUME ForceStore PROVE KeptInv'
  BY <1>15 DEF KeptInv, LoopInv, Serving, ForceStore, sessionVars, engineVars, closeVars, history, vars
<1>16. ASSUME ForceDone PROVE KeptInv'
  BY <1>16 DEF KeptInv, LoopInv, Serving, ForceDone, Goto, sessionVars, engineVars, closeVars, history, vars
<1>17. ASSUME EngineSync PROVE KeptInv'
  <2>1. early \subseteq acked
    BY DEF TypeOK
  <2>2. UNCHANGED <<acked, early, sst, loop, lastErr>>
    BY <1>17 DEF EngineSync, SyncBegin, history
  <2>3. CASE NothingToFlush
    <3>1. UNCHANGED <<active, jobs>> /\ active = {}
      BY <1>17, <2>3 DEF EngineSync, SyncBegin, NothingToFlush
    <3> QED
      BY <1>17, <2>1, <2>2, <3>1 DEF EngineSync, SyncBegin, Goto, KeptInv, LoopInv, Serving
  <2>4. CASE ~NothingToFlush
    <3>1. Queued(jobs') = IF loop = "running" THEN Queued(jobs) \cup active ELSE Queued(jobs)
      <4>1. jobs \in Seq((SUBSET Writes) \ {{}}) /\ active \in (SUBSET Writes) \ {{}}
        BY <2>4 DEF TypeOK, NothingToFlush
      <4>2. Queued(Append(jobs, active)) = Queued(jobs) \cup active
        BY <4>1, QueuedAppend
      <4>3. jobs' = IF loop = "running" THEN Append(jobs, active) ELSE jobs
        BY <1>17, <2>4 DEF EngineSync, SyncBegin, RequestFlush
      <4> QED
        BY <4>2, <4>3
    <3>2. active' = {}
      BY <1>17, <2>4 DEF EngineSync, SyncBegin
    <3> QED
      BY <1>17, <2>1, <2>2, <3>1, <3>2 DEF EngineSync, SyncBegin, Goto, KeptInv, LoopInv, Serving
  <2> QED
    BY <2>3, <2>4
<1>18. ASSUME SyncReturns PROVE KeptInv'
  BY <1>18 DEF KeptInv, LoopInv, Serving, SyncReturns, Goto, sessionVars, engineVars, closeVars, history, vars
<1>19. ASSUME StopCompaction PROVE KeptInv'
  BY <1>19 DEF KeptInv, LoopInv, Serving, StopCompaction, Goto, sessionVars, engineVars, closeVars, history, vars
<1>20. ASSUME StopFlush PROVE KeptInv'
  BY <1>20 DEF KeptInv, LoopInv, Serving, StopFlush, Goto, sessionVars, engineVars, closeVars, history, vars
<1>21. ASSUME StopReturns PROVE KeptInv'
  BY <1>21 DEF KeptInv, LoopInv, Serving, StopReturns, Goto, sessionVars, engineVars, closeVars, history, vars
<1>22. ASSUME CloseTxn PROVE KeptInv'
  BY <1>22 DEF KeptInv, LoopInv, Serving, CloseTxn, Goto, sessionVars, engineVars, closeVars, history, vars
<1>23. ASSUME CloseSync PROVE KeptInv'
  <2>1. early \subseteq acked
    BY DEF TypeOK
  <2>2. UNCHANGED <<acked, early, sst, loop, lastErr>>
    BY <1>23 DEF CloseSync, SyncBegin, history
  <2>3. CASE NothingToFlush
    <3>1. UNCHANGED <<active, jobs>> /\ active = {}
      BY <1>23, <2>3 DEF CloseSync, SyncBegin, NothingToFlush
    <3> QED
      BY <1>23, <2>1, <2>2, <3>1 DEF CloseSync, SyncBegin, Goto, KeptInv, LoopInv, Serving
  <2>4. CASE ~NothingToFlush
    <3>1. Queued(jobs') = IF loop = "running" THEN Queued(jobs) \cup active ELSE Queued(jobs)
      <4>1. jobs \in Seq((SUBSET Writes) \ {{}}) /\ active \in (SUBSET Writes) \ {{}}
        BY <2>4 DEF TypeOK, NothingToFlush
      <4>2. Queued(Append(jobs, active)) = Queued(jobs) \cup active
        BY <4>1, QueuedAppend
      <4>3. jobs' = IF loop = "running" THEN Append(jobs, active) ELSE jobs
        BY <1>23, <2>4 DEF CloseSync, SyncBegin, RequestFlush
      <4> QED
        BY <4>2, <4>3
    <3>2. active' = {}
      BY <1>23, <2>4 DEF CloseSync, SyncBegin
    <3> QED
      BY <1>23, <2>1, <2>2, <3>1, <3>2 DEF CloseSync, SyncBegin, Goto, KeptInv, LoopInv, Serving
  <2> QED
    BY <2>3, <2>4
<1>24. ASSUME CloseEngine PROVE KeptInv'
  BY <1>24 DEF KeptInv, LoopInv, Serving, CloseEngine, Goto, FailureAtClose, sessionVars, engineVars, closeVars, history, vars
<1>25. ASSUME RunJob PROVE KeptInv'
  <2>1. UNCHANGED <<active, loop, phase, acked, early>>
    BY <1>25 DEF RunJob, closeVars, history
  <2>2. Queued(jobs) = Head(jobs) \cup Queued(jobs')
    BY <1>25, QueuedTail DEF RunJob, TypeOK
  <2>3. lastErr' \/ (sst' = sst \cup Head(jobs) /\ lastErr' = lastErr)
    BY <1>25 DEF RunJob
  <2> QED
    BY <2>1, <2>2, <2>3 DEF KeptInv
<1>26. ASSUME LoopEnds PROVE KeptInv'
  BY <1>26 DEF KeptInv, LoopInv, Serving, LoopEnds, LoopMayEnd, sessionVars, engineVars, closeVars, history, vars
<1>27. ASSUME vars' = vars PROVE KeptInv'
  BY <1>27 DEF KeptInv, LoopInv, Serving, sessionVars, engineVars, closeVars, history, vars
<1> QED
  BY <1>1, <1>2, <1>3, <1>4, <1>5, <1>6, <1>7, <1>8, <1>9, <1>10, <1>11, <1>12, <1>13, <1>14, <1>15, <1>16, <1>17, <1>18, <1>19, <1>20, <1>21, <1>22, <1>23, <1>24, <1>25, <1>26, <1>27, NextSteps

(***************************************************************************)
(* The theorems                                                             *)
(***************************************************************************)

\* Every reachable state has Inv.
THEOREM Invariance == Spec => []Inv
<1>1. Inv /\ [Next]_vars => Inv'
  BY TypeStep, LoopInvStep, SlotInvStep, KeptInvStep DEF Inv
<1> QED
  BY <1>1, InvInit, PTL DEF Spec

\* Once the flush goroutine is gone, and whatever the sessions did while Close ran, every write
\* acknowledged before Close was called is in a listed SST, or a flush job failed: phase 3 of
\* runShutdown hands the memtable over before phase 4 stops the loop, which empties its queue.
THEOREM EarlyWritesFlushedHolds == Spec => []EarlyWritesFlushed
<1>1. Inv => EarlyWritesFlushed
  <2> SUFFICES ASSUME Inv, loop = "gone", ~lastErr PROVE early \subseteq sst
    BY DEF EarlyWritesFlushed
  <2>1. jobs = <<>> /\ phase \notin {"open", "wait", "force", "sync"}
    BY DEF Inv, LoopInv, Serving
  <2>2. early \subseteq Queued(jobs) \cup sst
    BY <2>1 DEF Inv, KeptInv
  <2> QED
    BY <2>1, <2>2, QueuedEmpty
<1> QED
  BY <1>1, Invariance, PTL

\* The call of Close that ran the phases returns nil only when every write acknowledged before
\* it was called is in a listed SST: an error of any flush job is in lastErr, and the engine's own
\* Close reads it after the last job (LS/api.go Close).
THEOREM NilCloseLosesNothingHolds == Spec => []NilCloseLosesNothing
<1>1. Inv => NilCloseLosesNothing
  <2> SUFFICES ASSUME Inv, phase = "down", ~firstErr PROVE early \subseteq sst
    BY DEF NilCloseLosesNothing
  <2>1. jobs = <<>> /\ ~lastErr
    BY DEF Inv, LoopInv
  <2>2. early \subseteq Queued(jobs) \cup sst
    BY <2>1 DEF Inv, KeptInv
  <2> QED
    BY <2>1, <2>2, QueuedEmpty
<1> QED
  BY <1>1, Invariance, PTL

\* A WaitForActive that ends before its time is up leaves no transaction that was open when
\* Close set the flag, for any number of sessions between the flag and the slot.
THEOREM DrainedMeansEndedHolds == Spec => []DrainedMeansEnded
<1>1. Inv => DrainedMeansEnded
  BY DEF Inv, SlotInv, DrainedMeansEnded
<1> QED
  BY <1>1, Invariance, PTL
=============================================================================
