----------------------------- MODULE WalWriter -----------------------------
(***************************************************************************)
(* The WAL writer of WAL/WR over the segment files of FIL/LF: buffered      *)
(* appends, rotation, Sync, SyncAsync, Close, and what is left of the log   *)
(* after an exit or a crash, with the replay of WAL/RP at the next open.    *)
(*                                                                          *)
(* Append, Sync and Close hold w.mu, so each is one step; what interleaves  *)
(* with them is the fsync goroutines of SyncAsync, the wait inside Close,   *)
(* and a crash. A batch is appended record by record: the model also lets   *)
(* another call in between two of its records, which w.mu excludes.         *)
(*                                                                          *)
(* Files have two contents: the one the process sees, and the durable one.  *)
(* A crash keeps any part of what was written since the last fsync.         *)
(***************************************************************************)
EXTENDS WalSegment

CONSTANTS
  BufCap,         \* WALBufSize, in units
  Lens,           \* lengths of the records appended
  CpLens,         \* ... of the checkpoint records among them
  MaxRecs,        \* bound: records appended
  MaxLives,       \* bound: times the log is opened
  MaxFaults,      \* bound: calls the operating system fails
  MaxAsync        \* bound: SyncAsync goroutines at a time

ASSUME WriterAssumption ==
  /\ BufCap \in Nat /\ Lens \subseteq 1..BufCap /\ \A l \in Lens : l < SegCap
  /\ CpLens \subseteq Lens
  /\ MaxRecs \in Nat /\ MaxLives \in Nat \ {0} /\ MaxFaults \in Nat /\ MaxAsync \in Nat

VARIABLES
  cache, disk,    \* content of each segment file, as seen and as durable
  state,          \* open, closing (Close is waiting), closed, down (no process)
  seg,            \* number of the active segment, NoSeg before the first Append
  writeOff, buf,  \* its logical length, and the units not yet written to it
  fh,             \* is its file handle open?
  synced,         \* "highest LSN that has been fsynced"
  inflight,       \* goroutines of SyncAsync
  life,           \* history: which opening of the log this is
  faults,         \* history: failures so far
  recs,           \* history: every record accepted by Append, in order
  acked,          \* history: the records their appender was told are durable
  delivered       \* history: what the last replay passed to the callbacks

vars == <<cache, disk, state, seg, writeOff, buf, fh, synced, inflight, life, faults,
          recs, acked, delivered>>

LSNs == 0..LSNFor(MaxSeg, SegCap)   \* from the start of the log to the end of the last segment
NoSeg == -1
Stray == -2       \* a descriptor number that was closed and now names another file
BadFd == -3       \* ... or names nothing: EBADF

Init ==
  /\ cache = [n \in Segs |-> <<>>] /\ disk = [n \in Segs |-> <<>>]
  /\ state = "open" /\ seg = NoSeg /\ writeOff = 0 /\ buf = <<>> /\ fh = FALSE
  /\ synced = 0 /\ inflight = {}
  /\ life = 1 /\ faults = 0 /\ recs = <<>> /\ acked = {} /\ delivered = <<>>

-----------------------------------------------------------------------------
(* The file with the buffer flushed into it, whole or cut short. *)
FlushedAtEnd == [cache EXCEPT ![seg] = Pwrite(@, writeOff, buf)]
Flushed      == [cache EXCEPT ![seg] = Pwrite(@, writeOff - Len(buf), buf)]
FlushedTo(k) == [cache EXCEPT ![seg] = Pwrite(@, writeOff - Len(buf), SubSeq(buf, 1, k))]
CanFlush == buf = <<>> \/ fh
AfterFlush == IF buf = <<>> THEN cache ELSE Flushed

\* fsync of the active segment after a flush.
FsyncSkipped == disk
Fsynced      == [disk EXCEPT ![seg] = Flushed[seg]]

Fault == faults < MaxFaults /\ faults' = faults + 1

\* The records of this life, and those of them that end at or below an LSN.
Mine       == {i \in DOMAIN recs : recs[i].life = life}
EndLSN(i)  == LSNFor(recs[i].seg, recs[i].off + recs[i].len)
MineTo(lsn) == {i \in Mine : EndLSN(i) <= lsn}

Later(lsn) == IF lsn > synced THEN lsn ELSE synced

(***************************************************************************)
(* Append (wr.go)                                                           *)
(***************************************************************************)

\* A checkpoint record carries the LSN of some record of the log; others carry none.
CpValues(len) ==
  {NoCp} \cup (IF len \in CpLens THEN {LSNFor(recs[i].seg, recs[i].off) : i \in Mine} ELSE {})

Fits(len)    == writeOff + len <= SegCap
FitsBuf(len) == Len(buf) + len <= BufCap

\* The record goes into the buffer b at offset off of segment n.
Accept(n, off, b, len, cp) ==
  /\ buf' = b \o Units(Len(recs) + 1, len, cp)
  /\ writeOff' = off + len
  /\ recs' = Append(recs, [life |-> life, seg |-> n, off |-> off, len |-> len, cp |-> cp])

\* openSegmentLocked: the file is opened without truncation, and only its header written.
OpenSegment(files, n) ==
  /\ n \in Segs
  /\ cache' = [files EXCEPT ![n] = Pwrite(@, 0, <<Header>>)]
  /\ seg' = n /\ fh' = TRUE

\* Rotation goes on to the next number.
NextSeg == seg + 1

\* The old segment's descriptor is closed although fsync goroutines may still hold its
\* number; the number can go to the file opened next, to another file, or to none.
Retarget(to) ==
  inflight' = {IF f.fd = seg THEN [f EXCEPT !.fd = to] ELSE f : f \in inflight}

AppendFirst(len, cp) ==
  /\ state = "open" /\ seg = NoSeg
  /\ OpenSegment(cache, 0)
  /\ Accept(0, 1, <<>>, len, cp)
  /\ UNCHANGED <<disk, state, synced, inflight, life, faults, acked, delivered>>

AppendBuffered(len, cp) ==
  /\ state = "open" /\ seg # NoSeg /\ Fits(len) /\ FitsBuf(len)
  /\ Accept(seg, writeOff, buf, len, cp)
  /\ UNCHANGED <<cache, disk, state, seg, fh, synced, inflight, life, faults, acked, delivered>>

\* The buffer overflows: flush it first.
AppendOverflow(len, cp) ==
  /\ state = "open" /\ seg # NoSeg /\ Fits(len) /\ ~ FitsBuf(len) /\ CanFlush
  /\ cache' = AfterFlush
  /\ Accept(seg, writeOff, <<>>, len, cp)
  /\ UNCHANGED <<disk, state, seg, fh, synced, inflight, life, faults, acked, delivered>>

\* The segment is full: flush, close it without an fsync, open the next.
AppendRotate(len, cp) ==
  /\ state = "open" /\ seg # NoSeg /\ ~ Fits(len) /\ CanFlush
  /\ OpenSegment(AfterFlush, NextSeg)
  /\ \E to \in {NextSeg, Stray, BadFd} : Retarget(to)
  /\ Accept(NextSeg, 1, <<>>, len, cp)
  /\ UNCHANGED <<disk, state, synced, life, faults, acked, delivered>>

\* The next segment cannot be opened: the old one stays active with its handle closed.
AppendRotateFails(len) ==
  /\ state = "open" /\ seg # NoSeg /\ ~ Fits(len) /\ CanFlush
  /\ Fault
  /\ cache' = AfterFlush /\ buf' = <<>> /\ fh' = FALSE
  /\ \E to \in {Stray, BadFd} : Retarget(to)
  /\ UNCHANGED <<disk, state, seg, writeOff, synced, life, recs, acked, delivered>>

\* pwrite fails or is short, in Append, Sync or SyncAsync: an error, and the buffer stays.
FlushFails ==
  /\ state = "open" /\ buf # <<>> /\ fh
  /\ Fault
  /\ \E k \in 0..(Len(buf) - 1) : cache' = FlushedTo(k)
  /\ UNCHANGED <<disk, state, seg, writeOff, buf, fh, synced, inflight, life, recs, acked, delivered>>

(***************************************************************************)
(* Sync and SyncAsync (wr.go)                                               *)
(***************************************************************************)

\* An empty buffer: nil at once, whatever became of the units flushed earlier.
SyncNothing ==
  /\ state = "open" /\ buf = <<>>
  /\ acked' = acked \cup Mine
  /\ UNCHANGED <<cache, disk, state, seg, writeOff, buf, fh, synced, inflight, life, faults,
                 recs, delivered>>

Sync ==
  /\ state = "open" /\ buf # <<>> /\ fh
  /\ cache' = Flushed /\ buf' = <<>>
  /\ disk' = Fsynced
  /\ synced' = Later(LSNFor(seg, writeOff))
  /\ acked' = acked \cup Mine
  /\ UNCHANGED <<state, seg, writeOff, fh, inflight, life, faults, recs, delivered>>

\* The flush succeeds and the fsync does not: an error, with the buffer already empty.
SyncFsyncFails ==
  /\ state = "open" /\ buf # <<>> /\ fh
  /\ Fault
  /\ cache' = Flushed /\ buf' = <<>>
  /\ UNCHANGED <<disk, state, seg, writeOff, fh, synced, inflight, life, recs, acked, delivered>>

\* Flush under the lock, fsync in a goroutine.
SyncAsync ==
  /\ state = "open" /\ buf # <<>> /\ fh
  /\ Cardinality(inflight) < MaxAsync
  /\ cache' = Flushed /\ buf' = <<>>
  /\ inflight' = inflight \cup {[fd |-> seg, end |-> LSNFor(seg, writeOff), st |-> "fsync"]}
  /\ UNCHANGED <<disk, state, seg, writeOff, fh, synced, life, faults, recs, acked, delivered>>

\* With an empty buffer the result is the synced LSN as it stands.
SyncAsyncNothing ==
  /\ state = "open" /\ seg # NoSeg /\ buf = <<>>
  /\ acked' = acked \cup MineTo(synced)
  /\ UNCHANGED <<cache, disk, state, seg, writeOff, buf, fh, synced, inflight, life, faults,
                 recs, delivered>>

\* A goroutine leaves the WaitGroup when it ends.
StillCounted(f) == inflight
Without(f)      == inflight \ {f}

\* The goroutine's fsync succeeds on whatever file its descriptor now names; then it
\* compares its LSN with synced, and may still have to store it.
AsyncFsync(f) ==
  /\ f.st = "fsync" /\ f.fd # BadFd
  /\ disk' = IF f.fd \in Segs THEN [disk EXCEPT ![f.fd] = cache[f.fd]] ELSE disk
  /\ inflight' = (inflight \ {f}) \cup {[f EXCEPT !.st = IF f.end > synced THEN "store" ELSE "send"]}
  /\ UNCHANGED <<cache, state, seg, writeOff, buf, fh, synced, life, faults, recs, acked, delivered>>

AsyncFails(f) ==
  /\ f.st = "fsync"
  /\ IF f.fd = BadFd THEN UNCHANGED faults ELSE Fault
  /\ inflight' = Without(f)
  /\ UNCHANGED <<cache, disk, state, seg, writeOff, buf, fh, synced, life, recs, acked, delivered>>

\* The unsynchronised store, and the result on the channel.
AsyncDone(f) ==
  /\ f.st \in {"store", "send"}
  /\ synced' = IF f.st = "store" THEN f.end ELSE synced
  /\ inflight' = Without(f)
  /\ acked' = acked \cup MineTo(f.end)
  /\ UNCHANGED <<cache, disk, state, seg, writeOff, buf, fh, life, faults, recs, delivered>>

(***************************************************************************)
(* Close, exit, crash, and the next open                                    *)
(***************************************************************************)

\* The CAS of closed; with goroutines in flight w.mu is released while Close waits.
CloseBegin ==
  /\ state = "open"
  /\ state' = IF seg = NoSeg THEN "closed" ELSE "closing"
  /\ UNCHANGED <<cache, disk, seg, writeOff, buf, fh, synced, inflight, life, faults, recs,
                 acked, delivered>>

WaitSkipped     == TRUE
NoFsyncInFlight == inflight = {}

\* The rest of closeLocked. A failed flush or fsync is only reported: the segment is let
\* go, and synced moves on, all the same.
CloseEnd ==
  /\ state = "closing" /\ NoFsyncInFlight
  /\ \/ /\ buf = <<>>
        /\ acked' = IF fh THEN acked \cup Mine ELSE acked
        /\ UNCHANGED <<cache, disk, synced, faults>>
     \/ /\ buf # <<>> /\ fh
        /\ cache' = Flushed
        /\ disk' = Fsynced
        /\ synced' = Later(LSNFor(seg, writeOff))
        /\ acked' = acked \cup Mine
        /\ UNCHANGED faults
     \/ /\ buf # <<>>
        /\ IF fh THEN Fault ELSE UNCHANGED faults
        /\ \E k \in (IF fh THEN 0..Len(buf) ELSE {0}) : cache' = FlushedTo(k)
        /\ synced' = Later(LSNFor(seg, writeOff))
        /\ UNCHANGED <<disk, acked>>
  /\ state' = "closed"
  /\ seg' = NoSeg /\ writeOff' = 0 /\ buf' = <<>> /\ fh' = FALSE
  /\ UNCHANGED <<inflight, life, recs, delivered>>

Gone == /\ state' = "down" /\ seg' = NoSeg /\ writeOff' = 0 /\ buf' = <<>> /\ fh' = FALSE
        /\ synced' = 0 /\ inflight' = {}

\* The process ends after Close; the system has written its pages back, or not yet.
Exit ==
  /\ state = "closed"
  /\ disk' \in {disk, cache}
  /\ Gone
  /\ UNCHANGED <<cache, life, faults, recs, acked, delivered>>

\* The units of segment n that a crash may lose.
Dirty ==
  {x \in Segs \X (1..SegCap) :
     LET n == x[1]  i == x[2] IN
     i <= Len(cache[n]) /\ (i > Len(disk[n]) \/ disk[n][i] # cache[n][i])}

\* What a crash leaves of segment n when it keeps the units of kept.
Survivor(n, kept) ==
  LET top == Max({0} \cup {i \in 1..SegCap : <<n, i>> \in kept})
  IN  [i \in 1..(IF top > Len(disk[n]) THEN top ELSE Len(disk[n])) |->
         IF <<n, i>> \in kept THEN cache[n][i]
         ELSE IF i <= Len(disk[n]) THEN disk[n][i] ELSE Zero]

\* The machine stops.
Crash ==
  /\ \E kept \in SUBSET Dirty : cache' = [n \in Segs |-> Survivor(n, kept)]
  /\ disk' = cache'
  /\ Gone
  /\ UNCHANGED <<life, faults, recs, acked, delivered>>

\* The next open: replay what is there, truncate before the checkpoint, and start a new
\* writer, which knows nothing of the segments it finds.
Reopen ==
  /\ state = "down" /\ life < MaxLives
  /\ \E garble \in {"corrupt", "truncated"} :
       LET r == Replay(cache, garble) IN
       /\ delivered' = r.recs
       /\ \/ (~ r.ok \/ r.cp = NoCp) /\ cache' = cache
          \/ /\ r.ok
             /\ \E lsn \in LSNs : lsn = r.cp /\ cache' = TruncateBeforeCheckpoint(cache, lsn)
  /\ life' = life + 1 /\ state' = "open"
  /\ UNCHANGED <<disk, seg, writeOff, buf, fh, synced, inflight, faults, recs, acked>>
-----------------------------------------------------------------------------
AppendRecord(len, cp) ==
  /\ Len(recs) < MaxRecs
  /\ \/ AppendFirst(len, cp) \/ AppendBuffered(len, cp)
     \/ AppendOverflow(len, cp) \/ AppendRotate(len, cp)

AsyncStep == \E f \in inflight : AsyncFsync(f) \/ AsyncFails(f) \/ AsyncDone(f)

Next ==
  \/ \E len \in Lens : (\E cp \in CpValues(len) : AppendRecord(len, cp)) \/ AppendRotateFails(len)
  \/ FlushFails
  \/ SyncNothing \/ Sync \/ SyncFsyncFails
  \/ SyncAsync \/ SyncAsyncNothing \/ AsyncStep
  \/ CloseBegin \/ CloseEnd
  \/ Exit \/ Crash \/ Reopen

\* Goroutines run to their end, and so does a Close that was called.
Fairness == WF_vars(AsyncStep) /\ WF_vars(CloseEnd)

Spec == Init /\ [][Next]_vars
FairSpec == Spec /\ Fairness
-----------------------------------------------------------------------------
(***************************************************************************)
(* Properties                                                               *)
(***************************************************************************)

UnitType == [id : 0..MaxRecs, part : 0..SegCap, len : 0..SegCap, cp : LSNs \cup {NoCp}]
Content  == {c \in Seq(UnitType) : Len(c) <= SegCap}
RecordType == [life : 1..MaxLives, seg : Segs, off : 1..SegCap, len : Lens, cp : LSNs \cup {NoCp}]
FsyncType  == [fd : Segs \cup {Stray, BadFd}, end : LSNs, st : {"fsync", "store", "send"}]

\* Every variable has its type.
TypeOK ==
  /\ cache \in [Segs -> Content] /\ disk \in [Segs -> Content]
  /\ state \in {"open", "closing", "closed", "down"}
  /\ seg \in Segs \cup {NoSeg}
  /\ writeOff \in 0..SegCap
  /\ buf \in Seq(UnitType) /\ Len(buf) <= BufCap
  /\ fh \in BOOLEAN /\ synced \in LSNs
  /\ inflight \subseteq FsyncType
  /\ life \in 1..MaxLives /\ faults \in 0..MaxFaults
  /\ recs \in Seq(RecordType) /\ Len(recs) <= MaxRecs
  /\ acked \subseteq DOMAIN recs

\* The content of segment n once the buffer is flushed.
View(n) == IF n = seg /\ buf # <<>> THEN Pwrite(cache[n], writeOff - Len(buf), buf) ELSE cache[n]

\* Every record accepted in this life lies where its LSN says, in the file or still in the
\* buffer, through overflow flushes, rotations, failed and short writes, and rotations
\* that failed half way (Append, flushBufferLocked, rotateLocked).
RecordsInPlace ==
  state = "open" =>
    \A i \in Mine : \A k \in 1..recs[i].len :
      View(recs[i].seg)[recs[i].off + k] = Unit(i, k, recs[i].len, recs[i].cp)

\* LSNs grow, and no two records of one life overlap: each starts at or after the end of
\* every earlier one, also across a rotation (R04, Append).
LsnsIncrease ==
  \A i, j \in DOMAIN recs :
    i < j /\ recs[i].life = recs[j].life => EndLSN(i) <= LSNFor(recs[j].seg, recs[j].off)

\* The log in memory and in the files: variables keep their types, a record is where its LSN
\* says it is, and LSNs order the records (wr.go Append, flushBufferLocked, rotateLocked).
LogWellFormed == TypeOK /\ RecordsInPlace /\ LsnsIncrease

\* Record i is wholly in content c of its segment.
WholeIn(files, i) ==
  \A k \in 1..recs[i].len :
    /\ recs[i].off + k <= Len(files[recs[i].seg])
    /\ files[recs[i].seg][recs[i].off + k] = Unit(i, k, recs[i].len, recs[i].cp)

\* As long as no call has failed, no goroutine is in flight, the log has not rotated and
\* was not opened before, a record its appender was told is durable is durable (Sync,
\* SyncAsync, Close).
SyncDurable ==
  life = 1 /\ state # "down" /\ faults = 0 /\ inflight = {} /\ (\A i \in DOMAIN recs : recs[i].seg = 0)
    => \A i \in acked : WholeIn(disk, i)

\* Close lets go of the segment only when no fsync goroutine is left (closeLocked).
CloseWaits == state = "closed" => inflight = {}

\* A replay delivers records of the log, each once and in LSN order, whatever a crash left of
\* the files and whatever an earlier life left behind the end of this one's log (Replay,
\* forEachRecord).
ReplayOrdered ==
  /\ \A i \in DOMAIN delivered : delivered[i].id \in DOMAIN recs /\ delivered[i].lsn \in LSNs
  /\ \A i, j \in DOMAIN delivered :
       i < j => delivered[i].lsn < delivered[j].lsn /\ delivered[i].id # delivered[j].id

\* Content c is a header and whole records, or nothing.
AllWhole(c) ==
  /\ \A o \in 1..(Len(c) - 1) : \E p \in 1..o : WholeAt(c, p) /\ o < p + c[p + 1].len
  /\ c # <<>> => c[1] = Header

Intact(c) == AllWhole(c) /\ Len(c) <= 1 + Chunk
Starts(c) == {p \in 1..(Len(c) - 1) : c[p + 1].part = 1}

\* The replay at open is complete on files that fit its read buffer and are intact: it
\* delivers every record that ends at or after the last checkpoint's LSN, in whichever
\* segment, and no other (Replay, LastCheckpoint, replaySegment).
ReplayComplete ==
  [][ state = "down" /\ state' = "open" /\ (\A n \in Segs : Intact(cache[n])) =>
        LET cps == {x \in Segs \X (1..SegCap) :
                      x[2] \in Starts(cache[x[1]]) /\ cache[x[1]][x[2] + 1].cp # NoCp}
            lastSeg == Max({x[1] : x \in cps})
            last == Max({x[2] : x \in {y \in cps : y[1] = lastSeg}})
            min == IF cps = {} THEN 0 ELSE cache[lastSeg][last + 1].cp
        IN  {delivered'[i].id : i \in DOMAIN delivered'} =
              UNION {{cache[n][p + 1].id : p \in {q \in Starts(cache[n]) :
                        /\ cache[n][q + 1].cp = NoCp
                        /\ LSNFor(n, q + cache[n][q + 1].len) >= min}} : n \in Segs}
    ]_vars

\* A Close that was called returns, or the machine stops (Close, SyncAsync's goroutines).
CloseReturns == state = "closing" ~> state # "closing"
=============================================================================
