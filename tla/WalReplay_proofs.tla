-------------------------- MODULE WalReplay_proofs --------------------------
(***************************************************************************)
(* What a replay of the log delivers, for every size of the segments and of *)
(* the replayer's buffer, and after any crashes: records of the log, each   *)
(* once and in LSN order; and on intact files every one it should.          *)
(*                                                                          *)
(* The invariant is that every unit of every file is where the record it    *)
(* names was put (Placed): so what a scan reads in order of offset has its  *)
(* own LSN, and no record is met twice. The loops of forEachRecord,         *)
(* replaySegment and Replay are recursive functions on 0..n; Loop and       *)
(* LoopExists say what such a function is, from what each step keeps.       *)
(***************************************************************************)
EXTENDS WalWriter_proofs, Loops

(***************************************************************************)
(* Where the units of the log may lie                                       *)
(***************************************************************************)

\* Unit u may lie at index o of segment n: it was never written, it is the header, or it is
\* a part of the record of the log it names, in its place.
At(log, n, o, u) ==
  \/ u = Zero
  \/ o = 1 /\ u = Header
  \/ /\ u.id \in DOMAIN log /\ log[u.id].seg = n
     /\ u.part \in 1..log[u.id].len /\ o = log[u.id].off + u.part
     /\ u.len = log[u.id].len /\ u.cp = log[u.id].cp

Placed(log, n, c) == \A o \in 1..Len(c) : At(log, n, o, c[o])

\* The buffer's units have their places in the active segment.
BufPlaced == seg # NoSeg => \A j \in 1..Len(buf) : At(recs, seg, writeOff - Len(buf) + j, buf[j])

PlacedInv == BufPlaced /\ \A n \in Segs : Placed(recs, n, cache[n]) /\ Placed(recs, n, disk[n])

\* Writing units in their places, cutting a file and filling it with zeros keep it so.
LEMMA PwritePlaced ==
  ASSUME NEW log, NEW n, NEW c \in Seq(UnitType), NEW us \in Seq(UnitType), NEW off \in Nat,
         Placed(log, n, c), \A j \in 1..Len(us) : At(log, n, off + j, us[j])
  PROVE  Placed(log, n, Pwrite(c, off, us))
<1>1. Len(us) \in Nat /\ Len(c) \in Nat
  OBVIOUS
<1>2. Len(Pwrite(c, off, us)) = Longer(off + Len(us), Len(c))
  BY PwriteProps
<1> SUFFICES ASSUME NEW o \in 1..Longer(off + Len(us), Len(c))
             PROVE  At(log, n, o, Pwrite(c, off, us)[o])
  BY <1>2 DEF Placed
<1>3. o \in Nat /\ o >= 1
  BY <1>1 DEF Longer
<1>4. Pwrite(c, off, us)[o] = IF o > off /\ o <= off + Len(us) THEN us[o - off]
                              ELSE IF o <= Len(c) THEN c[o] ELSE Zero
  BY PwriteProps
<1>5. CASE o > off /\ o <= off + Len(us)
  <2>1. o - off \in 1..Len(us) /\ off + (o - off) = o
    BY <1>1, <1>3, <1>5
  <2> QED
    BY <1>4, <1>5, <2>1
<1>6. CASE ~ (o > off /\ o <= off + Len(us)) /\ o <= Len(c)
  BY <1>1, <1>3, <1>4, <1>6 DEF Placed
<1>7. CASE ~ (o > off /\ o <= off + Len(us)) /\ ~ (o <= Len(c))
  BY <1>4, <1>7 DEF At
<1> QED
  BY <1>5, <1>6, <1>7

LEMMA FtruncatePlaced ==
  ASSUME NEW log, NEW n, NEW c \in Content, NEW size \in 0..SegCap, Placed(log, n, c)
  PROVE  Placed(log, n, Ftruncate(c, size))
<1>1. Len(c) \in Nat /\ size \in Nat
  BY ConstantFacts DEF Content
<1>2. Ftruncate(c, size) = [i \in 1..size |-> IF i <= Len(c) THEN c[i] ELSE Zero]
  BY DEF Ftruncate
<1>3. DOMAIN Ftruncate(c, size) = 1..size
  BY <1>2
<1>4. Ftruncate(c, size) \in Seq(UnitType)
  BY FtruncateType DEF Content
<1>5. Len(Ftruncate(c, size)) = size
  BY <1>1, <1>3, <1>4, LenProperties
<1> SUFFICES ASSUME NEW o \in 1..size PROVE At(log, n, o, Ftruncate(c, size)[o])
  BY <1>5 DEF Placed
<1>6. Ftruncate(c, size)[o] = IF o <= Len(c) THEN c[o] ELSE Zero
  BY <1>2
<1>7. CASE o <= Len(c)
  BY <1>1, <1>6, <1>7 DEF Placed
<1>8. CASE ~ (o <= Len(c))
  BY <1>6, <1>8 DEF At
<1> QED
  BY <1>7, <1>8

\* What a crash leaves is units of the file as seen and of the durable one, in their places.
LEMMA SurvivorPlaced ==
  ASSUME TypeOK, PlacedInv, NEW n \in Segs, NEW kept \in SUBSET Dirty
  PROVE  Placed(recs, n, Survivor(n, kept))
<1> DEFINE A == {0} \cup {i \in 1..SegCap : <<n, i>> \in kept}
           top == Max(A)
           size == IF top > Len(disk[n]) THEN top ELSE Len(disk[n])
<1>1. /\ Survivor(n, kept) \in Seq(UnitType) /\ Len(disk[n]) \in Nat /\ Len(cache[n]) \in Nat
  <2>1. cache[n] \in Content /\ disk[n] \in Content /\ Survivor(n, kept) \in Content
    BY SurvivorType DEF TypeOK
  <2> QED
    BY <2>1 DEF Content
<1>2. top \in 0..SegCap
  <2>1. A \in SUBSET (0..SegCap) /\ A # {} /\ SegCap \in Nat
    BY ConstantFacts
  <2> HIDE DEF A
  <2> QED
    BY <2>1, MaxOfSet
<1> HIDE DEF top
<1>3. size \in Nat
  BY <1>1, <1>2, ConstantFacts
<1>4. Survivor(n, kept) = [i \in 1..size |-> IF <<n, i>> \in kept THEN cache[n][i]
                                           ELSE IF i <= Len(disk[n]) THEN disk[n][i] ELSE Zero]
  BY DEF Survivor, top
<1> HIDE DEF size
<1>5. Len(Survivor(n, kept)) = size
  BY <1>1, <1>3, <1>4, LenProperties
<1> SUFFICES ASSUME NEW o \in 1..size PROVE At(recs, n, o, Survivor(n, kept)[o])
  BY <1>5 DEF Placed
<1>6. CASE <<n, o>> \in kept
  <2>1. <<n, o>> \in Dirty
    BY <1>6
  <2>2. o \in 1..Len(cache[n])
    BY <1>1, <1>3, <2>1 DEF Dirty
  <2>3. Survivor(n, kept)[o] = cache[n][o]
    BY <1>4, <1>6
  <2> QED
    BY <2>2, <2>3 DEF PlacedInv, Placed
<1>7. CASE <<n, o>> \notin kept /\ o <= Len(disk[n])
  <2>1. Survivor(n, kept)[o] = disk[n][o] /\ o \in 1..Len(disk[n])
    BY <1>1, <1>3, <1>4, <1>7
  <2> QED
    BY <2>1 DEF PlacedInv, Placed
<1>8. CASE <<n, o>> \notin kept /\ ~ (o <= Len(disk[n]))
  BY <1>4, <1>8 DEF At
<1> QED
  BY <1>6, <1>7, <1>8

\* The truncation at open.
LEMMA TruncatePlaced ==
  ASSUME NEW log, NEW files \in [Segs -> Content], NEW lsn \in LSNs,
         \A n \in Segs : Placed(log, n, files[n]), NEW n \in Segs
  PROVE  Placed(log, n, TruncateBeforeCheckpoint(files, lsn)[n])
<1> DEFINE back == OffsetOf(lsn) = 0 /\ SegmentOf(lsn) > 0
           s == IF back THEN SegmentOf(lsn) - 1 ELSE SegmentOf(lsn)
           size == IF back THEN SegCap ELSE OffsetOf(lsn)
           e(m) == CASE m < s -> <<>>
                     [] m = s /\ size > 0 /\ files[m] # <<>> -> Ftruncate(files[m], size)
                     [] OTHER -> files[m]
<1>1. size \in 0..SegCap
  <2>1. lsn \in Nat /\ SegCap \in Nat /\ SegCap > 0
    BY ConstantFacts DEF LSNs, LSNFor, Segs
  <2>2. OffsetOf(lsn) \in 0..SegCap
    BY <2>1 DEF OffsetOf
  <2> QED
    BY <2>1, <2>2
<1>2. Placed(log, n, <<>>)
  BY DEF Placed
<1>3. TruncateBeforeCheckpoint(files, lsn) = [m \in Segs |-> e(m)]
  BY DEF TruncateBeforeCheckpoint
<1> HIDE DEF size
<1>4. Placed(log, n, Ftruncate(files[n], size))
  BY <1>1, FtruncatePlaced
<1>5. Placed(log, n, e(n))
  BY <1>2, <1>4
<1> HIDE DEF e
<1> QED
  BY <1>3, <1>5

\* Flushes, whole or cut short.
LEMMA FlushPlaced ==
  ASSUME TypeOK, SegInv, seg # NoSeg, PlacedInv, NEW n \in Segs
  PROVE  /\ Placed(recs, n, AfterFlush[n])
         /\ buf # <<>> => Placed(recs, n, Flushed[n])
         /\ \A k \in 0..Len(buf) : Placed(recs, n, FlushedTo(k)[n])
<1>1. /\ seg \in Segs /\ writeOff \in 0..SegCap /\ buf \in Seq(UnitType)
      /\ cache \in [Segs -> Content] /\ cache[seg] \in Seq(UnitType)
      /\ Len(buf) \in Nat /\ writeOff - Len(buf) \in Nat
  BY FlushParts
<1>2. /\ Placed(recs, n, cache[n]) /\ Placed(recs, seg, cache[seg])
      /\ \A j \in 1..Len(buf) : At(recs, seg, writeOff - Len(buf) + j, buf[j])
  BY <1>1 DEF PlacedInv, BufPlaced
<1>3. Placed(recs, seg, Pwrite(cache[seg], writeOff - Len(buf), buf))
  BY <1>1, <1>2, PwritePlaced
<1>4. Placed(recs, n, Flushed[n])
  BY <1>1, <1>2, <1>3 DEF Flushed
<1>5. ASSUME NEW k \in 0..Len(buf) PROVE Placed(recs, n, FlushedTo(k)[n])
  <2> DEFINE vs == SubSeq(buf, 1, k)
  <2>1. vs \in Seq(UnitType) /\ Len(vs) = k /\ \A i \in 1..Len(vs) : vs[i] = buf[i]
    BY <1>1
  <2>2. \A j \in 1..Len(vs) : At(recs, seg, (writeOff - Len(buf)) + j, vs[j])
    BY <1>1, <1>2, <2>1
  <2>3. FlushedTo(k) = [cache EXCEPT ![seg] = Pwrite(@, writeOff - Len(buf), vs)]
    BY DEF FlushedTo
  <2> HIDE DEF vs
  <2>4. Placed(recs, seg, Pwrite(cache[seg], writeOff - Len(buf), vs))
    BY <1>1, <1>2, <2>1, <2>2, PwritePlaced
  <2> QED
    BY <1>1, <1>2, <2>3, <2>4
<1> QED
  BY <1>2, <1>4, <1>5 DEF AfterFlush

(***************************************************************************)
(* Every step keeps the units in their places                               *)
(***************************************************************************)

\* A record that is added leaves the older ones' units where they are.
LEMMA AtGrows ==
  ASSUME NEW len, NEW cp, LogGrown(len, cp), NEW n, NEW o, NEW u, At(recs, n, o, u)
  PROVE  At(recs, n, o, u)'
BY DEF At, LogGrown

LEMMA PlacedGrows ==
  ASSUME NEW len, NEW cp, LogGrown(len, cp), NEW n, NEW c, Placed(recs, n, c)
  PROVE  Placed(recs', n, c)
BY DEF Placed, At, LogGrown

\* The units of the added record are in their places.
LEMMA AddedPlaced ==
  ASSUME NEW len \in Lens, NEW cp, LogGrown(len, cp), NEW k \in 1..len
  PROVE  At(recs', seg', writeOff' - len + k, Unit(Len(recs) + 1, k, len, cp))
<1>1. len \in Nat
  BY ConstantFacts
<1>2. Len(recs) + 1 \in DOMAIN recs'
  BY DEF LogGrown
<1>3. recs'[Len(recs) + 1] = NewRecord(seg', writeOff' - len, len, cp)
  BY DEF LogGrown
<1> DEFINE i == Len(recs) + 1
           r == recs'[i]
<1>4. r.seg = seg' /\ r.off = writeOff' - len /\ r.len = len /\ r.cp = cp
  BY <1>3 DEF NewRecord
<1>5. Unit(i, k, len, cp).id = i /\ Unit(i, k, len, cp).part = k
      /\ Unit(i, k, len, cp).len = len /\ Unit(i, k, len, cp).cp = cp
  BY DEF Unit
<1> QED
  BY <1>1, <1>2, <1>4, <1>5 DEF At

LEMMA RestartedPlaced ==
  ASSUME NEW len \in Lens, NEW cp, LogGrown(len, cp), BufferRestarted(len, cp)
  PROVE  BufPlaced'
<1>1. Len(buf') = len /\ \A k \in 1..len : buf'[k] = Unit(Len(recs) + 1, k, len, cp)
  BY DEF BufferRestarted
<1> QED
  BY <1>1, AddedPlaced DEF BufPlaced

LEMMA GrownPlaced ==
  ASSUME Shape, PlacedInv, seg # NoSeg, NEW len \in Lens, NEW cp, LogGrown(len, cp),
         BufferGrown(len, cp), seg' = seg, writeOff' = writeOff + len
  PROVE  BufPlaced'
<1>1. /\ writeOff \in Nat /\ Len(buf) \in Nat /\ len \in Nat
  BY FlushParts, ConstantFacts DEF Shape
<1>2. Len(buf') = Len(buf) + len
  BY DEF BufferGrown
<1> SUFFICES ASSUME NEW j \in 1..Len(buf') PROVE At(recs', seg', writeOff' - Len(buf') + j, buf'[j])
  BY DEF BufPlaced
<1>3. CASE j <= Len(buf)
  <2>1. j \in 1..Len(buf) /\ buf'[j] = buf[j]
    BY <1>1, <1>2, <1>3 DEF BufferGrown
  <2>2. writeOff' - Len(buf') + j = writeOff - Len(buf) + j
    BY <1>1, <1>2
  <2>3. At(recs, seg, writeOff - Len(buf) + j, buf[j])
    BY <2>1 DEF PlacedInv, BufPlaced
  <2> QED
    BY <2>1, <2>2, <2>3 DEF At, LogGrown
<1>4. CASE j > Len(buf)
  <2> DEFINE k == j - Len(buf)
  <2>1. k \in 1..len /\ j = Len(buf) + k /\ writeOff' - Len(buf') + j = writeOff' - len + k
    BY <1>1, <1>2, <1>4
  <2>2. buf'[Len(buf) + k] = Unit(Len(recs) + 1, k, len, cp)
    BY <2>1 DEF BufferGrown
  <2> HIDE DEF k
  <2> QED
    BY <2>1, <2>2, AddedPlaced
<1> QED
  BY <1>1, <1>3, <1>4

\* The header is in its place at the start of a segment that is opened.
LEMMA OpenPlaced ==
  ASSUME NEW files \in [Segs -> Content], NEW n \in Segs,
         cache' = [files EXCEPT ![n] = Pwrite(@, 0, <<Header>>)],
         NEW log, \A m \in Segs : Placed(log, m, files[m])
  PROVE  \A m \in Segs : Placed(log, m, cache'[m])
<1> DEFINE h == <<Header>>
<1>1. files[n] \in Seq(UnitType)
  BY DEF Content
<1>2. h \in Seq(UnitType) /\ Len(h) = 1 /\ h[1] = Header
  BY SpecialUnits
<1>3. cache' = [files EXCEPT ![n] = Pwrite(@, 0, h)]
  OBVIOUS
<1> HIDE DEF h
<1>4. \A j \in 1..Len(h) : At(log, n, 0 + j, h[j])
  BY <1>2 DEF At
<1>5. Placed(log, n, Pwrite(files[n], 0, h))
  BY <1>1, <1>2, <1>4, PwritePlaced
<1> QED
  BY <1>3, <1>5

\* After a record was accepted; and after a step that accepts none.
LEMMA PlacedAppend ==
  ASSUME NEW len, NEW cp, LogGrown(len, cp), PlacedInv, BufPlaced', disk' = disk,
         \A n \in Segs : Placed(recs, n, cache'[n])
  PROVE  PlacedInv'
<1>1. \A n \in Segs : Placed(recs', n, cache'[n])
  BY PlacedGrows
<1>2. \A n \in Segs : Placed(recs', n, disk'[n])
  BY PlacedGrows DEF PlacedInv
<1> QED
  BY <1>1, <1>2 DEF PlacedInv

LEMMA PlacedKeep ==
  ASSUME PlacedInv, recs' = recs, \A n \in Segs : Placed(recs, n, cache'[n]),
         \A n \in Segs : Placed(recs, n, disk'[n]),
         buf' = <<>> \/ UNCHANGED <<seg, writeOff, buf>>
  PROVE  PlacedInv'
<1>1. BufPlaced'
  <2>1. CASE buf' = <<>>
    <3>1. Len(buf') = 0
      BY <2>1
    <3> QED
      BY <3>1 DEF BufPlaced
  <2>2. CASE UNCHANGED <<seg, writeOff, buf>>
    BY <2>2 DEF PlacedInv, BufPlaced
  <2> QED
    BY <2>1, <2>2
<1> QED
  BY <1>1 DEF PlacedInv

LEMMA PlacedInit == Init => PlacedInv
<1> SUFFICES ASSUME Init PROVE PlacedInv
  OBVIOUS
<1>1. \A n \in Segs : cache[n] = <<>> /\ disk[n] = <<>>
  BY DEF Init
<1>2. Len(<<>>) = 0 /\ buf = <<>>
  BY DEF Init
<1>3. \A n \in Segs : Len(cache[n]) = 0 /\ Len(disk[n]) = 0
  BY <1>1, <1>2
<1> QED
  BY <1>2, <1>3 DEF PlacedInv, BufPlaced, Placed

LEMMA PlacedStep == Shape /\ PlacedInv /\ [Next]_vars => PlacedInv'
<1> SUFFICES ASSUME Shape, PlacedInv, [Next]_vars PROVE PlacedInv'
  OBVIOUS
<1>0. /\ TypeOK /\ SegInv
      /\ cache \in [Segs -> Content] /\ disk \in [Segs -> Content] /\ buf \in Seq(UnitType)
      /\ Len(buf) \in Nat /\ seg \in Segs \cup {NoSeg}
      /\ seg = NoSeg => ~ fh /\ inflight = {} /\ buf = <<>>
      /\ inflight \subseteq FsyncType
      /\ \A n \in Segs : Placed(recs, n, cache[n])
      /\ \A n \in Segs : Placed(recs, n, disk[n])
  BY DEF Shape, TypeOK, SegInv, PlacedInv
<1>1. ASSUME Room, NEW len \in Lens, NEW cp \in CpValues(len), AppendFirst(len, cp) PROVE PlacedInv'
  <2>1. LogGrown(len, cp) /\ BufferRestarted(len, cp)
    BY <1>1, FirstEffect
  <2>2. disk' = disk /\ 0 \in Segs /\ cache' = [cache EXCEPT ![0] = Pwrite(@, 0, <<Header>>)]
    BY <1>1 DEF AppendFirst, OpenSegment
  <2>3. BufPlaced' /\ \A n \in Segs : Placed(recs, n, cache'[n])
    BY <1>0, <2>1, <2>2, RestartedPlaced, OpenPlaced
  <2> QED
    BY <2>1, <2>2, <2>3, PlacedAppend
<1>2. ASSUME Room, NEW len \in Lens, NEW cp \in CpValues(len), AppendBuffered(len, cp) PROVE PlacedInv'
  <2>1. /\ LogGrown(len, cp) /\ BufferGrown(len, cp) /\ seg' = seg
        /\ writeOff' = writeOff + len /\ cache' = cache
    BY <1>2, BufferedEffect
  <2>2. disk' = disk /\ seg # NoSeg
    BY <1>2 DEF AppendBuffered
  <2>3. BufPlaced'
    BY <2>1, <2>2, GrownPlaced
  <2> QED
    BY <1>0, <2>1, <2>2, <2>3, PlacedAppend
<1>3. ASSUME Room, NEW len \in Lens, NEW cp \in CpValues(len), AppendOverflow(len, cp) PROVE PlacedInv'
  <2>1. LogGrown(len, cp) /\ BufferRestarted(len, cp) /\ cache' = AfterFlush
    BY <1>3, OverflowEffect
  <2>2. disk' = disk /\ seg # NoSeg
    BY <1>3 DEF AppendOverflow
  <2>3. BufPlaced' /\ \A n \in Segs : Placed(recs, n, cache'[n])
    BY <1>0, <2>1, <2>2, RestartedPlaced, FlushPlaced
  <2> QED
    BY <2>1, <2>2, <2>3, PlacedAppend
<1>4. ASSUME Room, NEW len \in Lens, NEW cp \in CpValues(len), AppendRotate(len, cp) PROVE PlacedInv'
  <2>1. LogGrown(len, cp) /\ BufferRestarted(len, cp)
    BY <1>4, RotateEffect
  <2>2. /\ disk' = disk /\ seg # NoSeg /\ NextSeg \in Segs
        /\ cache' = [AfterFlush EXCEPT ![NextSeg] = Pwrite(@, 0, <<Header>>)]
    BY <1>4 DEF AppendRotate, OpenSegment
  <2>3. AfterFlush \in [Segs -> Content] /\ \A n \in Segs : Placed(recs, n, AfterFlush[n])
    BY <1>0, <2>2, FlushFacts, FlushPlaced
  <2>4. BufPlaced' /\ \A n \in Segs : Placed(recs, n, cache'[n])
    BY <2>1, <2>2, <2>3, RestartedPlaced, OpenPlaced
  <2> QED
    BY <2>1, <2>2, <2>4, PlacedAppend
<1>5. ASSUME NEW len \in Lens, AppendRotateFails(len) PROVE PlacedInv'
  <2>1. seg # NoSeg /\ cache' = AfterFlush /\ buf' = <<>> /\ UNCHANGED <<disk, recs>>
    BY <1>5 DEF AppendRotateFails
  <2>2. \A n \in Segs : Placed(recs, n, cache'[n])
    BY <1>0, <2>1, FlushPlaced
  <2> QED
    BY <1>0, <2>1, <2>2, PlacedKeep
<1>6. ASSUME FlushFails PROVE PlacedInv'
  <2>1. buf # <<>> /\ UNCHANGED <<disk, seg, writeOff, buf, recs>>
    BY <1>6 DEF FlushFails
  <2>2. PICK k \in 0..(Len(buf) - 1) : cache' = FlushedTo(k)
    BY <1>6 DEF FlushFails
  <2>3. seg # NoSeg /\ k \in 0..Len(buf)
    BY <1>0, <2>1
  <2>4. \A n \in Segs : Placed(recs, n, cache'[n])
    BY <1>0, <2>2, <2>3, FlushPlaced
  <2> QED
    BY <1>0, <2>1, <2>4, PlacedKeep
<1>7. ASSUME SyncNothing PROVE PlacedInv'
  BY <1>0, <1>7, PlacedKeep DEF SyncNothing
<1>8. ASSUME buf # <<>> PROVE seg # NoSeg /\ \A n \in Segs : Placed(recs, n, Flushed[n])
  BY <1>0, <1>8, FlushPlaced
<1>9. ASSUME buf # <<>> PROVE \A n \in Segs : Placed(recs, n, Fsynced[n])
  <2>1. seg \in Segs /\ Placed(recs, seg, Flushed[seg])
    BY <1>0, <1>8, <1>9
  <2> QED
    BY <1>0, <2>1 DEF Fsynced
<1>10. ASSUME Sync PROVE PlacedInv'
  <2>1. buf # <<>> /\ cache' = Flushed /\ buf' = <<>> /\ disk' = Fsynced /\ recs' = recs
    BY <1>10 DEF Sync
  <2> QED
    BY <1>8, <1>9, <2>1, PlacedKeep
<1>11. ASSUME SyncFsyncFails \/ SyncAsync PROVE PlacedInv'
  <2>1. buf # <<>> /\ cache' = Flushed /\ buf' = <<>> /\ UNCHANGED <<disk, recs>>
    BY <1>11 DEF SyncFsyncFails, SyncAsync
  <2> QED
    BY <1>0, <1>8, <2>1, PlacedKeep
<1>12. ASSUME SyncAsyncNothing PROVE PlacedInv'
  BY <1>0, <1>12, PlacedKeep DEF SyncAsyncNothing
<1>13. ASSUME NEW f \in inflight, AsyncFsync(f) PROVE PlacedInv'
  <2>1. /\ disk' = IF f.fd \in Segs THEN [disk EXCEPT ![f.fd] = cache[f.fd]] ELSE disk
        /\ UNCHANGED <<cache, seg, writeOff, buf, recs>>
    BY <1>13 DEF AsyncFsync
  <2>2. \A n \in Segs : Placed(recs, n, disk'[n])
    BY <1>0, <2>1
  <2> QED
    BY <1>0, <2>1, <2>2, PlacedKeep
<1>14. ASSUME NEW f \in inflight, AsyncFails(f) \/ AsyncDone(f) PROVE PlacedInv'
  <2>1. UNCHANGED <<cache, disk, seg, writeOff, buf, recs>>
    BY <1>14 DEF AsyncFails, AsyncDone
  <2> QED
    BY <1>0, <2>1, PlacedKeep
<1>15. ASSUME CloseBegin PROVE PlacedInv'
  BY <1>0, <1>15, PlacedKeep DEF CloseBegin
<1>16. ASSUME CloseEnd PROVE PlacedInv'
  <2>1. buf' = <<>> /\ recs' = recs
    BY <1>16 DEF CloseEnd
  <2>2. /\ \A n \in Segs : Placed(recs, n, cache'[n])
        /\ \A n \in Segs : Placed(recs, n, disk'[n])
    <3>1. CASE UNCHANGED <<cache, disk>>
      BY <1>0, <3>1
    <3>2. CASE buf # <<>> /\ cache' = Flushed /\ disk' = Fsynced
      BY <1>8, <1>9, <3>2
    <3>3. CASE buf # <<>> /\ disk' = disk /\ \E k \in 0..Len(buf) : cache' = FlushedTo(k)
      BY <1>0, <3>3, FlushPlaced
    <3>4. (IF fh THEN 0..Len(buf) ELSE {0}) \subseteq 0..Len(buf)
      BY <1>0
    <3> QED
      BY <1>16, <3>1, <3>2, <3>3, <3>4 DEF CloseEnd
  <2> QED
    BY <2>1, <2>2, PlacedKeep
<1>17. ASSUME Exit PROVE PlacedInv'
  <2>1. buf' = <<>> /\ disk' \in {disk, cache} /\ UNCHANGED <<cache, recs>>
    BY <1>17 DEF Exit, Gone
  <2> QED
    BY <1>0, <2>1, PlacedKeep
<1>18. ASSUME Crash PROVE PlacedInv'
  <2>1. buf' = <<>> /\ disk' = cache' /\ recs' = recs
    BY <1>18 DEF Crash, Gone
  <2>2. PICK kept \in SUBSET Dirty : cache' = [n \in Segs |-> Survivor(n, kept)]
    BY <1>18 DEF Crash
  <2>3. \A n \in Segs : Placed(recs, n, cache'[n])
    BY <1>0, <2>2, SurvivorPlaced
  <2> QED
    BY <2>1, <2>3, PlacedKeep
<1>19. ASSUME Reopen PROVE PlacedInv'
  <2>1. UNCHANGED <<disk, seg, writeOff, buf, recs>>
    BY <1>19 DEF Reopen
  <2>2. cache' = cache \/ \E lsn \in LSNs : cache' = TruncateBeforeCheckpoint(cache, lsn)
    BY <1>19 DEF Reopen
  <2>3. \A n \in Segs : Placed(recs, n, cache'[n])
    BY <1>0, <2>2, TruncatePlaced
  <2> QED
    BY <1>0, <2>1, <2>3, PlacedKeep
<1>20. ASSUME vars' = vars PROVE PlacedInv'
  BY <1>0, <1>20, PlacedKeep DEF vars
<1> QED
  BY <1>1, <1>2, <1>3, <1>4, <1>5, <1>6, <1>7, <1>10, <1>11, <1>12, <1>13, <1>14, <1>15,
     <1>16, <1>17, <1>18, <1>19, <1>20, NextSteps

(***************************************************************************)
(* Scans                                                                    *)
(***************************************************************************)

\* What a record at offset q of content c is passed to the callback as.
FoundType == [id : 0..MaxRecs, end : Nat, cp : LSNs \cup {NoCp}]
RecordAt(c, q) == [id |-> c[q + 1].id, end |-> q + c[q + 1].len, cp |-> c[q + 1].cp]

\* There is a record at offset q.
IsRecord(c, q) == q \in 1..(Len(c) - 1) /\ WholeAt(c, q) /\ c[q + 1].len > 0

\* Records of c in order of offset, none of which ends behind p.
FoundIn(c, rs, p) ==
  /\ rs \in Seq(FoundType)
  /\ \A i \in 1..Len(rs) : rs[i].end <= p /\ \E q \in Nat : IsRecord(c, q) /\ rs[i] = RecordAt(c, q)
  /\ \A i, j \in 1..Len(rs) : i < j => rs[i].end < rs[j].end

ScanStates(c) ==
  {s \in [b : Nat, p : Nat, recs : Seq(FoundType), st : {"more", "nil", "corrupt"}] :
     1 <= s.b /\ s.b <= s.p /\ s.p <= ChunkEnd(c, s.b) /\ FoundIn(c, s.recs, s.p)}

\* The run of a scan, and the scan in terms of it.
Run(c, garble) ==
  LET run[k \in 0..(2 * Len(c))] ==
        IF k = 0 THEN ScanStart ELSE ScanStep(c, garble, run[k - 1])
  IN  run

LEMMA ScanIsRun ==
  ASSUME NEW c, NEW garble
  PROVE  Scan(c, garble) =
           CASE c = <<>> -> [recs |-> <<>>, ok |-> TRUE]
             [] c # <<>> /\ c[1] # Header -> [recs |-> <<>>, ok |-> FALSE]
             [] OTHER -> [recs |-> Run(c, garble)[2 * Len(c)].recs,
                          ok |-> Run(c, garble)[2 * Len(c)].st = "nil"]
BY DEF Scan, Run, ScanResult

\* A chunk ends behind its start, inside the file.
LEMMA ChunkFacts ==
  ASSUME NEW c \in Content, NEW b \in Nat, b < Len(c)
  PROVE  /\ ChunkEnd(c, b) \in Nat /\ b < ChunkEnd(c, b) /\ ChunkEnd(c, b) <= Len(c)
         /\ Len(c) \in Nat
BY SegmentAssumption DEF ChunkEnd, Content

\* No chunk ends behind the file.
LEMMA ChunkInside ==
  ASSUME NEW c \in Content, NEW b \in Nat
  PROVE  ChunkEnd(c, b) \in Nat /\ ChunkEnd(c, b) <= Len(c) /\ Len(c) \in Nat
BY SegmentAssumption DEF ChunkEnd, Content

\* decodeRecord finds a record only where one is.
LEMMA DecodeFacts ==
  ASSUME NEW c \in Content, NEW p \in Nat, p < Len(c), NEW lim \in Nat,
         NEW garble \in {"corrupt", "truncated"}
  PROVE  /\ Decode(c, p, lim, garble) \in {"record", "corrupt", "truncated"}
         /\ Decode(c, p, lim, garble) = "record" =>
              /\ WholeAt(c, p) /\ c[p + 1].part = 1 /\ c[p + 1].len > 0
              /\ p + c[p + 1].len <= lim
<1>1. c[p + 1] \in UnitType
  <2>1. p + 1 \in 1..Len(c) /\ c \in Seq(UnitType)
    BY DEF Content
  <2> QED
    BY <2>1, ElementOfSeq
<1>2. c[p + 1].len \in Nat /\ c[p + 1].part \in Nat
  BY <1>1, ConstantFacts DEF UnitType
<1>3. CASE c[p + 1].len = 0
  BY <1>2, <1>3 DEF Decode
<1>4. CASE c[p + 1].len > 0 /\ c[p + 1].part # 1
  <2>1. Decode(c, p, lim, garble) = garble
    BY <1>2, <1>4 DEF Decode
  <2> QED
    BY <2>1
<1>5. CASE c[p + 1].len > 0 /\ c[p + 1].part = 1 /\ p + c[p + 1].len > lim
  <2>1. Decode(c, p, lim, garble) = "truncated"
    BY <1>2, <1>5 DEF Decode
  <2> QED
    BY <2>1
<1>6. CASE c[p + 1].len > 0 /\ c[p + 1].part = 1 /\ p + c[p + 1].len <= lim
  <2>1. Decode(c, p, lim, garble) = IF WholeAt(c, p) THEN "record" ELSE "corrupt"
    BY <1>2, <1>6 DEF Decode
  <2> QED
    BY <1>6, <2>1
<1> QED
  BY <1>2, <1>3, <1>4, <1>5, <1>6

\* One more record found.
LEMMA FoundMore ==
  ASSUME NEW c \in Content, NEW rs, NEW p \in Nat, FoundIn(c, rs, p), IsRecord(c, p)
  PROVE  /\ FoundIn(c, Append(rs, RecordAt(c, p)), p + c[p + 1].len)
         /\ p + c[p + 1].len \in Nat
<1>1. c[p + 1] \in UnitType
  <2>1. p + 1 \in 1..Len(c) /\ c \in Seq(UnitType)
    BY DEF Content, IsRecord
  <2> QED
    BY <2>1, ElementOfSeq
<1>2. c[p + 1].len \in Nat /\ c[p + 1].len > 0 /\ c[p + 1].id \in 0..MaxRecs
      /\ c[p + 1].cp \in LSNs \cup {NoCp}
  BY <1>1, ConstantFacts DEF UnitType, IsRecord
<1> DEFINE r == RecordAt(c, p)
           e == p + c[p + 1].len
           qs == Append(rs, r)
<1>3. e \in Nat /\ p < e
  BY <1>2
<1>4. r \in FoundType /\ r.end = e
  BY <1>2, <1>3 DEF FoundType, RecordAt
<1>5. rs \in Seq(FoundType) /\ Len(rs) \in Nat
  BY DEF FoundIn
<1> HIDE DEF r, e
<1>6. /\ qs \in Seq(FoundType) /\ Len(qs) = Len(rs) + 1 /\ qs[Len(rs) + 1] = r
      /\ \A i \in 1..Len(rs) : qs[i] = rs[i]
  BY <1>4, <1>5
<1>7. \A i \in 1..Len(rs) : rs[i].end \in Nat
  <2>1. \A i \in 1..Len(rs) : rs[i] \in FoundType
    BY <1>5, ElementOfSeq
  <2> QED
    BY <2>1 DEF FoundType
<1> HIDE DEF qs
<1>8. ASSUME NEW i \in 1..Len(qs)
      PROVE  qs[i].end <= e /\ \E q \in Nat : IsRecord(c, q) /\ qs[i] = RecordAt(c, q)
  <2>1. CASE i \in 1..Len(rs)
    <3>1. rs[i].end <= p /\ \E q \in Nat : IsRecord(c, q) /\ rs[i] = RecordAt(c, q)
      BY <2>1 DEF FoundIn
    <3> QED
      BY <1>3, <1>6, <1>7, <2>1, <3>1
  <2>2. CASE i = Len(rs) + 1
    BY <1>3, <1>4, <1>6, <2>2 DEF r
  <2> QED
    BY <1>5, <1>6, <2>1, <2>2
<1>9. ASSUME NEW i \in 1..Len(qs), NEW j \in 1..Len(qs), i < j PROVE qs[i].end < qs[j].end
  <2>1. i \in 1..Len(rs) /\ qs[i] = rs[i] /\ rs[i].end \in Nat
    BY <1>5, <1>6, <1>7, <1>9
  <2>2. CASE j \in 1..Len(rs)
    BY <1>6, <1>9, <2>1, <2>2 DEF FoundIn
  <2>3. CASE j = Len(rs) + 1
    <3>1. rs[i].end <= p
      BY <2>1 DEF FoundIn
    <3> QED
      BY <1>3, <1>4, <1>6, <2>1, <2>3, <3>1
  <2> QED
    BY <1>5, <1>6, <2>2, <2>3
<1>10. FoundIn(c, qs, e)
  BY <1>6, <1>8, <1>9 DEF FoundIn
<1> QED
  BY <1>3, <1>10 DEF qs, r, e

\* What a scan has found so far stays found as it goes on.
LEMMA FoundFurther ==
  ASSUME NEW c, NEW rs, NEW p \in Nat, NEW q \in Nat, p <= q, FoundIn(c, rs, p)
  PROVE  FoundIn(c, rs, q)
<1>1. \A i \in 1..Len(rs) : rs[i].end \in Nat
  <2>1. rs \in Seq(FoundType)
    BY DEF FoundIn
  <2>2. \A i \in 1..Len(rs) : rs[i] \in FoundType
    BY <2>1, ElementOfSeq
  <2> QED
    BY <2>2 DEF FoundType
<1> QED
  BY <1>1 DEF FoundIn

\* A step of the loop, by its cases; the states it goes through.
LEMMA StepCases ==
  ASSUME NEW c \in Content, NEW garble \in {"corrupt", "truncated"}, NEW s \in ScanStates(c)
  PROVE  \/ s.st # "more" /\ ScanStep(c, garble, s) = s
         \/ /\ s.st = "more" /\ s.p = ChunkEnd(c, s.b) /\ NextOffset(s.b, s.p) >= Len(c)
            /\ ScanStep(c, garble, s) = ScanEnds(s, "nil")
         \/ /\ s.st = "more" /\ s.p = ChunkEnd(c, s.b) /\ ~ (NextOffset(s.b, s.p) >= Len(c))
            /\ ScanStep(c, garble, s) = NextChunk(s)
         \/ /\ s.st = "more" /\ s.p < ChunkEnd(c, s.b) /\ IsRecord(c, s.p)
            /\ Decode(c, s.p, ChunkEnd(c, s.b), garble) = "record"
            /\ s.p + c[s.p + 1].len <= ChunkEnd(c, s.b)
            /\ ScanStep(c, garble, s) = ScanRecord(s, c[s.p + 1])
         \/ /\ s.st = "more" /\ s.p < ChunkEnd(c, s.b)
            /\ Decode(c, s.p, ChunkEnd(c, s.b), garble) # "record"
            /\ \/ ScanStep(c, garble, s) = ScanEnds(s, "nil")
               \/ ScanStep(c, garble, s) = ScanEnds(s, "corrupt")
<1>1. s.b \in Nat /\ s.p \in Nat /\ 1 <= s.b /\ s.b <= s.p /\ s.p <= ChunkEnd(c, s.b)
  BY DEF ScanStates
<1>2. ChunkEnd(c, s.b) \in Nat /\ ChunkEnd(c, s.b) <= Len(c) /\ Len(c) \in Nat
  BY <1>1, ChunkInside
<1>3. CASE s.st # "more"
  BY <1>3 DEF ScanStep
<1>4. CASE s.st = "more" /\ s.p = ChunkEnd(c, s.b)
  BY <1>4 DEF ScanStep
<1>5. CASE s.st = "more" /\ s.p < ChunkEnd(c, s.b)
  <2> DEFINE d == Decode(c, s.p, ChunkEnd(c, s.b), garble)
  <2>1. ScanStep(c, garble, s) = IF d = "record" THEN ScanRecord(s, c[s.p + 1])
                                 ELSE ScanEnds(s, IF d = "truncated" THEN "nil" ELSE "corrupt")
    BY <1>1, <1>2, <1>5 DEF ScanStep, ScanDecoded
  <2>2. d = "record" => WholeAt(c, s.p) /\ c[s.p + 1].len > 0 /\ s.p + c[s.p + 1].len <= ChunkEnd(c, s.b)
    BY <1>1, <1>2, <1>5, DecodeFacts
  <2>3. s.p \in 1..(Len(c) - 1)
    BY <1>1, <1>2, <1>5
  <2> HIDE DEF d
  <2> QED
    BY <1>5, <2>1, <2>2, <2>3 DEF IsRecord, d
<1> QED
  BY <1>1, <1>2, <1>3, <1>4, <1>5

LEMMA ScanStepType ==
  ASSUME NEW c \in Content, NEW garble \in {"corrupt", "truncated"}, NEW s \in ScanStates(c)
  PROVE  ScanStep(c, garble, s) \in ScanStates(c)
<1> DEFINE T == [b : Nat, p : Nat, recs : Seq(FoundType), st : {"more", "nil", "corrupt"}]
<1>1. /\ s \in T /\ s.b \in Nat /\ s.p \in Nat /\ 1 <= s.b /\ s.b <= s.p
      /\ s.p <= ChunkEnd(c, s.b) /\ FoundIn(c, s.recs, s.p)
  BY DEF ScanStates
<1>2. ChunkEnd(c, s.b) \in Nat /\ ChunkEnd(c, s.b) <= Len(c) /\ Len(c) \in Nat
  BY <1>1, ChunkInside
<1>3. ASSUME NEW e \in {"nil", "corrupt"} PROVE ScanEnds(s, e) \in ScanStates(c)
  <2>1. ScanEnds(s, e) \in T
    BY <1>1 DEF ScanEnds
  <2>2. ScanEnds(s, e).b = s.b /\ ScanEnds(s, e).p = s.p /\ ScanEnds(s, e).recs = s.recs
    BY <1>1 DEF ScanEnds
  <2> QED
    BY <1>1, <2>1, <2>2 DEF ScanStates
<1>4. ASSUME s.p = ChunkEnd(c, s.b), ~ (NextOffset(s.b, s.p) >= Len(c))
      PROVE  NextChunk(s) \in ScanStates(c)
  <2> DEFINE q == NextOffset(s.b, s.p)
             t == NextChunk(s)
  <2>1. q \in Nat /\ 1 <= q /\ s.p <= q /\ q < Len(c)
    BY <1>1, <1>2, <1>4 DEF NextOffset
  <2>2. t \in T /\ t.b = q /\ t.p = q /\ t.recs = s.recs
    <3> HIDE DEF q
    <3> QED
      BY <1>1, <2>1 DEF NextChunk, q
  <2> HIDE DEF q, t
  <2>3. q <= ChunkEnd(c, q)
    BY <2>1, ChunkFacts
  <2>4. FoundIn(c, t.recs, q)
    BY <1>1, <2>1, <2>2, FoundFurther
  <2>5. t \in ScanStates(c)
    BY <2>1, <2>2, <2>3, <2>4 DEF ScanStates
  <2> QED
    BY <2>5 DEF t
<1>5. ASSUME IsRecord(c, s.p), s.p + c[s.p + 1].len <= ChunkEnd(c, s.b)
      PROVE  ScanRecord(s, c[s.p + 1]) \in ScanStates(c)
  <2> DEFINE e == s.p + c[s.p + 1].len
             t == ScanRecord(s, c[s.p + 1])
             rs == Append(s.recs, RecordAt(c, s.p))
  <2>1. FoundIn(c, rs, e) /\ e \in Nat
    BY <1>1, <1>5, FoundMore
  <2>2. rs \in Seq(FoundType)
    BY <2>1 DEF FoundIn
  <2>3. s.p <= e
    <3>1. c[s.p + 1].len > 0
      BY <1>5 DEF IsRecord
    <3>2. c[s.p + 1] \in UnitType
      <4>1. s.p + 1 \in 1..Len(c) /\ c \in Seq(UnitType)
        BY <1>5 DEF Content, IsRecord
      <4> QED
        BY <4>1, ElementOfSeq
    <3>3. c[s.p + 1].len \in Nat
      BY <3>2, ConstantFacts DEF UnitType
    <3> QED
      BY <1>1, <3>1, <3>3
  <2>4. t = [s EXCEPT !.p = e, !.recs = rs]
    BY DEF ScanRecord, RecordAt
  <2>5. e <= ChunkEnd(c, s.b)
    BY <1>5
  <2> HIDE DEF e, rs, t
  <2>6. t \in T /\ t.b = s.b /\ t.p = e /\ t.recs = rs
    BY <1>1, <2>1, <2>2, <2>4
  <2>7. t \in ScanStates(c)
    BY <1>1, <1>2, <2>1, <2>3, <2>5, <2>6 DEF ScanStates
  <2> QED
    BY <2>7 DEF t
<1> HIDE DEF T
<1> QED
  BY <1>3, <1>4, <1>5, StepCases

LEMMA ScanStartType ==
  ASSUME NEW c \in Content, c # <<>>
  PROVE  ScanStart \in ScanStates(c) /\ Len(c) >= 1
<1>1. Len(c) \in Nat /\ Len(c) >= 1
  BY DEF Content
<1>2. 1 <= ChunkEnd(c, 1)
  BY <1>1, SegmentAssumption DEF ChunkEnd
<1>3. FoundIn(c, <<>>, 1)
  <2>1. <<>> \in Seq(FoundType) /\ Len(<<>>) = 0
    OBVIOUS
  <2> QED
    BY <2>1 DEF FoundIn
<1>4. /\ ScanStart \in [b : Nat, p : Nat, recs : Seq(FoundType), st : {"more", "nil", "corrupt"}]
      /\ ScanStart.b = 1 /\ ScanStart.p = 1 /\ ScanStart.recs = <<>>
  BY DEF ScanStart
<1> QED
  BY <1>1, <1>2, <1>3, <1>4 DEF ScanStates

\* The run of a scan starts at the first record and takes one step a round.
LEMMA RunFacts ==
  ASSUME NEW c \in Content, c # <<>>, NEW garble \in {"corrupt", "truncated"}
  PROVE  LET w == Run(c, garble)  K == 2 * Len(c) IN
         /\ K \in Nat /\ w[0] = ScanStart
         /\ \A k \in 1..K : w[k] = ScanStep(c, garble, w[k - 1])
         /\ \A k \in 0..K : w[k] \in ScanStates(c)
<1> DEFINE K == 2 * Len(c)
           S == ScanStates(c)
           St == [k \in 0..K |-> S]
           round == [x \in (1..K) \X S |-> ScanStep(c, garble, x[2])]
           Body(f) == [k \in 0..K |-> IF k = 0 THEN ScanStart ELSE ScanStep(c, garble, f[k - 1])]
           w == Run(c, garble)
<1>1. K \in Nat /\ ScanStart \in S
  BY ScanStartType DEF Content
<1>2. \A s \in S : ScanStep(c, garble, s) \in S
  BY ScanStepType
<1>3. w = CHOOSE f : f = Body(f)
  BY DEF Run
<1> HIDE DEF K, S
<1>4. \A i \in 1..K : \A v \in St[i - 1] : round[<<i, v>>] = ScanStep(c, garble, v) /\ v \in S
  BY <1>1
<1> HIDE DEF round
<1>5. ASSUME NEW i \in 1..K, NEW v \in St[i - 1] PROVE round[<<i, v>>] \in St[i]
  <2>1. round[<<i, v>>] = ScanStep(c, garble, v) /\ v \in S
    BY <1>4
  <2>2. St[i] = S
    BY <1>1
  <2> HIDE DEF St
  <2> QED
    BY <1>2, <2>1, <2>2
<1>6. ScanStart \in St[0]
  BY <1>1
<1> DEFINE g == Loop(K, ScanStart, round)
<1>7. /\ g = [i \in 0..K |-> IF i = 0 THEN ScanStart ELSE round[<<i, g[i - 1]>>]]
      /\ \A i \in 0..K : g[i] \in St[i]
  <2> HIDE DEF St
  <2> QED
    BY <1>1, <1>5, <1>6, LoopExists
<1> HIDE DEF g
<1>8. g = Body(g)
  <2>1. \A i \in 0..K : i # 0 => round[<<i, g[i - 1]>>] = ScanStep(c, garble, g[i - 1])
    <3> SUFFICES ASSUME NEW i \in 0..K, i # 0
                 PROVE  round[<<i, g[i - 1]>>] = ScanStep(c, garble, g[i - 1])
      OBVIOUS
    <3>1. i \in 1..K /\ i - 1 \in 0..K
      BY <1>1
    <3>2. g[i - 1] \in St[i - 1]
      BY <1>7, <3>1
    <3> HIDE DEF St
    <3> QED
      BY <1>4, <3>1, <3>2
  <2> QED
    BY <1>7, <2>1
<1>9. w = Body(w)
  <2> HIDE DEF w, Body
  <2> QED
    BY <1>3, <1>8
<1>10. w[0] = ScanStart /\ \A k \in 1..K : w[k] = ScanStep(c, garble, w[k - 1])
  <2> HIDE DEF w
  <2>1. 0 \in 0..K /\ \A k \in 1..K : k \in 0..K /\ k # 0
    BY <1>1
  <2> QED
    BY <1>9, <2>1
<1>11. \A k \in 0..K : w[k] \in S
  <2>1. \A k \in 0..K : w[k] \in St[k]
    <3> HIDE DEF w
    <3>1. w[0] \in St[0]
      BY <1>6, <1>10
    <3>2. \A i \in 1..K : w[i - 1] \in St[i - 1] => w[i] \in St[i]
      BY <1>1, <1>2, <1>10
    <3> HIDE DEF St
    <3> QED
      BY <1>1, <3>1, <3>2, LoopStays
  <2> QED
    BY <2>1
<1> QED
  BY <1>1, <1>10, <1>11 DEF K, S

\* What a scan finds: records of the file, in order of offset.
LEMMA ScanFacts ==
  ASSUME NEW c \in Content, NEW garble \in {"corrupt", "truncated"}
  PROVE  FoundIn(c, Scan(c, garble).recs, Len(c)) /\ Scan(c, garble).ok \in BOOLEAN
<1>1. CASE c = <<>> \/ c[1] # Header
  <2>1. Scan(c, garble).recs = <<>> /\ Scan(c, garble).ok \in BOOLEAN
    BY <1>1, ScanIsRun
  <2>2. <<>> \in Seq(FoundType) /\ Len(<<>>) = 0
    OBVIOUS
  <2> QED
    BY <2>1, <2>2 DEF FoundIn
<1>2. CASE ~ (c = <<>> \/ c[1] # Header)
  <2> DEFINE s == Run(c, garble)[2 * Len(c)]
  <2>1. s \in ScanStates(c) /\ Len(c) \in Nat
    <3>1. 2 * Len(c) \in Nat /\ \A k \in 0..(2 * Len(c)) : Run(c, garble)[k] \in ScanStates(c)
      BY <1>2, RunFacts
    <3>2. 2 * Len(c) \in 0..(2 * Len(c)) /\ Len(c) \in Nat
      BY <3>1 DEF Content
    <3> QED
      BY <3>1, <3>2
  <2>2. Scan(c, garble) = [recs |-> s.recs, ok |-> s.st = "nil"]
    BY <1>2, ScanIsRun
  <2> HIDE DEF s
  <2>3. /\ s.b \in Nat /\ s.p \in Nat /\ s.p <= ChunkEnd(c, s.b) /\ FoundIn(c, s.recs, s.p)
    BY <2>1 DEF ScanStates
  <2>4. ChunkEnd(c, s.b) \in Nat /\ ChunkEnd(c, s.b) <= Len(c)
    BY <2>3, ChunkInside
  <2>5. FoundIn(c, s.recs, Len(c))
    BY <2>1, <2>3, <2>4, FoundFurther
  <2> QED
    BY <2>2, <2>5
<1> QED
  BY <1>1, <1>2

(***************************************************************************)
(* What a replay delivers                                                   *)
(***************************************************************************)

\* Records of the log that lie in the segments ns, each with its LSN, in the order of LSNs.
OutType == [id : Nat, lsn : Nat]
Delivers(ns, v) ==
  /\ v \in Seq(OutType)
  /\ \A i \in 1..Len(v) : /\ v[i].id \in DOMAIN recs /\ recs[v[i].id].seg \in ns
                          /\ v[i].lsn = EndLSN(v[i].id)
  /\ \A i, j \in 1..Len(v) : i < j => v[i].lsn < v[j].lsn

LEMMA DeliversNothing == \A ns : Delivers(ns, <<>>)
<1>1. <<>> \in Seq(OutType) /\ Len(<<>>) = 0
  OBVIOUS
<1> QED
  BY <1>1 DEF Delivers

\* A record found in a segment is the record of the log it names, whole.
LEMMA RecordPlaced ==
  ASSUME TypeOK, NEW n \in Segs, NEW c \in Content, Placed(recs, n, c), NEW q \in Nat, IsRecord(c, q)
  PROVE  LET r == RecordAt(c, q) IN
         /\ r.id \in DOMAIN recs /\ r.id \in Nat /\ recs[r.id].seg = n
         /\ q = recs[r.id].off /\ r.end = q + recs[r.id].len /\ r.cp = recs[r.id].cp
         /\ r.end \in Nat /\ r.end > 1 /\ r.end <= Len(c)
         /\ RecordLSN(n, r.end) = EndLSN(r.id) /\ RecordLSN(n, r.end) \in Nat
<1> DEFINE u == c[q + 1]
           i == u.id
<1>1. /\ q \in 1..(Len(c) - 1) /\ u.part = 1 /\ q + u.len <= Len(c) /\ u.len > 0
  BY DEF IsRecord, WholeAt
<1>2. Len(c) \in Nat
  BY DEF Content
<1>3. At(recs, n, q + 1, u)
  BY <1>1, <1>2 DEF Placed
<1>4. u # Zero /\ q + 1 # 1
  BY <1>1 DEF Zero, Unit
<1>5. /\ i \in DOMAIN recs /\ recs[i].seg = n /\ q + 1 = recs[i].off + u.part
      /\ u.len = recs[i].len /\ u.cp = recs[i].cp
  BY <1>3, <1>4 DEF At
<1>6. recs[i].off \in Nat /\ recs[i].off >= 1 /\ recs[i].len \in Nat /\ recs[i].seg \in Segs /\ i \in Nat
  BY <1>5, RecordFacts, ConstantFacts
<1>7. q = recs[i].off /\ q >= 1
  BY <1>1, <1>5, <1>6
<1> HIDE DEF u
<1>8. RecordAt(c, q) = [id |-> i, end |-> q + u.len, cp |-> u.cp]
  BY DEF RecordAt, u
<1>9. LSNFor(n, q + u.len) \in Nat
  <2>1. n \in Nat
    BY DEF Segs
  <2>2. q + u.len \in Nat /\ n * SegCap \in Nat
    BY <1>5, <1>6, <1>7, <2>1, ConstantFacts
  <2> QED
    BY <2>2 DEF LSNFor
<1> QED
  BY <1>1, <1>2, <1>5, <1>6, <1>7, <1>8, <1>9 DEF RecordLSN, EndLSN

\* What the callback of replaySegment keeps of the records rs found in segment n.
Passed(n, rs, min) ==
  LET passed[i \in 0..Len(rs)] == IF i = 0 THEN <<>> ELSE Kept(n, rs[i], min, passed[i - 1])
  IN  passed

LEMMA SegmentIsPassed ==
  ASSUME NEW n, NEW c, NEW min, NEW garble
  PROVE  LET rs == Scan(c, garble).recs IN
         ReplaySegment(n, c, min, garble) =
           [recs |-> Passed(n, rs, min)[Len(rs)], ok |-> Scan(c, garble).ok]
BY DEF ReplaySegment, Passed

\* What is kept of the first i of the records found.
KeptStates(n, rs, i) ==
  {v \in Seq(OutType) :
     /\ Delivers({n}, v)
     /\ \A j \in 1..Len(v) : \E m \in 1..i : v[j].lsn = RecordLSN(n, rs[m].end)}

LEMMA KeptType ==
  ASSUME TypeOK, NEW n \in Segs, NEW c \in Content, Placed(recs, n, c),
         NEW rs, FoundIn(c, rs, Len(c)), NEW min,
         NEW i \in 1..Len(rs), NEW v \in KeptStates(n, rs, i - 1)
  PROVE  Kept(n, rs[i], min, v) \in KeptStates(n, rs, i)
<1>1. /\ v \in Seq(OutType) /\ Delivers({n}, v) /\ Len(v) \in Nat
      /\ \A j \in 1..Len(v) : \E m \in 1..(i - 1) : v[j].lsn = RecordLSN(n, rs[m].end)
  BY DEF KeptStates
<1>2. i \in Nat /\ i >= 1 /\ \A m \in 1..(i - 1) : m \in 1..i /\ m \in 1..Len(rs) /\ m < i
  <2>1. rs \in Seq(FoundType)
    BY DEF FoundIn
  <2>2. Len(rs) \in Nat
    BY <2>1
  <2> QED
    BY <2>2
<1>3. PICK q \in Nat : IsRecord(c, q) /\ rs[i] = RecordAt(c, q)
  BY DEF FoundIn
<1> DEFINE r == rs[i]
           x == [id |-> r.id, lsn |-> RecordLSN(n, r.end)]
           w == Append(v, x)
<1>4. /\ r.id \in DOMAIN recs /\ r.id \in Nat /\ recs[r.id].seg = n /\ r.end \in Nat
      /\ RecordLSN(n, r.end) = EndLSN(r.id) /\ RecordLSN(n, r.end) \in Nat
  BY <1>3, RecordPlaced
<1>5. \A m \in 1..(i - 1) : RecordLSN(n, rs[m].end) < RecordLSN(n, r.end)
  <2> SUFFICES ASSUME NEW m \in 1..(i - 1) PROVE RecordLSN(n, rs[m].end) < RecordLSN(n, r.end)
    OBVIOUS
  <2>1. rs[m].end < r.end
    BY <1>2 DEF FoundIn
  <2>2. rs[m].end \in Nat
    <3>1. rs \in Seq(FoundType) /\ m \in 1..Len(rs)
      BY <1>2 DEF FoundIn
    <3>2. rs[m] \in FoundType
      BY <3>1, ElementOfSeq
    <3> QED
      BY <3>2 DEF FoundType
  <2>3. n \in Nat
    BY DEF Segs
  <2>4. /\ LSNFor(n, r.end) \in Nat /\ LSNFor(n, rs[m].end) \in Nat
        /\ LSNFor(n, r.end) <= LSNFor(n, rs[m].end) <=> r.end <= rs[m].end
    BY <1>4, <2>2, <2>3, LSNSame
  <2> QED
    BY <1>4, <2>1, <2>2, <2>4 DEF RecordLSN
<1> HIDE DEF r
<1>6. x \in OutType /\ x.id = r.id /\ x.lsn = RecordLSN(n, r.end)
  BY <1>4 DEF OutType
<1> HIDE DEF x
<1>7. /\ w \in Seq(OutType) /\ Len(w) = Len(v) + 1 /\ w[Len(v) + 1] = x
      /\ \A j \in 1..Len(v) : w[j] = v[j]
  BY <1>1, <1>6
<1> HIDE DEF w
<1>8. \A j \in 1..Len(w) : j \in 1..Len(v) \/ j = Len(v) + 1
  BY <1>1, <1>7
<1>9. ASSUME NEW j \in 1..Len(v), NEW k \in 1..Len(w), j < k PROVE v[j].lsn < w[k].lsn
  <2>1. CASE k \in 1..Len(v)
    BY <1>1, <1>7, <1>9, <2>1 DEF Delivers
  <2>2. CASE k = Len(v) + 1
    <3>1. PICK m \in 1..(i - 1) : v[j].lsn = RecordLSN(n, rs[m].end)
      BY <1>1
    <3> QED
      BY <1>5, <1>6, <1>7, <2>2, <3>1
  <2> QED
    BY <1>8, <2>1, <2>2
<1>10. Delivers({n}, w)
  <2>1. ASSUME NEW j \in 1..Len(w)
        PROVE  w[j].id \in DOMAIN recs /\ recs[w[j].id].seg \in {n} /\ w[j].lsn = EndLSN(w[j].id)
    <3>1. CASE j \in 1..Len(v)
      BY <1>1, <1>7, <3>1 DEF Delivers
    <3>2. CASE j = Len(v) + 1
      BY <1>4, <1>6, <1>7, <3>2
    <3> QED
      BY <1>8, <3>1, <3>2
  <2>2. ASSUME NEW j \in 1..Len(w), NEW k \in 1..Len(w), j < k PROVE w[j].lsn < w[k].lsn
    <3>1. j \in 1..Len(v)
      BY <1>1, <1>7, <2>2
    <3> QED
      BY <1>7, <1>9, <2>2, <3>1
  <2> QED
    BY <1>7, <2>1, <2>2 DEF Delivers
<1>11. \A j \in 1..Len(w) : \E m \in 1..i : w[j].lsn = RecordLSN(n, rs[m].end)
  <2> SUFFICES ASSUME NEW j \in 1..Len(w) PROVE \E m \in 1..i : w[j].lsn = RecordLSN(n, rs[m].end)
    OBVIOUS
  <2>1. CASE j \in 1..Len(v)
    BY <1>1, <1>2, <1>7, <2>1
  <2>2. CASE j = Len(v) + 1
    <3>1. i \in 1..i /\ w[j].lsn = RecordLSN(n, rs[i].end)
      BY <1>2, <1>6, <1>7, <2>2 DEF r
    <3> QED
      BY <3>1
  <2> QED
    BY <1>8, <2>1, <2>2
<1>12. w \in KeptStates(n, rs, i)
  BY <1>7, <1>10, <1>11 DEF KeptStates
<1>13. v \in KeptStates(n, rs, i)
  BY <1>1, <1>2 DEF KeptStates
<1>14. Kept(n, rs[i], min, v) \in {v, w}
  BY DEF Kept, w, x, r
<1> QED
  BY <1>12, <1>13, <1>14

\* The rounds of replaySegment's callback.
LEMMA PassedFacts ==
  ASSUME TypeOK, NEW n \in Segs, NEW c \in Content, Placed(recs, n, c),
         NEW rs, FoundIn(c, rs, Len(c)), NEW min
  PROVE  LET w == Passed(n, rs, min)  K == Len(rs) IN
         /\ K \in Nat /\ w[0] = <<>>
         /\ \A i \in 1..K : w[i] = Kept(n, rs[i], min, w[i - 1])
         /\ \A i \in 0..K : w[i] \in KeptStates(n, rs, i)
<1> DEFINE K == Len(rs)
           S(i) == KeptStates(n, rs, i)
           St == [i \in 0..K |-> S(i)]
           round == [x \in (1..K) \X Seq(OutType) |-> Kept(n, rs[x[1]], min, x[2])]
           Body(f) == [i \in 0..K |-> IF i = 0 THEN <<>> ELSE Kept(n, rs[i], min, f[i - 1])]
           w == Passed(n, rs, min)
<1>1. K \in Nat
  <2>1. rs \in Seq(FoundType)
    BY DEF FoundIn
  <2> QED
    BY <2>1
<1>2. <<>> \in S(0)
  <2>1. <<>> \in Seq(OutType) /\ Len(<<>>) = 0
    OBVIOUS
  <2> QED
    BY <2>1, DeliversNothing DEF KeptStates
<1>3. w = CHOOSE f : f = Body(f)
  BY DEF Passed
<1>4. \A i \in 1..K : \A v \in S(i - 1) : Kept(n, rs[i], min, v) \in S(i)
  BY KeptType
<1>5. \A i \in 0..K : S(i) \in SUBSET Seq(OutType)
  BY DEF KeptStates
<1> HIDE DEF S, K
<1>6. \A i \in 0..K : St[i] = S(i)
  OBVIOUS
<1>7. \A i \in 1..K : i \in 0..K /\ i # 0 /\ i - 1 \in 0..K
  BY <1>1
<1>8. \A i \in 1..K : \A v \in St[i - 1] : round[<<i, v>>] = Kept(n, rs[i], min, v)
  <2> SUFFICES ASSUME NEW i \in 1..K, NEW v \in St[i - 1] PROVE round[<<i, v>>] = Kept(n, rs[i], min, v)
    OBVIOUS
  <2>1. v \in Seq(OutType)
    BY <1>5, <1>6, <1>7
  <2> QED
    BY <2>1
<1> HIDE DEF round, St
<1>9. \A i \in 1..K : \A v \in St[i - 1] : round[<<i, v>>] \in St[i]
  BY <1>4, <1>6, <1>7, <1>8
<1>10. <<>> \in St[0]
  BY <1>1, <1>2, <1>6
<1> DEFINE g == Loop(K, <<>>, round)
<1>11. /\ g = [i \in 0..K |-> IF i = 0 THEN <<>> ELSE round[<<i, g[i - 1]>>]]
       /\ \A i \in 0..K : g[i] \in St[i]
  BY <1>1, <1>9, <1>10, LoopExists
<1> HIDE DEF g
<1>12. g = Body(g)
  <2>1. \A i \in 0..K : i # 0 => round[<<i, g[i - 1]>>] = Kept(n, rs[i], min, g[i - 1])
    <3> SUFFICES ASSUME NEW i \in 0..K, i # 0
                 PROVE  round[<<i, g[i - 1]>>] = Kept(n, rs[i], min, g[i - 1])
      OBVIOUS
    <3>1. i \in 1..K /\ i - 1 \in 0..K
      BY <1>1
    <3>2. g[i - 1] \in St[i - 1]
      BY <1>11, <3>1
    <3> QED
      BY <1>8, <3>1, <3>2
  <2> QED
    BY <1>11, <2>1
<1>13. w = Body(w)
  <2> HIDE DEF w, Body
  <2> QED
    BY <1>3, <1>12
<1>14. w[0] = <<>> /\ \A i \in 1..K : w[i] = Kept(n, rs[i], min, w[i - 1])
  <2> HIDE DEF w
  <2>1. 0 \in 0..K
    BY <1>1
  <2> QED
    BY <1>7, <1>13, <2>1
<1>15. \A i \in 0..K : w[i] \in St[i]
  <2> HIDE DEF w
  <2>1. \A i \in 1..K : w[i - 1] \in St[i - 1] => w[i] \in St[i]
    BY <1>4, <1>6, <1>7, <1>14
  <2>2. w[0] \in St[0]
    BY <1>10, <1>14
  <2> QED
    BY <1>1, <2>1, <2>2, LoopStays
<1> QED
  BY <1>1, <1>6, <1>14, <1>15 DEF S, K

\* What is replayed of one segment.
LEMMA SegmentDelivers ==
  ASSUME TypeOK, NEW n \in Segs, NEW c \in Content, Placed(recs, n, c), NEW min,
         NEW garble \in {"corrupt", "truncated"}
  PROVE  /\ Delivers({n}, ReplaySegment(n, c, min, garble).recs)
         /\ ReplaySegment(n, c, min, garble).ok \in BOOLEAN
<1> DEFINE rs == Scan(c, garble).recs
<1>1. FoundIn(c, rs, Len(c)) /\ Scan(c, garble).ok \in BOOLEAN
  BY ScanFacts
<1>2. ReplaySegment(n, c, min, garble) = [recs |-> Passed(n, rs, min)[Len(rs)], ok |-> Scan(c, garble).ok]
  BY SegmentIsPassed
<1> HIDE DEF rs
<1>3. Len(rs) \in Nat /\ \A i \in 0..Len(rs) : Passed(n, rs, min)[i] \in KeptStates(n, rs, i)
  BY <1>1, PassedFacts
<1>4. Passed(n, rs, min)[Len(rs)] \in KeptStates(n, rs, Len(rs))
  BY <1>3
<1>5. Delivers({n}, Passed(n, rs, min)[Len(rs)])
  BY <1>4 DEF KeptStates
<1> QED
  BY <1>1, <1>2, <1>5

\* A record of a segment has a smaller LSN than one of a later segment.
LEMMA EarlierSegment ==
  ASSUME TypeOK, RecInv, NEW i \in DOMAIN recs, NEW j \in DOMAIN recs, recs[i].seg < recs[j].seg
  PROVE  EndLSN(i) < EndLSN(j)
<1>1. /\ recs[i].seg \in Nat /\ recs[j].seg \in Nat /\ recs[i].off \in Nat /\ recs[j].off \in Nat
      /\ recs[i].len \in Nat /\ recs[j].len \in Nat /\ recs[j].off >= 1
  BY RecordFacts, ConstantFacts DEF Segs
<1>2. recs[i].off + recs[i].len \in 0..SegCap
  BY <1>1, ConstantFacts DEF RecInv
<1> DEFINE e == recs[j].off + recs[j].len
<1>3. e \in Nat /\ e > 0
  BY <1>1
<1> HIDE DEF e
<1>4. LSNFor(recs[i].seg, recs[i].off + recs[i].len) <= LSNFor(recs[j].seg, 0)
  BY <1>1, <1>2, LSNOrder
<1>5. LSNFor(recs[j].seg, 0) < LSNFor(recs[j].seg, e)
  <2>1. recs[j].seg * SegCap \in Nat
    BY <1>1, ConstantFacts
  <2> QED
    BY <1>3, <2>1 DEF LSNFor
<1>6. /\ LSNFor(recs[i].seg, recs[i].off + recs[i].len) \in Nat
      /\ LSNFor(recs[j].seg, 0) \in Nat /\ LSNFor(recs[j].seg, e) \in Nat
  <2>1. recs[i].seg * SegCap \in Nat /\ recs[j].seg * SegCap \in Nat
    BY <1>1, ConstantFacts
  <2> QED
    BY <1>2, <1>3, <2>1 DEF LSNFor
<1> QED
  BY <1>4, <1>5, <1>6 DEF EndLSN, e

\* What one segment delivers goes behind what those before it did.
LEMMA DeliversMore ==
  ASSUME TypeOK, RecInv, NEW n \in Nat, NEW v, NEW w, NEW ms,
         \A m \in ms : m \in Nat /\ m < n, Delivers(ms, v), Delivers({n}, w)
  PROVE  Delivers(ms \cup {n}, v \o w)
<1> DEFINE x == v \o w
<1>1. v \in Seq(OutType) /\ w \in Seq(OutType) /\ Len(v) \in Nat /\ Len(w) \in Nat
  BY DEF Delivers
<1>2. /\ x \in Seq(OutType) /\ Len(x) = Len(v) + Len(w)
      /\ \A i \in 1..Len(v) : x[i] = v[i]
      /\ \A i \in 1..Len(x) : i > Len(v) => x[i] = w[i - Len(v)] /\ i - Len(v) \in 1..Len(w)
  BY <1>1
<1> HIDE DEF x
<1>3. \A i \in 1..Len(x) : i \in 1..Len(v) \/ i > Len(v)
  BY <1>1, <1>2
<1>4. ASSUME NEW i \in 1..Len(x)
      PROVE  x[i].id \in DOMAIN recs /\ recs[x[i].id].seg \in ms \cup {n} /\ x[i].lsn = EndLSN(x[i].id)
  <2>1. CASE i \in 1..Len(v)
    BY <1>2, <2>1 DEF Delivers
  <2>2. CASE i > Len(v)
    BY <1>2, <2>2 DEF Delivers
  <2> QED
    BY <1>3, <2>1, <2>2
<1>5. ASSUME NEW i \in 1..Len(x), NEW j \in 1..Len(x), i < j PROVE x[i].lsn < x[j].lsn
  <2>1. CASE j \in 1..Len(v)
    <3>1. i \in 1..Len(v)
      BY <1>1, <1>2, <1>5, <2>1
    <3> QED
      BY <1>2, <1>5, <2>1, <3>1 DEF Delivers
  <2>2. CASE i > Len(v)
    <3>1. j > Len(v) /\ i - Len(v) < j - Len(v)
      BY <1>1, <1>2, <1>5, <2>2
    <3>2. /\ i - Len(v) \in 1..Len(w) /\ j - Len(v) \in 1..Len(w)
          /\ x[i] = w[i - Len(v)] /\ x[j] = w[j - Len(v)]
      BY <1>2, <2>2, <3>1
    <3> QED
      BY <3>1, <3>2 DEF Delivers
  <2>3. CASE i \in 1..Len(v) /\ j > Len(v)
    <3>1. /\ x[i].id \in DOMAIN recs /\ recs[x[i].id].seg \in ms /\ x[i].lsn = EndLSN(x[i].id)
      BY <1>2, <2>3 DEF Delivers
    <3>2. /\ x[j].id \in DOMAIN recs /\ recs[x[j].id].seg = n /\ x[j].lsn = EndLSN(x[j].id)
      BY <1>2, <2>3 DEF Delivers
    <3> QED
      BY <3>1, <3>2, EarlierSegment
  <2> QED
    BY <1>3, <2>1, <2>2, <2>3
<1> QED
  BY <1>2, <1>4, <1>5 DEF Delivers, x

\* The loop of Replay over the segments.
SegmentRound(files, first, min, garble, n, prev) ==
  IF ~ prev.ok \/ n < first THEN prev
  ELSE [recs |-> prev.recs \o ReplaySegment(n, files[n], min, garble).recs,
        ok |-> ReplaySegment(n, files[n], min, garble).ok]
Nothing == [recs |-> <<>>, ok |-> TRUE]
UpToSegment(files, first, min, garble) ==
  LET upTo[n \in Segs] ==
        SegmentRound(files, first, min, garble, n, IF n = 0 THEN Nothing ELSE upTo[n - 1])
  IN  upTo

\* Where the segments' loop starts, and below which LSN nothing is delivered.
FirstSegment(lsn) == IF lsn = NoCp THEN 0 ELSE SegmentOf(lsn)
MinLSN(lsn) == IF lsn = NoCp THEN 0 ELSE lsn

LEMMA ReplayIsLoop ==
  ASSUME NEW files, NEW garble
  PROVE  LET cp == LastCheckpoint(files, garble)
             w == UpToSegment(files, FirstSegment(cp.lsn), MinLSN(cp.lsn), garble)
         IN  Replay(files, garble) =
               IF cp.ok THEN [recs |-> w[MaxSeg].recs, ok |-> w[MaxSeg].ok, cp |-> cp.lsn]
                        ELSE [recs |-> <<>>, ok |-> FALSE, cp |-> NoCp]
BY DEF Replay, UpToSegment, SegmentRound, Nothing, FirstSegment, MinLSN

\* What the loop has delivered after segment n.
ReplayStates(n) ==
  {r \in [recs : Seq(OutType), ok : BOOLEAN] : Delivers(0..n, r.recs)}

LEMMA SegmentRoundType ==
  ASSUME TypeOK, RecInv, NEW files \in [Segs -> Content], \A n \in Segs : Placed(recs, n, files[n]),
         NEW first, NEW min, NEW garble \in {"corrupt", "truncated"}, NEW n \in Segs, NEW prev,
         n > 0 => prev \in ReplayStates(n - 1), n = 0 => prev = Nothing
  PROVE  SegmentRound(files, first, min, garble, n, prev) \in ReplayStates(n)
<1> DEFINE ms == IF n = 0 THEN {} ELSE 0..(n - 1)
           s == ReplaySegment(n, files[n], min, garble)
           r == [recs |-> prev.recs \o s.recs, ok |-> s.ok]
<1>1. n \in Nat
  BY DEF Segs
<1>2. /\ prev \in [recs : Seq(OutType), ok : BOOLEAN] /\ prev.recs \in Seq(OutType)
      /\ Delivers(ms, prev.recs)
  <2>1. CASE n = 0
    <3>1. prev = Nothing /\ <<>> \in Seq(OutType) /\ Nothing.recs = <<>>
      BY <2>1 DEF Nothing
    <3>2. Delivers(ms, <<>>)
      BY DeliversNothing
    <3> QED
      BY <3>1, <3>2 DEF Nothing
  <2>2. CASE n > 0
    BY <2>2 DEF ReplayStates
  <2> QED
    BY <1>1, <2>1, <2>2
<1>3. Delivers({n}, s.recs) /\ s.ok \in BOOLEAN
  BY SegmentDelivers
<1>4. \A m \in ms : m \in Nat /\ m < n
  BY <1>1
<1>5. 0..n = ms \cup {n}
  BY <1>1
<1> HIDE DEF ms, s
<1>6. Delivers(0..n, prev.recs \o s.recs)
  BY <1>1, <1>2, <1>3, <1>4, <1>5, DeliversMore
<1>7. r \in ReplayStates(n)
  <2>1. prev.recs \o s.recs \in Seq(OutType)
    BY <1>6 DEF Delivers
  <2> QED
    BY <1>3, <1>6, <2>1 DEF ReplayStates
<1>8. prev \in ReplayStates(n)
  <2>1. Delivers(0..n, prev.recs)
    BY <1>2, <1>5 DEF Delivers
  <2> QED
    BY <1>2, <2>1 DEF ReplayStates
<1>9. SegmentRound(files, first, min, garble, n, prev) \in {prev, r}
  BY DEF SegmentRound, r, s
<1> QED
  BY <1>7, <1>8, <1>9

\* The rounds of the loop.
LEMMA UpToFacts ==
  ASSUME TypeOK, RecInv, NEW files \in [Segs -> Content], \A n \in Segs : Placed(recs, n, files[n]),
         NEW first, NEW min, NEW garble \in {"corrupt", "truncated"}
  PROVE  LET w == UpToSegment(files, first, min, garble) IN
         /\ w[0] = SegmentRound(files, first, min, garble, 0, Nothing)
         /\ \A n \in 1..MaxSeg : w[n] = SegmentRound(files, first, min, garble, n, w[n - 1])
         /\ \A n \in Segs : w[n] \in ReplayStates(n)
<1> DEFINE K == MaxSeg
           R(n, v) == SegmentRound(files, first, min, garble, n, v)
           T == [recs : Seq(OutType), ok : BOOLEAN]
           a == R(0, Nothing)
           St == [n \in 0..K |-> ReplayStates(n)]
           round == [x \in (1..K) \X T |-> R(x[1], x[2])]
           Body(f) == [n \in 0..K |-> R(n, IF n = 0 THEN Nothing ELSE f[n - 1])]
           w == UpToSegment(files, first, min, garble)
<1>1. K \in Nat /\ Segs = 0..K
  BY ConstantFacts DEF Segs
<1>2. w = CHOOSE f : f = Body(f)
  BY <1>1 DEF UpToSegment
<1>3. /\ a \in ReplayStates(0)
      /\ \A n \in 1..K : \A v \in ReplayStates(n - 1) : R(n, v) \in ReplayStates(n)
  <2>1. 0 \in Segs /\ ~ (0 > 0)
    BY <1>1
  <2>2. a \in ReplayStates(0)
    BY <2>1, SegmentRoundType
  <2>3. ASSUME NEW n \in 1..K, NEW v \in ReplayStates(n - 1) PROVE R(n, v) \in ReplayStates(n)
    <3>1. n \in Segs /\ n # 0
      BY <1>1
    <3> QED
      BY <2>3, <3>1, SegmentRoundType
  <2> QED
    BY <2>2, <2>3
<1>4. \A n \in 0..K : ReplayStates(n) \in SUBSET T
  BY DEF ReplayStates
<1> HIDE DEF K, a, R, T
<1>5. \A n \in 0..K : St[n] = ReplayStates(n)
  OBVIOUS
<1>6. \A i \in 1..K : i \in 0..K /\ i # 0 /\ i - 1 \in 0..K
  BY <1>1
<1>7. \A i \in 1..K : \A v \in St[i - 1] : round[<<i, v>>] = R(i, v)
  <2> SUFFICES ASSUME NEW i \in 1..K, NEW v \in St[i - 1] PROVE round[<<i, v>>] = R(i, v)
    OBVIOUS
  <2>1. v \in T
    BY <1>4, <1>5, <1>6
  <2> QED
    BY <2>1
<1> HIDE DEF round, St
<1>8. \A i \in 1..K : \A v \in St[i - 1] : round[<<i, v>>] \in St[i]
  BY <1>3, <1>5, <1>6, <1>7
<1>9. a \in St[0]
  BY <1>1, <1>3, <1>5
<1> DEFINE g == Loop(K, a, round)
<1>10. /\ g = [i \in 0..K |-> IF i = 0 THEN a ELSE round[<<i, g[i - 1]>>]]
       /\ \A i \in 0..K : g[i] \in St[i]
  BY <1>1, <1>8, <1>9, LoopExists
<1> HIDE DEF g
<1>11. g = Body(g)
  <2>1. \A i \in 0..K : i # 0 => round[<<i, g[i - 1]>>] = R(i, g[i - 1])
    <3> SUFFICES ASSUME NEW i \in 0..K, i # 0 PROVE round[<<i, g[i - 1]>>] = R(i, g[i - 1])
      OBVIOUS
    <3>1. i \in 1..K /\ i - 1 \in 0..K
      BY <1>1
    <3>2. g[i - 1] \in St[i - 1]
      BY <1>10, <3>1
    <3> QED
      BY <1>7, <3>1, <3>2
  <2>2. \A i \in 0..K : g[i] = R(i, IF i = 0 THEN Nothing ELSE g[i - 1])
    <3> SUFFICES ASSUME NEW i \in 0..K PROVE g[i] = R(i, IF i = 0 THEN Nothing ELSE g[i - 1])
      OBVIOUS
    <3>1. g[i] = IF i = 0 THEN a ELSE round[<<i, g[i - 1]>>]
      BY <1>10
    <3>2. CASE i = 0
      BY <3>1, <3>2 DEF a
    <3>3. CASE i # 0
      BY <2>1, <3>1, <3>3
    <3> QED
      BY <3>2, <3>3
  <2>3. g = [i \in 0..K |-> g[i]]
    BY <1>10
  <2> QED
    BY <2>2, <2>3
<1>12. w = Body(w)
  <2> HIDE DEF w, Body
  <2> QED
    BY <1>2, <1>11
<1>13. w[0] = a /\ \A n \in 1..K : w[n] = R(n, w[n - 1])
  <2> HIDE DEF w
  <2>1. 0 \in 0..K
    BY <1>1
  <2>2. \A n \in 0..K : w[n] = R(n, IF n = 0 THEN Nothing ELSE w[n - 1])
    BY <1>12
  <2>3. w[0] = a
    BY <2>1, <2>2 DEF a
  <2> QED
    BY <1>6, <2>2, <2>3
<1>14. \A n \in 0..K : w[n] \in St[n]
  <2> HIDE DEF w
  <2>1. \A n \in 1..K : w[n - 1] \in St[n - 1] => w[n] \in St[n]
    BY <1>3, <1>5, <1>6, <1>13
  <2>2. w[0] \in St[0]
    BY <1>9, <1>13
  <2> QED
    BY <1>1, <2>1, <2>2, LoopStays
<1> QED
  BY <1>1, <1>5, <1>13, <1>14 DEF K, R, a

\* What a replay of files with their units in place delivers.
LEMMA ReplayDelivers ==
  ASSUME TypeOK, RecInv, NEW files \in [Segs -> Content], \A n \in Segs : Placed(recs, n, files[n]),
         NEW garble \in {"corrupt", "truncated"}
  PROVE  Delivers(Segs, Replay(files, garble).recs)
<1> DEFINE cp == LastCheckpoint(files, garble)
           w == UpToSegment(files, FirstSegment(cp.lsn), MinLSN(cp.lsn), garble)
<1>1. MaxSeg \in Segs /\ Segs = 0..MaxSeg
  BY ConstantFacts DEF Segs
<1>2. w[MaxSeg] \in ReplayStates(MaxSeg)
  <2>1. \A n \in Segs : w[n] \in ReplayStates(n)
    <3> HIDE DEF cp
    <3> QED
      BY UpToFacts
  <2> QED
    BY <1>1, <2>1
<1>3. Replay(files, garble) = IF cp.ok THEN [recs |-> w[MaxSeg].recs, ok |-> w[MaxSeg].ok, cp |-> cp.lsn]
                              ELSE [recs |-> <<>>, ok |-> FALSE, cp |-> NoCp]
  BY ReplayIsLoop
<1> HIDE DEF w, cp
<1>4. Delivers(Segs, w[MaxSeg].recs) /\ Delivers(Segs, <<>>)
  BY <1>1, <1>2, DeliversNothing DEF ReplayStates
<1> QED
  BY <1>3, <1>4

(***************************************************************************)
(* The theorem                                                              *)
(***************************************************************************)

DeliveredInv == Delivers(Segs, delivered)

ReplayInv == Inv /\ PlacedInv /\ DeliveredInv

LEMMA DeliveredKeep ==
  ASSUME TypeOK, DeliveredInv, delivered' = delivered,
         recs' = recs \/ \E len, cp : LogGrown(len, cp)
  PROVE  DeliveredInv'
<1>1. \A i \in DOMAIN recs : i \in DOMAIN recs' /\ recs'[i] = recs[i]
  BY DEF LogGrown
<1> QED
  BY <1>1 DEF DeliveredInv, Delivers, EndLSN

LEMMA DeliveredStep == Inv /\ PlacedInv /\ DeliveredInv /\ [Next]_vars => DeliveredInv'
<1> SUFFICES ASSUME Inv, PlacedInv, DeliveredInv, [Next]_vars PROVE DeliveredInv'
  OBVIOUS
<1>0. Shape /\ TypeOK /\ RecInv
  BY DEF Inv, Shape
<1>1. CASE Reopen
  <2>1. PICK garble \in {"corrupt", "truncated"} : delivered' = Replay(cache, garble).recs
    BY <1>1 DEF Reopen
  <2>2. recs' = recs
    BY <1>1 DEF Reopen
  <2>3. Delivers(Segs, Replay(cache, garble).recs)
    BY <1>0, ReplayDelivers DEF PlacedInv, TypeOK
  <2> QED
    BY <2>1, <2>2, <2>3 DEF DeliveredInv, Delivers, EndLSN
<1>2. CASE ~ Reopen
  <2>1. recs' = recs \/ \E len, cp : LogGrown(len, cp)
    BY <1>0, StepKinds DEF StepKind, Appending, Keeping, Reopening
  <2>2. delivered' = delivered
    BY <1>2 DEF Next, AppendRecord, AsyncStep, AppendFirst, AppendBuffered, AppendOverflow,
       AppendRotate, AppendRotateFails, FlushFails, SyncNothing, Sync, SyncFsyncFails, SyncAsync,
       SyncAsyncNothing, AsyncFsync, AsyncFails, AsyncDone, CloseBegin, CloseEnd, Exit, Crash, vars
  <2> QED
    BY <1>0, <2>1, <2>2, DeliveredKeep
<1> QED
  BY <1>1, <1>2

LEMMA ReplayInvAlways == Spec => []ReplayInv
<1>1. Init => ReplayInv
  <2> SUFFICES ASSUME Init PROVE ReplayInv
    OBVIOUS
  <2>1. delivered = <<>>
    BY DEF Init
  <2> QED
    BY <2>1, InvInit, PlacedInit, DeliversNothing DEF ReplayInv, DeliveredInv
<1>2. ReplayInv /\ [Next]_vars => ReplayInv'
  BY InvStep, PlacedStep, DeliveredStep DEF ReplayInv, Inv
<1> QED
  BY <1>1, <1>2, PTL DEF Spec

\* A replay delivers records of the log, each once and in LSN order, whatever a crash left
\* of the files and whatever an earlier life left behind the end of this one's log (Replay,
\* replaySegment, forEachRecord), for every size of the segments and of the read buffer.
THEOREM ReplayStaysOrdered == Spec => []ReplayOrdered
<1>1. ReplayInv => ReplayOrdered
  <2> SUFFICES ASSUME ReplayInv PROVE ReplayOrdered
    OBVIOUS
  <2>1. TypeOK /\ RecInv /\ Delivers(Segs, delivered)
    BY DEF ReplayInv, DeliveredInv, Inv, Shape
  <2>2. delivered \in Seq(OutType) /\ DOMAIN delivered = 1..Len(delivered) /\ Len(delivered) \in Nat
    BY <2>1 DEF Delivers
  <2>3. ASSUME NEW i \in DOMAIN recs PROVE EndLSN(i) \in LSNs /\ EndLSN(i) \in Nat
    <3>1. recs[i].seg \in Segs /\ recs[i].off + recs[i].len \in 0..SegCap
      BY <2>1, RecordFacts, ConstantFacts DEF RecInv
    <3> QED
      BY <3>1, LSNType DEF EndLSN
  <2>4. ASSUME NEW i \in DOMAIN delivered
        PROVE  delivered[i].id \in DOMAIN recs /\ delivered[i].lsn \in LSNs
    BY <2>1, <2>2, <2>3 DEF Delivers
  <2>5. ASSUME NEW i \in DOMAIN delivered, NEW j \in DOMAIN delivered, i < j
        PROVE  delivered[i].lsn < delivered[j].lsn /\ delivered[i].id # delivered[j].id
    <3>1. delivered[i].lsn < delivered[j].lsn
      BY <2>1, <2>2, <2>5 DEF Delivers
    <3>2. /\ delivered[i].lsn = EndLSN(delivered[i].id) /\ delivered[j].lsn = EndLSN(delivered[j].id)
          /\ EndLSN(delivered[i].id) \in Nat
      BY <2>1, <2>2, <2>3 DEF Delivers
    <3> QED
      BY <3>1, <3>2
  <2> QED
    BY <2>4, <2>5 DEF ReplayOrdered
<1> QED
  BY <1>1, ReplayInvAlways, PTL

(***************************************************************************)
(* Scans of intact files                                                    *)
(***************************************************************************)

\* In an intact file the records start where a first part is, and lie end to end.
LEMMA IntactStarts ==
  ASSUME NEW c \in Content, AllWhole(c)
  PROVE  /\ \A q \in Starts(c) : q \in Nat /\ IsRecord(c, q)
         /\ \A q \in Nat : IsRecord(c, q) => q \in Starts(c)
<1>1. Len(c) \in Nat
  BY DEF Content
<1>2. ASSUME NEW q \in Starts(c) PROVE q \in Nat /\ IsRecord(c, q)
  <2>1. q \in 1..(Len(c) - 1) /\ c[q + 1].part = 1
    BY DEF Starts
  <2>2. PICK p \in 1..q : WholeAt(c, p) /\ q < p + c[p + 1].len
    BY <2>1 DEF AllWhole
  <2> DEFINE u == c[p + 1]
             i == q - p + 1
  <2>3. u.len \in Nat
    <3>1. p + 1 \in 1..Len(c) /\ c \in Seq(UnitType)
      BY <1>1, <2>1, <2>2 DEF Content
    <3>2. u \in UnitType
      BY <3>1, ElementOfSeq
    <3> QED
      BY <3>2, ConstantFacts DEF UnitType
  <2>4. i \in 1..u.len /\ p + i = q + 1
    BY <2>1, <2>2, <2>3
  <2>5. \A k \in 1..u.len : c[p + k] = Unit(u.id, k, u.len, u.cp)
    BY <2>2 DEF WholeAt
  <2> HIDE DEF u, i
  <2>6. c[p + i] = Unit(u.id, i, u.len, u.cp)
    BY <2>4, <2>5
  <2>7. c[q + 1].part = i
    BY <2>4, <2>6 DEF Unit
  <2>8. p = q
    BY <2>1, <2>2, <2>7 DEF i
  <2> QED
    BY <2>1, <2>2, <2>3, <2>8 DEF IsRecord, u
<1>3. ASSUME NEW q \in Nat, IsRecord(c, q) PROVE q \in Starts(c)
  BY <1>3 DEF IsRecord, WholeAt, Starts
<1> QED
  BY <1>2, <1>3

\* The parts of a record behind its first are not first parts.
LEMMA InsideRecord ==
  ASSUME NEW c \in Content, NEW p \in Nat, IsRecord(c, p)
  PROVE  /\ c[p + 1].len \in Nat /\ p + c[p + 1].len \in Nat /\ p + c[p + 1].len <= Len(c)
         /\ \A q \in Nat : p < q /\ q < p + c[p + 1].len => ~ IsRecord(c, q)
<1>1. Len(c) \in Nat /\ p \in 1..(Len(c) - 1)
  BY DEF Content, IsRecord
<1> DEFINE u == c[p + 1]
<1>2. u.len \in Nat
  <2>1. p + 1 \in 1..Len(c) /\ c \in Seq(UnitType)
    BY <1>1 DEF Content
  <2>2. u \in UnitType
    BY <2>1, ElementOfSeq
  <2> QED
    BY <2>2, ConstantFacts DEF UnitType
<1>3. p + u.len <= Len(c) /\ \A k \in 1..u.len : c[p + k] = Unit(u.id, k, u.len, u.cp)
  BY DEF IsRecord, WholeAt
<1> HIDE DEF u
<1>4. ASSUME NEW q \in Nat, p < q, q < p + u.len PROVE ~ IsRecord(c, q)
  <2> DEFINE k == q - p + 1
  <2>1. k \in 1..u.len /\ p + k = q + 1 /\ k # 1
    BY <1>2, <1>4
  <2> HIDE DEF k
  <2>2. c[p + k] = Unit(u.id, k, u.len, u.cp)
    BY <1>3, <2>1
  <2>3. c[q + 1].part = k
    BY <2>1, <2>2 DEF Unit
  <2> QED
    BY <2>1, <2>3 DEF IsRecord, WholeAt
<1> QED
  BY <1>1, <1>2, <1>3, <1>4 DEF u

\* Behind a record comes the next, or the end of the file.
LEMMA NextRecord ==
  ASSUME NEW c \in Content, AllWhole(c), NEW p \in Nat, IsRecord(c, p)
  PROVE  p + c[p + 1].len = Len(c) \/ IsRecord(c, p + c[p + 1].len)
<1> DEFINE o == p + c[p + 1].len
<1>1. /\ c[p + 1].len \in Nat /\ o \in Nat /\ o <= Len(c) /\ p >= 1 /\ p < o
      /\ \A q \in Nat : p < q /\ q < o => ~ IsRecord(c, q)
  BY InsideRecord DEF IsRecord
<1>2. Len(c) \in Nat
  BY DEF Content
<1> HIDE DEF o
<1> SUFFICES ASSUME o < Len(c) PROVE IsRecord(c, o)
  BY <1>1, <1>2 DEF o
<1>3. PICK q \in 1..o : WholeAt(c, q) /\ o < q + c[q + 1].len
  BY <1>1, <1>2 DEF AllWhole
<1>4. q \in Nat /\ q <= o /\ IsRecord(c, q)
  <2>1. q \in 1..(Len(c) - 1)
    BY <1>1, <1>2, <1>3
  <2>2. c[q + 1].len \in Nat
    <3>1. q + 1 \in 1..Len(c) /\ c \in Seq(UnitType)
      BY <1>2, <2>1 DEF Content
    <3>2. c[q + 1] \in UnitType
      BY <3>1, ElementOfSeq
    <3> QED
      BY <3>2, ConstantFacts DEF UnitType
  <2>3. c[q + 1].len > 0
    BY <1>1, <1>3, <2>1, <2>2
  <2> QED
    BY <1>3, <2>1, <2>3 DEF IsRecord
<1>5. \A r \in Nat : q < r /\ r < q + c[q + 1].len => ~ IsRecord(c, r)
  BY <1>4, InsideRecord
<1>6. ~ (p < q /\ q < o)
  BY <1>1, <1>4
<1>7. ~ (q < p)
  <2>1. q < p => p < q + c[q + 1].len
    <3>1. q + c[q + 1].len \in Nat
      BY <1>4, InsideRecord
    <3> QED
      BY <1>1, <1>3, <1>4, <3>1
  <2> QED
    BY <1>5, <2>1
<1>8. q # p
  BY <1>1, <1>3 DEF o
<1>9. q = o
  BY <1>1, <1>4, <1>6, <1>7, <1>8
<1> QED
  BY <1>4, <1>9

\* Records do not overlap.
LEMMA RecordsApart ==
  ASSUME NEW c \in Content, NEW p \in Nat, NEW q \in Nat, IsRecord(c, p), IsRecord(c, q), p < q
  PROVE  RecordAt(c, p).end <= q /\ RecordAt(c, p).end \in Nat
<1>1. /\ p + c[p + 1].len \in Nat
      /\ \A r \in Nat : p < r /\ r < p + c[p + 1].len => ~ IsRecord(c, r)
  BY InsideRecord
<1>2. RecordAt(c, p).end = p + c[p + 1].len
  BY DEF RecordAt
<1> QED
  BY <1>1, <1>2

\* How far the scan of an intact file is after k rounds: every record before offset p, and
\* no other, was found, and the rounds did not outrun the offset.
IntactStates(c, k) ==
  {s \in ScanStates(c) :
     /\ s.b = 1 /\ s.st \in {"more", "nil"}
     /\ s.p = Len(c) \/ IsRecord(c, s.p)
     /\ s.st = "more" => k < s.p
     /\ s.st = "nil" => s.p = Len(c)
     /\ \A q \in Nat : IsRecord(c, q) /\ q < s.p => \E i \in 1..Len(s.recs) : s.recs[i] = RecordAt(c, q)}

LEMMA IntactStart ==
  ASSUME NEW c \in Content, Intact(c), c # <<>>
  PROVE  ScanStart \in IntactStates(c, 0)
<1>1. ScanStart \in ScanStates(c) /\ Len(c) >= 1 /\ Len(c) \in Nat
  BY ScanStartType DEF Content
<1>2. Len(c) = 1 \/ IsRecord(c, 1)
  <2>0. Len(c) = 1 \/ Len(c) > 1
    <3> DEFINE n == Len(c)
    <3>1. n \in Nat /\ n >= 1
      BY <1>1
    <3> HIDE DEF n
    <3>2. n = 1 \/ n > 1
      BY <3>1
    <3> QED
      BY <3>2 DEF n
  <2> SUFFICES ASSUME Len(c) > 1 PROVE IsRecord(c, 1)
    BY <2>0
  <2>1. PICK p \in 1..1 : WholeAt(c, p) /\ 1 < p + c[p + 1].len
    <3>1. 1 \in 1..(Len(c) - 1)
      BY <1>1
    <3> QED
      BY <3>1 DEF Intact, AllWhole
  <2>2. p = 1 /\ WholeAt(c, 1) /\ 1 < 1 + c[2].len
    BY <2>1
  <2>3. c[2] \in UnitType
    <3>1. 2 \in 1..Len(c) /\ c \in Seq(UnitType)
      BY <1>1 DEF Content
    <3> QED
      BY <3>1, ElementOfSeq
  <2>4. c[2].len \in Nat /\ 1 + 1 = 2
    BY <2>3, ConstantFacts DEF UnitType
  <2> QED
    BY <1>1, <2>2, <2>4 DEF IsRecord
<1>3. \A q \in Nat : ~ (IsRecord(c, q) /\ q < 1)
  BY DEF IsRecord
<1> QED
  <2>1. ScanStart.b = 1 /\ ScanStart.p = 1 /\ ScanStart.st = "more" /\ 0 < 1
    BY DEF ScanStart
  <2>2. ScanStart.p = Len(c) \/ IsRecord(c, ScanStart.p)
    BY <1>2, <2>1
  <2>3. \A q \in Nat : IsRecord(c, q) /\ q < ScanStart.p =>
           \E i \in 1..Len(ScanStart.recs) : ScanStart.recs[i] = RecordAt(c, q)
    BY <1>3, <2>1
  <2> QED
    BY <1>1, <2>1, <2>2, <2>3 DEF IntactStates

LEMMA IntactStep ==
  ASSUME NEW c \in Content, Intact(c), c # <<>>, NEW garble \in {"corrupt", "truncated"},
         NEW k \in Nat, k >= 1, NEW s \in IntactStates(c, k - 1)
  PROVE  ScanStep(c, garble, s) \in IntactStates(c, k)
<1> DEFINE t == ScanStep(c, garble, s)
<1>1. /\ s \in ScanStates(c) /\ s.b = 1 /\ s.st \in {"more", "nil"}
      /\ s.p = Len(c) \/ IsRecord(c, s.p)
      /\ s.st = "more" => k - 1 < s.p
      /\ s.st = "nil" => s.p = Len(c)
      /\ \A q \in Nat : IsRecord(c, q) /\ q < s.p => \E i \in 1..Len(s.recs) : s.recs[i] = RecordAt(c, q)
  BY DEF IntactStates
<1>2. /\ s.p \in Nat /\ s.p >= 1 /\ s.recs \in Seq(FoundType) /\ Len(s.recs) \in Nat
      /\ s \in [b : Nat, p : Nat, recs : Seq(FoundType), st : {"more", "nil", "corrupt"}]
  BY <1>1 DEF ScanStates
<1>3. t \in ScanStates(c)
  BY <1>1, ScanStepType
<1>4. Len(c) \in Nat /\ Len(c) >= 1 /\ ChunkEnd(c, 1) = Len(c)
  <2>1. Len(c) \in Nat /\ Len(c) >= 1 /\ Len(c) <= 1 + Chunk /\ Chunk \in Nat
    BY SegmentAssumption DEF Content, Intact
  <2> QED
    BY <2>1 DEF ChunkEnd
<1>5. CASE s.st # "more"
  <2>1. t = s
    BY <1>1, <1>5, StepCases
  <2> QED
    BY <1>1, <1>5, <2>1 DEF IntactStates
<1>6. CASE s.st = "more" /\ s.p = Len(c)
  <2>1. NextOffset(s.b, s.p) >= Len(c)
    BY <1>1, <1>2, <1>4, <1>6 DEF NextOffset
  <2>2. t = ScanEnds(s, "nil")
    BY <1>1, <1>4, <1>6, <2>1, <1>2, StepCases
  <2>3. t.b = s.b /\ t.p = s.p /\ t.recs = s.recs /\ t.st = "nil"
    BY <1>2, <2>2 DEF ScanEnds
  <2> HIDE DEF t
  <2> QED
    BY <1>1, <1>3, <1>6, <2>3 DEF IntactStates, t
<1>7. CASE s.st = "more" /\ s.p # Len(c)
  <2> DEFINE p == s.p
             o == p + c[p + 1].len
  <2>1. IsRecord(c, p) /\ p < Len(c) /\ p \in Nat
    BY <1>1, <1>2, <1>7 DEF IsRecord
  <2>2. /\ c[p + 1].len \in Nat /\ o \in Nat /\ o <= Len(c) /\ p < o
        /\ \A q \in Nat : p < q /\ q < o => ~ IsRecord(c, q)
    <3>1. c[p + 1].len > 0
      BY <2>1 DEF IsRecord
    <3>2. /\ c[p + 1].len \in Nat /\ o \in Nat /\ o <= Len(c)
          /\ \A q \in Nat : p < q /\ q < o => ~ IsRecord(c, q)
      <4> HIDE DEF p
      <4> QED
        BY <2>1, InsideRecord
    <3> QED
      BY <2>1, <3>1, <3>2
  <2>3. o = Len(c) \/ IsRecord(c, o)
    BY <2>1, NextRecord DEF Intact
  <2>4. Decode(c, p, Len(c), garble) = "record"
    <3>1. WholeAt(c, p) /\ c[p + 1].part = 1 /\ c[p + 1].len > 0
      BY <2>1 DEF IsRecord, WholeAt
    <3>2. p + c[p + 1].len <= Len(c) /\ ~ (p + c[p + 1].len > Len(c))
      BY <1>4, <2>2
    <3> HIDE DEF p, o
    <3> QED
      BY <2>2, <3>1, <3>2 DEF Decode
  <2>5. t = ScanRecord(s, c[p + 1])
    BY <1>1, <1>4, <1>7, <2>1, <2>4, StepCases
  <2>6. t = [s EXCEPT !.p = o, !.recs = Append(s.recs, RecordAt(c, p))]
    BY <2>5 DEF ScanRecord, RecordAt
  <2> HIDE DEF p, o, t
  <2>7. t.b = s.b /\ t.p = o /\ t.recs = Append(s.recs, RecordAt(c, p)) /\ t.st = "more"
    BY <1>2, <1>7, <2>6
  <2>8. /\ Len(t.recs) = Len(s.recs) + 1 /\ t.recs[Len(s.recs) + 1] = RecordAt(c, p)
        /\ \A i \in 1..Len(s.recs) : t.recs[i] = s.recs[i] /\ i \in 1..Len(t.recs)
        /\ Len(s.recs) + 1 \in 1..Len(t.recs)
    <3>1. t.recs \in Seq(FoundType)
      BY <1>3 DEF ScanStates, t
    <3>2. RecordAt(c, p) \in FoundType
      <4>1. c[p + 1] \in UnitType
        <5>1. p + 1 \in 1..Len(c) /\ c \in Seq(UnitType)
          BY <1>4, <2>1 DEF Content
        <5> QED
          BY <5>1, ElementOfSeq
      <4> QED
        BY <2>2, <4>1 DEF RecordAt, FoundType, UnitType, o
    <3> QED
      BY <1>2, <2>7, <3>2
  <2>9. ASSUME NEW q \in Nat, IsRecord(c, q), q < o
        PROVE  \E i \in 1..Len(t.recs) : t.recs[i] = RecordAt(c, q)
    <3>1. CASE q < p
      BY <1>1, <2>8, <2>9, <3>1 DEF p
    <3>2. CASE q = p
      BY <2>8, <3>2
    <3> QED
      BY <2>1, <2>2, <2>9, <3>1, <3>2
  <2>10. k < o
    BY <1>1, <1>7, <2>1, <2>2 DEF p
  <2> QED
    BY <1>1, <1>3, <2>3, <2>7, <2>9, <2>10 DEF IntactStates, t
<1> QED
  BY <1>5, <1>6, <1>7

\* The scan of an intact file finds every record of it, and returns nil.
LEMMA IntactScan ==
  ASSUME NEW c \in Content, Intact(c), NEW garble \in {"corrupt", "truncated"}
  PROVE  LET s == Scan(c, garble) IN
         /\ s.ok = TRUE /\ FoundIn(c, s.recs, Len(c))
         /\ \A q \in Nat : IsRecord(c, q) => \E i \in 1..Len(s.recs) : s.recs[i] = RecordAt(c, q)
<1>1. FoundIn(c, Scan(c, garble).recs, Len(c))
  BY ScanFacts
<1>2. CASE c = <<>>
  <2>1. Scan(c, garble) = [recs |-> <<>>, ok |-> TRUE]
    BY <1>2, ScanIsRun
  <2>2. \A q \in Nat : ~ IsRecord(c, q)
    BY <1>2 DEF IsRecord
  <2> QED
    BY <1>1, <2>1, <2>2
<1>3. CASE c # <<>>
  <2> DEFINE K == 2 * Len(c)
             w == Run(c, garble)
             s == w[K]
             St == [k \in 0..K |-> IntactStates(c, k)]
  <2>1. K \in Nat /\ w[0] = ScanStart /\ \A k \in 1..K : w[k] = ScanStep(c, garble, w[k - 1])
    BY <1>3, RunFacts
  <2>2. Scan(c, garble) = [recs |-> s.recs, ok |-> s.st = "nil"]
    <3>1. c[1] = Header
      BY <1>3 DEF Intact, AllWhole
    <3> HIDE DEF w
    <3> QED
      BY <1>3, <3>1, ScanIsRun DEF w, K
  <2>3. ScanStart \in IntactStates(c, 0)
    BY <1>3, IntactStart
  <2>4. \A k \in 1..K : \A v \in IntactStates(c, k - 1) : ScanStep(c, garble, v) \in IntactStates(c, k)
    <3> SUFFICES ASSUME NEW k \in 1..K, NEW v \in IntactStates(c, k - 1)
                 PROVE  ScanStep(c, garble, v) \in IntactStates(c, k)
      OBVIOUS
    <3>1. k \in Nat /\ k >= 1
      BY <2>1
    <3> QED
      BY <1>3, <3>1, IntactStep
  <2>5. Len(c) \in Nat /\ Len(c) >= 1
    BY <1>3 DEF Content
  <2> HIDE DEF w
  <2>6. \A k \in 0..K : w[k] \in St[k]
    <3> HIDE DEF K
    <3>1. \A k \in 0..K : St[k] = IntactStates(c, k)
      OBVIOUS
    <3>2. 0 \in 0..K /\ \A k \in 1..K : k \in 0..K /\ k - 1 \in 0..K
      BY <2>1
    <3> HIDE DEF St
    <3>3. w[0] \in St[0] /\ \A k \in 1..K : w[k - 1] \in St[k - 1] => w[k] \in St[k]
      BY <2>1, <2>3, <2>4, <3>1, <3>2
    <3> QED
      BY <2>1, <3>3, LoopStays
  <2>7. s \in IntactStates(c, K)
    <3>1. K \in 0..K
      BY <2>1
    <3> HIDE DEF K
    <3> QED
      BY <2>6, <3>1
  <2>8. s.st \in {"more", "nil"} /\ (s.st = "more" => K < s.p) /\ s.p \in Nat /\ s.p <= Len(c)
    <3>1. s \in ScanStates(c) /\ s.b = 1 /\ s.st \in {"more", "nil"} /\ (s.st = "more" => K < s.p)
      BY <2>7 DEF IntactStates
    <3> HIDE DEF s, K
    <3>2. s.p \in Nat /\ s.p <= ChunkEnd(c, s.b)
      BY <3>1 DEF ScanStates
    <3>3. ChunkEnd(c, s.b) \in Nat /\ ChunkEnd(c, s.b) <= Len(c)
      BY <3>1, ChunkInside
    <3> QED
      BY <2>5, <3>1, <3>2, <3>3
  <2>9. s.st = "nil"
    <3> HIDE DEF s
    <3> QED
      BY <2>5, <2>8
  <2>10. \A q \in Nat : IsRecord(c, q) => \E i \in 1..Len(s.recs) : s.recs[i] = RecordAt(c, q)
    <3>1. s.p = Len(c) /\ \A q \in Nat : IsRecord(c, q) /\ q < s.p =>
                            \E i \in 1..Len(s.recs) : s.recs[i] = RecordAt(c, q)
      BY <2>7, <2>9 DEF IntactStates
    <3>2. \A q \in Nat : IsRecord(c, q) => q < Len(c)
      BY <2>5 DEF IsRecord
    <3> HIDE DEF s
    <3> QED
      BY <3>1, <3>2
  <2> HIDE DEF s
  <2>11. Scan(c, garble).recs = s.recs /\ Scan(c, garble).ok = TRUE
    <3> DEFINE b == s.st = "nil"
    <3>1. b = TRUE
      BY <2>9
    <3>2. Scan(c, garble) = [recs |-> s.recs, ok |-> b]
      BY <2>2
    <3> HIDE DEF b
    <3>3. Scan(c, garble).recs = s.recs /\ Scan(c, garble).ok = b
      BY <3>2
    <3> QED
      BY <3>1, <3>3
  <2> QED
    BY <1>1, <2>10, <2>11
<1> QED
  BY <1>2, <1>3


(***************************************************************************)
(* What checkpoint records carry                                            *)
(***************************************************************************)

\* The LSN of a checkpoint record is inside a segment, not at an end of it.
Inside(lsn) == \E n \in Segs : \E off \in 1..(SegCap - 1) : lsn = LSNFor(n, off)
CpInv == \A i \in DOMAIN recs : recs[i].cp = NoCp \/ Inside(recs[i].cp)

\* Where the log grows, it grows by a record whose checkpoint LSN, if any, is a record's.
LEMMA RecsGrow ==
  ASSUME Shape, [Next]_vars
  PROVE  recs' = recs \/ \E len \in Lens : \E cp \in CpValues(len) : LogGrown(len, cp)
<1> DEFINE P == recs' = recs \/ \E len \in Lens : \E cp \in CpValues(len) : LogGrown(len, cp)
<1>1. ASSUME Room, NEW len \in Lens, NEW cp \in CpValues(len),
             AppendFirst(len, cp) \/ AppendBuffered(len, cp) \/ AppendOverflow(len, cp)
             \/ AppendRotate(len, cp)
      PROVE  P
  <2>1. LogGrown(len, cp)
    BY <1>1, FirstEffect, BufferedEffect, OverflowEffect, RotateEffect
  <2> QED
    BY <2>1
<1>2. \A len \in Lens : AppendRotateFails(len) => recs' = recs
  BY DEF AppendRotateFails
<1>3. \A f \in inflight : (AsyncFsync(f) \/ AsyncFails(f) \/ AsyncDone(f)) => recs' = recs
  BY DEF AsyncFsync, AsyncFails, AsyncDone
<1>4. (FlushFails \/ SyncNothing \/ Sync \/ SyncFsyncFails \/ SyncAsync \/ SyncAsyncNothing
       \/ CloseBegin \/ CloseEnd \/ Exit \/ Crash \/ Reopen) => recs' = recs
  BY DEF FlushFails, SyncNothing, Sync, SyncFsyncFails, SyncAsync, SyncAsyncNothing,
         CloseBegin, CloseEnd, Exit, Crash, Reopen
<1>5. vars' = vars => recs' = recs
  BY DEF vars
<1>6. recs' = recs => P
  OBVIOUS
<1> HIDE DEF P
<1>7. P
  BY <1>1, <1>2, <1>3, <1>4, <1>5, <1>6, NextSteps
<1> QED
  BY <1>7 DEF P

LEMMA CpInit == Init => CpInv
<1> SUFFICES ASSUME Init PROVE CpInv
  OBVIOUS
<1>1. recs = <<>>
  BY DEF Init
<1>2. DOMAIN recs = {}
  BY <1>1
<1> QED
  BY <1>2 DEF CpInv

LEMMA CpStep == Shape /\ RecInv /\ CpInv /\ [Next]_vars => CpInv'
<1> SUFFICES ASSUME Shape, RecInv, CpInv, [Next]_vars PROVE CpInv'
  OBVIOUS
<1>0. TypeOK
  BY DEF Shape
<1>1. CASE recs' = recs
  BY <1>1 DEF CpInv
<1>2. ASSUME NEW len \in Lens, NEW cp \in CpValues(len), LogGrown(len, cp) PROVE CpInv'
  <2>1. cp = NoCp \/ Inside(cp)
    <3> SUFFICES ASSUME cp # NoCp PROVE Inside(cp)
      OBVIOUS
    <3>1. PICK i \in Mine : cp = LSNFor(recs[i].seg, recs[i].off)
      BY DEF CpValues
    <3>2. /\ i \in DOMAIN recs /\ recs[i].seg \in Segs /\ recs[i].off \in 1..SegCap
          /\ recs[i].len \in Lens /\ recs[i].off + recs[i].len <= SegCap
      BY <1>0, <3>1, RecordFacts DEF Mine, RecInv
    <3>3. recs[i].off \in 1..(SegCap - 1)
      <4>1. recs[i].len \in Nat /\ recs[i].len >= 1 /\ SegCap \in Nat
        BY <3>2, ConstantFacts
      <4> QED
        BY <3>2, <4>1
    <3> QED
      BY <3>1, <3>2, <3>3 DEF Inside
  <2> SUFFICES ASSUME NEW i \in DOMAIN recs' PROVE recs'[i].cp = NoCp \/ Inside(recs'[i].cp)
    BY DEF CpInv, Inside
  <2>2. CASE i = Len(recs) + 1
    <3>1. recs'[i].cp = cp
      BY <1>2, <2>2 DEF LogGrown, NewRecord
    <3> QED
      BY <2>1, <3>1
  <2>3. CASE i # Len(recs) + 1
    <3>1. i \in DOMAIN recs /\ recs'[i] = recs[i]
      BY <1>2, <2>3 DEF LogGrown
    <3> QED
      BY <3>1 DEF CpInv
  <2> QED
    BY <2>2, <2>3
<1> QED
  BY <1>1, <1>2, RecsGrow

\* Records of the segments before the one an LSN lies in end below it.
LEMMA EndsBelow ==
  ASSUME NEW lsn, Inside(lsn), NEW n \in Nat, n < SegmentOf(lsn), NEW e \in 0..SegCap
  PROVE  Below(LSNFor(n, e), lsn)
<1>1. PICK m \in Segs : \E off \in 1..(SegCap - 1) : lsn = LSNFor(m, off)
  BY DEF Inside
<1>2. PICK off \in 1..(SegCap - 1) : lsn = LSNFor(m, off)
  BY <1>1
<1>3. m \in Nat /\ off \in Nat /\ off >= 1 /\ off < SegCap /\ SegCap \in Nat /\ SegCap > 0
  BY ConstantFacts DEF Segs
<1>4. lsn = m * SegCap + off /\ m * SegCap \in Nat /\ lsn \in Nat
  BY <1>2, <1>3 DEF LSNFor
<1>5. n < m
  <2> SUFFICES ASSUME m <= n PROVE FALSE
    BY <1>3
  <2> DEFINE S == SegCap
             q == lsn \div S
  <2>1. q \in Nat /\ S * q <= lsn
    BY <1>3, <1>4
  <2>2. m + 1 <= q
    BY <1>3, <2>1 DEF SegmentOf
  <2>3. \E d \in Nat : q = m + 1 + d
    <3>1. q - m - 1 \in Nat /\ q = m + 1 + (q - m - 1)
      BY <1>3, <2>1, <2>2
    <3> QED
      BY <3>1
  <2>4. PICK d \in Nat : q = m + 1 + d
    BY <2>3
  <2> HIDE DEF q, S
  <2>5. S \in Nat /\ S * d \in Nat /\ S * q = m * S + S + S * d
    BY <1>3, <2>4 DEF S
  <2> QED
    BY <1>3, <1>4, <2>1, <2>5 DEF S
<1>6. LSNFor(n, e) <= LSNFor(m, 0) /\ LSNFor(n, e) \in Nat
  BY <1>3, <1>5, LSNOrder
<1>7. LSNFor(m, 0) < lsn /\ LSNFor(m, 0) \in Nat
  BY <1>3, <1>4 DEF LSNFor
<1> QED
  BY <1>4, <1>6, <1>7 DEF Below

(***************************************************************************)
(* The last checkpoint of intact files                                      *)
(***************************************************************************)

\* Where the checkpoint records of c start.
CpStarts(c) == {q \in Starts(c) : c[q + 1].cp # NoCp}

LEMMA StartsInside ==
  ASSUME NEW c \in Content
  PROVE  Starts(c) \in SUBSET (1..SegCap) /\ CpStarts(c) \in SUBSET Starts(c)
BY ConstantFacts DEF Content, Starts, CpStarts

\* The last checkpoint record a scan finds is the last one of the file.
LEMMA CpsOfScan ==
  ASSUME NEW c \in Content, Intact(c), NEW garble \in {"corrupt", "truncated"}
  PROVE  LET s == Scan(c, garble) IN
         /\ s.ok = TRUE
         /\ CpRecords(s) = {} <=> CpStarts(c) = {}
         /\ CpStarts(c) # {} => s.recs[Max(CpRecords(s))].cp = c[Max(CpStarts(c)) + 1].cp
<1> DEFINE s == Scan(c, garble)
           rs == s.recs
           A == CpRecords(s)
           B == CpStarts(c)
<1>1. /\ s.ok = TRUE /\ FoundIn(c, rs, Len(c))
      /\ \A q \in Nat : IsRecord(c, q) => \E i \in 1..Len(rs) : rs[i] = RecordAt(c, q)
  BY IntactScan
<1>2. /\ \A q \in Starts(c) : q \in Nat /\ IsRecord(c, q)
      /\ \A q \in Nat : IsRecord(c, q) => q \in Starts(c)
  BY IntactStarts DEF Intact
<1> HIDE DEF s
<1>3. /\ rs \in Seq(FoundType) /\ Len(rs) \in Nat /\ DOMAIN rs = 1..Len(rs)
      /\ \A i \in 1..Len(rs) : \E q \in Nat : IsRecord(c, q) /\ rs[i] = RecordAt(c, q)
      /\ \A i, j \in 1..Len(rs) : i < j => rs[i].end < rs[j].end
  BY <1>1 DEF FoundIn
<1>4. \A i \in 1..Len(rs) : rs[i].end \in Nat
  <2>1. \A i \in 1..Len(rs) : rs[i] \in FoundType
    BY <1>3, ElementOfSeq
  <2> QED
    BY <2>1 DEF FoundType
<1>5. \A q : RecordAt(c, q).cp = c[q + 1].cp
  BY DEF RecordAt
<1>6. \A i \in A : i \in 1..Len(rs) /\ \E q \in B : IsRecord(c, q) /\ rs[i] = RecordAt(c, q)
  BY <1>2, <1>3, <1>5 DEF CpRecords, CpStarts
<1>7. \A q \in B : q \in Nat /\ IsRecord(c, q) /\ \E i \in A : rs[i] = RecordAt(c, q)
  <2> SUFFICES ASSUME NEW q \in B
               PROVE  q \in Nat /\ IsRecord(c, q) /\ \E i \in A : rs[i] = RecordAt(c, q)
    OBVIOUS
  <2>1. q \in Nat /\ IsRecord(c, q) /\ c[q + 1].cp # NoCp
    BY <1>2 DEF CpStarts
  <2>2. PICK i \in 1..Len(rs) : rs[i] = RecordAt(c, q)
    BY <1>1, <2>1
  <2>3. i \in A
    BY <1>3, <1>5, <2>1, <2>2 DEF CpRecords
  <2> QED
    BY <2>1, <2>2, <2>3
<1>8. A = {} <=> B = {}
  BY <1>6, <1>7
<1>9. ASSUME B # {} PROVE rs[Max(A)].cp = c[Max(B) + 1].cp
  <2>1. A \in SUBSET (0..Len(rs)) /\ A # {}
    BY <1>3, <1>6, <1>8, <1>9
  <2>2. B \in SUBSET (0..SegCap) /\ SegCap \in Nat
    BY StartsInside, ConstantFacts
  <2> DEFINE m == Max(A)
             x == Max(B)
  <2> HIDE DEF A, B
  <2>3. m \in A /\ \A i \in A : m >= i
    BY <1>3, <2>1, MaxOfSet
  <2>4. x \in B /\ \A y \in B : x >= y
    BY <1>9, <2>2, MaxOfSet
  <2> HIDE DEF m, x
  <2>5. PICK q \in B : IsRecord(c, q) /\ rs[m] = RecordAt(c, q)
    BY <1>6, <2>3
  <2>6. PICK i \in A : rs[i] = RecordAt(c, x)
    BY <1>7, <2>4
  <2>7. q \in Nat /\ x \in Nat /\ IsRecord(c, x) /\ q <= x
    BY <1>7, <2>4, <2>5
  <2>8. i \in 1..Len(rs) /\ m \in 1..Len(rs) /\ i <= m
    BY <1>6, <2>3, <2>6
  <2>9. q = x
    <3> SUFFICES ASSUME q < x PROVE FALSE
      BY <2>7
    <3>1. rs[m].end <= x /\ rs[m].end \in Nat
      BY <2>5, <2>7, RecordsApart
    <3>2. x < rs[i].end
      <4>1. c[x + 1].len \in Nat /\ c[x + 1].len > 0
        BY <2>7, InsideRecord DEF IsRecord
      <4>2. rs[i].end = x + c[x + 1].len
        BY <2>6 DEF RecordAt
      <4> QED
        BY <2>7, <4>1, <4>2
    <3>3. i = m \/ rs[i].end < rs[m].end
      <4>1. i = m \/ i < m
        BY <1>3, <2>8
      <4> QED
        BY <1>3, <2>8, <4>1
    <3>4. rs[i].end \in Nat
      BY <1>4, <2>8
    <3> QED
      BY <2>7, <3>1, <3>2, <3>3, <3>4
  <2> QED
    BY <1>5, <2>5, <2>9 DEF m, x
<1> QED
  BY <1>1, <1>8, <1>9 DEF s

\* The segments with checkpoint records, and the LSN the last record of the last of them
\* carries.
CpSegs(files) == {n \in Segs : CpStarts(files[n]) # {}}
LastCp(files) == LET n == Max(CpSegs(files)) IN files[n][Max(CpStarts(files[n])) + 1].cp

LEMMA LastIntact ==
  ASSUME NEW files \in [Segs -> Content], \A n \in Segs : Intact(files[n]),
         NEW garble \in {"corrupt", "truncated"}
  PROVE  LastCheckpoint(files, garble) =
           [ok |-> TRUE, lsn |-> IF CpSegs(files) = {} THEN NoCp ELSE LastCp(files)]
<1> DEFINE scans == [n \in Segs |-> Scan(files[n], garble)]
           stops == {n \in Segs : ~ scans[n].ok \/ CpRecords(scans[n]) # {}}
           m == Max(stops)
<1>1. LastCheckpoint(files, garble) =
        IF stops = {} THEN [ok |-> TRUE, lsn |-> NoCp]
        ELSE IF scans[m].ok THEN [ok |-> TRUE, lsn |-> scans[m].recs[Max(CpRecords(scans[m]))].cp]
                            ELSE [ok |-> FALSE, lsn |-> NoCp]
  BY DEF LastCheckpoint
<1>2. ASSUME NEW n \in Segs
      PROVE  /\ scans[n].ok = TRUE
             /\ CpRecords(scans[n]) = {} <=> CpStarts(files[n]) = {}
             /\ CpStarts(files[n]) # {} =>
                  scans[n].recs[Max(CpRecords(scans[n]))].cp = files[n][Max(CpStarts(files[n])) + 1].cp
  <2>1. files[n] \in Content /\ Intact(files[n]) /\ scans[n] = Scan(files[n], garble)
    OBVIOUS
  <2> DEFINE c == files[n]
             s == Scan(c, garble)
  <2>2. c \in Content /\ Intact(c)
    BY <2>1
  <2> HIDE DEF c
  <2>3. /\ s.ok = TRUE
        /\ CpRecords(s) = {} <=> CpStarts(c) = {}
        /\ CpStarts(c) # {} => s.recs[Max(CpRecords(s))].cp = c[Max(CpStarts(c)) + 1].cp
    BY <2>2, CpsOfScan
  <2>4. scans[n] = s
    BY <2>1 DEF c
  <2> HIDE DEF scans, s
  <2> QED
    BY <2>3, <2>4 DEF c
<1> HIDE DEF scans
<1>3. stops = CpSegs(files)
  BY <1>2 DEF CpSegs
<1>4. CASE stops = {}
  BY <1>1, <1>3, <1>4
<1>5. CASE stops # {}
  <2>1. stops \in SUBSET (0..MaxSeg) /\ MaxSeg \in Nat
    BY ConstantFacts DEF Segs
  <2> HIDE DEF stops
  <2>2. m \in stops
    BY <1>5, <2>1, MaxOfSet
  <2> HIDE DEF m
  <2>3. m \in Segs /\ CpStarts(files[m]) # {}
    BY <1>3, <2>2 DEF CpSegs
  <2>4. scans[m].ok = TRUE /\ scans[m].recs[Max(CpRecords(scans[m]))].cp = LastCp(files)
    BY <1>2, <1>3, <2>3 DEF LastCp, m
  <2> QED
    BY <1>1, <1>3, <1>5, <2>4
<1> QED
  BY <1>4, <1>5

(***************************************************************************)
(* What a replay of intact files delivers                                   *)
(***************************************************************************)

\* The records of a delivered sequence.
Ids(v) == {v[i].id : i \in DOMAIN v}

LEMMA IdsOfNothing == Ids(<<>>) = {}
<1>1. DOMAIN <<>> = {}
  OBVIOUS
<1> QED
  BY <1>1 DEF Ids

LEMMA IdsConcat ==
  ASSUME NEW v \in Seq(OutType), NEW w \in Seq(OutType)
  PROVE  Ids(v \o w) = Ids(v) \cup Ids(w)
<1> DEFINE x == v \o w
<1>1. /\ Len(v) \in Nat /\ Len(w) \in Nat /\ Len(x) = Len(v) + Len(w)
      /\ DOMAIN v = 1..Len(v) /\ DOMAIN w = 1..Len(w) /\ DOMAIN x = 1..Len(x)
      /\ \A i \in 1..Len(v) : x[i] = v[i]
      /\ \A i \in 1..Len(w) : x[Len(v) + i] = w[i]
      /\ \A i \in 1..Len(x) : i > Len(v) => x[i] = w[i - Len(v)] /\ i - Len(v) \in 1..Len(w)
  OBVIOUS
<1> HIDE DEF x
<1>2. ASSUME NEW i \in DOMAIN v PROVE v[i].id \in Ids(x)
  <2>1. i \in DOMAIN x /\ x[i] = v[i]
    BY <1>1
  <2> QED
    BY <2>1 DEF Ids
<1>3. ASSUME NEW i \in DOMAIN w PROVE w[i].id \in Ids(x)
  <2>1. Len(v) + i \in DOMAIN x /\ x[Len(v) + i] = w[i]
    BY <1>1
  <2> QED
    BY <2>1 DEF Ids
<1>4. ASSUME NEW i \in DOMAIN x PROVE x[i].id \in Ids(v) \cup Ids(w)
  <2>1. CASE i \in DOMAIN v
    <3>1. x[i] = v[i]
      BY <1>1, <2>1
    <3> QED
      BY <2>1, <3>1 DEF Ids
  <2>2. CASE i \notin DOMAIN v
    <3>1. x[i] = w[i - Len(v)] /\ i - Len(v) \in DOMAIN w
      BY <1>1, <2>2
    <3> QED
      BY <3>1 DEF Ids
  <2> QED
    BY <2>1, <2>2
<1>5. Ids(x) = Ids(v) \cup Ids(w)
  BY <1>2, <1>3, <1>4 DEF Ids
<1> QED
  BY <1>5 DEF x

LEMMA IdsAppend ==
  ASSUME NEW v \in Seq(OutType), NEW x \in OutType
  PROVE  Ids(Append(v, x)) = Ids(v) \cup {x.id}
<1> DEFINE w == Append(v, x)
<1>1. /\ Len(v) \in Nat /\ Len(w) = Len(v) + 1 /\ w[Len(v) + 1] = x
      /\ DOMAIN v = 1..Len(v) /\ DOMAIN w = 1..Len(w)
      /\ \A i \in 1..Len(v) : w[i] = v[i]
  OBVIOUS
<1> HIDE DEF w
<1>2. DOMAIN w = DOMAIN v \cup {Len(v) + 1}
  BY <1>1
<1>3. Ids(w) = Ids(v) \cup {x.id}
  BY <1>1, <1>2 DEF Ids
<1> QED
  BY <1>3 DEF w

\* The rounds of the callback: of the records found, those not below min that are no
\* checkpoints.
Keepers(n, rs, min, i) == {m \in 1..i : ~ Below(RecordLSN(n, rs[m].end), min) /\ rs[m].cp = NoCp}

LEMMA PassedIds ==
  ASSUME TypeOK, NEW n \in Segs, NEW c \in Content, Placed(recs, n, c),
         NEW rs, FoundIn(c, rs, Len(c)), NEW min
  PROVE  Ids(Passed(n, rs, min)[Len(rs)]) = {rs[m].id : m \in Keepers(n, rs, min, Len(rs))}
<1> DEFINE w == Passed(n, rs, min)
           K == Len(rs)
           D(i) == {rs[m].id : m \in Keepers(n, rs, min, i)}
           P == {i \in 0..K : Ids(w[i]) = D(i)}
<1>1. /\ K \in Nat /\ w[0] = <<>>
      /\ \A i \in 1..K : w[i] = Kept(n, rs[i], min, w[i - 1])
      /\ \A i \in 0..K : w[i] \in KeptStates(n, rs, i)
  BY PassedFacts
<1> HIDE DEF w
<1>2. 0 \in P
  <2>1. Keepers(n, rs, min, 0) = {}
    BY DEF Keepers
  <2> QED
    BY <1>1, <2>1, IdsOfNothing
<1>3. ASSUME NEW i \in 1..K, i - 1 \in P PROVE i \in P
  <2> DEFINE r == rs[i]
             v == w[i - 1]
             x == [id |-> r.id, lsn |-> RecordLSN(n, r.end)]
  <2>1. i - 1 \in 0..K /\ i \in 0..K /\ 1..i = (1..(i - 1)) \cup {i}
    BY <1>1
  <2>2. v \in Seq(OutType) /\ Ids(v) = D(i - 1)
    BY <1>1, <1>3, <2>1 DEF KeptStates
  <2>3. w[i] = Kept(n, r, min, v)
    BY <1>1
  <2>4. CASE Below(RecordLSN(n, r.end), min) \/ r.cp # NoCp
    <3>1. w[i] = v
      BY <2>3, <2>4 DEF Kept
    <3>2. Keepers(n, rs, min, i) = Keepers(n, rs, min, i - 1)
      BY <2>1, <2>4 DEF Keepers
    <3> QED
      BY <2>1, <2>2, <3>1, <3>2
  <2>5. CASE ~ (Below(RecordLSN(n, r.end), min) \/ r.cp # NoCp)
    <3>1. w[i] = Append(v, x)
      BY <2>3, <2>5 DEF Kept
    <3>2. x \in OutType /\ x.id = r.id
      <4>1. PICK q \in Nat : IsRecord(c, q) /\ r = RecordAt(c, q)
        BY DEF FoundIn
      <4>2. r.id \in Nat /\ RecordLSN(n, r.end) \in Nat
        BY <4>1, RecordPlaced
      <4> HIDE DEF r
      <4> QED
        BY <4>2 DEF OutType
    <3> HIDE DEF x
    <3>3. Ids(w[i]) = Ids(v) \cup {r.id}
      BY <2>2, <3>1, <3>2, IdsAppend
    <3>4. Keepers(n, rs, min, i) = Keepers(n, rs, min, i - 1) \cup {i}
      BY <2>1, <2>5 DEF Keepers
    <3>5. D(i) = D(i - 1) \cup {r.id}
      BY <3>4
    <3> QED
      BY <2>1, <2>2, <3>3, <3>5
  <2> QED
    BY <2>4, <2>5
<1> HIDE DEF P, K
<1>4. \A i \in 0..K : i \in P
  BY <1>1, <1>2, <1>3, UpTo
<1>5. K \in P
  BY <1>1, <1>4
<1> QED
  BY <1>5 DEF P, K, w

\* What a replay that starts at min is to deliver of segment n.
Wanted(n, c, min) ==
  {q \in Starts(c) : c[q + 1].cp = NoCp /\ LSNFor(n, q + c[q + 1].len) >= min}
WantedIds(n, c, min) == {c[q + 1].id : q \in Wanted(n, c, min)}

LEMMA SegmentIntact ==
  ASSUME TypeOK, NEW n \in Segs, NEW c \in Content, Placed(recs, n, c), Intact(c),
         NEW min \in Nat, NEW garble \in {"corrupt", "truncated"}
  PROVE  LET s == ReplaySegment(n, c, min, garble) IN
         s.ok = TRUE /\ s.recs \in Seq(OutType) /\ Ids(s.recs) = WantedIds(n, c, min)
<1> DEFINE rs == Scan(c, garble).recs
           v == Passed(n, rs, min)[Len(rs)]
<1>1. /\ Scan(c, garble).ok = TRUE /\ FoundIn(c, rs, Len(c))
      /\ \A q \in Nat : IsRecord(c, q) => \E i \in 1..Len(rs) : rs[i] = RecordAt(c, q)
  BY IntactScan
<1>2. ReplaySegment(n, c, min, garble) = [recs |-> v, ok |-> TRUE]
  BY <1>1, SegmentIsPassed
<1>3. v \in Seq(OutType)
  <2>1. Delivers({n}, ReplaySegment(n, c, min, garble).recs)
    BY SegmentDelivers
  <2> HIDE DEF v
  <2> QED
    BY <1>2, <2>1 DEF Delivers
<1> HIDE DEF rs
<1>4. Ids(v) = {rs[m].id : m \in Keepers(n, rs, min, Len(rs))}
  BY <1>1, PassedIds
<1>5. /\ \A q \in Starts(c) : q \in Nat /\ IsRecord(c, q)
      /\ \A q \in Nat : IsRecord(c, q) => q \in Starts(c)
  BY IntactStarts DEF Intact
<1>6. ASSUME NEW q \in Nat, IsRecord(c, q), NEW r, r = RecordAt(c, q)
      PROVE  /\ r.id = c[q + 1].id /\ r.cp = c[q + 1].cp
             /\ ~ Below(RecordLSN(n, r.end), min) <=> LSNFor(n, q + c[q + 1].len) >= min
  <2>1. r.id = c[q + 1].id /\ r.cp = c[q + 1].cp /\ r.end = q + c[q + 1].len
    BY <1>6 DEF RecordAt
  <2>2. RecordLSN(n, r.end) \in Nat
    BY <1>6, RecordPlaced
  <2>3. RecordLSN(n, r.end) = LSNFor(n, q + c[q + 1].len)
    BY <2>1 DEF RecordLSN
  <2> DEFINE a == LSNFor(n, q + c[q + 1].len)
  <2> HIDE DEF a
  <2>4. a \in Nat /\ RecordLSN(n, r.end) = a
    BY <2>2, <2>3 DEF a
  <2>5. ~ Below(a, min) <=> a >= min
    BY <2>4 DEF Below
  <2> QED
    BY <2>1, <2>4, <2>5 DEF a
<1>7. ASSUME NEW m \in Keepers(n, rs, min, Len(rs)) PROVE rs[m].id \in WantedIds(n, c, min)
  <2>1. m \in 1..Len(rs) /\ ~ Below(RecordLSN(n, rs[m].end), min) /\ rs[m].cp = NoCp
    BY DEF Keepers
  <2>2. PICK q \in Nat : IsRecord(c, q) /\ rs[m] = RecordAt(c, q)
    BY <1>1, <2>1 DEF FoundIn
  <2>3. q \in Wanted(n, c, min) /\ rs[m].id = c[q + 1].id
    BY <1>5, <1>6, <2>1, <2>2 DEF Wanted
  <2> QED
    BY <2>3 DEF WantedIds
<1>8. ASSUME NEW q \in Wanted(n, c, min)
      PROVE  \E m \in Keepers(n, rs, min, Len(rs)) : c[q + 1].id = rs[m].id
  <2>1. q \in Nat /\ IsRecord(c, q) /\ c[q + 1].cp = NoCp /\ LSNFor(n, q + c[q + 1].len) >= min
    BY <1>5 DEF Wanted
  <2>2. PICK m \in 1..Len(rs) : rs[m] = RecordAt(c, q)
    BY <1>1, <2>1
  <2>3. m \in Keepers(n, rs, min, Len(rs)) /\ c[q + 1].id = rs[m].id
    BY <1>6, <2>1, <2>2 DEF Keepers
  <2> QED
    BY <2>3
<1> HIDE DEF v
<1>9. Ids(v) = WantedIds(n, c, min)
  BY <1>4, <1>7, <1>8 DEF WantedIds
<1> QED
  BY <1>2, <1>3, <1>9

\* The loop over the segments goes through all of them.
LEMMA LoopIntact ==
  ASSUME TypeOK, RecInv, NEW files \in [Segs -> Content], \A n \in Segs : Placed(recs, n, files[n]),
         \A n \in Segs : Intact(files[n]),
         NEW first, NEW min \in Nat, NEW garble \in {"corrupt", "truncated"}
  PROVE  Ids(UpToSegment(files, first, min, garble)[MaxSeg].recs) =
           UNION {WantedIds(m, files[m], min) : m \in {k \in Segs : ~ (k < first)}}
<1> DEFINE w == UpToSegment(files, first, min, garble)
           K == MaxSeg
           W(m) == WantedIds(m, files[m], min)
           U(n) == UNION {W(m) : m \in {k \in 0..n : ~ (k < first)}}
           P == {n \in 0..K : w[n].ok = TRUE /\ Ids(w[n].recs) = U(n)}
           R(n, v) == SegmentRound(files, first, min, garble, n, v)
<1>1. K \in Nat /\ Segs = 0..K
  BY ConstantFacts DEF Segs
<1>2. /\ w[0] = R(0, Nothing)
      /\ \A n \in 1..K : w[n] = R(n, w[n - 1])
      /\ \A n \in 0..K : w[n] \in ReplayStates(n)
  BY <1>1, UpToFacts
<1>3. ASSUME NEW n \in 0..K
      PROVE  LET s == ReplaySegment(n, files[n], min, garble) IN
             s.ok = TRUE /\ s.recs \in Seq(OutType) /\ Ids(s.recs) = W(n)
  <2>1. n \in Segs /\ files[n] \in Content /\ Placed(recs, n, files[n]) /\ Intact(files[n])
    BY <1>1
  <2> QED
    BY <2>1, SegmentIntact
<1> HIDE DEF w, W
<1>4. ASSUME NEW n \in 0..K, NEW v, v.ok = TRUE, v.recs \in Seq(OutType), NEW A, Ids(v.recs) = A
      PROVE  /\ R(n, v).ok = TRUE
             /\ Ids(R(n, v).recs) = IF n < first THEN A ELSE A \cup W(n)
  <2> DEFINE s == ReplaySegment(n, files[n], min, garble)
  <2>1. s.ok = TRUE /\ s.recs \in Seq(OutType) /\ Ids(s.recs) = W(n)
    BY <1>3
  <2>2. R(n, v) = IF ~ v.ok \/ n < first THEN v ELSE [recs |-> v.recs \o s.recs, ok |-> s.ok]
    BY DEF SegmentRound
  <2> HIDE DEF s, R
  <2>3. CASE n < first
    BY <1>4, <2>2, <2>3
  <2>4. CASE ~ (n < first)
    <3>1. R(n, v) = [recs |-> v.recs \o s.recs, ok |-> s.ok]
      BY <1>4, <2>2, <2>4
    <3>2. Ids(v.recs \o s.recs) = A \cup W(n)
      BY <1>4, <2>1, IdsConcat
    <3> QED
      BY <2>1, <2>4, <3>1, <3>2
  <2> QED
    BY <2>3, <2>4
<1>5. 0 \in P
  <2>1. 0 \in 0..K /\ 0..0 = {0}
    BY <1>1
  <2>2. Nothing.ok = TRUE /\ Nothing.recs \in Seq(OutType) /\ Ids(Nothing.recs) = {}
    <3>1. Nothing.ok = TRUE /\ Nothing.recs = <<>> /\ <<>> \in Seq(OutType)
      BY DEF Nothing
    <3> QED
      BY <3>1, IdsOfNothing
  <2> HIDE DEF R
  <2>3. w[0].ok = TRUE /\ Ids(w[0].recs) = IF 0 < first THEN {} ELSE {} \cup W(0)
    BY <1>2, <1>4, <2>1, <2>2
  <2>4. U(0) = IF 0 < first THEN {} ELSE W(0)
    BY <2>1
  <2> HIDE DEF U
  <2> QED
    BY <2>1, <2>3, <2>4
<1>6. ASSUME NEW n \in 1..K, n - 1 \in P PROVE n \in P
  <2>1. n \in 0..K /\ n - 1 \in 0..K /\ 0..n = (0..(n - 1)) \cup {n}
    BY <1>1
  <2>2. w[n - 1].ok = TRUE /\ Ids(w[n - 1].recs) = U(n - 1) /\ w[n - 1].recs \in Seq(OutType)
    BY <1>2, <1>6, <2>1 DEF ReplayStates
  <2>3. U(n) = IF n < first THEN U(n - 1) ELSE U(n - 1) \cup W(n)
    BY <2>1
  <2> HIDE DEF R, U
  <2>4. w[n].ok = TRUE /\ Ids(w[n].recs) = IF n < first THEN U(n - 1) ELSE U(n - 1) \cup W(n)
    <3> DEFINE v == w[n - 1]
               B == U(n - 1)
    <3>1. w[n] = R(n, v)
      BY <1>2
    <3>2. v.ok = TRUE /\ Ids(v.recs) = B /\ v.recs \in Seq(OutType)
      BY <2>2
    <3> HIDE DEF v, B
    <3>3. R(n, v).ok = TRUE /\ Ids(R(n, v).recs) = IF n < first THEN B ELSE B \cup W(n)
      BY <1>4, <2>1, <3>2
    <3> QED
      BY <3>1, <3>3 DEF B
  <2> QED
    BY <2>1, <2>3, <2>4
<1> HIDE DEF P
<1>7. \A n \in 0..K : n \in P
  BY <1>1, <1>5, <1>6, UpTo
<1>8. K \in P
  BY <1>1, <1>7
<1>9. Ids(w[K].recs) = U(K)
  BY <1>8 DEF P
<1> QED
  BY <1>1, <1>9 DEF w, W

\* The LSN of the last checkpoint is inside a segment.
LEMMA LastCpInside ==
  ASSUME TypeOK, CpInv, NEW files \in [Segs -> Content], \A n \in Segs : Placed(recs, n, files[n]),
         \A n \in Segs : Intact(files[n]), CpSegs(files) # {}
  PROVE  /\ Max(CpSegs(files)) \in CpSegs(files) /\ Inside(LastCp(files)) /\ LastCp(files) \in Nat
         /\ LastCp(files) # NoCp
<1> DEFINE A == CpSegs(files)
           n == Max(A)
           B == CpStarts(files[n])
           q == Max(B)
<1>1. A \in SUBSET (0..MaxSeg) /\ A # {} /\ MaxSeg \in Nat
  BY ConstantFacts DEF Segs, CpSegs
<1>2. n \in A
  <2> HIDE DEF A
  <2> QED
    BY <1>1, MaxOfSet
<1>3. n \in Segs /\ B # {} /\ files[n] \in Content /\ Intact(files[n]) /\ Placed(recs, n, files[n])
  BY <1>2 DEF CpSegs
<1> HIDE DEF A, n
<1>4. B \in SUBSET (0..SegCap) /\ B \in SUBSET Starts(files[n]) /\ SegCap \in Nat
  BY <1>3, StartsInside, ConstantFacts
<1>5. q \in B
  <2> HIDE DEF B
  <2> QED
    BY <1>3, <1>4, MaxOfSet
<1> HIDE DEF q
<1>6. q \in Nat /\ IsRecord(files[n], q) /\ files[n][q + 1].cp # NoCp
  <2>1. q \in Starts(files[n]) /\ files[n][q + 1].cp # NoCp
    BY <1>5 DEF CpStarts
  <2> QED
    BY <1>3, <2>1, IntactStarts DEF Intact
<1> DEFINE r == RecordAt(files[n], q)
<1>7. r.id \in DOMAIN recs /\ r.cp = recs[r.id].cp
  BY <1>3, <1>6, RecordPlaced
<1>8. r.cp = files[n][q + 1].cp
  BY DEF RecordAt
<1>9. LastCp(files) = files[n][q + 1].cp
  BY DEF LastCp, n, A, q
<1> HIDE DEF r
<1>10. Inside(LastCp(files))
  BY <1>6, <1>7, <1>8, <1>9 DEF CpInv
<1>11. LastCp(files) \in Nat
  <2>1. PICK m \in Segs : \E off \in 1..(SegCap - 1) : LastCp(files) = LSNFor(m, off)
    BY <1>10 DEF Inside
  <2>2. PICK off \in 1..(SegCap - 1) : LastCp(files) = LSNFor(m, off)
    BY <2>1
  <2>3. m \in Nat /\ off \in Nat
    BY ConstantFacts DEF Segs
  <2> QED
    BY <2>2, <2>3, LSNSame
<1> QED
  BY <1>2, <1>6, <1>9, <1>10, <1>11 DEF n, A

\* What is delivered: everything wanted of every segment, for those before the checkpoint's
\* have nothing that is.
MinOf(files) == IF CpSegs(files) = {} THEN 0 ELSE LastCp(files)

LEMMA ReplayIntact ==
  ASSUME TypeOK, RecInv, CpInv, NEW files \in [Segs -> Content],
         \A n \in Segs : Placed(recs, n, files[n]), \A n \in Segs : Intact(files[n]),
         NEW garble \in {"corrupt", "truncated"}
  PROVE  Ids(Replay(files, garble).recs) = UNION {WantedIds(n, files[n], MinOf(files)) : n \in Segs}
<1> DEFINE cp == LastCheckpoint(files, garble)
           first == FirstSegment(cp.lsn)
           min == MinOf(files)
           w == UpToSegment(files, first, min, garble)
<1>1. cp = [ok |-> TRUE, lsn |-> IF CpSegs(files) = {} THEN NoCp ELSE LastCp(files)]
  BY LastIntact
<1>2. min = MinLSN(cp.lsn) /\ min \in Nat
  <2>1. CASE CpSegs(files) = {}
    BY <1>1, <2>1 DEF MinOf, MinLSN
  <2>2. CASE CpSegs(files) # {}
    <3>1. LastCp(files) \in Nat /\ LastCp(files) # NoCp
      BY <2>2, LastCpInside
    <3> QED
      BY <1>1, <2>2, <3>1 DEF MinOf, MinLSN
  <2> QED
    BY <2>1, <2>2
<1>3. Replay(files, garble).recs = w[MaxSeg].recs
  <2>1. Replay(files, garble) =
          IF cp.ok THEN [recs |-> w[MaxSeg].recs, ok |-> w[MaxSeg].ok, cp |-> cp.lsn]
                   ELSE [recs |-> <<>>, ok |-> FALSE, cp |-> NoCp]
    BY <1>2, ReplayIsLoop
  <2>2. cp.ok = TRUE
    BY <1>1
  <2> HIDE DEF cp, w
  <2> QED
    BY <2>1, <2>2
<1> HIDE DEF cp, min
<1>4. Ids(w[MaxSeg].recs) = UNION {WantedIds(m, files[m], min) : m \in {k \in Segs : ~ (k < first)}}
  <2> HIDE DEF first
  <2> QED
    BY <1>2, LoopIntact
<1>5. ASSUME NEW n \in Segs, n < first PROVE WantedIds(n, files[n], min) = {}
  <2>1. n \in Nat
    BY DEF Segs
  <2>2. cp.lsn # NoCp
    BY <1>5, <2>1 DEF FirstSegment
  <2>3. CpSegs(files) # {} /\ cp.lsn = LastCp(files)
    BY <1>1, <2>2
  <2>4. Inside(LastCp(files)) /\ min = LastCp(files) /\ n < SegmentOf(LastCp(files))
    BY <1>5, <2>2, <2>3, LastCpInside DEF MinOf, FirstSegment, min
  <2>5. ASSUME NEW q \in Wanted(n, files[n], min) PROVE FALSE
    <3> DEFINE c == files[n]
    <3>1. c \in Content /\ Intact(c) /\ q \in Starts(c) /\ LSNFor(n, q + c[q + 1].len) >= min
      BY DEF Wanted
    <3> HIDE DEF c
    <3>2. q \in Nat /\ IsRecord(c, q)
      BY <3>1, IntactStarts DEF Intact
    <3> DEFINE e == q + c[q + 1].len
    <3>3. e \in Nat /\ e <= Len(c) /\ Len(c) <= SegCap /\ Len(c) \in Nat
      <4>1. c[q + 1].len \in Nat /\ q + c[q + 1].len \in Nat /\ q + c[q + 1].len <= Len(c)
        BY <3>1, <3>2, InsideRecord
      <4> QED
        BY <3>1, <4>1 DEF Content
    <3> HIDE DEF e
    <3>4. e \in 0..SegCap
      BY <3>3, ConstantFacts
    <3>5. LSNFor(n, e) < min
      BY <2>1, <2>4, <3>4, EndsBelow DEF Below
    <3>6. LSNFor(n, e) \in Nat /\ LSNFor(n, e) >= min
      BY <2>1, <3>1, <3>3, LSNSame DEF e
    <3> QED
      BY <1>2, <3>5, <3>6
  <2> QED
    BY <2>5 DEF WantedIds
<1> HIDE DEF first, w
<1>6. Ids(w[MaxSeg].recs) = UNION {WantedIds(n, files[n], min) : n \in Segs}
  BY <1>4, <1>5
<1> QED
  BY <1>3, <1>6 DEF min

(***************************************************************************)
(* The theorem on intact files                                              *)
(***************************************************************************)

CompleteInv == ReplayInv /\ CpInv

LEMMA CompleteInvAlways == Spec => []CompleteInv
<1>1. Init => CpInv
  BY CpInit
<1>2. ReplayInv /\ CpInv /\ [Next]_vars => CpInv'
  BY CpStep DEF ReplayInv, Inv
<1> QED
  BY <1>1, <1>2, ReplayInvAlways, PTL DEF Spec, CompleteInv

\* A replay of intact files that fit the read buffer delivers every record that ends at or
\* after the last checkpoint's LSN, in whichever segment, and no other (Replay,
\* LastCheckpoint, replaySegment), for every number and size of segments.
THEOREM ReplayIsComplete == Spec => ReplayComplete
<1> DEFINE cps == {x \in Segs \X (1..SegCap) :
                     x[2] \in Starts(cache[x[1]]) /\ cache[x[1]][x[2] + 1].cp # NoCp}
           lastSeg == Max({x[1] : x \in cps})
           last == Max({x[2] : x \in {y \in cps : y[1] = lastSeg}})
           min == IF cps = {} THEN 0 ELSE cache[lastSeg][last + 1].cp
           Complete ==
             {delivered'[i].id : i \in DOMAIN delivered'} =
               UNION {{cache[n][p + 1].id : p \in {q \in Starts(cache[n]) :
                         /\ cache[n][q + 1].cp = NoCp
                         /\ LSNFor(n, q + cache[n][q + 1].len) >= min}} : n \in Segs}
<1>1. ASSUME CompleteInv, [Next]_vars, state = "down", state' = "open", \A n \in Segs : Intact(cache[n])
      PROVE  Complete
  <2>1. /\ TypeOK /\ RecInv /\ CpInv /\ cache \in [Segs -> Content]
        /\ \A n \in Segs : Placed(recs, n, cache[n])
    BY <1>1 DEF CompleteInv, ReplayInv, Inv, Shape, TypeOK, PlacedInv
  <2>2. PICK garble \in {"corrupt", "truncated"} : delivered' = Replay(cache, garble).recs
    <3>1. Reopen
      BY <1>1 DEF Next, AppendRecord, AsyncStep, AppendFirst, AppendBuffered, AppendOverflow,
         AppendRotate, AppendRotateFails, FlushFails, SyncNothing, Sync, SyncFsyncFails, SyncAsync,
         SyncAsyncNothing, AsyncFsync, AsyncFails, AsyncDone, CloseBegin, CloseEnd, Exit, Crash,
         Gone, vars
    <3> QED
      BY <3>1 DEF Reopen
  <2>3. Ids(delivered') = UNION {WantedIds(n, cache[n], MinOf(cache)) : n \in Segs}
    BY <1>1, <2>1, <2>2, ReplayIntact
  <2>4. ASSUME NEW n \in Segs
        PROVE  /\ CpStarts(cache[n]) \in SUBSET (1..SegCap)
               /\ \A q : q \in CpStarts(cache[n]) <=> <<n, q>> \in cps
    <3>1. cache[n] \in Content
      BY <2>1
    <3>2. CpStarts(cache[n]) \in SUBSET (1..SegCap)
      BY <3>1, StartsInside
    <3>3. \A q : q \in CpStarts(cache[n]) <=> q \in Starts(cache[n]) /\ cache[n][q + 1].cp # NoCp
      BY DEF CpStarts
    <3> QED
      BY <3>2, <3>3
  <2>5. \A x \in cps : x[1] \in Segs /\ x = <<x[1], x[2]>>
    OBVIOUS
  <2> HIDE DEF cps
  <2>6. {x[1] : x \in cps} = CpSegs(cache)
    <3>1. ASSUME NEW x \in cps PROVE x[1] \in CpSegs(cache)
      <4>1. x[2] \in CpStarts(cache[x[1]])
        BY <2>4, <2>5
      <4> QED
        BY <2>5, <4>1 DEF CpSegs
    <3>2. ASSUME NEW n \in CpSegs(cache) PROVE \E x \in cps : n = x[1]
      <4>1. n \in Segs /\ CpStarts(cache[n]) # {}
        BY DEF CpSegs
      <4>2. PICK q : q \in CpStarts(cache[n])
        BY <4>1
      <4>3. <<n, q>> \in cps /\ <<n, q>>[1] = n
        BY <2>4, <4>1, <4>2
      <4> QED
        BY <4>3
    <3> QED
      BY <3>1, <3>2
  <2>7. cps = {} <=> CpSegs(cache) = {}
    BY <2>6
  <2>8. min = MinOf(cache)
    <3>1. CASE cps = {}
      BY <2>7, <3>1 DEF MinOf
    <3>2. CASE cps # {}
      <4>1. lastSeg = Max(CpSegs(cache))
        BY <2>6
      <4>2. Max(CpSegs(cache)) \in CpSegs(cache)
        BY <1>1, <2>1, <2>7, <3>2, LastCpInside
      <4> HIDE DEF lastSeg
      <4>3. lastSeg \in Segs
        BY <4>1, <4>2 DEF CpSegs
      <4>4. {x[2] : x \in {y \in cps : y[1] = lastSeg}} = CpStarts(cache[lastSeg])
        <5>1. ASSUME NEW x \in cps, x[1] = lastSeg PROVE x[2] \in CpStarts(cache[lastSeg])
          BY <2>4, <2>5, <5>1
        <5>2. ASSUME NEW q \in CpStarts(cache[lastSeg])
              PROVE  \E x \in {y \in cps : y[1] = lastSeg} : q = x[2]
          <6>1. <<lastSeg, q>> \in cps /\ <<lastSeg, q>>[1] = lastSeg /\ <<lastSeg, q>>[2] = q
            BY <2>4, <4>3
          <6> QED
            BY <6>1
        <5> QED
          BY <5>1, <5>2
      <4>5. min = cache[lastSeg][Max(CpStarts(cache[lastSeg])) + 1].cp
        BY <3>2, <4>4
      <4> QED
        BY <2>7, <3>2, <4>1, <4>5 DEF MinOf, LastCp
    <3> QED
      BY <3>1, <3>2
  <2> HIDE DEF min
  <2>9. Ids(delivered') = {delivered'[i].id : i \in DOMAIN delivered'}
    BY DEF Ids
  <2> DEFINE S(n) == {cache[n][p + 1].id : p \in {q \in Starts(cache[n]) :
                        /\ cache[n][q + 1].cp = NoCp
                        /\ LSNFor(n, q + cache[n][q + 1].len) >= min}}
  <2>10. \A n \in Segs : WantedIds(n, cache[n], min) = S(n)
    BY DEF WantedIds, Wanted
  <2>11. Ids(delivered') = UNION {WantedIds(n, cache[n], min) : n \in Segs}
    BY <2>3, <2>8
  <2>12. Ids(delivered') = UNION {S(n) : n \in Segs}
    <3> HIDE DEF S
    <3> QED
      BY <2>10, <2>11
  <2> QED
    BY <2>9, <2>12
<1>2. CompleteInv /\ [Next]_vars =>
        (state = "down" /\ state' = "open" /\ (\A n \in Segs : Intact(cache[n])) => Complete)
  BY <1>1
<1> QED
  BY <1>2, CompleteInvAlways, PTL DEF Spec, ReplayComplete
=============================================================================
