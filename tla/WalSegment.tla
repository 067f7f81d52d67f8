---------------------------- MODULE WalSegment ----------------------------
(***************************************************************************)
(* WAL segment files, and what the replayer of WAL/RP reads out of them.    *)
(*                                                                          *)
(* A segment is a sequence of units; a record of length l is l units in a   *)
(* row, and the header is one. Offset o of the file is index o + 1 of the   *)
(* sequence. A missing segment and an empty one read the same: <<>>.        *)
(***************************************************************************)
EXTENDS Integers, Sequences, FiniteSetsExt

CONSTANTS
  SegCap,         \* SegSize, in units
  Chunk,          \* the replayer's read buffer (64 KB), in units
  MaxSeg          \* bound: highest segment number

ASSUME SegmentAssumption ==
  /\ SegCap \in Nat /\ SegCap > 1
  /\ Chunk \in Nat \ {0}
  /\ MaxSeg \in Nat

Segs == 0..MaxSeg
NoCp == -1                      \* a record that is no checkpoint carries no LSN

\* id names the record, part is the unit's place in it, len its length; cp is the LSN a
\* checkpoint record carries.
Unit(id, part, len, cp) == [id |-> id, part |-> part, len |-> len, cp |-> cp]
Header == Unit(0, 1, 1, NoCp)
Zero   == Unit(0, 0, 0, NoCp)   \* bytes never written
Units(id, len, cp) == [i \in 1..len |-> Unit(id, i, len, cp)]

\* LSNFor and its inverses.
LSNFor(n, off) == n * SegCap + off
SegmentOf(lsn) == lsn \div SegCap
OffsetOf(lsn)  == lsn % SegCap

\* pwrite and ftruncate of a file's content c.
Pwrite(c, off, us) ==
  [i \in 1..(IF off + Len(us) > Len(c) THEN off + Len(us) ELSE Len(c)) |->
     IF i > off /\ i <= off + Len(us) THEN us[i - off]
     ELSE IF i <= Len(c) THEN c[i] ELSE Zero]
Ftruncate(c, size) == [i \in 1..size |-> IF i <= Len(c) THEN c[i] ELSE Zero]

\* The record that starts at offset p is wholly in c.
WholeAt(c, p) ==
  LET u == c[p + 1] IN
  /\ u.part = 1
  /\ p + u.len <= Len(c)
  /\ \A i \in 1..u.len : c[p + i] = Unit(u.id, i, u.len, u.cp)

(***************************************************************************)
(* forEachRecord (rp.go, encode.go)                                         *)
(***************************************************************************)

\* decodeRecord at offset p of a chunk that ends at lim. Zero bytes are a length below the
\* CRC's, a record with a unit missing fails its CRC; both are ErrCorrupt. A record that
\* reaches past the chunk is ErrTruncatedRecord. In the middle of a record the bytes can
\* be either: garble.
Decode(c, p, lim, garble) ==
  CASE c[p + 1].len = 0 -> "corrupt"
    [] c[p + 1].len > 0 /\ c[p + 1].part # 1 -> garble
    [] c[p + 1].len > 0 /\ c[p + 1].part = 1 /\ p + c[p + 1].len > lim -> "truncated"
    [] c[p + 1].len > 0 /\ c[p + 1].part = 1 /\ p + c[p + 1].len <= lim ->
         IF WholeAt(c, p) THEN "record" ELSE "corrupt"

\* The chunk read at offset b ends there, or where the file does.
ChunkEnd(c, b) == IF b + Chunk > Len(c) THEN Len(c) ELSE b + Chunk

\* offset is advanced by every record and once more by the whole chunk.
NextOffset(b, p) == p + (p - b)

\* The loop of forEachRecord: at offset p of the chunk read at b, with the records passed to
\* the callback so far, each with the LSN computed for it (the end of the record); st says
\* whether the loop goes on, or what the call returns.
ScanStart == [b |-> 1, p |-> 1, recs |-> <<>>, st |-> "more"]
ScanEnds(s, st) == [s EXCEPT !.st = st]
ScanRecord(s, u) ==
  [s EXCEPT !.p = @ + u.len, !.recs = Append(@, [id |-> u.id, end |-> s.p + u.len, cp |-> u.cp])]
NextChunk(s) == [s EXCEPT !.b = NextOffset(s.b, s.p), !.p = NextOffset(s.b, s.p)]

\* The decoder made d of the bytes at the offset, which begin with unit u.
ScanDecoded(s, u, d) ==
  IF d = "record" THEN ScanRecord(s, u)
  ELSE ScanEnds(s, IF d = "truncated" THEN "nil" ELSE "corrupt")

ScanStep(c, garble, s) ==
  CASE s.st # "more" -> s
    [] s.st = "more" /\ s.p = ChunkEnd(c, s.b) ->
         IF NextOffset(s.b, s.p) >= Len(c) THEN ScanEnds(s, "nil") ELSE NextChunk(s)
    [] OTHER -> ScanDecoded(s, c[s.p + 1], Decode(c, s.p, ChunkEnd(c, s.b), garble))

\* What the callback was passed, and whether the call returned nil. A record or a chunk takes
\* the scan forward at every step, and between two chunks there is a record.
ScanResult(s) == [recs |-> s.recs, ok |-> s.st = "nil"]

Scan(c, garble) ==
  LET run[k \in 0..(2 * Len(c))] ==
        IF k = 0 THEN ScanStart ELSE ScanStep(c, garble, run[k - 1])
  IN  CASE c = <<>> -> [recs |-> <<>>, ok |-> TRUE]
        [] c # <<>> /\ c[1] # Header -> [recs |-> <<>>, ok |-> FALSE]
        [] OTHER -> ScanResult(run[2 * Len(c)])

(***************************************************************************)
(* Replay (rp.go); files maps each segment number to its content            *)
(***************************************************************************)

CpRecords(scan) == {i \in DOMAIN scan.recs : scan.recs[i].cp # NoCp}

\* LastCheckpoint: from the last segment down, the first that has a checkpoint gives its
\* last one; a corrupt segment met before is an error.
LastCheckpoint(files, garble) ==
  LET scans == [n \in Segs |-> Scan(files[n], garble)]
      stops == {n \in Segs : ~ scans[n].ok \/ CpRecords(scans[n]) # {}}
  IN  IF stops = {} THEN [ok |-> TRUE, lsn |-> NoCp]
      ELSE LET n == Max(stops) IN
           IF scans[n].ok THEN [ok |-> TRUE, lsn |-> scans[n].recs[Max(CpRecords(scans[n]))].cp]
                          ELSE [ok |-> FALSE, lsn |-> NoCp]

\* The LSN of a record found at an offset of segment n, and the filter on it.
OffsetLSN(n, off) == off
RecordLSN(n, off) == LSNFor(n, off)
NotAbove(lsn, min) == lsn <= min
Below(lsn, min)    == lsn < min

\* replaySegment: record r of segment n goes behind what was passed to the callbacks, v, unless
\* its LSN is below min, or it is a checkpoint, which has no callback.
Kept(n, r, min, v) ==
  IF Below(RecordLSN(n, r.end), min) \/ r.cp # NoCp THEN v
  ELSE Append(v, [id |-> r.id, lsn |-> RecordLSN(n, r.end)])

ReplaySegment(n, c, min, garble) ==
  LET s == Scan(c, garble)
      passed[i \in 0..Len(s.recs)] ==
        IF i = 0 THEN <<>> ELSE Kept(n, s.recs[i], min, passed[i - 1])
  IN  [recs |-> passed[Len(s.recs)], ok |-> s.ok]

\* Replay: nothing when LastCheckpoint fails; else the segments from the checkpoint's on,
\* in ascending order, up to the first corrupt one.
Replay(files, garble) ==
  LET cp == LastCheckpoint(files, garble)
      first == IF cp.lsn = NoCp THEN 0 ELSE SegmentOf(cp.lsn)
      part(n) == ReplaySegment(n, files[n], IF cp.lsn = NoCp THEN 0 ELSE cp.lsn, garble)
      upTo[n \in Segs] ==
        LET prev == IF n = 0 THEN [recs |-> <<>>, ok |-> TRUE] ELSE upTo[n - 1] IN
        IF ~ prev.ok \/ n < first THEN prev
        ELSE [recs |-> prev.recs \o part(n).recs, ok |-> part(n).ok]
  IN  IF cp.ok THEN [recs |-> upTo[MaxSeg].recs, ok |-> upTo[MaxSeg].ok, cp |-> cp.lsn]
               ELSE [recs |-> <<>>, ok |-> FALSE, cp |-> NoCp]

\* truncateBeforeCheckpoint: the segments before the checkpoint's are emptied, and its own
\* is cut at the checkpoint's LSN. (A cut at 0 leaves the segment alone, or, past segment
\* 0, is taken as the full size of the one before.)
TruncateBeforeCheckpoint(files, lsn) ==
  LET back == OffsetOf(lsn) = 0 /\ SegmentOf(lsn) > 0
      seg  == IF back THEN SegmentOf(lsn) - 1 ELSE SegmentOf(lsn)
      size == IF back THEN SegCap ELSE OffsetOf(lsn)
  IN  [n \in Segs |->
         CASE n < seg -> <<>>
           [] n = seg /\ size > 0 /\ files[n] # <<>> -> Ftruncate(files[n], size)
           [] OTHER -> files[n]]
=============================================================================
