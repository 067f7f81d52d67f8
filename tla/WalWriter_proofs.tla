-------------------------- MODULE WalWriter_proofs --------------------------
(***************************************************************************)
(* Proofs about WalWriter, for every size of a segment and of the buffer,   *)
(* any record lengths, any number of goroutines, failures and crashes. The  *)
(* inductive invariant is the types, the state of the active segment        *)
(* (SegInv), where the records are (RecInv, LsnsIncrease, InPlace), and      *)
(* what is durable while nothing has failed (Durable).                      *)
(***************************************************************************)
EXTENDS WalWriter, TLAPS, SequenceTheorems, FiniteSetTheorems, WellFoundedInduction

\* The writer has, or can still open, an active segment.
Live == {"open", "closing"}

\* Without a segment there is nothing to flush and no fsync goroutine; with one, everything
\* before the buffer's content is in the file.
SegInv ==
  /\ seg = NoSeg => buf = <<>> /\ writeOff = 0 /\ ~ fh /\ inflight = {}
  /\ seg # NoSeg => /\ state \in Live /\ 1 + Len(buf) <= writeOff
                    /\ writeOff - Len(buf) <= Len(cache[seg])
  /\ state = "closing" => seg # NoSeg

\* Records end inside their segment; those of this life before the end of the log.
RecInv ==
  \A i \in DOMAIN recs :
    /\ recs[i].life <= life
    /\ recs[i].off + recs[i].len <= SegCap
    /\ recs[i].life = life /\ state \in Live =>
         /\ seg # NoSeg /\ recs[i].seg <= seg
         /\ recs[i].seg = seg => recs[i].off + recs[i].len <= writeOff

\* RecordsInPlace, for as long as the segment is held, and within the files' lengths.
InPlaceAt(i) ==
  \A k \in 1..recs[i].len :
    /\ recs[i].off + k <= Len(View(recs[i].seg))
    /\ View(recs[i].seg)[recs[i].off + k] = Unit(i, k, recs[i].len, recs[i].cp)
InPlace == state \in Live => \A i \in Mine : InPlaceAt(i)

(***************************************************************************)
(* Constants and LSNs                                                       *)
(***************************************************************************)

\* What the assumptions say of the constants, in one place.
LEMMA ConstantFacts ==
  /\ SegCap \in Nat /\ SegCap > 1 /\ MaxSeg \in Nat /\ BufCap \in Nat
  /\ MaxRecs \in Nat /\ MaxLives \in Nat \ {0} /\ MaxFaults \in Nat /\ MaxAsync \in Nat
  /\ \A l \in Lens : l \in Nat /\ l >= 1 /\ l <= BufCap /\ l < SegCap
BY SegmentAssumption, WriterAssumption

\* The end of a segment is not past the start of a later one.
LEMMA LSNOrder ==
  ASSUME NEW m \in Nat, NEW n \in Nat, m < n, NEW a \in 0..SegCap, NEW b \in Nat
  PROVE  LSNFor(m, a) \in Nat /\ LSNFor(n, b) \in Nat /\ LSNFor(m, a) <= LSNFor(n, b)
<1> DEFINE S == SegCap
<1>1. S \in Nat
  BY ConstantFacts
<1>2. /\ m * S \in Nat /\ n * S \in Nat /\ (m + 1) * S \in Nat /\ (m + 1) * S = m * S + S
  BY <1>1
<1>3. \E d \in Nat : n = m + 1 + d
  <2>1. n - m - 1 \in Nat /\ n = m + 1 + (n - m - 1)
    OBVIOUS
  <2> QED
    BY <2>1
<1>4. PICK d \in Nat : n = m + 1 + d
  BY <1>3
<1>5. n * S = (m + 1) * S + d * S /\ d * S \in Nat
  BY <1>1, <1>4
<1> QED
  BY <1>1, <1>2, <1>5 DEF LSNFor

\* LSNs of offsets inside a segment.
LEMMA LSNType ==
  ASSUME NEW n \in Segs, NEW off \in 0..SegCap
  PROVE  LSNFor(n, off) \in LSNs /\ LSNFor(n, off) \in Nat
<1>1. n \in Nat /\ MaxSeg \in Nat /\ SegCap \in Nat /\ n <= MaxSeg
  BY ConstantFacts DEF Segs
<1>2. n * SegCap \in Nat /\ MaxSeg * SegCap \in Nat
  BY <1>1
<1>3. CASE n = MaxSeg
  BY <1>1, <1>2, <1>3 DEF LSNFor, LSNs
<1>4. CASE n < MaxSeg
  <2>1. LSNFor(n, off) <= LSNFor(MaxSeg, SegCap)
    BY <1>1, <1>4, LSNOrder
  <2> QED
    BY <2>1, <1>1, <1>2 DEF LSNFor, LSNs
<1> QED
  BY <1>1, <1>3, <1>4

\* Within a segment, LSNs are ordered as the offsets are.
LEMMA LSNSame ==
  ASSUME NEW n \in Nat, NEW a \in Nat, NEW b \in Nat
  PROVE  /\ LSNFor(n, a) \in Nat /\ LSNFor(n, b) \in Nat
         /\ LSNFor(n, a) <= LSNFor(n, b) <=> a <= b
<1>1. n * SegCap \in Nat
  BY ConstantFacts
<1> QED
  BY <1>1 DEF LSNFor

(***************************************************************************)
(* Sequences, and writes to a file                                          *)
(***************************************************************************)

\* A function on 1..n into S is a sequence of length n.
LEMMA FunSeq ==
  ASSUME NEW S, NEW n \in Nat, NEW f \in [1..n -> S]
  PROVE  f \in Seq(S) /\ Len(f) = n /\ DOMAIN f = 1..n
<1>1. f \in Seq(S)
  BY SeqDef
<1>2. DOMAIN f = 1..Len(f) /\ Len(f) \in Nat
  BY <1>1, LenProperties
<1>3. DOMAIN f = 1..n
  OBVIOUS
<1> QED
  BY <1>1, <1>2, <1>3

\* The units of one record.
LEMMA UnitsProps ==
  ASSUME NEW id \in 1..MaxRecs, NEW len \in Lens, NEW cp \in LSNs \cup {NoCp}
  PROVE  /\ Units(id, len, cp) \in Seq(UnitType) /\ Len(Units(id, len, cp)) = len
         /\ \A k \in 1..len : Units(id, len, cp)[k] = Unit(id, k, len, cp)
<1>1. len \in Nat /\ len <= SegCap
  BY ConstantFacts
<1>2. \A i \in 1..len : Unit(id, i, len, cp) \in UnitType
  BY <1>1, ConstantFacts DEF Unit, UnitType
<1>3. Units(id, len, cp) \in [1..len -> UnitType]
  BY <1>2 DEF Units
<1>4. \A k \in 1..len : Units(id, len, cp)[k] = Unit(id, k, len, cp)
  BY DEF Units
<1> QED
  BY <1>1, <1>3, <1>4, FunSeq

\* The header, and bytes never written, are units.
LEMMA SpecialUnits == Header \in UnitType /\ Zero \in UnitType
BY ConstantFacts DEF Header, Zero, Unit, UnitType

\* The length a write leaves.
Longer(a, b) == IF a > b THEN a ELSE b

\* What a write leaves of a file.
LEMMA PwriteProps ==
  ASSUME NEW c \in Seq(UnitType), NEW us \in Seq(UnitType), NEW off \in Nat
  PROVE  /\ Pwrite(c, off, us) \in Seq(UnitType)
         /\ Len(Pwrite(c, off, us)) = Longer(off + Len(us), Len(c))
         /\ \A i \in 1..Longer(off + Len(us), Len(c)) :
              Pwrite(c, off, us)[i] = IF i > off /\ i <= off + Len(us) THEN us[i - off]
                                      ELSE IF i <= Len(c) THEN c[i] ELSE Zero
<1> DEFINE n == Longer(off + Len(us), Len(c))
           e(i) == IF i > off /\ i <= off + Len(us) THEN us[i - off]
                   ELSE IF i <= Len(c) THEN c[i] ELSE Zero
<1>1. Len(us) \in Nat /\ Len(c) \in Nat /\ n \in Nat
  BY DEF Longer
<1>2. Pwrite(c, off, us) = [i \in 1..n |-> e(i)]
  BY DEF Pwrite, Longer
<1>3. ASSUME NEW i \in 1..n PROVE e(i) \in UnitType
  <2>1. CASE i > off /\ i <= off + Len(us)
    <3>1. i - off \in 1..Len(us)
      BY <1>1, <2>1
    <3>2. us[i - off] \in UnitType
      BY <3>1, ElementOfSeq
    <3> QED
      BY <2>1, <3>2
  <2>2. CASE ~ (i > off /\ i <= off + Len(us)) /\ i <= Len(c)
    <3>1. c[i] \in UnitType
      BY <1>1, <2>2, ElementOfSeq
    <3> QED
      BY <2>2, <3>1
  <2>3. CASE ~ (i > off /\ i <= off + Len(us)) /\ ~ (i <= Len(c))
    BY <2>3, SpecialUnits
  <2> QED
    BY <2>1, <2>2, <2>3
<1>4. [i \in 1..n |-> e(i)] \in [1..n -> UnitType]
  BY <1>3
<1> HIDE DEF n, e
<1>5. /\ [i \in 1..n |-> e(i)] \in Seq(UnitType) /\ Len([i \in 1..n |-> e(i)]) = n
      /\ \A m \in 1..n : [i \in 1..n |-> e(i)][m] = e(m)
  BY <1>1, <1>4, FunSeq
<1> QED
  BY <1>2, <1>5 DEF n, e

\* The units written are at the offset they were written at.
LEMMA PwriteInside ==
  ASSUME NEW c \in Seq(UnitType), NEW us \in Seq(UnitType), NEW off \in Nat, NEW k \in 1..Len(us)
  PROVE  off + k <= Len(Pwrite(c, off, us)) /\ Pwrite(c, off, us)[off + k] = us[k]
<1> DEFINE j == off + k
           w == Pwrite(c, off, us)
<1>1. Len(us) \in Nat /\ Len(c) \in Nat
  OBVIOUS
<1>2. /\ Len(w) = Longer(off + Len(us), Len(c))
      /\ \A i \in 1..Longer(off + Len(us), Len(c)) :
           w[i] = IF i > off /\ i <= off + Len(us) THEN us[i - off]
                  ELSE IF i <= Len(c) THEN c[i] ELSE Zero
  BY PwriteProps
<1>3. /\ j \in 1..Longer(off + Len(us), Len(c)) /\ j > off /\ j <= off + Len(us) /\ j - off = k
      /\ j <= Longer(off + Len(us), Len(c))
  BY <1>1 DEF Longer
<1> HIDE DEF j, w
<1>4. w[j] = us[j - off]
  BY <1>2, <1>3
<1> QED
  BY <1>2, <1>3, <1>4 DEF j, w

\* What lies before the offset stays.
LEMMA PwriteBefore ==
  ASSUME NEW c \in Seq(UnitType), NEW us \in Seq(UnitType), NEW off \in Nat,
         NEW j \in 1..Len(c), j <= off
  PROVE  Pwrite(c, off, us)[j] = c[j]
<1>1. Len(us) \in Nat /\ Len(c) \in Nat
  OBVIOUS
<1>2. \A i \in 1..Longer(off + Len(us), Len(c)) :
           Pwrite(c, off, us)[i] = IF i > off /\ i <= off + Len(us) THEN us[i - off]
                  ELSE IF i <= Len(c) THEN c[i] ELSE Zero
  BY PwriteProps
<1>3. /\ j \in 1..Longer(off + Len(us), Len(c)) /\ ~ (j > off /\ j <= off + Len(us)) /\ j <= Len(c)
  BY <1>1 DEF Longer
<1> QED
  BY <1>2, <1>3

\* Two contents of the same length that agree at every offset are the same.
LEMMA SameContent ==
  ASSUME NEW c \in Seq(UnitType), NEW d \in Seq(UnitType), Len(c) = Len(d),
         \A i \in 1..Len(c) : c[i] = d[i]
  PROVE  c = d
BY SeqEqual

\* Writing the first units again before the whole leaves what writing the whole leaves.
LEMMA PwriteTwice ==
  ASSUME NEW c \in Seq(UnitType), NEW us \in Seq(UnitType), NEW off \in Nat,
         NEW vs \in Seq(UnitType), Len(vs) <= Len(us), \A i \in 1..Len(vs) : vs[i] = us[i]
  PROVE  Pwrite(Pwrite(c, off, vs), off, us) = Pwrite(c, off, us)
<1> DEFINE d == Pwrite(c, off, vs)
<1>1. Len(us) \in Nat /\ Len(vs) \in Nat /\ Len(c) \in Nat
  OBVIOUS
<1>2. /\ d \in Seq(UnitType) /\ Len(d) = Longer(off + Len(vs), Len(c))
      /\ \A i \in 1..Longer(off + Len(vs), Len(c)) :
           d[i] = IF i > off /\ i <= off + Len(vs) THEN vs[i - off]
                  ELSE IF i <= Len(c) THEN c[i] ELSE Zero
  BY PwriteProps
<1> HIDE DEF d
<1>3. /\ Pwrite(d, off, us) \in Seq(UnitType)
      /\ Len(Pwrite(d, off, us)) = Longer(off + Len(us), Len(d))
      /\ \A i \in 1..Longer(off + Len(us), Len(d)) :
           Pwrite(d, off, us)[i] = IF i > off /\ i <= off + Len(us) THEN us[i - off]
                                   ELSE IF i <= Len(d) THEN d[i] ELSE Zero
  BY <1>2, PwriteProps
<1>4. /\ Pwrite(c, off, us) \in Seq(UnitType)
      /\ Len(Pwrite(c, off, us)) = Longer(off + Len(us), Len(c))
      /\ \A i \in 1..Longer(off + Len(us), Len(c)) :
           Pwrite(c, off, us)[i] = IF i > off /\ i <= off + Len(us) THEN us[i - off]
                                   ELSE IF i <= Len(c) THEN c[i] ELSE Zero
  BY PwriteProps
<1>5. Longer(off + Len(us), Len(d)) = Longer(off + Len(us), Len(c))
  BY <1>1, <1>2 DEF Longer
<1>6. ASSUME NEW i \in 1..Longer(off + Len(us), Len(c))
      PROVE  Pwrite(d, off, us)[i] = Pwrite(c, off, us)[i]
  <2>1. CASE i > off /\ i <= off + Len(us)
    BY <1>3, <1>4, <1>5, <2>1
  <2>2. CASE ~ (i > off /\ i <= off + Len(us))
    <3>1. ~ (i > off /\ i <= off + Len(vs))
      BY <1>1, <2>2
    <3>2. i <= Len(c) => i <= Len(d)
      BY <1>1, <1>2 DEF Longer
    <3>3. i <= Len(d) => i \in 1..Longer(off + Len(vs), Len(c))
      BY <1>1, <1>2 DEF Longer
    <3>4. i <= Len(d) => d[i] = IF i <= Len(c) THEN c[i] ELSE Zero
      BY <1>2, <3>1, <3>3
    <3> QED
      BY <1>3, <1>4, <1>5, <2>2, <3>2, <3>4
  <2> QED
    BY <2>1, <2>2
<1> QED
  BY <1>3, <1>4, <1>5, <1>6, SameContent DEF d

(***************************************************************************)
(* Flushes                                                                  *)
(***************************************************************************)

\* The variables a flush is made of, one fact each.
LEMMA FlushParts ==
  ASSUME TypeOK, SegInv, seg # NoSeg
  PROVE  /\ seg \in Segs /\ writeOff \in 0..SegCap /\ buf \in Seq(UnitType)
         /\ cache \in [Segs -> Content] /\ cache[seg] \in Seq(UnitType) /\ Len(cache[seg]) <= SegCap
         /\ Len(buf) \in Nat /\ writeOff - Len(buf) \in Nat /\ Len(cache[seg]) \in Nat
         /\ writeOff - Len(buf) <= Len(cache[seg])
<1>1. /\ seg \in Segs /\ writeOff \in 0..SegCap /\ buf \in Seq(UnitType)
      /\ cache \in [Segs -> Content]
  BY DEF TypeOK
<1>2. cache[seg] \in Seq(UnitType) /\ Len(cache[seg]) <= SegCap
  BY <1>1 DEF Content
<1>3. 1 + Len(buf) <= writeOff /\ writeOff - Len(buf) <= Len(cache[seg])
  BY DEF SegInv
<1>4. Len(buf) \in Nat /\ Len(cache[seg]) \in Nat
  BY <1>1, <1>2
<1> QED
  BY <1>1, <1>2, <1>3, <1>4, ConstantFacts

\* A flush makes the files what View shows.
LEMMA FlushFacts ==
  ASSUME TypeOK, SegInv, seg # NoSeg
  PROVE  /\ AfterFlush \in [Segs -> Content]
         /\ \A n \in Segs : AfterFlush[n] = View(n)
         /\ writeOff <= Len(AfterFlush[seg])
         /\ buf # <<>> => Flushed = AfterFlush
<1>1. /\ seg \in Segs /\ writeOff \in 0..SegCap /\ buf \in Seq(UnitType)
      /\ cache \in [Segs -> Content] /\ cache[seg] \in Seq(UnitType) /\ Len(cache[seg]) <= SegCap
      /\ Len(buf) \in Nat /\ writeOff - Len(buf) \in Nat /\ Len(cache[seg]) \in Nat
      /\ writeOff - Len(buf) <= Len(cache[seg])
  BY FlushParts
<1>2. CASE buf = <<>>
  <2>1. AfterFlush = cache /\ \A n \in Segs : View(n) = cache[n]
    BY <1>2 DEF AfterFlush, View
  <2>2. Len(buf) = 0
    BY <1>2
  <2> QED
    BY <1>1, <1>2, <2>1, <2>2
<1>3. CASE buf # <<>>
  <2> DEFINE c == Pwrite(cache[seg], writeOff - Len(buf), buf)
  <2>1. c \in Seq(UnitType) /\ Len(c) = Longer(writeOff - Len(buf) + Len(buf), Len(cache[seg]))
    BY <1>1, PwriteProps
  <2>2. c \in Content /\ writeOff <= Len(c)
    BY <1>1, <2>1, ConstantFacts DEF Content, Longer
  <2>3. AfterFlush = [cache EXCEPT ![seg] = c]
    BY <1>3 DEF AfterFlush, Flushed
  <2>4. \A n \in Segs : View(n) = IF n = seg THEN c ELSE cache[n]
    BY <1>3 DEF View
  <2> HIDE DEF c
  <2> QED
    BY <1>1, <1>3, <2>2, <2>3, <2>4 DEF AfterFlush
<1> QED
  BY <1>2, <1>3

\* A short write keeps View: what it wrote is written again with the rest.
LEMMA PartialFacts ==
  ASSUME TypeOK, SegInv, seg # NoSeg, NEW k \in 0..Len(buf)
  PROVE  /\ FlushedTo(k) \in [Segs -> Content]
         /\ writeOff - Len(buf) <= Len(FlushedTo(k)[seg])
         /\ Pwrite(FlushedTo(k)[seg], writeOff - Len(buf), buf)
              = Pwrite(cache[seg], writeOff - Len(buf), buf)
         /\ \A n \in Segs \ {seg} : FlushedTo(k)[n] = cache[n]
<1>1. /\ seg \in Segs /\ writeOff \in 0..SegCap /\ buf \in Seq(UnitType)
      /\ cache \in [Segs -> Content] /\ cache[seg] \in Seq(UnitType) /\ Len(cache[seg]) <= SegCap
      /\ Len(buf) \in Nat /\ writeOff - Len(buf) \in Nat /\ Len(cache[seg]) \in Nat
      /\ writeOff - Len(buf) <= Len(cache[seg])
  BY FlushParts
<1> DEFINE vs == SubSeq(buf, 1, k)
           c == Pwrite(cache[seg], writeOff - Len(buf), vs)
<1>2. vs \in Seq(UnitType) /\ Len(vs) = k /\ \A i \in 1..Len(vs) : vs[i] = buf[i]
  <2>1. \A i \in 1..k : buf[i] \in UnitType
    BY <1>1, ElementOfSeq
  <2>2. /\ vs \in Seq(UnitType) /\ Len(vs) = IF 1 <= k THEN k - 1 + 1 ELSE 0
        /\ \A i \in 1..k - 1 + 1 : vs[i] = buf[1 + i - 1]
    BY <2>1, SubSeqProperties
  <2> HIDE DEF vs
  <2> QED
    BY <2>2
<1> HIDE DEF vs
<1>3. c \in Seq(UnitType) /\ Len(c) = Longer(writeOff - Len(buf) + Len(vs), Len(cache[seg]))
  BY <1>1, <1>2, PwriteProps
<1>4. c \in Content /\ writeOff - Len(buf) <= Len(c)
  BY <1>1, <1>2, <1>3, ConstantFacts DEF Content, Longer
<1>5. FlushedTo(k) = [cache EXCEPT ![seg] = c]
  BY DEF FlushedTo, vs
<1>6. Pwrite(c, writeOff - Len(buf), buf) = Pwrite(cache[seg], writeOff - Len(buf), buf)
  BY <1>1, <1>2, PwriteTwice
<1> HIDE DEF c
<1> QED
  BY <1>1, <1>4, <1>5, <1>6

(***************************************************************************)
(* Types                                                                    *)
(***************************************************************************)

\* The types of the files' contents, of the writer, and of the histories.
FileTypes == cache \in [Segs -> Content] /\ disk \in [Segs -> Content]
WriterTypes ==
  /\ state \in {"open", "closing", "closed", "down"}
  /\ seg \in Segs \cup {NoSeg} /\ writeOff \in 0..SegCap
  /\ buf \in Seq(UnitType) /\ Len(buf) <= BufCap /\ fh \in BOOLEAN
AsyncTypes == synced \in LSNs /\ inflight \subseteq FsyncType
HistoryTypes ==
  /\ life \in 1..MaxLives /\ faults \in 0..MaxFaults
  /\ recs \in Seq(RecordType) /\ Len(recs) <= MaxRecs /\ acked \subseteq DOMAIN recs

\* TypeOK is the four of them.
LEMMA TypeParts == TypeOK <=> FileTypes /\ WriterTypes /\ AsyncTypes /\ HistoryTypes
BY DEF TypeOK, FileTypes, WriterTypes, AsyncTypes, HistoryTypes

\* ... in the next state as well.
LEMMA TypePartsNext == TypeOK' <=> FileTypes' /\ WriterTypes' /\ AsyncTypes' /\ HistoryTypes'
BY DEF TypeOK, FileTypes, WriterTypes, AsyncTypes, HistoryTypes

\* Room for one record more.
Room == Len(recs) < MaxRecs

\* The fields of an accepted record.
LEMMA RecordFacts ==
  ASSUME TypeOK, NEW i \in DOMAIN recs
  PROVE  /\ recs[i] \in RecordType /\ i \in 1..Len(recs) /\ Len(recs) \in Nat /\ Len(recs) <= MaxRecs
         /\ recs[i].life \in 1..MaxLives /\ recs[i].seg \in Segs /\ recs[i].off \in 1..SegCap
         /\ recs[i].len \in Lens /\ recs[i].cp \in LSNs \cup {NoCp}
<1>1. recs \in Seq(RecordType) /\ Len(recs) <= MaxRecs
  BY DEF TypeOK
<1>2. i \in 1..Len(recs) /\ Len(recs) \in Nat
  BY <1>1, LenProperties
<1>3. recs[i] \in RecordType
  BY <1>1, <1>2, ElementOfSeq
<1> QED
  BY <1>1, <1>2, <1>3 DEF RecordType

\* A checkpoint record carries an LSN of the log.
LEMMA CpTypes ==
  ASSUME TypeOK, NEW len \in Lens, NEW cp \in CpValues(len)
  PROVE  cp \in LSNs \cup {NoCp}
<1>1. CASE cp = NoCp
  BY <1>1
<1>2. CASE cp # NoCp
  <2>1. PICK i \in Mine : cp = LSNFor(recs[i].seg, recs[i].off)
    BY <1>2 DEF CpValues
  <2>2. recs[i].seg \in Segs /\ recs[i].off \in 0..SegCap
    BY <2>1, RecordFacts, ConstantFacts DEF Mine
  <2> QED
    BY <2>1, <2>2, LSNType
<1> QED
  BY <1>1, <1>2

\* The units of a record behind those of a buffer.
LEMMA BufferFacts ==
  ASSUME NEW b \in Seq(UnitType), NEW id \in 1..MaxRecs, NEW len \in Lens, NEW cp \in LSNs \cup {NoCp}
  PROVE  /\ b \o Units(id, len, cp) \in Seq(UnitType)
         /\ Len(b \o Units(id, len, cp)) = Len(b) + len /\ b \o Units(id, len, cp) # <<>>
         /\ \A i \in 1..Len(b) : (b \o Units(id, len, cp))[i] = b[i]
         /\ \A k \in 1..len : (b \o Units(id, len, cp))[Len(b) + k] = Unit(id, k, len, cp)
<1> DEFINE us == Units(id, len, cp)
<1>1. len \in Nat /\ len >= 1 /\ Len(b) \in Nat
  BY ConstantFacts
<1>2. /\ us \in Seq(UnitType) /\ Len(us) = len
      /\ \A k \in 1..len : us[k] = Unit(id, k, len, cp)
  BY UnitsProps
<1> HIDE DEF us
<1>3. /\ b \o us \in Seq(UnitType) /\ Len(b \o us) = Len(b) + len
      /\ \A i \in 1..Len(b) + len : (b \o us)[i] = IF i <= Len(b) THEN b[i] ELSE us[i - Len(b)]
  BY <1>2, ConcatProperties
<1>4. \A k \in 1..len : /\ Len(b) + k \in 1..Len(b) + len /\ ~ (Len(b) + k <= Len(b))
                        /\ Len(b) + k - Len(b) = k
  BY <1>1
<1>5. \A i \in 1..Len(b) : i \in 1..Len(b) + len /\ i <= Len(b)
  BY <1>1
<1>6. b \o us # <<>>
  BY <1>1, <1>3
<1>7. /\ \A i \in 1..Len(b) : (b \o us)[i] = b[i]
      /\ \A k \in 1..len : (b \o us)[Len(b) + k] = Unit(id, k, len, cp)
  BY <1>2, <1>3, <1>4, <1>5
<1> QED
  BY <1>3, <1>6, <1>7 DEF us

\* ... and behind those of an empty one.
LEMMA EmptyBufferFacts ==
  ASSUME NEW id \in 1..MaxRecs, NEW len \in Lens, NEW cp \in LSNs \cup {NoCp}
  PROVE  /\ <<>> \o Units(id, len, cp) \in Seq(UnitType)
         /\ Len(<<>> \o Units(id, len, cp)) = len /\ <<>> \o Units(id, len, cp) # <<>>
         /\ \A k \in 1..len : (<<>> \o Units(id, len, cp))[k] = Unit(id, k, len, cp)
<1> DEFINE us == Units(id, len, cp)
<1>1. us \in Seq(UnitType) /\ Len(us) = len /\ \A k \in 1..len : us[k] = Unit(id, k, len, cp)
  BY UnitsProps
<1> HIDE DEF us
<1>2. <<>> \o us = us
  BY <1>1, ConcatEmptySeq
<1>3. us # <<>>
  BY <1>1, ConstantFacts
<1> QED
  BY <1>1, <1>2, <1>3 DEF us

\* The fields of the record that an append of len units adds to the history.
NewRecord(n, off, len, cp) == [life |-> life, seg |-> n, off |-> off, len |-> len, cp |-> cp]

\* The history with one record more.
LEMMA LogFacts ==
  ASSUME TypeOK, Room, NEW n \in Segs, NEW off \in 1..SegCap, NEW len \in Lens,
         NEW cp \in LSNs \cup {NoCp}
  PROVE  LET log == Append(recs, NewRecord(n, off, len, cp)) IN
         /\ log \in Seq(RecordType) /\ Len(log) = Len(recs) + 1 /\ Len(log) <= MaxRecs
         /\ Len(recs) \in Nat /\ Len(recs) + 1 \in 1..MaxRecs
         /\ DOMAIN recs = 1..Len(recs) /\ DOMAIN log = 1..Len(recs) + 1
         /\ \A i \in 1..Len(recs) : log[i] = recs[i]
         /\ log[Len(recs) + 1] = NewRecord(n, off, len, cp)
<1> DEFINE r == NewRecord(n, off, len, cp)
<1>1. recs \in Seq(RecordType) /\ Len(recs) \in Nat /\ life \in 1..MaxLives
  BY DEF TypeOK
<1>2. r \in RecordType
  BY <1>1 DEF RecordType, NewRecord
<1> HIDE DEF r
<1>3. /\ Append(recs, r) \in Seq(RecordType) /\ Len(Append(recs, r)) = Len(recs) + 1
      /\ \A i \in 1..Len(recs) : Append(recs, r)[i] = recs[i]
      /\ Append(recs, r)[Len(recs) + 1] = r
  BY <1>1, <1>2, AppendProperties
<1>4. DOMAIN recs = 1..Len(recs) /\ DOMAIN Append(recs, r) = 1..Len(recs) + 1
  BY <1>1, <1>3, LenProperties
<1>5. Len(recs) + 1 <= MaxRecs /\ Len(recs) + 1 \in 1..MaxRecs
  BY <1>1, ConstantFacts DEF Room
<1> QED
  BY <1>1, <1>3, <1>4, <1>5 DEF r

\* A file opened for a segment keeps its content behind the header.
LEMMA OpenFacts ==
  ASSUME NEW files \in [Segs -> Content], NEW n \in Segs,
         cache' = [files EXCEPT ![n] = Pwrite(@, 0, <<Header>>)]
  PROVE  /\ cache' \in [Segs -> Content] /\ 1 <= Len(cache'[n])
         /\ \A m \in Segs \ {n} : cache'[m] = files[m]
<1> DEFINE h == <<Header>>
           c == Pwrite(files[n], 0, h)
<1>1. cache' = [files EXCEPT ![n] = c]
  OBVIOUS
<1>2. files[n] \in Seq(UnitType) /\ Len(files[n]) <= SegCap
  BY <1>1 DEF Content
<1>3. h \in Seq(UnitType) /\ Len(h) = 1
  BY SpecialUnits
<1> HIDE DEF h
<1>4. c \in Seq(UnitType) /\ Len(c) = Longer(0 + Len(h), Len(files[n]))
  BY <1>2, <1>3, PwriteProps
<1>5. c \in Content /\ 1 <= Len(c)
  BY <1>2, <1>3, <1>4, ConstantFacts DEF Content, Longer
<1> HIDE DEF c
<1> QED
  BY <1>1, <1>5

\* The handles of the fsync goroutines, after their descriptor's number was given away.
LEMMA RetargetFacts ==
  ASSUME inflight \subseteq FsyncType, NEW to \in Segs \cup {Stray, BadFd}, Retarget(to)
  PROVE  inflight' \subseteq FsyncType
<1> SUFFICES ASSUME NEW g \in inflight' PROVE g \in FsyncType
  OBVIOUS
<1>1. PICK f \in inflight : g = IF f.fd = seg THEN [f EXCEPT !.fd = to] ELSE f
  BY DEF Retarget
<1>2. f \in FsyncType
  OBVIOUS
<1> QED
  BY <1>1, <1>2 DEF FsyncType

(***************************************************************************)
(* Crashes, and the truncation before a checkpoint                          *)
(***************************************************************************)

\* A bounded set of numbers has a largest one, which Max is.
LEMMA MaxOfSet ==
  ASSUME NEW N \in Nat, NEW A \in SUBSET (0..N), A # {}
  PROVE  Max(A) \in A /\ \A y \in A : Max(A) >= y
<1> DEFINE Above(x) == {y \in A : y > x}
           T == {Above(x) : x \in A}
<1>1. IsFiniteSet(A)
  <2>1. IsFiniteSet(0..N)
    BY FS_Interval
  <2> QED
    BY <2>1, FS_Subset
<1>2. T \subseteq FiniteSubsetsOf(A) /\ T # {}
  <2>1. \A x \in A : Above(x) \in SUBSET A
    OBVIOUS
  <2>2. FiniteSubsetsOf(A) = SUBSET A
    BY <1>1, FS_FiniteSubsetsOfFinite
  <2> HIDE DEF Above
  <2>3. T \subseteq SUBSET A
    BY <2>1
  <2>4. T # {}
    OBVIOUS
  <2> QED
    BY <2>2, <2>3, <2>4
<1>3. PICK X \in T : \A Y \in T : ~ (<<Y, X>> \in StrictSubsetOrdering(A))
  <2> DEFINE R == StrictSubsetOrdering(A)
             S == FiniteSubsetsOf(A)
  <2>1. IsWellFoundedOn(R, S)
    BY FS_StrictSubsetOrderingWellFounded
  <2> HIDE DEF T, R, S
  <2>2. T \subseteq S
    BY <1>2 DEF S
  <2>3. \E X \in T : \A Y \in T : ~ (<<Y, X>> \in R)
    BY <1>2, <2>1, <2>2, WFMin
  <2> QED
    BY <2>3 DEF R
<1>4. PICK x \in A : X = Above(x)
  BY <1>3
<1>5. Above(x) = {}
  <2> SUFFICES ASSUME NEW z \in Above(x) PROVE FALSE
    OBVIOUS
  <2>1. z \in A /\ z > x /\ z \in 0..N /\ x \in 0..N
    OBVIOUS
  <2>2. Above(z) \subseteq Above(x) /\ z \notin Above(z) /\ Above(z) \in T
    <3>1. Above(z) \subseteq Above(x)
      <4> SUFFICES ASSUME NEW y \in Above(z) PROVE y \in Above(x)
        OBVIOUS
      <4>1. y \in A /\ y > z /\ y \in 0..N
        OBVIOUS
      <4> QED
        BY <2>1, <4>1
    <3>2. z \notin Above(z)
      BY <2>1
    <3> HIDE DEF Above
    <3>3. Above(z) \in T
      BY <2>1
    <3> QED
      BY <3>1, <3>2, <3>3
  <2>3. <<Above(z), X>> \in StrictSubsetOrdering(A)
    <3>1. Above(z) \in SUBSET A /\ X \in SUBSET A /\ Above(z) \subseteq X /\ Above(z) # X
      BY <1>4, <2>1, <2>2
    <3>2. \A Y, Z \in SUBSET A :
            Y \subseteq Z /\ Y # Z => <<Y, Z>> \in StrictSubsetOrdering(A)
      BY DEF StrictSubsetOrdering
    <3> HIDE DEF Above
    <3> QED
      BY <3>1, <3>2
  <2> QED
    BY <1>3, <2>2, <2>3
<1>6. \A y \in A : x >= y
  BY <1>5
<1> QED
  BY <1>6 DEF Max

\* What a crash leaves of a segment is a content a segment can have.
LEMMA SurvivorType ==
  ASSUME TypeOK, NEW n \in Segs, NEW kept \in SUBSET Dirty
  PROVE  Survivor(n, kept) \in Content
<1> DEFINE A == {0} \cup {i \in 1..SegCap : <<n, i>> \in kept}
           top == Max(A)
           size == IF top > Len(disk[n]) THEN top ELSE Len(disk[n])
           e(i) == IF <<n, i>> \in kept THEN cache[n][i]
                   ELSE IF i <= Len(disk[n]) THEN disk[n][i] ELSE Zero
<1>1. /\ cache[n] \in Seq(UnitType) /\ disk[n] \in Seq(UnitType)
      /\ Len(disk[n]) <= SegCap /\ Len(disk[n]) \in Nat /\ Len(cache[n]) \in Nat
  <2>1. cache[n] \in Content /\ disk[n] \in Content
    BY DEF TypeOK
  <2> QED
    BY <2>1 DEF Content
<1>2. top \in 0..SegCap
  <2>1. A \in SUBSET (0..SegCap) /\ A # {} /\ SegCap \in Nat
    BY ConstantFacts
  <2> HIDE DEF A
  <2> QED
    BY <2>1, MaxOfSet
<1> HIDE DEF top
<1>3. size \in Nat /\ size <= SegCap
  BY <1>1, <1>2, ConstantFacts
<1>4. ASSUME NEW i \in 1..size PROVE e(i) \in UnitType
  <2>1. CASE <<n, i>> \in kept
    <3>1. <<n, i>> \in Dirty
      BY <2>1
    <3>2. i \in 1..Len(cache[n])
      BY <1>1, <1>3, <3>1 DEF Dirty
    <3> QED
      BY <1>1, <2>1, <3>2, ElementOfSeq
  <2>2. CASE <<n, i>> \notin kept /\ i <= Len(disk[n])
    <3>1. i \in 1..Len(disk[n])
      BY <1>1, <1>3, <2>2
    <3> QED
      BY <1>1, <2>2, <3>1, ElementOfSeq
  <2>3. CASE <<n, i>> \notin kept /\ ~ (i <= Len(disk[n]))
    BY <2>3, SpecialUnits
  <2> QED
    BY <2>1, <2>2, <2>3
<1>5. Survivor(n, kept) = [i \in 1..size |-> e(i)]
  BY DEF Survivor, top
<1> HIDE DEF size, e
<1>6. [i \in 1..size |-> e(i)] \in [1..size -> UnitType]
  BY <1>4
<1> QED
  BY <1>3, <1>5, <1>6, FunSeq DEF Content

\* A file that is cut, or filled up with zeros, is a content a segment can have.
LEMMA FtruncateType ==
  ASSUME NEW c \in Content, NEW size \in 0..SegCap
  PROVE  Ftruncate(c, size) \in Content
<1>1. c \in Seq(UnitType) /\ Len(c) \in Nat /\ size \in Nat /\ size <= SegCap
  BY ConstantFacts DEF Content
<1>2. \A i \in 1..size : (IF i <= Len(c) THEN c[i] ELSE Zero) \in UnitType
  <2>1. \A i \in 1..size : i <= Len(c) => c[i] \in UnitType
    BY <1>1, ElementOfSeq
  <2> QED
    BY <2>1, SpecialUnits
<1>3. Ftruncate(c, size) \in [1..size -> UnitType]
  BY <1>2 DEF Ftruncate
<1> QED
  BY <1>1, <1>3, FunSeq DEF Content

\* The truncation at open keeps the files' types.
LEMMA TruncateType ==
  ASSUME NEW files \in [Segs -> Content], NEW lsn \in LSNs
  PROVE  TruncateBeforeCheckpoint(files, lsn) \in [Segs -> Content]
<1> DEFINE back == OffsetOf(lsn) = 0 /\ SegmentOf(lsn) > 0
           s == IF back THEN SegmentOf(lsn) - 1 ELSE SegmentOf(lsn)
           size == IF back THEN SegCap ELSE OffsetOf(lsn)
           e(n) == CASE n < s -> <<>>
                     [] n = s /\ size > 0 /\ files[n] # <<>> -> Ftruncate(files[n], size)
                     [] OTHER -> files[n]
<1>1. size \in 0..SegCap
  <2>1. lsn \in Nat /\ SegCap \in Nat /\ SegCap > 0
    BY ConstantFacts DEF LSNs, LSNFor, Segs
  <2>2. OffsetOf(lsn) \in 0..SegCap
    BY <2>1 DEF OffsetOf
  <2> QED
    BY <2>1, <2>2
<1>2. <<>> \in Content
  BY ConstantFacts DEF Content
<1> HIDE DEF size
<1>3. ASSUME NEW n \in Segs PROVE e(n) \in Content
  BY <1>1, <1>2, FtruncateType
<1>4. TruncateBeforeCheckpoint(files, lsn) = [n \in Segs |-> e(n)]
  BY DEF TruncateBeforeCheckpoint, size
<1> HIDE DEF e
<1> QED
  BY <1>3, <1>4

(***************************************************************************)
(* Steps                                                                    *)
(***************************************************************************)

\* A step is one of the actions, or changes nothing.
LEMMA NextSteps ==
  ASSUME [Next]_vars, NEW P,
         Room => \A len \in Lens : \A cp \in CpValues(len) : (AppendFirst(len, cp) => P),
         Room => \A len \in Lens : \A cp \in CpValues(len) : (AppendBuffered(len, cp) => P),
         Room => \A len \in Lens : \A cp \in CpValues(len) : (AppendOverflow(len, cp) => P),
         Room => \A len \in Lens : \A cp \in CpValues(len) : (AppendRotate(len, cp) => P),
         \A len \in Lens : (AppendRotateFails(len) => P),
         (FlushFails => P), (SyncNothing => P), (Sync => P), (SyncFsyncFails => P),
         (SyncAsync => P), (SyncAsyncNothing => P),
         \A f \in inflight : (AsyncFsync(f) => P),
         \A f \in inflight : (AsyncFails(f) => P),
         \A f \in inflight : (AsyncDone(f) => P),
         (CloseBegin => P), (CloseEnd => P), (Exit => P), (Crash => P), (Reopen => P),
         vars' = vars => P
  PROVE  P
BY DEF Next, AppendRecord, AsyncStep, Room

(***************************************************************************)
(* The types and SegInv are kept together                                   *)
(***************************************************************************)

Shape == TypeOK /\ SegInv

\* The files are empty and nothing is open at the start.
LEMMA ShapeInit == Init => Shape
<1> SUFFICES ASSUME Init PROVE Shape
  OBVIOUS
<1>1. <<>> \in Content
  BY ConstantFacts DEF Content
<1>2. FileTypes
  BY <1>1 DEF Init, FileTypes
<1>3. WriterTypes
  <2>1. buf = <<>> /\ Len(<<>>) = 0 /\ <<>> \in Seq(UnitType)
    BY DEF Init
  <2>2. writeOff \in 0..SegCap /\ 0 <= BufCap
    BY ConstantFacts DEF Init
  <2>3. state \in {"open", "closing", "closed", "down"} /\ seg \in Segs \cup {NoSeg} /\ fh \in BOOLEAN
    BY DEF Init
  <2> QED
    BY <2>1, <2>2, <2>3 DEF WriterTypes
<1>4. AsyncTypes
  <2>1. 0 \in LSNs
    <3>1. 0 \in Segs /\ LSNFor(0, 0) = 0
      BY ConstantFacts DEF Segs, LSNFor
    <3> QED
      BY <3>1, LSNType, ConstantFacts
  <2> QED
    BY <2>1 DEF Init, AsyncTypes
<1>5. HistoryTypes
  <2>1. life \in 1..MaxLives /\ faults \in 0..MaxFaults
    BY ConstantFacts DEF Init
  <2>2. recs = <<>> /\ acked = {} /\ MaxRecs >= 0
    BY ConstantFacts DEF Init
  <2>3. recs \in Seq(RecordType) /\ Len(recs) <= MaxRecs /\ acked \subseteq DOMAIN recs
    BY <2>2
  <2> QED
    BY <2>1, <2>3 DEF HistoryTypes
<1>6. SegInv
  BY DEF Init, SegInv
<1> QED
  BY <1>2, <1>3, <1>4, <1>5, <1>6, TypeParts DEF Shape

\* No segment is NoSeg.
LEMMA NoSegFacts == NoSeg \notin Segs /\ Stray \notin Segs /\ BadFd \notin Segs
BY ConstantFacts DEF NoSeg, Stray, BadFd, Segs

\* A failure is counted.
LEMMA FaultType == ASSUME TypeOK, Fault PROVE faults' \in 0..MaxFaults /\ faults' > 0 /\ faults' # faults
BY ConstantFacts DEF TypeOK, Fault

\* LSNs of the end of the log.
LEMMA EndType ==
  ASSUME TypeOK, seg # NoSeg
  PROVE  LSNFor(seg, writeOff) \in LSNs /\ Later(LSNFor(seg, writeOff)) \in LSNs
<1>1. seg \in Segs /\ writeOff \in 0..SegCap /\ synced \in LSNs
  BY DEF TypeOK
<1> QED
  BY <1>1, LSNType DEF Later

(***************************************************************************)
(* What an accepted record does to the history and the buffer               *)
(***************************************************************************)

\* The history gains a record that ends at the new end of the log.
LogGrown(len, cp) ==
  /\ recs' \in Seq(RecordType) /\ Len(recs') = Len(recs) + 1 /\ Len(recs') <= MaxRecs
  /\ Len(recs) \in Nat /\ Len(recs) + 1 \in 1..MaxRecs
  /\ DOMAIN recs = 1..Len(recs) /\ DOMAIN recs' = 1..Len(recs) + 1
  /\ \A i \in 1..Len(recs) : recs'[i] = recs[i]
  /\ recs'[Len(recs) + 1] = NewRecord(seg', writeOff' - len, len, cp)
  /\ writeOff' - len \in 1..SegCap /\ writeOff' \in 1..SegCap /\ seg' \in Segs

\* The buffer holds the record alone, or behind what it held.
BufferRestarted(len, cp) ==
  /\ buf' \in Seq(UnitType) /\ Len(buf') = len /\ buf' # <<>>
  /\ \A k \in 1..len : buf'[k] = Unit(Len(recs) + 1, k, len, cp)
BufferGrown(len, cp) ==
  /\ buf' \in Seq(UnitType) /\ Len(buf') = Len(buf) + len /\ buf' # <<>>
  /\ \A i \in 1..Len(buf) : buf'[i] = buf[i]
  /\ \A k \in 1..len : buf'[Len(buf) + k] = Unit(Len(recs) + 1, k, len, cp)

\* The four ways a record is accepted: the files, the segment, and the record's place.
LEMMA FirstEffect ==
  ASSUME Shape, Room, NEW len \in Lens, NEW cp \in CpValues(len), AppendFirst(len, cp)
  PROVE  /\ seg' = 0 /\ fh' = TRUE /\ writeOff' = 1 + len
         /\ cache' \in [Segs -> Content] /\ 1 <= Len(cache'[0])
         /\ \A m \in Segs \ {0} : cache'[m] = cache[m]
         /\ LogGrown(len, cp) /\ BufferRestarted(len, cp)
<1>1. /\ OpenSegment(cache, 0) /\ Accept(0, 1, <<>>, len, cp)
  BY DEF AppendFirst
<1>2. TypeOK /\ cp \in LSNs \cup {NoCp} /\ len \in Nat /\ len >= 1 /\ 1 + len <= SegCap
  BY CpTypes, ConstantFacts DEF Shape
<1>3. /\ 0 \in Segs /\ seg' = 0 /\ fh' = TRUE /\ cache' \in [Segs -> Content]
      /\ 1 <= Len(cache'[0]) /\ \A m \in Segs \ {0} : cache'[m] = cache[m]
  <2>1. cache \in [Segs -> Content]
    BY <1>2 DEF TypeOK
  <2> QED
    BY <1>1, <2>1, OpenFacts DEF OpenSegment
<1>4. /\ recs' = Append(recs, NewRecord(0, 1, len, cp)) /\ writeOff' = 1 + len
      /\ buf' = <<>> \o Units(Len(recs) + 1, len, cp)
  BY <1>1 DEF Accept, NewRecord
<1>5. 1 \in 1..SegCap /\ writeOff' - len = 1 /\ writeOff' \in 1..SegCap
  BY <1>2, <1>4, ConstantFacts
<1>6. LogGrown(len, cp)
  BY <1>2, <1>3, <1>4, <1>5, LogFacts DEF LogGrown
<1>7. BufferRestarted(len, cp)
  <2>1. Len(recs) + 1 \in 1..MaxRecs
    BY <1>6 DEF LogGrown
  <2> QED
    BY <1>2, <1>4, <2>1, EmptyBufferFacts DEF BufferRestarted
<1> QED
  BY <1>3, <1>4, <1>6, <1>7

LEMMA BufferedEffect ==
  ASSUME Shape, Room, NEW len \in Lens, NEW cp \in CpValues(len), AppendBuffered(len, cp)
  PROVE  /\ seg \in Segs /\ seg' = seg /\ fh' = fh /\ writeOff' = writeOff + len /\ cache' = cache
         /\ Len(buf) + len <= BufCap
         /\ LogGrown(len, cp) /\ BufferGrown(len, cp)
<1>1. /\ state = "open" /\ seg # NoSeg /\ Fits(len) /\ FitsBuf(len)
      /\ Accept(seg, writeOff, buf, len, cp) /\ UNCHANGED <<cache, seg, fh>>
  BY DEF AppendBuffered
<1>2. TypeOK /\ SegInv /\ cp \in LSNs \cup {NoCp} /\ len \in Nat /\ len >= 1
  BY CpTypes, ConstantFacts DEF Shape
<1>3. /\ seg \in Segs /\ writeOff \in 1..SegCap /\ buf \in Seq(UnitType) /\ Len(buf) \in Nat
  BY <1>1, <1>2, FlushParts DEF SegInv
<1>4. writeOff + len <= SegCap /\ Len(buf) + len <= BufCap
  BY <1>1 DEF Fits, FitsBuf
<1>5. /\ recs' = Append(recs, NewRecord(seg, writeOff, len, cp)) /\ writeOff' = writeOff + len
      /\ buf' = buf \o Units(Len(recs) + 1, len, cp)
  BY <1>1 DEF Accept, NewRecord
<1>6. writeOff' - len = writeOff /\ writeOff' \in 1..SegCap
  BY <1>2, <1>3, <1>4, <1>5, ConstantFacts
<1>7. LogGrown(len, cp)
  BY <1>1, <1>2, <1>3, <1>5, <1>6, LogFacts DEF LogGrown
<1>8. BufferGrown(len, cp)
  <2>1. Len(recs) + 1 \in 1..MaxRecs
    BY <1>7 DEF LogGrown
  <2> DEFINE id == Len(recs) + 1
             b == buf \o Units(id, len, cp)
  <2>2. id \in 1..MaxRecs /\ buf \in Seq(UnitType) /\ cp \in LSNs \cup {NoCp}
    BY <1>2, <1>3, <2>1
  <2> HIDE DEF id
  <2>3. /\ b \in Seq(UnitType) /\ Len(b) = Len(buf) + len /\ b # <<>>
        /\ \A i \in 1..Len(buf) : b[i] = buf[i]
        /\ \A k \in 1..len : b[Len(buf) + k] = Unit(id, k, len, cp)
    BY <2>2, BufferFacts
  <2>4. buf' = b
    BY <1>5 DEF id
  <2> HIDE DEF b
  <2> QED
    BY <2>3, <2>4, Zenon DEF BufferGrown, id
<1> QED
  BY <1>1, <1>3, <1>4, <1>5, <1>7, <1>8

LEMMA OverflowEffect ==
  ASSUME Shape, Room, NEW len \in Lens, NEW cp \in CpValues(len), AppendOverflow(len, cp)
  PROVE  /\ seg \in Segs /\ seg' = seg /\ fh' = fh /\ writeOff' = writeOff + len
         /\ cache' = AfterFlush
         /\ LogGrown(len, cp) /\ BufferRestarted(len, cp)
<1>1. /\ state = "open" /\ seg # NoSeg /\ Fits(len) /\ cache' = AfterFlush
      /\ Accept(seg, writeOff, <<>>, len, cp) /\ UNCHANGED <<seg, fh>>
  BY DEF AppendOverflow
<1>2. TypeOK /\ SegInv /\ cp \in LSNs \cup {NoCp} /\ len \in Nat /\ len >= 1
  BY CpTypes, ConstantFacts DEF Shape
<1>3. /\ seg \in Segs /\ writeOff \in 1..SegCap
  BY <1>1, <1>2, FlushParts DEF SegInv
<1>4. writeOff + len <= SegCap
  BY <1>1 DEF Fits
<1>5. /\ recs' = Append(recs, NewRecord(seg, writeOff, len, cp)) /\ writeOff' = writeOff + len
      /\ buf' = <<>> \o Units(Len(recs) + 1, len, cp)
  BY <1>1 DEF Accept, NewRecord
<1>6. writeOff' - len = writeOff /\ writeOff' \in 1..SegCap
  BY <1>2, <1>3, <1>4, <1>5, ConstantFacts
<1>7. LogGrown(len, cp)
  BY <1>1, <1>2, <1>3, <1>5, <1>6, LogFacts DEF LogGrown
<1>8. BufferRestarted(len, cp)
  <2>1. Len(recs) + 1 \in 1..MaxRecs
    BY <1>7 DEF LogGrown
  <2> QED
    BY <1>2, <1>5, <2>1, EmptyBufferFacts DEF BufferRestarted
<1> QED
  BY <1>1, <1>3, <1>5, <1>7, <1>8

LEMMA RotateEffect ==
  ASSUME Shape, Room, NEW len \in Lens, NEW cp \in CpValues(len), AppendRotate(len, cp)
  PROVE  /\ seg \in Segs /\ seg' = seg + 1 /\ fh' = TRUE /\ writeOff' = 1 + len
         /\ cache' \in [Segs -> Content] /\ 1 <= Len(cache'[seg + 1])
         /\ \A m \in Segs \ {seg + 1} : cache'[m] = AfterFlush[m]
         /\ inflight' \subseteq FsyncType
         /\ LogGrown(len, cp) /\ BufferRestarted(len, cp)
<1>1. /\ seg # NoSeg /\ OpenSegment(AfterFlush, NextSeg) /\ Accept(NextSeg, 1, <<>>, len, cp)
  BY DEF AppendRotate
<1>2. TypeOK /\ SegInv /\ cp \in LSNs \cup {NoCp} /\ len \in Nat /\ len >= 1 /\ 1 + len <= SegCap
  BY CpTypes, ConstantFacts DEF Shape
<1>3. AfterFlush \in [Segs -> Content] /\ seg \in Segs
  BY <1>1, <1>2, FlushFacts, FlushParts
<1>4. /\ seg + 1 \in Segs /\ seg' = seg + 1 /\ fh' = TRUE /\ cache' \in [Segs -> Content]
      /\ 1 <= Len(cache'[seg + 1]) /\ \A m \in Segs \ {seg + 1} : cache'[m] = AfterFlush[m]
  BY <1>1, <1>3, OpenFacts DEF OpenSegment, NextSeg
<1>5. inflight' \subseteq FsyncType
  <2>1. PICK to \in {NextSeg, Stray, BadFd} : Retarget(to)
    BY DEF AppendRotate
  <2> QED
    BY <1>2, <1>4, <2>1, RetargetFacts DEF TypeOK, NextSeg
<1>6. /\ recs' = Append(recs, NewRecord(seg + 1, 1, len, cp)) /\ writeOff' = 1 + len
      /\ buf' = <<>> \o Units(Len(recs) + 1, len, cp)
  BY <1>1 DEF Accept, NewRecord, NextSeg
<1>7. 1 \in 1..SegCap /\ writeOff' - len = 1 /\ writeOff' \in 1..SegCap
  BY <1>2, <1>6, ConstantFacts
<1>8. LogGrown(len, cp)
  BY <1>2, <1>4, <1>6, <1>7, LogFacts DEF LogGrown
<1>9. BufferRestarted(len, cp)
  <2>1. Len(recs) + 1 \in 1..MaxRecs
    BY <1>8 DEF LogGrown
  <2> QED
    BY <1>2, <1>6, <2>1, EmptyBufferFacts DEF BufferRestarted
<1> QED
  BY <1>3, <1>4, <1>5, <1>6, <1>8, <1>9

\* The shape after a record was accepted.
LEMMA ShapeAppend ==
  ASSUME Shape, Room, NEW len \in Lens, NEW cp \in CpValues(len), state = "open",
         LogGrown(len, cp), buf' \in Seq(UnitType), Len(buf') <= BufCap,
         fh' \in BOOLEAN, cache' \in [Segs -> Content], inflight' \subseteq FsyncType,
         1 + Len(buf') <= writeOff', writeOff' - Len(buf') <= Len(cache'[seg']),
         UNCHANGED <<disk, state, synced, life, faults, acked>>
  PROVE  Shape'
<1>1. TypeOK /\ SegInv /\ len \in Nat /\ len <= BufCap
  BY ConstantFacts DEF Shape
<1>2. FileTypes' /\ AsyncTypes'
  BY <1>1 DEF TypeOK, FileTypes, AsyncTypes
<1>3. WriterTypes'
  <2>1. seg' \in Segs /\ writeOff' \in 0..SegCap
    BY ConstantFacts DEF LogGrown
  <2> QED
    BY <2>1 DEF WriterTypes
<1>4. HistoryTypes'
  <2>1. acked \subseteq DOMAIN recs /\ life \in 1..MaxLives /\ faults \in 0..MaxFaults
    BY <1>1 DEF TypeOK
  <2>2. DOMAIN recs \subseteq DOMAIN recs' /\ recs' \in Seq(RecordType) /\ Len(recs') <= MaxRecs
    BY DEF LogGrown
  <2> QED
    BY <2>1, <2>2 DEF HistoryTypes
<1>5. SegInv'
  <2>1. seg' # NoSeg
    BY NoSegFacts DEF LogGrown
  <2> QED
    BY <2>1 DEF SegInv, Live
<1> QED
  BY <1>2, <1>3, <1>4, <1>5, TypePartsNext DEF Shape

\* The shape after a step that adds no record and keeps the segment: what may change is the
\* files, what is left in the buffer, the goroutines, and what was acknowledged.
LEMMA ShapeKeep ==
  ASSUME Shape, cache' \in [Segs -> Content], disk' \in [Segs -> Content],
         buf' = buf \/ buf' = <<>>, fh' \in BOOLEAN, seg = NoSeg => ~ fh' /\ inflight' = {},
         synced' \in LSNs, inflight' \subseteq FsyncType, faults' \in 0..MaxFaults,
         acked' \subseteq DOMAIN recs,
         seg # NoSeg => writeOff - Len(buf') <= Len(cache'[seg]),
         state' = state \/ (state = "open" /\ seg # NoSeg /\ state' = "closing")
                        \/ (seg = NoSeg /\ state' = "closed"),
         UNCHANGED <<seg, writeOff, life, recs>>
  PROVE  Shape'
<1>1. TypeOK /\ SegInv
  BY DEF Shape
<1>2. FileTypes' /\ AsyncTypes'
  BY DEF FileTypes, AsyncTypes
<1>3. buf' \in Seq(UnitType) /\ Len(buf') <= Len(buf) /\ Len(buf) \in Nat /\ Len(buf') \in Nat
  <2>1. buf \in Seq(UnitType) /\ Len(buf) \in Nat
    BY <1>1 DEF TypeOK
  <2>2. <<>> \in Seq(UnitType) /\ Len(<<>>) = 0
    OBVIOUS
  <2>3. CASE buf' = buf
    BY <2>1, <2>3
  <2>4. CASE buf' = <<>>
    BY <2>1, <2>2, <2>4
  <2> QED
    BY <2>3, <2>4
<1>4. WriterTypes'
  BY <1>1, <1>3, ConstantFacts DEF TypeOK, WriterTypes
<1>5. HistoryTypes'
  BY <1>1 DEF TypeOK, HistoryTypes
<1>6. SegInv'
  <2>1. writeOff \in Nat
    BY <1>1 DEF TypeOK
  <2>2. seg = NoSeg => buf' = <<>>
    BY <1>1 DEF SegInv
  <2> QED
    BY <1>1, <1>3, <2>1, <2>2 DEF SegInv, Live
<1> QED
  BY <1>2, <1>4, <1>5, <1>6, TypePartsNext DEF Shape

\* The shape after the segment was let go.
LEMMA ShapeGone ==
  ASSUME Shape, cache' \in [Segs -> Content], disk' \in [Segs -> Content],
         seg' = NoSeg, writeOff' = 0, buf' = <<>>, fh' = FALSE, inflight' = {},
         state' \in {"closed", "down"}, synced' \in LSNs, faults' \in 0..MaxFaults,
         acked' \subseteq DOMAIN recs, UNCHANGED <<life, recs>>
  PROVE  Shape'
<1>1. TypeOK
  BY DEF Shape
<1>2. FileTypes' /\ AsyncTypes'
  BY DEF FileTypes, AsyncTypes
<1>3. WriterTypes'
  <2>1. <<>> \in Seq(UnitType) /\ Len(<<>>) = 0
    OBVIOUS
  <2>2. buf' \in Seq(UnitType) /\ Len(buf') <= BufCap
    BY <2>1, ConstantFacts
  <2>3. writeOff' \in 0..SegCap
    BY ConstantFacts
  <2> QED
    BY <2>2, <2>3 DEF WriterTypes
<1>4. HistoryTypes'
  BY <1>1 DEF TypeOK, HistoryTypes
<1>5. SegInv'
  BY DEF SegInv, Live
<1> QED
  BY <1>2, <1>3, <1>4, <1>5, TypePartsNext DEF Shape

\* What the records of this life are.
LEMMA MineTypes == Mine \subseteq DOMAIN recs /\ \A lsn : MineTo(lsn) \subseteq Mine
BY DEF Mine, MineTo

\* Zero is an LSN.
LEMMA ZeroLSN == 0 \in LSNs
<1>1. 0 \in Segs /\ LSNFor(0, 0) = 0
  BY ConstantFacts DEF Segs, LSNFor
<1> QED
  BY <1>1, LSNType, ConstantFacts

\* Every step keeps the shape.
LEMMA ShapeStep == Shape /\ [Next]_vars => Shape'
<1> SUFFICES ASSUME Shape, [Next]_vars PROVE Shape'
  OBVIOUS
<1>0. /\ TypeOK /\ SegInv
      /\ cache \in [Segs -> Content] /\ disk \in [Segs -> Content] /\ seg \in Segs \cup {NoSeg}
      /\ buf \in Seq(UnitType) /\ Len(buf) \in Nat /\ writeOff \in Nat
      /\ fh \in BOOLEAN /\ synced \in LSNs /\ inflight \subseteq FsyncType
      /\ faults \in 0..MaxFaults /\ acked \subseteq DOMAIN recs
      /\ seg = NoSeg => ~ fh /\ inflight = {} /\ buf = <<>>
      /\ seg # NoSeg => writeOff - Len(buf) <= Len(cache[seg])
      /\ seg # NoSeg => 1 + Len(buf) <= writeOff
  BY DEF Shape, TypeOK, SegInv
<1>1. ASSUME Room, NEW len \in Lens, NEW cp \in CpValues(len), AppendFirst(len, cp) PROVE Shape'
  <2>1. state = "open" /\ UNCHANGED <<disk, state, synced, inflight, life, faults, acked>>
    BY <1>1 DEF AppendFirst
  <2>2. /\ seg' = 0 /\ fh' = TRUE /\ writeOff' = 1 + len
        /\ cache' \in [Segs -> Content] /\ 1 <= Len(cache'[0])
        /\ LogGrown(len, cp) /\ BufferRestarted(len, cp)
    BY <1>1, FirstEffect
  <2>3. /\ 1 + Len(buf') <= writeOff' /\ writeOff' - Len(buf') <= Len(cache'[seg'])
        /\ buf' \in Seq(UnitType) /\ Len(buf') <= BufCap
    BY <2>2, ConstantFacts DEF BufferRestarted
  <2>4. inflight' \subseteq FsyncType /\ fh' \in BOOLEAN
    BY <1>0, <2>1, <2>2
  <2> QED
    BY <1>1, <2>1, <2>2, <2>3, <2>4, ShapeAppend
<1>2. ASSUME Room, NEW len \in Lens, NEW cp \in CpValues(len), AppendBuffered(len, cp) PROVE Shape'
  <2>1. state = "open" /\ UNCHANGED <<disk, state, synced, inflight, life, faults, acked>> /\ seg # NoSeg
    BY <1>2 DEF AppendBuffered
  <2>2. /\ seg' = seg /\ fh' = fh /\ writeOff' = writeOff + len /\ cache' = cache
        /\ Len(buf) + len <= BufCap /\ LogGrown(len, cp) /\ BufferGrown(len, cp)
    BY <1>2, BufferedEffect
  <2>3. /\ 1 + Len(buf') <= writeOff' /\ writeOff' - Len(buf') <= Len(cache'[seg'])
        /\ buf' \in Seq(UnitType) /\ Len(buf') <= BufCap
    BY <1>0, <2>1, <2>2, ConstantFacts DEF BufferGrown
  <2>4. inflight' \subseteq FsyncType /\ fh' \in BOOLEAN /\ cache' \in [Segs -> Content]
    BY <1>0, <2>1, <2>2
  <2> QED
    BY <1>2, <2>1, <2>2, <2>3, <2>4, ShapeAppend
<1>3. ASSUME Room, NEW len \in Lens, NEW cp \in CpValues(len), AppendOverflow(len, cp) PROVE Shape'
  <2>1. state = "open" /\ UNCHANGED <<disk, state, synced, inflight, life, faults, acked>> /\ seg # NoSeg
    BY <1>3 DEF AppendOverflow
  <2>2. /\ seg' = seg /\ fh' = fh /\ writeOff' = writeOff + len /\ cache' = AfterFlush
        /\ LogGrown(len, cp) /\ BufferRestarted(len, cp)
    BY <1>3, OverflowEffect
  <2>3. AfterFlush \in [Segs -> Content] /\ writeOff <= Len(AfterFlush[seg])
    BY <1>0, <2>1, FlushFacts
  <2>4. /\ 1 + Len(buf') <= writeOff' /\ writeOff' - Len(buf') <= Len(cache'[seg'])
        /\ buf' \in Seq(UnitType) /\ Len(buf') <= BufCap
    BY <1>0, <2>1, <2>2, <2>3, ConstantFacts DEF BufferRestarted
  <2>5. inflight' \subseteq FsyncType /\ fh' \in BOOLEAN /\ cache' \in [Segs -> Content]
    BY <1>0, <2>1, <2>2, <2>3
  <2> QED
    BY <1>3, <2>1, <2>2, <2>4, <2>5, ShapeAppend
<1>4. ASSUME Room, NEW len \in Lens, NEW cp \in CpValues(len), AppendRotate(len, cp) PROVE Shape'
  <2>1. state = "open" /\ UNCHANGED <<disk, state, synced, life, faults, acked>>
    BY <1>4 DEF AppendRotate
  <2>2. /\ seg' = seg + 1 /\ fh' = TRUE /\ writeOff' = 1 + len
        /\ cache' \in [Segs -> Content] /\ 1 <= Len(cache'[seg + 1])
        /\ inflight' \subseteq FsyncType
        /\ LogGrown(len, cp) /\ BufferRestarted(len, cp)
    BY <1>4, RotateEffect
  <2>3. /\ 1 + Len(buf') <= writeOff' /\ writeOff' - Len(buf') <= Len(cache'[seg'])
        /\ buf' \in Seq(UnitType) /\ Len(buf') <= BufCap
    BY <2>2, ConstantFacts DEF BufferRestarted
  <2>4. fh' \in BOOLEAN
    BY <2>2
  <2> QED
    BY <1>4, <2>1, <2>2, <2>3, <2>4, ShapeAppend
<1>5. ASSUME NEW len \in Lens, AppendRotateFails(len) PROVE Shape'
  <2>1. /\ state = "open" /\ seg # NoSeg /\ Fault /\ cache' = AfterFlush /\ buf' = <<>> /\ fh' = FALSE
        /\ UNCHANGED <<disk, state, seg, writeOff, synced, life, recs, acked>>
    BY <1>5 DEF AppendRotateFails
  <2>2. AfterFlush \in [Segs -> Content] /\ writeOff <= Len(AfterFlush[seg]) /\ Len(<<>>) = 0
    BY <1>0, <2>1, FlushFacts
  <2>3. inflight' \subseteq FsyncType
    <3>1. PICK to \in {Stray, BadFd} : Retarget(to)
      BY <1>5 DEF AppendRotateFails
    <3> QED
      BY <1>0, <3>1, RetargetFacts
  <2>4. faults' \in 0..MaxFaults
    BY <1>0, <2>1, FaultType
  <2>5. writeOff - Len(buf') <= Len(cache'[seg]) /\ FALSE \in BOOLEAN
    BY <1>0, <2>1, <2>2
  <2> QED
    BY <1>0, <2>1, <2>2, <2>3, <2>4, <2>5, ShapeKeep
<1>6. ASSUME FlushFails PROVE Shape'
  <2>1. /\ state = "open" /\ buf # <<>> /\ fh /\ Fault
        /\ UNCHANGED <<disk, state, seg, writeOff, buf, fh, synced, inflight, life, recs, acked>>
    BY <1>6 DEF FlushFails
  <2>2. PICK k \in 0..(Len(buf) - 1) : cache' = FlushedTo(k)
    BY <1>6 DEF FlushFails
  <2>3. seg # NoSeg /\ k \in 0..Len(buf)
    BY <1>0, <2>1
  <2>4. FlushedTo(k) \in [Segs -> Content] /\ writeOff - Len(buf) <= Len(FlushedTo(k)[seg])
    BY <1>0, <2>3, PartialFacts
  <2>5. faults' \in 0..MaxFaults
    BY <1>0, <2>1, FaultType
  <2> QED
    BY <1>0, <2>1, <2>2, <2>3, <2>4, <2>5, ShapeKeep
<1>7. ASSUME SyncNothing PROVE Shape'
  BY <1>0, <1>7, MineTypes, ShapeKeep DEF SyncNothing
<1>8. ASSUME buf # <<>>, seg # NoSeg, cache' = Flushed, buf' = <<>>
      PROVE  /\ cache' \in [Segs -> Content] /\ writeOff - Len(buf') <= Len(cache'[seg])
             /\ Flushed[seg] \in Content
  <2>1. Flushed \in [Segs -> Content] /\ writeOff <= Len(Flushed[seg]) /\ Len(<<>>) = 0
    BY <1>0, <1>8, FlushFacts
  <2>2. seg \in Segs
    BY <1>0, <1>8
  <2> QED
    BY <1>0, <1>8, <2>1, <2>2
<1>9. ASSUME Sync PROVE Shape'
  <2>1. /\ state = "open" /\ buf # <<>> /\ fh /\ cache' = Flushed /\ buf' = <<>> /\ disk' = Fsynced
        /\ synced' = Later(LSNFor(seg, writeOff)) /\ acked' = acked \cup Mine /\ seg # NoSeg
        /\ UNCHANGED <<state, seg, writeOff, fh, inflight, life, faults, recs>>
    BY <1>0, <1>9 DEF Sync
  <2>2. /\ cache' \in [Segs -> Content] /\ writeOff - Len(buf') <= Len(cache'[seg])
        /\ Flushed[seg] \in Content /\ synced' \in LSNs
    BY <1>0, <1>8, <2>1, EndType
  <2>3. disk' \in [Segs -> Content]
    BY <1>0, <2>1, <2>2 DEF Fsynced
  <2> QED
    BY <1>0, <2>1, <2>2, <2>3, MineTypes, ShapeKeep
<1>10. ASSUME SyncFsyncFails PROVE Shape'
  <2>1. /\ state = "open" /\ buf # <<>> /\ fh /\ cache' = Flushed /\ buf' = <<>> /\ seg # NoSeg /\ Fault
        /\ UNCHANGED <<disk, state, seg, writeOff, fh, synced, inflight, life, recs, acked>>
    BY <1>0, <1>10 DEF SyncFsyncFails
  <2>2. cache' \in [Segs -> Content] /\ writeOff - Len(buf') <= Len(cache'[seg])
    BY <1>8, <2>1
  <2>3. faults' \in 0..MaxFaults
    BY <1>0, <2>1, FaultType
  <2> QED
    BY <1>0, <2>1, <2>2, <2>3, ShapeKeep
<1>11. ASSUME SyncAsync PROVE Shape'
  <2>1. /\ state = "open" /\ buf # <<>> /\ fh /\ cache' = Flushed /\ buf' = <<>> /\ seg # NoSeg
        /\ inflight' = inflight \cup {[fd |-> seg, end |-> LSNFor(seg, writeOff), st |-> "fsync"]}
        /\ UNCHANGED <<disk, state, seg, writeOff, fh, synced, life, faults, recs, acked>>
    BY <1>0, <1>11 DEF SyncAsync
  <2>2. cache' \in [Segs -> Content] /\ writeOff - Len(buf') <= Len(cache'[seg])
    BY <1>8, <2>1
  <2>3. inflight' \subseteq FsyncType
    BY <1>0, <2>1, EndType DEF FsyncType
  <2> QED
    BY <1>0, <2>1, <2>2, <2>3, ShapeKeep
<1>12. ASSUME SyncAsyncNothing PROVE Shape'
  BY <1>0, <1>12, MineTypes, ShapeKeep DEF SyncAsyncNothing
<1>13. ASSUME NEW f \in inflight, AsyncFsync(f) PROVE Shape'
  <2>1. /\ f \in FsyncType /\ seg # NoSeg
        /\ disk' = IF f.fd \in Segs THEN [disk EXCEPT ![f.fd] = cache[f.fd]] ELSE disk
        /\ inflight' = (inflight \ {f})
              \cup {[f EXCEPT !.st = IF f.end > synced THEN "store" ELSE "send"]}
        /\ UNCHANGED <<cache, state, seg, writeOff, buf, fh, synced, life, faults, recs, acked>>
    BY <1>0, <1>13 DEF AsyncFsync
  <2>2. disk' \in [Segs -> Content]
    BY <1>0, <2>1
  <2>3. inflight' \subseteq FsyncType
    BY <1>0, <2>1 DEF FsyncType
  <2> QED
    BY <1>0, <2>1, <2>2, <2>3, ShapeKeep
<1>14. ASSUME NEW f \in inflight, AsyncFails(f) PROVE Shape'
  <2>1. /\ seg # NoSeg /\ inflight' = inflight \ {f}
        /\ UNCHANGED <<cache, disk, state, seg, writeOff, buf, fh, synced, life, recs, acked>>
    BY <1>0, <1>14 DEF AsyncFails, Without
  <2>2. faults' \in 0..MaxFaults
    BY <1>0, <1>14, FaultType DEF AsyncFails
  <2> QED
    BY <1>0, <2>1, <2>2, ShapeKeep
<1>15. ASSUME NEW f \in inflight, AsyncDone(f) PROVE Shape'
  <2>1. /\ seg # NoSeg /\ inflight' = inflight \ {f}
        /\ synced' = (IF f.st = "store" THEN f.end ELSE synced) /\ acked' = acked \cup MineTo(f.end)
        /\ UNCHANGED <<cache, disk, state, seg, writeOff, buf, fh, life, faults, recs>>
    BY <1>0, <1>15 DEF AsyncDone, Without
  <2>2. synced' \in LSNs
    BY <1>0, <2>1 DEF FsyncType
  <2>3. acked' \subseteq DOMAIN recs
    BY <1>0, <2>1, MineTypes
  <2> QED
    BY <1>0, <2>1, <2>2, <2>3, ShapeKeep
<1>16. ASSUME CloseBegin PROVE Shape'
  BY <1>0, <1>16, ShapeKeep DEF CloseBegin
<1>17. ASSUME CloseEnd PROVE Shape'
  <2>1. /\ inflight = {} /\ seg # NoSeg /\ state' = "closed"
        /\ seg' = NoSeg /\ writeOff' = 0 /\ buf' = <<>> /\ fh' = FALSE
        /\ UNCHANGED <<inflight, life, recs>>
    BY <1>0, <1>17 DEF CloseEnd, NoFsyncInFlight, SegInv
  <2>2. acked' \subseteq DOMAIN recs
    BY <1>0, <1>17, MineTypes DEF CloseEnd
  <2>3. faults' \in 0..MaxFaults
    BY <1>0, <1>17, FaultType DEF CloseEnd
  <2>4. synced' \in LSNs
    BY <1>0, <1>17, <2>1, EndType DEF CloseEnd
  <2>5. cache' \in [Segs -> Content] /\ disk' \in [Segs -> Content]
    <3>1. CASE UNCHANGED <<cache, disk>>
      BY <1>0, <3>1
    <3>2. CASE buf # <<>> /\ cache' = Flushed /\ disk' = Fsynced
      <4>1. cache' \in [Segs -> Content] /\ Flushed[seg] \in Content
        BY <1>8, <2>1, <3>2
      <4> QED
        BY <1>0, <3>2, <4>1 DEF Fsynced
    <3>3. CASE buf # <<>> /\ disk' = disk /\ \E k \in 0..Len(buf) : cache' = FlushedTo(k)
      BY <1>0, <2>1, <3>3, PartialFacts
    <3>4. (IF fh THEN 0..Len(buf) ELSE {0}) \subseteq 0..Len(buf)
      BY <1>0
    <3> QED
      BY <1>17, <3>1, <3>2, <3>3, <3>4 DEF CloseEnd
  <2> QED
    BY <2>1, <2>2, <2>3, <2>4, <2>5, ShapeGone
<1>18. ASSUME Exit PROVE Shape'
  BY <1>0, <1>18, ZeroLSN, ShapeGone DEF Exit, Gone
<1>19. ASSUME Crash PROVE Shape'
  <2>1. /\ disk' = cache' /\ Gone /\ UNCHANGED <<life, faults, recs, acked>>
    BY <1>19 DEF Crash
  <2>2. PICK kept \in SUBSET Dirty : cache' = [n \in Segs |-> Survivor(n, kept)]
    BY <1>19 DEF Crash
  <2>3. cache' \in [Segs -> Content]
    BY <1>0, <2>2, SurvivorType
  <2> QED
    BY <1>0, <2>1, <2>3, ZeroLSN, ShapeGone DEF Gone
<1>20. ASSUME Reopen PROVE Shape'
  <2>1. /\ state = "down" /\ life < MaxLives /\ life' = life + 1 /\ state' = "open"
        /\ UNCHANGED <<disk, seg, writeOff, buf, fh, synced, inflight, faults, recs, acked>>
    BY <1>20 DEF Reopen
  <2>2. cache' = cache \/ \E lsn \in LSNs : cache' = TruncateBeforeCheckpoint(cache, lsn)
    BY <1>20 DEF Reopen
  <2>3. cache' \in [Segs -> Content]
    BY <1>0, <2>2, TruncateType
  <2>4. seg = NoSeg
    BY <1>0, <2>1 DEF SegInv, Live
  <2>5. FileTypes' /\ WriterTypes' /\ AsyncTypes'
    BY <1>0, <2>1, <2>3 DEF TypeOK, FileTypes, WriterTypes, AsyncTypes
  <2>6. HistoryTypes'
    BY <1>0, <2>1, ConstantFacts DEF TypeOK, HistoryTypes
  <2>7. SegInv'
    BY <1>0, <2>1, <2>4 DEF SegInv, Live
  <2> QED
    BY <2>5, <2>6, <2>7, TypePartsNext DEF Shape
<1>21. ASSUME vars' = vars PROVE Shape'
  BY <1>21 DEF vars, Shape, TypeOK, SegInv
<1> QED
  BY <1>1, <1>2, <1>3, <1>4, <1>5, <1>6, <1>7, <1>9, <1>10, <1>11, <1>12, <1>13, <1>14, <1>15,
     <1>16, <1>17, <1>18, <1>19, <1>20, <1>21, NextSteps

(***************************************************************************)
(* Kinds of steps, for the records and what View shows of them              *)
(***************************************************************************)

\* A record is accepted: it lies at the end of the log, and what the log showed before its
\* old end is still shown.
Appending(len, cp) ==
  /\ LogGrown(len, cp) /\ life' = life /\ state = "open" /\ state' = "open"
  /\ seg = NoSeg \/ (seg' = seg /\ writeOff' = writeOff + len) \/ seg' = seg + 1
  /\ \A i : i = Len(recs) + 1 => InPlaceAt(i)'
  /\ seg # NoSeg => \A n \in 0..seg :
       /\ n # seg' => View(n)' = View(n)
       /\ n = seg' => /\ writeOff <= Len(View(n)')
                      /\ \A j \in 1..writeOff : View(n)'[j] = View(n)[j]

\* No record is accepted, and the log shows what it showed.
Keeping ==
  /\ UNCHANGED <<recs, life>>
  /\ state' \in Live => /\ state \in Live /\ seg' = seg /\ writeOff' = writeOff
                        /\ \A n \in Segs : View(n)' = View(n)

\* The records of the life before are no longer of this one.
Reopening == recs' = recs /\ life' = life + 1

\* A record alone in the buffer lies at the end of the log, and the file shows before it.
LEMMA RestartedView ==
  ASSUME NEW len \in Lens, NEW cp, LogGrown(len, cp), BufferRestarted(len, cp),
         cache' \in [Segs -> Content]
  PROVE  /\ \A i : i = Len(recs) + 1 => InPlaceAt(i)'
         /\ \A n \in Segs : n # seg' => View(n)' = cache'[n]
         /\ \A n \in Segs : n = seg' =>
              /\ Len(cache'[n]) <= Len(View(n)')
              /\ \A j \in 1..Len(cache'[n]) : j <= writeOff' - len => View(n)'[j] = cache'[n][j]
<1> DEFINE off == writeOff' - len
           c == cache'[seg']
<1>1. /\ seg' \in Segs /\ off \in 1..SegCap /\ len \in Nat /\ len >= 1 /\ writeOff' = off + len
      /\ buf' \in Seq(UnitType) /\ Len(buf') = len /\ buf' # <<>> /\ off \in Nat
      /\ c \in Seq(UnitType) /\ Len(c) \in Nat
  BY ConstantFacts DEF LogGrown, BufferRestarted, Content
<1>2. /\ Len(c) <= Len(Pwrite(c, off, buf'))
      /\ \A j \in 1..Len(c) : j <= off => Pwrite(c, off, buf')[j] = c[j]
  <2>1. Len(Pwrite(c, off, buf')) = Longer(off + Len(buf'), Len(c))
    BY <1>1, PwriteProps
  <2> HIDE DEF c, off
  <2>2. Len(c) <= Longer(off + Len(buf'), Len(c))
    BY <1>1 DEF Longer
  <2>3. ASSUME NEW j \in 1..Len(c), j <= off PROVE Pwrite(c, off, buf')[j] = c[j]
    BY <1>1, <2>3, PwriteBefore
  <2> QED
    BY <2>1, <2>2, <2>3
<1>3. \A n : View(n)' = IF n = seg' THEN Pwrite(c, off, buf') ELSE cache'[n]
  <2>1. writeOff' - Len(buf') = off /\ buf' # <<>>
    BY <1>1
  <2>2. \A n : View(n)' = IF n = seg' THEN Pwrite(cache'[n], writeOff' - Len(buf'), buf') ELSE cache'[n]
    BY <2>1, Zenon DEF View
  <2> HIDE DEF off
  <2> QED
    BY <2>1, <2>2, Zenon
<1>4. ASSUME NEW i, i = Len(recs) + 1 PROVE InPlaceAt(i)'
  <2>1. /\ recs'[i].seg = seg' /\ recs'[i].off = off /\ recs'[i].len = len /\ recs'[i].cp = cp
    BY <1>4 DEF LogGrown, NewRecord
  <2>2. ASSUME NEW k \in 1..len
        PROVE  /\ off + k <= Len(Pwrite(c, off, buf'))
               /\ Pwrite(c, off, buf')[off + k] = Unit(i, k, len, cp)
    <3>1. k \in 1..Len(buf')
      BY <1>1
    <3>2. off + k <= Len(Pwrite(c, off, buf')) /\ Pwrite(c, off, buf')[off + k] = buf'[k]
      <4> HIDE DEF c, off
      <4> QED
        BY <1>1, <3>1, PwriteInside
    <3>3. buf'[k] = Unit(i, k, len, cp)
      BY <1>4 DEF BufferRestarted
    <3> QED
      BY <3>2, <3>3
  <2>3. View(recs[i].seg)' = Pwrite(c, off, buf')
    BY <1>3, <2>1 DEF View
  <2> HIDE DEF c, off
  <2> QED
    BY <2>1, <2>2, <2>3 DEF InPlaceAt
<1>5. ASSUME NEW n \in Segs, n = seg'
      PROVE  /\ Len(c) <= Len(View(n)')
             /\ \A j \in 1..Len(c) : j <= off => View(n)'[j] = c[j]
  <2>1. View(n)' = Pwrite(c, off, buf')
    BY <1>3, <1>5
  <2> QED
    BY <1>2, <2>1
<1> QED
  BY <1>3, <1>4, <1>5

\* A record behind others in the buffer lies at the end of the log, which shows them before it.
LEMMA GrownView ==
  ASSUME Shape, seg # NoSeg, NEW len \in Lens, NEW cp, LogGrown(len, cp), BufferGrown(len, cp),
         seg' = seg, writeOff' = writeOff + len, cache' = cache
  PROVE  /\ \A i : i = Len(recs) + 1 => InPlaceAt(i)'
         /\ \A n \in Segs : n # seg => View(n)' = View(n)
         /\ writeOff <= Len(View(seg)')
         /\ \A j \in 1..writeOff : View(seg)'[j] = View(seg)[j]
<1> DEFINE off == writeOff - Len(buf)
           c == cache[seg]
<1>1. /\ seg \in Segs /\ off \in Nat /\ len \in Nat /\ len >= 1 /\ writeOff \in Nat
      /\ buf \in Seq(UnitType) /\ Len(buf) \in Nat /\ writeOff = off + Len(buf)
      /\ buf' \in Seq(UnitType) /\ Len(buf') = Len(buf) + len /\ buf' # <<>>
      /\ c \in Seq(UnitType) /\ Len(c) \in Nat /\ off <= Len(c)
  BY FlushParts, ConstantFacts DEF BufferGrown, Shape
<1>2. /\ Len(Pwrite(c, off, buf')) = Longer(off + Len(buf'), Len(c))
      /\ \A j \in 1..Longer(off + Len(buf'), Len(c)) :
           Pwrite(c, off, buf')[j] = IF j > off /\ j <= off + Len(buf') THEN buf'[j - off]
                                     ELSE IF j <= Len(c) THEN c[j] ELSE Zero
  BY <1>1, PwriteProps
<1>3. /\ Len(Pwrite(c, off, buf)) = Longer(off + Len(buf), Len(c))
      /\ \A j \in 1..Longer(off + Len(buf), Len(c)) :
           Pwrite(c, off, buf)[j] = IF j > off /\ j <= off + Len(buf) THEN buf[j - off]
                                    ELSE IF j <= Len(c) THEN c[j] ELSE Zero
  BY <1>1, PwriteProps
<1>4. \A n : View(n)' = IF n = seg THEN Pwrite(c, off, buf') ELSE cache[n]
  <2>1. writeOff' - Len(buf') = off /\ buf' # <<>> /\ seg' = seg /\ cache' = cache
    BY <1>1
  <2>2. \A n : View(n)' = IF n = seg THEN Pwrite(cache[n], writeOff' - Len(buf'), buf') ELSE cache[n]
    BY <2>1, Zenon DEF View
  <2> HIDE DEF off
  <2> QED
    BY <2>1, <2>2, Zenon
<1>5. ASSUME NEW i, i = Len(recs) + 1 PROVE InPlaceAt(i)'
  <2>1. /\ recs'[i].seg = seg /\ recs'[i].off = writeOff /\ recs'[i].len = len /\ recs'[i].cp = cp
    <3>1. recs'[i] = NewRecord(seg', writeOff' - len, len, cp)
      BY <1>5 DEF LogGrown
    <3>2. writeOff' - len = writeOff /\ seg' = seg
      BY <1>1
    <3> QED
      BY <3>1, <3>2 DEF NewRecord
  <2>2. ASSUME NEW k \in 1..len
        PROVE  /\ writeOff + k <= Len(Pwrite(c, off, buf'))
               /\ Pwrite(c, off, buf')[writeOff + k] = Unit(i, k, len, cp)
    <3> DEFINE m == Len(buf) + k
    <3>1. m \in 1..Len(buf') /\ writeOff + k = off + m
      BY <1>1
    <3>2. off + m <= Len(Pwrite(c, off, buf')) /\ Pwrite(c, off, buf')[off + m] = buf'[m]
      <4>1. c \in Seq(UnitType) /\ off \in Nat /\ buf' \in Seq(UnitType)
        BY <1>1
      <4> HIDE DEF c, off, m
      <4> QED
        BY <4>1, <3>1, PwriteInside
    <3>3. buf'[Len(buf) + k] = Unit(i, k, len, cp)
      BY <1>5 DEF BufferGrown
    <3> QED
      BY <3>1, <3>2, <3>3
  <2>3. View(recs[i].seg)' = Pwrite(c, off, buf')
    BY <1>4, <2>1 DEF View
  <2> HIDE DEF c, off
  <2> QED
    BY <2>1, <2>2, <2>3 DEF InPlaceAt
<1>6. \A n \in Segs : n # seg => View(n)' = View(n)
  BY <1>4 DEF View
<1>7. View(seg)' = Pwrite(c, off, buf')
  BY <1>4 DEF View
<1>8. writeOff <= Len(View(seg)')
  BY <1>1, <1>2, <1>7 DEF Longer
<1>9. ASSUME NEW j \in 1..writeOff PROVE View(seg)'[j] = View(seg)[j]
  <2>1. j \in 1..Longer(off + Len(buf'), Len(c)) /\ j \in 1..Longer(off + Len(buf), Len(c))
    BY <1>1 DEF Longer
  <2>2. CASE buf = <<>>
    <3>1. Len(buf) = 0
      BY <2>2
    <3>2. ~ (j > off) /\ j <= Len(c)
      BY <1>1, <3>1
    <3>3. View(seg) = c
      BY <2>2 DEF View
    <3> QED
      BY <1>2, <1>7, <2>1, <3>2, <3>3
  <2>3. CASE buf # <<>>
    <3>1. View(seg) = Pwrite(c, off, buf)
      BY <2>3 DEF View
    <3>2. CASE j > off
      <4>1. j - off \in 1..Len(buf) /\ j <= off + Len(buf) /\ j <= off + Len(buf')
        BY <1>1, <3>2
      <4>2. buf'[j - off] = buf[j - off]
        BY <4>1 DEF BufferGrown
      <4> QED
        BY <1>2, <1>3, <1>7, <2>1, <3>1, <3>2, <4>1, <4>2
    <3>3. CASE ~ (j > off)
      BY <1>2, <1>3, <1>7, <2>1, <3>1, <3>3
    <3> QED
      BY <3>2, <3>3
  <2> QED
    BY <2>2, <2>3
<1> QED
  BY <1>5, <1>6, <1>8, <1>9

\* What a step can be to the records.
StepKind ==
  \/ \E len \in Lens, cp \in LSNs \cup {NoCp} : Appending(len, cp)
  \/ Keeping
  \/ Reopening

\* View of the next state, when the files or the buffer changed and the segment did not.
LEMMA FlushedKeeps ==
  ASSUME Shape, seg # NoSeg, cache' = AfterFlush, buf' = <<>>, UNCHANGED <<seg, writeOff, recs, life>>,
         state \in Live
  PROVE  Keeping
<1>1. \A n \in Segs : AfterFlush[n] = View(n)
  BY FlushFacts DEF Shape
<1>2. \A n \in Segs : View(n)' = cache'[n]
  BY DEF View
<1> QED
  BY <1>1, <1>2 DEF Keeping

\* An accepted record is appended.
LEMMA AppendKinds ==
  ASSUME Shape, Room, NEW len \in Lens, NEW cp \in CpValues(len),
         \/ AppendFirst(len, cp) \/ AppendBuffered(len, cp)
         \/ AppendOverflow(len, cp) \/ AppendRotate(len, cp)
  PROVE  Appending(len, cp)
<1>0. TypeOK /\ SegInv
  BY DEF Shape
<1>1. ASSUME AppendFirst(len, cp) PROVE Appending(len, cp)
  <2>1. /\ LogGrown(len, cp) /\ BufferRestarted(len, cp) /\ cache' \in [Segs -> Content]
    BY <1>1, FirstEffect
  <2>2. \A i : i = Len(recs) + 1 => InPlaceAt(i)'
    BY <2>1, RestartedView
  <2>3. cp \in LSNs \cup {NoCp}
    BY <1>0, CpTypes
  <2>4. life' = life /\ state = "open" /\ state' = "open" /\ seg = NoSeg
    BY <1>1 DEF AppendFirst
  <2> QED
    BY <2>1, <2>2, <2>4 DEF Appending
<1>2. ASSUME AppendBuffered(len, cp) PROVE Appending(len, cp)
  <2>1. /\ seg' = seg /\ writeOff' = writeOff + len /\ cache' = cache
        /\ LogGrown(len, cp) /\ BufferGrown(len, cp)
    BY <1>2, BufferedEffect
  <2>2. life' = life /\ state = "open" /\ state' = "open" /\ seg # NoSeg
    BY <1>2 DEF AppendBuffered
  <2>3. /\ \A i : i = Len(recs) + 1 => InPlaceAt(i)'
        /\ \A n \in Segs : n # seg => View(n)' = View(n)
        /\ writeOff <= Len(View(seg)')
        /\ \A j \in 1..writeOff : View(seg)'[j] = View(seg)[j]
    BY <2>1, <2>2, GrownView
  <2>4. cp \in LSNs \cup {NoCp} /\ 0..seg \subseteq Segs
    BY <1>0, <2>2, CpTypes, ConstantFacts DEF TypeOK, Segs
  <2> QED
    BY <2>1, <2>2, <2>3, <2>4 DEF Appending
<1>3. ASSUME AppendOverflow(len, cp) PROVE Appending(len, cp)
  <2>1. /\ seg \in Segs /\ seg' = seg /\ writeOff' = writeOff + len /\ cache' = AfterFlush
        /\ LogGrown(len, cp) /\ BufferRestarted(len, cp)
    BY <1>3, OverflowEffect
  <2>2. life' = life /\ state = "open" /\ state' = "open" /\ seg # NoSeg
    BY <1>3 DEF AppendOverflow
  <2>3. /\ AfterFlush \in [Segs -> Content] /\ \A n \in Segs : AfterFlush[n] = View(n)
        /\ writeOff <= Len(AfterFlush[seg])
    BY <1>0, <2>2, FlushFacts
  <2>4. /\ \A i : i = Len(recs) + 1 => InPlaceAt(i)'
        /\ \A n \in Segs : n # seg' => View(n)' = cache'[n]
        /\ \A n \in Segs : n = seg' =>
             /\ Len(cache'[n]) <= Len(View(n)')
             /\ \A j \in 1..Len(cache'[n]) : j <= writeOff' - len => View(n)'[j] = cache'[n][j]
    <3>1. cache' \in [Segs -> Content]
      BY <2>1, <2>3
    <3> QED
      BY <2>1, <3>1, RestartedView
  <2>5. cp \in LSNs \cup {NoCp} /\ 0..seg \subseteq Segs /\ writeOff \in Nat /\ len \in Nat
    BY <1>0, <2>2, CpTypes, ConstantFacts DEF TypeOK, Segs
  <2>6. /\ writeOff <= Len(View(seg)') /\ \A j \in 1..writeOff : View(seg)'[j] = View(seg)[j]
    <3>1. writeOff' - len = writeOff
      BY <2>1, <2>5
    <3>2. /\ Len(AfterFlush[seg]) <= Len(View(seg)') 
          /\ \A j \in 1..Len(AfterFlush[seg]) : j <= writeOff => View(seg)'[j] = AfterFlush[seg][j]
      BY <2>1, <2>4, <3>1
    <3>3. AfterFlush[seg] \in Seq(UnitType) /\ View(seg)' = View(seg)'
      BY <2>1, <2>3 DEF Content
    <3>4. Len(AfterFlush[seg]) \in Nat
      BY <3>3
    <3>5. ASSUME NEW j \in 1..writeOff PROVE View(seg)'[j] = View(seg)[j]
      <4>1. j \in 1..Len(AfterFlush[seg]) /\ j <= writeOff
        BY <2>3, <2>5, <3>4
      <4>2. View(seg)'[j] = AfterFlush[seg][j]
        BY <3>2, <4>1
      <4> QED
        BY <2>1, <2>3, <4>2
    <3>6. Len(View(seg)') \in Nat
      <4>1. cache'[seg] \in Seq(UnitType)
        BY <2>1, <3>3
      <4>2. View(seg)' = Pwrite(cache'[seg], writeOff, buf')
        <5>1. writeOff' - Len(buf') = writeOff /\ buf' # <<>>
          BY <2>1, <2>5 DEF BufferRestarted
        <5> QED
          BY <2>1, <5>1 DEF View
      <4>3. buf' \in Seq(UnitType)
        BY <2>1 DEF BufferRestarted
      <4>4. View(seg)' \in Seq(UnitType)
        BY <2>5, <4>1, <4>2, <4>3, PwriteProps
      <4> QED
        BY <4>4
    <3> QED
      BY <2>3, <2>5, <3>2, <3>4, <3>5, <3>6
  <2>7. \A n \in Segs : n # seg => View(n)' = View(n)
    BY <2>1, <2>3, <2>4
  <2> QED
    BY <2>1, <2>2, <2>4, <2>5, <2>6, <2>7 DEF Appending
<1>4. ASSUME AppendRotate(len, cp) PROVE Appending(len, cp)
  <2>1. /\ seg \in Segs /\ seg' = seg + 1 /\ cache' \in [Segs -> Content]
        /\ \A m \in Segs \ {seg + 1} : cache'[m] = AfterFlush[m]
        /\ LogGrown(len, cp) /\ BufferRestarted(len, cp)
    BY <1>4, RotateEffect
  <2>2. life' = life /\ state = "open" /\ state' = "open" /\ seg # NoSeg
    BY <1>4 DEF AppendRotate
  <2>3. \A n \in Segs : AfterFlush[n] = View(n)
    BY <1>0, <2>2, FlushFacts
  <2>4. /\ \A i : i = Len(recs) + 1 => InPlaceAt(i)'
        /\ \A n \in Segs : n # seg' => View(n)' = cache'[n]
    BY <2>1, RestartedView
  <2>5. /\ cp \in LSNs \cup {NoCp} /\ \A n \in 0..seg : n \in Segs /\ n # seg + 1
    BY <1>0, <2>1, CpTypes, ConstantFacts DEF Segs
  <2>6. \A n \in 0..seg : n # seg' /\ View(n)' = View(n)
    BY <2>1, <2>3, <2>4, <2>5
  <2> QED
    BY <2>1, <2>2, <2>4, <2>6 DEF Appending
<1> QED
  BY <1>1, <1>2, <1>3, <1>4

\* Every step is of one of the kinds.
LEMMA StepKinds == Shape /\ [Next]_vars => StepKind
<1> SUFFICES ASSUME Shape, [Next]_vars PROVE StepKind
  OBVIOUS
<1>0. TypeOK /\ SegInv
  BY DEF Shape
<1>1. ASSUME Room, NEW len \in Lens, NEW cp \in CpValues(len), AppendFirst(len, cp) PROVE StepKind
  <2>1. Appending(len, cp) /\ cp \in LSNs \cup {NoCp}
    BY <1>0, <1>1, AppendKinds, CpTypes
  <2> QED
    BY <2>1 DEF StepKind
<1>2. ASSUME Room, NEW len \in Lens, NEW cp \in CpValues(len), AppendBuffered(len, cp) PROVE StepKind
  <2>1. Appending(len, cp) /\ cp \in LSNs \cup {NoCp}
    BY <1>0, <1>2, AppendKinds, CpTypes
  <2> QED
    BY <2>1 DEF StepKind
<1>3. ASSUME Room, NEW len \in Lens, NEW cp \in CpValues(len), AppendOverflow(len, cp) PROVE StepKind
  <2>1. Appending(len, cp) /\ cp \in LSNs \cup {NoCp}
    BY <1>0, <1>3, AppendKinds, CpTypes
  <2> QED
    BY <2>1 DEF StepKind
<1>4. ASSUME Room, NEW len \in Lens, NEW cp \in CpValues(len), AppendRotate(len, cp) PROVE StepKind
  <2>1. Appending(len, cp) /\ cp \in LSNs \cup {NoCp}
    BY <1>0, <1>4, AppendKinds, CpTypes
  <2> QED
    BY <2>1 DEF StepKind
<1>5. ASSUME NEW len \in Lens, AppendRotateFails(len) PROVE StepKind
  BY <1>5, FlushedKeeps DEF AppendRotateFails, StepKind, Live
<1>6. ASSUME FlushFails PROVE StepKind
  <2>1. /\ buf # <<>> /\ fh /\ state = "open" /\ UNCHANGED <<state, seg, writeOff, buf, recs, life>>
    BY <1>6 DEF FlushFails
  <2>2. seg # NoSeg /\ Len(buf) \in Nat
    BY <1>0, <2>1 DEF SegInv, TypeOK
  <2>3. PICK k \in 0..Len(buf) : cache' = FlushedTo(k)
    BY <1>6, <2>2 DEF FlushFails
  <2>4. /\ Pwrite(cache'[seg], writeOff - Len(buf), buf) = Pwrite(cache[seg], writeOff - Len(buf), buf)
        /\ \A n \in Segs \ {seg} : cache'[n] = cache[n]
    BY <1>0, <2>2, <2>3, PartialFacts
  <2>5. \A n \in Segs : View(n)' = View(n)
    BY <2>1, <2>4 DEF View
  <2> QED
    BY <2>1, <2>5 DEF Keeping, StepKind, Live
<1>7. ASSUME SyncNothing PROVE StepKind
  BY <1>7 DEF SyncNothing, StepKind, Keeping, View
<1>8. ASSUME Sync PROVE StepKind
  <2>1. seg # NoSeg /\ buf # <<>>
    BY <1>0, <1>8 DEF Sync, SegInv
  <2>2. Flushed = AfterFlush
    BY <2>1 DEF AfterFlush
  <2> QED
    BY <1>8, <2>1, <2>2, FlushedKeeps DEF Sync, StepKind, Live
<1>9. ASSUME SyncFsyncFails PROVE StepKind
  <2>1. seg # NoSeg /\ buf # <<>>
    BY <1>0, <1>9 DEF SyncFsyncFails, SegInv
  <2>2. Flushed = AfterFlush
    BY <2>1 DEF AfterFlush
  <2> QED
    BY <1>9, <2>1, <2>2, FlushedKeeps DEF SyncFsyncFails, StepKind, Live
<1>10. ASSUME SyncAsync PROVE StepKind
  <2>1. seg # NoSeg /\ buf # <<>>
    BY <1>0, <1>10 DEF SyncAsync, SegInv
  <2>2. Flushed = AfterFlush
    BY <2>1 DEF AfterFlush
  <2> QED
    BY <1>10, <2>1, <2>2, FlushedKeeps DEF SyncAsync, StepKind, Live
<1>11. ASSUME SyncAsyncNothing PROVE StepKind
  BY <1>11 DEF SyncAsyncNothing, StepKind, Keeping, View
<1>12. ASSUME NEW f \in inflight, AsyncFsync(f) PROVE StepKind
  BY <1>12 DEF AsyncFsync, StepKind, Keeping, View
<1>13. ASSUME NEW f \in inflight, AsyncFails(f) PROVE StepKind
  BY <1>13 DEF AsyncFails, StepKind, Keeping, View
<1>14. ASSUME NEW f \in inflight, AsyncDone(f) PROVE StepKind
  BY <1>14 DEF AsyncDone, StepKind, Keeping, View
<1>15. ASSUME CloseBegin PROVE StepKind
  BY <1>15 DEF CloseBegin, StepKind, Keeping, View, Live
<1>16. ASSUME CloseEnd PROVE StepKind
  BY <1>16 DEF CloseEnd, StepKind, Keeping, Live
<1>17. ASSUME Exit PROVE StepKind
  BY <1>17 DEF Exit, Gone, StepKind, Keeping, Live
<1>18. ASSUME Crash PROVE StepKind
  BY <1>18 DEF Crash, Gone, StepKind, Keeping, Live
<1>19. ASSUME Reopen PROVE StepKind
  BY <1>19 DEF Reopen, StepKind, Reopening
<1>20. ASSUME vars' = vars PROVE StepKind
  BY <1>20 DEF vars, StepKind, Keeping, View
<1> QED
  BY <1>1, <1>2, <1>3, <1>4, <1>5, <1>6, <1>7, <1>8, <1>9, <1>10, <1>11, <1>12, <1>13, <1>14,
     <1>15, <1>16, <1>17, <1>18, <1>19, <1>20, NextSteps

(***************************************************************************)
(* Where the records are                                                    *)
(***************************************************************************)

\* A record accepted earlier and its place, before and after another is accepted.
LEMMA OldRecord ==
  ASSUME Shape, RecInv, NEW len \in Lens, NEW cp \in LSNs \cup {NoCp}, Appending(len, cp),
         NEW i \in DOMAIN recs
  PROVE  /\ i \in 1..Len(recs) /\ i \in DOMAIN recs' /\ recs'[i] = recs[i]
         /\ recs[i].off \in Nat /\ recs[i].len \in Nat /\ recs[i].seg \in Nat /\ recs[i].seg \in Segs
         /\ recs[i].life \in Nat /\ recs[i].life <= life
         /\ recs[i].off + recs[i].len \in 0..SegCap
         /\ recs[i].life = life =>
              /\ seg # NoSeg /\ seg \in Nat /\ recs[i].seg <= seg
              /\ recs[i].seg = seg => recs[i].off + recs[i].len <= writeOff
<1>1. TypeOK /\ LogGrown(len, cp) /\ state = "open"
  BY DEF Appending, Shape
<1>2. /\ i \in 1..Len(recs) /\ recs[i].life \in 1..MaxLives /\ recs[i].seg \in Segs
      /\ recs[i].off \in 1..SegCap /\ recs[i].len \in Lens
  BY <1>1, RecordFacts
<1>3. i \in DOMAIN recs' /\ recs'[i] = recs[i]
  <2>1. Len(recs) \in Nat /\ DOMAIN recs' = 1..Len(recs) + 1 /\ \A j \in 1..Len(recs) : recs'[j] = recs[j]
    BY <1>1 DEF LogGrown
  <2> QED
    BY <1>2, <2>1
<1>4. recs[i].off \in Nat /\ recs[i].len \in Nat /\ recs[i].seg \in Nat /\ recs[i].life \in Nat
  BY <1>2, ConstantFacts DEF Segs
<1>5. /\ recs[i].life <= life /\ recs[i].off + recs[i].len <= SegCap
      /\ recs[i].life = life =>
         /\ seg # NoSeg /\ recs[i].seg <= seg
         /\ recs[i].seg = seg => recs[i].off + recs[i].len <= writeOff
  BY <1>1 DEF RecInv, Live
<1>6. seg # NoSeg => seg \in Nat
  BY <1>1, ConstantFacts DEF TypeOK, Segs
<1> QED
  BY <1>2, <1>3, <1>4, <1>5, <1>6, ConstantFacts

\* The record that is accepted.
LEMMA AddedRecord ==
  ASSUME Shape, NEW len \in Lens, NEW cp \in LSNs \cup {NoCp}, Appending(len, cp),
         NEW i \in DOMAIN recs', i \notin DOMAIN recs
  PROVE  /\ i = Len(recs) + 1 /\ Len(recs) \in Nat
         /\ recs'[i].life = life /\ recs'[i].seg = seg' /\ recs'[i].off = writeOff' - len
         /\ recs'[i].len = len /\ recs'[i].cp = cp
         /\ seg' \in Segs /\ seg' \in Nat /\ seg' # NoSeg /\ len \in Nat
         /\ writeOff' \in 0..SegCap /\ writeOff' \in Nat /\ writeOff' - len \in 1..SegCap
<1>1. LogGrown(len, cp)
  BY DEF Appending
<1>2. i = Len(recs) + 1 /\ Len(recs) \in Nat
  BY <1>1 DEF LogGrown
<1>3. recs'[i] = NewRecord(seg', writeOff' - len, len, cp)
  BY <1>1, <1>2 DEF LogGrown
<1>4. seg' \in Segs /\ writeOff' \in 1..SegCap /\ writeOff' - len \in 1..SegCap
  BY <1>1 DEF LogGrown
<1> QED
  BY <1>2, <1>3, <1>4, NoSegFacts, ConstantFacts DEF NewRecord, Segs

\* Records stay inside their segments, and before the end of the log.
LEMMA RecInvStep == Shape /\ RecInv /\ [Next]_vars => RecInv'
<1> SUFFICES ASSUME Shape, RecInv, StepKind PROVE RecInv'
  BY StepKinds
<1>1. ASSUME NEW len \in Lens, NEW cp \in LSNs \cup {NoCp}, Appending(len, cp) PROVE RecInv'
  <2> SUFFICES ASSUME NEW i \in DOMAIN recs'
               PROVE  /\ recs'[i].life <= life'
                      /\ recs'[i].off + recs'[i].len <= SegCap
                      /\ recs'[i].life = life' =>
                           /\ seg' # NoSeg /\ recs'[i].seg <= seg'
                           /\ recs'[i].seg = seg' => recs'[i].off + recs'[i].len <= writeOff'
    BY DEF RecInv
  <2>1. /\ life' = life /\ life \in Nat /\ seg' \in Nat /\ seg' # NoSeg /\ len \in Nat
        /\ writeOff \in Nat /\ writeOff' \in Nat
        /\ seg = NoSeg \/ (seg' = seg /\ writeOff' = writeOff + len) \/ seg' = seg + 1
    <3>1. life' = life /\ seg' \in Segs /\ writeOff' \in 1..SegCap
      BY <1>1 DEF Appending, LogGrown
    <3>2. life \in Nat /\ writeOff \in Nat
      BY ConstantFacts DEF Shape, TypeOK
    <3>3. seg = NoSeg \/ (seg' = seg /\ writeOff' = writeOff + len) \/ seg' = seg + 1
      BY <1>1 DEF Appending
    <3> QED
      BY <3>1, <3>2, <3>3, NoSegFacts, ConstantFacts DEF Segs
  <2>2. CASE i \in DOMAIN recs
    <3>1. /\ recs'[i] = recs[i] /\ recs[i].life \in Nat /\ recs[i].life <= life /\ recs[i].seg \in Nat
          /\ recs[i].off + recs[i].len \in 0..SegCap
          /\ recs[i].life = life =>
               /\ seg # NoSeg /\ seg \in Nat /\ recs[i].seg <= seg
               /\ recs[i].seg = seg => recs[i].off + recs[i].len <= writeOff
      BY <1>1, <2>2, OldRecord
    <3> QED
      BY <2>1, <3>1, ConstantFacts
  <2>3. CASE i \notin DOMAIN recs
    <3>1. /\ recs'[i].life = life /\ recs'[i].seg = seg' /\ recs'[i].off = writeOff' - len
          /\ recs'[i].len = len /\ writeOff' \in 0..SegCap
      BY <1>1, <2>3, AddedRecord
    <3>2. recs'[i].off + recs'[i].len = writeOff' /\ writeOff' <= SegCap
      <4>1. writeOff' \in Nat /\ len \in Nat
        BY <2>1
      <4>2. writeOff' - len + len = writeOff'
        <5>1. \A x, y \in Nat : x - y + y = x
          OBVIOUS
        <5> QED
          BY <4>1, <5>1
      <4>3. SegCap \in Nat
        BY ConstantFacts
      <4>4. writeOff' <= SegCap
        BY <3>1, <4>3
      <4> QED
        BY <3>1, <4>2, <4>4
    <3>3. recs'[i].life <= life' /\ recs'[i].seg <= seg' /\ writeOff' <= writeOff'
      BY <2>1, <3>1
    <3> QED
      BY <2>1, <3>2, <3>3
  <2> QED
    BY <2>2, <2>3
<1>2. CASE Keeping
  <2> SUFFICES ASSUME NEW i \in DOMAIN recs
               PROVE  /\ recs[i].life <= life
                      /\ recs[i].off + recs[i].len <= SegCap
                      /\ recs[i].life = life /\ state' \in Live =>
                           /\ seg' # NoSeg /\ recs[i].seg <= seg'
                           /\ recs[i].seg = seg' => recs[i].off + recs[i].len <= writeOff'
    BY <1>2 DEF RecInv, Keeping
  <2> QED
    BY <1>2 DEF RecInv, Keeping
<1>3. CASE Reopening
  <2> SUFFICES ASSUME NEW i \in DOMAIN recs
               PROVE  /\ recs[i].life <= life + 1 /\ recs[i].life # life + 1
                      /\ recs[i].off + recs[i].len <= SegCap
    BY <1>3 DEF RecInv, Reopening
  <2>1. recs[i].life \in Nat /\ life \in Nat
    BY RecordFacts DEF Shape, TypeOK
  <2>2. recs[i].life <= life /\ recs[i].off + recs[i].len <= SegCap
    BY DEF RecInv
  <2> QED
    BY <2>1, <2>2
<1> QED
  BY <1>1, <1>2, <1>3 DEF StepKind

\* LSNs go on growing: a record is accepted at the end of the log.
LEMMA LsnsStep == Shape /\ RecInv /\ LsnsIncrease /\ [Next]_vars => LsnsIncrease'
<1> SUFFICES ASSUME Shape, RecInv, LsnsIncrease, StepKind PROVE LsnsIncrease'
  BY StepKinds
<1>1. ASSUME NEW len \in Lens, NEW cp \in LSNs \cup {NoCp}, Appending(len, cp) PROVE LsnsIncrease'
  <2> SUFFICES ASSUME NEW i \in DOMAIN recs', NEW j \in DOMAIN recs', i < j, recs'[i].life = recs'[j].life
               PROVE  LSNFor(recs'[i].seg, recs'[i].off + recs'[i].len) <= LSNFor(recs'[j].seg, recs'[j].off)
    BY DEF LsnsIncrease, EndLSN
  <2>0. DOMAIN recs = 1..Len(recs) /\ Len(recs) \in Nat /\ DOMAIN recs' = 1..Len(recs) + 1
    BY <1>1 DEF Appending, LogGrown
  <2>1. i \in DOMAIN recs
    BY <2>0
  <2>2. CASE j \in DOMAIN recs
    <3>1. recs'[i] = recs[i] /\ recs'[j] = recs[j]
      BY <1>1, <2>1, <2>2, OldRecord
    <3> QED
      BY <2>1, <2>2, <3>1 DEF LsnsIncrease, EndLSN
  <2>3. CASE j \notin DOMAIN recs
    <3>1. /\ recs'[j].life = life /\ recs'[j].seg = seg' /\ recs'[j].off = writeOff' - len
          /\ seg' \in Nat /\ len \in Nat /\ writeOff' \in Nat /\ writeOff' - len \in Nat
      BY <1>1, <2>3, AddedRecord, ConstantFacts
    <3>2. /\ recs'[i] = recs[i] /\ recs[i].life = life /\ recs[i].seg \in Nat
          /\ recs[i].off + recs[i].len \in 0..SegCap
          /\ seg # NoSeg /\ seg \in Nat /\ recs[i].seg <= seg
          /\ recs[i].seg = seg => recs[i].off + recs[i].len <= writeOff
      BY <1>1, <2>1, <3>1, OldRecord
    <3>3. (seg' = seg /\ writeOff' = writeOff + len) \/ seg' = seg + 1
      BY <1>1, <3>2 DEF Appending
    <3>4. writeOff \in Nat
      BY DEF Shape, TypeOK
    <3>5. CASE recs[i].seg = seg'
      <4>1. recs[i].off + recs[i].len <= writeOff' - len
        BY <3>1, <3>2, <3>3, <3>4, <3>5
      <4> DEFINE a == recs[i].off + recs[i].len
                 b == writeOff' - len
      <4>2. a \in Nat /\ b \in Nat /\ a <= b
        <5>1. a \in Nat
          BY <3>2, ConstantFacts
        <5>2. b \in Nat
          BY <3>1
        <5>3. a <= b
          BY <4>1
        <5> QED
          BY <5>1, <5>2, <5>3
      <4> HIDE DEF a, b
      <4>3. LSNFor(seg', a) <= LSNFor(seg', b)
        BY <3>1, <4>2, LSNSame
      <4> QED
        BY <3>1, <3>2, <3>5, <4>3 DEF a, b
    <3>6. CASE recs[i].seg # seg'
      <4>1. recs[i].seg < seg'
        BY <3>1, <3>2, <3>3, <3>6
      <4> DEFINE a == recs[i].off + recs[i].len
                 b == writeOff' - len
                 m == recs[i].seg
      <4>2. a \in 0..SegCap /\ b \in Nat /\ m \in Nat /\ m < seg'
        BY <3>1, <3>2, <4>1, ConstantFacts
      <4> HIDE DEF a, b, m
      <4>3. LSNFor(m, a) <= LSNFor(seg', b)
        BY <3>1, <4>2, LSNOrder
      <4> QED
        BY <3>1, <3>2, <4>3 DEF a, b, m
    <3> QED
      BY <3>5, <3>6
  <2> QED
    BY <2>2, <2>3
<1>2. CASE recs' = recs
  BY <1>2 DEF LsnsIncrease, EndLSN
<1> QED
  BY <1>1, <1>2 DEF StepKind, Keeping, Reopening

\* Records stay where they are.
LEMMA InPlaceStep == Shape /\ RecInv /\ InPlace /\ [Next]_vars => InPlace'
<1> SUFFICES ASSUME Shape, RecInv, InPlace, StepKind PROVE InPlace'
  BY StepKinds
<1>1. ASSUME NEW len \in Lens, NEW cp \in LSNs \cup {NoCp}, Appending(len, cp) PROVE InPlace'
  <2> SUFFICES ASSUME NEW i \in DOMAIN recs', recs'[i].life = life' PROVE InPlaceAt(i)'
    BY DEF InPlace, Mine
  <2>1. CASE i \notin DOMAIN recs
    <3>1. i = Len(recs) + 1
      BY <1>1, <2>1, AddedRecord
    <3> QED
      BY <1>1, <3>1 DEF Appending
  <2>2. CASE i \in DOMAIN recs
    <3>1. /\ recs'[i] = recs[i] /\ recs[i].life = life /\ recs[i].seg \in Nat
          /\ recs[i].off \in Nat /\ recs[i].len \in Nat
          /\ seg # NoSeg /\ seg \in Nat /\ recs[i].seg <= seg
          /\ recs[i].seg = seg => recs[i].off + recs[i].len <= writeOff
      <4>1. life' = life
        BY <1>1 DEF Appending
      <4>2. recs'[i] = recs[i]
        BY <1>1, <2>2, OldRecord
      <4> QED
        BY <1>1, <2>2, <4>1, <4>2, OldRecord
    <3>2. InPlaceAt(i)
      <4>1. i \in Mine /\ state \in Live
        BY <1>1, <2>2, <3>1 DEF Mine, Appending, Live
      <4> QED
        BY <4>1 DEF InPlace
    <3> DEFINE n == recs[i].seg
    <3>3. n \in 0..seg
      BY <3>1
    <3>4. CASE n # seg'
      <4>1. View(n)' = View(n)
        BY <1>1, <3>1, <3>3, <3>4 DEF Appending
      <4> QED
        BY <3>1, <3>2, <4>1 DEF InPlaceAt
    <3>5. CASE n = seg'
      <4>1. writeOff <= Len(View(n)') /\ \A j \in 1..writeOff : View(n)'[j] = View(n)[j]
        BY <1>1, <3>1, <3>3, <3>5 DEF Appending
      <4>2. n = seg
        <5>1. (seg' = seg /\ writeOff' = writeOff + len) \/ seg' = seg + 1
          BY <1>1, <3>1 DEF Appending
        <5> QED
          BY <3>1, <3>3, <3>5, <5>1
      <4>3. writeOff \in Nat
        BY DEF Shape, TypeOK
      <4>4. Len(View(n)') \in Nat
        BY <4>1
      <4>5. ASSUME NEW k \in 1..recs[i].len
            PROVE  /\ recs[i].off + k <= Len(View(n)')
                   /\ View(n)'[recs[i].off + k] = Unit(i, k, recs[i].len, recs[i].cp)
        <5>1. recs[i].off + k \in 1..writeOff
          BY <3>1, <4>2, <4>3
        <5>2. View(n)[recs[i].off + k] = Unit(i, k, recs[i].len, recs[i].cp)
          BY <3>2 DEF InPlaceAt
        <5> QED
          BY <4>1, <4>3, <4>4, <5>1, <5>2
      <4> QED
        BY <3>1, <4>5 DEF InPlaceAt
    <3> QED
      BY <3>4, <3>5
  <2> QED
    BY <2>1, <2>2
<1>2. CASE Keeping
  <2> SUFFICES ASSUME state' \in Live, NEW i \in Mine PROVE InPlaceAt(i)'
    BY <1>2 DEF InPlace, Mine, Keeping
  <2>1. InPlaceAt(i)
    BY <1>2 DEF InPlace, Keeping
  <2>2. recs[i].seg \in Segs
    BY RecordFacts DEF Shape, Mine
  <2>3. View(recs[i].seg)' = View(recs[i].seg)
    BY <1>2, <2>2 DEF Keeping
  <2> QED
    BY <1>2, <2>1, <2>3 DEF Keeping, InPlaceAt
<1>3. CASE Reopening
  <2>1. \A i \in DOMAIN recs : recs[i].life \in Nat /\ life \in Nat /\ recs[i].life <= life
    BY RecordFacts DEF Shape, TypeOK, RecInv
  <2>2. \A i \in DOMAIN recs : recs[i].life # life + 1
    BY <2>1
  <2> QED
    BY <1>3, <2>2 DEF InPlace, Mine, Reopening
<1> QED
  BY <1>1, <1>2, <1>3 DEF StepKind

(***************************************************************************)
(* What is durable while nothing has failed                                 *)
(***************************************************************************)

\* The antecedent of SyncDurable, and the parts of its inductive form.
Calm == life = 1 /\ state # "down" /\ faults = 0 /\ \A i \in DOMAIN recs : recs[i].seg = 0

\* The part of the active segment that is in the file.
Ended == writeOff - Len(buf)

\* The records up to an LSN, and those up to the end of what was written.
Whole(lsn) == \A i \in DOMAIN recs : EndLSN(i) <= lsn => WholeIn(disk, i)
Flushing == \E f \in inflight : f.st = "fsync"

\* Nothing is announced that is not in the file, and its handle is open.
DurSeg ==
  seg # NoSeg => /\ fh /\ seg = 0 /\ synced <= Ended
                 /\ \A i \in acked : EndLSN(i) <= Ended
\* What is behind the synced LSN is durable.
DurSynced == Whole(synced) /\ (seg = NoSeg /\ state = "open" => synced = 0)
\* A goroutine will fsync the segment, or has: then what it announces is durable.
DurFlight == \A f \in inflight : f.fd = 0 /\ f.end <= Ended /\ (f.st # "fsync" => Whole(f.end))
\* An acknowledged record is durable, except while a goroutine's fsync is still to come.
DurAcked == Flushing \/ \A i \in acked : WholeIn(disk, i)
\* So is every record once the buffer is empty.
DurQuiet == state \in Live /\ buf = <<>> => Flushing \/ \A i \in DOMAIN recs : WholeIn(disk, i)

Durable == Calm => DurSeg /\ DurSynced /\ DurFlight /\ DurAcked /\ DurQuiet

\* In segment 0 an LSN is the offset.
LEMMA LSNZero == \A x \in Nat : LSNFor(0, x) = x
BY ConstantFacts DEF LSNFor

\* The records of a log that never rotated and was never opened again.
LEMMA CalmFacts ==
  ASSUME Shape, RecInv, Calm, NEW i \in DOMAIN recs
  PROVE  /\ i \in Mine /\ recs[i].seg = 0 /\ recs[i].off \in Nat /\ recs[i].len \in Nat
         /\ EndLSN(i) = recs[i].off + recs[i].len /\ EndLSN(i) \in Nat
         /\ state \in Live => seg # NoSeg /\ (seg = 0 => EndLSN(i) <= writeOff)
<1>1. /\ recs[i].life \in 1..MaxLives /\ recs[i].off \in 1..SegCap /\ recs[i].len \in Lens
      /\ recs[i].seg = 0 /\ life = 1
  BY RecordFacts DEF Shape, Calm
<1>2. recs[i].off \in Nat /\ recs[i].len \in Nat /\ SegCap \in Nat
  BY <1>1, ConstantFacts
<1>3. recs[i].life <= life
  BY DEF RecInv
<1>4. recs[i].life = life
  BY <1>1, <1>3, ConstantFacts
<1>5. /\ EndLSN(i) = recs[i].off + recs[i].len /\ EndLSN(i) \in Nat
  BY <1>1, <1>2 DEF EndLSN, LSNFor
<1>6. state \in Live => seg # NoSeg /\ (recs[i].seg = seg => recs[i].off + recs[i].len <= writeOff)
  BY <1>4 DEF RecInv
<1> QED
  BY <1>1, <1>2, <1>4, <1>5, <1>6 DEF Mine

\* The numbers of a writer with a segment.
LEMMA EndedFacts ==
  ASSUME Shape
  PROVE  /\ writeOff \in Nat /\ Len(buf) \in Nat /\ synced \in Nat
         /\ seg # NoSeg => Ended \in Nat /\ Ended <= writeOff /\ Ended <= Len(cache[seg])
         /\ \A f \in inflight : f.end \in Nat /\ f.st \in {"fsync", "store", "send"}
         /\ seg = 0 => LSNFor(seg, writeOff) = writeOff
<1>1. TypeOK /\ SegInv
  BY DEF Shape
<1>2. /\ writeOff \in Nat /\ Len(buf) \in Nat /\ synced \in LSNs /\ inflight \subseteq FsyncType
  BY <1>1 DEF TypeOK
<1>3. LSNs \subseteq Nat
  BY DEF LSNs
<1>4. seg # NoSeg => Ended \in Nat /\ Ended <= writeOff /\ Ended <= Len(cache[seg])
  BY <1>1, <1>2, FlushParts DEF Ended
<1>5. \A f \in inflight : f.end \in Nat /\ f.st \in {"fsync", "store", "send"}
  BY <1>2, <1>3 DEF FsyncType
<1>6. seg = 0 => LSNFor(seg, writeOff) = writeOff
  BY <1>2, ConstantFacts DEF LSNFor
<1> QED
  BY <1>2, <1>3, <1>4, <1>5, <1>6

\* A record that ends in the written part of the segment is wholly in the file.
LEMMA WrittenWhole ==
  ASSUME Shape, RecInv, InPlace, Calm, state \in Live, seg = 0, NEW i \in DOMAIN recs,
         EndLSN(i) <= Ended
  PROVE  WholeIn(cache, i)
<1>1. /\ i \in Mine /\ recs[i].seg = 0 /\ recs[i].off \in Nat /\ recs[i].len \in Nat
      /\ recs[i].off + recs[i].len <= Ended
  BY CalmFacts
<1>2. InPlaceAt(i)
  BY <1>1 DEF InPlace
<1>3. seg # NoSeg /\ TypeOK /\ SegInv
  BY DEF Shape, NoSeg
<1>4. /\ cache[0] \in Seq(UnitType) /\ buf \in Seq(UnitType) /\ Ended \in Nat
      /\ Ended <= Len(cache[0]) /\ Len(cache[0]) \in Nat
  BY <1>3, FlushParts, EndedFacts
<1> SUFFICES ASSUME NEW k \in 1..recs[i].len
             PROVE  /\ recs[i].off + k <= Len(cache[0])
                    /\ cache[0][recs[i].off + k] = Unit(i, k, recs[i].len, recs[i].cp)
  BY <1>1 DEF WholeIn
<1> DEFINE j == recs[i].off + k
<1>5. j \in 1..Len(cache[0]) /\ j <= Ended /\ j <= Len(cache[0])
  BY <1>1, <1>4
<1>6. View(0)[j] = Unit(i, k, recs[i].len, recs[i].cp)
  BY <1>1, <1>2 DEF InPlaceAt
<1> HIDE DEF j
<1>7. View(0)[j] = cache[0][j]
  <2>1. CASE buf = <<>>
    BY <2>1 DEF View
  <2>2. CASE buf # <<>>
    <3>1. View(0) = Pwrite(cache[0], Ended, buf)
      BY <2>2 DEF View, Ended
    <3>2. Pwrite(cache[0], Ended, buf)[j] = cache[0][j]
      BY <1>4, <1>5, PwriteBefore
    <3> QED
      BY <3>1, <3>2
  <2> QED
    BY <2>1, <2>2
<1> QED
  BY <1>5, <1>6, <1>7 DEF j

\* After a flush, every record is wholly in the file.
LEMMA FlushedWhole ==
  ASSUME Shape, RecInv, InPlace, Calm, state \in Live, seg = 0, NEW i \in DOMAIN recs,
         NEW files, files[0] = AfterFlush[0]
  PROVE  WholeIn(files, i)
<1>1. i \in Mine /\ recs[i].seg = 0
  BY CalmFacts
<1>2. InPlaceAt(i)
  BY <1>1 DEF InPlace
<1>3. AfterFlush[0] = View(0)
  <2>1. TypeOK /\ SegInv /\ seg # NoSeg /\ 0 \in Segs
    BY ConstantFacts DEF Shape, NoSeg, Segs
  <2> QED
    BY <2>1, FlushFacts
<1> QED
  BY <1>1, <1>2, <1>3 DEF InPlaceAt, WholeIn

\* With nothing to flush, every record is in the file.
LEMMA EmptyWhole ==
  ASSUME Shape, RecInv, Calm, state \in Live, seg = 0, buf = <<>>, NEW i \in DOMAIN recs
  PROVE  EndLSN(i) <= Ended
<1>1. EndLSN(i) <= writeOff /\ EndLSN(i) \in Nat
  BY CalmFacts
<1>2. Len(buf) = 0 /\ writeOff \in Nat
  BY EndedFacts
<1> QED
  BY <1>1, <1>2 DEF Ended

\* At the start there is no record.
LEMMA DurableInit == Init => Durable
<1> SUFFICES ASSUME Init PROVE DurSeg /\ DurSynced /\ DurFlight /\ DurAcked /\ DurQuiet
  BY DEF Durable
<1>1. DOMAIN recs = {} /\ acked = {} /\ inflight = {} /\ seg = NoSeg /\ synced = 0
  BY DEF Init
<1> QED
  BY <1>1 DEF DurSeg, DurSynced, DurFlight, DurAcked, DurQuiet, Whole

\* A record accepted without a flush of its own is beyond everything announced.
LEMMA DurableAppend ==
  ASSUME Shape, RecInv, Calm, DurSynced, DurFlight, DurAcked,
         NEW len \in Lens, NEW cp \in LSNs \cup {NoCp}, Appending(len, cp),
         Calm', fh', seg' = 0, buf' # <<>>, Ended' \in Nat, Ended' < writeOff',
         synced <= Ended', \A i \in acked : EndLSN(i) <= Ended',
         \A f \in inflight : f.end <= Ended',
         UNCHANGED <<disk, synced, inflight, acked>>
  PROVE  (DurSeg /\ DurSynced /\ DurFlight /\ DurAcked /\ DurQuiet)'
<1>1. /\ TypeOK /\ acked \subseteq DOMAIN recs /\ synced \in Nat /\ writeOff' \in Nat
      /\ \A f \in inflight : f.end \in Nat
  <2>1. writeOff' \in 1..SegCap
    BY DEF Appending, LogGrown
  <2> QED
    BY <2>1, EndedFacts, ConstantFacts DEF Shape, TypeOK
<1>2. ASSUME NEW i \in DOMAIN recs
      PROVE  i \in DOMAIN recs' /\ recs'[i] = recs[i] /\ EndLSN(i)' = EndLSN(i)
             /\ WholeIn(disk, i)' = WholeIn(disk, i)
  <2>1. i \in DOMAIN recs' /\ recs'[i] = recs[i]
    BY OldRecord
  <2> QED
    BY <2>1 DEF EndLSN, WholeIn
<1>3. ASSUME NEW i \in DOMAIN recs', i \notin DOMAIN recs PROVE EndLSN(i)' = writeOff'
  <2>1. /\ recs'[i].seg = 0 /\ recs'[i].off = writeOff' - len /\ recs'[i].len = len /\ len \in Nat
    BY <1>3, AddedRecord
  <2>2. (writeOff' - len) + len = writeOff'
    <3>1. \A x, y \in Nat : x - y + y = x
      OBVIOUS
    <3> QED
      BY <1>1, <2>1, <3>1
  <2>3. LSNFor(0, writeOff') = writeOff'
    BY <1>1, LSNZero
  <2> QED
    BY <2>1, <2>2, <2>3 DEF EndLSN
<1>4. ASSUME NEW lsn \in Nat, lsn <= Ended', Whole(lsn),
             NEW i \in DOMAIN recs', EndLSN(i)' <= lsn PROVE WholeIn(disk, i)'
  <2>1. i \in DOMAIN recs
    BY <1>1, <1>3, <1>4
  <2> QED
    BY <1>2, <1>4, <2>1 DEF Whole
<1>5. DurSeg'
  BY <1>1, <1>2 DEF DurSeg
<1>6. DurSynced'
  <2>1. Whole(synced)'
    BY <1>1, <1>4 DEF DurSynced, Whole
  <2> QED
    BY <2>1 DEF DurSynced, NoSeg
<1>7. DurFlight'
  <2> SUFFICES ASSUME NEW f \in inflight
               PROVE  f.fd = 0 /\ f.end <= Ended' /\ (f.st # "fsync" => Whole(f.end)')
    BY DEF DurFlight
  <2>1. f.fd = 0 /\ f.end <= Ended' /\ f.end \in Nat /\ (f.st # "fsync" => Whole(f.end))
    BY <1>1 DEF DurFlight
  <2>2. ASSUME f.st # "fsync" PROVE Whole(f.end)'
    BY <1>4, <2>1, <2>2 DEF Whole
  <2> QED
    BY <2>1, <2>2
<1>8. DurAcked'
  BY <1>1, <1>2 DEF DurAcked, Flushing
<1>9. DurQuiet'
  BY DEF DurQuiet
<1> QED
  BY <1>5, <1>6, <1>7, <1>8, <1>9

\* The parts of Durable, for a step that is made in the calm and leaves it.
DurParts == DurSeg /\ DurSynced /\ DurFlight /\ DurAcked /\ DurQuiet

\* A step that adds no record: the calm was there before.
LEMMA CalmBack ==
  ASSUME Durable, Calm', UNCHANGED <<recs, life, faults>>, state # "down"
  PROVE  Calm /\ DurParts
BY DEF Calm, Durable, DurParts

\* A record is accepted in the calm.
LEMMA CalmAppend ==
  ASSUME Shape, RecInv, Durable, Calm', NEW len \in Lens, NEW cp \in LSNs \cup {NoCp},
         Appending(len, cp), faults' = faults
  PROVE  Calm /\ DurParts /\ seg' = 0
<1>1. life' = 1 /\ faults' = 0 /\ \A i \in DOMAIN recs' : recs'[i].seg = 0
  BY DEF Calm
<1>2. life = 1 /\ faults = 0 /\ state = "open"
  BY <1>1 DEF Appending
<1>3. \A i \in DOMAIN recs : recs[i].seg = 0
  BY <1>1, OldRecord
<1>4. seg' = 0
  <2>1. Len(recs) + 1 \in DOMAIN recs' /\ recs'[Len(recs) + 1].seg = seg'
    BY DEF Appending, LogGrown, NewRecord
  <2> QED
    BY <1>1, <2>1
<1> QED
  BY <1>2, <1>3, <1>4 DEF Calm, Durable, DurParts

\* What an fsync of the written part of the segment makes durable.
LEMMA FsyncedWhole ==
  ASSUME Shape, RecInv, InPlace, Calm, DurParts, state \in Live, seg = 0,
         disk' = [disk EXCEPT ![0] = cache[0]], UNCHANGED recs
  PROVE  \A i \in DOMAIN recs : EndLSN(i) <= Ended => WholeIn(disk', i)
<1>1. 0 \in Segs /\ disk \in [Segs -> Content]
  BY ConstantFacts DEF Shape, TypeOK, Segs
<1>2. disk'[0] = cache[0]
  BY <1>1
<1> SUFFICES ASSUME NEW i \in DOMAIN recs, EndLSN(i) <= Ended PROVE WholeIn(disk', i)
  OBVIOUS
<1>3. WholeIn(cache, i) /\ recs[i].seg = 0
  BY WrittenWhole, CalmFacts
<1> QED
  BY <1>2, <1>3 DEF WholeIn

\* The appends that stay in the segment.
LEMMA DurableFirst ==
  ASSUME Shape, RecInv, Durable, Calm', Room, NEW len \in Lens, NEW cp \in CpValues(len),
         AppendFirst(len, cp), Appending(len, cp)
  PROVE  DurParts'
<1>1. cp \in LSNs \cup {NoCp} /\ TypeOK
  BY CpTypes DEF Shape
<1>2. /\ state = "open" /\ seg = NoSeg /\ UNCHANGED <<disk, synced, inflight, faults, acked>>
  BY DEF AppendFirst
<1>3. Calm /\ DurParts /\ seg' = 0
  BY <1>1, <1>2, CalmAppend
<1>4. fh' /\ writeOff' = 1 + len /\ Len(buf') = len /\ buf' # <<>> /\ len \in Nat /\ len >= 1
  BY FirstEffect, ConstantFacts DEF BufferRestarted
<1>5. synced = 0 /\ inflight = {} /\ acked = {}
  <2>1. synced = 0
    BY <1>2, <1>3 DEF DurParts, DurSynced
  <2>2. inflight = {}
    BY <1>2 DEF Shape, SegInv
  <2>3. DOMAIN recs = {}
    BY <1>2, <1>3, CalmFacts DEF Live
  <2> QED
    BY <1>1, <2>1, <2>2, <2>3 DEF TypeOK
<1>6. Ended' = 1
  BY <1>4 DEF Ended
<1>7. Ended' \in Nat /\ Ended' < writeOff' /\ synced <= Ended'
  BY <1>4, <1>5, <1>6
<1>8. (\A i \in acked : EndLSN(i) <= Ended') /\ \A f \in inflight : f.end <= Ended'
  BY <1>5
<1> QED
  BY <1>1, <1>2, <1>3, <1>4, <1>7, <1>8, DurableAppend DEF DurParts

LEMMA DurableBuffered ==
  ASSUME Shape, RecInv, Durable, Calm', Room, NEW len \in Lens, NEW cp \in CpValues(len),
         AppendBuffered(len, cp), Appending(len, cp)
  PROVE  DurParts'
<1>1. cp \in LSNs \cup {NoCp} /\ TypeOK
  BY CpTypes DEF Shape
<1>2. /\ state = "open" /\ seg # NoSeg /\ fh' = fh /\ UNCHANGED <<disk, synced, inflight, faults, acked>>
  BY DEF AppendBuffered
<1>3. Calm /\ DurParts /\ seg' = 0
  BY <1>1, <1>2, CalmAppend
<1>4. /\ writeOff' = writeOff + len /\ Len(buf') = Len(buf) + len /\ buf' # <<>>
      /\ len \in Nat /\ len >= 1
  BY BufferedEffect, ConstantFacts DEF BufferGrown
<1>5. writeOff \in Nat /\ Len(buf) \in Nat /\ Ended \in Nat /\ Ended <= writeOff
  BY <1>2, EndedFacts
<1>6. Ended' = Ended
  BY <1>4, <1>5 DEF Ended
<1>7. Ended' \in Nat /\ Ended' < writeOff'
  BY <1>4, <1>5, <1>6
<1>8. /\ synced <= Ended' /\ (\A i \in acked : EndLSN(i) <= Ended')
      /\ fh /\ \A f \in inflight : f.end <= Ended'
  BY <1>2, <1>3, <1>6 DEF DurParts, DurSeg, DurFlight
<1> QED
  BY <1>1, <1>2, <1>3, <1>4, <1>7, <1>8, DurableAppend DEF DurParts

LEMMA DurableOverflow ==
  ASSUME Shape, RecInv, Durable, Calm', Room, NEW len \in Lens, NEW cp \in CpValues(len),
         AppendOverflow(len, cp), Appending(len, cp)
  PROVE  DurParts'
<1>1. cp \in LSNs \cup {NoCp} /\ TypeOK
  BY CpTypes DEF Shape
<1>2. /\ state = "open" /\ seg # NoSeg /\ fh' = fh /\ UNCHANGED <<disk, synced, inflight, faults, acked>>
  BY DEF AppendOverflow
<1>3. Calm /\ DurParts /\ seg' = 0
  BY <1>1, <1>2, CalmAppend
<1>4. /\ writeOff' = writeOff + len /\ Len(buf') = len /\ buf' # <<>>
      /\ len \in Nat /\ len >= 1
  BY OverflowEffect, ConstantFacts DEF BufferRestarted
<1>5. /\ writeOff \in Nat /\ Ended \in Nat /\ Ended <= writeOff /\ synced \in Nat
      /\ \A f \in inflight : f.end \in Nat
  BY <1>2, EndedFacts
<1>6. Ended' = writeOff
  BY <1>4, <1>5 DEF Ended
<1>7. Ended' \in Nat /\ Ended' < writeOff'
  BY <1>4, <1>5, <1>6
<1>8. synced <= Ended' /\ fh
  BY <1>2, <1>3, <1>5, <1>6 DEF DurParts, DurSeg
<1>9. \A i \in acked : EndLSN(i) <= Ended'
  <2> SUFFICES ASSUME NEW i \in acked PROVE EndLSN(i) <= Ended'
    OBVIOUS
  <2>1. i \in DOMAIN recs
    BY <1>1 DEF TypeOK
  <2>2. EndLSN(i) \in Nat
    BY <1>3, <2>1, CalmFacts
  <2>3. EndLSN(i) <= Ended
    BY <1>2, <1>3 DEF DurParts, DurSeg
  <2> QED
    BY <1>5, <1>6, <2>2, <2>3
<1>10. \A f \in inflight : f.end <= Ended'
  BY <1>3, <1>5, <1>6 DEF DurParts, DurFlight
<1> QED
  BY <1>1, <1>2, <1>3, <1>4, <1>7, <1>8, <1>9, <1>10, DurableAppend DEF DurParts

\* Acknowledgements of records that are in the file, and announcements of what is durable.
LEMMA DurableAck ==
  ASSUME Shape, RecInv, Calm, DurParts, state \in Live, seg = 0, Calm',
         synced' \in Nat, synced' <= Ended, Whole(synced'),
         acked' \subseteq DOMAIN recs, inflight' \subseteq inflight,
         (\E f \in inflight : f.st = "fsync") => \E f \in inflight' : f.st = "fsync",
         \A i \in acked' : EndLSN(i) <= Ended,
         Flushing \/ \A i \in acked' : WholeIn(disk, i),
         UNCHANGED <<disk, state, seg, writeOff, buf, fh, recs>>
  PROVE  DurParts'
<1>1. Ended' = Ended /\ seg # NoSeg
  BY DEF Ended, NoSeg
<1>2. \A i : EndLSN(i)' = EndLSN(i) /\ WholeIn(disk, i)' = WholeIn(disk, i)
  BY DEF EndLSN, WholeIn
<1>3. \A lsn : Whole(lsn)' = Whole(lsn)
  BY <1>2 DEF Whole
<1>4. Flushing => Flushing'
  BY DEF Flushing
<1>5. DurSeg'
  BY <1>1, <1>2 DEF DurSeg, DurParts
<1>6. DurSynced'
  <2>1. Whole(synced)'
    BY <1>2 DEF Whole
  <2> QED
    BY <2>1 DEF DurSynced, NoSeg
<1>7. DurFlight'
  <2> SUFFICES ASSUME NEW f \in inflight'
               PROVE  f.fd = 0 /\ f.end <= Ended' /\ (f.st # "fsync" => Whole(f.end)')
    BY DEF DurFlight
  <2>1. f.fd = 0 /\ f.end <= Ended /\ (f.st # "fsync" => Whole(f.end))
    BY DEF DurParts, DurFlight
  <2> QED
    BY <1>1, <1>3, <2>1
<1>8. DurAcked'
  BY <1>2, <1>4 DEF DurAcked
<1>9. DurQuiet'
  BY <1>2, <1>4 DEF DurQuiet, DurParts
<1> QED
  BY <1>5, <1>6, <1>7, <1>8, <1>9 DEF DurParts

\* The segment in the calm.
LEMMA CalmSeg ==
  ASSUME Shape, RecInv, DurParts, Calm, seg # NoSeg
  PROVE  /\ state \in Live /\ seg = 0 /\ fh /\ synced \in Nat /\ synced <= Ended
         /\ Ended \in Nat /\ Ended <= writeOff /\ writeOff \in Nat
         /\ LSNFor(seg, writeOff) = writeOff /\ acked \subseteq DOMAIN recs
         /\ \A i \in acked : EndLSN(i) <= Ended
         /\ \A i \in DOMAIN recs : EndLSN(i) \in Nat /\ EndLSN(i) <= writeOff
<1>1. state \in Live /\ acked \subseteq DOMAIN recs
  BY DEF Shape, SegInv, TypeOK
<1>2. seg = 0 /\ fh /\ synced <= Ended /\ \A i \in acked : EndLSN(i) <= Ended
  BY DEF DurParts, DurSeg
<1>3. synced \in Nat /\ Ended \in Nat /\ Ended <= writeOff /\ writeOff \in Nat /\ LSNFor(seg, writeOff) = writeOff
  BY <1>2, EndedFacts
<1>4. \A i \in DOMAIN recs : EndLSN(i) \in Nat /\ EndLSN(i) <= writeOff
  BY <1>1, <1>2, CalmFacts
<1> QED
  BY <1>1, <1>2, <1>3, <1>4

\* Sync with nothing to flush.
LEMMA DurableNothing ==
  ASSUME Shape, RecInv, Calm, DurParts, Calm', SyncNothing
  PROVE  DurParts'
<1>1. /\ state = "open" /\ buf = <<>> /\ acked' = acked \cup Mine
      /\ UNCHANGED <<disk, state, seg, writeOff, buf, fh, recs, synced, inflight>>
  BY DEF SyncNothing
<1>2. acked' \subseteq DOMAIN recs
  BY <1>1, MineTypes DEF Shape, TypeOK
<1>3. CASE seg = NoSeg
  <2>1. DOMAIN recs = {}
    BY <1>1, <1>3, CalmFacts DEF Live
  <2>2. acked' = {} /\ inflight = {} /\ synced = 0
    BY <1>1, <1>2, <1>3, <2>1 DEF Shape, SegInv, DurParts, DurSynced
  <2> QED
    BY <1>1, <1>3, <2>1, <2>2 DEF DurParts, DurSeg, DurSynced, DurFlight, DurAcked, DurQuiet, Whole, Flushing
<1>4. CASE seg # NoSeg
  <2>1. state \in Live /\ seg = 0 /\ synced \in Nat /\ synced <= Ended
    BY <1>4, CalmSeg
  <2>2. \A i \in acked' : EndLSN(i) <= Ended
    BY <1>1, <1>2, <2>1, EmptyWhole
  <2>3. Flushing \/ \A i \in acked' : WholeIn(disk, i)
    BY <1>1, <1>2, <2>1 DEF DurParts, DurQuiet
  <2>4. Whole(synced)
    BY DEF DurParts, DurSynced
  <2> QED
    BY <1>1, <1>2, <2>1, <2>2, <2>3, <2>4, DurableAck
<1> QED
  BY <1>3, <1>4

\* SyncAsync with nothing to flush.
LEMMA DurableAsyncNothing ==
  ASSUME Shape, RecInv, Calm, DurParts, Calm', SyncAsyncNothing
  PROVE  DurParts'
<1>1. /\ seg # NoSeg /\ acked' = acked \cup MineTo(synced)
      /\ UNCHANGED <<disk, state, seg, writeOff, buf, fh, recs, synced, inflight>>
  BY DEF SyncAsyncNothing
<1>2. acked' \subseteq DOMAIN recs
  BY <1>1, MineTypes DEF Shape, TypeOK
<1>3. /\ state \in Live /\ seg = 0 /\ synced \in Nat /\ synced <= Ended /\ Ended \in Nat
      /\ \A i \in acked : EndLSN(i) <= Ended
      /\ \A i \in DOMAIN recs : EndLSN(i) \in Nat
  BY <1>1, CalmSeg
<1>4. Whole(synced) /\ (Flushing \/ \A i \in acked : WholeIn(disk, i))
  BY DEF DurParts, DurSynced, DurAcked
<1>5. \A i \in MineTo(synced) : i \in DOMAIN recs /\ EndLSN(i) <= synced /\ WholeIn(disk, i)
  BY <1>4 DEF MineTo, Mine, Whole
<1>6. \A i \in MineTo(synced) : EndLSN(i) <= Ended
  BY <1>3, <1>5
<1> QED
  BY <1>1, <1>2, <1>3, <1>4, <1>5, <1>6, DurableAck

\* The result of a goroutine.
LEMMA DurableDone ==
  ASSUME Shape, RecInv, Calm, DurParts, Calm', NEW f \in inflight, AsyncDone(f)
  PROVE  DurParts'
<1>1. /\ f.st \in {"store", "send"} /\ synced' = (IF f.st = "store" THEN f.end ELSE synced)
      /\ inflight' = inflight \ {f} /\ acked' = acked \cup MineTo(f.end)
      /\ UNCHANGED <<disk, state, seg, writeOff, buf, fh, recs>>
  BY DEF AsyncDone, Without
<1>2. acked' \subseteq DOMAIN recs /\ seg # NoSeg
  BY <1>1, MineTypes DEF Shape, TypeOK, SegInv
<1>3. /\ state \in Live /\ seg = 0 /\ synced \in Nat /\ synced <= Ended /\ Ended \in Nat
      /\ \A i \in acked : EndLSN(i) <= Ended
      /\ \A i \in DOMAIN recs : EndLSN(i) \in Nat
  BY <1>2, CalmSeg
<1>4. f.end \in Nat /\ f.end <= Ended /\ Whole(f.end)
  BY <1>1, EndedFacts DEF DurParts, DurFlight
<1>5. Whole(synced) /\ (Flushing \/ \A i \in acked : WholeIn(disk, i))
  BY DEF DurParts, DurSynced, DurAcked
<1>6. \A i \in MineTo(f.end) : i \in DOMAIN recs /\ EndLSN(i) <= f.end /\ WholeIn(disk, i)
  BY <1>4 DEF MineTo, Mine, Whole
<1>7. \A i \in MineTo(f.end) : EndLSN(i) <= Ended
  BY <1>3, <1>4, <1>6
<1>8. (\E g \in inflight : g.st = "fsync") => \E g \in inflight' : g.st = "fsync"
  BY <1>1
<1>9. synced' \in Nat /\ synced' <= Ended /\ Whole(synced')
  BY <1>1, <1>3, <1>4, <1>5
<1>10. /\ \A i \in acked' : EndLSN(i) <= Ended
       /\ Flushing \/ \A i \in acked' : WholeIn(disk, i)
  BY <1>1, <1>3, <1>5, <1>6, <1>7
<1> QED
  BY <1>1, <1>2, <1>3, <1>8, <1>9, <1>10, DurableAck

\* A Sync that succeeds.
LEMMA DurableSync ==
  ASSUME Shape, RecInv, InPlace, Calm, DurParts, Calm', Sync
  PROVE  DurParts'
<1>1. /\ state = "open" /\ buf # <<>> /\ cache' = Flushed /\ buf' = <<>>
      /\ disk' = [disk EXCEPT ![seg] = Flushed[seg]]
      /\ synced' = Later(LSNFor(seg, writeOff)) /\ acked' = acked \cup Mine
      /\ UNCHANGED <<state, seg, writeOff, fh, inflight, recs>>
  BY DEF Sync, Fsynced
<1>2. seg # NoSeg /\ acked' \subseteq DOMAIN recs
  BY <1>1, MineTypes DEF Shape, TypeOK, SegInv
<1>3. /\ state \in Live /\ seg = 0 /\ fh /\ synced \in Nat /\ synced <= Ended /\ Ended \in Nat
      /\ Ended <= writeOff /\ writeOff \in Nat /\ LSNFor(seg, writeOff) = writeOff
      /\ \A i \in DOMAIN recs : EndLSN(i) \in Nat /\ EndLSN(i) <= writeOff
  BY <1>2, CalmSeg
<1>4. disk'[0] = AfterFlush[0]
  <2>1. disk \in [Segs -> Content] /\ 0 \in Segs
    BY ConstantFacts DEF Shape, TypeOK, Segs
  <2> QED
    BY <1>1, <1>3, <2>1 DEF AfterFlush
<1>5. \A i \in DOMAIN recs : WholeIn(disk', i)
  BY <1>3, <1>4, FlushedWhole
<1>6. Ended' = writeOff /\ synced' <= writeOff
  <2>1. Len(buf') = 0
    BY <1>1
  <2> QED
    BY <1>1, <1>3, <2>1 DEF Ended, Later
<1>7. \A i \in DOMAIN recs : WholeIn(disk, i)' /\ EndLSN(i)' = EndLSN(i)
  BY <1>1, <1>5 DEF WholeIn, EndLSN
<1>8. \A lsn : Whole(lsn)'
  BY <1>1, <1>7 DEF Whole
<1>9. DurSeg'
  BY <1>1, <1>2, <1>3, <1>6, <1>7 DEF DurSeg
<1>10. DurSynced'
  BY <1>1, <1>2, <1>7 DEF DurSynced, Whole
<1>11. DurFlight'
  <2> SUFFICES ASSUME NEW f \in inflight
               PROVE  f.fd = 0 /\ f.end <= Ended' /\ (f.st # "fsync" => Whole(f.end)')
    BY <1>1 DEF DurFlight
  <2>1. f.fd = 0 /\ f.end <= Ended /\ f.end \in Nat
    BY EndedFacts DEF DurParts, DurFlight
  <2> QED
    BY <1>3, <1>6, <1>8, <2>1
<1>12. DurAcked' /\ DurQuiet'
  BY <1>1, <1>2, <1>7 DEF DurAcked, DurQuiet
<1> QED
  BY <1>9, <1>10, <1>11, <1>12 DEF DurParts

\* A SyncAsync: the goroutine's fsync is still to come.
LEMMA DurableAsync ==
  ASSUME Shape, RecInv, Calm, DurParts, Calm', SyncAsync
  PROVE  DurParts'
<1> DEFINE g == [fd |-> seg, end |-> LSNFor(seg, writeOff), st |-> "fsync"]
<1>1. /\ state = "open" /\ buf # <<>> /\ buf' = <<>> /\ inflight' = inflight \cup {g}
      /\ UNCHANGED <<disk, state, seg, writeOff, fh, synced, recs, acked>>
  BY DEF SyncAsync
<1>2. seg # NoSeg
  BY <1>1 DEF Shape, SegInv
<1>3. /\ seg = 0 /\ fh /\ synced \in Nat /\ synced <= Ended /\ Ended \in Nat
      /\ Ended <= writeOff /\ writeOff \in Nat /\ LSNFor(seg, writeOff) = writeOff
      /\ acked \subseteq DOMAIN recs
      /\ \A i \in DOMAIN recs : EndLSN(i) \in Nat /\ EndLSN(i) <= writeOff
  BY <1>2, CalmSeg
<1>4. Ended' = writeOff
  <2>1. Len(buf') = 0
    BY <1>1
  <2> QED
    BY <1>1, <1>3, <2>1 DEF Ended
<1>5. \A i : EndLSN(i)' = EndLSN(i) /\ WholeIn(disk, i)' = WholeIn(disk, i)
  BY <1>1 DEF EndLSN, WholeIn
<1>6. \A lsn : Whole(lsn)' = Whole(lsn)
  BY <1>1, <1>5 DEF Whole
<1>7. g.fd = 0 /\ g.end = writeOff /\ g.st = "fsync" /\ g \in inflight'
  BY <1>1, <1>3
<1> HIDE DEF g
<1>8. DurSeg'
  BY <1>1, <1>2, <1>3, <1>4, <1>5 DEF DurSeg
<1>9. DurSynced'
  BY <1>1, <1>2, <1>5 DEF DurSynced, DurParts, Whole
<1>10. DurFlight'
  <2> SUFFICES ASSUME NEW f \in inflight'
               PROVE  f.fd = 0 /\ f.end <= Ended' /\ (f.st # "fsync" => Whole(f.end)')
    BY DEF DurFlight
  <2>1. CASE f \in inflight
    <3>1. f.fd = 0 /\ f.end <= Ended /\ f.end \in Nat /\ (f.st # "fsync" => Whole(f.end))
      BY <2>1, EndedFacts DEF DurParts, DurFlight
    <3> QED
      BY <1>3, <1>4, <1>6, <3>1
  <2>2. CASE f = g
    BY <1>3, <1>4, <1>7, <2>2
  <2> QED
    BY <1>1, <2>1, <2>2
<1>11. Flushing'
  BY <1>7 DEF Flushing
<1> QED
  BY <1>8, <1>9, <1>10, <1>11 DEF DurParts, DurAcked, DurQuiet

\* A goroutine's fsync: all that was written is durable.
LEMMA DurableFsync ==
  ASSUME Shape, RecInv, InPlace, Calm, DurParts, Calm', NEW f \in inflight, AsyncFsync(f)
  PROVE  DurParts'
<1>1. /\ f.st = "fsync"
      /\ disk' = (IF f.fd \in Segs THEN [disk EXCEPT ![f.fd] = cache[f.fd]] ELSE disk)
      /\ inflight' = (inflight \ {f})
                       \cup {[f EXCEPT !.st = IF f.end > synced THEN "store" ELSE "send"]}
      /\ UNCHANGED <<state, seg, writeOff, buf, fh, synced, recs, acked>>
  BY DEF AsyncFsync
<1>2. seg # NoSeg
  BY DEF Shape, SegInv
<1>3. /\ state \in Live /\ seg = 0 /\ fh /\ synced <= Ended /\ acked \subseteq DOMAIN recs
      /\ \A i \in acked : EndLSN(i) <= Ended
      /\ Ended \in Nat /\ synced \in Nat /\ \A i \in DOMAIN recs : EndLSN(i) \in Nat
  BY <1>2, CalmSeg
<1>4. f.fd = 0 /\ f.end <= Ended
  BY DEF DurParts, DurFlight
<1>5. disk' = [disk EXCEPT ![0] = cache[0]]
  <2>1. 0 \in Segs
    BY ConstantFacts DEF Segs
  <2> QED
    BY <1>1, <1>4, <2>1
<1>6. \A i \in DOMAIN recs : EndLSN(i) <= Ended => WholeIn(disk', i)
  BY <1>1, <1>3, <1>5, FsyncedWhole
<1>7. \A i : EndLSN(i)' = EndLSN(i)
  BY <1>1 DEF EndLSN
<1>8. \A i \in DOMAIN recs : EndLSN(i) <= Ended => WholeIn(disk, i)'
  BY <1>1, <1>6 DEF WholeIn
<1>9. Ended' = Ended
  BY <1>1 DEF Ended
<1>10. ASSUME NEW lsn \in Nat, lsn <= Ended PROVE Whole(lsn)'
  <2> SUFFICES ASSUME NEW i \in DOMAIN recs, EndLSN(i) <= lsn PROVE WholeIn(disk, i)'
    BY <1>1, <1>7 DEF Whole
  <2>1. EndLSN(i) <= Ended
    BY <1>3, <1>10
  <2> QED
    BY <1>8, <2>1
<1>11. DurSeg'
  BY <1>1, <1>3, <1>7, <1>9 DEF DurSeg
<1>12. DurSynced'
  <2>1. Whole(synced)'
    BY <1>1, <1>3, <1>10 DEF Whole
  <2> QED
    BY <1>1, <1>2, <2>1 DEF DurSynced
<1>13. DurFlight'
  <2> SUFFICES ASSUME NEW g \in inflight'
               PROVE  g.fd = 0 /\ g.end <= Ended' /\ (g.st # "fsync" => Whole(g.end)')
    BY DEF DurFlight
  <2>1. PICK h \in inflight : g.fd = h.fd /\ g.end = h.end
    <3>1. CASE g \in inflight
      BY <3>1
    <3>2. CASE g = [f EXCEPT !.st = IF f.end > synced THEN "store" ELSE "send"]
      <4>1. f \in FsyncType
        BY DEF Shape, TypeOK
      <4> QED
        BY <3>2, <4>1 DEF FsyncType
    <3> QED
      BY <1>1, <3>1, <3>2
  <2>2. h.fd = 0 /\ h.end <= Ended /\ h.end \in Nat
    BY EndedFacts DEF DurParts, DurFlight
  <2>3. Whole(g.end)'
    BY <1>10, <2>1, <2>2
  <2> QED
    BY <1>9, <2>1, <2>2, <2>3
<1>14. DurAcked'
  BY <1>1, <1>3, <1>8 DEF DurAcked
<1>15. DurQuiet'
  <2>1. buf = <<>> => \A i \in DOMAIN recs : WholeIn(disk, i)'
    BY <1>3, <1>8, EmptyWhole
  <2> QED
    BY <1>1, <2>1 DEF DurQuiet
<1> QED
  BY <1>11, <1>12, <1>13, <1>14, <1>15 DEF DurParts

\* Close begins: only the state changes.
LEMMA DurableBegin ==
  ASSUME Shape, Calm, DurParts, Calm', CloseBegin
  PROVE  DurParts'
<1>1. /\ state = "open" /\ state' = (IF seg = NoSeg THEN "closed" ELSE "closing")
      /\ UNCHANGED <<disk, seg, writeOff, buf, fh, synced, inflight, recs, acked>>
  BY DEF CloseBegin
<1>2. /\ Ended' = Ended /\ Flushing' = Flushing
      /\ \A i : EndLSN(i)' = EndLSN(i) /\ WholeIn(disk, i)' = WholeIn(disk, i)
  BY <1>1 DEF Ended, Flushing, EndLSN, WholeIn
<1>3. \A lsn : Whole(lsn)' = Whole(lsn)
  BY <1>1, <1>2 DEF Whole
<1>4. Whole(synced)'
  BY <1>1, <1>2 DEF DurParts, DurSynced, Whole
<1>5. DurFlight'
  BY <1>1, <1>2, <1>3 DEF DurFlight, DurParts
<1> QED
  BY <1>1, <1>2, <1>4, <1>5 DEF DurParts, DurSeg, DurSynced, DurAcked, DurQuiet, Live

\* Close ends without a failure: what it flushed is durable, or there was nothing to flush.
LEMMA DurableEnd ==
  ASSUME Shape, RecInv, InPlace, Calm, DurParts, Calm', CloseEnd
  PROVE  DurParts'
<1>1. /\ state = "closing" /\ inflight = {} /\ state' = "closed" /\ seg' = NoSeg
      /\ inflight' = {} /\ recs' = recs
  BY DEF CloseEnd, NoFsyncInFlight
<1>2. seg # NoSeg
  BY <1>1 DEF Shape, SegInv
<1>3. state \in Live /\ seg = 0 /\ fh /\ acked \subseteq DOMAIN recs
  BY <1>2, CalmSeg
<1>4. ~ Flushing /\ faults = 0 /\ faults' = 0
  BY <1>1 DEF Flushing, Calm
<1>5. \/ buf = <<>> /\ acked' = acked \cup Mine /\ disk' = disk /\ synced' = synced
      \/ buf # <<>> /\ disk' = [disk EXCEPT ![seg] = Flushed[seg]] /\ acked' = acked \cup Mine
  BY <1>3, <1>4 DEF CloseEnd, Fault, Fsynced
<1>6. acked' \subseteq DOMAIN recs
  BY <1>3, <1>5, MineTypes
<1>7. \A i \in DOMAIN recs : WholeIn(disk, i)'
  <2>1. CASE buf = <<>> /\ disk' = disk
    <3>1. \A i \in DOMAIN recs : WholeIn(disk, i)
      BY <1>3, <1>4, <2>1 DEF DurParts, DurQuiet
    <3> QED
      BY <1>1, <2>1, <3>1 DEF WholeIn
  <2>2. CASE buf # <<>> /\ disk' = [disk EXCEPT ![seg] = Flushed[seg]]
    <3>1. disk \in [Segs -> Content] /\ 0 \in Segs
      BY ConstantFacts DEF Shape, TypeOK, Segs
    <3>2. disk'[0] = AfterFlush[0]
      BY <1>3, <2>2, <3>1 DEF AfterFlush
    <3>3. \A i \in DOMAIN recs : WholeIn(disk', i)
      BY <1>3, <3>2, FlushedWhole
    <3> QED
      BY <1>1, <3>3 DEF WholeIn
  <2> QED
    BY <1>5, <2>1, <2>2
<1> QED
  BY <1>1, <1>6, <1>7 DEF DurParts, DurSeg, DurSynced, DurFlight, DurAcked, DurQuiet, Whole, Live

\* Every step keeps what is durable in the calm.
LEMMA DurableStep == Shape /\ RecInv /\ InPlace /\ Durable /\ [Next]_vars => Durable'
<1> SUFFICES ASSUME Shape, RecInv, InPlace, Durable, [Next]_vars PROVE Durable'
  OBVIOUS
<1>0. TypeOK /\ SegInv /\ life \in 1..MaxLives
  BY DEF Shape, TypeOK
<1>a. (Calm' => DurParts') => Durable'
  BY DEF Durable, DurParts
<1>1. ASSUME Room, NEW len \in Lens, NEW cp \in CpValues(len), AppendFirst(len, cp) PROVE Durable'
  <2>1. Appending(len, cp)
    BY <1>1, AppendKinds
  <2> QED
    BY <1>1, <1>a, <2>1, DurableFirst
<1>2. ASSUME Room, NEW len \in Lens, NEW cp \in CpValues(len), AppendBuffered(len, cp) PROVE Durable'
  <2>1. Appending(len, cp)
    BY <1>2, AppendKinds
  <2> QED
    BY <1>2, <1>a, <2>1, DurableBuffered
<1>3. ASSUME Room, NEW len \in Lens, NEW cp \in CpValues(len), AppendOverflow(len, cp) PROVE Durable'
  <2>1. Appending(len, cp)
    BY <1>3, AppendKinds
  <2> QED
    BY <1>3, <1>a, <2>1, DurableOverflow
<1>4. ASSUME Room, NEW len \in Lens, NEW cp \in CpValues(len), AppendRotate(len, cp) PROVE Durable'
  <2>1. Appending(len, cp) /\ cp \in LSNs \cup {NoCp}
    BY <1>0, <1>4, AppendKinds, CpTypes
  <2>2. ASSUME Calm' PROVE FALSE
    <3>1. seg' = 0
      <4>1. faults' = faults
        BY <1>4 DEF AppendRotate
      <4> QED
        BY <2>1, <2>2, <4>1, CalmAppend
    <3>2. seg' = seg + 1 /\ seg \in Segs
      BY <1>4, RotateEffect
    <3>3. seg \in Nat
      BY <3>2, ConstantFacts DEF Segs
    <3>4. seg + 1 # 0
      BY <3>3
    <3> QED
      BY <3>1, <3>2, <3>4
  <2> QED
    BY <1>a, <2>2
<1>5. ASSUME faults' = faults + 1 PROVE Durable'
  <2>1. faults \in Nat
    BY DEF Shape, TypeOK
  <2>2. faults' # 0
    BY <1>5, <2>1
  <2> QED
    BY <1>a, <2>2 DEF Calm
<1>6. ASSUME NEW len \in Lens, AppendRotateFails(len) PROVE Durable'
  BY <1>5, <1>6 DEF AppendRotateFails, Fault
<1>7. ASSUME FlushFails PROVE Durable'
  BY <1>5, <1>7 DEF FlushFails, Fault
<1>8. ASSUME SyncFsyncFails PROVE Durable'
  BY <1>5, <1>8 DEF SyncFsyncFails, Fault
<1>b. ASSUME Calm', UNCHANGED <<recs, life, faults>>, state # "down" PROVE Calm /\ DurParts
  BY <1>b, CalmBack
<1>9. ASSUME SyncNothing PROVE Durable'
  <2>1. UNCHANGED <<recs, life, faults>> /\ state # "down"
    BY <1>9 DEF SyncNothing
  <2> QED
    BY <1>9, <1>a, <1>b, <2>1, DurableNothing
<1>10. ASSUME Sync PROVE Durable'
  <2>1. UNCHANGED <<recs, life, faults>> /\ state # "down"
    BY <1>10 DEF Sync
  <2> QED
    BY <1>10, <1>a, <1>b, <2>1, DurableSync
<1>11. ASSUME SyncAsync PROVE Durable'
  <2>1. UNCHANGED <<recs, life, faults>> /\ state # "down"
    BY <1>11 DEF SyncAsync
  <2> QED
    BY <1>11, <1>a, <1>b, <2>1, DurableAsync
<1>12. ASSUME SyncAsyncNothing PROVE Durable'
  <2>1. UNCHANGED <<recs, life, faults>> /\ state # "down"
    BY <1>12, <1>0 DEF SyncAsyncNothing, SegInv, Live
  <2> QED
    BY <1>12, <1>a, <1>b, <2>1, DurableAsyncNothing
<1>13. ASSUME NEW f \in inflight PROVE state # "down"
  BY <1>0 DEF SegInv, Live
<1>14. ASSUME NEW f \in inflight, AsyncFsync(f) PROVE Durable'
  <2>1. UNCHANGED <<recs, life, faults>> /\ state # "down"
    BY <1>13, <1>14 DEF AsyncFsync
  <2> QED
    BY <1>14, <1>a, <1>b, <2>1, DurableFsync
<1>15. ASSUME NEW f \in inflight, AsyncFails(f) PROVE Durable'
  <2>1. CASE f.fd = BadFd
    <3>1. UNCHANGED <<recs, life, faults>> /\ state # "down"
      BY <1>13, <1>15, <2>1 DEF AsyncFails
    <3>2. Calm' => f.fd = 0
      BY <1>b, <3>1 DEF DurParts, DurFlight
    <3> QED
      BY <1>a, <2>1, <3>2 DEF BadFd
  <2>2. CASE f.fd # BadFd
    BY <1>5, <1>15, <2>2 DEF AsyncFails, Fault
  <2> QED
    BY <2>1, <2>2
<1>16. ASSUME NEW f \in inflight, AsyncDone(f) PROVE Durable'
  <2>1. UNCHANGED <<recs, life, faults>> /\ state # "down"
    BY <1>13, <1>16 DEF AsyncDone
  <2> QED
    BY <1>16, <1>a, <1>b, <2>1, DurableDone
<1>17. ASSUME CloseBegin PROVE Durable'
  <2>1. UNCHANGED <<recs, life, faults>> /\ state # "down"
    BY <1>17 DEF CloseBegin
  <2> QED
    BY <1>17, <1>a, <1>b, <2>1, DurableBegin
<1>18. ASSUME CloseEnd PROVE Durable'
  <2>1. UNCHANGED <<recs, life>> /\ state # "down" /\ (faults' = faults \/ faults' = faults + 1)
    BY <1>18 DEF CloseEnd, Fault
  <2>2. CASE faults' = faults
    BY <1>18, <1>a, <1>b, <2>1, <2>2, DurableEnd
  <2> QED
    BY <1>5, <2>1, <2>2
<1>19. ASSUME state' = "down" PROVE Durable'
  BY <1>19 DEF Durable, Calm
<1>20. ASSUME Exit PROVE Durable'
  BY <1>19, <1>20 DEF Exit, Gone
<1>21. ASSUME Crash PROVE Durable'
  BY <1>19, <1>21 DEF Crash, Gone
<1>22. ASSUME Reopen PROVE Durable'
  <2>1. life' = life + 1
    BY <1>22 DEF Reopen
  <2>2. life' # 1
    BY <1>0, <2>1, ConstantFacts
  <2> QED
    BY <1>a, <2>2 DEF Calm
<1>23. ASSUME vars' = vars PROVE Durable'
  <2>1. UNCHANGED <<disk, state, seg, writeOff, buf, fh, synced, inflight, life, faults, recs, acked>>
    BY <1>23 DEF vars
  <2> QED
    BY <2>1 DEF Durable, Calm, DurSeg, DurSynced, DurFlight, DurAcked, DurQuiet, Flushing, Whole,
                WholeIn, EndLSN, Ended
<1> QED
  BY <1>1, <1>2, <1>3, <1>4, <1>6, <1>7, <1>8, <1>9, <1>10, <1>11, <1>12, <1>14, <1>15, <1>16,
     <1>17, <1>18, <1>20, <1>21, <1>22, <1>23, NextSteps

(***************************************************************************)
(* The theorems                                                             *)
(***************************************************************************)

\* The inductive invariant.
Inv == Shape /\ RecInv /\ LsnsIncrease /\ InPlace /\ Durable

\* It holds at the start, where there is no record.
LEMMA InvInit == Init => Inv
<1> SUFFICES ASSUME Init PROVE Inv
  OBVIOUS
<1>1. DOMAIN recs = {}
  BY DEF Init
<1>2. RecInv /\ LsnsIncrease /\ InPlace
  BY <1>1 DEF RecInv, LsnsIncrease, InPlace, Mine
<1> QED
  BY <1>2, ShapeInit, DurableInit DEF Inv

\* ... and every step keeps it.
LEMMA InvStep == Inv /\ [Next]_vars => Inv'
BY ShapeStep, RecInvStep, LsnsStep, InPlaceStep, DurableStep DEF Inv

\* So it always holds.
LEMMA InvAlways == Spec => []Inv
BY InvInit, InvStep, PTL DEF Spec

\* The variables have their types, every record accepted in this life lies where its LSN
\* says (in the file or in the buffer), and LSNs never overlap: through overflow flushes,
\* rotations, failed and short writes (Append, flushBufferLocked, rotateLocked), for every
\* size of the segments and of the buffer.
THEOREM LogStaysWellFormed == Spec => []LogWellFormed
<1>1. Inv => LogWellFormed
  BY DEF Inv, Shape, InPlace, InPlaceAt, Live, LogWellFormed, RecordsInPlace
<1> QED
  BY <1>1, InvAlways, PTL

\* A record reported durable is durable, while no call has failed, the log has not rotated,
\* and no fsync goroutine is left (Sync, SyncAsync, Close).
THEOREM AcknowledgedIsDurable == Spec => []SyncDurable
<1>1. Inv => SyncDurable
  BY DEF Inv, Durable, Calm, DurAcked, Flushing, SyncDurable
<1> QED
  BY <1>1, InvAlways, PTL

\* Close waits for the fsync goroutines: none is left when the log is closed (closeLocked).
THEOREM CloseWaitsAlways == Spec => []CloseWaits
<1>1. Inv => CloseWaits
  BY DEF Inv, Shape, SegInv, Live, CloseWaits
<1> QED
  BY <1>1, InvAlways, PTL

=============================================================================
