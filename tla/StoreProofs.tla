---------------------------- MODULE StoreProofs ----------------------------
(***************************************************************************)
(* Theorems about Store for every set of sources, contents, clock readings *)
(* and environments, and every bound.                                      *)
(***************************************************************************)
EXTENDS Store, HashChainProofs

(* What Admit authors *)

LEMMA NextRecordType ==
  ASSUME TypeOK, NEW s \in Sources, NEW e \in Events, NEW now \in Times
  PROVE  /\ Stamp(now) \in Nat /\ Stamp(now) >= floor
         /\ NextRecord(s, e, now) \in Records
         /\ NextRecord(s, e, now).source = s
         /\ NextRecord(s, e, now).seq = e.seq
         /\ NextRecord(s, e, now).time = Stamp(now)
<1>1. Stamp(now) \in Nat /\ Stamp(now) >= floor
  BY StoreAssumption DEF TypeOK, Stamp
<1>2. e.seq \in Nat /\ e.body \in Bodies
  BY StoreAssumption DEF Events
<1>3. tip[s].hash \in Hashes
  BY DEF TypeOK, Tips
<1> DEFINE event == [source |-> s, seq |-> e.seq, body |-> e.body, time |-> Stamp(now)]
<1>4. event \in HashInputs
  BY <1>1, <1>2 DEF HashInputs
<1>5. Compute(tip[s].hash, e.seq, event) \in Hashes
  <2>1. <<e.seq, event>> \in Nat \X HashInputs
    BY <1>2, <1>4
  <2> QED
    BY <2>1, <1>3, AppendProperties DEF Compute, Hashes
<1> QED
  BY <1>1, <1>2, <1>3, <1>5 DEF NextRecord, Author, Records

\* The record an admission authors extends its source's tip.
LEMMA NextRecordExtends ==
  ASSUME TypeOK, NEW s \in Sources, NEW e \in Events, NEW now \in Times,
         ~Regressed(s, e)
  PROVE  Extends(tip[s], NextRecord(s, e, now))
<1>1. e.seq \in Nat /\ tip[s].seq \in Nat /\ tip[s].have \in BOOLEAN
  BY StoreAssumption DEF Events, TypeOK, Tips
<1>2. tip[s].have => e.seq > tip[s].seq
  BY <1>1 DEF Regressed
<1>3. Verify(NextRecord(s, e, now), tip[s].hash)
  BY DEF Verify, NextRecord, Author, CanonicalEvent
<1>4. NextRecord(s, e, now).seq = e.seq
  BY DEF NextRecord, Author
<1> QED
  BY <1>2, <1>3, <1>4 DEF Extends

(* What Recover rebuilds *)

LEMMA RecordFields ==
  \A r \in Records : r.hash \in Hashes /\ r.seq \in Nat /\ r.time \in Nat
BY DEF Records

LEMMA GenesisType == Genesis(Sources) \in [Sources -> Tips]
<1>1. NoTip \in Tips
  BY EmptySeq DEF NoTip, Tips, GenesisPrevHash, Hashes
<1> QED
  BY <1>1 DEF Genesis

LEMMA TipsOfType ==
  ASSUME NEW recs \in Seq(Records)
  PROVE  TipsOf(recs, Genesis(Sources)) \in [Sources -> Tips]
<1>1. TipsWith(Hashes) = Tips
  BY DEF TipsWith, Tips
<1> QED
  BY <1>1, RecordFields, GenesisType, TipsOfTyped

LEMMA FloorOfRecords ==
  ASSUME NEW recs \in Seq(Records), NEW low \in Nat
  PROVE  /\ FloorOf(recs, low) \in Nat
         /\ \A t \in TimesOf(recs) : t <= FloorOf(recs, low)
BY RecordFields, FloorOfList

(* What ReadAll returns *)

\* The number of frames in front of the first torn one.
ReadCount(d) ==
  IF TornFrames(d) = {} THEN Len(d) ELSE Min(TornFrames(d)) - 1

LEMMA FirstTornFrame ==
  ASSUME NEW d \in Seq(Frames), TornFrames(d) # {}
  PROVE  /\ Min(TornFrames(d)) \in TornFrames(d)
         /\ \A i \in TornFrames(d) : Min(TornFrames(d)) <= i
<1> DEFINE T == TornFrames(d)
<1>1. T \in SUBSET Nat
  BY LenProperties DEF TornFrames
<1>2. PICK m \in T : \A i \in T : ~ (<<i, m>> \in OpToRel(<, Nat))
  <2> HIDE DEF T
  <2>1. T # {}
    BY DEF T
  <2> QED
    BY <1>1, <2>1, NatLessThanWellFounded, WFMin
<1>3. \A i \in T : m <= i
  <2>1. \A i \in T : ~(i < m)
    BY <1>1, <1>2 DEF OpToRel
  <2> HIDE DEF T
  <2> QED
    BY <1>1, <2>1
<1> QED
  <2> HIDE DEF T
  <2>1. Min(T) \in T /\ \A i \in T : Min(T) <= i
    BY <1>1, <1>3 DEF Min
  <2> QED
    BY <2>1 DEF T

\* It counts whole frames, and all of those that come first.
LEMMA ReadCountProperties ==
  ASSUME NEW d \in Seq(Frames)
  PROVE  /\ ReadCount(d) \in 0..Len(d)
         /\ \A i \in 1..ReadCount(d) : d[i].lacks = 0
         /\ ReadCount(d) < Len(d) =>
              d[ReadCount(d) + 1].lacks > 0 /\ TornFrames(d) # {}
<1>0. Len(d) \in Nat
  BY LenProperties
<1>1. \A i \in 1..Len(d) : d[i].lacks \in Nat
  <2>1. \A i \in 1..Len(d) : d[i] \in Frames
    BY ElementOfSeq
  <2> QED
    BY <2>1 DEF Frames
<1>2. CASE TornFrames(d) = {}
  BY <1>0, <1>1, <1>2 DEF ReadCount, TornFrames
<1>3. CASE TornFrames(d) # {}
  <2> DEFINE m == Min(TornFrames(d))
  <2>1. m \in TornFrames(d) /\ \A i \in TornFrames(d) : m <= i
    BY <1>3, FirstTornFrame
  <2>2. ReadCount(d) = m - 1
    BY <1>3 DEF ReadCount
  <2> HIDE DEF m
  <2>3. m \in 1..Len(d) /\ d[m].lacks > 0
    BY <2>1 DEF TornFrames
  <2>4. \A i \in 1..(m - 1) : d[i].lacks = 0
    BY <1>0, <1>1, <2>1, <2>3 DEF TornFrames
  <2> QED
    BY <1>0, <1>3, <2>2, <2>3, <2>4
<1> QED
  BY <1>2, <1>3

LEMMA ReadCountUnique ==
  ASSUME NEW d \in Seq(Frames), NEW n \in 0..Len(d),
         \A i \in 1..n : d[i].lacks = 0,
         n < Len(d) => d[n + 1].lacks > 0
  PROVE  ReadCount(d) = n
<1>0. Len(d) \in Nat
  BY LenProperties
<1> DEFINE c == ReadCount(d)
<1>1. c \in 0..Len(d) /\ (\A i \in 1..c : d[i].lacks = 0)
      /\ (c < Len(d) => d[c + 1].lacks > 0)
  BY ReadCountProperties
<1> HIDE DEF c
<1>2. ~(c < n)
  BY <1>0, <1>1
<1>3. ~(n < c)
  BY <1>0, <1>1
<1>4. c = n
  BY <1>0, <1>1, <1>2, <1>3
<1> QED
  BY <1>4 DEF c

LEMMA ReadableProperties ==
  ASSUME NEW d \in Seq(Frames)
  PROVE  /\ Readable(d) = [i \in 1..ReadCount(d) |-> d[i].rec]
         /\ Readable(d) \in Seq(Records)
         /\ Len(Readable(d)) = ReadCount(d)
<1>0. Len(d) \in Nat
  BY LenProperties
<1>1. Readable(d) = [i \in 1..ReadCount(d) |-> d[i].rec]
  BY DEF Readable, ReadCount
<1>2. ReadCount(d) \in Nat /\ ReadCount(d) <= Len(d)
  BY <1>0, ReadCountProperties
<1>3. \A i \in 1..ReadCount(d) : d[i].rec \in Records
  <2>1. \A i \in 1..ReadCount(d) : d[i] \in Frames
    BY <1>0, <1>2, ElementOfSeq
  <2> QED
    BY <2>1 DEF Frames
<1> QED
  BY <1>1, <1>2, <1>3

\* A frame appended to the file adds one record to what is read, or none; it
\* adds one exactly when the file is intact and the frame is whole.
LEMMA ReadableAppend ==
  ASSUME NEW d \in Seq(Frames), NEW f \in Frames
  PROVE  /\ TornFrames(d) = {} /\ f.lacks = 0 =>
              /\ Readable(Append(d, f)) = Append(Readable(d), f.rec)
              /\ TornFrames(Append(d, f)) = {}
         /\ Readable(Append(d, f)) \in {Readable(d), Append(Readable(d), f.rec)}
<1> DEFINE new == Append(d, f)
           c == ReadCount(d)
<1>0. /\ new \in Seq(Frames) /\ Len(d) \in Nat /\ Len(new) = Len(d) + 1
      /\ new[Len(d) + 1] = f /\ \A i \in 1..Len(d) : new[i] = d[i]
  BY LenProperties, AppendProperties
<1>1. /\ c \in 0..Len(d) /\ (\A i \in 1..c : d[i].lacks = 0)
      /\ (c < Len(d) => d[c + 1].lacks > 0 /\ TornFrames(d) # {})
  BY ReadCountProperties
<1>2. /\ Readable(d) = [i \in 1..c |-> d[i].rec]
      /\ Readable(new) = [i \in 1..ReadCount(new) |-> new[i].rec]
      /\ Readable(d) \in Seq(Records) /\ Len(Readable(d)) = c
  BY <1>0, ReadableProperties
<1>3. f.lacks \in Nat /\ f.rec \in Records
  BY DEF Frames
<1> HIDE DEF new, c
<1>4. CASE c = Len(d) /\ f.lacks = 0
  <2>1. ReadCount(new) = Len(d) + 1
    <3>1. \A i \in 1..(Len(d) + 1) : new[i].lacks = 0
      BY <1>0, <1>1, <1>4
    <3> QED
      BY <1>0, <3>1, ReadCountUnique
  <2>2. Readable(new) = Append(Readable(d), f.rec)
    <3>1. /\ Append(Readable(d), f.rec) \in Seq(Records)
          /\ Len(Append(Readable(d), f.rec)) = Len(d) + 1
          /\ \A i \in 1..Len(d) : Append(Readable(d), f.rec)[i] = Readable(d)[i]
          /\ Append(Readable(d), f.rec)[Len(d) + 1] = f.rec
      BY <1>2, <1>3, <1>4, AppendProperties
    <3>2. Readable(new) \in Seq(Records) /\ Len(Readable(new)) = Len(d) + 1
      BY <1>0, <2>1, ReadableProperties
    <3>3. \A i \in 1..(Len(d) + 1) :
             Readable(new)[i] = Append(Readable(d), f.rec)[i]
      BY <1>0, <1>2, <1>4, <2>1, <3>1
    <3> QED
      BY <3>1, <3>2, <3>3, SeqEqual
  <2>3. TornFrames(new) = {}
    BY <1>0, <1>1, <1>4 DEF TornFrames
  <2> QED
    BY <2>2, <2>3 DEF new
<1>5. CASE c < Len(d) \/ f.lacks > 0
  <2>1. ReadCount(new) = c
    <3>1. \A i \in 1..c : new[i].lacks = 0
      BY <1>0, <1>1
    <3>2. c \in 0..Len(new) /\ c < Len(new)
      BY <1>0, <1>1
    <3>3. new[c + 1].lacks > 0
      BY <1>0, <1>1, <1>5
    <3> QED
      BY <1>0, <3>1, <3>2, <3>3, ReadCountUnique
  <2>2. Readable(new) = Readable(d)
    BY <1>0, <1>1, <1>2, <2>1, SMTT(30)
  <2>3. ~(TornFrames(d) = {} /\ f.lacks = 0)
    BY <1>1, <1>3, <1>5
  <2> QED
    BY <2>2, <2>3 DEF new
<1> QED
  BY <1>0, <1>1, <1>3, <1>4, <1>5

\* What a power loss leaves readable was readable before, at the same place.
LEMMA ReadableOfPrefix ==
  ASSUME NEW d \in Seq(Frames), NEW keep \in 0..Len(d)
  PROVE  /\ SubSeq(d, 1, keep) \in Seq(Frames) /\ Len(SubSeq(d, 1, keep)) = keep
         /\ Len(Readable(SubSeq(d, 1, keep))) <= Len(Readable(d))
         /\ \A i \in 1..Len(Readable(SubSeq(d, 1, keep))) :
               Readable(SubSeq(d, 1, keep))[i] = Readable(d)[i]
         /\ TornFrames(d) = {} => TornFrames(SubSeq(d, 1, keep)) = {}
<1> DEFINE cut == SubSeq(d, 1, keep)
<1>0. Len(d) \in Nat
  BY LenProperties
<1>1. cut \in Seq(Frames) /\ Len(cut) = keep /\ \A i \in 1..keep : cut[i] = d[i]
  <2>1. \A i \in 1..keep : d[i] \in Frames
    BY <1>0, ElementOfSeq
  <2> QED
    BY <1>0, <2>1, SubSeqProperties
<1>2. ReadCount(cut) \in 0..keep /\ \A i \in 1..ReadCount(cut) : cut[i].lacks = 0
  BY <1>1, ReadCountProperties
<1>3. ReadCount(d) \in 0..Len(d) /\ (ReadCount(d) < Len(d) => d[ReadCount(d) + 1].lacks > 0)
  BY ReadCountProperties
<1>4. ReadCount(cut) <= ReadCount(d)
  <2> HIDE DEF cut
  <2>1. SUFFICES ASSUME ReadCount(d) < ReadCount(cut) PROVE FALSE
    BY <1>0, <1>2, <1>3
  <2>2. ReadCount(d) + 1 \in 1..ReadCount(cut) /\ ReadCount(d) + 1 \in 1..keep
    BY <1>0, <1>2, <1>3, <2>1
  <2> QED
    BY <1>0, <1>1, <1>2, <1>3, <2>1, <2>2
<1>5. /\ Readable(d) = [i \in 1..ReadCount(d) |-> d[i].rec] /\ Len(Readable(d)) = ReadCount(d)
      /\ Readable(cut) = [i \in 1..ReadCount(cut) |-> cut[i].rec]
      /\ Len(Readable(cut)) = ReadCount(cut)
  BY <1>1, ReadableProperties
<1>6. TornFrames(d) = {} => TornFrames(cut) = {}
  BY <1>0, <1>1 DEF TornFrames
<1> QED
  <2> HIDE DEF cut
  <2>1. \A i \in 1..ReadCount(cut) : Readable(cut)[i] = Readable(d)[i]
    BY <1>0, <1>1, <1>2, <1>3, <1>4, <1>5
  <2> QED
    BY <1>1, <1>4, <1>5, <1>6, <2>1 DEF cut

(* Type correctness *)

LEMMA FrameType ==
  ASSUME NEW rec \in Records, NEW n \in Nat
  PROVE  Whole(rec) \in Frames /\ Torn(rec, n) \in Frames
BY DEF Whole, Torn, Frames

\* A frame more, whatever becomes of it.
LEMMA AppendFrameType ==
  ASSUME disk \in Seq(Frames), synced \in 0..Len(disk), NEW f \in Frames,
         disk' = Append(disk, f), synced' \in {synced, Len(disk')}
  PROVE  disk' \in Seq(Frames) /\ synced' \in 0..Len(disk')
BY AppendProperties, LenProperties

LEMMA RebuildType ==
  ASSUME NEW recs \in Seq(Records), Rebuild(recs)
  PROVE  /\ tip' \in [Sources -> Tips] /\ seen' \subseteq Sources \X Nat
         /\ records' \in Seq(Records) /\ leaves' \in Seq(Hashes) /\ floor' \in Nat
<1>1. \A i \in 1..Len(recs) : recs[i] \in Records
  BY ElementOfSeq
<1>2. tip' \in [Sources -> Tips]
  BY TipsOfType DEF Rebuild
<1>3. seen' \subseteq Sources \X Nat
  <2>1. \A i \in 1..Len(recs) : recs[i].source \in Sources /\ recs[i].seq \in Nat
    BY <1>1 DEF Records
  <2> QED
    BY <2>1 DEF Rebuild, KeysOf
<1>4. leaves' \in Seq(Hashes)
  <2>1. \A i \in 1..Len(recs) : recs[i].hash \in Hashes
    BY <1>1 DEF Records
  <2>2. Len(recs) \in Nat
    BY LenProperties
  <2> QED
    BY <2>1, <2>2 DEF Rebuild, LeavesOf
<1>5. floor' \in Nat
  BY FloorOfRecords DEF Rebuild
<1> QED
  BY <1>2, <1>3, <1>4, <1>5 DEF Rebuild

LEMMA ForgetType ==
  ASSUME Forget
  PROVE  /\ wal' \in {"open", "stuck", "closed"} /\ proc' \in {"up", "down", "refused"}
         /\ tip' \in [Sources -> Tips] /\ seen' \subseteq Sources \X Nat
         /\ records' \in Seq(Records) /\ leaves' \in Seq(Hashes) /\ floor' \in Nat
BY GenesisType, EmptySeq DEF Forget

LEMMA TypeInit == Init => TypeOK
<1> SUFFICES ASSUME Init PROVE TypeOK
  OBVIOUS
<1>1. disk \in Seq(Frames) /\ synced \in 0..Len(disk)
  BY EmptySeq DEF Init
<1>2. records \in Seq(Records) /\ leaves \in Seq(Hashes)
  BY EmptySeq DEF Init
<1> QED
  BY <1>1, <1>2, GenesisType DEF Init, TypeOK

\* Every state has the declared types; in particular what the last fsync
\* covers never exceeds the file, and the accumulator holds chain hashes
\* (store.go:110-170, recover.go:29-64).
THEOREM TypeCorrect == Spec => []TypeOK
<1>1. Init => TypeOK
  BY TypeInit
<1>2. TypeOK /\ [Next]_vars => TypeOK'
  <2> SUFFICES ASSUME TypeOK, [Next]_vars
               PROVE  TypeOK'
    OBVIOUS
  <2>1. ASSUME NEW s \in Sources, NEW e \in Events, AdmitDuplicate(s, e)
        PROVE  TypeOK'
    <3>1. Key(s, e) \in Sources \X Nat
      BY StoreAssumption DEF Key, Events
    <3> QED
      BY <2>1, <3>1 DEF AdmitDuplicate, TypeOK, memory
  <2>2. ASSUME NEW s \in Sources, NEW e \in Events, NEW now \in Times,
               Admit(s, e, now)
        PROVE  TypeOK'
    <3> DEFINE rec == NextRecord(s, e, now)
    <3>1. /\ Stamp(now) \in Nat /\ rec \in Records
          /\ rec.source = s /\ rec.seq = e.seq /\ Key(s, e) \in Sources \X Nat
      BY NextRecordType, StoreAssumption DEF Key, Events
    <3>2. /\ Whole(rec) \in Frames
          /\ \A n \in 1..MaxLack : Torn(rec, n) \in Frames
      BY <3>1, FrameType, StoreAssumption
    <3> HIDE DEF rec
    <3>3. CASE AdmitCommitted(s, e, now)
      <4>1. disk' = Append(disk, Whole(rec)) /\ Commit(rec) /\ synced' = Len(disk')
        BY <3>3 DEF AdmitCommitted, rec
      <4>2. disk' \in Seq(Frames) /\ synced' \in 0..Len(disk')
        BY <3>2, <4>1, AppendFrameType DEF TypeOK
      <4>3. rec.hash \in Hashes /\ TipOf(rec) \in Tips
        BY <3>1 DEF Records, TipOf, Tips
      <4>4. /\ tip' \in [Sources -> Tips] /\ seen' \subseteq Sources \X Nat
            /\ records' \in Seq(Records) /\ leaves' \in Seq(Hashes)
        BY <3>1, <4>1, <4>3, AppendProperties DEF Commit, TypeOK, Key
      <4> QED
        BY <3>1, <3>3, <4>2, <4>4 DEF AdmitCommitted, TypeOK
    <3>4. CASE AdmitRefused(s, e, now)
      BY <3>1, <3>4 DEF AdmitRefused, TypeOK
    <3>5. CASE AdmitSyncFault(s, e, now)
      <4>1. disk' \in Seq(Frames) /\ synced' \in 0..Len(disk')
        BY <3>2, <3>5, AppendFrameType DEF AdmitSyncFault, TypeOK, rec
      <4> QED
        BY <3>1, <3>5, <4>1 DEF AdmitSyncFault, TypeOK
    <3>6. CASE AdmitWriteFault(s, e, now)
      <4>1. disk' \in Seq(Frames) /\ synced' \in 0..Len(disk')
        <5>1. CASE disk' = disk
          BY <3>6, <5>1 DEF AdmitWriteFault, TypeOK
        <5>2. CASE \E n \in 1..MaxLack : disk' = Append(disk, Torn(rec, n))
          BY <3>2, <3>6, <5>2, AppendFrameType DEF AdmitWriteFault, TypeOK
        <5> QED
          BY <3>6, <5>1, <5>2 DEF AdmitWriteFault, rec
      <4> QED
        BY <3>1, <3>6, <4>1 DEF AdmitWriteFault, TypeOK
    <3>7. CASE CrashBeforeAck(s, e, now)
      <4>1. disk' \in Seq(Frames) /\ synced' \in 0..Len(disk')
        BY <3>2, <3>7, AppendFrameType DEF CrashBeforeAck, TypeOK, rec
      <4> QED
        BY <3>7, <4>1, ForgetType DEF CrashBeforeAck, TypeOK
    <3>8. CASE CrashBeforeSync(s, e, now)
      <4>1. disk' \in Seq(Frames) /\ synced' \in 0..Len(disk')
        BY <3>2, <3>8, AppendFrameType DEF CrashBeforeSync, TypeOK, rec
      <4> QED
        BY <3>8, <4>1, ForgetType DEF CrashBeforeSync, TypeOK
    <3>9. CASE CrashMidWrite(s, e, now)
      <4>1. disk' \in Seq(Frames) /\ synced' \in 0..Len(disk')
        BY <3>2, <3>9, AppendFrameType DEF CrashMidWrite, TypeOK, rec
      <4> QED
        BY <3>9, <4>1, ForgetType DEF CrashMidWrite, TypeOK
    <3> QED
      BY <2>2, <3>3, <3>4, <3>5, <3>6, <3>7, <3>8, <3>9 DEF Admit
  <2>3. CASE Close
    BY <2>3 DEF Close, TypeOK, memory
  <2>4. CASE Crash
    BY <2>4, ForgetType DEF Crash, TypeOK
  <2>5. CASE PowerLoss
    <3>1. PICK keep \in synced..Len(disk) : disk' = SubSeq(disk, 1, keep) /\ synced' = keep
      BY <2>5 DEF PowerLoss
    <3>2. keep \in 0..Len(disk)
      BY LenProperties DEF TypeOK
    <3>3. disk' \in Seq(Frames) /\ synced' \in 0..Len(disk')
      BY <3>1, <3>2, ReadableOfPrefix DEF TypeOK
    <3> QED
      BY <2>5, <3>3, ForgetType DEF PowerLoss, TypeOK
  <2>6. CASE BootServes
    <3>1. Readable(disk) \in Seq(Records)
      BY ReadableProperties DEF TypeOK
    <3> QED
      BY <2>6, <3>1, RebuildType DEF BootServes, TypeOK
  <2>7. CASE BootRefuses
    BY <2>7 DEF BootRefuses, TypeOK, memory
  <2>8. CASE UNCHANGED vars
    BY <2>8 DEF vars, TypeOK
  <2> QED
    BY <2>1, <2>2, <2>3, <2>4, <2>5, <2>6, <2>7, <2>8 DEF Next
<1> QED
  BY <1>1, <1>2, PTL DEF Spec

-----------------------------------------------------------------------------
(* The serving state, under every fault *)

Monotone(recs) ==
  \A i, j \in 1..Len(recs) : i < j => recs[i].time <= recs[j].time

\* StampsNeverRegress speaks of the records served.  It needs the same of
\* everything the file would yield to the next boot, uncommitted frames
\* included, and the floor to be above all of it.
DiskStamps ==
  /\ Monotone(Readable(disk))
  /\ proc = "up" => \A t \in TimesOf(Readable(disk)) : t <= floor

ServingInv ==
  /\ TypeOK
  /\ ServingStateCoherent
  /\ ServedChainsVerify
  /\ Monotone(records)
  /\ DiskStamps

LEMMA StampsAppend ==
  ASSUME NEW recs \in Seq(Records), NEW rec \in Records, NEW top \in Nat,
         Monotone(recs), \A t \in TimesOf(recs) : t <= top, rec.time >= top
  PROVE  /\ Monotone(Append(recs, rec))
         /\ \A t \in TimesOf(Append(recs, rec)) : t <= rec.time
<1> DEFINE new == Append(recs, rec)
<1>1. \A i, j \in 1..Len(recs) : i < j => recs[i].time <= recs[j].time
  BY DEF Monotone
<1>2. \A i \in 1..Len(recs) : recs[i].time <= top
  BY DEF TimesOf
<1>3. \A r \in Records : r.time \in Nat
  BY RecordFields
<1>4. /\ \A i, j \in 1..Len(new) : i < j => new[i].time <= new[j].time
      /\ \A i \in 1..Len(new) : new[i].time <= rec.time
  BY <1>1, <1>2, <1>3, StampsOfAppend
<1> QED
  BY <1>4 DEF Monotone, TimesOf

LEMMA KeysAndLeavesAppend ==
  ASSUME NEW recs \in Seq(Records), NEW rec \in Records
  PROVE  /\ KeysOf(Append(recs, rec)) = KeysOf(recs) \cup {<<rec.source, rec.seq>>}
         /\ LeavesOf(Append(recs, rec)) = Append(LeavesOf(recs), rec.hash)
BY RecordFields, KeysOfAppend, LeavesOfAppend

LEMMA ForgetCoherent ==
  ASSUME Forget
  PROVE  ServingStateCoherent' /\ ServedChainsVerify' /\ Monotone(records')
<1>1. records' = << >> /\ Len(records') = 0 /\ 1..0 = {}
  BY DEF Forget
<1>2. \A n, s : PositionsOf(records', 0, s) = {}
  BY DEF PositionsOf
<1>3. TipsOf(records', Genesis(Sources)) = Genesis(Sources)
  BY <1>1, <1>2 DEF TipsOf, TipAt, Genesis
<1>4. KeysOf(records') = {} /\ LeavesOf(records') = << >> /\ TimesOf(records') = {}
  BY <1>1 DEF KeysOf, LeavesOf, TimesOf
<1> QED
  BY <1>1, <1>3, <1>4
     DEF Forget, ServingStateCoherent, ServedChainsVerify, VerifyChains, Monotone

LEMMA RebuildCoherent ==
  ASSUME NEW recs \in Seq(Records), Rebuild(recs),
         VerifyChains(recs, Genesis(Sources)), Monotone(recs)
  PROVE  ServingStateCoherent' /\ ServedChainsVerify' /\ Monotone(records')
BY FloorOfRecords DEF Rebuild, ServingStateCoherent, ServedChainsVerify

\* What a frame of the record being admitted does to the stamps in the file.
LEMMA DiskStampsAppend ==
  ASSUME TypeOK, DiskStamps, proc = "up", NEW now \in Times, NEW f \in Frames,
         f.rec.time = Stamp(now), Stamp(now) \in Nat, Stamp(now) >= floor
  PROVE  /\ Monotone(Readable(Append(disk, f)))
         /\ \A t \in TimesOf(Readable(Append(disk, f))) : t <= Stamp(now)
<1>1. Readable(disk) \in Seq(Records) /\ f.rec \in Records /\ floor \in Nat
  BY ReadableProperties DEF TypeOK, Frames
<1>2. Readable(Append(disk, f)) \in {Readable(disk), Append(Readable(disk), f.rec)}
  BY ReadableAppend DEF TypeOK
<1>3. CASE Readable(Append(disk, f)) = Readable(disk)
  <2>1. \A t \in TimesOf(Readable(disk)) : t \in Nat /\ t <= floor
    <3>1. \A i \in 1..Len(Readable(disk)) : Readable(disk)[i] \in Records
      BY <1>1, ElementOfSeq
    <3> QED
      BY <3>1 DEF DiskStamps, TimesOf, Records
  <2> QED
    BY <1>1, <1>3, <2>1 DEF DiskStamps
<1>4. CASE Readable(Append(disk, f)) = Append(Readable(disk), f.rec)
  BY <1>1, <1>4, StampsAppend DEF DiskStamps
<1> QED
  BY <1>2, <1>3, <1>4

\* A committed admission moves the four views together, and its record links.
LEMMA CommitCoherent ==
  ASSUME ServingInv, NEW s \in Sources, NEW e \in Events, NEW now \in Times,
         ~Regressed(s, e), Commit(NextRecord(s, e, now)), floor' = Stamp(now)
  PROVE  ServingStateCoherent' /\ ServedChainsVerify' /\ Monotone(records')
<1> DEFINE rec == NextRecord(s, e, now)
<1>1. /\ Stamp(now) \in Nat /\ Stamp(now) >= floor /\ rec \in Records
      /\ rec.source = s /\ rec.time = Stamp(now)
  BY NextRecordType DEF ServingInv
<1>2. records \in Seq(Records) /\ floor \in Nat /\ TypeOK
  BY DEF ServingInv, TypeOK
<1>3. Extends(tip[s], rec)
  BY NextRecordExtends DEF ServingInv
<1>4. tip = TipsOf(records, Genesis(Sources)) /\ seen = KeysOf(records)
      /\ leaves = LeavesOf(records) /\ \A t \in TimesOf(records) : t <= floor
  BY DEF ServingInv, ServingStateCoherent
<1>5. records' = Append(records, rec) /\ seen' = seen \cup {<<rec.source, rec.seq>>}
      /\ leaves' = Append(leaves, rec.hash) /\ tip' = [tip EXCEPT ![rec.source] = TipOf(rec)]
  BY DEF Commit
<1> HIDE DEF rec
<1>6. tip' = TipsOf(records', Genesis(Sources))
  <2>1. TipsOf(records', Genesis(Sources)) =
          [x \in DOMAIN Genesis(Sources) |->
             IF x = rec.source THEN TipOf(rec) ELSE TipsOf(records, Genesis(Sources))[x]]
    BY <1>1, <1>2, <1>5, TipsOfAppend
  <2>2. DOMAIN Genesis(Sources) = Sources
    BY DEF Genesis
  <2>3. DOMAIN tip = Sources
    BY <1>2 DEF TypeOK
  <2>4. tip' = [x \in Sources |-> IF x = rec.source THEN TipOf(rec) ELSE tip[x]]
    BY <1>1, <1>5, <2>3
  <2> QED
    BY <1>4, <2>1, <2>2, <2>4
<1>7. seen' = KeysOf(records') /\ leaves' = LeavesOf(records')
  BY <1>1, <1>2, <1>4, <1>5, KeysAndLeavesAppend
<1>8. VerifyChains(records', Genesis(Sources))
  <2>1. TipAt(records, Len(records), s, Genesis(Sources)) = tip[s]
    BY <1>4 DEF TipsOf, Genesis
  <2>2. VerifyChains(records, Genesis(Sources))
    BY DEF ServingInv, ServedChainsVerify
  <2> QED
    BY <1>1, <1>2, <1>3, <1>5, <2>1, <2>2, VerifyChainsAppend
<1>9. Monotone(records') /\ \A t \in TimesOf(records') : t <= Stamp(now)
  BY <1>1, <1>2, <1>4, <1>5, StampsAppend DEF ServingInv
<1> QED
  BY <1>6, <1>7, <1>8, <1>9 DEF ServingStateCoherent, ServedChainsVerify

LEMMA ServingStep == ServingInv /\ TypeOK' /\ [Next]_vars => ServingInv'
<1> SUFFICES ASSUME ServingInv, TypeOK', [Next]_vars
             PROVE  ServingStateCoherent' /\ ServedChainsVerify' /\ Monotone(records')
                    /\ DiskStamps'
  BY DEF ServingInv
<1>0. TypeOK /\ DiskStamps /\ Monotone(records) /\ floor \in Nat
  BY DEF ServingInv, TypeOK
\* A step that leaves the memory views alone and may raise the floor.
<1>a. ASSUME UNCHANGED <<tip, seen, records, leaves>>, floor' \in Nat, floor' >= floor
      PROVE  ServingStateCoherent' /\ ServedChainsVerify' /\ Monotone(records')
  <2>1. \A t \in TimesOf(records) : t \in Nat
    <3>1. \A i \in 1..Len(records) : records[i] \in Records
      BY <1>0, ElementOfSeq DEF TypeOK
    <3> QED
      BY <3>1 DEF TimesOf, Records
  <2>2. \A t \in TimesOf(records) : t <= floor'
    BY <1>0, <1>a, <2>1 DEF ServingInv, ServingStateCoherent
  <2> QED
    BY <1>a, <2>2 DEF ServingInv, ServingStateCoherent, ServedChainsVerify, Monotone
<1>1. ASSUME NEW s \in Sources, NEW e \in Events, AdmitDuplicate(s, e)
      PROVE  ServingStateCoherent' /\ ServedChainsVerify' /\ Monotone(records') /\ DiskStamps'
  <2>1. UNCHANGED <<tip, seen, records, leaves, floor, disk, proc>>
    BY <1>1 DEF AdmitDuplicate, memory
  <2> QED
    BY <1>0, <1>a, <2>1 DEF DiskStamps
<1>2. ASSUME NEW s \in Sources, NEW e \in Events, NEW now \in Times, Admit(s, e, now)
      PROVE  ServingStateCoherent' /\ ServedChainsVerify' /\ Monotone(records') /\ DiskStamps'
  <2> DEFINE rec == NextRecord(s, e, now)
  <2>1. /\ Stamp(now) \in Nat /\ Stamp(now) >= floor /\ rec \in Records
        /\ rec.time = Stamp(now)
    BY <1>0, NextRecordType
  <2>2. /\ Whole(rec) \in Frames /\ Whole(rec).rec = rec
        /\ \A n \in 1..MaxLack : Torn(rec, n) \in Frames /\ Torn(rec, n).rec = rec
    BY <2>1, FrameType, StoreAssumption DEF Whole, Torn
  <2>3. proc = "up" /\ ~Regressed(s, e)
    BY <1>2 DEF Admit, AdmitCommitted, AdmitRefused, AdmitSyncFault, AdmitWriteFault,
                CrashBeforeAck, CrashBeforeSync, CrashMidWrite, Writes, ReachesAppend
  \* What the file yields afterwards, whichever frame was appended.
  <2>4. ASSUME NEW f \in Frames, f.rec = rec, disk' = Append(disk, f),
               proc' = "up" => floor' = Stamp(now)
        PROVE  DiskStamps'
    BY <1>0, <2>1, <2>3, <2>4, DiskStampsAppend DEF DiskStamps
  <2>5. ASSUME disk' = disk, floor' = Stamp(now), proc' = proc
        PROVE  DiskStamps'
    <3>1. \A t \in TimesOf(Readable(disk)) : t \in Nat /\ t <= floor
      <4>1. Readable(disk) \in Seq(Records)
        BY <1>0, ReadableProperties DEF TypeOK
      <4>2. \A i \in 1..Len(Readable(disk)) : Readable(disk)[i] \in Records
        BY <4>1, ElementOfSeq
      <4> QED
        BY <1>0, <2>3, <4>2 DEF DiskStamps, TimesOf, Records
    <3>2. \A t \in TimesOf(Readable(disk)) : t <= floor'
      BY <1>0, <2>1, <2>5, <3>1
    <3> QED
      BY <1>0, <2>5, <3>2 DEF DiskStamps
  <2> HIDE DEF rec
  <2>6. CASE AdmitCommitted(s, e, now)
    <3>1. disk' = Append(disk, Whole(rec)) /\ Commit(NextRecord(s, e, now))
          /\ floor' = Stamp(now)
      BY <2>6 DEF AdmitCommitted, rec
    <3> QED
      BY <2>2, <2>3, <2>4, <3>1, CommitCoherent
  <2>7. CASE AdmitRefused(s, e, now)
    BY <1>a, <2>1, <2>5, <2>7 DEF AdmitRefused
  <2>8. CASE AdmitSyncFault(s, e, now)
    <3>1. disk' = Append(disk, Whole(rec)) /\ floor' = Stamp(now)
          /\ UNCHANGED <<tip, seen, records, leaves>>
      BY <2>8 DEF AdmitSyncFault, rec
    <3> QED
      BY <1>a, <2>1, <2>2, <2>4, <3>1
  <2>9. CASE AdmitWriteFault(s, e, now)
    <3>1. /\ disk' = disk \/ \E n \in 1..MaxLack : disk' = Append(disk, Torn(rec, n))
          /\ floor' = Stamp(now) /\ proc' = proc
          /\ UNCHANGED <<tip, seen, records, leaves>>
      BY <2>9 DEF AdmitWriteFault, rec
    <3> QED
      BY <1>a, <2>1, <2>2, <2>4, <2>5, <3>1
  <2>10. CASE CrashBeforeAck(s, e, now)
    <3>1. disk' = Append(disk, Whole(rec)) /\ Forget /\ proc' # "up"
      BY <2>10 DEF CrashBeforeAck, rec, Forget
    <3> QED
      BY <2>2, <2>4, <3>1, ForgetCoherent
  <2>11. CASE CrashBeforeSync(s, e, now)
    <3>1. disk' = Append(disk, Whole(rec)) /\ Forget /\ proc' # "up"
      BY <2>11 DEF CrashBeforeSync, rec, Forget
    <3> QED
      BY <2>2, <2>4, <3>1, ForgetCoherent
  <2>12. CASE CrashMidWrite(s, e, now)
    <3>1. (\E n \in 1..MaxLack : disk' = Append(disk, Torn(rec, n)))
          /\ Forget /\ proc' # "up"
      BY <2>12 DEF CrashMidWrite, rec, Forget
    <3> QED
      BY <2>2, <2>4, <3>1, ForgetCoherent
  <2> QED
    BY <1>2, <2>6, <2>7, <2>8, <2>9, <2>10, <2>11, <2>12 DEF Admit
<1>3. CASE Close
  <2>1. UNCHANGED <<tip, seen, records, leaves, floor, disk, proc>>
    BY <1>3 DEF Close, memory
  <2> QED
    BY <1>0, <1>a, <2>1 DEF DiskStamps
<1>4. CASE Crash
  <2>1. Forget /\ disk' = disk /\ proc' # "up"
    BY <1>4 DEF Crash, Forget
  <2> QED
    BY <1>0, <2>1, ForgetCoherent DEF DiskStamps
<1>5. CASE PowerLoss
  <2>1. PICK keep \in synced..Len(disk) : disk' = SubSeq(disk, 1, keep)
    BY <1>5 DEF PowerLoss
  <2>2. keep \in 0..Len(disk)
    BY <1>0, LenProperties DEF TypeOK
  <2>3. /\ Len(Readable(disk')) <= Len(Readable(disk))
        /\ \A i \in 1..Len(Readable(disk')) : Readable(disk')[i] = Readable(disk)[i]
    BY <1>0, <2>1, <2>2, ReadableOfPrefix DEF TypeOK
  <2>4. Len(Readable(disk)) \in Nat /\ Len(Readable(disk')) \in Nat
    <3>1. disk' \in Seq(Frames)
      BY DEF TypeOK
    <3> QED
      BY <1>0, <3>1, ReadableProperties, LenProperties DEF TypeOK
  <2>5. Monotone(Readable(disk'))
    BY <1>0, <2>3, <2>4 DEF DiskStamps, Monotone
  <2>6. Forget /\ proc' # "up"
    BY <1>5 DEF PowerLoss, Forget
  <2> QED
    BY <2>5, <2>6, ForgetCoherent DEF DiskStamps
<1>6. CASE BootServes
  <2>1. Readable(disk) \in Seq(Records)
    BY <1>0, ReadableProperties DEF TypeOK
  <2>2. /\ Rebuild(Readable(disk)) /\ disk' = disk
        /\ VerifyChains(Readable(disk), Genesis(Sources))
    BY <1>6 DEF BootServes, BootAccepts
  <2>3. floor' = FloorOf(Readable(disk), 0)
    BY <2>2 DEF Rebuild
  <2> QED
    BY <1>0, <2>1, <2>2, <2>3, RebuildCoherent, FloorOfRecords DEF DiskStamps
<1>7. CASE BootRefuses
  <2>1. UNCHANGED <<tip, seen, records, leaves, floor, disk>> /\ proc' # "up"
    BY <1>7 DEF BootRefuses, memory
  <2> QED
    BY <1>0, <1>a, <2>1 DEF DiskStamps
<1>8. CASE UNCHANGED vars
  <2>1. UNCHANGED <<tip, seen, records, leaves, floor, disk, proc>>
    BY <1>8 DEF vars
  <2> QED
    BY <1>0, <1>a, <2>1 DEF DiskStamps
<1> QED
  BY <1>1, <1>2, <1>3, <1>4, <1>5, <1>6, <1>7, <1>8 DEF Next

LEMMA ServingInit == Init => ServingInv
<1> SUFFICES ASSUME Init PROVE ServingInv
  OBVIOUS
<1>1. TypeOK
  BY TypeInit
<1>2. disk = << >> /\ records = << >> /\ 1..0 = {} /\ TornFrames(disk) = {}
  BY DEF Init, TornFrames
<1>3. Readable(disk) = << >>
  BY <1>2 DEF Readable
<1>4. \A n, s : PositionsOf(records, 0, s) = {}
  BY <1>2 DEF PositionsOf
<1>5. TipsOf(records, Genesis(Sources)) = Genesis(Sources)
  BY <1>2, <1>4 DEF TipsOf, TipAt, Genesis
<1>6. KeysOf(records) = {} /\ LeavesOf(records) = << >> /\ TimesOf(records) = {}
  BY <1>2 DEF KeysOf, LeavesOf, TimesOf
<1> QED
  BY <1>1, <1>2, <1>3, <1>5, <1>6
     DEF Init, ServingInv, ServingStateCoherent, ServedChainsVerify, VerifyChains,
         Monotone, DiskStamps, TimesOf

(***************************************************************************)
(* Whatever fails and whenever it fails, for every set of sources, clock   *)
(* readings and environments and for a file of any length: the in-memory   *)
(* views of store.go describe the committed records, what is served passes *)
(* the verifier, and the stamps never go back.  ServingInv is inductive    *)
(* where the three alone are not: recovery rebuilds from the file, so the  *)
(* stamps in the file and their relation to the floor are part of it.      *)
(***************************************************************************)
THEOREM ServingCorrect == Spec => []ServingConsistent
<1>1. Init => ServingInv
  BY ServingInit
<1>2. TypeOK' /\ ServingInv /\ [Next]_vars => ServingInv'
  BY ServingStep
<1>3. ServingInv => ServingConsistent
  BY DEF ServingInv, Monotone, StampsNeverRegress, ServingConsistent
<1>4. Spec => []TypeOK
  BY TypeCorrect
<1> QED
  BY <1>1, <1>2, <1>3, <1>4, PTL DEF Spec

-----------------------------------------------------------------------------
(***************************************************************************)
(* The file, the acknowledgements and the abstract log: what the store     *)
(* keeps on disk.  The theorems above speak of the memory only; those that *)
(* follow rest on their invariant.                                         *)
(***************************************************************************)


(* Under every fault: memory is not ahead of the file *)

\* Where in the file the frame of a served record is.
OnDisk(recs, d) ==
  /\ \A i \in 1..Len(recs) : \E k \in 1..Len(d) : d[k] = Whole(recs[i])
  /\ \A i \in 1..Len(recs) : \A j \in 1..i-1 :
        \E k, m \in 1..Len(d) : k < m /\ d[k] = Whole(recs[j]) /\ d[m] = Whole(recs[i])

LEMMA OnDiskIsServed ==
  ASSUME NEW recs \in Seq(Records), NEW d \in Seq(Frames)
  PROVE  OnDisk(recs, d) <=>
           \A i \in 1..Len(recs) :
              /\ Whole(recs[i]) \in Range(d)
              /\ \A j \in 1..i-1 :
                    \E k, m \in 1..Len(d) :
                       k < m /\ d[k] = Whole(recs[j]) /\ d[m] = Whole(recs[i])
<1>1. DOMAIN d = 1..Len(d)
  BY LenProperties
<1>2. \A i \in 1..Len(recs) :
         Whole(recs[i]) \in Range(d) <=> \E k \in 1..Len(d) : d[k] = Whole(recs[i])
  BY <1>1, Zenon DEF Range
<1> QED
  BY <1>2, Zenon DEF OnDisk

\* A frame more in the file takes nothing away.
LEMMA OnDiskGrows ==
  ASSUME NEW recs \in Seq(Records), NEW d \in Seq(Frames), NEW f \in Frames, OnDisk(recs, d)
  PROVE  OnDisk(recs, Append(d, f))
<1> DEFINE new == Append(d, f)
<1>1. /\ Len(d) \in Nat /\ Len(new) = Len(d) + 1
      /\ \A k \in 1..Len(d) : new[k] = d[k]
  BY LenProperties, AppendProperties
<1> HIDE DEF new
<1>2. \A k \in 1..Len(d) : k \in 1..Len(new)
  BY <1>1
<1>3. \A i \in 1..Len(recs) : \E k \in 1..Len(new) : new[k] = Whole(recs[i])
  BY <1>1, <1>2, ZenonT(60) DEF OnDisk
<1>4. ASSUME NEW i \in 1..Len(recs), NEW j \in 1..i-1
      PROVE  \E k, m \in 1..Len(new) : k < m /\ new[k] = Whole(recs[j]) /\ new[m] = Whole(recs[i])
  <2>1. PICK k \in 1..Len(d), m \in 1..Len(d) :
               k < m /\ d[k] = Whole(recs[j]) /\ d[m] = Whole(recs[i])
    BY Zenon DEF OnDisk
  <2> QED
    BY <1>1, <1>2, <2>1
<1>5. OnDisk(recs, new)
  BY <1>3, <1>4 DEF OnDisk
<1> QED
  BY <1>5 DEF new

\* The frame of a committed record comes behind those of all earlier ones.
LEMMA OnDiskCommit ==
  ASSUME NEW recs \in Seq(Records), NEW d \in Seq(Frames), NEW rec \in Records,
         OnDisk(recs, d)
  PROVE  OnDisk(Append(recs, rec), Append(d, Whole(rec)))
<1> DEFINE new == Append(d, Whole(rec))
           all == Append(recs, rec)
<1>1. Whole(rec) \in Frames
  BY FrameType
<1>2. /\ Len(d) \in Nat /\ Len(new) = Len(d) + 1 /\ new[Len(d) + 1] = Whole(rec)
      /\ \A k \in 1..Len(d) : new[k] = d[k]
  BY <1>1, LenProperties, AppendProperties
<1>3. /\ Len(recs) \in Nat /\ Len(all) = Len(recs) + 1 /\ all[Len(recs) + 1] = rec
      /\ \A k \in 1..Len(recs) : all[k] = recs[k]
  BY LenProperties, AppendProperties
<1>4. OnDisk(recs, new)
  BY <1>1, OnDiskGrows
<1> HIDE DEF new, all
<1>5. \A i \in 1..Len(all) : \E k \in 1..Len(new) : new[k] = Whole(all[i])
  <2> TAKE i \in 1..Len(all)
  <2>1. CASE i = Len(recs) + 1
    <3>1. Len(d) + 1 \in 1..Len(new) /\ new[Len(d) + 1] = Whole(all[i])
      BY <1>2, <1>3, <2>1
    <3> QED
      BY <3>1
  <2>2. CASE i # Len(recs) + 1
    <3>1. i \in 1..Len(recs)
      BY <1>3, <2>2
    <3> QED
      BY <1>3, <1>4, <3>1 DEF OnDisk
  <2> QED
    BY <2>1, <2>2
<1>6. ASSUME NEW i \in 1..Len(all), NEW j \in 1..i-1
      PROVE  \E k, m \in 1..Len(new) : k < m /\ new[k] = Whole(all[j]) /\ new[m] = Whole(all[i])
  <2>1. j \in 1..Len(recs) /\ all[j] = recs[j]
    BY <1>3, <1>6
  <2>2. CASE i = Len(recs) + 1
    <3>1. PICK k \in 1..Len(d) : d[k] = Whole(recs[j])
      BY <2>1 DEF OnDisk
    <3>2. /\ k \in 1..Len(new) /\ Len(d) + 1 \in 1..Len(new) /\ k < Len(d) + 1
          /\ new[k] = Whole(all[j]) /\ new[Len(d) + 1] = Whole(all[i])
      BY <1>2, <1>3, <2>1, <2>2, <3>1
    <3> QED
      BY <3>2
  <2>3. CASE i # Len(recs) + 1
    <3>1. i \in 1..Len(recs) /\ all[i] = recs[i]
      BY <1>3, <2>3
    <3>2. PICK k \in 1..Len(new), m \in 1..Len(new) :
                 k < m /\ new[k] = Whole(recs[j]) /\ new[m] = Whole(recs[i])
      BY <1>4, <3>1, Zenon DEF OnDisk
    <3> QED
      BY <2>1, <3>1, <3>2
  <2> QED
    BY <2>2, <2>3
<1>7. OnDisk(all, new)
  BY <1>5, <1>6 DEF OnDisk
<1> QED
  BY <1>7 DEF all, new

\* A boot serves what it reads, and it reads whole frames in file order.
LEMMA OnDiskRead ==
  ASSUME NEW d \in Seq(Frames)
  PROVE  OnDisk(Readable(d), d)
<1> DEFINE c == ReadCount(d)
           recs == Readable(d)
<1>1. c \in 0..Len(d) /\ Len(d) \in Nat /\ \A i \in 1..c : d[i].lacks = 0
  BY ReadCountProperties, LenProperties
<1>2. Len(recs) = c /\ recs = [i \in 1..c |-> d[i].rec]
  BY ReadableProperties
<1> HIDE DEF c
<1>3. \A i \in 1..c : i \in 1..Len(d) /\ d[i] = Whole(recs[i])
  <2> TAKE i \in 1..c
  <2>1. i \in 1..Len(d) /\ d[i] \in Frames
    BY <1>1, ElementOfSeq
  <2>2. d[i] = [rec |-> d[i].rec, lacks |-> d[i].lacks]
    BY <2>1 DEF Frames
  <2>3. d[i].lacks = 0 /\ recs[i] = d[i].rec
    BY <1>1, <1>2
  <2> QED
    BY <2>1, <2>2, <2>3 DEF Whole
<1> HIDE DEF recs
<1>4. \A i \in 1..Len(recs) : \A j \in 1..i-1 : j \in 1..c /\ j < i
  BY <1>1, <1>2
<1>5. OnDisk(recs, d)
  BY <1>2, <1>3, <1>4 DEF OnDisk
<1> QED
  BY <1>5 DEF recs
\* What the serving invariant says of the file, faults or not.
LEMMA OnDiskStep ==
  ASSUME ServingInv, TypeOK', OnDisk(records, disk), [Next]_vars
  PROVE  OnDisk(records, disk)'
<1>0. records \in Seq(Records) /\ disk \in Seq(Frames) /\ TypeOK
  BY DEF ServingInv, TypeOK
<1>a. ASSUME UNCHANGED <<records, disk>> PROVE OnDisk(records, disk)'
  BY <1>a DEF OnDisk
<1>b. ASSUME NEW f \in Frames, disk' = Append(disk, f), records' = records
      PROVE  OnDisk(records, disk)'
  BY <1>0, <1>b, OnDiskGrows, ZenonT(60) DEF OnDisk
<1>c. ASSUME Forget PROVE OnDisk(records, disk)'
  <2>1. records' = << >> /\ Len(records') = 0 /\ 1..0 = {}
    BY <1>c DEF Forget
  <2> QED
    BY <2>1 DEF OnDisk
<1>1. ASSUME NEW s \in Sources, NEW e \in Events, AdmitDuplicate(s, e)
      PROVE  OnDisk(records, disk)'
  BY <1>1, <1>a DEF AdmitDuplicate, memory
<1>2. ASSUME NEW s \in Sources, NEW e \in Events, NEW now \in Times, Admit(s, e, now)
      PROVE  OnDisk(records, disk)'
  <2> DEFINE rec == NextRecord(s, e, now)
  <2>1. /\ rec \in Records /\ Whole(rec) \in Frames
        /\ \A n \in 1..MaxLack : Torn(rec, n) \in Frames
    BY <1>0, NextRecordType, FrameType, StoreAssumption
  <2>2. CASE AdmitCommitted(s, e, now)
    <3>1. disk' = Append(disk, Whole(rec)) /\ records' = Append(records, rec)
      BY <2>2 DEF AdmitCommitted, Commit
    <3>2. OnDisk(Append(records, rec), Append(disk, Whole(rec)))
      <4> HIDE DEF rec
      <4> QED
        BY <1>0, <2>1, OnDiskCommit
    <3> HIDE DEF rec
    <3> QED
      BY <3>1, <3>2, ZenonT(60) DEF OnDisk
  <2>3. CASE AdmitRefused(s, e, now)
    BY <1>a, <2>3 DEF AdmitRefused
  <2>4. CASE AdmitSyncFault(s, e, now)
    BY <1>b, <2>1, <2>4 DEF AdmitSyncFault
  <2>5. CASE AdmitWriteFault(s, e, now)
    BY <1>a, <1>b, <2>1, <2>5 DEF AdmitWriteFault
  <2>6. CASE CrashBeforeAck(s, e, now) \/ CrashBeforeSync(s, e, now) \/ CrashMidWrite(s, e, now)
    BY <1>c, <2>6 DEF CrashBeforeAck, CrashBeforeSync, CrashMidWrite
  <2> QED
    BY <1>2, <2>2, <2>3, <2>4, <2>5, <2>6 DEF Admit
<1>3. CASE Close
  BY <1>3, <1>a DEF Close, memory
<1>4. CASE Crash \/ PowerLoss
  BY <1>4, <1>c DEF Crash, PowerLoss
<1>5. CASE BootServes
  <2>1. records' = Readable(disk) /\ disk' = disk
    BY <1>5 DEF BootServes, Rebuild
  <2>2. OnDisk(Readable(disk), disk)
    BY <1>0, OnDiskRead
  <2> QED
    BY <2>1, <2>2, ZenonT(60) DEF OnDisk
<1>6. CASE BootRefuses
  BY <1>6, <1>a DEF BootRefuses, memory
<1>7. CASE UNCHANGED vars
  BY <1>7, <1>a DEF vars
<1> QED
  BY <1>1, <1>2, <1>3, <1>4, <1>5, <1>6, <1>7 DEF Next

-----------------------------------------------------------------------------
(* Without half writes: the file is the log *)

\* What holds besides the serving invariant where no error and no crash leaves
\* half a write: the file is whole and verifies, the daemon serves exactly
\* what is in it, and every acknowledged key is in it.  Without frames that
\* wait for an fsync nothing of it can be lost.
LogInv ==
  NoHalfWrites =>
    /\ TornFrames(disk) = {}
    /\ VerifyChains(Readable(disk), Genesis(Sources))
    /\ proc = "up" => Readable(disk) = records
    /\ proc # "refused"
    /\ "unsyncedFrame" \notin faults => synced = Len(disk)
    /\ Sound => acked \subseteq KeysOf(Readable(disk))

LEMMA LogInit == Init => LogInv
<1> SUFFICES ASSUME Init PROVE LogInv
  OBVIOUS
<1>1. disk = << >> /\ records = << >> /\ 1..0 = {} /\ Len(disk) = 0 /\ TornFrames(disk) = {}
  BY DEF Init, TornFrames
<1>2. Readable(disk) = << >>
  BY <1>1 DEF Readable
<1> QED
  BY <1>1, <1>2 DEF Init, LogInv, VerifyChains

\* A whole frame appended by the serving daemon: the log is longer by the
\* record, which extends the tip of its source.
LEMMA LogAppend ==
  ASSUME ServingInv, LogInv, NoHalfWrites, proc = "up",
         NEW s \in Sources, NEW e \in Events, NEW now \in Times, ~Regressed(s, e)
  PROVE  LET rec == NextRecord(s, e, now)
             new == Append(disk, Whole(rec))
         IN  /\ TornFrames(new) = {}
             /\ Readable(new) = Append(Readable(disk), rec)
             /\ Extends(TipAt(Readable(disk), Len(Readable(disk)), s, Genesis(Sources)), rec)
             /\ VerifyChains(Readable(new), Genesis(Sources))
             /\ KeysOf(Readable(new)) = KeysOf(Readable(disk)) \cup {Key(s, e)}
<1> DEFINE rec == NextRecord(s, e, now)
<1>1. TypeOK /\ disk \in Seq(Frames) /\ Readable(disk) \in Seq(Records)
  BY ReadableProperties DEF ServingInv, TypeOK
<1>2. rec \in Records /\ rec.source = s /\ rec.seq = e.seq
  BY <1>1, NextRecordType
<1>3. Whole(rec) \in Frames /\ Whole(rec).lacks = 0 /\ Whole(rec).rec = rec
  BY <1>2, FrameType DEF Whole
<1>4. Extends(tip[s], rec)
  BY <1>1, NextRecordExtends
<1>5. TipAt(records, Len(records), s, Genesis(Sources)) = tip[s]
  BY DEF ServingInv, ServingStateCoherent, TipsOf, Genesis
<1>6. Readable(disk) = records /\ TornFrames(disk) = {}
      /\ VerifyChains(Readable(disk), Genesis(Sources))
  BY DEF LogInv
<1> HIDE DEF rec
<1>7. TornFrames(Append(disk, Whole(rec))) = {}
      /\ Readable(Append(disk, Whole(rec))) = Append(Readable(disk), rec)
  BY <1>1, <1>3, <1>6, ReadableAppend
<1>8. VerifyChains(Append(Readable(disk), rec), Genesis(Sources))
  BY <1>1, <1>2, <1>4, <1>5, <1>6, VerifyChainsAppend
<1>9. KeysOf(Append(Readable(disk), rec)) = KeysOf(Readable(disk)) \cup {Key(s, e)}
  BY <1>1, <1>2, KeysAndLeavesAppend DEF Key
<1> QED
  BY <1>4, <1>5, <1>6, <1>7, <1>8, <1>9 DEF rec

LEMMA LogStep ==
  ASSUME ServingInv, TypeOK', LogInv, [Next]_vars
  PROVE  LogInv'
<1> SUFFICES ASSUME NoHalfWrites'
             PROVE  /\ TornFrames(disk') = {}
                    /\ VerifyChains(Readable(disk'), Genesis(Sources))
                    /\ proc' = "up" => Readable(disk') = records'
                    /\ proc' # "refused"
                    /\ "unsyncedFrame" \notin faults' => synced' = Len(disk')
                    /\ Sound' => acked' \subseteq KeysOf(Readable(disk'))
  BY DEF LogInv
<1> DEFINE Goal == /\ TornFrames(disk') = {}
                   /\ VerifyChains(Readable(disk'), Genesis(Sources))
                   /\ proc' = "up" => Readable(disk') = records'
                   /\ proc' # "refused"
                   /\ "unsyncedFrame" \notin faults' => synced' = Len(disk')
                   /\ Sound' => acked' \subseteq KeysOf(Readable(disk'))
<1>0. faults' = faults
  BY DEF Next, Admit, AdmitDuplicate, AdmitCommitted, AdmitRefused, AdmitSyncFault,
         AdmitWriteFault, CrashBeforeAck, CrashBeforeSync, CrashMidWrite, Close, Crash,
         PowerLoss, BootServes, BootRefuses, vars
<1>1. NoHalfWrites /\ (Sound' <=> Sound)
      /\ "tornFrame" \notin faults /\ "syncFault" \notin faults /\ "writeFault" \notin faults
  BY <1>0 DEF NoHalfWrites, Sound
<1>2. /\ TornFrames(disk) = {}
      /\ VerifyChains(Readable(disk), Genesis(Sources))
      /\ proc = "up" => Readable(disk) = records
      /\ proc # "refused"
      /\ "unsyncedFrame" \notin faults => synced = Len(disk)
      /\ Sound => acked \subseteq KeysOf(Readable(disk))
  BY <1>1 DEF LogInv
<1>3. disk \in Seq(Frames) /\ synced \in 0..Len(disk) /\ Len(disk) \in Nat
  BY LenProperties DEF ServingInv, TypeOK
\* A step that leaves the file alone.
<1>a. ASSUME UNCHANGED <<disk, synced>>, proc' # "refused",
             proc' = "up" => records' = Readable(disk),
             Sound => acked' \subseteq KeysOf(Readable(disk))
      PROVE  Goal
  BY <1>0, <1>1, <1>2, <1>a
<1>4. ASSUME NEW s \in Sources, NEW e \in Events, AdmitDuplicate(s, e)
      PROVE  Goal
  <2>1. /\ proc = "up" /\ Key(s, e) \in seen /\ acked' = acked \cup {Key(s, e)}
        /\ UNCHANGED <<disk, synced, proc, records>>
    BY <1>4 DEF AdmitDuplicate, Duplicate, memory
  <2>2. Key(s, e) \in KeysOf(Readable(disk))
    BY <1>2, <2>1 DEF ServingInv, ServingStateCoherent
  <2> QED
    BY <1>a, <1>2, <2>1, <2>2
<1>5. ASSUME NEW s \in Sources, NEW e \in Events, NEW now \in Times, Admit(s, e, now)
      PROVE  Goal
  <2> DEFINE rec == NextRecord(s, e, now)
  <2>1. proc = "up" /\ ~Regressed(s, e)
    BY <1>5 DEF Admit, AdmitCommitted, AdmitRefused, AdmitSyncFault, AdmitWriteFault,
                CrashBeforeAck, CrashBeforeSync, CrashMidWrite, Writes, ReachesAppend
  <2>2. LET new == Append(disk, Whole(rec))
        IN  /\ TornFrames(new) = {}
            /\ Readable(new) = Append(Readable(disk), rec)
            /\ VerifyChains(Readable(new), Genesis(Sources))
            /\ KeysOf(Readable(new)) = KeysOf(Readable(disk)) \cup {Key(s, e)}
    BY <1>1, <2>1, LogAppend
  <2> HIDE DEF rec
  <2>3. ASSUME disk' = Append(disk, Whole(rec)), proc' # "refused",
               proc' = "up" => records' = Append(Readable(disk), rec),
               "unsyncedFrame" \notin faults => synced' = Len(disk'),
               acked' \in {acked, acked \cup {Key(s, e)}}
        PROVE  Goal
    BY <1>0, <1>1, <1>2, <2>2, <2>3
  <2>4. CASE AdmitCommitted(s, e, now)
    <3>1. /\ disk' = Append(disk, Whole(rec)) /\ records' = Append(records, rec)
          /\ synced' = Len(disk') /\ acked' = acked \cup {Key(s, e)} /\ proc' = proc
      BY <2>4 DEF AdmitCommitted, Commit, rec
    <3> QED
      BY <1>2, <2>1, <2>3, <3>1
  <2>5. CASE AdmitRefused(s, e, now)
    BY <1>2, <1>a, <2>5 DEF AdmitRefused
  <2>6. CASE CrashBeforeAck(s, e, now)
    BY <2>3, <2>6 DEF CrashBeforeAck, Forget, rec
  <2>7. CASE CrashBeforeSync(s, e, now)
    BY <2>3, <2>7 DEF CrashBeforeSync, Forget, rec
  <2>8. ~AdmitSyncFault(s, e, now) /\ ~AdmitWriteFault(s, e, now) /\ ~CrashMidWrite(s, e, now)
    BY <1>1 DEF AdmitSyncFault, AdmitWriteFault, CrashMidWrite
  <2> QED
    BY <1>5, <2>4, <2>5, <2>6, <2>7, <2>8 DEF Admit
<1>6. CASE Close
  BY <1>2, <1>6, <1>a DEF Close, memory
<1>7. CASE Crash
  BY <1>2, <1>7, <1>a DEF Crash, Forget
<1>8. CASE PowerLoss
  <2>1. PICK keep \in synced..Len(disk) : disk' = SubSeq(disk, 1, keep) /\ synced' = keep
    BY <1>8 DEF PowerLoss
  <2>2. keep \in 0..Len(disk)
    BY <1>3
  <2>3. /\ disk' \in Seq(Frames) /\ Len(disk') = keep /\ TornFrames(disk') = {}
        /\ Len(Readable(disk')) <= Len(Readable(disk))
        /\ \A i \in 1..Len(Readable(disk')) : Readable(disk')[i] = Readable(disk)[i]
    BY <1>2, <1>3, <2>1, <2>2, ReadableOfPrefix
  <2>4. VerifyChains(Readable(disk'), Genesis(Sources))
    BY <1>2, <1>3, <2>3, ReadableProperties, VerifyChainsPrefix
  <2>5. "powerLoss" \in faults /\ proc' = "down" /\ acked' = acked
    BY <1>8 DEF PowerLoss, Forget
  <2>6. ASSUME Sound PROVE Readable(disk') = Readable(disk)
    <3>1. keep = Len(disk)
      BY <1>2, <1>3, <2>5, <2>6 DEF Sound
    <3>2. SubSeq(disk, 1, Len(disk)) = disk
      BY <1>3
    <3> QED
      BY <2>1, <3>1, <3>2
  <2> QED
    BY <1>0, <1>1, <1>2, <2>1, <2>3, <2>4, <2>5, <2>6
<1>9. CASE BootServes
  BY <1>2, <1>9, <1>a DEF BootServes, Rebuild
<1>10. CASE BootRefuses
  BY <1>2, <1>10 DEF BootRefuses, BootAccepts, Corrupt
<1>11. CASE UNCHANGED vars
  BY <1>2, <1>11, <1>a DEF vars
<1> QED
  BY <1>4, <1>5, <1>6, <1>7, <1>8, <1>9, <1>10, <1>11 DEF Next
-----------------------------------------------------------------------------
(* The theorems *)

LEMMA StoreInvariants ==
  Spec => [](TypeOK /\ ServingInv /\ OnDisk(records, disk) /\ LogInv)
<1>1. Init => ServingInv /\ OnDisk(records, disk) /\ LogInv
  <2>1. ASSUME Init PROVE OnDisk(records, disk)
    <3>1. Len(records) = 0 /\ 1..0 = {}
      BY <2>1 DEF Init
    <3> QED
      BY <3>1 DEF OnDisk
  <2> QED
    BY <2>1, ServingInit, LogInit
<1>2. TypeOK' /\ (ServingInv /\ OnDisk(records, disk) /\ LogInv) /\ [Next]_vars
      => (ServingInv /\ OnDisk(records, disk) /\ LogInv)'
  BY ServingStep, OnDiskStep, LogStep
<1> QED
  BY <1>1, <1>2, TypeCorrect, PTL DEF Spec

\* Memory and file never disagree on what is committed (store.go:110-170):
\* every record served is a whole frame of the file, in commit order, under
\* every fault; and without half writes a reader of the file finds what is
\* served and nothing else.
THEOREM FileCorrect == Spec => []FileMatchesServing
<1>1. TypeOK /\ OnDisk(records, disk) /\ LogInv => FileMatchesServing
  <2> SUFFICES ASSUME TypeOK, OnDisk(records, disk), LogInv
               PROVE  ServedRecordsOnDisk /\ DiskMatchesMemory
    BY DEF FileMatchesServing
  <2>1. ServedRecordsOnDisk
    BY OnDiskIsServed DEF TypeOK, ServedRecordsOnDisk
  <2>2. DiskMatchesMemory
    BY DEF LogInv, DiskMatchesMemory, Corrupt
  <2> QED
    BY <2>1, <2>2
<1> QED
  BY <1>1, StoreInvariants, PTL

\* recover.go:29-64 refuses to serve over a file that does not verify; it
\* never has to refuse a file the daemon wrote itself without a half write,
\* however many crashes, restarts and power losses there were.
THEOREM BootCorrect == Spec => []BootNeverRefused
<1>1. LogInv => BootNeverRefused
  BY DEF LogInv, BootNeverRefused
<1> QED
  BY <1>1, StoreInvariants, PTL

\* INV-4: an acknowledgement stays good in the log, on the medium and towards
\* a source that replays.  The log invariant is needed because a boot takes
\* the dedupe set from the file: that an acknowledged key is in it depends on
\* the file being whole, verified and not shortened.
THEOREM AckedCorrect == Spec => []AckedKept
<1>1. TypeOK /\ ServingInv /\ LogInv => AckedKept
  <2> SUFFICES ASSUME TypeOK, ServingInv, LogInv
               PROVE  AckedInLog /\ AckedReplayable /\ AckedSynced
    BY DEF AckedKept
  <2>1. Sound => NoHalfWrites
    BY DEF Sound
  <2>2. AckedInLog
    BY <2>1 DEF LogInv, AckedInLog
  <2>3. AckedReplayable
    BY <2>1 DEF LogInv, AckedReplayable, ServingInv, ServingStateCoherent
  <2>4. AckedSynced
    <3> SUFFICES ASSUME NoHalfWrites, "unsyncedFrame" \notin faults
                 PROVE  acked \subseteq KeysOf(Readable(SubSeq(disk, 1, synced)))
      BY DEF AckedSynced
    <3>1. Sound
      BY DEF Sound
    <3>2. synced = Len(disk) /\ acked \subseteq KeysOf(Readable(disk))
      BY <3>1 DEF LogInv
    <3>3. SubSeq(disk, 1, Len(disk)) = disk
      BY DEF TypeOK
    <3> QED
      BY <3>2, <3>3
  <2> QED
    BY <2>2, <2>3, <2>4
<1> QED
  BY <1>1, StoreInvariants, PTL

-----------------------------------------------------------------------------
(* Refinement *)

\* The abstract log reads the hash chain in the same way.
LEMMA SameChain ==
  /\ \A recs, n, s : Log!PositionsOf(recs, n, s) = PositionsOf(recs, n, s)
  /\ \A recs, n, s : Log!TipAt(recs, n, s, Log!Genesis(Sources)) =
                       TipAt(recs, n, s, Genesis(Sources))
  /\ \A t, rec : Log!Extends(t, rec) <=> Extends(t, rec)
  /\ \A recs : Log!TimesOf(recs) = TimesOf(recs)
  /\ \A recs : Log!KeysOf(recs) = KeysOf(recs)
<1>1. \A recs, n, s : Log!PositionsOf(recs, n, s) = PositionsOf(recs, n, s)
  BY DEF Log!PositionsOf, PositionsOf
<1>2. Log!Genesis(Sources) = Genesis(Sources)
  BY DEF Log!Genesis, Genesis, Log!NoTip, NoTip, Log!GenesisPrevHash, GenesisPrevHash
<1>3. \A S : Log!Max(S) = Max(S)
  BY DEF Log!Max, Max
<1>4. \A rec : Log!TipOf(rec) = TipOf(rec)
  BY DEF Log!TipOf, TipOf
<1>5. \A recs, n, s : Log!TipAt(recs, n, s, Log!Genesis(Sources)) =
                        TipAt(recs, n, s, Genesis(Sources))
  BY <1>1, <1>2, <1>3, <1>4 DEF Log!TipAt, TipAt
<1>6. \A t, rec : Log!Extends(t, rec) <=> Extends(t, rec)
  BY DEF Log!Extends, Extends, Log!Verify, Verify, Log!Compute, Compute,
         Log!CanonicalEvent, CanonicalEvent
<1>7. \A recs : Log!TimesOf(recs) = TimesOf(recs) /\ Log!KeysOf(recs) = KeysOf(recs)
  BY DEF Log!TimesOf, TimesOf, Log!KeysOf, KeysOf
<1> QED
  BY <1>1, <1>5, <1>6, <1>7

\* A record that joins the end of the readable log is a commit of the
\* abstract one, whether or not its source is answered.
LEMMA AppendIsCommit ==
  ASSUME NEW recs \in Seq(Records), NEW rec \in Records, LogView = recs,
         LogView' = Append(recs, rec),
         Extends(TipAt(recs, Len(recs), rec.source, Genesis(Sources)), rec),
         \A t \in TimesOf(recs) : t <= rec.time,
         AckedView' \in {AckedView, AckedView \cup {<<rec.source, rec.seq>>}}
  PROVE  Log!Commit
<1>1. /\ Len(recs) \in Nat /\ Len(Append(recs, rec)) = Len(recs) + 1
      /\ Append(recs, rec)[Len(recs) + 1] = rec
      /\ SubSeq(Append(recs, rec), 1, Len(recs)) = recs
  <2>1. \A i \in 1..Len(recs) : Append(recs, rec)[i] \in Records
    BY AppendProperties, ElementOfSeq
  <2>2. \A i \in 1..Len(recs) : Append(recs, rec)[i] = recs[i]
    BY AppendProperties
  <2> QED
    BY LenProperties, AppendProperties
<1>2. rec.source \in Sources
  BY DEF Records
<1> QED
  BY <1>1, <1>2, SameChain, Zenon DEF Log!Commit

LEMMA StepImplements ==
  ASSUME ServingInv, LogInv, TypeOK', LogInv', [Next]_vars
  PROVE  [Log!Next]_<<LogView, AckedView>>
<1>0. faults' = faults
  BY DEF Next, Admit, AdmitDuplicate, AdmitCommitted, AdmitRefused, AdmitSyncFault,
         AdmitWriteFault, CrashBeforeAck, CrashBeforeSync, CrashMidWrite, Close, Crash,
         PowerLoss, BootServes, BootRefuses, vars
<1>1. CASE ~Sound
  <2>1. ~Sound'
    BY <1>0, <1>1 DEF Sound, NoHalfWrites
  <2> QED
    BY <1>1, <2>1 DEF LogView, AckedView
<1>2. CASE Sound
  <2>1. Sound' /\ NoHalfWrites
        /\ LogView = Readable(disk) /\ LogView' = Readable(disk')
        /\ AckedView = acked /\ AckedView' = acked'
    BY <1>0, <1>2 DEF Sound, NoHalfWrites, LogView, AckedView
  <2>2. ASSUME UNCHANGED <<disk, acked>> PROVE UNCHANGED <<LogView, AckedView>>
    BY <2>1, <2>2
  <2>3. disk \in Seq(Frames) /\ Readable(disk) \in Seq(Records) /\ TypeOK
    BY ReadableProperties DEF ServingInv, TypeOK
  <2>4. ASSUME NEW s \in Sources, NEW e \in Events, AdmitDuplicate(s, e)
        PROVE  Log!Acknowledge
    <3>1. /\ proc = "up" /\ Key(s, e) \in seen /\ acked' = acked \cup {Key(s, e)}
          /\ disk' = disk
      BY <2>4 DEF AdmitDuplicate, Duplicate
    <3>2. Key(s, e) \in KeysOf(LogView) /\ LogView' = LogView
          /\ AckedView' = AckedView \cup {Key(s, e)}
      BY <2>1, <3>1 DEF LogInv, ServingInv, ServingStateCoherent
    <3> QED
      BY <3>2, SameChain, Zenon DEF Log!Acknowledge
  <2>5. ASSUME NEW s \in Sources, NEW e \in Events, NEW now \in Times, Admit(s, e, now)
        PROVE  Log!Commit \/ UNCHANGED <<LogView, AckedView>>
    <3> DEFINE rec == NextRecord(s, e, now)
    <3>1. proc = "up" /\ ~Regressed(s, e)
      BY <2>5 DEF Admit, AdmitCommitted, AdmitRefused, AdmitSyncFault, AdmitWriteFault,
                  CrashBeforeAck, CrashBeforeSync, CrashMidWrite, Writes, ReachesAppend
    <3>2. /\ rec \in Records /\ rec.source = s /\ rec.seq = e.seq
          /\ rec.time = Stamp(now) /\ Stamp(now) >= floor /\ Stamp(now) \in Nat
      BY <2>3, NextRecordType
    <3>3. /\ Readable(Append(disk, Whole(rec))) = Append(Readable(disk), rec)
          /\ Extends(TipAt(Readable(disk), Len(Readable(disk)), s, Genesis(Sources)), rec)
      BY <2>1, <3>1, LogAppend
    <3>4. \A t \in TimesOf(Readable(disk)) : t <= rec.time
      <4>1. \A t \in TimesOf(Readable(disk)) : t \in Nat /\ t <= floor
        <5>1. \A i \in 1..Len(Readable(disk)) : Readable(disk)[i] \in Records
          BY <2>3, ElementOfSeq
        <5> QED
          BY <3>1, <5>1 DEF ServingInv, DiskStamps, TimesOf, Records
      <4>2. floor \in Nat
        BY <2>3 DEF TypeOK
      <4> HIDE DEF rec
      <4> QED
        BY <3>2, <4>1, <4>2
    <3> HIDE DEF rec
    <3>5. ASSUME disk' = Append(disk, Whole(rec)), acked' \in {acked, acked \cup {Key(s, e)}}
          PROVE  Log!Commit
      <4>1. LogView' = Append(Readable(disk), rec)
        BY <2>1, <3>3, <3>5
      <4>2. AckedView' \in {AckedView, AckedView \cup {<<rec.source, rec.seq>>}}
        BY <2>1, <3>2, <3>5 DEF Key
      <4> QED
        BY <2>1, <2>3, <3>2, <3>3, <3>4, <4>1, <4>2, AppendIsCommit
    <3>6. CASE AdmitCommitted(s, e, now)
      BY <3>5, <3>6 DEF AdmitCommitted, rec
    <3>7. CASE AdmitRefused(s, e, now)
      BY <2>2, <3>7 DEF AdmitRefused
    <3>8. CASE CrashBeforeAck(s, e, now)
      BY <3>5, <3>8 DEF CrashBeforeAck, rec
    <3>9. CASE CrashBeforeSync(s, e, now)
      BY <3>5, <3>9 DEF CrashBeforeSync, rec
    <3>10. ~AdmitSyncFault(s, e, now) /\ ~AdmitWriteFault(s, e, now) /\ ~CrashMidWrite(s, e, now)
      BY <2>1 DEF NoHalfWrites, AdmitSyncFault, AdmitWriteFault, CrashMidWrite
    <3> QED
      BY <2>5, <3>6, <3>7, <3>8, <3>9, <3>10 DEF Admit
  <2>6. CASE PowerLoss
    <3>1. PICK keep \in synced..Len(disk) : disk' = SubSeq(disk, 1, keep)
      BY <2>6 DEF PowerLoss
    <3>2. "powerLoss" \in faults /\ acked' = acked
      BY <2>6 DEF PowerLoss
    <3>3. synced = Len(disk) /\ Len(disk) \in Nat
      BY <1>2, <2>1, <2>3, <3>2, LenProperties DEF LogInv, Sound
    <3>4. keep = Len(disk)
      BY <3>3
    <3>5. disk' = disk
      BY <2>3, <3>1, <3>4
    <3> QED
      BY <2>2, <3>2, <3>5
  <2>7. CASE Close \/ Crash \/ BootServes \/ BootRefuses \/ UNCHANGED vars
    BY <2>2, <2>7 DEF Close, Crash, BootServes, BootRefuses, vars
  <2> QED
    BY <2>4, <2>5, <2>6, <2>7 DEF Next, Log!Next
<1> QED
  BY <1>1, <1>2

\* What a reader of the file sees is an append-only, chained, time-ordered
\* log, and no crash, recovery or power loss withdraws an acknowledgement
\* (store.go:106-109, README INV-4): every step of the store is a commit, an
\* acknowledgement or a stutter of DurableLog.
THEOREM StoreImplementsLog == Spec => ImplementsDurableLog
<1>1. Init => Log!Init
  <2> SUFFICES ASSUME Init PROVE LogView = << >> /\ AckedView = {}
    BY DEF Log!Init
  <2>1. Len(disk) = 0 /\ 1..0 = {} /\ TornFrames(disk) = {}
    BY DEF Init, TornFrames
  <2>2. Readable(disk) = << >>
    BY <2>1 DEF Readable
  <2> QED
    BY <2>2 DEF Init, LogView, AckedView
<1>2. (ServingInv /\ LogInv) /\ (TypeOK /\ LogInv)' /\ [Next]_vars
      => [Log!Next]_<<LogView, AckedView>>
  BY StepImplements
<1> QED
  BY <1>1, <1>2, StoreInvariants, PTL DEF Spec, ImplementsDurableLog, Log!Spec
=============================================================================
