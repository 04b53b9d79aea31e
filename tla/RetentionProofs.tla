-------------------------- MODULE RetentionProofs --------------------------
(***************************************************************************)
(* Theorems about Retention, for every set of producers, clock readings    *)
(* and environments, any policy, and any number of records and segments.   *)
(***************************************************************************)
EXTENDS Retention, HashChainProofs

(* Reading a directory: FlattenSeq *)

\* FlattenSeq by its parts: there is a function that joins one more part at
\* every index, and its last value is the result.
LEMMA FlattenByParts ==
  ASSUME NEW R, NEW parts \in Seq(Seq(R)), NEW M \in Nat \ {0}, Len(parts) = M
  PROVE  \E f : /\ FlattenSeq(parts) = f[M] /\ f[1] = parts[1]
                /\ \A i \in 2..M : f[i] = f[i-1] \o parts[i]
<1> DEFINE Joins(f, m) == f = [i \in 1..m |-> IF i = 1 THEN parts[i] ELSE f[i-1] \o parts[i]]
           flat == CHOOSE f : Joins(f, M)
           S == {m \in Nat : \E f : Joins(f, m)}
<1>1. FlattenSeq(parts) = flat[M]
  BY DEF FlattenSeq
<1>2. 0 \in S
  <2> DEFINE g == [i \in 1..0 |-> parts]
  <2>1. \A i : i \notin 1..0
    OBVIOUS
  <2>2. Joins(g, 0)
    BY <2>1
  <2> QED
    BY <2>2
<1>3. ASSUME NEW m \in S PROVE m + 1 \in S
  <2>1. PICK f : Joins(f, m)
    OBVIOUS
  <2> DEFINE g == [i \in 1..(m + 1) |-> IF i = 1 THEN parts[i] ELSE f[i-1] \o parts[i]]
  <2>2. ASSUME NEW i \in 1..(m + 1), i # 1 PROVE g[i-1] = f[i-1]
    <3>1. i - 1 \in 1..m /\ i - 1 \in 1..(m + 1)
      BY <2>2
    <3>2. f[i-1] = IF i - 1 = 1 THEN parts[i-1] ELSE f[(i-1)-1] \o parts[i-1]
      BY <2>1, <3>1
    <3> QED
      BY <3>1, <3>2
  <2>3. \A i \in 1..(m + 1) :
          g[i] = IF i = 1 THEN parts[i] ELSE g[i-1] \o parts[i]
    <3> TAKE i \in 1..(m + 1)
    <3>1. g[i] = IF i = 1 THEN parts[i] ELSE f[i-1] \o parts[i]
      OBVIOUS
    <3> HIDE DEF g
    <3> QED
      BY <2>2, <3>1
  <2>4. g = [i \in 1..(m + 1) |-> g[i]]
    OBVIOUS
  <2> HIDE DEF g
  <2>5. Joins(g, m + 1)
    BY <2>3, <2>4
  <2> HIDE DEF Joins
  <2>6. m + 1 \in Nat /\ \E h : Joins(h, m + 1)
    BY <2>5
  <2> QED
    BY <2>6
<1>4. Joins(flat, M)
  <2>1. S \in SUBSET Nat
    OBVIOUS
  <2> HIDE DEF S, Joins
  <2>2. M \in S
    BY <1>2, <1>3, <2>1, SetInduction
  <2>3. \E f : Joins(f, M)
    BY <2>2 DEF S
  <2> QED
    BY <2>3
<1> HIDE DEF flat
<1>5. 1 \in 1..M /\ \A i \in 2..M : i \in 1..M /\ i # 1
  OBVIOUS
<1>6. flat[1] = parts[1] /\ \A i \in 2..M : flat[i] = flat[i-1] \o parts[i]
  BY <1>4, <1>5
<1> QED
  BY <1>1, <1>6

LEMMA FlattenOfNone ==
  ASSUME NEW R, NEW parts \in Seq(Seq(R)), Len(parts) = 0
  PROVE  FlattenSeq(parts) = << >>
<1>1. parts = << >>
  BY EmptySeq, SeqEqual
<1> QED
  BY <1>1 DEF FlattenSeq

LEMMA FlattenType ==
  ASSUME NEW R, NEW parts \in Seq(Seq(R))
  PROVE  FlattenSeq(parts) \in Seq(R)
<1> DEFINE M == Len(parts)
<1>0. M \in Nat /\ \A i \in 1..M : parts[i] \in Seq(R)
  BY LenProperties, ElementOfSeq
<1>1. CASE M = 0
  BY <1>1, FlattenOfNone, EmptySeq
<1>2. CASE M # 0
  <2>1. PICK f : /\ FlattenSeq(parts) = f[M] /\ f[1] = parts[1]
                 /\ \A i \in 2..M : f[i] = f[i-1] \o parts[i]
    <3>1. M \in Nat \ {0}
      BY <1>0, <1>2
    <3> HIDE DEF M
    <3>2. Len(parts) = M
      BY DEF M
    <3> QED
      BY <3>1, <3>2, FlattenByParts
  <2> DEFINE S == {n \in Nat : n + 1 <= M => f[n + 1] \in Seq(R)}
  <2> HIDE DEF M
  <2>2. S \in SUBSET Nat
    OBVIOUS
  <2>3. 0 \in S
    BY <1>0, <2>1
  <2>4. ASSUME NEW n \in S PROVE n + 1 \in S
    <3>0. (n + 1) + 1 = n + 2 /\ n + 1 \in Nat
      OBVIOUS
    <3> SUFFICES ASSUME n + 2 <= M PROVE f[n + 2] \in Seq(R)
      BY <3>0
    <3>1. /\ n + 2 \in 2..M /\ n + 2 \in 1..M /\ (n + 2) - 1 = n + 1 /\ n + 1 <= M
      BY <1>0
    <3>2. f[n + 1] \in Seq(R) /\ parts[n + 2] \in Seq(R)
      BY <1>0, <3>1
    <3>3. f[n + 2] = f[n + 1] \o parts[n + 2]
      BY <2>1, <3>1
    <3> QED
      BY <3>2, <3>3, ConcatProperties
  <2> HIDE DEF S
  <2>5. S = Nat
    BY <2>2, <2>3, <2>4, SetInduction
  <2>6. M - 1 \in S /\ (M - 1) + 1 = M
    BY <1>0, <1>2, <2>5
  <2>7. f[M] \in Seq(R)
    BY <1>0, <2>6 DEF S
  <2> QED
    BY <2>1, <2>7
<1> QED
  BY <1>1, <1>2

\* Slices of one list that follow each other, joined, are a slice of it.
LEMMA FlattenSlices ==
  ASSUME NEW R, NEW l \in Seq(R), NEW M \in Nat, NEW b \in [0..M -> 0..Len(l)],
         NEW parts \in Seq(Seq(R)), Len(parts) = M,
         \A i \in 1..M : b[i-1] <= b[i] /\ parts[i] = SubSeq(l, b[i-1] + 1, b[i])
  PROVE  FlattenSeq(parts) = SubSeq(l, b[0] + 1, b[M])
<1>0. Len(l) \in Nat /\ \A i \in 0..M : b[i] \in Nat /\ b[i] <= Len(l)
  BY LenProperties
<1>1. CASE M = 0
  <2>1. SubSeq(l, b[0] + 1, b[M]) = << >>
    BY <1>0, <1>1, SubSeqEmpty
  <2> QED
    BY <1>1, <2>1, FlattenOfNone
<1>2. CASE M # 0
  <2>1. PICK f : /\ FlattenSeq(parts) = f[M] /\ f[1] = parts[1]
                 /\ \A i \in 2..M : f[i] = f[i-1] \o parts[i]
    <3>1. M \in Nat \ {0}
      BY <1>2
    <3> QED
      BY <3>1, FlattenByParts
  <2> DEFINE S == {n \in Nat : n + 1 <= M =>
                     b[0] <= b[n + 1] /\ f[n + 1] = SubSeq(l, b[0] + 1, b[n + 1])}
  <2>2. S \in SUBSET Nat
    OBVIOUS
  <2>3. 0 \in S
    <3>1. 1 \in 1..M /\ 1 - 1 = 0 /\ 0 + 1 = 1
      BY <1>2
    <3>2. b[0] <= b[1] /\ parts[1] = SubSeq(l, b[0] + 1, b[1])
      BY <3>1
    <3> QED
      BY <2>1, <3>1, <3>2
  <2>4. ASSUME NEW n \in S PROVE n + 1 \in S
    <3>0. (n + 1) + 1 = n + 2 /\ n + 1 \in Nat /\ n \in Nat
      OBVIOUS
    <3> SUFFICES ASSUME n + 2 <= M
                 PROVE  b[0] <= b[n + 2] /\ f[n + 2] = SubSeq(l, b[0] + 1, b[n + 2])
      BY <3>0
    <3>1. /\ n + 2 \in 2..M /\ n + 2 \in 1..M /\ (n + 2) - 1 = n + 1 /\ n + 1 <= M
          /\ 0 \in 0..M /\ n + 1 \in 0..M /\ n + 2 \in 0..M
      BY <3>0
    <3>2. b[0] <= b[n + 1] /\ f[n + 1] = SubSeq(l, b[0] + 1, b[n + 1])
      BY <3>1
    <3>3. b[n + 1] <= b[n + 2] /\ parts[n + 2] = SubSeq(l, b[n + 1] + 1, b[n + 2])
      BY <3>1
    <3>4. f[n + 2] = SubSeq(l, b[0] + 1, b[n + 1]) \o SubSeq(l, b[n + 1] + 1, b[n + 2])
      BY <2>1, <3>1, <3>2, <3>3
    <3>5. /\ b[0] \in Nat /\ b[n + 1] \in Nat /\ b[n + 2] \in Nat /\ Len(l) \in Nat
          /\ b[0] <= Len(l) /\ b[n + 1] <= Len(l) /\ b[n + 2] <= Len(l)
          /\ b[0] <= b[n + 1] /\ b[n + 1] <= b[n + 2]
      BY <1>0, <3>1, <3>2, <3>3
    <3>6. /\ b[0] + 1 \in 1..(Len(l) + 1) /\ b[n + 1] \in ((b[0] + 1) - 1)..Len(l)
          /\ b[n + 2] \in b[n + 1]..Len(l) /\ b[0] <= b[n + 2]
      BY ONLY <3>5, SMTT(30)
    <3>7. SubSeq(l, b[0] + 1, b[n + 1]) \o SubSeq(l, b[n + 1] + 1, b[n + 2])
            = SubSeq(l, b[0] + 1, b[n + 2])
      BY ONLY <3>6, l \in Seq(R), ConcatAdjacentSubSeq
    <3> QED
      BY <3>4, <3>6, <3>7
  <2> HIDE DEF S
  <2>5. S = Nat
    BY <2>2, <2>3, <2>4, SetInduction
  <2>6. M - 1 \in S /\ (M - 1) + 1 = M
    BY <1>2, <2>5
  <2>7. f[M] = SubSeq(l, b[0] + 1, b[M])
    BY <2>6 DEF S
  <2> QED
    BY <2>1, <2>7
<1> QED
  BY <1>1, <1>2
-----------------------------------------------------------------------------
(* What the operators of the model return. *)

LEMMA RecordFields ==
  \A r \in Records : r.hash \in Hashes /\ r.seq \in Nat /\ r.time \in Nat /\ r.source \in Sources
BY DEF Records

LEMMA TipsAreTyped == Tips = [Sources -> TipsWith(Hashes)]
BY DEF Tips, TipsWith

LEMMA GenesisType == Genesis(Sources) \in Tips
<1>1. NoTip \in TipsWith(Hashes)
  BY EmptySeq DEF NoTip, TipsWith, GenesisPrevHash, Hashes
<1> QED
  BY <1>1, TipsAreTyped DEF Genesis

LEMMA TipsOfType ==
  ASSUME NEW recs \in Seq(Records), NEW anchors \in Tips
  PROVE  TipsOf(recs, anchors) \in Tips
BY RecordFields, TipsAreTyped, TipsOfTyped

LEMMA LeavesOfType ==
  ASSUME NEW recs \in Seq(Records)
  PROVE  LeavesOf(recs) \in Seq(Hashes) /\ Len(LeavesOf(recs)) = Len(recs)
BY RecordFields, LeavesTyped

LEMMA EmptyCheckpointType == EmptyCheckpoint \in Checkpoints /\ Len(EmptyCheckpoint.segments) = 0
BY GenesisType, EmptySeq DEF EmptyCheckpoint, Checkpoints

LEMMA FileKinds ==
  \A f \in Files : /\ Exists(f) <=> f \in Seq(Records)
                   /\ Content(f) \in Seq(Records)
                   /\ Exists(f) => Content(f) = f
BY NoFileAssumption, EmptySeq DEF Files, Exists, Content

\* A row of a checkpoint, and what is rotated.
LEMMA RowType ==
  ASSUME NEW c \in Checkpoints
  PROVE  /\ Len(c.segments) \in Nat /\ DOMAIN c.segments = 1..Len(c.segments)
         /\ \A i \in 1..Len(c.segments) :
              /\ c.segments[i] \in Entries
              /\ c.segments[i].digest \in Seq(Records)
              /\ c.segments[i].firstGlobal \in Nat /\ c.segments[i].lastGlobal \in Nat
              /\ c.segments[i].last \in Nat /\ c.segments[i].rotated \in BOOLEAN
              /\ c.segments[i].tips \in Tips /\ c.segments[i].frontier \in Seq(Hashes)
         /\ Rotated(c) = {i \in 1..Len(c.segments) : c.segments[i].rotated}
         /\ Rotated(c) \subseteq 1..Len(c.segments)
         /\ Unrotated(c) = 1..Len(c.segments) \ Rotated(c)
<1>1. c.segments \in Seq(Entries)
  BY DEF Checkpoints
<1>2. Len(c.segments) \in Nat /\ DOMAIN c.segments = 1..Len(c.segments)
  BY <1>1, LenProperties
<1>3. \A i \in 1..Len(c.segments) : c.segments[i] \in Entries
  BY <1>1, ElementOfSeq
<1>4. \A i \in 1..Len(c.segments) :
              /\ c.segments[i].digest \in Seq(Records)
              /\ c.segments[i].firstGlobal \in Nat /\ c.segments[i].lastGlobal \in Nat
              /\ c.segments[i].last \in Nat /\ c.segments[i].rotated \in BOOLEAN
              /\ c.segments[i].tips \in Tips /\ c.segments[i].frontier \in Seq(Hashes)
  BY <1>3 DEF Entries
<1> QED
  BY <1>2, <1>3, <1>4 DEF Rotated, Unrotated

\* The row of a segment says of it what a replacement of other fields leaves.
SameRow(a, b) ==
  /\ a.digest = b.digest /\ a.last = b.last
  /\ a.firstGlobal = b.firstGlobal /\ a.lastGlobal = b.lastGlobal
  /\ a.tips = b.tips /\ a.frontier = b.frontier

\* All rows of c are in d.
Follows(c, d) ==
  /\ Len(c.segments) <= Len(d.segments)
  /\ \A i \in 1..Len(c.segments) : SameRow(c.segments[i], d.segments[i])

\* One row is replaced, with other anchors on top.
LEMMA RowReplaced ==
  ASSUME NEW c \in Checkpoints, NEW i \in 1..Len(c.segments),
         NEW row \in Entries, SameRow(row, c.segments[i]),
         NEW tips \in Tips, NEW frontier \in Seq(Hashes), NEW d, NEW rows,
         rows = [c.segments EXCEPT ![i] = row],
         d = [segments |-> rows, tips |-> tips, frontier |-> frontier]
  PROVE  /\ d \in Checkpoints /\ Len(d.segments) = Len(c.segments)
         /\ \A j \in 1..Len(c.segments) : SameRow(d.segments[j], c.segments[j])
         /\ \A j \in 1..Len(c.segments) : j # i => d.segments[j] = c.segments[j]
         /\ d.segments[i] = row
         /\ d.tips = tips /\ d.frontier = frontier
<1>1. c.segments \in Seq(Entries)
  BY DEF Checkpoints
<1>4. /\ rows \in Seq(Entries) /\ Len(rows) = Len(c.segments)
      /\ \A j \in 1..Len(c.segments) : rows[j] = IF j = i THEN row ELSE c.segments[j]
  <2> DEFINE new == [c.segments EXCEPT ![i] = row]
  <2>1. /\ new \in Seq(Entries) /\ Len(new) = Len(c.segments)
        /\ \A j \in 1..Len(c.segments) : new[j] = IF j = i THEN row ELSE c.segments[j]
    BY ONLY <1>1, row \in Entries, i \in 1..Len(c.segments), ExceptSeq
  <2> HIDE DEF new
  <2>2. rows = new
    BY DEF new
  <2> QED
    BY <2>1, <2>2
<1>5. d \in Checkpoints /\ d.segments = rows /\ d.tips = tips /\ d.frontier = frontier
  BY <1>4 DEF Checkpoints
<1>6. \A j \in 1..Len(c.segments) : SameRow(d.segments[j], c.segments[j])
  <2> TAKE j \in 1..Len(c.segments)
  <2>1. CASE j = i
    BY <1>4, <1>5, <2>1
  <2>2. CASE j # i
    <3>1. d.segments[j] = c.segments[j]
      BY <1>4, <1>5, <2>2
    <3> QED
      BY <3>1 DEF SameRow
  <2> QED
    BY <2>1, <2>2
<1>7. Len(d.segments) = Len(c.segments)
  BY <1>4, <1>5
<1>8. d.segments[i] = row /\ \A j \in 1..Len(c.segments) : j # i => d.segments[j] = c.segments[j]
  BY <1>4, <1>5
<1> QED
  BY <1>5, <1>6, <1>7, <1>8

\* One more row.
LEMMA RowAppended ==
  ASSUME NEW c \in Checkpoints, NEW row \in Entries, ~row.rotated, NEW d,
         d = [c EXCEPT !.segments = Append(@, row)]
  PROVE  /\ d \in Checkpoints /\ Len(d.segments) = Len(c.segments) + 1
         /\ \A j \in 1..Len(c.segments) : d.segments[j] = c.segments[j]
         /\ d.segments[Len(c.segments) + 1] = row
         /\ d.tips = c.tips /\ d.frontier = c.frontier
         /\ Rotated(d) = Rotated(c)
<1>1. c.segments \in Seq(Entries)
  BY DEF Checkpoints
<1>2. /\ Append(c.segments, row) \in Seq(Entries)
      /\ Len(Append(c.segments, row)) = Len(c.segments) + 1
      /\ \A j \in 1..Len(c.segments) : Append(c.segments, row)[j] = c.segments[j]
      /\ Append(c.segments, row)[Len(c.segments) + 1] = row
  BY <1>1, AppendProperties
<1>3. /\ d \in Checkpoints /\ d.segments = Append(c.segments, row)
      /\ d.tips = c.tips /\ d.frontier = c.frontier
  BY <1>2 DEF Checkpoints
<1>4. Rotated(d) = Rotated(c)
  <2>1. /\ Rotated(c) = {i \in 1..Len(c.segments) : c.segments[i].rotated}
        /\ Rotated(d) = {i \in 1..Len(d.segments) : d.segments[i].rotated}
        /\ Len(c.segments) \in Nat
    BY <1>3, RowType
  <2>2. /\ \A i \in 1..(Len(c.segments) + 1) : i \in 1..Len(c.segments) \/ i = Len(c.segments) + 1
        /\ \A i \in 1..Len(c.segments) : i \in 1..(Len(c.segments) + 1)
    BY <2>1
  <2>3. Len(d.segments) = Len(c.segments) + 1
    BY <1>2, <1>3
  <2>4. /\ \A i \in 1..Len(c.segments) : d.segments[i] = c.segments[i]
        /\ ~d.segments[Len(c.segments) + 1].rotated
    BY <1>2, <1>3
  <2>5. \A i : i \in Rotated(d) <=> i \in Rotated(c)
    BY <2>1, <2>2, <2>3, <2>4, Zenon
  <2> QED
    BY <2>5
<1> QED
  BY <1>2, <1>3, <1>4

\* The stamps of a file: what Min and Max of them return.
LEMMA StampsOfContent ==
  ASSUME NEW content \in Seq(Records), content # << >>
  PROVE  /\ Min(TimesOf(content)) \in Nat /\ Max(TimesOf(content)) \in Nat
         /\ \A i \in 1..Len(content) : content[i].time <= Max(TimesOf(content))
<1>1. Len(content) \in Nat /\ 1 \in 1..Len(content)
  BY EmptySeq
<1>2. \A i \in 1..Len(content) : content[i].time \in Nat
  BY RecordFields, ElementOfSeq
<1>3. TimesOf(content) \in SUBSET Nat /\ content[1].time \in TimesOf(content)
  BY <1>1, <1>2 DEF TimesOf
<1>4. Min(TimesOf(content)) \in Nat
  BY <1>3, MinOfNumbers
<1>5. FloorOf(content, content[1].time) = Max(TimesOf(content))
  <2>1. TimesOf(content) \cup {content[1].time} = TimesOf(content)
    BY <1>3
  <2> QED
    BY <2>1 DEF FloorOf
<1>6. /\ FloorOf(content, content[1].time) \in Nat
      /\ \A t \in TimesOf(content) : t <= FloorOf(content, content[1].time)
  <2>1. content[1].time \in Nat /\ \A r \in Records : r.time \in Nat
    BY <1>1, <1>2, RecordFields
  <2> QED
    BY <2>1, FloorOfList
<1>7. \A i \in 1..Len(content) : content[i].time \in TimesOf(content)
  BY DEF TimesOf
<1> QED
  BY <1>4, <1>5, <1>6, <1>7

\* The global index behind the inventory.
LEMMA BoundaryBounds ==
  ASSUME NEW c \in Checkpoints
  PROVE  /\ Boundary(c) \in Nat
         /\ \A i \in 1..Len(c.segments) : c.segments[i].lastGlobal + 1 <= Boundary(c)
         /\ Boundary(c) = 0 \/ \E i \in 1..Len(c.segments) : Boundary(c) = c.segments[i].lastGlobal + 1
<1> DEFINE f == [i \in 1..Len(c.segments) |-> c.segments[i].lastGlobal + 1]
           all == {c.segments[i].lastGlobal + 1 : i \in DOMAIN c.segments} \cup {0}
<1>1. /\ Len(c.segments) \in Nat /\ DOMAIN c.segments = 1..Len(c.segments)
      /\ \A i \in 1..Len(c.segments) : c.segments[i].lastGlobal \in Nat
  BY RowType
<1>2. \A i \in 1..Len(c.segments) : f[i] = c.segments[i].lastGlobal + 1 /\ f[i] \in Nat
  BY <1>1
<1>3. \A u \in all : u = 0 \/ \E i \in 1..Len(c.segments) : u = f[i]
  BY <1>1
<1>4. Boundary(c) = Max(all)
  BY DEF Boundary
<1>5. \A i \in 1..Len(c.segments) : f[i] \in all
  BY <1>1
<1>6. 0 \in all /\ 0 \in Nat
  OBVIOUS
<1>7. Len(c.segments) \in Nat /\ \A i \in 1..Len(c.segments) : f[i] \in Nat
  BY <1>1, <1>2
<1> HIDE DEF f, all
<1>8. /\ Max(all) \in all /\ Max(all) \in Nat /\ \A u \in all : u \in Nat /\ u <= Max(all)
  BY ONLY <1>3, <1>5, <1>6, <1>7, MaxOfList, ZenonT(60)
<1> QED
  BY <1>2, <1>3, <1>4, <1>5, <1>8

\* The floor a boot starts from.
LEMMA AnchorFloorBounds ==
  ASSUME NEW c \in Checkpoints
  PROVE  AnchorFloor(c) \in Nat /\ \A i \in Rotated(c) : c.segments[i].last <= AnchorFloor(c)
<1> DEFINE f == [i \in 1..Len(c.segments) |-> IF i \in Rotated(c) THEN c.segments[i].last ELSE 0]
           all == {c.segments[i].last : i \in Rotated(c)} \cup {0}
<1>1. /\ Len(c.segments) \in Nat /\ Rotated(c) \subseteq 1..Len(c.segments)
      /\ \A i \in 1..Len(c.segments) : c.segments[i].last \in Nat
  BY RowType
<1>2. \A i \in 1..Len(c.segments) :
         f[i] = (IF i \in Rotated(c) THEN c.segments[i].last ELSE 0) /\ f[i] \in Nat
  BY <1>1
<1>3. \A i \in Rotated(c) : c.segments[i].last \in all /\ f[i] = c.segments[i].last
  BY <1>1
<1>4. \A u \in all : u = 0 \/ \E i \in 1..Len(c.segments) : u = f[i]
  <2>1. \A u \in all : u = 0 \/ \E i \in Rotated(c) : u = c.segments[i].last
    OBVIOUS
  <2> HIDE DEF f
  <2> QED
    BY <1>1, <1>2, <2>1
<1>5. AnchorFloor(c) = Max(all)
  BY DEF AnchorFloor
<1>6. 0 \in all /\ 0 \in Nat
  OBVIOUS
<1>7. \A i \in 1..Len(c.segments) : f[i] \in all
  BY <1>2, <1>3, <1>6
<1>8. Len(c.segments) \in Nat /\ \A i \in 1..Len(c.segments) : f[i] \in Nat
  BY <1>1, <1>2
<1> HIDE DEF f, all
<1>9. /\ Max(all) \in all /\ Max(all) \in Nat /\ \A u \in all : u \in Nat /\ u <= Max(all)
  BY ONLY <1>4, <1>6, <1>7, <1>8, MaxOfList, ZenonT(60)
<1> QED
  BY <1>3, <1>5, <1>9
-----------------------------------------------------------------------------
(* Types, and where the manager can be. *)

\* What the code relies on beyond the types: the manager has a place for the
\* segment it seals and a segment for the rotation it is in, an open handle has
\* a file behind it, and a process that is not up holds neither.
Places ==
  /\ Len(cp.segments) <= MaxSegments /\ Len(saved.segments) <= MaxSegments
  /\ pc \in {"seal", "reopen", "inventory"} => Len(cp.segments) < MaxSegments
  /\ pc \in {"copied", "promote"} => Unrotated(cp) # {}
  /\ pc = "finish" => Rotated(cp) # {}
  /\ wal = "open" /\ pc # "reopen" => Exists(active)
  /\ pc \in {"reopen", "inventory"} => wal = "open" /\ Exists(hot[NextSegment])
  /\ proc # "up" => pc = "idle" /\ wal = "closed"

TypeInv == TypeOK /\ Places

\* What an admission or a piece of evidence may change.
journal == <<active, records, leaves, tip, floor, log>>

JournalOK ==
  /\ active \in Files /\ records \in Seq(Records) /\ log \in Seq(Records)
  /\ leaves \in Seq(Hashes) /\ tip \in Tips /\ floor \in Nat

\* It is left alone, or one record is committed to it, while there is a file.
Emission ==
  \/ UNCHANGED journal
  \/ /\ proc = "up" /\ wal = "open" /\ pc # "reopen"
     /\ Len(log) < MaxRecords
     /\ \E s \in Sources, body \in Bodies, t \in Nat : Commit(NextRecord(s, body, t))

LEMMA AuthorType ==
  ASSUME NEW s \in Sources, NEW seq \in Nat, NEW body \in Bodies, NEW time \in Nat,
         NEW prev \in Hashes
  PROVE  Author(s, seq, body, time, prev) \in Records
<1> DEFINE event == [source |-> s, seq |-> seq, body |-> body, time |-> time]
<1>1. event \in HashInputs
  BY DEF HashInputs
<1>2. <<seq, event>> \in Nat \X HashInputs
  BY <1>1
<1> DEFINE pair == <<seq, event>>
<1>3. Append(prev, pair) \in Hashes
  <2> HIDE DEF pair
  <2>1. prev \in Seq(Nat \X HashInputs) /\ pair \in Nat \X HashInputs
    BY <1>2 DEF Hashes, pair
  <2> QED
    BY <2>1, AppendProperties DEF Hashes
<1>4. Author(s, seq, body, time, prev) =
        [source |-> s, seq |-> seq, body |-> body, time |-> time,
         prev |-> prev, hash |-> Append(prev, pair)]
  BY DEF Author, Compute
<1> HIDE DEF pair
<1> QED
  BY <1>3, <1>4 DEF Records

LEMMA NextRecordType ==
  ASSUME tip \in Tips, floor \in Nat, NEW s \in Sources, NEW body \in Bodies, NEW t \in Nat
  PROVE  /\ NextRecord(s, body, t) \in Records
         /\ NextRecord(s, body, t).source = s
         /\ NextRecord(s, body, t).time >= floor
         /\ Extends(tip[s], NextRecord(s, body, t))
<1>1. tip[s].seq \in Nat /\ tip[s].hash \in Hashes
  BY DEF Tips
<1> DEFINE stamp == IF t < floor THEN floor ELSE t
<1>2. stamp \in Nat /\ stamp >= floor
  OBVIOUS
<1>3. NextRecord(s, body, t) = Author(s, tip[s].seq + 1, body, stamp, tip[s].hash)
  BY DEF NextRecord
<1> HIDE DEF stamp
<1>4. tip[s].seq + 1 \in Nat /\ tip[s].seq + 1 > tip[s].seq
  BY <1>1
<1>5. NextRecord(s, body, t) \in Records
  BY <1>1, <1>2, <1>3, <1>4, AuthorType
<1>6. /\ NextRecord(s, body, t).source = s /\ NextRecord(s, body, t).time = stamp
      /\ NextRecord(s, body, t).seq = tip[s].seq + 1
      /\ Verify(NextRecord(s, body, t), tip[s].hash)
  BY <1>3 DEF Author, Verify, CanonicalEvent
<1> QED
  BY <1>2, <1>4, <1>5, <1>6 DEF Extends

LEMMA TipOfType ==
  ASSUME NEW r \in Records
  PROVE  TipOf(r) \in [have : BOOLEAN, hash : Hashes, seq : Nat]
BY RecordFields DEF TipOf

\* A record that is committed leaves the journal well typed and its file there.
LEMMA CommitType ==
  ASSUME JournalOK, Exists(active), NEW rec \in Records, Commit(rec)
  PROVE  JournalOK' /\ Exists(active')
<1>1. active \in Seq(Records) /\ active \in Files
  BY FileKinds DEF JournalOK
<1>2. active' \in Seq(Records) /\ records' \in Seq(Records) /\ log' \in Seq(Records)
  BY <1>1, AppendProperties DEF Commit, JournalOK
<1>3. active' \in Files /\ Exists(active')
  <2>1. active' \in Files
    BY <1>2 DEF Files
  <2> QED
    BY <1>2, <2>1, FileKinds
<1>4. leaves' \in Seq(Hashes) /\ floor' \in Nat
  <2>1. rec.hash \in Hashes /\ rec.time \in Nat
    BY RecordFields
  <2> QED
    BY <2>1, AppendProperties DEF Commit, JournalOK
<1>5. tip' \in Tips
  BY TipOfType DEF Commit, JournalOK, Tips
<1> QED
  BY <1>2, <1>3, <1>4, <1>5 DEF JournalOK

LEMMA EmissionType ==
  ASSUME JournalOK, Places, Emission
  PROVE  JournalOK' /\ (Exists(active') <=> Exists(active))
<1>1. CASE UNCHANGED journal
  BY <1>1 DEF journal, JournalOK
<1>2. ASSUME proc = "up", wal = "open", pc # "reopen",
             NEW s \in Sources, NEW body \in Bodies, NEW t \in Nat, Commit(NextRecord(s, body, t))
      PROVE  JournalOK' /\ (Exists(active') <=> Exists(active))
  <2>1. Exists(active)
    BY <1>2 DEF Places
  <2>2. NextRecord(s, body, t) \in Records
    BY NextRecordType DEF JournalOK
  <2> QED
    BY <1>2, <2>1, <2>2, CommitType
<1> QED
  BY <1>1, <1>2 DEF Emission

LEMMA SelfEmitIsEmission ==
  ASSUME TypeInv, NEW handle, handle = "open" => wal = "open" /\ pc # "reopen",
         NEW body \in Bodies, SelfEmit(handle, body)
  PROVE  Emission
<1>1. now \in Nat /\ Pipeline \in Sources
  BY DEF TypeInv, TypeOK, Sources
<1>2. wal = "open" => proc = "up"
  BY DEF TypeInv, Places
<1> QED
  BY <1>1, <1>2 DEF SelfEmit, Emission, journal

LEMMA EmitOnceIsEmission ==
  ASSUME TypeInv, NEW handle, handle = "open" => wal = "open" /\ pc # "reopen",
         NEW body \in Bodies, NEW i \in Segments, EmitOnce(handle, i, body)
  PROVE  Emission /\ failing' = failing \cup {i} /\ failing' \subseteq Segments
<1>1. failing' = failing \cup {i} /\ failing \subseteq Segments
  BY DEF EmitOnce, TypeInv, TypeOK
<1>2. Emission
  BY SelfEmitIsEmission DEF EmitOnce, Emission, journal
<1> QED
  BY <1>1, <1>2

\* The segment the manager is about to seal, and the one it is rotating.
LEMMA NextSegmentPlace ==
  ASSUME TypeInv, pc \in {"seal", "reopen", "inventory"}
  PROVE  NextSegment \in Segments /\ NextSegment = Len(cp.segments) + 1
<1>1. Len(cp.segments) \in Nat /\ Len(cp.segments) < MaxSegments
  BY RowType DEF TypeInv, TypeOK, Places
<1> QED
  BY <1>1, RetentionAssumption DEF NextSegment, Segments

LEMMA RowsInSegments ==
  ASSUME TypeInv
  PROVE  /\ \A i \in 1..Len(cp.segments) : i \in Segments
         /\ \A i \in 1..Len(saved.segments) : i \in Segments
<1>1. /\ Len(cp.segments) \in Nat /\ Len(saved.segments) \in Nat
      /\ Len(cp.segments) <= MaxSegments /\ Len(saved.segments) <= MaxSegments
  BY RowType DEF TypeInv, TypeOK, Places
<1> QED
  BY <1>1, RetentionAssumption DEF Segments

LEMMA TurnPlace ==
  ASSUME NEW c \in Checkpoints, c = cp, Unrotated(cp) # {}
  PROVE  /\ Turn \in 1..Len(cp.segments) /\ Turn \notin Rotated(cp)
         /\ \A j \in 1..Len(cp.segments) : j < Turn => j \in Rotated(cp)
<1>1. /\ Unrotated(cp) = 1..Len(cp.segments) \ Rotated(cp) /\ Len(cp.segments) \in Nat
  BY RowType
<1>2. Unrotated(cp) \in SUBSET Nat
  BY <1>1
<1>3. Turn \in Unrotated(cp) /\ \A j \in Unrotated(cp) : Turn <= j
  BY <1>2, MinOfNumbers DEF Turn
<1> QED
  BY <1>1, <1>2, <1>3

\* The checkpoint of a promotion, and what a failed write makes of it.
RolledBack == [Promoted EXCEPT !.segments[Turn].rotated = FALSE]

LEMMA PromotionType ==
  ASSUME cp \in Checkpoints, Unrotated(cp) # {}
  PROVE  /\ Promoted \in Checkpoints /\ RolledBack \in Checkpoints
         /\ Len(Promoted.segments) = Len(cp.segments)
         /\ Len(RolledBack.segments) = Len(cp.segments)
         /\ \A j \in 1..Len(cp.segments) : /\ SameRow(Promoted.segments[j], cp.segments[j])
                                           /\ SameRow(RolledBack.segments[j], cp.segments[j])
         /\ Promoted.tips = cp.segments[Turn].tips /\ RolledBack.tips = cp.segments[Turn].tips
         /\ Promoted.frontier = cp.segments[Turn].frontier
         /\ RolledBack.frontier = cp.segments[Turn].frontier
         /\ Rotated(Promoted) = Rotated(cp) \cup {Turn}
         /\ Rotated(RolledBack) = Rotated(cp)
<1> DEFINE i == Turn
           tips == cp.segments[i].tips
           frontier == cp.segments[i].frontier
           n == Len(cp.segments)
<1>1. i \in 1..n /\ i \notin Rotated(cp)
  BY TurnPlace
<1>2. n \in Nat /\ tips \in Tips /\ frontier \in Seq(Hashes)
  BY <1>1, RowType
<1> DEFINE on == [cp.segments[i] EXCEPT !.rotated = TRUE]
           off == [on EXCEPT !.rotated = FALSE]
           rows == [cp.segments EXCEPT ![i] = on]
           back == [rows EXCEPT ![i] = off]
<1>3. /\ on \in Entries /\ SameRow(on, cp.segments[i]) /\ on.rotated
      /\ off \in Entries /\ SameRow(off, on) /\ ~off.rotated
  <2>1. cp.segments[i] \in Entries
    BY <1>1, RowType
  <2> HIDE DEF i
  <2> QED
    BY <2>1 DEF Entries, SameRow
<1>4. rows[i] = on
  <2>1. DOMAIN cp.segments = 1..n
    BY RowType
  <2> HIDE DEF on, i
  <2> QED
    BY <1>1, <2>1
<1>5. /\ Promoted = [segments |-> rows, tips |-> tips, frontier |-> frontier]
      /\ RolledBack = [segments |-> back, tips |-> tips, frontier |-> frontier]
  <2>1. cp = [segments |-> cp.segments, tips |-> cp.tips, frontier |-> cp.frontier]
    BY DEF Checkpoints
  <2>2. Promoted = [segments |-> rows, tips |-> tips, frontier |-> frontier]
    <3>1. Promoted = [cp EXCEPT !.segments = rows, !.tips = tips, !.frontier = frontier]
      BY DEF Promoted
    <3> HIDE DEF rows, tips, frontier
    <3> QED
      BY <2>1, <3>1
  <2>3. RolledBack = [Promoted EXCEPT !.segments = [Promoted.segments EXCEPT ![i] = [Promoted.segments[i] EXCEPT !.rotated = FALSE]]]
    BY DEF RolledBack
  <2>4. off = [on EXCEPT !.rotated = FALSE] /\ back = [rows EXCEPT ![i] = off]
    OBVIOUS
  <2> HIDE DEF rows, i, on, off, back
  <2> QED
    BY <1>4, <2>2, <2>3, <2>4
<1>6. rows = [cp.segments EXCEPT ![i] = on] /\ back = [rows EXCEPT ![i] = off]
  OBVIOUS
<1> HIDE DEF i, tips, frontier, on, off, rows, back
<1>7. /\ Promoted \in Checkpoints /\ Len(Promoted.segments) = n
      /\ \A j \in 1..n : SameRow(Promoted.segments[j], cp.segments[j])
      /\ \A j \in 1..n : j # i => Promoted.segments[j] = cp.segments[j]
      /\ Promoted.segments[i] = on
      /\ Promoted.tips = tips /\ Promoted.frontier = frontier
  BY <1>1, <1>2, <1>3, <1>5, <1>6, RowReplaced
<1>8. /\ RolledBack \in Checkpoints /\ Len(RolledBack.segments) = n
      /\ \A j \in 1..n : SameRow(RolledBack.segments[j], cp.segments[j])
      /\ \A j \in 1..n : j # i => RolledBack.segments[j] = cp.segments[j]
      /\ RolledBack.segments[i] = off
      /\ RolledBack.tips = tips /\ RolledBack.frontier = frontier
  <2>1. back = [cp.segments EXCEPT ![i] = off]
    BY <1>6
  <2>2. SameRow(off, cp.segments[i])
    BY <1>3 DEF SameRow
  <2> QED
    BY <1>1, <1>2, <1>3, <1>5, <2>1, <2>2, RowReplaced
<1>10. /\ Rotated(cp) = {j \in 1..n : cp.segments[j].rotated}
       /\ Rotated(Promoted) = {j \in 1..n : Promoted.segments[j].rotated}
       /\ Rotated(RolledBack) = {j \in 1..n : RolledBack.segments[j].rotated}
  BY <1>7, <1>8, RowType
<1>11. \A j : j \in Rotated(Promoted) <=> j \in Rotated(cp) \/ j = i
  BY <1>1, <1>3, <1>7, <1>10, Zenon
<1>12. \A j : j \in Rotated(RolledBack) <=> j \in Rotated(cp)
  BY <1>1, <1>3, <1>7, <1>8, <1>10, Zenon
<1>13. Rotated(Promoted) = Rotated(cp) \cup {i} /\ Rotated(RolledBack) = Rotated(cp)
  BY <1>11, <1>12
<1> QED
  BY <1>7, <1>8, <1>13 DEF i, tips, frontier

LEMMA EntryType ==
  ASSUME TypeInv, NEW content \in Seq(Records), content # << >>
  PROVE  /\ SegmentEntry(content) \in Entries /\ ~SegmentEntry(content).rotated
<1>1. Boundary(cp) \in Nat /\ now \in Nat /\ snap.tips \in Tips /\ snap.frontier \in Seq(Hashes)
  BY BoundaryBounds DEF TypeInv, TypeOK
<1>2. Len(content) \in Nat /\ Len(content) > 0
  BY EmptySeq
<1>3. Boundary(cp) + Len(content) - 1 \in Nat
  BY <1>1, <1>2
<1>4. Min(TimesOf(content)) \in Nat /\ Max(TimesOf(content)) \in Nat
  BY StampsOfContent
<1> QED
  BY <1>1, <1>3, <1>4 DEF SegmentEntry, Entries

\* The inventory with the segment that was just sealed.
LEMMA InventoryType ==
  ASSUME TypeInv, pc = "inventory", hot[NextSegment] # << >>, NEW d,
         d = [cp EXCEPT !.segments = Append(@, SegmentEntry(hot[NextSegment]))]
  PROVE  /\ hot[NextSegment] \in Seq(Records)
         /\ d \in Checkpoints /\ Len(d.segments) = Len(cp.segments) + 1
         /\ Len(d.segments) <= MaxSegments
         /\ \A j \in 1..Len(cp.segments) : d.segments[j] = cp.segments[j]
         /\ d.segments[Len(cp.segments) + 1] = SegmentEntry(hot[NextSegment])
         /\ d.tips = cp.tips /\ d.frontier = cp.frontier
         /\ Rotated(d) = Rotated(cp)
<1>1. NextSegment \in Segments /\ cp \in Checkpoints
  BY NextSegmentPlace DEF TypeInv, TypeOK
<1>2. hot[NextSegment] \in Seq(Records)
  <2>1. hot[NextSegment] \in Files /\ Exists(hot[NextSegment])
    BY <1>1 DEF TypeInv, TypeOK, Places
  <2> QED
    BY <2>1, FileKinds
<1>3. SegmentEntry(hot[NextSegment]) \in Entries /\ ~SegmentEntry(hot[NextSegment]).rotated
  BY <1>2, EntryType
<1>4. Len(cp.segments) \in Nat /\ Len(cp.segments) < MaxSegments
  BY RowType DEF TypeInv, TypeOK, Places
<1>5. /\ d \in Checkpoints /\ Len(d.segments) = Len(cp.segments) + 1
      /\ \A j \in 1..Len(cp.segments) : d.segments[j] = cp.segments[j]
      /\ d.segments[Len(cp.segments) + 1] = SegmentEntry(hot[NextSegment])
      /\ d.tips = cp.tips /\ d.frontier = cp.frontier
      /\ Rotated(d) = Rotated(cp)
  BY <1>1, <1>3, RowAppended
<1> QED
  BY <1>2, <1>4, <1>5, RetentionAssumption

\* What a boot reads.
LEMMA InOrderType ==
  ASSUME NEW dir \in [Segments -> Files], NEW skip
  PROVE  InOrder(dir, skip) \in Seq(Records)
<1> DEFINE parts == [i \in Segments |-> IF i \in skip THEN << >> ELSE Content(dir[i])]
<1>1. \A i \in Segments : parts[i] \in Seq(Records)
  <2> TAKE i \in Segments
  <2>1. dir[i] \in Files
    OBVIOUS
  <2>2. Content(dir[i]) \in Seq(Records) /\ << >> \in Seq(Records)
    BY <2>1, FileKinds, EmptySeq
  <2> QED
    BY <2>2
<1>2. parts \in [1..MaxSegments -> Seq(Records)]
  BY <1>1 DEF Segments
<1>3. MaxSegments \in Nat
  BY RetentionAssumption
<1>4. InOrder(dir, skip) = FlattenSeq(parts)
  BY DEF InOrder
<1> HIDE DEF parts
<1>5. parts \in Seq(Seq(Records))
  BY <1>2, <1>3
<1> QED
  BY <1>4, <1>5, FlattenType

LEMMA HotRecordsType ==
  ASSUME TypeOK, NEW skip
  PROVE  HotRecords(skip) \in Seq(Records)
<1>1. hot \in [Segments -> Files] /\ active \in Files
  BY DEF TypeOK
<1>2. InOrder(hot, skip) \in Seq(Records) /\ Content(active) \in Seq(Records)
  BY <1>1, InOrderType, FileKinds
<1> QED
  BY <1>2, ConcatProperties DEF HotRecords
-----------------------------------------------------------------------------
LEMMA TypeInit == Init => TypeInv
<1> SUFFICES ASSUME Init PROVE TypeInv
  OBVIOUS
<1>1. << >> \in Seq(Records) /\ << >> \in Seq(Hashes) /\ Genesis(Sources) \in Tips
  BY EmptySeq, GenesisType
<1>2. NoFile \in Files /\ << >> \in Files /\ Exists(<< >>)
  BY <1>1, NoFileAssumption DEF Files, Exists
<1>3. EmptyCheckpoint \in Checkpoints /\ Len(EmptyCheckpoint.segments) = 0
  BY EmptyCheckpointType
<1>4. TypeOK
  BY <1>1, <1>2, <1>3 DEF Init, TypeOK, NoSnapshot
<1>5. Places
  BY <1>2, <1>3, RetentionAssumption DEF Init, Places
<1> QED
  BY <1>4, <1>5 DEF TypeInv

LEMMA JournalTyped == TypeInv => JournalOK /\ Places
BY DEF TypeInv, TypeOK, JournalOK

\* Admissions.
LEMMA AdmitType ==
  ASSUME TypeInv, NEW s \in Producers, NEW t \in Times, Admit(s, t)
  PROVE  TypeInv' /\ Emission
<1>1. s \in Sources /\ t \in Nat
  BY RetentionAssumption DEF Sources
<1>2. Emission
  <2>0. "event" \in Bodies
    BY DEF Bodies
  <2>1. Commit(NextRecord(s, "event", t))
    BY DEF Admit
  <2>2. \E u \in Sources, body \in Bodies, v \in Nat : Commit(NextRecord(u, body, v))
    BY <1>1, <2>0, <2>1, Zenon
  <2> QED
    BY <2>2 DEF Admit, Emission
<1>3. JournalOK' /\ (Exists(active') <=> Exists(active))
  BY <1>2, EmissionType, JournalTyped
<1> QED
  BY <1>2, <1>3 DEF Admit, TypeInv, TypeOK, Places, JournalOK, manager, NextSegment, Unrotated, Rotated

LEMMA AdmitRefusedType ==
  ASSUME TypeInv, NEW t \in Times, AdmitRefused(t)
  PROVE  TypeInv'
<1>1. t \in Nat
  BY RetentionAssumption
<1> QED
  BY <1>1 DEF AdmitRefused, TypeInv, TypeOK, Places, disk, manager, NextSegment, Unrotated, Rotated

LEMMA TickBeginsType ==
  ASSUME TypeInv, NEW t \in Times, TickBegins(t)
  PROVE  TypeInv'
<1>1. t \in Nat
  BY RetentionAssumption
<1>2. pc' \in {"seal", "rotate"} /\ (pc' = "seal" => Len(cp.segments) < MaxSegments)
  BY DEF TickBegins, SealDue
<1>3. TypeOK'
  BY <1>1, <1>2 DEF TickBegins, TypeInv, TypeOK, disk, serving
<1> QED
  BY <1>2, <1>3 DEF TickBegins, TypeInv, Places, disk, serving

\* The first part of a tick.
LEMMA SealType ==
  ASSUME TypeInv, Seal
  PROVE  TypeInv'
<1>0. JournalOK /\ Places /\ NoFile \in Files
  BY JournalTyped DEF Files
<1>1. CASE SealRenames
  <2>1. NextSegment \in Segments /\ Len(cp.segments) < MaxSegments
    BY <1>1, NextSegmentPlace DEF SealRenames, TypeInv, Places
  <2>2. Exists(active) /\ active \in Files
    BY <1>1 DEF SealRenames, TypeInv, TypeOK, Places
  <2>3. hot' \in [Segments -> Files] /\ hot'[NextSegment] = active
    BY <1>1, <2>1, <2>2 DEF SealRenames, TypeInv, TypeOK
  <2>4. TypeOK'
    BY <1>0, <1>1, <2>3 DEF SealRenames, TypeInv, TypeOK, serving
  <2>5. Places'
    BY <1>0, <1>1, <2>1, <2>2, <2>3 DEF SealRenames, Places, serving, NextSegment
  <2> QED
    BY <2>4, <2>5 DEF TypeInv
<1>2. CASE SealFails
  <2>1. NextSegment \in Segments
    BY <1>2, NextSegmentPlace DEF SealFails
  <2>2. PICK handle \in {wal, "closed"} : wal' = handle /\ EmitOnce(handle, NextSegment, "seal_failure")
    BY <1>2 DEF SealFails
  <2>3. Emission /\ failing' \subseteq Segments
    <3>0. "seal_failure" \in Bodies
      BY DEF Bodies
    <3>1. EmitOnce(handle, NextSegment, "seal_failure")
      BY <2>2
    <3>2. handle = "open" => wal = "open" /\ pc # "reopen"
      BY <1>2, <2>2 DEF SealFails
    <3>3. Emission /\ failing' = failing \cup {NextSegment} /\ failing' \subseteq Segments
      BY ONLY TypeInv, <2>1, <3>0, <3>1, <3>2, EmitOnceIsEmission
    <3> QED
      BY <3>3
  <2>4. JournalOK' /\ (Exists(active') <=> Exists(active))
    BY <1>0, <2>3, EmissionType
  <2>5. TypeOK'
    BY <1>2, <2>2, <2>3, <2>4 DEF SealFails, TypeInv, TypeOK, JournalOK
  <2>6. Places'
    BY <1>0, <1>2, <2>2, <2>4 DEF SealFails, Places
  <2> QED
    BY <2>5, <2>6 DEF TypeInv
<1>3. CASE SealWedges
  <2>1. NextSegment \in Segments
    BY <1>3, NextSegmentPlace DEF SealWedges
  <2>3. Emission /\ failing' \subseteq Segments
    <3>0. "seal_failure" \in Bodies
      BY DEF Bodies
    <3>1. EmitOnce("closed", NextSegment, "seal_failure")
      BY <1>3 DEF SealWedges
    <3>2. "closed" # "open"
      OBVIOUS
    <3>3. Emission /\ failing' = failing \cup {NextSegment} /\ failing' \subseteq Segments
      BY ONLY TypeInv, <2>1, <3>0, <3>1, <3>2, EmitOnceIsEmission
    <3> QED
      BY <3>3
  <2>4. JournalOK' /\ (Exists(active') <=> Exists(active))
    BY <1>0, <2>3, EmissionType
  <2>5. TypeOK'
    BY <1>3, <2>3, <2>4 DEF SealWedges, TypeInv, TypeOK, JournalOK
  <2>6. Places'
    BY <1>0, <1>3, <2>4 DEF SealWedges, Places
  <2> QED
    BY <2>5, <2>6 DEF TypeInv
<1>4. CASE SealReopens
  <2>1. << >> \in Files /\ Exists(<< >>)
    BY EmptySeq, NoFileAssumption DEF Files, Exists
  <2>2. snap' \in [tips : Tips, frontier : Seq(Hashes)]
    BY <1>4 DEF SealReopens, TypeInv, TypeOK
  <2>3. TypeOK'
    BY <1>4, <2>1, <2>2 DEF SealReopens, TypeInv, TypeOK, serving
  <2>4. Places'
    BY <1>0, <1>4, <2>1 DEF SealReopens, Places, serving, NextSegment
  <2> QED
    BY <2>3, <2>4 DEF TypeInv
<1>5. ASSUME pc = "inventory" PROVE NoSnapshot \in [tips : Tips, frontier : Seq(Hashes)]
  BY GenesisType, EmptySeq DEF NoSnapshot
<1>6. CASE InventoryFails
  <2>1. NextSegment \in Segments
    BY <1>6, NextSegmentPlace DEF InventoryFails
  <2>3. Emission /\ failing' \subseteq Segments
    <3>0. "seal_failure" \in Bodies
      BY DEF Bodies
    <3>1. EmitOnce(wal, NextSegment, "seal_failure")
      BY <1>6 DEF InventoryFails
    <3>2. wal = "open" => wal = "open" /\ pc # "reopen"
      BY <1>6 DEF InventoryFails
    <3>3. Emission /\ failing' = failing \cup {NextSegment} /\ failing' \subseteq Segments
      BY ONLY TypeInv, <2>1, <3>0, <3>1, <3>2, EmitOnceIsEmission
    <3> QED
      BY <3>3
  <2>4. JournalOK' /\ (Exists(active') <=> Exists(active))
    BY <1>0, <2>3, EmissionType
  <2>5. TypeOK'
    BY <1>5, <1>6, <2>3, <2>4 DEF InventoryFails, TypeInv, TypeOK, JournalOK
  <2>6. Places'
    BY <1>0, <1>6, <2>4 DEF InventoryFails, Places
  <2> QED
    BY <2>5, <2>6 DEF TypeInv
<1>7. CASE InventorySaves
  <2>1. cp' \in Checkpoints /\ Len(cp'.segments) <= MaxSegments
    BY <1>7, InventoryType DEF InventorySaves
  <2>2. TypeOK'
    BY <1>5, <1>7, <2>1 DEF InventorySaves, TypeInv, TypeOK, serving
  <2>3. Places'
    BY <1>0, <1>7, <2>1 DEF InventorySaves, Places, serving
  <2> QED
    BY <2>2, <2>3 DEF TypeInv
<1>8. CASE InventoryUnsaved
  <2>1. cp' \in Checkpoints /\ Len(cp'.segments) <= MaxSegments
    BY <1>8, InventoryType DEF InventoryUnsaved
  <2>2. Emission
    <3>0. "seal_failure" \in Bodies
      BY DEF Bodies
    <3>1. SelfEmit(wal, "seal_failure")
      BY <1>8 DEF InventoryUnsaved
    <3>2. wal = "open" => wal = "open" /\ pc # "reopen"
      BY <1>8 DEF InventoryUnsaved
    <3> QED
      BY ONLY TypeInv, <3>0, <3>1, <3>2, SelfEmitIsEmission
  <2>3. JournalOK' /\ (Exists(active') <=> Exists(active))
    BY <1>0, <2>2, EmissionType
  <2>4. TypeOK'
    BY <1>5, <1>8, <2>1, <2>3 DEF InventoryUnsaved, TypeInv, TypeOK, JournalOK
  <2>5. Places'
    BY <1>0, <1>8, <2>1, <2>3 DEF InventoryUnsaved, Places
  <2> QED
    BY <2>4, <2>5 DEF TypeInv
<1> QED
  BY <1>1, <1>2, <1>3, <1>4, <1>6, <1>7, <1>8 DEF Seal

LEMMA TurnInSegments ==
  ASSUME TypeInv, Unrotated(cp) # {}
  PROVE  /\ Turn \in 1..Len(cp.segments) /\ Turn \in Segments /\ Turn \notin Rotated(cp)
         /\ \A j \in 1..Len(cp.segments) : j < Turn => j \in Rotated(cp)
<1>1. cp \in Checkpoints
  BY DEF TypeInv, TypeOK
<1> QED
  BY <1>1, TurnPlace, RowsInSegments

LEMMA RotationFailsType ==
  ASSUME TypeInv, Unrotated(cp) # {}, pc # "reopen", RotationFails
  PROVE  /\ Emission /\ failing' \subseteq Segments /\ pc' = "breach"
         /\ JournalOK' /\ (Exists(active') <=> Exists(active))
         /\ UNCHANGED <<faults, proc, wal, offset, now, snap, breached>>
<1>1. Turn \in Segments
  BY TurnInSegments
<1>2. Emission /\ failing' \subseteq Segments
  <2>0. "rotation_failure" \in Bodies
    BY DEF Bodies
  <2>1. EmitOnce(wal, Turn, "rotation_failure")
    BY DEF RotationFails
  <2>2. wal = "open" => wal = "open" /\ pc # "reopen"
    OBVIOUS
  <2>3. Emission /\ failing' = failing \cup {Turn} /\ failing' \subseteq Segments
    BY ONLY TypeInv, <1>1, <2>0, <2>1, <2>2, EmitOnceIsEmission
  <2> QED
    BY <2>3
<1>3. JournalOK' /\ (Exists(active') <=> Exists(active))
  BY <1>2, EmissionType, JournalTyped
<1> QED
  BY <1>2, <1>3 DEF RotationFails

\* The copy of a segment, and of what the medium took of it.
LEMMA FrontType ==
  ASSUME NEW f \in Seq(Records)
  PROVE  Front(f) \in Seq(Records)
<1>1. Len(f) \in Nat
  BY LenProperties
<1>2. Len(f) - 1 \in Int /\ \A i \in 1..(Len(f) - 1) : i \in 1..Len(f)
  BY <1>1
<1>3. \A i \in 1..(Len(f) - 1) : f[i] \in Records
  BY <1>2, ElementOfSeq
<1>4. SubSeq(f, 1, Len(f) - 1) \in Seq(Records)
  BY <1>2, <1>3, SubSeqProperties
<1> QED
  BY <1>4 DEF Front

\* The second part of a tick.
LEMMA RotateType ==
  ASSUME TypeInv, Rotate
  PROVE  TypeInv'
<1>0. /\ JournalOK /\ Places /\ NoFile \in Files
      /\ hot \in [Segments -> Files] /\ cold \in [Segments -> Files] /\ temp \in Files
  BY JournalTyped DEF Files, TypeInv, TypeOK
<1>1. CASE NothingToRotate
  BY <1>1 DEF NothingToRotate, TypeInv, TypeOK, Places, disk, serving
<1>2. ASSUME Unrotated(cp) # {}
      PROVE  /\ Turn \in Segments /\ hot[Turn] \in Files /\ cold[Turn] \in Files
             /\ [hot EXCEPT ![Turn] = NoFile] \in [Segments -> Files]
             /\ \A f \in Files : [cold EXCEPT ![Turn] = f] \in [Segments -> Files]
  BY <1>0, <1>2, TurnInSegments
<1>3. ASSUME RotationIsDue PROVE Unrotated(cp) # {}
  BY <1>3 DEF RotationIsDue
<1>4. CASE ResumeRemovesHot
  <2>1. hot' \in [Segments -> Files] /\ Unrotated(cp) # {}
    BY <1>2, <1>3, <1>4 DEF ResumeRemovesHot
  <2>2. TypeOK'
    BY <1>0, <1>4, <2>1 DEF ResumeRemovesHot, TypeInv, TypeOK, serving
  <2>3. Places'
    BY <1>0, <1>4, <2>1 DEF ResumeRemovesHot, Places, serving, Unrotated, Rotated
  <2> QED
    BY <2>2, <2>3 DEF TypeInv
<1>5. CASE ResumeFails
  <2>1. hot' \in [Segments -> Files] /\ Unrotated(cp) # {} /\ RotationFails /\ pc = "rotate"
    BY <1>0, <1>2, <1>3, <1>5 DEF ResumeFails
  <2>2. /\ failing' \subseteq Segments /\ pc' = "breach"
        /\ JournalOK' /\ (Exists(active') <=> Exists(active))
        /\ UNCHANGED <<faults, proc, wal, offset, now, snap, breached>>
    BY <2>1, RotationFailsType
  <2>3. TypeOK'
    BY <1>0, <1>5, <2>1, <2>2 DEF ResumeFails, TypeInv, TypeOK, JournalOK
  <2>4. Places'
    BY <1>0, <1>5, <2>1, <2>2 DEF ResumeFails, Places
  <2> QED
    BY <2>3, <2>4 DEF TypeInv
<1>6. CASE ResumeFinished
  <2>1. Unrotated(cp) # {}
    BY <1>3, <1>6 DEF ResumeFinished
  <2>2. TypeOK'
    BY <1>0, <1>6 DEF ResumeFinished, TypeInv, TypeOK, serving
  <2>3. Places'
    BY <1>0, <1>6, <2>1 DEF ResumeFinished, Places, serving, Unrotated, Rotated
  <2> QED
    BY <2>2, <2>3 DEF TypeInv
<1>7. CASE CopyWrites
  <2>1. Unrotated(cp) # {} /\ Exists(hot[Turn])
    BY <1>3, <1>7 DEF CopyWrites
  <2>2. hot[Turn] \in Seq(Records) /\ Front(hot[Turn]) \in Seq(Records)
    BY <1>2, <2>1, FileKinds, FrontType
  <2>3. temp' \in Files
    BY <1>7, <2>2 DEF CopyWrites, Files
  <2>4. TypeOK'
    BY <1>7, <2>3 DEF CopyWrites, TypeInv, TypeOK, serving
  <2>5. Places'
    BY <1>0, <1>7, <2>1 DEF CopyWrites, Places, serving, Unrotated, Rotated
  <2> QED
    BY <2>4, <2>5 DEF TypeInv
<1>8. CASE CopyRenames
  <2>1. Unrotated(cp) # {} /\ cold' \in [Segments -> Files]
    BY <1>0, <1>2, <1>8 DEF CopyRenames, Places
  <2>2. TypeOK'
    BY <1>0, <1>8, <2>1 DEF CopyRenames, TypeInv, TypeOK, serving
  <2>3. Places'
    BY <1>0, <1>8, <2>1 DEF CopyRenames, Places, serving, Unrotated, Rotated
  <2> QED
    BY <2>2, <2>3 DEF TypeInv
<1>9. CASE CopyFails
  <2>1. Unrotated(cp) # {} /\ RotationFails /\ pc = "copied"
    BY <1>0, <1>9 DEF CopyFails, Places
  <2>2. /\ failing' \subseteq Segments /\ pc' = "breach"
        /\ JournalOK' /\ (Exists(active') <=> Exists(active))
        /\ UNCHANGED <<faults, proc, wal, offset, now, snap, breached>>
    BY <2>1, RotationFailsType
  <2>3. TypeOK'
    BY <1>0, <1>9, <2>2 DEF CopyFails, TypeInv, TypeOK, JournalOK
  <2>4. Places'
    BY <1>0, <1>9, <2>1, <2>2 DEF CopyFails, Places
  <2> QED
    BY <2>3, <2>4 DEF TypeInv
<1>10. CASE CopyUnsynced
  <2>1. /\ Unrotated(cp) # {} /\ RotationFails /\ pc = "copied"
        /\ cold' \in [Segments -> Files]
    BY <1>0, <1>2, <1>10 DEF CopyUnsynced, Places
  <2>2. /\ failing' \subseteq Segments /\ pc' = "breach"
        /\ JournalOK' /\ (Exists(active') <=> Exists(active))
        /\ UNCHANGED <<faults, proc, wal, offset, now, snap, breached>>
    BY <2>1, RotationFailsType
  <2>3. TypeOK'
    BY <1>0, <1>10, <2>1, <2>2 DEF CopyUnsynced, TypeInv, TypeOK, JournalOK
  <2>4. Places'
    BY <1>0, <1>10, <2>1, <2>2 DEF CopyUnsynced, Places
  <2> QED
    BY <2>3, <2>4 DEF TypeInv
<1>11. CASE PromoteSaves
  <2>1. Unrotated(cp) # {} /\ cp \in Checkpoints
    BY <1>0, <1>11 DEF PromoteSaves, Places, TypeInv, TypeOK
  <2>2. /\ Promoted \in Checkpoints /\ Len(Promoted.segments) = Len(cp.segments)
        /\ Rotated(Promoted) = Rotated(cp) \cup {Turn}
    BY <2>1, PromotionType
  <2>3. TypeOK'
    BY <1>11, <2>2 DEF PromoteSaves, TypeInv, TypeOK, serving
  <2>4. cp' = Promoted /\ Rotated(cp') # {}
    BY <1>11, <2>2 DEF PromoteSaves
  <2>5. Places'
    BY <1>0, <1>11, <2>2, <2>4 DEF PromoteSaves, Places, serving
  <2> QED
    BY <2>3, <2>5 DEF TypeInv
<1>12. CASE PromoteUnsaved
  <2>1. Unrotated(cp) # {} /\ cp \in Checkpoints /\ RotationFails /\ pc = "promote"
    BY <1>0, <1>12 DEF PromoteUnsaved, Places, TypeInv, TypeOK
  <2>2. /\ Promoted \in Checkpoints /\ Len(Promoted.segments) = Len(cp.segments)
        /\ RolledBack \in Checkpoints /\ Len(RolledBack.segments) = Len(cp.segments)
    BY <2>1, PromotionType
  <2>3. saved' \in {saved, Promoted} /\ cp' = RolledBack
    BY <1>12 DEF PromoteUnsaved, RolledBack
  <2>4. /\ failing' \subseteq Segments /\ pc' = "breach"
        /\ JournalOK' /\ (Exists(active') <=> Exists(active))
        /\ UNCHANGED <<faults, proc, wal, offset, now, snap, breached>>
    BY <2>1, RotationFailsType
  <2>5. TypeOK'
    BY <1>12, <2>2, <2>3, <2>4 DEF PromoteUnsaved, TypeInv, TypeOK, JournalOK
  <2>6. Places'
    BY <1>0, <1>12, <2>1, <2>2, <2>3, <2>4 DEF PromoteUnsaved, Places
  <2> QED
    BY <2>5, <2>6 DEF TypeInv
<1>13. [hot EXCEPT ![Finishing] = NoFile] \in [Segments -> Files]
  BY <1>0
<1>14. CASE FinishRemoves
  <2>1. TypeOK'
    BY <1>13, <1>14 DEF FinishRemoves, TypeInv, TypeOK, serving
  <2>2. Places'
    BY <1>0, <1>14 DEF FinishRemoves, Places, serving
  <2> QED
    BY <2>1, <2>2 DEF TypeInv
<1>15. CASE FinishFails
  <2>1. Emission
    <3>0. "rotation_failure" \in Bodies
      BY DEF Bodies
    <3>1. SelfEmit(wal, "rotation_failure")
      BY <1>15 DEF FinishFails
    <3>2. wal = "open" => wal = "open" /\ pc # "reopen"
      BY <1>15 DEF FinishFails
    <3> QED
      BY ONLY TypeInv, <3>0, <3>1, <3>2, SelfEmitIsEmission
  <2>2. JournalOK' /\ (Exists(active') <=> Exists(active))
    BY <1>0, <2>1, EmissionType
  <2>3. hot' \in [Segments -> Files]
    BY <1>0, <1>13, <1>15 DEF FinishFails
  <2>4. TypeOK'
    BY <1>15, <2>2, <2>3 DEF FinishFails, TypeInv, TypeOK, JournalOK
  <2>5. Places'
    BY <1>0, <1>15, <2>2 DEF FinishFails, Places
  <2> QED
    BY <2>4, <2>5 DEF TypeInv
<1> QED
  BY <1>1, <1>4, <1>5, <1>6, <1>7, <1>8, <1>9, <1>10, <1>11, <1>12, <1>14, <1>15 DEF Rotate

\* The third part of a tick.
LEMMA BreachesType ==
  ASSUME TypeInv, Breaches
  PROVE  TypeInv'
<1>0. JournalOK /\ Places
  BY JournalTyped
<1>1. CASE EmitsBreach
  <2>1. Emission
    <3>0. "ceiling_breach" \in Bodies
      BY DEF Bodies
    <3>1. SelfEmit(wal, "ceiling_breach")
      BY <1>1 DEF EmitsBreach
    <3>2. wal = "open" => wal = "open" /\ pc # "reopen"
      BY <1>1 DEF EmitsBreach
    <3> QED
      BY ONLY TypeInv, <3>0, <3>1, <3>2, SelfEmitIsEmission
  <2>2. JournalOK' /\ (Exists(active') <=> Exists(active))
    BY <1>0, <2>1, EmissionType
  <2>3. breached' \subseteq Segments
    <3>1. Unrotated(cp) \subseteq 1..Len(cp.segments) /\ Len(cp.segments) \in Nat
      BY RowType DEF TypeInv, TypeOK
    <3>2. Breaching \in SUBSET Nat /\ Breaching # {} /\ Breaching \subseteq Unrotated(cp)
      BY <1>1, <3>1 DEF EmitsBreach, Breaching
    <3>3. Min(Breaching) \in Breaching
      BY <3>2, MinOfNumbers
    <3>4. Min(Breaching) \in Segments
      BY <3>1, <3>2, <3>3, RowsInSegments
    <3> QED
      BY <1>1, <3>4 DEF EmitsBreach, TypeInv, TypeOK
  <2>4. TypeOK'
    BY <1>1, <2>2, <2>3 DEF EmitsBreach, TypeInv, TypeOK, JournalOK
  <2>5. Places'
    BY <1>0, <1>1, <2>2 DEF EmitsBreach, Places
  <2> QED
    BY <2>4, <2>5 DEF TypeInv
<1>2. CASE TickEnds
  BY <1>2 DEF TickEnds, TypeInv, TypeOK, Places, disk, serving
<1> QED
  BY <1>1, <1>2 DEF Breaches

\* A crash and a boot.
LEMMA CrashType ==
  ASSUME TypeInv, Crash
  PROVE  TypeInv'
<1>1. << >> \in Seq(Records) /\ << >> \in Seq(Hashes) /\ Genesis(Sources) \in Tips
  BY EmptySeq, GenesisType
<1>2. EmptyCheckpoint \in Checkpoints /\ Len(EmptyCheckpoint.segments) = 0
  BY EmptyCheckpointType
<1>3. TypeOK'
  BY <1>1, <1>2 DEF Crash, TypeInv, TypeOK, NoSnapshot, disk
<1>4. Places'
  BY <1>2, RetentionAssumption DEF Crash, TypeInv, Places, disk
<1> QED
  BY <1>3, <1>4 DEF TypeInv

LEMMA BootTipsType ==
  ASSUME TypeOK
  PROVE  BootTips \in Tips /\ AnchorFloor(saved) \in Nat
BY GenesisType, AnchorFloorBounds DEF BootTips, TypeOK, Checkpoints

LEMMA BootServesType ==
  ASSUME TypeInv, BootServes
  PROVE  TypeInv'
<1> DEFINE recs == HotRecords(BootSkips)
<1>1. recs \in Seq(Records) /\ BootTips \in Tips /\ AnchorFloor(saved) \in Nat
  BY HotRecordsType, BootTipsType DEF TypeInv
<1>2. /\ records' = recs /\ offset' = Len(saved.frontier)
      /\ leaves' = saved.frontier \o LeavesOf(recs)
      /\ tip' = TipsOf(recs, BootTips) /\ floor' = FloorOf(recs, AnchorFloor(saved))
      /\ active' = Content(active) /\ cp' = saved /\ proc' = "up" /\ wal' = "open"
      /\ UNCHANGED <<faults, hot, cold, temp, saved, pc, now, snap, failing, breached, log>>
  BY DEF BootServes
<1> HIDE DEF recs
<1>3. saved.frontier \in Seq(Hashes) /\ Len(saved.frontier) \in Nat
  BY LenProperties DEF TypeInv, TypeOK, Checkpoints
<1>4. leaves' \in Seq(Hashes) /\ tip' \in Tips /\ floor' \in Nat
  <2>1. LeavesOf(recs) \in Seq(Hashes) /\ TipsOf(recs, BootTips) \in Tips
    BY <1>1, LeavesOfType, TipsOfType
  <2>2. FloorOf(recs, AnchorFloor(saved)) \in Nat
    <3>1. \A r \in Records : r.time \in Nat
      BY RecordFields
    <3> QED
      BY ONLY <1>1, <3>1, FloorOfList
  <2> QED
    BY <1>2, <1>3, <2>1, <2>2, ConcatProperties
<1>5. active' \in Files /\ Exists(active')
  <2>1. Content(active) \in Seq(Records)
    BY FileKinds DEF TypeInv, TypeOK
  <2> QED
    BY <1>2, <2>1, FileKinds DEF Files
<1>6. pc = "idle"
  BY DEF BootServes, TypeInv, Places
<1>7. TypeOK'
  BY <1>1, <1>2, <1>3, <1>4, <1>5 DEF TypeInv, TypeOK
<1>8. Places'
  BY <1>2, <1>5, <1>6 DEF TypeInv, Places
<1> QED
  BY <1>7, <1>8 DEF TypeInv

LEMMA TypeStep == TypeInv /\ [Next]_vars => TypeInv'
<1> SUFFICES ASSUME TypeInv, [Next]_vars PROVE TypeInv'
  OBVIOUS
<1>1. CASE UNCHANGED vars
  BY <1>1 DEF vars, disk, serving, manager, TypeInv, TypeOK, Places, NextSegment, Unrotated, Rotated
<1>2. CASE BootRefuses
  BY <1>2 DEF BootRefuses, disk, manager, TypeInv, TypeOK, Places, NextSegment, Unrotated, Rotated
<1> QED
  BY <1>1, <1>2, AdmitType, AdmitRefusedType, TickBeginsType, SealType, RotateType,
     BreachesType, CrashType, BootServesType DEF Next

\* Every variable keeps its type, a file handle that is open has a file behind
\* it, and the manager never seals or rotates a segment that is not there.
THEOREM TypeCorrect == Spec => []TypeOK
<1>1. TypeInv => TypeOK
  BY DEF TypeInv
<1> QED
  BY TypeInit, TypeStep, <1>1, PTL DEF Spec
-----------------------------------------------------------------------------
(* Nothing is lost between the two tiers, under every fault. *)

\* The inventory that is in force: the manager's, or the saved one for the
\* next boot.
Ledger == IF proc = "up" THEN cp ELSE saved

\* The hot copy of a segment goes only when the cold one is complete.
Kept == \A i \in 1..Len(Ledger.segments) :
          \/ hot[i] = Ledger.segments[i].digest
          \/ hot[i] = NoFile /\ cold[i] = Ledger.segments[i].digest

\* Segments reach the cold tier in their order.
InTurn == \A i \in Segments : \A j \in 1..(i - 1) : Exists(cold[i]) => j \in Rotated(Ledger)

KeepInv ==
  /\ proc = "up" => Follows(saved, cp) /\ Rotated(cp) \subseteq Rotated(saved)
  /\ Kept /\ InventoryHonest /\ InTurn
  /\ pc = "copied" => Exists(hot[Turn]) /\ ~Exists(cold[Turn])
  /\ pc = "promote" => cold[Turn] = cp.segments[Turn].digest

LEMMA FollowsItself ==
  ASSUME NEW c \in Checkpoints
  PROVE  Follows(c, c)
BY RowType DEF Follows, SameRow

LEMMA KeepInit == Init => KeepInv
<1> SUFFICES ASSUME Init PROVE KeepInv
  OBVIOUS
<1>1. EmptyCheckpoint \in Checkpoints /\ Len(EmptyCheckpoint.segments) = 0
  BY EmptyCheckpointType
<1>2. cp = EmptyCheckpoint /\ saved = EmptyCheckpoint /\ Ledger = EmptyCheckpoint
  BY DEF Init, Ledger
<1>3. Rotated(EmptyCheckpoint) = {}
  BY <1>1, RowType
<1>4. Kept /\ InventoryHonest
  BY <1>1, <1>2, <1>3 DEF Kept, InventoryHonest
<1>5. InTurn
  BY DEF Init, InTurn, Exists
<1>6. Follows(saved, cp)
  BY <1>1, <1>2, FollowsItself
<1> QED
  BY <1>2, <1>3, <1>4, <1>5, <1>6 DEF KeepInv, Init

\* A step that leaves the tiers, the checkpoints and the process alone.
LEMMA KeepFrame ==
  ASSUME KeepInv, UNCHANGED <<hot, cold, saved, cp>>,
         UNCHANGED proc \/ (proc = "down" /\ proc' = "refused"),
         pc' = "copied" => Exists(hot[Turn]) /\ ~Exists(cold[Turn]),
         pc' # "promote" \/ pc' = pc
  PROVE  KeepInv'
<1>1. Ledger' = Ledger /\ Turn' = Turn /\ Rotated(cp)' = Rotated(cp) /\ Rotated(saved)' = Rotated(saved)
  BY DEF Ledger, Turn, Unrotated, Rotated
<1>2. Kept' /\ InventoryHonest' /\ InTurn'
  BY <1>1 DEF KeepInv, Kept, InventoryHonest, InTurn, Rotated
<1>3. proc' = "up" => Follows(saved, cp)' /\ Rotated(cp)' \subseteq Rotated(saved)'
  BY <1>1 DEF KeepInv, Follows
<1> QED
  BY <1>1, <1>2, <1>3 DEF KeepInv

\* A row in the inventory and what is known of its copies.
LEMMA RowCopies ==
  ASSUME TypeInv, KeepInv, proc = "up", NEW i \in 1..Len(cp.segments)
  PROVE  /\ i \in Segments
         /\ cp.segments[i].digest \in Seq(Records) /\ cp.segments[i].digest # NoFile
         /\ Exists(hot[i]) => hot[i] = cp.segments[i].digest
         /\ ~Exists(hot[i]) => cold[i] = cp.segments[i].digest
<1>1. cp.segments[i].digest \in Seq(Records)
  BY RowType DEF TypeInv, TypeOK
<1>2. Ledger = cp
  BY DEF Ledger
<1> QED
  BY <1>1, <1>2, RowsInSegments, NoFileAssumption DEF KeepInv, Kept, Exists

\* What the checkpoint calls rotated is in the cold tier.
LEMMA RotatedIsCold ==
  ASSUME TypeInv, KeepInv
  PROVE  /\ \A i \in Rotated(saved) : /\ i \in 1..Len(saved.segments) /\ i \in Segments
                                      /\ cold[i] = saved.segments[i].digest /\ Exists(cold[i])
         /\ proc = "up" => \A i \in Rotated(cp) : /\ i \in 1..Len(cp.segments) /\ i \in Segments
                                                  /\ cold[i] = cp.segments[i].digest
<1>1. saved \in Checkpoints /\ cp \in Checkpoints
  BY DEF TypeInv, TypeOK
<1>2. ASSUME NEW i \in Rotated(saved)
      PROVE  /\ i \in 1..Len(saved.segments) /\ i \in Segments
             /\ cold[i] = saved.segments[i].digest /\ Exists(cold[i])
  <2>1. i \in 1..Len(saved.segments) /\ saved.segments[i].digest \in Seq(Records)
    BY <1>1, RowType
  <2>2. cold[i] = saved.segments[i].digest
    BY DEF KeepInv, InventoryHonest
  <2> QED
    BY <2>1, <2>2, RowsInSegments, NoFileAssumption DEF Exists
<1>3. ASSUME proc = "up", NEW i \in Rotated(cp)
      PROVE  i \in 1..Len(cp.segments) /\ i \in Segments /\ cold[i] = cp.segments[i].digest
  <2>1. i \in 1..Len(cp.segments) /\ i \in Rotated(saved)
    BY <1>1, <1>3, RowType DEF KeepInv
  <2>2. i \in 1..Len(saved.segments) /\ cold[i] = saved.segments[i].digest
    BY <1>2, <2>1
  <2>3. SameRow(saved.segments[i], cp.segments[i])
    BY <1>3, <2>2 DEF KeepInv, Follows
  <2> QED
    BY <2>1, <2>2, <2>3, RowsInSegments DEF SameRow
<1> QED
  BY <1>2, <1>3

LEMMA FinishingPlace ==
  ASSUME TypeInv, Rotated(cp) # {}
  PROVE  Finishing \in Rotated(cp) /\ \A j \in Rotated(cp) : j <= Finishing
<1> DEFINE n == Len(cp.segments)
<1>1. n \in Nat /\ Rotated(cp) \in SUBSET (1..n)
  BY RowType DEF TypeInv, TypeOK
<1> HIDE DEF n
<1>2. Max(Rotated(cp)) \in Rotated(cp) /\ \A j \in Rotated(cp) : Max(Rotated(cp)) >= j
  BY <1>1, MaxOfPositions
<1>3. Max(Rotated(cp)) \in Nat /\ \A j \in Rotated(cp) : j \in Nat
  BY <1>1, <1>2
<1> QED
  BY <1>2, <1>3 DEF Finishing

\* A hot copy goes: of a segment whose cold copy is complete.
LEMMA KeepRemoval ==
  ASSUME TypeInv, KeepInv, proc = "up", NEW i \in 1..Len(cp.segments),
         cold[i] = cp.segments[i].digest,
         hot' \in {hot, [hot EXCEPT ![i] = NoFile]},
         UNCHANGED <<cold, saved, cp, proc>>, pc' # "copied",
         pc' = "promote" => i = Turn
  PROVE  KeepInv'
<1>1. /\ Ledger' = Ledger /\ Ledger = cp /\ Turn' = Turn
      /\ Rotated(cp)' = Rotated(cp) /\ Rotated(saved)' = Rotated(saved)
  BY DEF Ledger, Turn, Unrotated, Rotated
<1>2. \A j \in Segments : hot'[j] = hot[j] \/ (j = i /\ hot'[j] = NoFile)
  BY DEF TypeInv, TypeOK
<1>3. Kept'
  <2> SUFFICES ASSUME NEW j \in 1..Len(cp.segments)
               PROVE  \/ hot'[j] = cp.segments[j].digest
                      \/ hot'[j] = NoFile /\ cold[j] = cp.segments[j].digest
    BY <1>1 DEF Kept
  <2>1. \/ hot[j] = cp.segments[j].digest
        \/ hot[j] = NoFile /\ cold[j] = cp.segments[j].digest
    BY <1>1 DEF KeepInv, Kept
  <2>2. j \in Segments
    BY RowsInSegments
  <2> QED
    BY <1>2, <2>1, <2>2
<1>4. InventoryHonest' /\ InTurn'
  BY <1>1 DEF KeepInv, InventoryHonest, InTurn
<1>5. Follows(saved, cp)' /\ Rotated(cp)' \subseteq Rotated(saved)'
  BY <1>1 DEF KeepInv, Follows
<1> QED
  BY <1>1, <1>3, <1>4, <1>5 DEF KeepInv

\* A cold copy gets its name: of the segment whose turn it is.
LEMMA KeepCopy ==
  ASSUME TypeInv, KeepInv, proc = "up", pc = "copied", temp = hot[Turn],
         cold' = [cold EXCEPT ![Turn] = temp],
         UNCHANGED <<hot, saved, cp, proc>>, pc' # "copied"
  PROVE  KeepInv'
<1>0. Unrotated(cp) # {}
  BY DEF TypeInv, Places
<1>1. /\ Ledger' = Ledger /\ Ledger = cp /\ Turn' = Turn
      /\ Rotated(cp)' = Rotated(cp) /\ Rotated(saved)' = Rotated(saved)
  BY DEF Ledger, Turn, Unrotated, Rotated
<1>2. /\ Turn \in 1..Len(cp.segments) /\ Turn \in Segments
      /\ \A j \in 1..Len(cp.segments) : j < Turn => j \in Rotated(cp)
  BY <1>0, TurnInSegments
<1>3. Exists(hot[Turn]) /\ ~Exists(cold[Turn])
  BY DEF KeepInv
<1>4. \A j \in Segments : cold'[j] = IF j = Turn THEN hot[Turn] ELSE cold[j]
  BY DEF TypeInv, TypeOK
<1>5. hot[Turn] = cp.segments[Turn].digest
  BY <1>2, <1>3, RowCopies
<1>6. Kept'
  <2> SUFFICES ASSUME NEW j \in 1..Len(cp.segments)
               PROVE  \/ hot[j] = cp.segments[j].digest
                      \/ hot[j] = NoFile /\ cold'[j] = cp.segments[j].digest
    BY <1>1 DEF Kept
  <2>1. \/ hot[j] = cp.segments[j].digest
        \/ hot[j] = NoFile /\ cold[j] = cp.segments[j].digest
    BY <1>1 DEF KeepInv, Kept
  <2>2. j \in Segments
    BY RowsInSegments
  <2> QED
    BY <1>4, <1>5, <2>1, <2>2
<1>7. InventoryHonest'
  <2> SUFFICES ASSUME NEW i \in Rotated(saved) PROVE cold'[i] = saved.segments[i].digest
    BY <1>1 DEF InventoryHonest
  <2>1. i \in Segments /\ cold[i] = saved.segments[i].digest /\ Exists(cold[i])
    BY RotatedIsCold
  <2> QED
    BY <1>3, <1>4, <2>1
<1>8. InTurn'
  <2> SUFFICES ASSUME NEW i \in Segments, NEW j \in 1..(i - 1), Exists(cold'[i])
               PROVE  j \in Rotated(cp)
    BY <1>1 DEF InTurn, Exists
  <2>1. CASE i = Turn
    <3>1. j \in 1..Len(cp.segments) /\ j < Turn
      BY <1>2, <2>1, RowType DEF TypeInv, TypeOK
    <3> QED
      BY <1>2, <3>1
  <2>2. CASE i # Turn
    BY <1>1, <1>4, <2>2 DEF KeepInv, InTurn
  <2> QED
    BY <2>1, <2>2
<1>9. Follows(saved, cp)' /\ Rotated(cp)' \subseteq Rotated(saved)'
  BY <1>1 DEF KeepInv, Follows
<1>10. pc' = "promote" => cold'[Turn] = cp.segments[Turn].digest
  BY <1>2, <1>4, <1>5
<1> QED
  BY <1>1, <1>6, <1>7, <1>8, <1>9, <1>10 DEF KeepInv

\* The checkpoints change and the tiers do not: to one with the same rows, and
\* possibly one more that describes a hot file or one more that is rotated.
LEMMA KeepLedger ==
  ASSUME TypeInv, KeepInv, proc = "up", UNCHANGED <<hot, cold, proc>>,
         cp' \in Checkpoints, saved' \in Checkpoints,
         Follows(cp, cp'), Rotated(cp) \subseteq Rotated(cp'),
         \A i \in 1..Len(cp'.segments) : i > Len(cp.segments) => hot[i] = cp'.segments[i].digest,
         Follows(saved', cp'), Rotated(cp') \subseteq Rotated(saved'),
         \A i \in Rotated(saved') : i \in Rotated(saved) \/ cold[i] = saved'.segments[i].digest,
         pc' \notin {"copied", "promote"}
  PROVE  KeepInv'
<1>1. Ledger' = cp' /\ Ledger = cp
  BY DEF Ledger
<1>2. /\ Len(cp.segments) \in Nat /\ Len(cp'.segments) \in Nat /\ Len(saved'.segments) \in Nat
      /\ Len(saved.segments) \in Nat /\ Len(cp.segments) <= Len(cp'.segments)
      /\ Len(saved.segments) <= Len(cp.segments)
  BY RowType DEF TypeInv, TypeOK, Follows, KeepInv
<1>3. Kept'
  <2> SUFFICES ASSUME NEW i \in 1..Len(cp'.segments)
               PROVE  \/ hot[i] = cp'.segments[i].digest
                      \/ hot[i] = NoFile /\ cold[i] = cp'.segments[i].digest
    BY <1>1 DEF Kept
  <2>1. CASE i > Len(cp.segments)
    BY <2>1
  <2>2. CASE i \in 1..Len(cp.segments)
    <3>1. SameRow(cp.segments[i], cp'.segments[i])
      BY <2>2 DEF Follows
    <3> QED
      BY <1>1, <2>2, <3>1 DEF KeepInv, Kept, SameRow
  <2> QED
    BY <1>2, <2>1, <2>2
<1>4. InventoryHonest'
  <2> SUFFICES ASSUME NEW i \in Rotated(saved') PROVE cold[i] = saved'.segments[i].digest
    BY DEF InventoryHonest, Rotated
  <2>1. i \in 1..Len(saved'.segments)
    BY RowType
  <2>2. CASE i \in Rotated(saved)
    <3>1. i \in 1..Len(saved.segments) /\ cold[i] = saved.segments[i].digest
      BY <2>2, RotatedIsCold
    <3>2. i \in 1..Len(cp.segments)
      BY <1>2, <3>1
    <3>3. SameRow(saved.segments[i], cp.segments[i])
      BY <3>1 DEF KeepInv, Follows
    <3>4. SameRow(cp.segments[i], cp'.segments[i])
      BY <3>2 DEF Follows
    <3>5. SameRow(saved'.segments[i], cp'.segments[i])
      BY <2>1 DEF Follows
    <3> QED
      BY <3>1, <3>3, <3>4, <3>5 DEF SameRow
  <2> QED
    BY <2>2
<1>5. InTurn'
  <2> SUFFICES ASSUME NEW i \in Segments, NEW j \in 1..(i - 1), Exists(cold[i])
               PROVE  j \in Rotated(cp')
    BY <1>1 DEF InTurn, Exists
  <2> QED
    BY <1>1 DEF KeepInv, InTurn
<1>6. proc' = "up" => Follows(saved, cp)' /\ Rotated(cp)' \subseteq Rotated(saved)'
  BY DEF Follows, Rotated
<1> QED
  BY <1>3, <1>4, <1>5, <1>6 DEF KeepInv

\* With one more row the inventory is still in force.
LEMMA InventoryFollows ==
  ASSUME TypeInv, pc = "inventory", hot[NextSegment] # << >>, NEW d,
         d = [cp EXCEPT !.segments = Append(@, SegmentEntry(hot[NextSegment]))]
  PROVE  /\ d \in Checkpoints /\ Follows(cp, d) /\ Rotated(d) = Rotated(cp)
         /\ Len(d.segments) = Len(cp.segments) + 1
         /\ \A i \in 1..Len(d.segments) : i > Len(cp.segments) => hot[i] = d.segments[i].digest
<1>1. /\ d \in Checkpoints /\ Len(d.segments) = Len(cp.segments) + 1
      /\ \A j \in 1..Len(cp.segments) : d.segments[j] = cp.segments[j]
      /\ d.segments[Len(cp.segments) + 1] = SegmentEntry(hot[NextSegment])
      /\ Rotated(d) = Rotated(cp)
  BY InventoryType
<1>2. Len(cp.segments) \in Nat
  BY RowType DEF TypeInv, TypeOK
<1>3. Follows(cp, d)
  BY <1>1, <1>2 DEF Follows, SameRow
<1>4. SegmentEntry(hot[NextSegment]).digest = hot[NextSegment]
  BY DEF SegmentEntry
<1>5. \A i \in 1..Len(d.segments) : i > Len(cp.segments) => i = NextSegment
  BY <1>1, <1>2 DEF NextSegment
<1> QED
  BY <1>1, <1>3, <1>4, <1>5 DEF NextSegment

LEMMA FollowsTransitive ==
  ASSUME NEW a, NEW b, NEW c, Len(a.segments) \in Nat, Len(b.segments) \in Nat, Len(c.segments) \in Nat,
         Follows(a, b), Follows(b, c)
  PROVE  Follows(a, c)
<1>1. /\ Len(a.segments) <= Len(c.segments)
      /\ \A i \in 1..Len(a.segments) : i \in 1..Len(b.segments)
  BY DEF Follows
<1> QED
  BY <1>1 DEF Follows, SameRow

LEMMA KeepSeal ==
  ASSUME TypeInv, KeepInv, Seal
  PROVE  KeepInv'
<1>0. pc \in {"seal", "reopen", "inventory"} => proc = "up"
  BY DEF TypeInv, Places
<1>1. CASE SealRenames
  <2>1. NextSegment \in Segments /\ NextSegment = Len(cp.segments) + 1 /\ Len(cp.segments) \in Nat
    BY <1>1, NextSegmentPlace, RowType DEF SealRenames, TypeInv, TypeOK
  <2>2. \A i \in 1..Len(cp.segments) : i \in Segments /\ i # NextSegment
    BY <2>1, RowsInSegments
  <2>3. \A i \in 1..Len(cp.segments) : hot'[i] = hot[i]
    BY <1>1, <2>2 DEF SealRenames, TypeInv, TypeOK
  <2>4. /\ UNCHANGED <<cold, saved, cp, proc>> /\ pc' = "reopen" /\ proc = "up"
    BY <1>0, <1>1 DEF SealRenames, serving
  <2>5. Ledger' = cp /\ Ledger = cp /\ Rotated(cp)' = Rotated(cp) /\ Rotated(saved)' = Rotated(saved)
    BY <2>4 DEF Ledger, Rotated
  <2>6. Kept'
    BY <2>3, <2>4, <2>5 DEF KeepInv, Kept
  <2>7. InventoryHonest' /\ InTurn' /\ Follows(saved, cp)' /\ Rotated(cp)' \subseteq Rotated(saved)'
    BY <2>4, <2>5 DEF KeepInv, InventoryHonest, InTurn, Follows
  <2> QED
    BY <2>4, <2>6, <2>7 DEF KeepInv
<1>2. CASE SealFails
  BY <1>2, KeepFrame DEF SealFails
<1>3. CASE SealWedges
  BY <1>3, KeepFrame DEF SealWedges
<1>4. CASE SealReopens
  BY <1>4, KeepFrame DEF SealReopens, serving
<1>5. CASE InventoryFails
  BY <1>5, KeepFrame DEF InventoryFails
<1> DEFINE d == [cp EXCEPT !.segments = Append(@, SegmentEntry(hot[NextSegment]))]
<1>6. ASSUME pc = "inventory", hot[NextSegment] # << >>, cp' = d, saved' \in {saved, cp'},
             UNCHANGED <<hot, cold, proc>>, pc' = "rotate"
      PROVE  KeepInv'
  <2>1. /\ d \in Checkpoints /\ Follows(cp, d) /\ Rotated(d) = Rotated(cp)
        /\ Len(d.segments) = Len(cp.segments) + 1
        /\ \A i \in 1..Len(d.segments) : i > Len(cp.segments) => hot[i] = d.segments[i].digest
    BY <1>6, InventoryFollows
  <2> HIDE DEF d
  <2>2. proc = "up" /\ Follows(saved, cp) /\ Rotated(cp) \subseteq Rotated(saved)
    BY <1>0, <1>6 DEF KeepInv
  <2>3. cp' \in Checkpoints /\ saved' \in Checkpoints
    BY <1>6, <2>1 DEF TypeInv, TypeOK
  <2>4. Len(saved.segments) \in Nat /\ Len(cp.segments) \in Nat /\ Len(d.segments) \in Nat
    BY <2>1, RowType DEF TypeInv, TypeOK
  <2>5. Follows(saved, d) /\ Follows(d, d)
    BY <2>1, <2>2, <2>4, FollowsTransitive, FollowsItself
  <2>6. Follows(saved', cp') /\ Rotated(cp') \subseteq Rotated(saved')
    BY <1>6, <2>1, <2>2, <2>5
  <2>7. ASSUME NEW i \in Rotated(saved') PROVE i \in Rotated(saved)
    BY <1>6, <2>1, <2>2, <2>7
  <2>8. /\ Follows(cp, cp') /\ Rotated(cp) \subseteq Rotated(cp')
        /\ \A i \in 1..Len(cp'.segments) : i > Len(cp.segments) => hot[i] = cp'.segments[i].digest
    BY <1>6, <2>1
  <2>9. pc' \notin {"copied", "promote"}
    BY <1>6
  <2> QED
    BY <1>6, <2>2, <2>3, <2>6, <2>7, <2>8, <2>9, KeepLedger
<1>7. CASE InventorySaves
  BY <1>6, <1>7 DEF InventorySaves, serving
<1>8. CASE InventoryUnsaved
  BY <1>6, <1>8 DEF InventoryUnsaved
<1> QED
  BY <1>1, <1>2, <1>3, <1>4, <1>5, <1>7, <1>8 DEF Seal

LEMMA KeepRotate ==
  ASSUME TypeInv, KeepInv, Rotate
  PROVE  KeepInv'
<1>0. /\ pc \in {"rotate", "copied", "promote", "finish"} => proc = "up"
      /\ pc \in {"copied", "promote"} => Unrotated(cp) # {}
      /\ pc = "finish" => Rotated(cp) # {}
  BY DEF TypeInv, Places
<1>1. CASE NothingToRotate
  BY <1>1, KeepFrame DEF NothingToRotate, disk, serving
<1>2. ASSUME RotationIsDue, pc = "rotate"
      PROVE  /\ Turn \in 1..Len(cp.segments) /\ proc = "up"
             /\ Exists(hot[Turn]) => hot[Turn] = cp.segments[Turn].digest
             /\ ~Exists(hot[Turn]) => cold[Turn] = cp.segments[Turn].digest
  <2>1. Turn \in 1..Len(cp.segments)
    BY <1>2, TurnInSegments DEF RotationIsDue
  <2> QED
    BY <1>0, <1>2, <2>1, RowCopies
<1>3. CASE ResumeRemovesHot
  <2>1. Turn \in 1..Len(cp.segments) /\ proc = "up" /\ cold[Turn] = cp.segments[Turn].digest
    BY <1>2, <1>3 DEF ResumeRemovesHot
  <2>2. /\ hot' \in {hot, [hot EXCEPT ![Turn] = NoFile]}
        /\ UNCHANGED <<cold, saved, cp, proc>> /\ pc' = "promote"
    BY <1>3 DEF ResumeRemovesHot, serving
  <2> QED
    BY <2>1, <2>2, KeepRemoval
<1>4. CASE ResumeFails
  <2>1. UNCHANGED <<cold, saved, cp, proc>> /\ pc' = "breach"
    BY <1>4 DEF ResumeFails, RotationFails
  <2>2. CASE hot' = hot
    BY <2>1, <2>2, KeepFrame
  <2>3. CASE hot' # hot
    <3>1. hot' \in {hot, [hot EXCEPT ![Turn] = NoFile]} /\ hot[Turn] = cold[Turn]
      BY <1>4, <2>3 DEF ResumeFails
    <3>2. Turn \in 1..Len(cp.segments) /\ proc = "up" /\ cold[Turn] = cp.segments[Turn].digest
      BY <1>2, <1>4, <3>1 DEF ResumeFails
    <3> QED
      BY <2>1, <3>1, <3>2, KeepRemoval
  <2> QED
    BY <2>2, <2>3
<1>5. CASE ResumeFinished
  <2>1. Turn \in 1..Len(cp.segments) /\ proc = "up" /\ cold[Turn] = cp.segments[Turn].digest
    BY <1>2, <1>5 DEF ResumeFinished
  <2>2. hot' = hot /\ UNCHANGED <<cold, saved, cp, proc>> /\ pc' = "promote"
    BY <1>5 DEF ResumeFinished, serving
  <2> QED
    BY <2>1, <2>2, KeepRemoval
<1>6. CASE CopyWrites
  BY <1>6, KeepFrame DEF CopyWrites, serving
<1>7. CASE CopyRenames
  <2>1. /\ proc = "up" /\ pc = "copied" /\ temp = hot[Turn]
        /\ cold' = [cold EXCEPT ![Turn] = temp]
        /\ UNCHANGED <<hot, saved, cp, proc>> /\ pc' # "copied"
    BY <1>0, <1>7 DEF CopyRenames, serving
  <2> QED
    BY <2>1, KeepCopy
<1>8. CASE CopyFails
  BY <1>8, KeepFrame DEF CopyFails, RotationFails
<1>9. CASE CopyUnsynced
  <2>1. /\ proc = "up" /\ pc = "copied" /\ temp = hot[Turn]
        /\ cold' = [cold EXCEPT ![Turn] = temp]
        /\ UNCHANGED <<hot, saved, cp, proc>> /\ pc' # "copied"
    BY <1>0, <1>9 DEF CopyUnsynced, RotationFails
  <2> QED
    BY <2>1, KeepCopy
<1>10. ASSUME pc = "promote"
       PROVE  /\ proc = "up" /\ Promoted \in Checkpoints /\ RolledBack \in Checkpoints
              /\ Len(Promoted.segments) = Len(cp.segments)
              /\ Len(RolledBack.segments) = Len(cp.segments)
              /\ Len(cp.segments) \in Nat /\ Len(saved.segments) \in Nat
              /\ \A j \in 1..Len(cp.segments) : /\ SameRow(Promoted.segments[j], cp.segments[j])
                                                /\ SameRow(RolledBack.segments[j], cp.segments[j])
              /\ Rotated(Promoted) = Rotated(cp) \cup {Turn} /\ Rotated(RolledBack) = Rotated(cp)
  <2>1. proc = "up" /\ Unrotated(cp) # {} /\ cp \in Checkpoints
    BY <1>0, <1>10 DEF TypeInv, TypeOK
  <2>2. Len(cp.segments) \in Nat /\ Len(saved.segments) \in Nat
    BY RowType DEF TypeInv, TypeOK
  <2> QED
    BY <2>1, <2>2, PromotionType
<1>10a. ASSUME pc = "promote"
        PROVE  /\ Follows(cp, Promoted) /\ Follows(cp, RolledBack)
               /\ Follows(Promoted, RolledBack) /\ Follows(saved, RolledBack)
               /\ Rotated(cp) \subseteq Rotated(saved)
  <2>1. Follows(cp, Promoted) /\ Follows(cp, RolledBack) /\ Follows(Promoted, RolledBack)
    BY <1>10, <1>10a DEF Follows, SameRow
  <2>2. Follows(saved, cp) /\ Rotated(cp) \subseteq Rotated(saved)
    BY <1>10, <1>10a DEF KeepInv
  <2>3. Follows(saved, RolledBack)
    BY <1>10, <1>10a, <2>1, <2>2, FollowsTransitive
  <2> QED
    BY <2>1, <2>2, <2>3
<1>10b. ASSUME pc = "promote"
        PROVE  cold[Turn] = Promoted.segments[Turn].digest
  <2>1. cold[Turn] = cp.segments[Turn].digest /\ Turn \in 1..Len(cp.segments)
    BY <1>0, <1>10b, TurnInSegments DEF KeepInv
  <2>2. SameRow(Promoted.segments[Turn], cp.segments[Turn])
    BY <1>10, <1>10b, <2>1
  <2> QED
    BY <2>1, <2>2 DEF SameRow
<1>11. CASE PromoteSaves
  <2>1. /\ pc = "promote" /\ cp' = Promoted /\ saved' = Promoted /\ pc' = "finish"
        /\ UNCHANGED <<hot, cold, proc>>
    BY <1>11 DEF PromoteSaves, serving
  <2>2. Follows(Promoted, Promoted)
    BY <1>10, <1>10a, <1>10b, <2>1, FollowsItself
  <2>3. \A i \in 1..Len(cp'.segments) : ~(i > Len(cp.segments))
    BY <1>10, <1>10a, <1>10b, <2>1
  <2>4. \A i \in Rotated(saved') : i \in Rotated(saved) \/ cold[i] = saved'.segments[i].digest
    BY <1>10, <1>10a, <1>10b, <2>1
  <2> QED
    BY <1>10, <1>10a, <1>10b, <2>1, <2>2, <2>3, <2>4, KeepLedger
<1>12. CASE PromoteUnsaved
  <2>1. /\ pc = "promote" /\ cp' = RolledBack /\ saved' \in {saved, Promoted} /\ pc' = "breach"
        /\ UNCHANGED <<hot, cold, proc>>
    BY <1>12 DEF PromoteUnsaved, RolledBack, RotationFails
  <2>2. saved' \in Checkpoints /\ Follows(saved', cp') /\ Rotated(cp') \subseteq Rotated(saved')
    BY <1>10, <1>10a, <1>10b, <2>1 DEF TypeInv, TypeOK
  <2>3. \A i \in 1..Len(cp'.segments) : ~(i > Len(cp.segments))
    BY <1>10, <1>10a, <1>10b, <2>1
  <2>4. \A i \in Rotated(saved') : i \in Rotated(saved) \/ cold[i] = saved'.segments[i].digest
    BY <1>10, <1>10a, <1>10b, <2>1
  <2> QED
    BY <1>10, <1>10a, <1>10b, <2>1, <2>2, <2>3, <2>4, KeepLedger
<1>13. ASSUME pc = "finish"
       PROVE  Finishing \in 1..Len(cp.segments) /\ cold[Finishing] = cp.segments[Finishing].digest
  <2>1. proc = "up" /\ Finishing \in Rotated(cp)
    BY <1>0, <1>13, FinishingPlace
  <2> QED
    BY <2>1, RotatedIsCold
<1>14. CASE FinishRemoves
  <2>1. /\ pc = "finish" /\ proc = "up" /\ hot' \in {hot, [hot EXCEPT ![Finishing] = NoFile]}
        /\ UNCHANGED <<cold, saved, cp, proc>> /\ pc' = "rotate"
    BY <1>0, <1>14 DEF FinishRemoves, serving
  <2> QED
    BY <1>13, <2>1, KeepRemoval
<1>15. CASE FinishFails
  <2>1. /\ pc = "finish" /\ proc = "up" /\ hot' \in {hot, [hot EXCEPT ![Finishing] = NoFile]}
        /\ UNCHANGED <<cold, saved, cp, proc>> /\ pc' = "rotate"
    BY <1>0, <1>15 DEF FinishFails
  <2> QED
    BY <1>13, <2>1, KeepRemoval
<1> QED
  BY <1>1, <1>3, <1>4, <1>5, <1>6, <1>7, <1>8, <1>9, <1>11, <1>12, <1>14, <1>15 DEF Rotate

LEMMA KeepCrash ==
  ASSUME TypeInv, KeepInv, Crash
  PROVE  KeepInv'
<1>1. /\ proc = "up" /\ proc' = "down" /\ pc' = "idle" /\ UNCHANGED <<hot, cold, saved>>
  BY DEF Crash, disk
<1>2. Ledger = cp /\ Ledger' = saved
  BY <1>1 DEF Ledger
<1>3. Follows(saved, cp) /\ Rotated(cp) \subseteq Rotated(saved)
  BY <1>1 DEF KeepInv
<1>4. Len(saved.segments) \in Nat /\ Len(cp.segments) \in Nat
  BY RowType DEF TypeInv, TypeOK
<1>5. Kept'
  <2> SUFFICES ASSUME NEW i \in 1..Len(saved.segments)
               PROVE  \/ hot[i] = saved.segments[i].digest
                      \/ hot[i] = NoFile /\ cold[i] = saved.segments[i].digest
    BY <1>1, <1>2 DEF Kept
  <2>1. i \in 1..Len(cp.segments) /\ SameRow(saved.segments[i], cp.segments[i])
    BY <1>3, <1>4 DEF Follows
  <2> QED
    BY <1>2, <2>1 DEF KeepInv, Kept, SameRow
<1>6. InventoryHonest'
  BY <1>1 DEF KeepInv, InventoryHonest, Rotated
<1>7. InTurn'
  BY <1>1, <1>2, <1>3 DEF KeepInv, InTurn, Rotated
<1> QED
  BY <1>1, <1>5, <1>6, <1>7 DEF KeepInv

LEMMA KeepBoot ==
  ASSUME TypeInv, KeepInv, BootServes
  PROVE  KeepInv'
<1>1. /\ proc = "down" /\ proc' = "up" /\ cp' = saved /\ UNCHANGED <<hot, cold, saved, pc>>
  BY DEF BootServes
<1>2. Ledger = saved /\ Ledger' = saved /\ pc = "idle"
  BY <1>1 DEF Ledger, TypeInv, Places
<1>3. Follows(saved, saved)
  BY FollowsItself DEF TypeInv, TypeOK
<1>4. Kept' /\ InventoryHonest' /\ InTurn'
  BY <1>1, <1>2 DEF KeepInv, Kept, InventoryHonest, InTurn, Rotated
<1>5. Follows(saved, cp)' /\ Rotated(cp)' \subseteq Rotated(saved)'
  BY <1>1, <1>3 DEF Follows, Rotated
<1> QED
  BY <1>1, <1>2, <1>4, <1>5 DEF KeepInv

LEMMA KeepStep == TypeInv /\ KeepInv /\ [Next]_vars => KeepInv'
<1> SUFFICES ASSUME TypeInv, KeepInv, [Next]_vars PROVE KeepInv'
  OBVIOUS
<1>1. CASE UNCHANGED vars
  <2>1. UNCHANGED <<hot, cold, saved, cp, proc, pc>>
    BY <1>1 DEF vars, disk, serving, manager
  <2>2. pc = "copied" => Exists(hot[Turn]) /\ ~Exists(cold[Turn])
    BY DEF KeepInv
  <2> QED
    BY <2>1, <2>2, KeepFrame
<1>2. ASSUME NEW s \in Producers, NEW t \in Times, Admit(s, t) PROVE KeepInv'
  <2>1. UNCHANGED <<hot, cold, saved, cp, proc, pc>>
    BY <1>2 DEF Admit, manager
  <2>2. pc = "copied" => Exists(hot[Turn]) /\ ~Exists(cold[Turn])
    BY DEF KeepInv
  <2> QED
    BY <2>1, <2>2, KeepFrame
<1>3. ASSUME NEW t \in Times, AdmitRefused(t) PROVE KeepInv'
  <2>1. UNCHANGED <<hot, cold, saved, cp, proc, pc>>
    BY <1>3 DEF AdmitRefused, disk, manager
  <2>2. pc = "copied" => Exists(hot[Turn]) /\ ~Exists(cold[Turn])
    BY DEF KeepInv
  <2> QED
    BY <2>1, <2>2, KeepFrame
<1>4. ASSUME NEW t \in Times, TickBegins(t) PROVE KeepInv'
  BY <1>4, KeepFrame DEF TickBegins, disk, serving
<1>5. CASE Breaches
  <2>1. CASE EmitsBreach
    BY <2>1, KeepFrame DEF EmitsBreach
  <2>2. CASE TickEnds
    BY <2>2, KeepFrame DEF TickEnds, disk, serving
  <2> QED
    BY <1>5, <2>1, <2>2 DEF Breaches
<1>6. CASE BootRefuses
  <2>1. /\ UNCHANGED <<hot, cold, saved, cp, pc>> /\ proc = "down" /\ proc' = "refused" /\ pc = "idle"
    BY <1>6 DEF BootRefuses, disk, manager, TypeInv, Places
  <2> QED
    BY <2>1, KeepFrame
<1> QED
  BY <1>1, <1>2, <1>3, <1>4, <1>5, <1>6, KeepSeal, KeepRotate, KeepCrash, KeepBoot DEF Next

LEMMA KeepCorrect == Spec => [](TypeInv /\ KeepInv)
<1>1. Init => TypeInv /\ KeepInv
  BY TypeInit, KeepInit
<1>2. TypeInv /\ KeepInv /\ [Next]_vars => (TypeInv /\ KeepInv)'
  BY TypeStep, KeepStep
<1> QED
  BY <1>1, <1>2, PTL DEF Spec

\* Whatever fails and wherever the process dies, a segment the signed
\* checkpoint calls rotated is complete in the cold tier.
THEOREM RotatedIsComplete == Spec => []InventoryHonest
<1>1. TypeInv /\ KeepInv => InventoryHonest
  BY DEF KeepInv
<1> QED
  BY KeepCorrect, <1>1, PTL

\* No step, not a resumed rotation and not one that failed half-way, changes
\* or removes a file that has its final name in the cold directory.
THEOREM ColdFilesStay == Spec => ColdIsPermanent
<1> DEFINE Step == \A i \in Segments : Exists(cold[i]) => cold'[i] = cold[i]
<1>1. ASSUME TypeInv, KeepInv, [Next]_vars PROVE Step
  <2>1. CASE cold' = cold
    BY <2>1
  <2>2. CASE CopyRenames \/ CopyUnsynced
    <3>1. pc = "copied" /\ cold' = [cold EXCEPT ![Turn] = temp]
      BY <2>2 DEF CopyRenames, CopyUnsynced
    <3>2. ~Exists(cold[Turn])
      BY <1>1, <3>1 DEF KeepInv
    <3> QED
      BY <1>1, <3>1, <3>2 DEF TypeInv, TypeOK
  <2>3. cold' = cold \/ CopyRenames \/ CopyUnsynced
    <3>1. CASE UNCHANGED vars
      BY <3>1 DEF vars, disk
    <3>2. CASE Seal
      BY <3>2 DEF Seal, SealRenames, SealFails, SealWedges, SealReopens, InventoryFails,
                  InventorySaves, InventoryUnsaved
    <3>3. CASE Rotate
      BY <3>3 DEF Rotate, NothingToRotate, ResumeRemovesHot, ResumeFails, ResumeFinished,
                  CopyWrites, CopyFails, PromoteSaves, PromoteUnsaved, FinishRemoves, FinishFails, disk
    <3>4. CASE Breaches
      BY <3>4 DEF Breaches, EmitsBreach, TickEnds, disk
    <3>5. CASE Crash \/ BootServes \/ BootRefuses
      BY <3>5 DEF Crash, BootServes, BootRefuses, disk
    <3>6. ASSUME NEW s \in Producers, NEW t \in Times, Admit(s, t) PROVE cold' = cold
      BY <3>6 DEF Admit
    <3>7. ASSUME NEW t \in Times, AdmitRefused(t) \/ TickBegins(t) PROVE cold' = cold
      BY <3>7 DEF AdmitRefused, TickBegins, disk
    <3> QED
      BY <1>1, <3>1, <3>2, <3>3, <3>4, <3>5, <3>6, <3>7 DEF Next
  <2> QED
    BY <2>1, <2>2, <2>3
<1>2. TypeInv /\ KeepInv /\ [Next]_vars => [Step]_vars
  BY <1>1
<1> QED
  BY KeepCorrect, <1>2, PTL DEF Spec, ColdIsPermanent
-----------------------------------------------------------------------------
(* Slices of the log, and what the rows of a checkpoint say of them. *)

\* The records of l behind the first a, up to the one at b.
Slice(l, a, b) == SubSeq(l, a + 1, b)

LEMMA SliceProps ==
  ASSUME NEW R, NEW l \in Seq(R), NEW a \in Nat, NEW b \in Nat, a <= b, b <= Len(l)
  PROVE  /\ Slice(l, a, b) \in Seq(R) /\ Len(Slice(l, a, b)) = b - a /\ b - a \in Nat
         /\ \A i \in 1..(b - a) : Slice(l, a, b)[i] = l[a + i]
<1>1. Len(l) \in Nat /\ a + 1 \in Int /\ b \in Int
  BY LenProperties
<1>2. \A i \in (a + 1)..b : i \in 1..Len(l)
  BY <1>1
<1>3. \A i \in (a + 1)..b : l[i] \in R
  BY <1>2, ElementOfSeq
<1>4. /\ SubSeq(l, a + 1, b) \in Seq(R)
      /\ Len(SubSeq(l, a + 1, b)) = IF a + 1 <= b THEN b - (a + 1) + 1 ELSE 0
      /\ \A i \in 1..(b - (a + 1) + 1) : SubSeq(l, a + 1, b)[i] = l[(a + 1) + i - 1]
  BY <1>1, <1>3, SubSeqProperties
<1>5. b - (a + 1) + 1 = b - a /\ b - a \in Nat /\ \A i \in 1..(b - a) : (a + 1) + i - 1 = a + i
  OBVIOUS
<1>6. (IF a + 1 <= b THEN b - (a + 1) + 1 ELSE 0) = b - a
  OBVIOUS
<1> QED
  BY <1>4, <1>5, <1>6 DEF Slice

LEMMA SliceType ==
  ASSUME NEW R, NEW l \in Seq(R), NEW a \in Nat, NEW b \in Nat, a <= b, b <= Len(l)
  PROVE  Slice(l, a, b) \in Seq(R) /\ Len(Slice(l, a, b)) = b - a
BY SliceProps

LEMMA SliceAt ==
  ASSUME NEW R, NEW l \in Seq(R), NEW a \in Nat, NEW b \in Nat, a <= b, b <= Len(l)
  PROVE  \A i \in 1..(b - a) : Slice(l, a, b)[i] = l[a + i]
BY SliceProps

LEMMA SliceEmpty ==
  ASSUME NEW l, NEW a \in Nat
  PROVE  Slice(l, a, a) = << >>
BY SubSeqEmpty DEF Slice

LEMMA SliceFull ==
  ASSUME NEW R, NEW l \in Seq(R)
  PROVE  Slice(l, 0, Len(l)) = l
BY SubSeqFull DEF Slice

LEMMA SliceJoin ==
  ASSUME NEW R, NEW l \in Seq(R), NEW a \in Nat, NEW b \in Nat, NEW c \in Nat,
         a <= b, b <= c, c <= Len(l)
  PROVE  Slice(l, a, b) \o Slice(l, b, c) = Slice(l, a, c)
<1>1. Len(l) \in Nat
  BY LenProperties
<1>2. a + 1 \in 1..(Len(l) + 1) /\ b \in ((a + 1) - 1)..Len(l) /\ c \in b..Len(l)
  BY <1>1
<1>3. SubSeq(l, a + 1, b) \o SubSeq(l, b + 1, c) = SubSeq(l, a + 1, c)
  BY ONLY <1>2, l \in Seq(R), ConcatAdjacentSubSeq
<1> QED
  BY <1>3 DEF Slice

LEMMA SliceGrows ==
  ASSUME NEW R, NEW l \in Seq(R), NEW rec \in R, NEW a \in Nat, NEW b \in Nat,
         a <= b, b <= Len(l)
  PROVE  Slice(Append(l, rec), a, b) = Slice(l, a, b)
<1> DEFINE m == Append(l, rec)
<1>1. /\ m \in Seq(R) /\ Len(m) = Len(l) + 1 /\ Len(l) \in Nat
      /\ \A i \in 1..Len(l) : m[i] = l[i]
  BY AppendProperties, LenProperties
<1> HIDE DEF m
<1>2. b <= Len(m)
  BY <1>1
<1>3. /\ Slice(l, a, b) \in Seq(R) /\ Len(Slice(l, a, b)) = b - a
  BY SliceType
<1>3a. Slice(m, a, b) \in Seq(R) /\ Len(Slice(m, a, b)) = b - a
  BY <1>1, <1>2, SliceType
<1>4. \A i \in 1..(b - a) : Slice(l, a, b)[i] = l[a + i]
  BY SliceAt
<1>4a. \A i \in 1..(b - a) : Slice(m, a, b)[i] = m[a + i]
  BY <1>1, <1>2, SliceAt
<1>5. \A i \in 1..(b - a) : a + i \in 1..Len(l)
  BY <1>1
<1>6. \A i \in 1..(b - a) : Slice(m, a, b)[i] = Slice(l, a, b)[i]
  BY <1>1, <1>4, <1>4a, <1>5
<1>7. Slice(m, a, b) = Slice(l, a, b)
  BY <1>3, <1>3a, <1>6, SeqEqual
<1> QED
  BY <1>7 DEF m

LEMMA SliceLonger ==
  ASSUME NEW R, NEW l \in Seq(R), NEW rec \in R, NEW a \in Nat, a <= Len(l)
  PROVE  Slice(Append(l, rec), a, Len(l) + 1) = Append(Slice(l, a, Len(l)), rec)
<1> DEFINE m == Append(l, rec)
           n == Len(l)
           s == Slice(l, a, n)
<1>1. /\ m \in Seq(R) /\ Len(m) = n + 1 /\ n \in Nat /\ n + 1 \in Nat /\ a <= n + 1
      /\ \A i \in 1..n : m[i] = l[i]
      /\ m[n + 1] = rec
  BY AppendProperties, LenProperties
<1>2. n - a \in Nat /\ n <= Len(l) /\ a <= n
  BY <1>1
<1> HIDE DEF m, n
<1>2a. s \in Seq(R) /\ Len(s) = n - a
  BY <1>1, <1>2, SliceType
<1>2b. \A i \in 1..(n - a) : s[i] = l[a + i]
  BY <1>1, <1>2, SliceAt
<1> HIDE DEF s
<1>3. n + 1 <= Len(m)
  BY <1>1
<1>3a. Slice(m, a, n + 1) \in Seq(R) /\ Len(Slice(m, a, n + 1)) = (n + 1) - a
  BY <1>1, <1>3, SliceType
<1>3b. \A i \in 1..((n + 1) - a) : Slice(m, a, n + 1)[i] = m[a + i]
  BY <1>1, <1>3, SliceAt
<1>4. /\ Append(s, rec) \in Seq(R) /\ Len(Append(s, rec)) = (n - a) + 1
      /\ \A i \in 1..(n - a) : Append(s, rec)[i] = s[i]
      /\ Append(s, rec)[(n - a) + 1] = rec
  BY <1>2a, AppendProperties
<1>5. (n + 1) - a = (n - a) + 1 /\ a + ((n - a) + 1) = n + 1
  BY <1>1
<1>6. ASSUME NEW i \in 1..((n - a) + 1)
      PROVE  Slice(m, a, n + 1)[i] = Append(s, rec)[i]
  <2>0. i \in 1..((n + 1) - a)
    BY <1>5
  <2>1. CASE i \in 1..(n - a)
    <3>1. a + i \in 1..n
      BY <1>1, <2>1
    <3> QED
      BY <1>1, <1>2b, <1>3b, <1>4, <2>0, <2>1, <3>1
  <2>2. CASE i = (n - a) + 1
    BY <1>1, <1>3b, <1>4, <1>5, <2>0, <2>2
  <2>3. i \in 1..(n - a) \/ i = (n - a) + 1
    <3>1. \A k \in Nat : \A j \in 1..(k + 1) : j \in 1..k \/ j = k + 1
      OBVIOUS
    <3>2. n - a \in Nat
      BY <1>2
    <3> QED
      BY <3>1, <3>2
  <2> QED
    BY <2>1, <2>2, <2>3
<1>7. Slice(m, a, n + 1) = Append(s, rec)
  BY <1>3a, <1>4, <1>5, <1>6, SeqEqual
<1> QED
  BY <1>7 DEF m, n, s

\* Where the i-th segment ends: the number of records up to its last one.
Edge(c, i) == IF i = 0 THEN 0 ELSE c.segments[i].lastGlobal + 1

\* A row is cut exactly where the one before ends, and what it says of the
\* records up to its end is what l says of them.
RowExact(c, i, l) ==
  /\ c.segments[i].firstGlobal = Edge(c, i - 1)
  /\ Edge(c, i - 1) < Edge(c, i) /\ Edge(c, i) <= Len(l)
  /\ c.segments[i].digest = Slice(l, Edge(c, i - 1), Edge(c, i))
  /\ c.segments[i].tips = TipsOf(Slice(l, 0, Edge(c, i)), Genesis(Sources))
  /\ c.segments[i].frontier = LeavesOf(Slice(l, 0, Edge(c, i)))
  /\ \A j \in 1..Edge(c, i) : l[j].time <= c.segments[i].last

RowsExact(c, l) == \A i \in 1..Len(c.segments) : RowExact(c, i, l)

\* The anchors on top are those of the last segment that is rotated, or (after
\* a write that failed) of the one behind it.
AnchoredAt(c, k, l) ==
  /\ c.tips = TipsOf(Slice(l, 0, Edge(c, k)), Genesis(Sources))
  /\ c.frontier = LeavesOf(Slice(l, 0, Edge(c, k)))
  /\ Rotated(c) \subseteq 1..k /\ 1..(k - 1) \subseteq Rotated(c)

Anchored(c, l) == \E k \in 0..Len(c.segments) : AnchoredAt(c, k, l)

LEMMA EdgeBounds ==
  ASSUME NEW c \in Checkpoints, NEW l \in Seq(Records), RowsExact(c, l)
  PROVE  /\ Edge(c, 0) = 0 /\ Len(l) \in Nat /\ Len(c.segments) \in Nat
         /\ \A i \in 0..Len(c.segments) : Edge(c, i) \in Nat /\ Edge(c, i) <= Len(l)
<1>1. Len(l) \in Nat /\ Len(c.segments) \in Nat /\ Edge(c, 0) = 0
  BY LenProperties, RowType DEF Edge
<1>2. \A i \in 1..Len(c.segments) : Edge(c, i) = c.segments[i].lastGlobal + 1
  BY <1>1 DEF Edge
<1>3. \A i \in 1..Len(c.segments) : Edge(c, i) \in Nat
  BY <1>2, RowType, SMTT(30)
<1>4. \A i \in 1..Len(c.segments) : Edge(c, i) <= Len(l)
  BY DEF RowsExact, RowExact
<1>5. \A i \in 0..Len(c.segments) : i = 0 \/ i \in 1..Len(c.segments)
  BY <1>1
<1> QED
  BY <1>1, <1>3, <1>4, <1>5

LEMMA EdgesGrow ==
  ASSUME NEW c \in Checkpoints, NEW l \in Seq(Records), RowsExact(c, l)
  PROVE  \A i, j \in 0..Len(c.segments) : i <= j => Edge(c, i) <= Edge(c, j)
<1> DEFINE n == Len(c.segments)
           S == {j \in Nat : j <= n => \A i \in 0..j : Edge(c, i) <= Edge(c, j)}
<1>1. n \in Nat /\ \A i \in 0..n : Edge(c, i) \in Nat
  BY EdgeBounds
<1>2. \A i \in 1..n : Edge(c, i - 1) < Edge(c, i)
  BY DEF RowsExact, RowExact
<1> HIDE DEF n
<1>3. S \in SUBSET Nat
  OBVIOUS
<1>4. 0 \in S
  <2>1. \A i \in 0..0 : i = 0
    OBVIOUS
  <2>2. 0 <= n => Edge(c, 0) <= Edge(c, 0)
    BY <1>1
  <2> QED
    BY <2>1, <2>2
<1>5. ASSUME NEW j \in S PROVE j + 1 \in S
  <2>1. j \in Nat /\ j + 1 \in Nat
    OBVIOUS
  <2> SUFFICES ASSUME j + 1 <= n, NEW i \in 0..(j + 1) PROVE Edge(c, i) <= Edge(c, j + 1)
    BY <2>1
  <2>2. /\ j + 1 \in 1..n /\ (j + 1) - 1 = j /\ j <= n /\ j \in 0..n /\ j + 1 \in 0..n /\ i \in 0..n
    BY <1>1, <2>1
  <2>3. Edge(c, j) < Edge(c, j + 1)
    BY <1>2, <2>2
  <2>4. CASE i = j + 1
    BY <1>1, <2>2, <2>4
  <2>5. CASE i \in 0..j
    <3>1. Edge(c, i) <= Edge(c, j)
      BY <2>2, <2>5
    <3> QED
      BY <1>1, <2>2, <2>3, <3>1
  <2> QED
    BY <2>1, <2>4, <2>5
<1> HIDE DEF S
<1>6. S = Nat
  BY <1>3, <1>4, <1>5, SetInduction
<1>7. ASSUME NEW i \in 0..n, NEW j \in 0..n, i <= j PROVE Edge(c, i) <= Edge(c, j)
  <2>1. j \in S /\ j <= n /\ i \in 0..j
    BY <1>1, <1>6, <1>7
  <2> QED
    BY <2>1 DEF S
<1> QED
  BY <1>7 DEF n

\* The boundary the manager computes is where its last segment ends.
LEMMA BoundaryIsEdge ==
  ASSUME NEW c \in Checkpoints, NEW l \in Seq(Records), RowsExact(c, l)
  PROVE  Boundary(c) = Edge(c, Len(c.segments))
<1> DEFINE n == Len(c.segments)
<1>1. n \in Nat /\ \A i \in 0..n : Edge(c, i) \in Nat
  BY EdgeBounds
<1>2. \A i \in 0..n : Edge(c, i) <= Edge(c, n)
  <2>1. n \in 0..n /\ \A i \in 0..n : i <= n
    BY <1>1
  <2> QED
    BY <2>1, EdgesGrow
<1>3. \A i \in 1..n : i \in 0..n /\ Edge(c, i) = c.segments[i].lastGlobal + 1
  BY <1>1 DEF Edge
<1>4. /\ Boundary(c) \in Nat
      /\ \A i \in 1..n : Edge(c, i) <= Boundary(c)
      /\ Boundary(c) = 0 \/ \E i \in 1..n : Boundary(c) = Edge(c, i)
  BY <1>3, BoundaryBounds
<1> SUFFICES Boundary(c) = Edge(c, n)
  OBVIOUS
<1> HIDE DEF n
<1>5. CASE n = 0
  <2>1. Edge(c, n) = 0 /\ Boundary(c) = 0
    BY <1>4, <1>5 DEF Edge
  <2> QED
    BY <2>1
<1>6. CASE n # 0
  <2>1. n \in 1..n /\ n \in 0..n
    BY <1>1, <1>6
  <2>2. Edge(c, n) <= Boundary(c) /\ Edge(c, n) \in Nat
    BY <1>1, <1>4, <2>1
  <2>3. Boundary(c) <= Edge(c, n)
    <3>1. CASE Boundary(c) = 0
      BY <2>2, <3>1
    <3>2. ASSUME NEW i \in 1..n, Boundary(c) = Edge(c, i) PROVE Boundary(c) <= Edge(c, n)
      BY <1>2, <1>3, <3>2
    <3> QED
      BY <1>4, <3>1, <3>2
  <2> QED
    BY <1>4, <2>2, <2>3
<1> QED
  BY <1>5, <1>6

\* The log grows: rows and anchors speak of what was there.
LEMMA RowsOfLonger ==
  ASSUME NEW c \in Checkpoints, NEW l \in Seq(Records), NEW rec \in Records,
         RowsExact(c, l)
  PROVE  /\ RowsExact(c, Append(l, rec))
         /\ \A k \in 0..Len(c.segments) :
              AnchoredAt(c, k, l) <=> AnchoredAt(c, k, Append(l, rec))
         /\ Anchored(c, l) => Anchored(c, Append(l, rec))
<1> DEFINE m == Append(l, rec)
           n == Len(c.segments)
<1>1. /\ n \in Nat /\ Len(l) \in Nat
      /\ \A i \in 0..n : Edge(c, i) \in Nat /\ Edge(c, i) <= Len(l)
  BY EdgeBounds
<1>2. Len(m) = Len(l) + 1 /\ \A j \in 1..Len(l) : m[j] = l[j]
  BY AppendProperties
<1>3. \A i \in 0..n : Slice(m, 0, Edge(c, i)) = Slice(l, 0, Edge(c, i))
  <2> TAKE i \in 0..n
  <2>1. Edge(c, i) \in Nat /\ 0 <= Edge(c, i) /\ Edge(c, i) <= Len(l)
    BY <1>1
  <2> QED
    BY <2>1, SliceGrows
<1>4. ASSUME NEW i \in 1..n PROVE RowExact(c, i, m)
  <2>0. i \in 0..n /\ i - 1 \in 0..n
    BY <1>1
  <2>1. RowExact(c, i, l)
    BY DEF RowsExact
  <2>2. /\ Edge(c, i - 1) \in Nat /\ Edge(c, i) \in Nat /\ Edge(c, i - 1) <= Edge(c, i)
        /\ Edge(c, i) <= Len(l) /\ Edge(c, i) <= Len(m)
    BY <1>1, <1>2, <2>0, <2>1 DEF RowExact
  <2>3. Slice(m, Edge(c, i - 1), Edge(c, i)) = Slice(l, Edge(c, i - 1), Edge(c, i))
    BY <2>2, SliceGrows
  <2>4. \A j \in 1..Edge(c, i) : m[j] = l[j]
    BY <1>1, <1>2, <2>2
  <2> HIDE DEF m
  <2> QED
    BY <1>3, <2>0, <2>1, <2>2, <2>3, <2>4 DEF RowExact
<1> HIDE DEF m
<1>5. RowsExact(c, m)
  BY <1>4 DEF RowsExact
<1>6. \A k \in 0..n : AnchoredAt(c, k, l) <=> AnchoredAt(c, k, m)
  BY <1>3 DEF AnchoredAt
<1>7. Anchored(c, l) => Anchored(c, m)
  BY <1>6 DEF Anchored
<1> QED
  BY <1>5, <1>6, <1>7 DEF m, n

\* Another checkpoint with the same rows.
LEMMA RowsOfSame ==
  ASSUME NEW c \in Checkpoints, NEW d \in Checkpoints, NEW l, Follows(d, c), RowsExact(c, l)
  PROVE  /\ RowsExact(d, l)
         /\ \A i \in 0..Len(d.segments) : Edge(d, i) = Edge(c, i)
<1>1. /\ Len(c.segments) \in Nat /\ Len(d.segments) \in Nat
      /\ Len(d.segments) <= Len(c.segments)
  BY RowType DEF Follows
<1>2. \A i \in 1..Len(d.segments) : SameRow(d.segments[i], c.segments[i])
  BY DEF Follows
<1>3. \A i \in 0..Len(d.segments) : Edge(d, i) = Edge(c, i)
  BY <1>1, <1>2 DEF Edge, SameRow
<1>4. ASSUME NEW i \in 1..Len(d.segments) PROVE RowExact(d, i, l)
  <2>1. /\ i \in 0..Len(d.segments) /\ i - 1 \in 0..Len(d.segments) /\ i \in 1..Len(c.segments)
    BY <1>1
  <2>2. RowExact(c, i, l) /\ Edge(d, i) = Edge(c, i) /\ Edge(d, i - 1) = Edge(c, i - 1)
    BY <1>3, <2>1 DEF RowsExact
  <2> QED
    BY <1>2, <2>2 DEF RowExact, SameRow
<1> QED
  BY <1>3, <1>4 DEF RowsExact

\* What is rotated is an initial part of the inventory.
LEMMA RotatedIsPrefix ==
  ASSUME NEW c \in Checkpoints, NEW l, NEW k \in 0..Len(c.segments), AnchoredAt(c, k, l)
  PROVE  \/ Rotated(c) = 1..k
         \/ k > 0 /\ Rotated(c) = 1..(k - 1) /\ k \in Unrotated(c)
<1>1. /\ Len(c.segments) \in Nat /\ k \in Nat /\ k <= Len(c.segments)
      /\ Unrotated(c) = 1..Len(c.segments) \ Rotated(c)
      /\ Rotated(c) \subseteq 1..k /\ 1..(k - 1) \subseteq Rotated(c)
  BY RowType DEF AnchoredAt
<1>2. CASE k = 0
  BY <1>1, <1>2
<1>3. CASE k > 0 /\ k \in Rotated(c)
  <2>1. \A i \in 1..k : i = k \/ i \in 1..(k - 1)
    BY <1>1
  <2> QED
    BY <1>1, <1>3, <2>1
<1>4. CASE k > 0 /\ k \notin Rotated(c)
  <2>1. \A i \in 1..k : i = k \/ i \in 1..(k - 1)
    BY <1>1
  <2>2. k \in 1..Len(c.segments)
    BY <1>1, <1>4
  <2> QED
    BY <1>1, <1>4, <2>1, <2>2
<1> QED
  BY <1>1, <1>2, <1>3, <1>4
-----------------------------------------------------------------------------
(* The log, and the store that serves it. *)

Serves ==
  /\ offset + Len(records) = Len(log)
  /\ records = Slice(log, offset, Len(log))
  /\ leaves = LeavesOf(log)
  /\ tip = TipsOf(log, Genesis(Sources))
  /\ \A i \in 1..Len(log) : log[i].time <= floor

LogInv ==
  /\ VerifyChains(log, Genesis(Sources))
  /\ \A i, j \in 1..Len(log) : i < j => log[i].time <= log[j].time
  /\ proc = "up" => Serves
  /\ proc # "refused"

LEMMA GenesisTips ==
  /\ DOMAIN Genesis(Sources) = Sources
  /\ TipsOf(<< >>, Genesis(Sources)) = Genesis(Sources)
  /\ LeavesOf(<< >>) = << >>
<1>1. DOMAIN Genesis(Sources) = Sources
  BY DEF Genesis
<1>2. Len(<< >>) = 0
  BY EmptySeq
<1>3. ASSUME NEW s \in Sources PROVE TipAt(<< >>, 0, s, Genesis(Sources)) = Genesis(Sources)[s]
  <2>1. PositionsOf(<< >>, 0, s) = {}
    BY DEF PositionsOf
  <2> QED
    BY <2>1 DEF TipAt
<1>4. TipsOf(<< >>, Genesis(Sources)) = [s \in Sources |-> Genesis(Sources)[s]]
  BY <1>1, <1>2, <1>3 DEF TipsOf
<1>5. Genesis(Sources) = [s \in Sources |-> Genesis(Sources)[s]]
  BY DEF Genesis
<1>6. LeavesOf(<< >>) = << >>
  BY <1>2 DEF LeavesOf
<1> QED
  BY <1>1, <1>4, <1>5, <1>6

LEMMA LeavesOfConcat ==
  ASSUME NEW a \in Seq(Records), NEW b \in Seq(Records)
  PROVE  LeavesOf(a \o b) = LeavesOf(a) \o LeavesOf(b)
<1> DEFINE n == Len(a)
           m == Len(b)
           ab == a \o b
           x == LeavesOf(ab)
           y == LeavesOf(a) \o LeavesOf(b)
<1>1. /\ n \in Nat /\ m \in Nat /\ ab \in Seq(Records) /\ Len(ab) = n + m
      /\ \A i \in 1..n : ab[i] = a[i]
      /\ \A i \in 1..m : ab[n + i] = b[i]
  <2>1. n \in Nat /\ m \in Nat
    BY LenProperties
  <2>2. ab \in Seq(Records) /\ Len(ab) = n + m
    BY ConcatProperties
  <2>3. \A i \in 1..(n + m) : ab[i] = IF i <= n THEN a[i] ELSE b[i - n]
    BY ConcatProperties
  <2>4. \A i \in 1..n : i \in 1..(n + m) /\ i <= n
    BY <2>1
  <2>5. \A i \in 1..m : n + i \in 1..(n + m) /\ ~(n + i <= n) /\ (n + i) - n = i
    BY <2>1
  <2> QED
    BY <2>1, <2>2, <2>3, <2>4, <2>5
<1> HIDE DEF ab
<1>2. /\ LeavesOf(a) \in Seq(Hashes) /\ Len(LeavesOf(a)) = n
      /\ \A i \in 1..n : LeavesOf(a)[i] = a[i].hash
  BY RecordFields, LeavesTyped
<1>3. /\ LeavesOf(b) \in Seq(Hashes) /\ Len(LeavesOf(b)) = m
      /\ \A i \in 1..m : LeavesOf(b)[i] = b[i].hash
  BY RecordFields, LeavesTyped
<1>4. /\ x \in Seq(Hashes) /\ Len(x) = n + m
      /\ \A i \in 1..(n + m) : x[i] = ab[i].hash
  BY <1>1, RecordFields, LeavesTyped
<1> DEFINE p == LeavesOf(a)
           q == LeavesOf(b)
<1> HIDE DEF p, q
<1>5. /\ p \o q \in Seq(Hashes) /\ Len(p \o q) = n + m
      /\ \A i \in 1..(n + m) : (p \o q)[i] = IF i <= n THEN p[i] ELSE q[i - n]
  <2>1. p \in Seq(Hashes) /\ q \in Seq(Hashes) /\ Len(p) = n /\ Len(q) = m
    BY <1>2, <1>3 DEF p, q
  <2>2. p \o q \in Seq(Hashes) /\ Len(p \o q) = Len(p) + Len(q)
    BY <2>1, ConcatProperties
  <2>3. \A i \in 1..(Len(p) + Len(q)) : (p \o q)[i] = IF i <= Len(p) THEN p[i] ELSE q[i - Len(p)]
    BY <2>1, ConcatProperties
  <2> HIDE DEF n, m
  <2> QED
    BY <2>1, <2>2, <2>3
<1>6. ASSUME NEW i \in 1..(n + m) PROVE x[i] = (p \o q)[i]
  <2>1. CASE i <= n
    <3>1. i \in 1..n
      BY <1>1, <2>1
    <3> QED
      BY <1>1, <1>2, <1>4, <1>5, <2>1, <3>1 DEF p
  <2>2. CASE ~(i <= n)
    <3>1. i - n \in 1..m /\ n + (i - n) = i
      BY <1>1, <2>2
    <3>2. ab[i] = b[i - n]
      BY <1>1, <3>1
    <3> QED
      BY <1>3, <1>4, <1>5, <2>2, <3>1, <3>2 DEF q
  <2> QED
    BY <2>1, <2>2
<1> HIDE DEF x
<1>7. x = p \o q
  BY <1>4, <1>5, <1>6, SeqEqual
<1> QED
  BY <1>7 DEF x, ab, p, q

LEMMA LogInit == Init => LogInv
<1> SUFFICES ASSUME Init PROVE LogInv
  OBVIOUS
<1>1. log = << >> /\ Len(log) = 0 /\ records = << >> /\ offset = 0
  BY EmptySeq DEF Init
<1>2. VerifyChains(log, Genesis(Sources))
  BY <1>1 DEF VerifyChains
<1>3. Slice(log, offset, Len(log)) = << >>
  BY <1>1, SliceEmpty
<1>4. Serves
  BY <1>1, <1>3, GenesisTips DEF Serves, Init
<1>5. \A i, j \in 1..Len(log) : i < j => log[i].time <= log[j].time
  BY <1>1
<1> QED
  BY <1>2, <1>4, <1>5 DEF LogInv, Init

\* A committed record extends the chain, the stamps and all views alike.
LEMMA LogGrows ==
  ASSUME TypeOK, LogInv, proc = "up", UNCHANGED <<proc, offset>>,
         NEW s \in Sources, NEW body \in Bodies, NEW t \in Nat, Commit(NextRecord(s, body, t))
  PROVE  LogInv'
<1> DEFINE rec == NextRecord(s, body, t)
           n == Len(log)
<1>1. /\ tip \in Tips /\ floor \in Nat /\ log \in Seq(Records) /\ n \in Nat
      /\ offset \in Nat /\ leaves \in Seq(Hashes) /\ records \in Seq(Records)
  BY LenProperties DEF TypeOK
<1>2. rec \in Records /\ rec.source = s /\ rec.time >= floor /\ Extends(tip[s], rec)
  BY <1>1, NextRecordType
<1>3. /\ records' = Append(records, rec) /\ leaves' = Append(leaves, rec.hash)
      /\ tip' = [tip EXCEPT ![rec.source] = TipOf(rec)]
      /\ floor' = rec.time /\ log' = Append(log, rec)
  BY DEF Commit
<1> HIDE DEF rec
<1>4. /\ offset + Len(records) = n /\ records = Slice(log, offset, n)
      /\ leaves = LeavesOf(log) /\ tip = TipsOf(log, Genesis(Sources))
      /\ \A i \in 1..n : log[i].time <= floor
  BY DEF LogInv, Serves
<1>5. /\ Len(log') = n + 1 /\ log' \in Seq(Records)
      /\ Len(records') = Len(records) + 1 /\ Len(records) \in Nat
  BY <1>1, <1>2, <1>3, AppendProperties, LenProperties
<1>6. VerifyChains(log', Genesis(Sources))
  <2>1. tip[s] = TipAt(log, n, s, Genesis(Sources))
    BY <1>4, GenesisTips DEF TipsOf
  <2>2. VerifyChains(log, Genesis(Sources))
    BY DEF LogInv
  <2>3. Extends(TipAt(log, n, rec.source, Genesis(Sources)), rec)
    BY <1>2, <2>1
  <2> QED
    BY <1>1, <1>2, <1>3, <2>2, <2>3, VerifyChainsAppend
<1>7. /\ \A i, j \in 1..Len(log') : i < j => log'[i].time <= log'[j].time
      /\ \A i \in 1..Len(log') : log'[i].time <= floor'
  <2>1. \A r \in Records : r.time \in Nat
    BY RecordFields
  <2>2. \A i, j \in 1..Len(log) : i < j => log[i].time <= log[j].time
    BY DEF LogInv
  <2>3. \A i \in 1..Len(log) : log[i].time <= floor
    BY <1>4
  <2>4. LET new == Append(log, rec)
        IN  /\ \A i, j \in 1..Len(new) : i < j => new[i].time <= new[j].time
            /\ \A i \in 1..Len(new) : new[i].time <= rec.time
    BY <1>1, <1>2, <2>1, <2>2, <2>3, StampsOfAppend
  <2> QED
    BY <1>3, <2>4
<1>8. records' = Slice(log', offset, n + 1)
  <2>1. offset <= n
    BY <1>1, <1>4, <1>5
  <2>2. Slice(Append(log, rec), offset, Len(log) + 1) = Append(Slice(log, offset, Len(log)), rec)
    BY <1>1, <1>2, <2>1, SliceLonger
  <2> QED
    BY <1>3, <1>4, <2>2
<1>9. leaves' = LeavesOf(log')
  <2>1. LeavesOf(Append(log, rec)) = Append(LeavesOf(log), rec.hash)
    BY <1>1, <1>2, RecordFields, LeavesOfAppend
  <2> QED
    BY <1>3, <1>4, <2>1
<1>10. tip' = TipsOf(log', Genesis(Sources))
  <2>1. TipsOf(Append(log, rec), Genesis(Sources)) =
           [u \in DOMAIN Genesis(Sources) |->
              IF u = rec.source THEN TipOf(rec) ELSE TipsOf(log, Genesis(Sources))[u]]
    BY <1>1, <1>2, TipsOfAppend
  <2>2. DOMAIN tip = Sources
    BY <1>1 DEF Tips
  <2> QED
    BY <1>3, <1>4, <2>1, <2>2, GenesisTips
<1>11. Serves'
  <2>1. offset' + Len(records') = Len(log')
    <3>1. offset' = offset /\ offset \in Nat /\ Len(records) \in Nat /\ n \in Nat
      BY <1>1, <1>5
    <3>2. offset + Len(records) = n
      BY <1>4
    <3>3. Len(records') = Len(records) + 1 /\ Len(log') = n + 1
      BY <1>5
    <3> HIDE DEF n
    <3> QED
      BY ONLY <3>1, <3>2, <3>3
  <2> QED
    BY <1>5, <1>7, <1>8, <1>9, <1>10, <2>1 DEF Serves
<1> QED
  BY <1>6, <1>7, <1>11 DEF LogInv

LEMMA LogEmission ==
  ASSUME TypeOK, LogInv, Emission, UNCHANGED <<proc, offset>>
  PROVE  LogInv'
<1>1. CASE UNCHANGED journal
  BY <1>1 DEF journal, LogInv, Serves
<1>2. ASSUME proc = "up", NEW s \in Sources, NEW body \in Bodies, NEW t \in Nat,
             Commit(NextRecord(s, body, t))
      PROVE  LogInv'
  BY <1>2, LogGrows
<1> QED
  BY <1>1, <1>2 DEF Emission
-----------------------------------------------------------------------------
(* What is in which file, in the environments that are Sound. *)

RowInv(l) ==
  /\ RowsExact(cp, l) /\ Anchored(cp, l)
  /\ RowsExact(saved, l) /\ Anchored(saved, l)

\* The segments in force, the end of the last one, and the number of records
\* that are in sealed files, inventoried or not.
Listed       == Len(Ledger.segments)
LastEdge     == Edge(Ledger, Listed)
Sealed(a, l) == Len(l) - Len(Content(a))

\* A sealed file that is not in the inventory.
Stray == Listed < MaxSegments /\ Exists(hot[Listed + 1])

\* A process that is down can boot: what is not rotated is in the hot tier, and
\* the anchors are those of the last segment that is.
Bootable(l) ==
  /\ \A i \in 1..Listed : Exists(hot[i]) \/ i \in Rotated(saved)
  /\ \E k \in 0..Listed : AnchoredAt(saved, k, l) /\ Rotated(saved) = 1..k

\* Where the records of l are when a is the active file.
Layout(a, l) ==
  /\ LastEdge <= Sealed(a, l) /\ Content(a) = Slice(l, Sealed(a, l), Len(l))
  /\ \A i \in Segments : i > Listed => cold[i] = NoFile
  /\ \A i \in Segments : i > Listed + 1 => hot[i] = NoFile
  /\ Stray => /\ hot[Listed + 1] = Slice(l, LastEdge, Sealed(a, l))
              /\ proc = "up" /\ (wal = "closed" \/ pc \in {"reopen", "inventory"})
  /\ ~Stray => Sealed(a, l) = LastEdge /\ Exists(a)
  /\ \A i \in 1..Listed : cold[i] \in {NoFile, Ledger.segments[i].digest}
  /\ pc = "seal" => LastEdge < Len(l)
  /\ pc = "reopen" => ~Exists(a)
  /\ pc \in {"reopen", "inventory"} => LastEdge < Sealed(a, l)
  /\ pc = "inventory" => /\ snap.tips = TipsOf(Slice(l, 0, Sealed(a, l)), Genesis(Sources))
                         /\ snap.frontier = LeavesOf(Slice(l, 0, Sealed(a, l)))
  /\ proc = "down" => Bootable(l)

LEMMA LayoutInit == Init => RowInv(log) /\ Layout(active, log)
<1> SUFFICES ASSUME Init PROVE RowInv(log) /\ Layout(active, log)
  OBVIOUS
<1> DEFINE c == EmptyCheckpoint
<1>1. c \in Checkpoints /\ Len(c.segments) = 0 /\ c.tips = Genesis(Sources) /\ c.frontier = << >>
  BY EmptyCheckpointType DEF EmptyCheckpoint
<1>2. /\ cp = c /\ saved = c /\ Ledger = c /\ log = << >> /\ active = << >> /\ pc = "idle"
      /\ proc = "up" /\ \A i \in Segments : hot[i] = NoFile /\ cold[i] = NoFile
  BY DEF Init, Ledger
<1> HIDE DEF c
<1>3. Listed = 0 /\ LastEdge = 0
  BY <1>1, <1>2 DEF Listed, LastEdge, Edge
<1>4. RowsExact(c, log)
  BY <1>1 DEF RowsExact
<1>5. Anchored(c, log)
  <2>1. Rotated(c) = {}
    BY <1>1, RowType
  <2>2. Slice(log, 0, Edge(c, 0)) = << >> /\ 0 \in 0..Len(c.segments)
    BY <1>1, SliceEmpty DEF Edge
  <2>3. AnchoredAt(c, 0, log)
    BY <1>1, <2>1, <2>2, GenesisTips DEF AnchoredAt
  <2> QED
    BY <2>2, <2>3 DEF Anchored
<1>6. << >> \in Seq(Records) /\ Len(<< >>) = 0
  BY EmptySeq
<1>7. Exists(<< >>) /\ Content(<< >>) = << >>
  BY <1>6, NoFileAssumption DEF Exists, Content
<1>8. Sealed(active, log) = 0 /\ Len(log) = 0 /\ Content(active) = << >>
  BY <1>2, <1>6, <1>7 DEF Sealed
<1>9. Slice(log, 0, 0) = << >>
  BY SliceEmpty
<1>10. ~Stray
  <2>1. Listed < MaxSegments => Listed + 1 \in Segments
    BY <1>3, RetentionAssumption DEF Segments
  <2> QED
    BY <1>2, <2>1 DEF Stray, Exists
<1>11. Layout(active, log)
  BY <1>2, <1>3, <1>7, <1>8, <1>9, <1>10 DEF Layout
<1> QED
  BY <1>2, <1>4, <1>5, <1>11 DEF RowInv

\* The checkpoints in force are typed and their edges lie within the log.
LEMMA LayoutBounds ==
  ASSUME TypeInv, NEW a \in Files, NEW l \in Seq(Records), RowInv(l), Layout(a, l)
  PROVE  /\ Ledger \in Checkpoints /\ RowsExact(Ledger, l) /\ Anchored(Ledger, l)
         /\ Listed \in Nat /\ Listed <= MaxSegments /\ LastEdge \in Nat
         /\ Content(a) \in Seq(Records) /\ Len(Content(a)) \in Nat /\ Len(l) \in Nat
         /\ Sealed(a, l) \in Nat /\ LastEdge <= Sealed(a, l) /\ Sealed(a, l) <= Len(l)
<1>1. Ledger \in Checkpoints /\ RowsExact(Ledger, l) /\ Anchored(Ledger, l)
  BY DEF Ledger, TypeInv, TypeOK, RowInv
<1>2. Listed \in Nat /\ LastEdge \in Nat /\ Len(l) \in Nat
  <2>1. /\ Len(l) \in Nat /\ Len(Ledger.segments) \in Nat
        /\ \A i \in 0..Len(Ledger.segments) : Edge(Ledger, i) \in Nat
    BY <1>1, EdgeBounds
  <2>2. Len(Ledger.segments) \in 0..Len(Ledger.segments)
    BY <2>1
  <2> QED
    BY <2>1, <2>2 DEF Listed, LastEdge
<1>3. Listed <= MaxSegments
  BY DEF Listed, Ledger, TypeInv, Places
<1>4. Content(a) \in Seq(Records) /\ Len(Content(a)) \in Nat
  BY FileKinds, LenProperties
<1>5. LastEdge <= Sealed(a, l)
  BY DEF Layout
<1>6. Sealed(a, l) \in Nat /\ Sealed(a, l) <= Len(l)
  BY <1>2, <1>4, <1>5 DEF Sealed
<1> QED
  BY <1>1, <1>2, <1>3, <1>4, <1>5, <1>6

\* A record is committed: it is at the end of the log and of the active file.
LEMMA LayoutGrows ==
  ASSUME TypeInv, RowInv(log), Layout(active, log), Emission
  PROVE  RowInv(log') /\ Layout(active', log')
<1>0. log \in Seq(Records) /\ active \in Files /\ JournalOK /\ Places
  BY JournalTyped DEF TypeInv, TypeOK
<1>1. CASE UNCHANGED journal
  BY <1>1 DEF journal
<1>2. ASSUME proc = "up", wal = "open", pc # "reopen",
             NEW s \in Sources, NEW body \in Bodies, NEW t \in Nat, Commit(NextRecord(s, body, t))
      PROVE  RowInv(log') /\ Layout(active', log')
  <2> DEFINE rec == NextRecord(s, body, t)
             n == Len(log)
             e == Sealed(active, log)
  <2>1. rec \in Records /\ log' = Append(log, rec) /\ active' = Append(active, rec)
    <3>1. rec \in Records
      BY <1>0, NextRecordType DEF JournalOK
    <3> QED
      BY <1>2, <3>1 DEF Commit
  <2> HIDE DEF rec
  <2>2. /\ Exists(active) /\ active \in Seq(Records) /\ Content(active) = active
    BY <1>0, <1>2, FileKinds DEF Places
  <2>3. /\ active' \in Seq(Records) /\ Len(active') = Len(active) + 1 /\ Len(active) \in Nat
        /\ log' \in Seq(Records) /\ Len(log') = n + 1 /\ n \in Nat
    BY <1>0, <2>1, <2>2, AppendProperties, LenProperties
  <2>4. Exists(active') /\ Content(active') = active'
    BY <2>3, NoFileAssumption DEF Exists, Content
  <2>5. /\ Ledger \in Checkpoints /\ Listed \in Nat /\ LastEdge \in Nat
        /\ e \in Nat /\ LastEdge <= e /\ e <= n /\ e = n - Len(active)
    <3>1. /\ Ledger \in Checkpoints /\ Listed \in Nat /\ LastEdge \in Nat
          /\ e \in Nat /\ LastEdge <= e /\ e <= n
      BY <1>0, LayoutBounds
    <3> QED
      BY <2>2, <3>1 DEF Sealed
  <2>6. Sealed(active', log') = e
    BY <2>3, <2>4, <2>5 DEF Sealed
  <2>7. RowInv(log')
    <3>1. cp \in Checkpoints /\ saved \in Checkpoints
      BY DEF TypeInv, TypeOK
    <3> QED
      BY <1>0, <2>1, <3>1, RowsOfLonger DEF RowInv
  <2>8. Content(active') = Slice(log', e, Len(log'))
    <3>1. Content(active) = Slice(log, e, n)
      BY DEF Layout
    <3>2. Slice(Append(log, rec), e, Len(log) + 1) = Append(Slice(log, e, Len(log)), rec)
      BY <1>0, <2>1, <2>5, SliceLonger
    <3> QED
      BY <2>1, <2>2, <2>3, <2>4, <3>1, <3>2
  <2>9. Slice(log', LastEdge, e) = Slice(log, LastEdge, e) /\ Slice(log', 0, e) = Slice(log, 0, e)
    BY <1>0, <2>1, <2>5, SliceGrows
  <2> HIDE DEF e, n
  <2>10. LastEdge < Len(log')
    BY <2>3, <2>5
  <2>11. Sealed(active, log) = e /\ proc # "down"
    BY <1>2 DEF e
  <2>12. Layout(active', log')
    BY <1>2, <2>4, <2>5, <2>6, <2>8, <2>9, <2>10, <2>11 DEF Layout
  <2> QED
    BY <2>7, <2>12
<1> QED
  BY <1>1, <1>2 DEF Emission

\* A step that leaves the tiers, the checkpoints and the process alone.
LEMMA LayoutFrame ==
  ASSUME RowInv(log'), Layout(active', log'), UNCHANGED <<hot, cold, saved, cp, proc>>,
         Stray => wal' = "closed" \/ pc' \in {"reopen", "inventory"},
         pc' = "seal" => LastEdge < Len(log'),
         pc' \in {"reopen", "inventory"} => pc' = pc /\ snap' = snap
  PROVE  RowInv(log)' /\ Layout(active, log)'
<1>1. Ledger' = Ledger /\ Rotated(saved)' = Rotated(saved) /\ Rotated(cp)' = Rotated(cp)
  BY DEF Ledger, Rotated
<1>2. Listed' = Listed /\ LastEdge' = LastEdge
  BY <1>1 DEF Listed, LastEdge, Edge
<1>3. (Stray' <=> Stray) /\ Sealed(active, log)' = Sealed(active', log')
  BY <1>2 DEF Stray, Exists, Sealed, Content
<1>4. RowInv(log)'
  BY DEF RowInv, RowsExact, RowExact, Anchored, AnchoredAt, Edge, Rotated, Slice
<1>5. proc' = "down" => Bootable(log)'
  <2>1. proc' = "down" => Bootable(log')
    BY DEF Layout
  <2> QED
    BY <1>1, <1>2, <2>1 DEF Bootable, Exists, AnchoredAt, Edge, Slice
<1>6. /\ LastEdge <= Sealed(active', log')
      /\ Content(active') = Slice(log', Sealed(active', log'), Len(log'))
      /\ \A i \in Segments : i > Listed => cold[i] = NoFile
      /\ \A i \in Segments : i > Listed + 1 => hot[i] = NoFile
      /\ Stray => hot[Listed + 1] = Slice(log', LastEdge, Sealed(active', log')) /\ proc = "up"
      /\ ~Stray => Sealed(active', log') = LastEdge /\ Exists(active')
      /\ \A i \in 1..Listed : cold[i] \in {NoFile, Ledger.segments[i].digest}
  BY DEF Layout
<1>7. /\ pc' = "reopen" => ~Exists(active')
      /\ pc' \in {"reopen", "inventory"} => LastEdge < Sealed(active', log')
      /\ pc' = "inventory" =>
           /\ snap'.tips = TipsOf(Slice(log', 0, Sealed(active', log')), Genesis(Sources))
           /\ snap'.frontier = LeavesOf(Slice(log', 0, Sealed(active', log')))
  BY DEF Layout
<1>8. Layout(active, log)'
  BY <1>1, <1>2, <1>3, <1>5, <1>6, <1>7 DEF Layout, Slice, Exists, Content
<1> QED
  BY <1>4, <1>8

\* A step of a rotation: it works on segments of the inventory only.
LEMMA LayoutRotation ==
  ASSUME TypeInv, Layout(active', log'), proc = "up", proc' = "up", wal' = wal,
         Len(cp'.segments) = Len(cp.segments),
         \A i \in 1..Len(cp.segments) : SameRow(cp'.segments[i], cp.segments[i]),
         \A i \in Segments : i > Len(cp.segments) => hot'[i] = hot[i] /\ cold'[i] = cold[i],
         \A i \in 1..Len(cp.segments) : cold'[i] \in {NoFile, cp.segments[i].digest},
         pc \notin {"reopen", "inventory"}, pc' \notin {"seal", "reopen", "inventory"}
  PROVE  Layout(active, log)'
<1>1. Ledger = cp /\ Ledger' = cp' /\ Listed = Len(cp.segments) /\ Listed' = Listed
  BY DEF Ledger, Listed
<1>2. Listed \in Nat
  BY <1>1, RowType DEF TypeInv, TypeOK
<1>3. LastEdge' = LastEdge
  <2>1. Listed = 0 \/ Listed \in 1..Len(cp.segments)
    BY <1>1, <1>2
  <2>2. Listed # 0 => cp'.segments[Listed].lastGlobal = cp.segments[Listed].lastGlobal
    BY <2>1 DEF SameRow
  <2> QED
    BY <1>1, <2>2 DEF LastEdge, Edge
<1>4. \A i \in Segments : i > Listed + 1 => i > Listed
  BY <1>2 DEF Segments
<1>5. Stray' <=> Stray
  <2>1. Listed < MaxSegments => Listed + 1 \in Segments /\ Listed + 1 > Len(cp.segments)
    BY <1>1, <1>2, RetentionAssumption DEF Segments
  <2>2. Listed < MaxSegments => hot'[Listed + 1] = hot[Listed + 1]
    BY <2>1
  <2> QED
    BY <1>1, <2>2 DEF Stray, Exists
<1>6. Sealed(active, log)' = Sealed(active', log')
  BY DEF Sealed, Content, Exists
<1>7. /\ LastEdge <= Sealed(active', log')
      /\ Content(active') = Slice(log', Sealed(active', log'), Len(log'))
      /\ \A i \in Segments : i > Listed => cold[i] = NoFile
      /\ \A i \in Segments : i > Listed + 1 => hot[i] = NoFile
      /\ Stray => hot[Listed + 1] = Slice(log', LastEdge, Sealed(active', log')) /\ wal = "closed"
      /\ ~Stray => Sealed(active', log') = LastEdge /\ Exists(active')
  BY DEF Layout
<1>8. Stray => hot'[Listed + 1] = Slice(log', LastEdge, Sealed(active', log'))
  <2>1. Stray => Listed + 1 \in Segments /\ Listed + 1 > Len(cp.segments)
    BY <1>1, <1>2, RetentionAssumption DEF Segments, Stray
  <2> QED
    BY <1>7, <2>1
<1>9. \A i \in 1..Listed : cold'[i] \in {NoFile, cp'.segments[i].digest}
  BY <1>1 DEF SameRow
<1>10. /\ \A i \in Segments : i > Listed => cold'[i] = NoFile
       /\ \A i \in Segments : i > Listed + 1 => hot'[i] = NoFile
  BY <1>1, <1>4, <1>7
<1> QED
  BY <1>1, <1>3, <1>5, <1>6, <1>7, <1>8, <1>9, <1>10 DEF Layout, Slice, Exists, Content

\* The active file becomes the next segment.
LEMMA LayoutSealRenames ==
  ASSUME TypeInv, RowInv(log), Layout(active, log), SealRenames
  PROVE  RowInv(log)' /\ Layout(active, log)'
<1> DEFINE n == Len(cp.segments)
<1>1. /\ pc = "seal" /\ wal = "open" /\ hot' = [hot EXCEPT ![NextSegment] = active]
      /\ active' = NoFile /\ pc' = "reopen"
      /\ UNCHANGED <<cold, saved, proc, wal, cp, snap, log>>
  BY DEF SealRenames, serving
<1>2. /\ NextSegment \in Segments /\ NextSegment = n + 1 /\ n < MaxSegments /\ proc = "up"
      /\ Exists(active) /\ active \in Files /\ log \in Seq(Records) /\ n \in Nat
  BY <1>1, NextSegmentPlace, RowType DEF TypeInv, TypeOK, Places
<1>3. /\ Ledger = cp /\ Ledger' = cp /\ Listed = n /\ Listed' = n /\ LastEdge' = LastEdge
      /\ Rotated(saved)' = Rotated(saved) /\ Rotated(cp)' = Rotated(cp)
  BY <1>1, <1>2 DEF Ledger, Listed, LastEdge, Edge, Rotated
<1>4. /\ LastEdge \in Nat /\ Len(log) \in Nat /\ Content(active) = active
      /\ Sealed(active, log) \in Nat
  BY <1>2, LayoutBounds, FileKinds
<1> HIDE DEF n
<1>5. ~Stray
  BY <1>1 DEF Layout
<1>6. LastEdge < Len(log) /\ active = Slice(log, LastEdge, Len(log))
  BY <1>1, <1>4, <1>5 DEF Layout
<1>7. hot'[n + 1] = active /\ \A i \in Segments : i > n + 1 => hot'[i] = hot[i]
  BY <1>1, <1>2 DEF TypeInv, TypeOK
<1>8. Content(active') = << >> /\ ~Exists(active') /\ Sealed(active, log)' = Len(log)
  <2>1. Content(active') = << >> /\ ~Exists(active')
    BY <1>1 DEF Content, Exists
  <2>2. Len(<< >>) = 0
    BY EmptySeq
  <2>3. Content(active)' = << >> /\ log' = log
    BY <1>1, <2>1 DEF Content, Exists
  <2> QED
    BY <1>4, <2>1, <2>2, <2>3 DEF Sealed
<1>9. Slice(log, Len(log), Len(log)) = << >>
  BY <1>4, SliceEmpty
<1>10. RowInv(log)'
  BY <1>1, <1>3, ZenonT(60) DEF RowInv, RowsExact, RowExact, Anchored, AnchoredAt, Edge, Slice
<1>11. Stray'
  BY <1>2, <1>3, <1>7 DEF Stray, Exists
<1>12. /\ \A i \in Segments : i > n => cold'[i] = NoFile
       /\ \A i \in Segments : i > n + 1 => hot'[i] = NoFile
       /\ \A i \in 1..n : cold'[i] \in {NoFile, cp.segments[i].digest}
  BY <1>1, <1>3, <1>7 DEF Layout
<1>13. LastEdge <= Len(log)
  BY <1>4, <1>6
<1>14. Content(active)' = Content(active') /\ (Exists(active)' <=> Exists(active'))
  BY DEF Content, Exists
<1>15. Layout(active, log)'
  BY <1>1, <1>2, <1>3, <1>6, <1>7, <1>8, <1>9, <1>11, <1>12, <1>13, <1>14 DEF Layout, Slice
<1> QED
  BY <1>10, <1>15

\* A fresh active file, and the anchors of what is sealed.
LEMMA LayoutSealReopens ==
  ASSUME TypeInv, LogInv, RowInv(log), Layout(active, log), SealReopens
  PROVE  RowInv(log)' /\ Layout(active, log)'
<1>1. /\ pc = "reopen" /\ active' = << >> /\ snap' = [tips |-> tip, frontier |-> leaves]
      /\ pc' = "inventory" /\ UNCHANGED <<hot, cold, saved, proc, wal, cp, log>>
  BY DEF SealReopens, serving
<1>2. proc = "up" /\ active \in Files /\ log \in Seq(Records)
  BY <1>1 DEF TypeInv, TypeOK, Places
<1>3. /\ Ledger' = Ledger /\ Listed' = Listed /\ LastEdge' = LastEdge
      /\ Rotated(saved)' = Rotated(saved) /\ Rotated(cp)' = Rotated(cp)
  BY <1>1 DEF Ledger, Listed, LastEdge, Edge, Rotated
<1>4. /\ LastEdge \in Nat /\ Len(log) \in Nat
  BY <1>2, LayoutBounds
<1>5. ~Exists(active) /\ Stray
  BY <1>1 DEF Layout
<1>6. << >> \in Seq(Records) /\ Len(<< >>) = 0
  BY EmptySeq
<1>7. Content(active) = << >> /\ Sealed(active, log) = Len(log)
  <2>1. Content(active) = << >>
    BY <1>5 DEF Content
  <2> QED
    BY <1>4, <1>6, <2>1 DEF Sealed
<1>8. Content(active)' = << >> /\ Sealed(active, log)' = Len(log)
  <2>1. Content(active)' = << >>
    BY <1>1 DEF Content
  <2> QED
    BY <1>1, <1>4, <1>6, <2>1 DEF Sealed
<1>9. /\ snap'.tips = TipsOf(Slice(log, 0, Len(log)), Genesis(Sources))
      /\ snap'.frontier = LeavesOf(Slice(log, 0, Len(log)))
  <2>1. Slice(log, 0, Len(log)) = log
    BY <1>2, SliceFull
  <2> QED
    BY <1>1, <1>2, <2>1 DEF LogInv, Serves
<1>10. RowInv(log)'
  BY <1>1, <1>3, ZenonT(60) DEF RowInv, RowsExact, RowExact, Anchored, AnchoredAt, Edge, Slice
<1>11. Stray'
  BY <1>1, <1>3, <1>5 DEF Stray, Exists
<1>12. /\ LastEdge < Len(log) /\ hot[Listed + 1] = Slice(log, LastEdge, Len(log))
       /\ Slice(log, Len(log), Len(log)) = << >> /\ LastEdge <= Len(log)
       /\ \A i \in Segments : i > Listed => cold[i] = NoFile
       /\ \A i \in Segments : i > Listed + 1 => hot[i] = NoFile
       /\ \A i \in 1..Listed : cold[i] \in {NoFile, Ledger.segments[i].digest}
  BY <1>1, <1>5, <1>7 DEF Layout
<1>13. Layout(active, log)'
  BY <1>1, <1>2, <1>3, <1>8, <1>9, <1>11, <1>12 DEF Layout, Slice
<1> QED
  BY <1>10, <1>13
-----------------------------------------------------------------------------
(* Each step of the manager, in the environments that are Sound. *)

\* The row a seal enters is exact: it covers the records between the last row
\* and the active file, whatever was admitted since the seal.
LEMMA RowEntered ==
  ASSUME TypeInv, NEW a \in Files, NEW l \in Seq(Records), RowInv(l), Layout(a, l),
         \A i, j \in 1..Len(l) : i < j => l[i].time <= l[j].time,
         pc = "inventory", hot[NextSegment] # << >>, NEW d,
         d = [cp EXCEPT !.segments = Append(@, SegmentEntry(hot[NextSegment]))]
  PROVE  /\ RowsExact(d, l) /\ Anchored(d, l)
         /\ Listed = Len(cp.segments) /\ Edge(d, Listed + 1) = Sealed(a, l)
<1> DEFINE n == Len(cp.segments)
           e == Sealed(a, l)
           low == Edge(cp, n)
           C == hot[NextSegment]
           row == SegmentEntry(C)
<1>1. /\ NextSegment \in Segments /\ NextSegment = n + 1 /\ n \in Nat /\ n < MaxSegments
      /\ proc = "up" /\ Exists(hot[NextSegment]) /\ cp \in Checkpoints
  BY NextSegmentPlace, RowType DEF TypeInv, TypeOK, Places
<1>2. Ledger = cp /\ Listed = n /\ LastEdge = low
  BY <1>1 DEF Ledger, Listed, LastEdge
<1>3. /\ C \in Seq(Records) /\ d \in Checkpoints /\ Len(d.segments) = n + 1
      /\ \A j \in 1..n : d.segments[j] = cp.segments[j]
      /\ d.segments[n + 1] = row /\ d.tips = cp.tips /\ d.frontier = cp.frontier
      /\ Rotated(d) = Rotated(cp)
  BY InventoryType
<1>4. /\ low \in Nat /\ e \in Nat /\ low <= e /\ e <= Len(l) /\ Len(l) \in Nat
      /\ RowsExact(cp, l) /\ Anchored(cp, l)
  BY <1>2, LayoutBounds
<1>5. Stray
  BY <1>1, <1>2 DEF Stray
<1>6. /\ C = Slice(l, low, e) /\ low < e
      /\ snap.tips = TipsOf(Slice(l, 0, e), Genesis(Sources))
      /\ snap.frontier = LeavesOf(Slice(l, 0, e))
  BY <1>1, <1>2, <1>5 DEF Layout
<1>7. Boundary(cp) = low
  BY <1>1, <1>4, BoundaryIsEdge
<1> HIDE DEF C, n, e, low
<1>8. Len(C) = e - low /\ \A j \in 1..(e - low) : C[j] = l[low + j]
  <2>1. Len(Slice(l, low, e)) = e - low
    BY <1>4, SliceType
  <2>2. \A j \in 1..(e - low) : Slice(l, low, e)[j] = l[low + j]
    BY <1>4, SliceAt
  <2> QED
    BY <1>6, <2>1, <2>2
<1>9. /\ row.firstGlobal = low /\ row.lastGlobal + 1 = e /\ row.digest = C
      /\ row.tips = snap.tips /\ row.frontier = snap.frontier
      /\ row.last = Max(TimesOf(C))
  <2>1. low + (e - low) - 1 + 1 = e
    BY <1>4
  <2> QED
    BY <1>7, <1>8, <2>1 DEF SegmentEntry
<1> HIDE DEF row
<1>10. \A i \in 0..n : Edge(d, i) = Edge(cp, i)
  BY <1>1, <1>3 DEF Edge
<1>11. Edge(d, n + 1) = e
  BY <1>1, <1>3, <1>9 DEF Edge
<1>12. \A j \in 1..e : l[j].time <= row.last
  <2> DEFINE top == Max(TimesOf(C))
  <2>1. C # << >>
    BY <1>4, <1>6, <1>8, EmptySeq
  <2>2. top \in Nat /\ \A j \in 1..Len(C) : C[j].time <= top
    BY <1>3, <2>1, StampsOfContent
  <2> HIDE DEF top
  <2>3. e - low \in 1..(e - low) /\ low + (e - low) = e /\ e \in 1..Len(l)
    BY <1>4, <1>6
  <2>4. l[e].time <= top
    BY <1>8, <2>2, <2>3
  <2>5. \A j \in 1..e : j \in 1..Len(l) /\ (j < e \/ j = e)
    BY <1>4
  <2>6. \A j \in 1..Len(l) : l[j].time \in Nat
    BY RecordFields, ElementOfSeq
  <2>7. \A j \in 1..e : l[j].time <= l[e].time
    BY <2>3, <2>5, <2>6
  <2>8. \A j \in 1..e : l[j].time <= top
    BY <2>2, <2>3, <2>4, <2>5, <2>6, <2>7
  <2> QED
    BY <1>9, <2>8 DEF top
<1>13. RowsExact(d, l)
  <2> SUFFICES ASSUME NEW i \in 1..(n + 1) PROVE RowExact(d, i, l)
    BY <1>3 DEF RowsExact
  <2>1. CASE i \in 1..n
    <3>1. i \in 0..n /\ i - 1 \in 0..n
      BY <1>1, <2>1
    <3>2. Edge(d, i) = Edge(cp, i) /\ Edge(d, i - 1) = Edge(cp, i - 1) /\ d.segments[i] = cp.segments[i]
      BY <1>3, <1>10, <2>1, <3>1
    <3>3. RowExact(cp, i, l)
      BY <1>4, <2>1 DEF RowsExact, n
    <3> QED
      BY <3>2, <3>3 DEF RowExact
  <2>2. CASE i = n + 1
    <3>1. i - 1 = n /\ n \in 0..n
      BY <1>1, <2>2
    <3>2. Edge(d, i) = e /\ Edge(d, i - 1) = low /\ d.segments[i] = row
      BY <1>3, <1>10, <1>11, <2>2, <3>1 DEF low
    <3> QED
      BY <1>4, <1>6, <1>9, <1>12, <3>2 DEF RowExact
  <2> QED
    BY <1>1, <2>1, <2>2
<1>14. Anchored(d, l)
  <2>1. PICK k \in 0..n : AnchoredAt(cp, k, l)
    BY <1>4 DEF Anchored, n
  <2>2. Edge(d, k) = Edge(cp, k)
    BY <1>10
  <2>2a. k \in 0..(n + 1)
    <3>1. n \in Nat
      BY <1>1
    <3> QED
      BY ONLY <3>1, k \in 0..n
  <2>3. AnchoredAt(d, k, l)
    BY <1>3, <2>1, <2>2 DEF AnchoredAt
  <2> QED
    BY <1>3, <2>2a, <2>3 DEF Anchored
<1> QED
  BY <1>2, <1>11, <1>13, <1>14 DEF n, e

\* A sealed segment is never empty, so that the inventory takes it.
LEMMA SealedIsNotEmpty ==
  ASSUME TypeInv, RowInv(log), Layout(active, log), pc = "inventory"
  PROVE  hot[NextSegment] # << >>
<1>1. /\ NextSegment \in Segments /\ NextSegment = Len(cp.segments) + 1
      /\ Len(cp.segments) < MaxSegments /\ proc = "up" /\ Exists(hot[NextSegment])
      /\ active \in Files /\ log \in Seq(Records)
  BY NextSegmentPlace DEF TypeInv, TypeOK, Places
<1>2. Listed = Len(cp.segments) /\ Stray
  BY <1>1 DEF Ledger, Listed, Stray
<1>3. /\ hot[NextSegment] = Slice(log, LastEdge, Sealed(active, log))
      /\ LastEdge < Sealed(active, log)
  BY <1>1, <1>2 DEF Layout
<1>4. /\ LastEdge \in Nat /\ Sealed(active, log) \in Nat /\ Sealed(active, log) <= Len(log)
      /\ LastEdge <= Sealed(active, log)
  BY <1>1, LayoutBounds
<1> DEFINE e == Sealed(active, log)
           low == LastEdge
<1> HIDE DEF e, low
<1>5. Len(Slice(log, low, e)) = e - low
  BY <1>1, <1>4, SliceType DEF e, low
<1>6. e - low # 0
  BY <1>3, <1>4 DEF e, low
<1> QED
  BY <1>3, <1>5, <1>6, EmptySeq DEF e, low

LEMMA LayoutInventory ==
  ASSUME TypeInv, TypeInv', LogInv', RowInv(log'), Layout(active', log'),
         pc = "inventory", hot[NextSegment] # << >>,
         cp' = [cp EXCEPT !.segments = Append(@, SegmentEntry(hot[NextSegment]))],
         saved' \in {saved, cp'}, pc' = "rotate",
         UNCHANGED <<hot, cold, proc, wal>>
  PROVE  RowInv(log)' /\ Layout(active, log)'
<1> DEFINE n == Len(cp.segments)
           l == log'
           a == active'
           d == cp'
           e == Sealed(a, l)
<1>1. /\ n \in Nat /\ n < MaxSegments /\ proc = "up" /\ proc' = "up" /\ wal' = "open"
      /\ a \in Files /\ l \in Seq(Records) /\ Exists(hot[n + 1])
  BY RowType DEF TypeInv, TypeOK, Places, NextSegment
<1>2. \A i, j \in 1..Len(l) : i < j => l[i].time <= l[j].time
  BY DEF LogInv
<1>3. /\ RowsExact(d, l) /\ Anchored(d, l) /\ Listed = n /\ Edge(d, n + 1) = e
  <2> HIDE DEF l, a
  <2> DEFINE c == [cp EXCEPT !.segments = Append(@, SegmentEntry(hot[NextSegment]))]
  <2>1. RowInv(l) /\ Layout(a, l)
    BY DEF l, a
  <2>2. /\ RowsExact(c, l) /\ Anchored(c, l)
        /\ Listed = Len(cp.segments) /\ Edge(c, Listed + 1) = Sealed(a, l)
    BY <1>1, <1>2, <2>1, RowEntered
  <2> QED
    BY <2>2
<1>4. Len(d.segments) = n + 1
  BY InventoryType
<1>4a. \A j \in 1..n : d.segments[j] = cp.segments[j]
  BY InventoryType
<1>5. RowsExact(saved', l) /\ Anchored(saved', l)
  BY <1>3 DEF RowInv
<1>6. RowInv(log)'
  BY <1>3, <1>5 DEF RowInv, RowsExact, RowExact, Anchored, AnchoredAt, Edge, Slice, Rotated
<1>7. Ledger = cp /\ Ledger' = d /\ Listed' = n + 1
  BY <1>1, <1>4 DEF Ledger, Listed
<1>8. LastEdge' = e
  BY <1>3, <1>7 DEF LastEdge, Edge
<1>9. Exists(active')
  BY <1>1 DEF TypeInv, Places, Exists
<1>10. /\ \A i \in Segments : i > n => cold[i] = NoFile
       /\ \A i \in Segments : i > n + 1 => hot[i] = NoFile
       /\ \A i \in 1..n : cold[i] \in {NoFile, cp.segments[i].digest}
       /\ Content(a) = Slice(l, e, Len(l))
  BY <1>3, <1>7 DEF Layout
<1>11. /\ \A i \in Segments : i > n + 1 => cold[i] = NoFile
       /\ \A i \in Segments : i > n + 1 + 1 => hot[i] = NoFile
  BY <1>1, <1>10 DEF Segments
<1>12. \A i \in 1..(n + 1) : cold[i] \in {NoFile, d.segments[i].digest}
  <2>1. \A i \in 1..(n + 1) : i \in 1..n \/ (i = n + 1 /\ i \in Segments /\ i > n)
    BY <1>1, RetentionAssumption DEF Segments
  <2> QED
    BY <1>4a, <1>10, <2>1
<1>13. ~Stray'
  <2>1. n + 1 < MaxSegments => n + 1 + 1 \in Segments /\ n + 1 + 1 > n + 1
    BY <1>1, RetentionAssumption DEF Segments
  <2> QED
    BY <1>7, <1>10, <2>1 DEF Stray, Exists
<1>14. Sealed(active, log)' = e /\ e <= e
  <2>1. e \in Nat
    BY <1>1, LayoutBounds
  <2> QED
    BY <2>1 DEF Sealed, Content, Exists
<1>15. Layout(active, log)'
  <2> HIDE DEF e, n
  <2> QED
    BY <1>1, <1>7, <1>8, <1>9, <1>10, <1>11, <1>12, <1>13, <1>14 DEF Layout, Slice, Content, Exists
<1> QED
  BY <1>6, <1>15
\* A step that commits nothing.
LEMMA LogFrame ==
  ASSUME LogInv, UNCHANGED <<proc, offset, records, leaves, tip, floor, log>>
  PROVE  LogInv'
BY DEF LogInv, Serves, Slice

\* What holds of every state that is reached without a crash in a window and
\* without a sealed segment that cannot be read back.
SoundState == LogInv /\ RowInv(log) /\ Layout(active, log)

LEMMA SoundSeal ==
  ASSUME TypeInv, TypeInv', SoundState, Sound, Seal
  PROVE  SoundState'
<1>0. LogInv /\ RowInv(log) /\ Layout(active, log) /\ TypeOK
  BY DEF SoundState, TypeInv
<1>1. CASE SealRenames
  <2>1. LogInv'
    BY <1>0, <1>1, LogFrame DEF SealRenames, serving
  <2> QED
    BY <1>0, <1>1, <2>1, LayoutSealRenames DEF SoundState
<1>2. CASE SealReopens
  <2>1. LogInv'
    BY <1>0, <1>2, LogFrame DEF SealReopens, serving
  <2> QED
    BY <1>0, <1>2, <2>1, LayoutSealReopens DEF SoundState
<1>3. CASE SealFails
  <2>1. PICK handle \in {wal, "closed"} :
           wal' = handle /\ EmitOnce(handle, NextSegment, "seal_failure")
    BY <1>3 DEF SealFails
  <2>2. /\ pc = "seal" /\ pc' = "rotate" /\ UNCHANGED <<hot, cold, saved, cp, proc, offset>>
    BY <1>3 DEF SealFails
  <2>3. Emission
    <3>1. NextSegment \in Segments /\ "seal_failure" \in Bodies
      BY <2>2, NextSegmentPlace DEF Bodies
    <3> QED
      BY <2>1, <2>2, <3>1, EmitOnceIsEmission
  <2>4. LogInv' /\ RowInv(log') /\ Layout(active', log')
    BY <1>0, <2>2, <2>3, LogEmission, LayoutGrows
  <2>5. Stray => wal' = "closed"
    BY <1>0, <2>1, <2>2 DEF Layout
  <2>6. RowInv(log)' /\ Layout(active, log)'
    BY <2>2, <2>4, <2>5, LayoutFrame
  <2> QED
    BY <2>4, <2>6 DEF SoundState
<1>4. CASE SealWedges
  <2>1. /\ pc = "reopen" /\ pc' = "rotate" /\ UNCHANGED <<hot, cold, saved, cp, proc, offset>>
        /\ EmitOnce("closed", NextSegment, "seal_failure") /\ wal' = "closed"
    BY <1>4 DEF SealWedges
  <2>2. Emission
    <3>1. NextSegment \in Segments /\ "seal_failure" \in Bodies
      BY <2>1, NextSegmentPlace DEF Bodies
    <3> QED
      BY <2>1, <3>1, EmitOnceIsEmission
  <2>3. LogInv' /\ RowInv(log') /\ Layout(active', log')
    BY <1>0, <2>1, <2>2, LogEmission, LayoutGrows
  <2>4. RowInv(log)' /\ Layout(active, log)'
    BY <2>1, <2>3, LayoutFrame
  <2> QED
    BY <2>3, <2>4 DEF SoundState
<1>5. CASE InventoryFails
  BY <1>0, <1>5, SealedIsNotEmpty DEF InventoryFails, Sound
<1>6. ASSUME pc = "inventory", hot[NextSegment] # << >>,
             cp' = [cp EXCEPT !.segments = Append(@, SegmentEntry(hot[NextSegment]))],
             saved' \in {saved, cp'}, pc' = "rotate",
             UNCHANGED <<hot, cold, proc, wal, offset>>, Emission
      PROVE  SoundState'
  <2>1. LogInv' /\ RowInv(log') /\ Layout(active', log')
    BY <1>0, <1>6, LogEmission, LayoutGrows
  <2>2. RowInv(log)' /\ Layout(active, log)'
    BY <1>6, <2>1, LayoutInventory
  <2> QED
    BY <2>1, <2>2 DEF SoundState
<1>7. CASE InventorySaves
  <2>1. UNCHANGED journal
    BY <1>7 DEF InventorySaves, serving, journal
  <2> QED
    BY <1>6, <1>7, <2>1 DEF InventorySaves, serving, Emission
<1>8. CASE InventoryUnsaved
  <2>1. pc = "inventory" /\ SelfEmit(wal, "seal_failure") /\ "seal_failure" \in Bodies
    BY <1>8 DEF InventoryUnsaved, Bodies
  <2>2. Emission
    BY <2>1, SelfEmitIsEmission
  <2> QED
    BY <1>6, <1>8, <2>2 DEF InventoryUnsaved
<1> QED
  BY <1>1, <1>2, <1>3, <1>4, <1>5, <1>7, <1>8 DEF Seal
\* A promotion moves the anchors to the end of the segment whose turn it is;
\* when it is taken back they stay there.
LEMMA PromotionAnchors ==
  ASSUME NEW l \in Seq(Records), cp \in Checkpoints, Unrotated(cp) # {},
         RowsExact(cp, l), Anchored(cp, l)
  PROVE  /\ RowsExact(Promoted, l) /\ Anchored(Promoted, l)
         /\ RowsExact(RolledBack, l) /\ Anchored(RolledBack, l)
<1> DEFINE n == Len(cp.segments)
           t == Turn
<1>1. /\ t \in 1..n /\ t \notin Rotated(cp) /\ \A j \in 1..n : j < t => j \in Rotated(cp)
      /\ n \in Nat
  BY TurnPlace, RowType
<1>2. /\ Promoted \in Checkpoints /\ RolledBack \in Checkpoints
      /\ Len(Promoted.segments) = n /\ Len(RolledBack.segments) = n
  BY PromotionType
<1>2a. /\ \A j \in 1..n : SameRow(Promoted.segments[j], cp.segments[j])
       /\ \A j \in 1..n : SameRow(RolledBack.segments[j], cp.segments[j])
  BY PromotionType
<1>3. /\ Promoted.tips = cp.segments[t].tips /\ RolledBack.tips = cp.segments[t].tips
      /\ Promoted.frontier = cp.segments[t].frontier
      /\ RolledBack.frontier = cp.segments[t].frontier
      /\ Rotated(Promoted) = Rotated(cp) \cup {t}
      /\ Rotated(RolledBack) = Rotated(cp)
  BY PromotionType
<1>4. Follows(Promoted, cp) /\ Follows(RolledBack, cp)
  BY <1>1, <1>2, <1>2a DEF Follows
<1>5. /\ RowsExact(Promoted, l) /\ RowsExact(RolledBack, l)
      /\ \A i \in 0..n : Edge(Promoted, i) = Edge(cp, i)
      /\ \A i \in 0..n : Edge(RolledBack, i) = Edge(cp, i)
  <2>1. RowsExact(Promoted, l) /\ \A i \in 0..n : Edge(Promoted, i) = Edge(cp, i)
    BY <1>2, <1>4, RowsOfSame
  <2>2. RowsExact(RolledBack, l) /\ \A i \in 0..n : Edge(RolledBack, i) = Edge(cp, i)
    BY <1>2, <1>4, RowsOfSame
  <2> QED
    BY <2>1, <2>2
<1>6. /\ cp.segments[t].tips = TipsOf(Slice(l, 0, Edge(cp, t)), Genesis(Sources))
      /\ cp.segments[t].frontier = LeavesOf(Slice(l, 0, Edge(cp, t)))
  <2>1. RowExact(cp, t, l)
    BY <1>1 DEF RowsExact
  <2> QED
    BY <2>1 DEF RowExact
<1> HIDE DEF n, t
<1>7. Rotated(cp) = 1..(t - 1)
  <2>1. PICK k \in 0..n : AnchoredAt(cp, k, l)
    BY DEF Anchored, n
  <2>2. Rotated(cp) = 1..k \/ (k > 0 /\ Rotated(cp) = 1..(k - 1))
    BY <2>1, RotatedIsPrefix DEF n
  <2>3. PICK m \in Nat : Rotated(cp) = 1..m
    <3>1. k \in Nat /\ (k > 0 => k - 1 \in Nat)
      BY <1>1
    <3> QED
      BY <2>2, <3>1
  <2>4. t > m
    BY <1>1, <2>3
  <2>5. ~(t > m + 1)
    <3>1. t > m + 1 => m + 1 \in 1..n /\ m + 1 < t
      BY <1>1
    <3>2. m + 1 \notin 1..m
      OBVIOUS
    <3> QED
      BY <1>1, <2>3, <3>1, <3>2
  <2>6. m = t - 1
    BY <1>1, <2>4, <2>5
  <2> QED
    BY <2>3, <2>6
<1>8. t \in 0..n /\ (1..(t - 1)) \cup {t} \subseteq 1..t /\ 1..(t - 1) \subseteq 1..t
  BY <1>1
<1>9. Anchored(Promoted, l)
  <2>1. Rotated(Promoted) \subseteq 1..t /\ 1..(t - 1) \subseteq Rotated(Promoted)
    BY <1>3, <1>7, <1>8
  <2>2. AnchoredAt(Promoted, t, l)
    BY <1>3, <1>5, <1>6, <1>8, <2>1 DEF AnchoredAt
  <2> QED
    BY <1>2, <1>8, <2>2 DEF Anchored
<1>10. Anchored(RolledBack, l)
  <2>1. Rotated(RolledBack) \subseteq 1..t /\ 1..(t - 1) \subseteq Rotated(RolledBack)
    BY <1>3, <1>7, <1>8
  <2>2. AnchoredAt(RolledBack, t, l)
    BY <1>3, <1>5, <1>6, <1>8, <2>1 DEF AnchoredAt
  <2> QED
    BY <1>2, <1>8, <2>2 DEF Anchored
<1> QED
  BY <1>5, <1>9, <1>10

\* What the steps of a rotation have in common.
LEMMA SoundRotation ==
  ASSUME TypeInv, KeepInv, SoundState, Emission, proc = "up", UNCHANGED <<proc, wal, offset>>,
         \/ hot' = hot
         \/ \E i \in 1..Len(cp.segments) : hot' = [hot EXCEPT ![i] = NoFile],
         \/ cold' = cold
         \/ pc = "copied" /\ cold' = [cold EXCEPT ![Turn] = hot[Turn]],
         \/ cp' = cp /\ saved' = saved
         \/ Unrotated(cp) # {} /\ cp' \in {Promoted, RolledBack} /\ saved' \in {saved, Promoted},
         pc \notin {"reopen", "inventory"}, pc' \notin {"seal", "reopen", "inventory"}
  PROVE  SoundState'
<1> DEFINE n == Len(cp.segments)
           l == log'
           a == active'
<1>1. LogInv' /\ RowInv(l) /\ Layout(a, l)
  BY LogEmission, LayoutGrows DEF SoundState, TypeInv
<1>2. cp \in Checkpoints /\ n \in Nat /\ \A i \in 1..n : i \in Segments
  BY RowType, RowsInSegments DEF TypeInv, TypeOK
<1>3. l \in Seq(Records)
  <2>1. JournalOK /\ Places
    BY JournalTyped
  <2> QED
    BY <2>1, EmissionType DEF JournalOK
<1>4. \A i \in Segments : i > n => hot'[i] = hot[i]
  <2>1. ASSUME NEW i \in 1..n, hot' = [hot EXCEPT ![i] = NoFile]
        PROVE  \A j \in Segments : j > n => hot'[j] = hot[j]
    <3>1. \A j \in Segments : j > n => j # i
      BY <1>2
    <3> QED
      BY <2>1, <3>1 DEF TypeInv, TypeOK
  <2> QED
    BY <2>1
<1>5. /\ \A i \in Segments : i > n => cold'[i] = cold[i]
      /\ \A i \in 1..n : cold'[i] \in {NoFile, cp.segments[i].digest}
  <2>1. \A i \in 1..n : cold[i] \in {NoFile, cp.segments[i].digest}
    BY <1>1 DEF Layout, Ledger, Listed
  <2>2. CASE cold' = cold
    BY <2>1, <2>2
  <2>3. CASE pc = "copied" /\ cold' = [cold EXCEPT ![Turn] = hot[Turn]]
    <3>1. Turn \in 1..n /\ Turn \in Segments
      BY <2>3, TurnInSegments DEF TypeInv, Places
    <3>2. hot[Turn] = cp.segments[Turn].digest
      BY <2>3, <3>1, RowCopies DEF KeepInv
    <3>3. \A i \in Segments : cold'[i] = IF i = Turn THEN hot[Turn] ELSE cold[i]
      BY <2>3 DEF TypeInv, TypeOK
    <3>4. \A i \in Segments : i > n => i # Turn
      BY <1>2, <3>1
    <3> QED
      BY <1>2, <2>1, <3>2, <3>3, <3>4
  <2> QED
    BY <2>2, <2>3
<1>6. /\ Len(cp'.segments) = n
      /\ \A i \in 1..n : SameRow(cp'.segments[i], cp.segments[i])
  <2>1. CASE cp' = cp
    BY <2>1 DEF SameRow
  <2>2. CASE Unrotated(cp) # {} /\ cp' \in {Promoted, RolledBack}
    <3>1. /\ Len(Promoted.segments) = n /\ Len(RolledBack.segments) = n
          /\ \A j \in 1..n : /\ SameRow(Promoted.segments[j], cp.segments[j])
                             /\ SameRow(RolledBack.segments[j], cp.segments[j])
      BY <1>2, <2>2, PromotionType
    <3> QED
      BY <2>2, <3>1
  <2> QED
    BY <2>1, <2>2
<1>7. RowsExact(cp', l) /\ Anchored(cp', l) /\ RowsExact(saved', l) /\ Anchored(saved', l)
  <2>1. RowsExact(cp, l) /\ Anchored(cp, l) /\ RowsExact(saved, l) /\ Anchored(saved, l)
    BY <1>1 DEF RowInv
  <2>2. CASE Unrotated(cp) # {} /\ cp' \in {Promoted, RolledBack} /\ saved' \in {saved, Promoted}
    <3> HIDE DEF l
    <3>1. /\ RowsExact(Promoted, l) /\ Anchored(Promoted, l)
          /\ RowsExact(RolledBack, l) /\ Anchored(RolledBack, l)
      BY <1>2, <1>3, <2>1, <2>2, PromotionAnchors
    <3> QED
      BY <2>1, <2>2, <3>1
  <2> QED
    BY <2>1, <2>2
<1>8. RowInv(log)'
  BY <1>7 DEF RowInv, RowsExact, RowExact, Anchored, AnchoredAt, Edge, Slice, Rotated
<1>9. Layout(active, log)'
  BY <1>1, <1>4, <1>5, <1>6, LayoutRotation
<1> QED
  BY <1>1, <1>8, <1>9 DEF SoundState
LEMMA SoundRotate ==
  ASSUME TypeInv, KeepInv, SoundState, Rotate
  PROVE  SoundState'
<1>0. /\ pc \in {"rotate", "copied", "promote", "finish"} => proc = "up"
      /\ pc \in {"copied", "promote"} => Unrotated(cp) # {}
      /\ pc = "finish" => Rotated(cp) # {}
  BY DEF TypeInv, Places
<1>1. RotationIsDue => Unrotated(cp) # {}
  BY DEF RotationIsDue
<1>2. Unrotated(cp) # {} => Turn \in 1..Len(cp.segments)
  BY TurnInSegments
<1>3. Rotated(cp) # {} => Finishing \in 1..Len(cp.segments)
  <2>1. cp \in Checkpoints
    BY DEF TypeInv, TypeOK
  <2> QED
    BY <2>1, FinishingPlace, RowType
<1>4. UNCHANGED journal => Emission
  BY DEF Emission
<1>5. CASE NothingToRotate
  <2>1. UNCHANGED journal
    BY <1>5 DEF NothingToRotate, disk, serving, journal
  <2> QED
    BY <1>0, <1>4, <1>5, <2>1, SoundRotation DEF NothingToRotate, disk, serving
<1>6. CASE ResumeRemovesHot
  <2>1. UNCHANGED journal
    BY <1>6 DEF ResumeRemovesHot, serving, journal
  <2> QED
    BY <1>0, <1>1, <1>2, <1>4, <1>6, <2>1, SoundRotation DEF ResumeRemovesHot, serving
<1>7. CASE ResumeFails
  <2>1. RotationFails /\ pc = "rotate" /\ Unrotated(cp) # {}
    BY <1>1, <1>7 DEF ResumeFails
  <2>2. Emission /\ UNCHANGED <<proc, wal, offset>> /\ pc' = "breach"
    BY <2>1, RotationFailsType
  <2> QED
    BY <1>0, <1>2, <1>7, <2>1, <2>2, SoundRotation DEF ResumeFails
<1>8. CASE ResumeFinished
  <2>1. UNCHANGED journal
    BY <1>8 DEF ResumeFinished, serving, journal
  <2> QED
    BY <1>0, <1>4, <1>8, <2>1, SoundRotation DEF ResumeFinished, serving
<1>9. CASE CopyWrites
  <2>1. UNCHANGED journal
    BY <1>9 DEF CopyWrites, serving, journal
  <2> QED
    BY <1>0, <1>4, <1>9, <2>1, SoundRotation DEF CopyWrites, serving
<1>10. CASE CopyRenames
  <2>1. UNCHANGED journal
    BY <1>10 DEF CopyRenames, serving, journal
  <2> QED
    BY <1>0, <1>4, <1>10, <2>1, SoundRotation DEF CopyRenames, serving
<1>11. CASE CopyFails
  <2>1. RotationFails /\ pc = "copied" /\ Unrotated(cp) # {}
    BY <1>0, <1>11 DEF CopyFails
  <2>2. Emission /\ UNCHANGED <<proc, wal, offset>> /\ pc' = "breach"
    BY <2>1, RotationFailsType
  <2> QED
    BY <1>0, <1>11, <2>1, <2>2, SoundRotation DEF CopyFails
<1>12. CASE CopyUnsynced
  <2>1. RotationFails /\ pc = "copied" /\ Unrotated(cp) # {}
    BY <1>0, <1>12 DEF CopyUnsynced
  <2>2. Emission /\ UNCHANGED <<proc, wal, offset>> /\ pc' = "breach"
    BY <2>1, RotationFailsType
  <2> QED
    BY <1>0, <1>12, <2>1, <2>2, SoundRotation DEF CopyUnsynced
<1>13. CASE PromoteSaves
  <2>1. UNCHANGED journal
    BY <1>13 DEF PromoteSaves, serving, journal
  <2> QED
    BY <1>0, <1>4, <1>13, <2>1, SoundRotation DEF PromoteSaves, serving
<1>14. CASE PromoteUnsaved
  <2>1. RotationFails /\ pc = "promote" /\ Unrotated(cp) # {}
    BY <1>0, <1>14 DEF PromoteUnsaved
  <2>2. Emission /\ UNCHANGED <<proc, wal, offset>> /\ pc' = "breach"
    BY <2>1, RotationFailsType
  <2>3. cp' = RolledBack /\ saved' \in {saved, Promoted} /\ UNCHANGED <<hot, cold>>
    BY <1>14 DEF PromoteUnsaved, RolledBack
  <2> QED
    BY <1>0, <2>1, <2>2, <2>3, SoundRotation
<1>15. CASE FinishRemoves
  <2>1. UNCHANGED journal
    BY <1>15 DEF FinishRemoves, serving, journal
  <2> QED
    BY <1>0, <1>3, <1>4, <1>15, <2>1, SoundRotation DEF FinishRemoves, serving
<1>16. CASE FinishFails
  <2>1. pc = "finish" /\ SelfEmit(wal, "rotation_failure") /\ "rotation_failure" \in Bodies
    BY <1>16 DEF FinishFails, Bodies
  <2>2. Emission
    BY <2>1, SelfEmitIsEmission
  <2> QED
    BY <1>0, <1>3, <1>16, <2>2, SoundRotation DEF FinishFails
<1> QED
  BY <1>5, <1>6, <1>7, <1>8, <1>9, <1>10, <1>11, <1>12, <1>13, <1>14, <1>15, <1>16 DEF Rotate

\* Admissions, the begin of a tick and its last part.
LEMMA SoundAdmissions ==
  ASSUME TypeInv, SoundState,
         \/ \E s \in Producers, t \in Times : Admit(s, t)
         \/ \E t \in Times : AdmitRefused(t)
  PROVE  SoundState'
<1>0. LogInv /\ RowInv(log) /\ Layout(active, log) /\ TypeOK
  BY DEF SoundState, TypeInv
<1>1. ASSUME NEW s \in Producers, NEW t \in Times, Admit(s, t) PROVE SoundState'
  <2>1. Emission /\ UNCHANGED <<hot, cold, saved, cp, proc, offset, pc, wal, snap>>
    BY <1>1, AdmitType DEF Admit, manager
  <2>2. LogInv' /\ RowInv(log') /\ Layout(active', log')
    BY <1>0, <2>1, LogEmission, LayoutGrows
  <2>3. Stray => wal' = "closed" \/ pc' \in {"reopen", "inventory"}
    BY <1>0, <2>1 DEF Layout
  <2>4. pc' = "seal" => LastEdge < Len(log')
    BY <2>1, <2>2 DEF Layout
  <2>5. RowInv(log)' /\ Layout(active, log)'
    BY <2>1, <2>2, <2>3, <2>4, LayoutFrame
  <2> QED
    BY <2>2, <2>5 DEF SoundState
<1>2. ASSUME NEW t \in Times, AdmitRefused(t) PROVE SoundState'
  <2>1. /\ UNCHANGED <<active, log, hot, cold, saved, cp, proc, offset, records, leaves, tip, pc, wal, snap>>
        /\ floor' = t /\ t > floor
    BY <1>2 DEF AdmitRefused, disk, manager
  <2>2. RowInv(log)' /\ Layout(active, log)'
    <3>1. Stray => wal' = "closed" \/ pc' \in {"reopen", "inventory"}
      BY <1>0, <2>1 DEF Layout
    <3>2. pc' = "seal" => LastEdge < Len(log')
      BY <1>0, <2>1 DEF Layout
    <3>3. RowInv(log') /\ Layout(active', log')
      BY <1>0, <2>1
    <3> QED
      BY <2>1, <3>1, <3>2, <3>3, LayoutFrame
  <2>3. LogInv'
    <3>1. ASSUME proc = "up", NEW i \in 1..Len(log) PROVE log[i].time <= floor'
      <4>1. log[i].time <= floor /\ log[i].time \in Nat /\ floor \in Nat /\ t \in Nat
        BY <1>0, <3>1, RecordFields, ElementOfSeq, RetentionAssumption DEF LogInv, Serves, TypeOK
      <4> QED
        BY <2>1, <4>1
    <3>2. proc' = "up" => Serves'
      BY <1>0, <2>1, <3>1 DEF LogInv, Serves, Slice
    <3> QED
      BY <1>0, <2>1, <3>2 DEF LogInv
  <2> QED
    BY <2>2, <2>3 DEF SoundState
<1> QED
  BY <1>1, <1>2

LEMMA SoundTick ==
  ASSUME TypeInv, SoundState, (\E t \in Times : TickBegins(t)) \/ Breaches
  PROVE  SoundState'
<1>0. LogInv /\ RowInv(log) /\ Layout(active, log) /\ TypeOK
  BY DEF SoundState, TypeInv
<1>1. ASSUME NEW t \in Times, TickBegins(t) PROVE SoundState'
  <2>1. /\ UNCHANGED <<active, log, hot, cold, saved, cp, proc, wal, snap>> /\ proc = "up"
        /\ UNCHANGED <<offset, records, leaves, tip, floor>>
        /\ pc = "idle" /\ pc' \in {"seal", "rotate"} /\ (pc' = "seal" => SealDue(t))
    BY <1>1 DEF TickBegins, disk, serving
  <2>2. LogInv'
    BY <1>0, <2>1, LogFrame
  <2>3. Stray => wal' = "closed"
    BY <1>0, <2>1 DEF Layout
  <2>4. SealDue(t) => LastEdge < Len(log)
    <3>1. Boundary(cp) = LastEdge /\ LastEdge \in Nat
      <4>1. cp \in Checkpoints /\ log \in Seq(Records) /\ Ledger = cp /\ RowsExact(cp, log)
        BY <1>0, <2>1 DEF TypeOK, Ledger, RowInv
      <4> QED
        BY <4>1, BoundaryIsEdge, BoundaryBounds DEF LastEdge, Listed
    <3>2. offset + Len(records) = Len(log) /\ Len(log) \in Nat
      BY <1>0, <2>1, LenProperties DEF LogInv, Serves, TypeOK
    <3> QED
      BY <3>1, <3>2 DEF SealDue
  <2>5. RowInv(log') /\ Layout(active', log')
    BY <1>0, <2>1
  <2>6. RowInv(log)' /\ Layout(active, log)'
    <3>1. /\ UNCHANGED <<hot, cold, saved, cp, proc>>
          /\ Stray => wal' = "closed" \/ pc' \in {"reopen", "inventory"}
          /\ pc' = "seal" => LastEdge < Len(log')
          /\ pc' \in {"reopen", "inventory"} => pc' = pc /\ snap' = snap
      BY <2>1, <2>3, <2>4
    <3> QED
      BY <2>5, <3>1, LayoutFrame
  <2> QED
    BY <2>2, <2>6 DEF SoundState
<1>2. ASSUME pc = "breach", pc' \in {"breach", "idle"}, Emission,
             UNCHANGED <<hot, cold, saved, cp, proc, offset, wal>>
      PROVE  SoundState'
  <2>1. LogInv' /\ RowInv(log') /\ Layout(active', log')
    BY <1>0, <1>2, LogEmission, LayoutGrows
  <2>2. Stray => wal' = "closed"
    BY <1>0, <1>2 DEF Layout
  <2>3. RowInv(log)' /\ Layout(active, log)'
    BY <1>2, <2>1, <2>2, LayoutFrame
  <2> QED
    BY <2>1, <2>3 DEF SoundState
<1>3. CASE EmitsBreach
  <2>1. "ceiling_breach" \in Bodies /\ pc = "breach" /\ SelfEmit(wal, "ceiling_breach")
    BY <1>3 DEF EmitsBreach, Bodies
  <2>2. Emission
    BY <2>1, SelfEmitIsEmission
  <2> QED
    BY <1>2, <1>3, <2>2 DEF EmitsBreach
<1>4. CASE TickEnds
  <2>1. UNCHANGED journal
    BY <1>4 DEF TickEnds, disk, serving, journal
  <2> QED
    BY <1>2, <1>4, <2>1 DEF TickEnds, disk, serving, Emission
<1> QED
  BY <1>1, <1>3, <1>4 DEF Breaches
\* The empty checkpoint is exact.
LEMMA EmptyExact ==
  ASSUME NEW l \in Seq(Records)
  PROVE  RowsExact(EmptyCheckpoint, l) /\ Anchored(EmptyCheckpoint, l)
<1> DEFINE c == EmptyCheckpoint
<1>1. c \in Checkpoints /\ Len(c.segments) = 0 /\ c.tips = Genesis(Sources) /\ c.frontier = << >>
  BY EmptyCheckpointType DEF EmptyCheckpoint
<1> HIDE DEF c
<1>2. RowsExact(c, l)
  BY <1>1 DEF RowsExact
<1>3. Anchored(c, l)
  <2>1. Rotated(c) = {}
    BY <1>1, RowType
  <2>2. Slice(l, 0, Edge(c, 0)) = << >> /\ 0 \in 0..Len(c.segments)
    BY <1>1, SliceEmpty DEF Edge
  <2>3. AnchoredAt(c, 0, l)
    BY <1>1, <2>1, <2>2, GenesisTips DEF AnchoredAt
  <2> QED
    BY <2>2, <2>3 DEF Anchored
<1> QED
  BY <1>2, <1>3 DEF c

\* How many records the frontier of an anchored checkpoint stands for.
LEMMA FrontierLength ==
  ASSUME NEW c \in Checkpoints, NEW l \in Seq(Records), RowsExact(c, l),
         NEW k \in 0..Len(c.segments), AnchoredAt(c, k, l)
  PROVE  Len(c.frontier) = Edge(c, k)
<1>1. Edge(c, k) \in Nat /\ Edge(c, k) <= Len(l)
  BY EdgeBounds
<1> DEFINE s == Slice(l, 0, Edge(c, k))
<1>2. s \in Seq(Records) /\ Len(s) = Edge(c, k)
  <2>1. 0 <= Edge(c, k) /\ Edge(c, k) - 0 = Edge(c, k)
    BY <1>1
  <2>2. Slice(l, 0, Edge(c, k)) \in Seq(Records) /\ Len(Slice(l, 0, Edge(c, k))) = Edge(c, k) - 0
    BY <1>1, <2>1, SliceType
  <2> QED
    BY <2>1, <2>2
<1>3. c.frontier = LeavesOf(s)
  BY DEF AnchoredAt
<1> HIDE DEF s
<1> QED
  BY <1>2, <1>3, LeavesOfType

\* A crash that falls into none of the three windows leaves a disk the next
\* boot can continue from.
LEMMA SoundCrash ==
  ASSUME TypeInv, KeepInv, SoundState, Sound, Crash
  PROVE  SoundState'
<1> DEFINE m == Len(saved.segments)
           n == Len(cp.segments)
<1>1. /\ proc = "up" /\ proc' = "down" /\ pc' = "idle" /\ cp' = EmptyCheckpoint
      /\ UNCHANGED <<active, hot, cold, saved, log>>
  BY DEF Crash, disk
<1>2. ~SealWindow /\ ~ResumeWindow /\ ~RollbackWindow
  BY DEF Crash, CrashPossible, Sound
<1>3. /\ saved \in Checkpoints /\ cp \in Checkpoints /\ log \in Seq(Records) /\ active \in Files
      /\ m \in Nat /\ n \in Nat /\ m <= MaxSegments /\ n <= MaxSegments
      /\ DOMAIN saved.segments = 1..m
  BY RowType DEF TypeInv, TypeOK, Places
<1>4. Follows(saved, cp) /\ m <= n
  BY <1>1 DEF KeepInv, Follows
<1>5. RowInv(log) /\ Layout(active, log) /\ Ledger = cp /\ Listed = n
  BY <1>1 DEF SoundState, Ledger, Listed
<1>6. \A i \in 1..n : i \in Segments
  BY RowsInSegments
<1>7. \A i \in 1..n : Exists(hot[i]) \/ i \in Rotated(saved)
  <2> SUFFICES ASSUME NEW i \in 1..n, ~Exists(hot[i]) PROVE i \in Rotated(saved)
    OBVIOUS
  <2>1. cold[i] = cp.segments[i].digest /\ cp.segments[i].digest # NoFile
    BY <1>1, RowCopies
  <2>2. Exists(cold[i]) /\ i \in Segments
    BY <1>6, <2>1 DEF Exists
  <2> QED
    BY <1>2, <2>2 DEF ResumeWindow
<1> HIDE DEF m, n
<1>8. m = n
  <2> SUFFICES ASSUME m < n PROVE FALSE
    BY <1>3, <1>4
  <2>1. m + 1 \in 1..n /\ m + 1 \notin 1..m
    BY <1>3
  <2>2. m + 1 \notin Rotated(saved)
    BY <1>3, <2>1, RowType DEF m
  <2>3. Exists(hot[m + 1]) /\ m + 1 \in Segments
    BY <1>6, <1>7, <2>1, <2>2
  <2> QED
    BY <1>2, <1>3, <2>1, <2>3 DEF SealWindow
<1>9. ~Stray
  <2> SUFFICES ASSUME Stray PROVE FALSE
    OBVIOUS
  <2>1. n + 1 \in Segments /\ Exists(hot[n + 1]) /\ n + 1 \notin 1..m
    BY <1>3, <1>5, <1>8, RetentionAssumption DEF Stray, Segments
  <2> QED
    BY <1>2, <1>3, <2>1 DEF SealWindow
<1>10. \A i \in 0..n : Edge(saved, i) = Edge(cp, i)
  BY <1>3, <1>4, <1>5, <1>8, RowsOfSame DEF RowInv, m
<1>11. Ledger' = saved /\ Listed' = n /\ LastEdge' = LastEdge /\ n \in 0..n
  <2>1. Ledger' = saved /\ Listed' = n
    BY <1>1, <1>8 DEF Ledger, Listed, m
  <2>2. LastEdge = Edge(cp, n) /\ LastEdge' = Edge(saved, n) /\ n \in 0..n
    BY <1>1, <1>3, <1>5, <2>1 DEF LastEdge, Edge
  <2> QED
    BY <1>10, <2>1, <2>2
<1>12. ~Stray'
  BY <1>1, <1>5, <1>9, <1>11 DEF Stray, Exists
<1>13. \A i \in 1..n : cold[i] \in {NoFile, saved.segments[i].digest}
  <2>1. \A i \in 1..n : cold[i] \in {NoFile, cp.segments[i].digest}
    BY <1>5 DEF Layout
  <2>2. \A i \in 1..n : SameRow(saved.segments[i], cp.segments[i])
    BY <1>4, <1>8 DEF Follows, m
  <2> QED
    BY <2>1, <2>2 DEF SameRow
<1>14. \E k \in 0..n : AnchoredAt(saved, k, log) /\ Rotated(saved) = 1..k
  <2>1. RowsExact(saved, log)
    BY <1>5 DEF RowInv
  <2>2. PICK k \in 0..n : AnchoredAt(saved, k, log)
    BY <1>5, <1>8 DEF RowInv, Anchored, m
  <2>3. CASE Rotated(saved) = 1..k
    BY <2>2, <2>3
  <2>4. CASE k > 0 /\ k \in Unrotated(saved)
    <3>1. k \in 1..m /\ k \in 0..m /\ k - 1 \in 0..m
      BY <1>3, <1>8, <2>4
    <3>2. RowExact(saved, k, log)
      BY <2>1, <3>1 DEF RowsExact, m
    <3>3. Len(saved.frontier) = Edge(saved, k)
      BY <1>3, <2>1, <2>2, <3>1, FrontierLength DEF m
    <3>4. Edge(saved, k) \in Nat /\ Edge(saved, k - 1) \in Nat
      BY <1>3, <2>1, <3>1, EdgeBounds DEF m
    <3>5. Len(saved.frontier) > saved.segments[k].firstGlobal
      BY <3>2, <3>3, <3>4 DEF RowExact
    <3> QED
      BY <1>2, <2>4, <3>5 DEF RollbackWindow
  <2> QED
    BY <1>3, <1>8, <2>2, <2>3, <2>4, RotatedIsPrefix DEF m
<1>15. Bootable(log)'
  <2>1. Rotated(saved)' = Rotated(saved)
    BY <1>1 DEF Rotated
  <2>2. \A i \in 1..n : Exists(hot[i])' <=> Exists(hot[i])
    BY <1>1 DEF Exists
  <2>3. \A k \in 0..n : AnchoredAt(saved, k, log)' <=> AnchoredAt(saved, k, log)
    BY <1>1 DEF AnchoredAt, Edge, Slice, Rotated
  <2> QED
    BY <1>1, <1>7, <1>11, <1>14, <2>1, <2>2, <2>3 DEF Bootable, Exists, AnchoredAt, Edge, Slice
<1>16. RowInv(log)'
  <2>1. RowsExact(cp', log) /\ Anchored(cp', log)
    BY <1>1, <1>3, EmptyExact
  <2>2. RowsExact(saved, log) /\ Anchored(saved, log)
    BY <1>5 DEF RowInv
  <2> QED
    BY <1>1, <2>1, <2>2, ZenonT(60) DEF RowInv, RowsExact, RowExact, Anchored, AnchoredAt, Edge, Slice, Rotated
<1>17. /\ LastEdge <= Sealed(active, log)
       /\ Content(active) = Slice(log, Sealed(active, log), Len(log))
       /\ \A i \in Segments : i > n => cold[i] = NoFile
       /\ \A i \in Segments : i > n + 1 => hot[i] = NoFile
       /\ Sealed(active, log) = LastEdge /\ Exists(active)
  BY <1>5, <1>9 DEF Layout
<1>18. Sealed(active, log)' = Sealed(active, log)
  BY <1>1 DEF Sealed, Content, Exists
<1>19. Layout(active, log)'
  BY <1>1, <1>11, <1>12, <1>13, <1>15, <1>17, <1>18 DEF Layout, Content, Exists, Slice
<1>20. LogInv'
  BY <1>1 DEF SoundState, LogInv
<1> QED
  BY <1>16, <1>19, <1>20 DEF SoundState
-----------------------------------------------------------------------------
(* Reading a directory back. *)

\* The files behind "from" up to "to" are consecutive slices of the log, which
\* end where f says, and nothing else is there to be read.
Consecutive(dir, skip, l, f, from, to) ==
  /\ dir \in [Segments -> Files] /\ l \in Seq(Records)
  /\ f \in [0..MaxSegments -> 0..Len(l)]
  /\ from \in 0..MaxSegments /\ to \in 0..MaxSegments /\ from <= to
  /\ \A i \in Segments : (from < i /\ i <= to) =>
        /\ f[i - 1] <= f[i] /\ i \notin skip
        /\ Content(dir[i]) = Slice(l, f[i - 1], f[i])
  /\ \A i \in Segments : (i <= from \/ i > to) => i \in skip \/ ~Exists(dir[i])

\* Read in order they are one slice.
LEMMA ReadSlices ==
  ASSUME NEW dir, NEW skip, NEW l, NEW f, NEW from, NEW to,
         Consecutive(dir, skip, l, f, from, to)
  PROVE  InOrder(dir, skip) = Slice(l, f[from], f[to])
<1> USE DEF Consecutive
<1> DEFINE M == MaxSegments
           at(i) == IF i < from THEN from ELSE IF i > to THEN to ELSE i
           b == [i \in 0..M |-> f[at(i)]]
           parts == [i \in Segments |-> IF i \in skip THEN << >> ELSE Content(dir[i])]
<1>1. M \in Nat /\ Segments = 1..M /\ Len(l) \in Nat
  BY RetentionAssumption, LenProperties DEF Segments
<1>2. \A i \in 0..M : at(i) \in 0..M
  BY <1>1
<1>3. at(0) = from /\ at(M) = to
  BY <1>1
<1>4. \A i \in 1..M : /\ (from < i /\ i <= to) => at(i) = i /\ at(i - 1) = i - 1
                      /\ (i <= from \/ i > to) => at(i) = at(i - 1)
  BY <1>1
<1> HIDE DEF M, at
<1>5. b \in [0..M -> 0..Len(l)] /\ \A i \in 0..M : b[i] = f[at(i)]
  <2>1. \A i \in 0..M : f[at(i)] \in 0..Len(l)
    BY <1>2 DEF M
  <2> QED
    BY <2>1
<1> HIDE DEF b
<1>6. parts \in Seq(Seq(Records)) /\ Len(parts) = M
  <2>1. ASSUME NEW i \in Segments PROVE parts[i] \in Seq(Records)
    <3>1. dir[i] \in Files
      OBVIOUS
    <3>2. Content(dir[i]) \in Seq(Records) /\ << >> \in Seq(Records)
      BY <3>1, FileKinds, EmptySeq
    <3> QED
      BY <3>2
  <2>2. parts \in [Segments -> Seq(Records)]
    BY <2>1
  <2> HIDE DEF parts
  <2> QED
    BY <1>1, <2>2
<1>7. ASSUME NEW i \in 1..M PROVE b[i - 1] <= b[i] /\ parts[i] = Slice(l, b[i - 1], b[i])
  <2>1. /\ i \in Segments /\ i \in 0..M /\ i - 1 \in 0..M /\ i \in Int /\ from \in Int /\ to \in Int
        /\ parts[i] = IF i \in skip THEN << >> ELSE Content(dir[i])
    BY <1>1
  <2>2. b[i] = f[at(i)] /\ b[i - 1] = f[at(i - 1)]
    BY <1>5, <2>1
  <2> HIDE DEF parts
  <2>3. CASE from < i /\ i <= to
    BY <1>4, <2>1, <2>2, <2>3
  <2>4. CASE i <= from \/ i > to
    <3>1. b[i] = b[i - 1] /\ b[i] \in Nat
      BY <1>1, <1>4, <1>5, <2>1, <2>2, <2>4
    <3>2. parts[i] = << >>
      BY <2>1, <2>4 DEF Content
    <3>3. Slice(l, b[i], b[i]) = << >>
      BY <3>1, SliceEmpty
    <3> QED
      BY <3>1, <3>2, <3>3
  <2> QED
    BY <2>1, <2>3, <2>4
<1>8. InOrder(dir, skip) = FlattenSeq(parts)
  BY DEF InOrder
<1>9. b[0] = f[from] /\ b[M] = f[to]
  BY <1>1, <1>3, <1>5
<1> HIDE DEF parts
<1>10. FlattenSeq(parts) = SubSeq(l, b[0] + 1, b[M])
  <2>1. \A i \in 1..M : b[i - 1] <= b[i] /\ parts[i] = SubSeq(l, b[i - 1] + 1, b[i])
    BY <1>7 DEF Slice
  <2> QED
    BY ONLY <1>1, <1>5, <1>6, <2>1, l \in Seq(Records), FlattenSlices, ZenonT(60)
<1> QED
  BY <1>8, <1>9, <1>10 DEF Slice

\* The anchors split the log: what is behind them verifies from them, and the
\* views rebuilt from both are those of the whole log.
LEMMA AnchoredLog ==
  ASSUME NEW l \in Seq(Records), NEW e \in Nat, e <= Len(l),
         VerifyChains(l, Genesis(Sources))
  PROVE  LET past == Slice(l, 0, e)
             rest == Slice(l, e, Len(l))
         IN  /\ VerifyChains(rest, TipsOf(past, Genesis(Sources)))
             /\ TipsOf(rest, TipsOf(past, Genesis(Sources))) = TipsOf(l, Genesis(Sources))
             /\ LeavesOf(past) \o LeavesOf(rest) = LeavesOf(l)
<1> DEFINE past == Slice(l, 0, e)
           rest == Slice(l, e, Len(l))
<1>1. Len(l) \in Nat /\ 0 <= e /\ Len(l) <= Len(l)
  BY LenProperties
<1>2. past \in Seq(Records) /\ rest \in Seq(Records)
  <2>1. past \in Seq(Records)
    BY <1>1, SliceType
  <2>2. rest \in Seq(Records)
    BY <1>1, SliceType
  <2> QED
    BY <2>1, <2>2
<1>3. past \o rest = l
  <2>1. Slice(l, 0, e) \o Slice(l, e, Len(l)) = Slice(l, 0, Len(l))
    BY <1>1, SliceJoin
  <2>2. Slice(l, 0, Len(l)) = l
    BY SliceFull
  <2> QED
    BY <2>1, <2>2
<1> HIDE DEF past, rest
<1>4. \A i \in 1..Len(rest) : rest[i].source \in DOMAIN Genesis(Sources)
  BY <1>2, RecordFields, ElementOfSeq, GenesisTips
<1>5. /\ VerifyChains(past \o rest, Genesis(Sources)) <=>
           /\ VerifyChains(past, Genesis(Sources))
           /\ VerifyChains(rest, TipsOf(past, Genesis(Sources)))
      /\ TipsOf(past \o rest, Genesis(Sources)) = TipsOf(rest, TipsOf(past, Genesis(Sources)))
  BY <1>2, <1>4, AnchoredVerification
<1>6. LeavesOf(past \o rest) = LeavesOf(past) \o LeavesOf(rest)
  BY <1>2, LeavesOfConcat
<1> QED
  BY <1>3, <1>5, <1>6 DEF past, rest
\* The same for the segments of an inventory, and possibly one more that was
\* sealed behind them up to the record at e.
RowsReadable(dir, skip, l, c, e, from, to) ==
  /\ dir \in [Segments -> Files] /\ l \in Seq(Records)
  /\ c \in Checkpoints /\ RowsExact(c, l) /\ Len(c.segments) <= MaxSegments
  /\ e \in Nat /\ Edge(c, Len(c.segments)) <= e /\ e <= Len(l)
  /\ from \in 0..Len(c.segments) /\ to \in 0..MaxSegments
  /\ from <= to /\ to <= Len(c.segments) + 1
  /\ \A i \in 1..Len(c.segments) :
        (from < i /\ i <= to) => i \notin skip /\ dir[i] = c.segments[i].digest
  /\ to = Len(c.segments) + 1 =>
        to \notin skip /\ dir[to] = Slice(l, Edge(c, Len(c.segments)), e)
  /\ \A i \in Segments : (i <= from \/ i > to) => i \in skip \/ ~Exists(dir[i])

LEMMA ReadRows ==
  ASSUME NEW dir, NEW skip, NEW l, NEW c, NEW e, NEW from, NEW to,
         RowsReadable(dir, skip, l, c, e, from, to)
  PROVE  InOrder(dir, skip) =
           Slice(l, Edge(c, from), IF to = Len(c.segments) + 1 THEN e ELSE Edge(c, to))
<1> USE DEF RowsReadable
<1> DEFINE n == Len(c.segments)
           M == MaxSegments
           f == [i \in 0..M |-> IF i <= n THEN Edge(c, i) ELSE e]
<1>1. /\ n \in Nat /\ M \in Nat /\ n <= M /\ Segments = 1..M /\ Len(l) \in Nat
      /\ from \in 0..M /\ from \in 0..n /\ to \in Nat /\ to <= n + 1
      /\ \A i \in 0..n : Edge(c, i) \in Nat /\ Edge(c, i) <= Len(l)
      /\ \A i \in 1..n : c.segments[i].digest \in Seq(Records)
  BY EdgeBounds, RowType, LenProperties, RetentionAssumption DEF Segments
<1> HIDE DEF n, M
<1>2. /\ f \in [0..M -> 0..Len(l)]
      /\ \A i \in 0..n : f[i] = Edge(c, i)
      /\ \A i \in 0..M : i > n => f[i] = e
  <2>1. \A i \in 0..M : (i <= n => i \in 0..n)
    BY <1>1
  <2>2. \A i \in 0..M : (IF i <= n THEN Edge(c, i) ELSE e) \in 0..Len(l)
    BY <1>1, <2>1
  <2>3. \A i \in 0..n : i \in 0..M /\ i <= n
    BY <1>1
  <2> QED
    BY <1>1, <2>2, <2>3
<1> HIDE DEF f
<1>3. ASSUME NEW i \in Segments, from < i, i <= to
      PROVE  /\ f[i - 1] <= f[i] /\ i \notin skip
             /\ Content(dir[i]) = Slice(l, f[i - 1], f[i])
  <2>1. i \in Nat /\ (i \in 1..n \/ (i = n + 1 /\ to = n + 1)) /\ i \in 0..M
    BY <1>1, <1>3
  <2>2. CASE i \in 1..n
    <3>1. RowExact(c, i, l)
      BY <2>2 DEF RowsExact, n
    <3>2. i \in 0..n /\ i - 1 \in 0..n
      BY <1>1, <2>2
    <3>3. f[i] = Edge(c, i) /\ f[i - 1] = Edge(c, i - 1)
      BY <1>2, <3>2
    <3>4. i \notin skip /\ dir[i] = c.segments[i].digest
      BY <1>3, <2>2 DEF n
    <3>5. Content(dir[i]) = c.segments[i].digest
      BY <1>1, <2>2, <3>4, NoFileAssumption DEF Content, Exists
    <3>6. /\ c.segments[i].digest = Slice(l, Edge(c, i - 1), Edge(c, i))
          /\ Edge(c, i - 1) < Edge(c, i)
      BY <3>1 DEF RowExact
    <3>7. Edge(c, i - 1) \in Nat /\ Edge(c, i) \in Nat
      BY <1>1, <3>2
    <3> QED
      BY <3>3, <3>4, <3>5, <3>6, <3>7
  <2>3. CASE i = n + 1 /\ to = n + 1
    <3>1. i - 1 = n /\ n \in 0..n /\ i > n
      BY <1>1, <2>3
    <3>2. f[i] = e /\ f[i - 1] = Edge(c, n)
      BY <1>2, <2>1, <3>1
    <3>3. i \notin skip /\ dir[i] = Slice(l, Edge(c, n), e)
      BY <2>3 DEF n
    <3>4. Edge(c, n) \in Nat /\ Edge(c, n) <= e
      BY <1>1, <3>1 DEF n
    <3>5. Slice(l, Edge(c, n), e) \in Seq(Records)
      BY <3>4, SliceType
    <3>6. Content(dir[i]) = Slice(l, Edge(c, n), e)
      BY <3>3, <3>5, NoFileAssumption DEF Content, Exists
    <3> QED
      BY <3>2, <3>3, <3>4, <3>6
  <2> QED
    BY <2>1, <2>2, <2>3
<1>4. InOrder(dir, skip) = Slice(l, f[from], f[to])
  <2>1. Consecutive(dir, skip, l, f, from, to)
    BY <1>1, <1>2, <1>3 DEF Consecutive, M
  <2> QED
    BY <2>1, ReadSlices
<1>5. f[from] = Edge(c, from) /\ f[to] = IF to = n + 1 THEN e ELSE Edge(c, to)
  <2>1. to \in 0..M /\ (to = n + 1 => to > n) /\ (to # n + 1 => to \in 0..n)
    <3>1. n \in Nat /\ to \in Nat /\ to <= n + 1
      BY <1>1
    <3>2. (to = n + 1 => to > n) /\ (to # n + 1 => to \in 0..n)
      BY ONLY <3>1
    <3> QED
      BY <3>2 DEF M
  <2> QED
    BY <1>1, <1>2, <2>1
<1> QED
  BY <1>4, <1>5 DEF n
\* What the boot of an intact disk reads, and from which anchors.
LEMMA BootReads ==
  ASSUME TypeInv, KeepInv, SoundState, proc = "down"
  PROVE  \E k \in 0..Len(saved.segments) :
           /\ AnchoredAt(saved, k, log) /\ Rotated(saved) = 1..k
           /\ BootTips = TipsOf(Slice(log, 0, Edge(saved, k)), Genesis(Sources))
           /\ HotRecords(BootSkips) = Slice(log, Edge(saved, k), Len(log))
<1> DEFINE n == Len(saved.segments)
           e == Edge(saved, n)
<1>1. /\ Ledger = saved /\ Listed = n /\ LastEdge = e
      /\ RowsExact(saved, log) /\ Layout(active, log)
  BY DEF SoundState, RowInv, Ledger, Listed, LastEdge
<1>2. /\ saved \in Checkpoints /\ log \in Seq(Records) /\ active \in Files
      /\ hot \in [Segments -> Files] /\ cold \in [Segments -> Files]
      /\ n \in Nat /\ n <= MaxSegments /\ n \in 0..n /\ n \in 0..MaxSegments
      /\ \A i \in 1..n : i \in Segments /\ saved.segments[i].digest \in Seq(Records)
  <2>1. n \in Nat /\ n <= MaxSegments /\ MaxSegments \in Nat
    BY RowType, RetentionAssumption DEF TypeInv, TypeOK, Places
  <2>2. n \in 0..n /\ n \in 0..MaxSegments
    BY <2>1
  <2> QED
    BY <2>1, <2>2, RowsInSegments, RowType DEF TypeInv, TypeOK
<1>3. /\ e \in Nat /\ e <= Len(log) /\ Len(log) \in Nat
      /\ \A i \in 0..n : Edge(saved, i) \in Nat /\ Edge(saved, i) <= e
  <2>1. /\ Len(log) \in Nat
        /\ \A i \in 0..n : Edge(saved, i) \in Nat /\ Edge(saved, i) <= Len(log)
    BY <1>1, <1>2, EdgeBounds
  <2>2. \A i \in 0..n : i <= n
    BY <1>2
  <2>3. \A i \in 0..n : Edge(saved, i) <= e
    BY <1>1, <1>2, <2>2, EdgesGrow
  <2> QED
    BY <1>2, <2>1, <2>3
<1>4. ~Stray /\ Sealed(active, log) = e /\ Content(active) = Slice(log, e, Len(log))
  <2>1. ~Stray
    BY <1>1 DEF Layout
  <2> QED
    BY <1>1, <2>1 DEF Layout
<1>5. PICK k \in 0..n : AnchoredAt(saved, k, log) /\ Rotated(saved) = 1..k
  BY <1>1 DEF Layout, Bootable
<1>5a. \A i \in 1..n : Exists(hot[i]) \/ i \in Rotated(saved)
  BY <1>1 DEF Layout, Bootable
<1> HIDE DEF n, e
<1>6. /\ BootSkips = 1..k
      /\ BootTips = TipsOf(Slice(log, 0, Edge(saved, k)), Genesis(Sources))
  <2>1. CASE k = 0
    <3>1. Len(saved.frontier) = Edge(saved, k)
      BY <1>1, <1>2, <1>5, FrontierLength DEF n
    <3>2. Edge(saved, k) = 0 /\ 1..k = {} /\ ~(0 > 0)
      BY <2>1 DEF Edge
    <3>3. ~HasAnchors(saved)
      BY <1>5, <3>1, <3>2 DEF HasAnchors
    <3>4. Slice(log, 0, 0) = << >>
      BY SliceEmpty
    <3> QED
      BY <3>2, <3>3, <3>4, GenesisTips DEF BootSkips, BootTips
  <2>2. CASE k # 0
    <3>1. k \in 1..k
      BY <1>2, <2>2
    <3>2. HasAnchors(saved)
      BY <1>5, <3>1 DEF HasAnchors
    <3> QED
      BY <1>5, <3>2 DEF BootSkips, BootTips, AnchoredAt
  <2> QED
    BY <2>1, <2>2
<1>7. InOrder(hot, 1..k) = Slice(log, Edge(saved, k), e)
  <2>1. k \in Nat /\ k <= n /\ n # n + 1 /\ n <= n + 1
    BY <1>2
  <2>2. \A i \in 1..n : (k < i /\ i <= n) => i \notin 1..k /\ hot[i] = saved.segments[i].digest
    <3>1. \A i \in 1..n : k < i => i \notin 1..k
      BY <2>1
    <3>2. \A i \in 1..n : Exists(hot[i]) => hot[i] = saved.segments[i].digest
      BY <1>1 DEF KeepInv, Kept, n, Exists
    <3> QED
      BY <1>5, <1>5a, <3>1, <3>2
  <2>3. \A i \in Segments : (i <= k \/ i > n) => i \in 1..k \/ ~Exists(hot[i])
    <3>1. \A i \in Segments : i \in Nat /\ i >= 1 /\ i <= MaxSegments
      BY RetentionAssumption DEF Segments
    <3>2. \A i \in Segments : i <= k => i \in 1..k
      BY <2>1, <3>1
    <3>3. \A i \in Segments : i > n => i = n + 1 \/ i > n + 1
      BY <1>2, <3>1
    <3>4. \A i \in Segments : i = n + 1 => ~Exists(hot[i])
      <4>1. \A i \in Segments : i = n + 1 => n < MaxSegments
        BY <1>2, <3>1, RetentionAssumption
      <4> QED
        BY <1>1, <1>4, <4>1 DEF Stray, n
    <3>5. \A i \in Segments : i > n + 1 => ~Exists(hot[i])
      BY <1>1 DEF Layout, Exists, n
    <3> QED
      BY <3>2, <3>3, <3>4, <3>5
  <2>4. e <= e /\ e = Edge(saved, n)
    BY <1>3 DEF e
  <2>5. InOrder(hot, 1..k) =
          Slice(log, Edge(saved, k), IF n = n + 1 THEN e ELSE Edge(saved, n))
    <3>1. /\ saved \in Checkpoints /\ RowsExact(saved, log) /\ Len(saved.segments) <= MaxSegments
          /\ e \in Nat /\ Edge(saved, Len(saved.segments)) <= e /\ e <= Len(log)
          /\ hot \in [Segments -> Files] /\ log \in Seq(Records)
          /\ k \in 0..Len(saved.segments) /\ k <= n /\ n <= Len(saved.segments) + 1
          /\ n \in 0..MaxSegments
      BY <1>1, <1>2, <1>3, <2>1, <2>4 DEF n
    <3>2. n = Len(saved.segments) + 1 =>
            n \notin 1..k /\ hot[n] = Slice(log, Edge(saved, Len(saved.segments)), e)
      BY <2>1 DEF n
    <3>3. \A i \in 1..Len(saved.segments) :
            (k < i /\ i <= n) => i \notin 1..k /\ hot[i] = saved.segments[i].digest
      BY <2>2 DEF n
    <3>4. RowsReadable(hot, 1..k, log, saved, e, k, n)
      BY <2>3, <3>1, <3>2, <3>3 DEF RowsReadable
    <3>5. InOrder(hot, 1..k) =
            Slice(log, Edge(saved, k), IF n = Len(saved.segments) + 1 THEN e ELSE Edge(saved, n))
      BY <3>4, ReadRows
    <3> QED
      BY <3>5 DEF n
  <2> QED
    BY <2>1, <2>4, <2>5
<1>8. HotRecords(BootSkips) = Slice(log, Edge(saved, k), Len(log))
  <2>1. Slice(log, Edge(saved, k), e) \o Slice(log, e, Len(log)) = Slice(log, Edge(saved, k), Len(log))
    <3>1. Edge(saved, k) \in Nat /\ Edge(saved, k) <= e /\ Len(log) <= Len(log)
      BY <1>3
    <3> QED
      BY <1>2, <1>3, <3>1, SliceJoin
  <2> QED
    BY <1>4, <1>6, <1>7, <2>1 DEF HotRecords
<1> QED
  BY <1>5, <1>6, <1>8 DEF n
\* The boot accepts the log, and its stamps start above every one of it.
LEMMA BootRebuilds ==
  ASSUME TypeInv, KeepInv, SoundState, proc = "down"
  PROVE  LET recs == HotRecords(BootSkips)
             base == Len(saved.frontier)
             top  == FloorOf(recs, AnchorFloor(saved))
         IN  /\ BootAccepts
             /\ recs = Slice(log, base, Len(log)) /\ base + Len(recs) = Len(log)
             /\ saved.frontier \o LeavesOf(recs) = LeavesOf(log)
             /\ TipsOf(recs, BootTips) = TipsOf(log, Genesis(Sources))
             /\ \A i \in 1..Len(log) : log[i].time <= top
<1> DEFINE recs == HotRecords(BootSkips)
           base == Len(saved.frontier)
           low  == AnchorFloor(saved)
           top  == FloorOf(recs, low)
           m    == Len(log)
<1>1. /\ saved \in Checkpoints /\ log \in Seq(Records) /\ m \in Nat /\ low \in Nat
      /\ RowsExact(saved, log) /\ VerifyChains(log, Genesis(Sources))
      /\ recs \in Seq(Records) /\ Len(recs) \in Nat
  BY LenProperties, HotRecordsType, AnchorFloorBounds DEF TypeInv, TypeOK, SoundState, RowInv, LogInv
<1>2. PICK k \in 0..Len(saved.segments) :
           /\ AnchoredAt(saved, k, log) /\ Rotated(saved) = 1..k
           /\ BootTips = TipsOf(Slice(log, 0, Edge(saved, k)), Genesis(Sources))
           /\ recs = Slice(log, Edge(saved, k), m)
  BY BootReads
<1>3. base = Edge(saved, k) /\ base \in Nat /\ base <= m
  <2>1. base = Edge(saved, k)
    BY <1>1, <1>2, FrontierLength
  <2>2. Edge(saved, k) \in Nat /\ Edge(saved, k) <= Len(log)
    BY <1>1, EdgeBounds
  <2> QED
    BY <2>1, <2>2
<1>4. saved.frontier = LeavesOf(Slice(log, 0, base))
  BY <1>2, <1>3 DEF AnchoredAt
<1> HIDE DEF recs, base, low
<1>5. /\ VerifyChains(recs, BootTips)
      /\ TipsOf(recs, BootTips) = TipsOf(log, Genesis(Sources))
      /\ saved.frontier \o LeavesOf(recs) = LeavesOf(log)
  <2>1. LET past == Slice(log, 0, base)
            rest == Slice(log, base, Len(log))
        IN  /\ VerifyChains(rest, TipsOf(past, Genesis(Sources)))
            /\ TipsOf(rest, TipsOf(past, Genesis(Sources))) = TipsOf(log, Genesis(Sources))
            /\ LeavesOf(past) \o LeavesOf(rest) = LeavesOf(log)
    BY <1>1, <1>3, AnchoredLog
  <2>2. recs = Slice(log, base, Len(log)) /\ BootTips = TipsOf(Slice(log, 0, base), Genesis(Sources))
    BY <1>2, <1>3
  <2> QED
    BY <1>4, <2>1, <2>2
<1>6. /\ Len(recs) = m - base
      /\ \A i \in 1..(m - base) : recs[i] = log[base + i]
  <2>0. m <= Len(log)
    BY <1>1
  <2> HIDE DEF m
  <2>1. Len(Slice(log, base, m)) = m - base
    BY <1>1, <1>3, <2>0, SliceType
  <2>2. \A i \in 1..(m - base) : Slice(log, base, m)[i] = log[base + i]
    BY <1>1, <1>3, <2>0, SliceAt
  <2> QED
    BY <1>2, <1>3, <2>1, <2>2
<1> HIDE DEF m
<1>7. base + Len(recs) = m
  BY <1>1, <1>3, <1>6
<1>8. /\ top \in Nat /\ low <= top /\ \A t \in TimesOf(recs) : t <= top
  BY <1>1, RecordFields, FloorOfList
<1> HIDE DEF top
<1>9. ASSUME NEW i \in 1..m PROVE log[i].time <= top
  <2>1. log[i].time \in Nat
    BY <1>1, RecordFields, ElementOfSeq DEF m
  <2>2. CASE i <= base
    <3>1. k \in 1..Len(saved.segments) /\ k \in Rotated(saved)
      <4>1. k # 0
        BY <1>3, <2>2 DEF Edge
      <4>2. Len(saved.segments) \in Nat
        BY <1>1, RowType
      <4> QED
        BY <1>2, <4>1, <4>2
    <3>2. RowExact(saved, k, log)
      BY <1>1, <3>1 DEF RowsExact
    <3>3. i \in 1..Edge(saved, k)
      BY <1>3, <2>2
    <3>4. log[i].time <= saved.segments[k].last
      BY <3>2, <3>3 DEF RowExact
    <3>5. saved.segments[k].last <= low /\ saved.segments[k].last \in Nat
      BY <1>1, <3>1, AnchorFloorBounds, RowType DEF low
    <3> QED
      BY <1>1, <1>8, <2>1, <3>4, <3>5
  <2>3. CASE ~(i <= base)
    <3>1. i - base \in 1..(m - base) /\ base + (i - base) = i /\ i - base \in 1..Len(recs)
      BY <1>1, <1>3, <1>6, <2>3
    <3>2. recs[i - base].time \in TimesOf(recs)
      BY <3>1 DEF TimesOf
    <3>3. recs[i - base] = log[base + (i - base)]
      BY <1>6, <3>1
    <3> QED
      BY <1>8, <3>1, <3>2, <3>3
  <2> QED
    BY <2>2, <2>3
<1> QED
  BY <1>2, <1>3, <1>5, <1>7, <1>9 DEF BootAccepts, recs, base, low, top, m

LEMMA SoundBoot ==
  ASSUME TypeInv, KeepInv, SoundState, BootServes
  PROVE  SoundState'
<1> DEFINE recs == HotRecords(BootSkips)
<1>1. /\ proc = "down" /\ proc' = "up" /\ wal' = "open" /\ cp' = saved
      /\ active' = Content(active)
      /\ records' = recs /\ offset' = Len(saved.frontier)
      /\ leaves' = saved.frontier \o LeavesOf(recs)
      /\ tip' = TipsOf(recs, BootTips) /\ floor' = FloorOf(recs, AnchorFloor(saved))
      /\ UNCHANGED <<hot, cold, saved, pc, log>>
  BY DEF BootServes
<1>2. LogInv /\ RowInv(log) /\ Layout(active, log) /\ pc = "idle" /\ active \in Files
  BY <1>1 DEF SoundState, TypeInv, TypeOK, Places
<1>3. LogInv'
  <2>1. Serves'
    <3>1. /\ offset' + Len(records') = Len(log') /\ records' = Slice(log', offset', Len(log'))
          /\ leaves' = LeavesOf(log') /\ tip' = TipsOf(log', Genesis(Sources))
          /\ \A i \in 1..Len(log') : log'[i].time <= floor'
      BY <1>1, BootRebuilds
    <3> QED
      BY <3>1 DEF Serves, Slice
  <2> QED
    BY <1>1, <1>2, <2>1 DEF LogInv
<1>4. RowInv(log)'
  BY <1>1, <1>2, ZenonT(60) DEF RowInv, RowsExact, RowExact, Anchored, AnchoredAt, Edge, Slice, Rotated
<1>5. ~Stray /\ Exists(active) /\ active' = active
  <2>1. ~Stray /\ Exists(active)
    BY <1>1, <1>2 DEF Layout
  <2> QED
    BY <1>1, <2>1 DEF Content
<1>6. Ledger' = Ledger /\ Listed' = Listed /\ LastEdge' = LastEdge
  BY <1>1 DEF Ledger, Listed, LastEdge, Edge
<1>7. (Stray' <=> Stray) /\ Sealed(active, log)' = Sealed(active, log)
  BY <1>1, <1>5, <1>6 DEF Stray, Sealed, Content, Exists
<1>8. Layout(active, log)'
  BY <1>1, <1>2, <1>5, <1>6, <1>7 DEF Layout, Content, Exists, Slice
<1> QED
  BY <1>3, <1>4, <1>8 DEF SoundState

\* What can go wrong does not change.
LEMMA FaultsStay == [Next]_vars => faults' = faults
BY DEF Next, vars, Admit, AdmitRefused, TickBegins, Seal, SealRenames, SealFails,
   SealWedges, SealReopens, InventoryFails, InventorySaves, InventoryUnsaved, Rotate,
   NothingToRotate, ResumeRemovesHot, ResumeFails, ResumeFinished, CopyWrites, CopyRenames,
   CopyFails, CopyUnsynced, PromoteSaves, PromoteUnsaved, FinishRemoves, FinishFails,
   RotationFails, Breaches, EmitsBreach, TickEnds, Crash, BootServes, BootRefuses

LEMMA SoundStep ==
  ASSUME TypeInv, KeepInv, [Next]_vars, Sound => SoundState
  PROVE  (Sound => SoundState)'
<1> SUFFICES ASSUME Sound' PROVE SoundState'
  OBVIOUS
<1>1. faults' = faults
  BY FaultsStay
<1>2. Sound /\ SoundState
  BY <1>1 DEF Sound
<1>3. TypeInv'
  BY TypeStep
<1>4. CASE UNCHANGED vars
  <2>1. /\ UNCHANGED <<active, log, hot, cold, saved, cp, proc, pc, wal, snap>>
        /\ UNCHANGED <<offset, records, leaves, tip, floor>>
    BY <1>4 DEF vars, disk, serving, manager
  <2>2. LogInv'
    BY <1>2, <2>1, LogFrame DEF SoundState
  <2>3. RowInv(log') /\ Layout(active', log')
    BY <1>2, <2>1 DEF SoundState
  <2>4. Stray => wal' = "closed" \/ pc' \in {"reopen", "inventory"}
    BY <1>2, <2>1 DEF SoundState, Layout
  <2>5. pc' = "seal" => LastEdge < Len(log')
    BY <1>2, <2>1 DEF SoundState, Layout
  <2>6. RowInv(log)' /\ Layout(active, log)'
    BY <2>1, <2>3, <2>4, <2>5, LayoutFrame
  <2> QED
    BY <2>2, <2>6 DEF SoundState
<1>5. CASE (\E s \in Producers, t \in Times : Admit(s, t)) \/ (\E t \in Times : AdmitRefused(t))
  BY <1>2, <1>5, SoundAdmissions
<1>6. CASE (\E t \in Times : TickBegins(t)) \/ Breaches
  BY <1>2, <1>6, SoundTick
<1>7. CASE Seal
  BY <1>2, <1>3, <1>7, SoundSeal
<1>8. CASE Rotate
  BY <1>2, <1>8, SoundRotate
<1>9. CASE Crash
  BY <1>2, <1>9, SoundCrash
<1>10. CASE BootServes
  BY <1>2, <1>10, SoundBoot
<1>11. CASE BootRefuses
  BY <1>2, <1>11, BootRebuilds DEF BootRefuses
<1> QED
  BY <1>4, <1>5, <1>6, <1>7, <1>8, <1>9, <1>10, <1>11 DEF Next

\* The inductive invariant.
SoundInv == TypeInv /\ KeepInv /\ (Sound => SoundState)

LEMMA SoundCorrect == Spec => []SoundInv
<1>1. Init => SoundInv
  BY TypeInit, KeepInit, LogInit, LayoutInit DEF SoundInv, SoundState
<1>2. SoundInv /\ [Next]_vars => SoundInv'
  BY TypeStep, KeepStep, SoundStep DEF SoundInv
<1> QED
  BY <1>1, <1>2, PTL DEF Spec
-----------------------------------------------------------------------------
(* What follows. *)

\* What is signed is true, of the cold tier under every fault, and of the log as
\* long as no crash falls into a window and every sealed segment can be read
\* back (Sound): the anchors that a seal hands out (store.go:186-189) and the
\* global indexes of its row describe the log up to the last sealed record,
\* although admissions go on meanwhile.
THEOREM SignedIsTrue == Spec => []CheckpointTrue
<1>1. SoundInv => CheckpointTrue
  <2> SUFFICES ASSUME SoundInv PROVE CheckpointTrue
    OBVIOUS
  <2>1. InventoryHonest
    BY DEF SoundInv, KeepInv
  <2>2. SealAnchorsExact
    <3> SUFFICES ASSUME Sound, NEW c \in {cp, saved}, NEW i \in DOMAIN c.segments
                 PROVE  /\ c.segments[i].digest = SubSeq(log, c.segments[i].firstGlobal + 1, c.segments[i].lastGlobal + 1)
                        /\ c.segments[i].tips = TipsOf(Prefix(c.segments[i].lastGlobal + 1), Genesis(Sources))
                        /\ c.segments[i].frontier = LeavesOf(Prefix(c.segments[i].lastGlobal + 1))
      BY DEF SealAnchorsExact
    <3>1. c \in Checkpoints /\ RowsExact(c, log)
      BY DEF SoundInv, SoundState, RowInv, TypeInv, TypeOK
    <3>2. i \in 1..Len(c.segments) /\ i # 0
      BY <3>1, RowType
    <3>3. RowExact(c, i, log) /\ Edge(c, i) = c.segments[i].lastGlobal + 1
      BY <3>1, <3>2 DEF RowsExact, Edge
    <3>4. Slice(log, 0, Edge(c, i)) = Prefix(c.segments[i].lastGlobal + 1)
      BY <3>3 DEF Slice, Prefix
    <3> QED
      BY <3>3, <3>4 DEF RowExact, Slice
  <2> QED
    BY <2>1, <2>2 DEF CheckpointTrue
<1> QED
  BY SoundCorrect, <1>1, PTL

\* Where no crash falls into a window and every sealed segment can be read back
\* (Sound), the store serves the one committed log after any number of seals,
\* rotations, other failed attempts and restarts, and stamps never went back
\* along it.
THEOREM RecoveryIsExact == Spec => []RecoveryExact
<1>1. SoundInv => RecoveryExact
  <2> SUFFICES ASSUME SoundInv PROVE RecoveryExact
    OBVIOUS
  <2>1. Sound => LogInv
    BY DEF SoundInv, SoundState
  <2> QED
    BY <2>1 DEF RecoveryExact, ServingMatchesLog, StampsNeverRegress, LogInv, Serves, Slice
<1> QED
  BY SoundCorrect, <1>1, PTL

\* Under the same condition the anchored boot never locks out a log the daemon
\* wrote. Without it, it may: a crash after the recovery undid a seal, or a seal
\* that replaced a segment it failed to read, leaves files that do not chain.
THEOREM AnchoredBootSucceeds == Spec => []BootNeverRefused
<1>1. SoundInv => BootNeverRefused
  BY DEF SoundInv, SoundState, LogInv, BootNeverRefused
<1> QED
  BY SoundCorrect, <1>1, PTL

\* Which cold copies there are: of the segments up to some K, complete.
LEMMA ColdPart ==
  ASSUME TypeInv, KeepInv, SoundState
  PROVE  \E K \in 0..Listed :
           /\ {i \in Segments : Exists(cold[i])} = 1..K
           /\ \A i \in 1..K : cold[i] = Ledger.segments[i].digest
<1> DEFINE c == Ledger
           n == Listed
<1>1. /\ c \in Checkpoints /\ n = Len(c.segments) /\ n \in Nat /\ n <= MaxSegments
      /\ MaxSegments \in Nat /\ Anchored(c, log) /\ Layout(active, log)
      /\ \A i \in 1..n : c.segments[i].digest \in Seq(Records)
  BY RowType, RetentionAssumption
  DEF Ledger, Listed, TypeInv, TypeOK, Places, SoundState, RowInv
<1>2. \A i \in Rotated(c) : i \in Segments /\ cold[i] = c.segments[i].digest
  BY RotatedIsCold DEF Ledger
<1>3. /\ \A i \in Segments : i > n => cold[i] = NoFile
      /\ \A i \in 1..n : cold[i] \in {NoFile, c.segments[i].digest}
      /\ \A i \in Segments : \A j \in 1..(i - 1) : Exists(cold[i]) => j \in Rotated(c)
  BY <1>1 DEF Layout, KeepInv, InTurn
<1> HIDE DEF c, n
<1>4. PICK r \in 0..n : Rotated(c) = 1..r
  <2>1. PICK k \in 0..n : AnchoredAt(c, k, log)
    BY <1>1 DEF Anchored
  <2>2. Rotated(c) = 1..k \/ (k > 0 /\ Rotated(c) = 1..(k - 1))
    BY <1>1, <2>1, RotatedIsPrefix
  <2>3. k > 0 => k - 1 \in 0..n
    BY <1>1
  <2> QED
    BY <2>2, <2>3
<1>5. \A i \in 1..n : i \in Segments
  BY <1>1 DEF Segments
<1>6. \A i \in Segments : i \in Nat /\ i >= 1 /\ i <= MaxSegments
  BY <1>1 DEF Segments
<1>7. \A i \in 1..r : Exists(cold[i]) /\ cold[i] = c.segments[i].digest /\ i \in Segments /\ i \in 1..n
  <2>1. \A i \in 1..r : i \in 1..n
    BY <1>1
  <2> QED
    BY <1>1, <1>2, <1>4, <2>1, NoFileAssumption DEF Exists
<1>8. \A i \in Segments : Exists(cold[i]) => i <= n /\ i <= r + 1
  <2> SUFFICES ASSUME NEW i \in Segments, Exists(cold[i]) PROVE i <= n /\ i <= r + 1
    OBVIOUS
  <2>1. i <= n
    BY <1>1, <1>3, <1>6 DEF Exists
  <2>2. i <= r + 1
    <3> SUFFICES ASSUME i > r + 1 PROVE FALSE
      BY <1>1, <1>6
    <3>1. r + 1 \in 1..(i - 1) /\ r + 1 \notin 1..r
      BY <1>1, <1>6
    <3> QED
      BY <1>3, <1>4, <3>1
  <2> QED
    BY <2>1, <2>2
<1>9. CASE r + 1 \in Segments /\ Exists(cold[r + 1])
  <2>1. r + 1 \in 1..n /\ r + 1 \in 0..n
    BY <1>1, <1>8, <1>9
  <2>2. cold[r + 1] = c.segments[r + 1].digest
    BY <1>3, <1>9, <2>1 DEF Exists
  <2>3. \A i \in 1..(r + 1) : i \in 1..r \/ i = r + 1
    BY <1>1
  <2>4. \A i \in 1..(r + 1) : i \in Segments /\ Exists(cold[i]) /\ cold[i] = c.segments[i].digest
    BY <1>7, <1>9, <2>2, <2>3
  <2>5. \A i \in Segments : Exists(cold[i]) => i \in 1..(r + 1)
    BY <1>1, <1>6, <1>8
  <2>6. {i \in Segments : Exists(cold[i])} = 1..(r + 1)
    BY <2>4, <2>5
  <2> QED
    BY <2>1, <2>4, <2>6 DEF c, n
<1>10. CASE ~(r + 1 \in Segments /\ Exists(cold[r + 1]))
  <2>1. \A i \in Segments : Exists(cold[i]) => i \in 1..r
    BY <1>1, <1>6, <1>8, <1>10
  <2>2. {i \in Segments : Exists(cold[i])} = 1..r
    BY <1>7, <2>1
  <2> QED
    BY <1>7, <2>2 DEF c, n
<1> QED
  BY <1>9, <1>10
\* The cold directory and what the hot one has besides are the whole log.
LEMMA UnionIsLog ==
  ASSUME TypeInv, KeepInv, SoundState
  PROVE  Union = log
<1> DEFINE c == Ledger
           n == Listed
           e == Sealed(active, log)
           m == Len(log)
<1>1. /\ c \in Checkpoints /\ n = Len(c.segments) /\ n \in Nat /\ n <= MaxSegments
      /\ MaxSegments \in Nat /\ RowsExact(c, log) /\ Layout(active, log)
      /\ hot \in [Segments -> Files] /\ cold \in [Segments -> Files]
      /\ active \in Files /\ log \in Seq(Records) /\ m \in Nat
  BY RowType, LenProperties, RetentionAssumption
  DEF Ledger, Listed, TypeInv, TypeOK, Places, SoundState, RowInv
<1>2. LastEdge = Edge(c, n) /\ LastEdge \in Nat /\ e \in Nat /\ LastEdge <= e /\ e <= m
  <2>1. RowInv(log)
    BY DEF SoundState
  <2> QED
    BY <1>1, <2>1, LayoutBounds DEF LastEdge
<1>3. PICK K \in 0..n : /\ {i \in Segments : Exists(cold[i])} = 1..K
                        /\ \A i \in 1..K : cold[i] = c.segments[i].digest
  BY ColdPart
<1>4. /\ \A i \in Segments : i > n + 1 => ~Exists(hot[i])
      /\ Stray => hot[n + 1] = Slice(log, LastEdge, e)
      /\ ~Stray => e = LastEdge
      /\ Content(active) = Slice(log, e, m)
  BY <1>1 DEF Layout, Exists
<1>5. \A i \in 1..n : hot[i] = c.segments[i].digest \/ Exists(cold[i])
  <2>1. \A i \in 1..n : c.segments[i].digest # NoFile
    BY <1>1, RowType, NoFileAssumption
  <2> QED
    BY <2>1 DEF KeepInv, Kept, Exists, Listed
<1>6. \A i \in Segments : i \in Nat /\ i >= 1 /\ i <= MaxSegments
  BY <1>1 DEF Segments
<1>7. Stray <=> n < MaxSegments /\ Exists(hot[n + 1])
  BY DEF Stray
<1> HIDE DEF c, n, e, m
<1>8. /\ \A i \in 0..n : Edge(c, i) \in Nat /\ Edge(c, i) <= LastEdge
      /\ K \in 0..MaxSegments /\ n \in 0..MaxSegments /\ K \in Nat /\ K <= n
  <2>1. \A i \in 0..n : Edge(c, i) \in Nat
    BY <1>1, EdgeBounds
  <2>2. n \in 0..n /\ \A i \in 0..n : i <= n
    BY <1>1
  <2>3. \A i \in 0..n : Edge(c, i) <= Edge(c, n)
    BY <1>1, <2>2, EdgesGrow
  <2> QED
    BY <1>1, <1>2, <2>1, <2>3
<1>9. InOrder(cold, {}) = Slice(log, 0, Edge(c, K))
  <2>1. \A i \in 1..n : (0 < i /\ i <= K) => i \notin {} /\ cold[i] = c.segments[i].digest
    BY <1>3, <1>8
  <2>2. \A i \in Segments : (i <= 0 \/ i > K) => i \in {} \/ ~Exists(cold[i])
    <3>1. \A i \in Segments : Exists(cold[i]) => i \in 1..K
      BY <1>3
    <3> QED
      BY <1>6, <1>8, <3>1
  <2>3. K # n + 1 /\ 0 \in 0..n /\ 0 <= K /\ K <= n + 1
    BY <1>1, <1>8
  <2>4. RowsReadable(cold, {}, log, c, e, 0, K)
    BY <1>1, <1>2, <1>8, <2>1, <2>2, <2>3 DEF RowsReadable, m
  <2>5. InOrder(cold, {}) = Slice(log, Edge(c, 0), IF K = n + 1 THEN e ELSE Edge(c, K))
    BY <1>1, <2>4, ReadRows
  <2>6. Edge(c, 0) = 0
    BY DEF Edge
  <2> QED
    BY <2>3, <2>5, <2>6
<1>10. InOrder(hot, 1..K) = Slice(log, Edge(c, K), e)
  <2>1. \A i \in 1..n : K < i => i \notin 1..K /\ hot[i] = c.segments[i].digest
    <3>1. \A i \in 1..n : i \in Segments
      BY <1>1 DEF Segments
    <3>2. \A i \in 1..n : K < i => i \notin 1..K
      BY <1>8
    <3>3. \A i \in 1..n : K < i => ~Exists(cold[i])
      BY <1>3, <3>1, <3>2
    <3> QED
      BY <1>5, <3>2, <3>3
  <2>2. \A i \in Segments : i <= K => i \in 1..K
    BY <1>6, <1>8
  <2>3. CASE Stray
    <3> DEFINE to == n + 1
    <3>1. to \in 0..MaxSegments /\ K <= to /\ to <= n + 1 /\ to = Len(c.segments) + 1 /\ to > K
      BY <1>1, <1>7, <1>8, <2>3
    <3>2. to \notin 1..K /\ hot[to] = Slice(log, Edge(c, n), e)
      BY <1>2, <1>4, <1>8, <2>3, <3>1
    <3>3. \A i \in Segments : (i <= K \/ i > to) => i \in 1..K \/ ~Exists(hot[i])
      BY <1>4, <2>2
    <3> HIDE DEF to
    <3>4. RowsReadable(hot, 1..K, log, c, e, K, to)
      BY <1>1, <1>2, <1>8, <2>1, <3>1, <3>2, <3>3 DEF RowsReadable, m
    <3> QED
      BY <3>1, <3>4, ReadRows
  <2>4. CASE ~Stray
    <3>1. n # n + 1 /\ K <= n /\ n <= n + 1
      BY <1>1, <1>8
    <3>2. \A i \in Segments : i > n => ~Exists(hot[i])
      <4>1. \A i \in Segments : i > n => i > n + 1 \/ (i = n + 1 /\ n < MaxSegments)
        BY <1>1, <1>6, SMTT(30)
      <4> QED
        BY <1>4, <1>7, <2>4, <4>1
    <3>3. \A i \in Segments : (i <= K \/ i > n) => i \in 1..K \/ ~Exists(hot[i])
      BY <2>2, <3>2
    <3>4. RowsReadable(hot, 1..K, log, c, e, K, n)
      BY <1>1, <1>2, <1>8, <2>1, <3>1, <3>3 DEF RowsReadable, m
    <3>5. InOrder(hot, 1..K) = Slice(log, Edge(c, K), IF n = n + 1 THEN e ELSE Edge(c, n))
      BY <1>1, <3>4, ReadRows
    <3> QED
      BY <1>2, <1>4, <2>4, <3>1, <3>5
  <2> QED
    BY <2>3, <2>4
<1>11. HotRecords({i \in Segments : Exists(cold[i])}) = Slice(log, Edge(c, K), e) \o Slice(log, e, m)
  BY <1>3, <1>4, <1>10 DEF HotRecords
<1>12. Slice(log, Edge(c, K), e) \o Slice(log, e, m) = Slice(log, Edge(c, K), m)
  <2>1. Edge(c, K) \in Nat /\ Edge(c, K) <= e /\ m <= Len(log)
    BY <1>1, <1>2, <1>8 DEF m
  <2> QED
    BY <1>1, <1>2, <2>1, SliceJoin, ZenonT(60)
<1>13. Slice(log, 0, Edge(c, K)) \o Slice(log, Edge(c, K), m) = Slice(log, 0, m)
  <2>1. Edge(c, K) \in Nat /\ Edge(c, K) <= m /\ m <= Len(log) /\ 0 <= Edge(c, K)
    BY <1>1, <1>2, <1>8 DEF m
  <2> QED
    BY <1>1, <2>1, SliceJoin
<1>14. Slice(log, 0, m) = log
  BY <1>1, SliceFull DEF m
<1> QED
  BY <1>9, <1>11, <1>12, <1>13, <1>14 DEF Union

\* The offline verifier finds, at every instant of a seal or a rotation and
\* also between a crash and the next boot, the whole committed log in the two
\* directories, each record once, in order and linked from genesis. A log whose
\* segment was replaced, by a crash in a window or after a failed read, is
\* excluded (Sound): no verifier can find what is no longer there.
THEOREM VerifierFindsWholeLog == Spec => []VerifierFindsLog
<1>1. SoundInv => VerifierFindsLog
  <2> SUFFICES ASSUME TypeInv, KeepInv, SoundState PROVE VerifierFindsLog
    BY DEF SoundInv, VerifierFindsLog
  <2>1. Union = log
    BY UnionIsLog
  <2>2. VerifyChains(log, Genesis(Sources))
    BY DEF SoundState, LogInv
  <2>3. \A i \in Segments : Exists(hot[i]) /\ Exists(cold[i]) => hot[i] = cold[i]
    <3>1. PICK K \in 0..Listed : /\ {i \in Segments : Exists(cold[i])} = 1..K
                                 /\ \A i \in 1..K : cold[i] = Ledger.segments[i].digest
      BY ColdPart
    <3>2. \A i \in Segments : Exists(cold[i]) => i \in 1..K
      BY <3>1
    <3>3. \A i \in 1..K : i \in 1..Listed
      <4>1. Listed \in Nat
        BY RowType DEF Listed, Ledger, TypeInv, TypeOK
      <4> QED
        BY <4>1
    <3>4. \A i \in 1..Listed : Exists(hot[i]) => hot[i] = Ledger.segments[i].digest
      BY DEF KeepInv, Kept, Listed, Exists
    <3> QED
      BY <3>1, <3>2, <3>3, <3>4
  <2>4. Exists(active) \/ \E i \in Segments : Exists(hot[i])
    <3>1. CASE Stray
      <4>1. Listed + 1 \in Segments
        BY <3>1, RowType, RetentionAssumption DEF Stray, Segments, Listed, Ledger, TypeInv, TypeOK
      <4> QED
        BY <3>1, <4>1 DEF Stray
    <3>2. CASE ~Stray
      BY <3>2 DEF SoundState, Layout
    <3> QED
      BY <3>1, <3>2
  <2> QED
    BY <2>1, <2>2, <2>3, <2>4 DEF VerifierFindsLog
<1> QED
  BY SoundCorrect, <1>1, PTL
-----------------------------------------------------------------------------
(* Refinement *)

\* Every step leaves the log alone or commits one record to it.
LEMMA LogStep ==
  ASSUME TypeInv, [Next]_vars
  PROVE  \/ log' = log
         \/ /\ proc = "up"
            /\ \E s \in Sources, body \in Bodies, t \in Nat : Commit(NextRecord(s, body, t))
<1>0. Emission => \/ log' = log
                  \/ /\ proc = "up"
                     /\ \E s \in Sources, body \in Bodies, t \in Nat : Commit(NextRecord(s, body, t))
  BY DEF Emission, journal
<1>1. CASE UNCHANGED vars
  BY <1>1 DEF vars
<1>2. CASE \E s \in Producers, t \in Times : Admit(s, t)
  BY <1>0, <1>2, AdmitType
<1>3. CASE Seal
  <2>1. ASSUME pc \in {"seal", "reopen", "inventory"} PROVE NextSegment \in Segments
    BY <2>1, NextSegmentPlace
  <2>2. "seal_failure" \in Bodies
    BY DEF Bodies
  <2>3. CASE SealRenames \/ SealReopens \/ InventorySaves
    BY <2>3 DEF SealRenames, SealReopens, InventorySaves
  <2>4. CASE SealFails
    <3>1. PICK handle \in {wal, "closed"} : EmitOnce(handle, NextSegment, "seal_failure")
      BY <2>4 DEF SealFails
    <3>2. pc = "seal"
      BY <2>4 DEF SealFails
    <3> QED
      BY <1>0, <2>1, <2>2, <3>1, <3>2, EmitOnceIsEmission
  <2>5. CASE SealWedges
    <3>1. pc = "reopen" /\ EmitOnce("closed", NextSegment, "seal_failure")
      BY <2>5 DEF SealWedges
    <3> QED
      BY <1>0, <2>1, <2>2, <3>1, EmitOnceIsEmission
  <2>6. CASE InventoryFails
    <3>1. pc = "inventory" /\ EmitOnce(wal, NextSegment, "seal_failure")
      BY <2>6 DEF InventoryFails
    <3> QED
      BY <1>0, <2>1, <2>2, <3>1, EmitOnceIsEmission
  <2>7. CASE InventoryUnsaved
    <3>1. pc = "inventory" /\ SelfEmit(wal, "seal_failure")
      BY <2>7 DEF InventoryUnsaved
    <3> QED
      BY <1>0, <2>2, <3>1, SelfEmitIsEmission
  <2> QED
    BY <1>3, <2>3, <2>4, <2>5, <2>6, <2>7 DEF Seal
<1>4. CASE Rotate
  <2>1. ASSUME RotationFails, pc # "reopen", Unrotated(cp) # {} PROVE Emission
    BY <2>1, RotationFailsType
  <2>2. CASE ResumeFails \/ CopyFails \/ CopyUnsynced \/ PromoteUnsaved
    <3>1. RotationFails /\ pc # "reopen" /\ Unrotated(cp) # {}
      BY <2>2 DEF ResumeFails, CopyFails, CopyUnsynced, PromoteUnsaved, RotationIsDue, TypeInv, Places
    <3> QED
      BY <1>0, <2>1, <3>1
  <2>3. CASE FinishFails
    <3>1. pc = "finish" /\ SelfEmit(wal, "rotation_failure") /\ "rotation_failure" \in Bodies
      BY <2>3 DEF FinishFails, Bodies
    <3> QED
      BY <1>0, <3>1, SelfEmitIsEmission
  <2>4. CASE \/ NothingToRotate \/ ResumeRemovesHot \/ ResumeFinished \/ CopyWrites
             \/ CopyRenames \/ PromoteSaves \/ FinishRemoves
    BY <2>4 DEF NothingToRotate, ResumeRemovesHot, ResumeFinished, CopyWrites, CopyRenames,
       PromoteSaves, FinishRemoves
  <2> QED
    BY <1>4, <2>2, <2>3, <2>4 DEF Rotate
<1>5. CASE Breaches
  <2>1. CASE EmitsBreach
    <3>1. pc = "breach" /\ SelfEmit(wal, "ceiling_breach") /\ "ceiling_breach" \in Bodies
      BY <2>1 DEF EmitsBreach, Bodies
    <3> QED
      BY <1>0, <3>1, SelfEmitIsEmission
  <2> QED
    BY <1>5, <2>1 DEF Breaches, TickEnds
<1>6. CASE \/ \E t \in Times : AdmitRefused(t)
           \/ \E t \in Times : TickBegins(t)
           \/ Crash \/ BootServes \/ BootRefuses
  BY <1>6 DEF AdmitRefused, TickBegins, Crash, BootServes, BootRefuses
<1> QED
  BY <1>1, <1>2, <1>3, <1>4, <1>5, <1>6 DEF Next

\* The abstract log reads the hash chain in the same way.
LEMMA SameChain ==
  /\ \A recs, n, s : Horizon!TipAt(recs, n, s, Horizon!Genesis(Sources)) =
                       TipAt(recs, n, s, Genesis(Sources))
  /\ \A t, rec : Horizon!Extends(t, rec) <=> Extends(t, rec)
  /\ \A recs : Horizon!TimesOf(recs) = TimesOf(recs)
<1>1. \A recs, n, s : Horizon!PositionsOf(recs, n, s) = PositionsOf(recs, n, s)
  BY DEF Horizon!PositionsOf, PositionsOf
<1>2. Horizon!Genesis(Sources) = Genesis(Sources)
  BY DEF Horizon!Genesis, Genesis, Horizon!NoTip, NoTip, Horizon!GenesisPrevHash, GenesisPrevHash
<1>3. \A S : Horizon!Max(S) = Max(S)
  BY DEF Horizon!Max, Max
<1>4. \A rec : Horizon!TipOf(rec) = TipOf(rec)
  BY DEF Horizon!TipOf, TipOf
<1>5. \A recs, n, s : Horizon!TipAt(recs, n, s, Horizon!Genesis(Sources)) =
                        TipAt(recs, n, s, Genesis(Sources))
  BY <1>1, <1>2, <1>3, <1>4 DEF Horizon!TipAt, TipAt
<1>6. \A t, rec : Horizon!Extends(t, rec) <=> Extends(t, rec)
  BY DEF Horizon!Extends, Extends, Horizon!Verify, Verify, Horizon!Compute, Compute,
         Horizon!CanonicalEvent, CanonicalEvent
<1>7. \A recs : Horizon!TimesOf(recs) = TimesOf(recs)
  BY DEF Horizon!TimesOf, TimesOf
<1> QED
  BY <1>5, <1>6, <1>7

\* A committed record is a commit of the abstract log.
LEMMA CommitImplements ==
  ASSUME TypeOK, LogInv, proc = "up", UnionView = log, UnionView' = log',
         NEW s \in Sources, NEW body \in Bodies, NEW t \in Nat, Commit(NextRecord(s, body, t))
  PROVE  Horizon!Commit
<1> DEFINE rec == NextRecord(s, body, t)
           n == Len(log)
<1>1. log \in Seq(Records) /\ n \in Nat /\ tip \in Tips /\ floor \in Nat
  BY LenProperties DEF TypeOK
<1>2. /\ rec \in Records /\ rec.source = s /\ rec.time >= floor /\ rec.time \in Nat
      /\ Extends(tip[s], rec)
  BY <1>1, NextRecordType, RecordFields
<1>3. log' = Append(log, rec)
  BY DEF Commit
<1> HIDE DEF rec
<1>4. /\ Len(log') = n + 1 /\ log'[n + 1] = rec /\ SubSeq(log', 1, n) = log
  <2>1. \A i \in 1..n : Append(log, rec)[i] \in Records /\ Append(log, rec)[i] = log[i]
    BY <1>1, <1>2, AppendProperties, ElementOfSeq
  <2> QED
    BY <1>1, <1>2, <1>3, <2>1, LenProperties, AppendProperties
<1>5. Extends(TipAt(log, n, rec.source, Genesis(Sources)), rec)
  <2>1. tip[s] = TipAt(log, n, s, Genesis(Sources))
    BY GenesisTips DEF LogInv, Serves, TipsOf
  <2> QED
    BY <1>2, <2>1
<1>6. \A u \in TimesOf(log) : u <= rec.time
  <2>1. \A i \in 1..n : log[i].time <= floor /\ log[i].time \in Nat
    BY <1>1, RecordFields, ElementOfSeq DEF LogInv, Serves
  <2>2. \A i \in 1..n : log[i].time <= rec.time
    BY <1>1, <1>2, <2>1
  <2> QED
    BY <2>2 DEF TimesOf
<1>7. KeysOf(log') = KeysOf(log) \cup {<<rec.source, rec.seq>>}
  BY <1>1, <1>2, <1>3, KeysOfAppend
<1>8. /\ Len(UnionView') = Len(UnionView) + 1
      /\ SubSeq(UnionView', 1, Len(UnionView)) = UnionView
      /\ UnionView'[Len(UnionView')] = rec /\ rec.source \in Sources
  BY <1>2, <1>4
<1>9. /\ Horizon!Extends(Horizon!TipAt(UnionView, Len(UnionView), rec.source, Horizon!Genesis(Sources)), rec)
      /\ \A u \in Horizon!TimesOf(UnionView) : u <= rec.time
  BY <1>5, <1>6, SameChain
<1>10. KeysOf(UnionView)' = KeysOf(UnionView) \cup {<<rec.source, rec.seq>>}
  <2>1. KeysOf(UnionView)' = KeysOf(UnionView')
    BY DEF KeysOf
  <2> QED
    BY <1>7, <2>1
<1> QED
  BY <1>8, <1>9, <1>10, Zenon DEF Horizon!Commit

\* Sealing, rotating and restarting are invisible to a reader of the whole
\* horizon: what the two directories together hold is an append-only, chained,
\* time-ordered log, and every step of daemon and manager is a commit to it or
\* a stutter, as long as no step is a seal over a segment that is not in the
\* inventory (Sound excludes the crashes and the failed reads that lead there).
THEOREM UnionImplementsLog == Spec => ImplementsDurableLog
<1>1. Init => Horizon!Init
  <2> SUFFICES ASSUME Init PROVE UnionView = << >> /\ KeysOf(UnionView) = {}
    BY DEF Horizon!Init
  <2>1. UnionView = << >>
    <3>1. CASE Sound
      <4>1. Union = log
        BY <3>1, TypeInit, KeepInit, LogInit, LayoutInit, UnionIsLog DEF SoundState
      <4> QED
        BY <3>1, <4>1 DEF UnionView, Init
    <3>2. CASE ~Sound
      BY <3>2 DEF UnionView
    <3> QED
      BY <3>1, <3>2
  <2>2. Len(<< >>) = 0 /\ 1..0 = {}
    BY EmptySeq
  <2> QED
    BY <2>1, <2>2 DEF KeysOf
<1>2. SoundInv /\ SoundInv' /\ [Next]_vars => [Horizon!Next]_<<UnionView, KeysOf(UnionView)>>
  <2> SUFFICES ASSUME SoundInv, SoundInv', [Next]_vars
               PROVE  [Horizon!Next]_<<UnionView, KeysOf(UnionView)>>
    OBVIOUS
  <2>1. faults' = faults
    BY FaultsStay
  <2>2. CASE ~Sound
    <3>1. UnionView = << >> /\ UnionView' = << >>
      BY <2>1, <2>2 DEF UnionView, Sound
    <3> QED
      BY <3>1 DEF KeysOf
  <2>3. CASE Sound
    <3>1. Union = log /\ UnionView = log
      BY <2>3, UnionIsLog DEF SoundInv, UnionView
    <3>2. UnionView' = log'
      <4>1. Sound'
        BY <2>1, <2>3 DEF Sound
      <4>2. (TypeInv /\ KeepInv /\ SoundState => Union = log)'
        BY UnionIsLog, PTL
      <4> QED
        BY <4>1, <4>2 DEF SoundInv, UnionView
    <3>3. CASE log' = log
      BY <3>1, <3>2, <3>3 DEF KeysOf
    <3>4. ASSUME proc = "up", NEW s \in Sources, NEW body \in Bodies, NEW t \in Nat,
                 Commit(NextRecord(s, body, t))
          PROVE  Horizon!Commit
      BY <2>3, <3>1, <3>2, <3>4, CommitImplements DEF SoundInv, SoundState, TypeInv
    <3>5. TypeInv
      BY DEF SoundInv
    <3> QED
      BY <3>3, <3>4, <3>5, LogStep DEF Horizon!Next
  <2> QED
    BY <2>2, <2>3
<1> QED
  BY <1>1, <1>2, SoundCorrect, PTL DEF Spec, ImplementsDurableLog, Horizon!Spec
=====
