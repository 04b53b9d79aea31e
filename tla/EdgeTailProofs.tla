--------------------------- MODULE EdgeTailProofs ---------------------------
(***************************************************************************)
(* Theorems about EdgeTail, for every width of a line, every environment   *)
(* and any number of lines, rotations and restarts.                        *)
(***************************************************************************)
EXTENDS EdgeTail, FiniteSets, FiniteSetTheorems, WellFoundedInduction, TLAPS

Running == pc \in {"publish", "advance"}

-----------------------------------------------------------------------------
(* The inductive invariant.                                                *)

\* A file has its lines in the order of writing, and a line begins behind the
\* newline of another.
InOrder(f) ==
  /\ \A j, k \in 1..Len(f) : j < k => f[j][1] <= f[k][1]
  /\ \A j, k \in 1..Len(f) : j < k /\ Newline(f[j]) => f[j][1] < f[k][1]
  /\ \A j \in 2..Len(f) : f[j][2] = 1 => Newline(f[j - 1])

IsLog(f) == f \in Seq(Nat \X Nat) /\ Cells(f) /\ InOrder(f)

\* The last line that can be behind offset o of file f.
Passed(f, o) ==
  IF o \in 1..Len(f) THEN f[o][1] ELSE IF f = <<>> THEN Len(kind) ELSE f[1][1] - 1

FilesInv ==
  /\ IsLog(log) /\ IsLog(old)
  /\ detached => pc # "idle" /\ old # <<>>
  /\ \A j \in 1..Len(old) : old[j][1] <= Passed(log, 0)

\* The sequence runs behind the chain, and behind the lines.
PaceInv ==
  /\ \A i \in 1..Len(chain) : chain[i].seq = i
  /\ cursor.sequence <= cur.sequence /\ cur.sequence <= Len(chain)
  /\ pc = "advance" => cur.sequence < Len(chain)
  /\ cursor.sequence <= Passed(log, cursor.offset)
  /\ cur.sequence <= Passed(log, cur.offset)
  /\ cur.sequence <= Passed(File, cur.offset)
  /\ Running => cur.sequence < line /\ line <= Passed(File, next)

TypeInv == TypeOK /\ FilesInv /\ PaceInv /\ Len(chain) <= Len(kind)

\* The lines that Convert accepts and that begin behind offset o of file f.
Starts(f, o) ==
  {f[j][1] : j \in {k \in (o + 1)..Len(f) : f[k][2] = 1 /\ kind[f[k][1]] # "poison"}}

\* What is to come for a tailer that starts from the cursor, and for this one.
FromCursor == Starts(log, IF "cursor" \in stale THEN 0 ELSE cursor.offset)
FromCur ==
  Starts(File, cur.offset) \cup (IF "cur" \in stale THEN Starts(log, 0) ELSE {})
                           \cup (IF Running THEN {line} ELSE {})

\* An offset of an earlier log is longer than the log, one of this log is not.
PlaceInv ==
  /\ IF "cur" \in stale THEN log = <<>> \/ Len(log) < cur.offset ELSE cur.offset <= Len(log)
  /\ IF "cursor" \in stale THEN Len(log) < cursor.offset ELSE cursor.offset <= Len(log)
  /\ detached => "cur" \in stale

\* The line that is being published is the first to come.
PendingInv == Running =>
  /\ cur.offset < next
  /\ "cur" \notin stale => next <= Len(log) /\ line \in Starts(log, cur.offset)
  /\ Starts(File, cur.offset) \subseteq Starts(File, next) \cup {line}
  /\ \A l \in Starts(File, next) : line < l
  /\ "cur" \in stale => \A l \in Starts(log, 0) : line < l
  /\ kind[line] # "poison"

\* From a place with sequence s, of which the lines D are to come: the records
\* up to s are of earlier lines, and the record s + k is not of a later line
\* than the k-th of them.
Fits(ch, D, s) ==
  /\ \A i \in 1..s : \A l \in D : ch[i].line < l
  /\ \A i \in (s + 1)..Len(ch) : Cardinality({l \in D : l < ch[i].line}) <= i - s - 1

\* The places a tailer can go on from: where it is (lines D, sequence s), the
\* cursor (E, t), and the beginning, with all lines A of the log.  From one to
\* the next there are no more lines than sequences.
Tallies(ch, D, s, E, t, A) ==
  /\ Fits(ch, D, s) /\ Fits(ch, E, t) /\ Fits(ch, A, 0)
  /\ Cardinality(E \ D) <= s - t
  /\ Cardinality(A \ D) <= s
  /\ Cardinality(A \ E) <= t

ChainInv ==
  /\ \A i \in 1..Len(chain) : \A j \in 1..(i - 1) : chain[j].line < chain[i].line
  /\ \A i \in 1..Len(chain) : kind[chain[i].line] # "poison"

OrderInv ==
  /\ PlaceInv /\ PendingInv /\ ChainInv
  /\ Tallies(chain, FromCur, cur.sequence, FromCursor, cursor.sequence, Starts(log, 0))

\* Each line, of the kinds kd, is to come or among the first s records.
Accounted(kd, ch, D, s) ==
  \A l \in 1..Len(kd) : kd[l] = "poison" \/ l \in D \/ \E i \in 1..s : ch[i].line = l

AccountInv ==
  /\ Accounted(kind, chain, FromCur, cur.sequence)
  /\ Accounted(kind, chain, FromCursor, cursor.sequence)
  /\ Without({"rotate"}) => Accounted(kind, chain, Starts(log, 0), 0)
  /\ "cur" \in stale => ~Running
  /\ detached => Len(old) <= cur.offset

TailInv ==
  /\ TypeInv
  /\ Without({"regrow"}) => OrderInv
  /\ Lossless => AccountInv
-----------------------------------------------------------------------------
(* Files. *)

LEMMA PassedBounds ==
  ASSUME kind \in Seq(Kinds), NEW f, IsLog(f), NEW o \in Nat
  PROVE  /\ Passed(f, o) \in Nat /\ Passed(f, o) <= Len(kind)
         /\ Passed(f, 0) <= Passed(f, o) /\ Passed(f, 0) \in Nat
<1>1. \A j \in 1..Len(f) : f[j][1] \in 1..Len(kind)
  BY DEF IsLog, Cells
<1>2. Len(kind) \in Nat /\ Len(f) \in Nat
  BY DEF IsLog
<1>3. f # <<>> => 1 \in 1..Len(f)
  BY DEF IsLog
<1>4. \A j \in 1..Len(f) : f[1][1] <= f[j][1]
  <2> SUFFICES ASSUME NEW j \in 1..Len(f) PROVE f[1][1] <= f[j][1]
    OBVIOUS
  <2>1. CASE j = 1
    BY <2>1, <1>1
  <2>2. CASE j > 1
    BY <2>2, <1>2, SMTT(30) DEF IsLog, InOrder
  <2> QED
    BY <2>1, <2>2
<1> QED
  BY <1>1, <1>2, <1>3, <1>4 DEF Passed

LEMMA PassedOn ==
  ASSUME kind \in Seq(Kinds), NEW f, IsLog(f), NEW o \in Nat, NEW p \in Nat,
         o <= p, p <= Len(f)
  PROVE  Passed(f, o) <= Passed(f, p)
<1>1. CASE o \in 1..Len(f)
  <2>1. p \in 1..Len(f) /\ f[o][1] \in Nat
    BY <1>1, SMTT(30) DEF IsLog, Cells
  <2>2. f[o][1] <= f[p][1]
    BY <1>1, <2>1 DEF IsLog, InOrder
  <2> QED
    BY <1>1, <2>1, <2>2 DEF Passed
<1>2. CASE o \notin 1..Len(f)
  <2>1. o = 0
    BY <1>2 DEF IsLog
  <2> QED
    BY <2>1, PassedBounds
<1> QED
  BY <1>1, <1>2

\* What a line that begins at offset o + 1 says of the sequence behind o.
LEMMA PassedBefore ==
  ASSUME kind \in Seq(Kinds), NEW f, IsLog(f), NEW o \in Nat, o + 1 <= Len(f), f[o + 1][2] = 1
  PROVE  Passed(f, o) < f[o + 1][1]
<1>1. o + 1 \in 1..Len(f) /\ f[o + 1][1] \in Nat /\ f # <<>>
  BY DEF IsLog, Cells
<1>2. CASE o = 0
  BY <1>1, <1>2 DEF Passed
<1>3. CASE o # 0
  <2>1. o \in 1..Len(f) /\ o + 1 \in 2..Len(f) /\ (o + 1) - 1 = o
    BY <1>1, <1>3
  <2>2. Newline(f[o])
    BY <2>1 DEF IsLog, InOrder
  <2>3. f[o][1] < f[o + 1][1]
    BY <2>1, <2>2, <1>1 DEF IsLog, InOrder
  <2> QED
    BY <2>1, <2>3 DEF Passed
<1> QED
  BY <1>2, <1>3

\* A cell more, of a new line or of the last one.
Grows(c) ==
  /\ c \in Nat \X Nat /\ log' = Append(log, c)
  /\ kind' \in Seq(Kinds) /\ Len(kind') <= MaxLines /\ Len(kind) <= Len(kind')
  /\ \A l \in 1..Len(kind) : kind'[l] = kind[l]
  /\ c[1] \in 1..Len(kind') /\ c[2] \in 1..Width[kind'[c[1]]]
  /\ \A j \in 1..Len(log) : log[j][1] <= c[1] /\ (Newline(log[j]) => log[j][1] < c[1])
  /\ c[2] = 1 /\ log # <<>> => Newline(log[Len(log)])
  /\ log = <<>> => c[1] = Len(kind) + 1 /\ c[2] = 1
  /\ c[2] = 1 => c[1] = Len(kind) + 1
  /\ c[2] # 1 => kind' = kind

LEMMA EdgeGrows ==
  ASSUME TypeInv, NEW k \in Kinds, BeginsLine(k) \/ ContinuesLine
  PROVE  \E c \in Nat \X Nat : Grows(c)
<1>1. /\ kind \in Seq(Kinds) /\ Len(kind) \in Nat /\ MaxLines \in Nat /\ Len(kind) <= MaxLines
      /\ log \in Seq(Nat \X Nat) /\ Len(log) \in Nat
      /\ Width \in [Kinds -> Nat \ {0}]
  BY EdgeTailAssumption, SMTT(30) DEF TypeInv, TypeOK, FilesInv, IsLog
<1>5. Cells(log)
  BY DEF TypeInv, FilesInv, IsLog
<1>6. \A j \in 1..Len(log) : log[j] \in Nat \X Nat
  BY <1>1
<1>2. \A j \in 1..Len(log) : /\ log[j][1] \in 1..Len(kind)
                             /\ log[j][2] \in 1..Width[kind[log[j][1]]]
                             /\ log[j] \in Nat \X Nat
  BY <1>5, <1>6 DEF Cells
<1>3. CASE BeginsLine(k)
  <2> DEFINE c == <<Len(kind) + 1, 1>>
  <2>1. kind' = Append(kind, k) /\ log' = Append(log, c) /\ Len(kind) < MaxLines /\ ~Unfinished
    BY <1>3 DEF BeginsLine
  <2>2. /\ kind' \in Seq(Kinds) /\ Len(kind') = Len(kind) + 1
        /\ \A l \in 1..Len(kind) : kind'[l] = kind[l]
        /\ kind'[Len(kind) + 1] = k
    BY <1>1, <2>1
  <2>3. c \in Nat \X Nat /\ c[1] = Len(kind) + 1 /\ c[2] = 1
    BY <1>1
  <2>4. Width[k] \in Nat /\ Width[k] >= 1
    BY <1>1
  <2>5. log # <<>> => Newline(log[Len(log)])
    BY <2>1, <1>1 DEF Unfinished
  <2>6. \A j \in 1..Len(log) : log[j][1] < c[1] /\ log[j][1] <= c[1]
    BY <1>1, <1>2, <2>3
  <2> HIDE DEF c
  <2>7. c[1] \in 1..Len(kind') /\ c[2] \in 1..Width[kind'[c[1]]]
    BY <1>1, <2>2, <2>3, <2>4
  <2>8. Len(kind') <= MaxLines /\ Len(kind) <= Len(kind')
    BY <1>1, <2>1, <2>2
  <2> QED
    BY <2>1, <2>2, <2>3, <2>5, <2>6, <2>7, <2>8 DEF Grows
<1>4. CASE ContinuesLine
  <2> DEFINE n == Len(log)
             c == <<log[n][1], log[n][2] + 1>>
  <2>1. Len(log) > 0 /\ ~Newline(log[n]) /\ kind' = kind /\ log' = Append(log, c)
    BY <1>4 DEF ContinuesLine, Unfinished
  <2>2. n \in 1..Len(log) /\ log # <<>>
    BY <1>1, <2>1
  <2>3. /\ log[n][1] \in 1..Len(kind) /\ log[n][2] \in 1..Width[kind[log[n][1]]]
        /\ log[n][1] \in Nat /\ log[n][2] \in Nat
    BY <1>1, <1>2, <2>2
  <2>4. log[n][2] # Width[kind[log[n][1]]] /\ Width[kind[log[n][1]]] \in Nat
    BY <1>1, <2>1, <2>3 DEF Newline
  <2>5. c \in Nat \X Nat /\ c[1] = log[n][1] /\ c[2] = log[n][2] + 1
    BY <2>3
  <2>6. c[2] \in 1..Width[kind[c[1]]] /\ c[2] # 1
    BY <2>3, <2>4, <2>5
  <2>7. \A j \in 1..Len(log) : log[j][1] <= c[1] /\ (Newline(log[j]) => log[j][1] < c[1])
    <3> SUFFICES ASSUME NEW j \in 1..Len(log)
                 PROVE  log[j][1] <= c[1] /\ (Newline(log[j]) => log[j][1] < c[1])
      OBVIOUS
    <3>1. CASE j = n
      BY <3>1, <2>1, <2>3, <2>5
    <3>2. CASE j # n
      <4>1. j < n
        BY <3>2, <1>1
      <4> QED
        BY <4>1, <2>2, <2>5 DEF TypeInv, FilesInv, IsLog, InOrder
    <3> QED
      BY <3>1, <3>2
  <2> HIDE DEF c
  <2>8. kind \in Seq(Kinds) /\ Len(kind) <= MaxLines
    BY <1>1
  <2>9. Len(kind) <= Len(kind)
    BY <1>1
  <2>10. Grows(c)
    BY <2>1, <2>2, <2>3, <2>5, <2>6, <2>7, <2>8, <2>9, <1>1 DEF Grows
  <2> QED
    BY <2>3, <2>10 DEF Grows
<1> QED
  BY <1>3, <1>4

LEMMA LogGrows ==
  ASSUME TypeInv, NEW c, Grows(c)
  PROVE  /\ IsLog(log)'
         /\ \A o \in Nat : Passed(log, o) <= Passed(log, o)'
         /\ Passed(log, 0)' = Passed(log, 0)
<1>1. /\ kind \in Seq(Kinds) /\ Len(kind) \in Nat
      /\ log \in Seq(Nat \X Nat) /\ Len(log) \in Nat
  BY SMTT(30) DEF TypeInv, TypeOK, FilesInv, IsLog
<1>9. \A j \in 1..Len(log) : /\ log[j][1] \in 1..Len(kind)
                             /\ log[j][2] \in 1..Width[kind[log[j][1]]]
  BY DEF TypeInv, FilesInv, IsLog, Cells
<1>2. /\ c \in Nat \X Nat /\ log' = Append(log, c)
      /\ kind' \in Seq(Kinds) /\ Len(kind') \in Nat /\ Len(kind) <= Len(kind')
      /\ \A l \in 1..Len(kind) : kind'[l] = kind[l]
  BY DEF Grows
<1>3. /\ log' \in Seq(Nat \X Nat) /\ Len(log') = Len(log) + 1
      /\ \A j \in 1..Len(log) : log'[j] = log[j]
      /\ log'[Len(log) + 1] = c
  BY <1>1, <1>2
<1>4. \A j \in 1..Len(log) : Newline(log[j])' <=> Newline(log[j])
  BY <1>1, <1>2, <1>3, <1>9, SMTT(30) DEF Newline
<1>5. Cells(log)'
  <2> SUFFICES ASSUME NEW j \in 1..Len(log')
               PROVE  log'[j][1] \in 1..Len(kind') /\ log'[j][2] \in 1..Width[kind'[log'[j][1]]]
    BY DEF Cells
  <2>1. CASE j \in 1..Len(log)
    <3>1. log'[j] = log[j] /\ log[j][1] \in 1..Len(kind)
      BY <2>1, <1>3, <1>9
    <3>2. kind'[log[j][1]] = kind[log[j][1]] /\ log[j][1] \in 1..Len(kind')
      BY <3>1, <1>1, <1>2, SMTT(30)
    <3>3. log[j][2] \in 1..Width[kind[log[j][1]]]
      BY <2>1, <1>9
    <3> QED
      BY <3>1, <3>2, <3>3
  <2>2. CASE j = Len(log) + 1
    BY <2>2, <1>3 DEF Grows
  <2> QED
    BY <2>1, <2>2, <1>1, <1>3
<1>6. InOrder(log)'
  <2>1. ASSUME NEW j \in 1..Len(log'), NEW k \in 1..Len(log'), j < k
        PROVE  log'[j][1] <= log'[k][1] /\ (Newline(log[j])' => log'[j][1] < log'[k][1])
    <3>4. j \in 1..Len(log)
      BY <2>1, <1>1, <1>3
    <3>1. j \in 1..Len(log) /\ log'[j] = log[j] /\ (Newline(log[j])' <=> Newline(log[j]))
      BY <3>4, <1>3, <1>4
    <3>2. CASE k \in 1..Len(log)
      <4>1. log[j][1] <= log[k][1] /\ (Newline(log[j]) => log[j][1] < log[k][1])
        BY <3>1, <3>2, <2>1 DEF TypeInv, FilesInv, IsLog, InOrder
      <4> QED
        BY <3>1, <3>2, <4>1, <1>3
    <3>3. CASE k = Len(log) + 1
      BY <3>1, <3>3, <1>3 DEF Grows
    <3> QED
      BY <3>2, <3>3, <1>1, <1>3
  <2>2. ASSUME NEW j \in 2..Len(log'), log'[j][2] = 1
        PROVE  Newline(log[j - 1])'
    <3>4. j \in 2..(Len(log) + 1)
      BY <1>3
    <3>1. j - 1 \in 1..Len(log)
      BY <3>4, <1>1
    <3>2. CASE j \in 2..Len(log)
      <4>3. j \in 1..Len(log)
        BY <3>2, <1>1
      <4>4. log'[j] = log[j]
        BY <4>3, <1>3
      <4>1. log[j][2] = 1 /\ j \in 1..Len(log)
        BY <4>3, <4>4, <2>2
      <4>2. Newline(log[j - 1])
        BY <3>2, <4>1 DEF TypeInv, FilesInv, IsLog, InOrder
      <4> QED
        BY <3>1, <4>2, <1>4
    <3>3. CASE j = Len(log) + 1
      <4>1. c[2] = 1 /\ log # <<>> /\ j - 1 = Len(log)
        BY <3>1, <3>3, <2>2, <1>1, <1>3
      <4>2. Newline(log[Len(log)])
        BY <4>1 DEF Grows
      <4> QED
        BY <3>1, <4>1, <4>2, <1>4
    <3> QED
      BY <3>2, <3>3, <1>1, <1>3
  <2> QED
    BY <2>1, <2>2 DEF InOrder
<1>7. Passed(log, 0)' = Passed(log, 0)
  <2>1. CASE log = <<>>
    <3>1. c[1] = Len(kind) + 1 /\ log' # <<>> /\ log'[1] = c /\ Len(log) = 0
      BY <2>1, <1>1, <1>2, <1>3 DEF Grows
    <3> QED
      BY <2>1, <3>1, <1>1, <1>3 DEF Passed
  <2>2. CASE log # <<>>
    <3>1. log' # <<>> /\ log'[1] = log[1]
      BY <2>2, <1>1, <1>3
    <3> QED
      BY <2>2, <3>1, <1>1, <1>3 DEF Passed
  <2> QED
    BY <2>1, <2>2
<1>8. ASSUME NEW o \in Nat PROVE Passed(log, o) <= Passed(log, o)'
  <2>1. CASE o \in 1..Len(log)
    <3>2. log'[o] = log[o] /\ log[o][1] \in 1..Len(kind)
      BY <2>1, <1>3, <1>9
    <3>3. o \in 1..(Len(log) + 1)
      BY <2>1, <1>1
    <3>1. log'[o] = log[o] /\ o \in 1..Len(log') /\ log[o][1] \in Nat
      BY <3>2, <3>3, <1>1, <1>3
    <3> QED
      BY <2>1, <3>1 DEF Passed
  <2>2. CASE o \notin 1..Len(log)
    <3>1. Passed(log, o) = Passed(log, 0) /\ Passed(log, 0) \in Nat
      <4>1. Passed(log, o) = Passed(log, 0)
        BY <2>2, <1>1 DEF Passed
      <4>2. IsLog(log)
        BY DEF TypeInv, FilesInv
      <4> QED
        BY <4>1, <4>2, <1>1, PassedBounds
    <3>2. CASE o = Len(log) + 1
      <4>1. Passed(log, o)' = c[1] /\ c[1] \in Nat
        BY <3>2, <1>1, <1>2, <1>3 DEF Passed
      <4>2. CASE log = <<>>
        BY <4>1, <4>2, <3>1, <1>1 DEF Passed, Grows
      <4>3. CASE log # <<>>
        <5>1. 1 \in 1..Len(log) /\ log[1][1] \in Nat
          BY <4>3, <1>1, <1>9
        <5>2. log[1][1] <= c[1]
          BY <5>1 DEF Grows
        <5>3. Passed(log, 0) = log[1][1] - 1
          BY <4>3, <1>1 DEF Passed
        <5> QED
          BY <5>1, <5>2, <5>3, <4>1, <3>1
      <4> QED
        BY <4>2, <4>3
    <3>3. CASE o # Len(log) + 1
      <4>1. Passed(log, o)' = Passed(log, 0)'
        BY <2>2, <3>3, <1>1, <1>3 DEF Passed
      <4> QED
        BY <4>1, <3>1, <1>7
    <3> QED
      BY <3>2, <3>3
  <2> QED
    BY <2>1, <2>2
<1> QED
  BY <1>3, <1>5, <1>6, <1>7, <1>8 DEF IsLog

\* The detached file stays what it is.
LEMMA OldStays ==
  ASSUME TypeInv, NEW c, Grows(c), old' = old
  PROVE  /\ IsLog(old)'
         /\ old # <<>> => \A o \in Nat : Passed(old, o)' = Passed(old, o)
<1>1. /\ kind \in Seq(Kinds) /\ Len(kind) \in Nat
      /\ old \in Seq(Nat \X Nat) /\ Len(old) \in Nat
  BY SMTT(30) DEF TypeInv, TypeOK, FilesInv, IsLog
<1>2. \A j \in 1..Len(old) : /\ old[j][1] \in 1..Len(kind)
                             /\ old[j][2] \in 1..Width[kind[old[j][1]]]
  BY DEF TypeInv, FilesInv, IsLog, Cells
<1>3. /\ kind' \in Seq(Kinds) /\ Len(kind') \in Nat /\ Len(kind) <= Len(kind')
      /\ \A l \in 1..Len(kind) : kind'[l] = kind[l]
  BY DEF Grows
<1>4. \A j \in 1..Len(old) : Newline(old[j])' <=> Newline(old[j])
  BY <1>2, <1>3 DEF Newline
<1>5. Cells(old)'
  <2> SUFFICES ASSUME NEW j \in 1..Len(old)
               PROVE  old[j][1] \in 1..Len(kind') /\ old[j][2] \in 1..Width[kind'[old[j][1]]]
    BY DEF Cells
  <2> QED
    BY <1>1, <1>2, <1>3, SMTT(30)
<1>6. InOrder(old)'
  <2>1. InOrder(old)
    BY DEF TypeInv, FilesInv, IsLog
  <2>2. \A j \in 2..Len(old) : j - 1 \in 1..Len(old)
    BY <1>1
  <2> QED
    BY <2>1, <2>2, <1>4 DEF InOrder
<1> QED
  BY <1>1, <1>5, <1>6 DEF IsLog, Passed

LEMMA Typed ==
  ASSUME TypeInv
  PROVE  /\ kind \in Seq(Kinds) /\ Len(kind) \in Nat /\ MaxLines \in Nat /\ Len(kind) <= MaxLines
         /\ IsLog(log) /\ IsLog(old) /\ Len(log) \in Nat /\ Len(old) \in Nat
         /\ cur \in [offset : Nat, sequence : Nat] /\ cursor \in [offset : Nat, sequence : Nat]
         /\ cur.offset \in Nat /\ cursor.offset \in Nat
         /\ cur.sequence \in Nat /\ cursor.sequence \in Nat
         /\ chain \in Seq([seq : 1..MaxLines, line : 1..Len(kind)]) /\ Len(chain) \in Nat
         /\ forgotten \in 0..Len(chain) /\ line \in 0..Len(kind) /\ next \in Nat
         /\ File \in {log, old} /\ IsLog(File) /\ Len(File) \in Nat
<1>1. /\ kind \in Seq(Kinds) /\ Len(kind) <= MaxLines /\ MaxLines \in Nat
      /\ chain \in Seq([seq : 1..MaxLines, line : 1..Len(kind)])
      /\ forgotten \in 0..Len(chain) /\ line \in 0..Len(kind) /\ next \in Nat
  BY EdgeTailAssumption DEF TypeInv, TypeOK
<1>2. /\ cur \in [offset : Nat, sequence : 0..MaxLines]
      /\ cursor \in [offset : Nat, sequence : 0..MaxLines]
  BY DEF TypeInv, TypeOK
<1>3. IsLog(log) /\ IsLog(old) /\ Len(log) \in Nat /\ Len(old) \in Nat
  BY DEF TypeInv, FilesInv, IsLog
<1>4. Len(kind) \in Nat /\ Len(chain) \in Nat
  BY <1>1
<1> QED
  BY <1>1, <1>2, <1>3, <1>4 DEF File

LEMMA SeqWiden ==
  ASSUME NEW S, NEW T, S \subseteq T, NEW s \in Seq(S)
  PROVE  s \in Seq(T)
  OBVIOUS

LEMMA GrowType ==
  ASSUME TypeInv, NEW k \in Kinds, BeginsLine(k) \/ ContinuesLine
  PROVE  TypeInv'
<1>1. PICK c \in Nat \X Nat : Grows(c)
  BY EdgeGrows
<1>2. UNCHANGED <<faults, cur, cursor, run, ingest, history>>
  BY DEF BeginsLine, ContinuesLine
<1>3. old' = old /\ detached' = detached /\ File' = (IF detached THEN old ELSE log')
  BY <1>2 DEF run, File
<1>4. /\ IsLog(log)' /\ Passed(log, 0)' = Passed(log, 0)
      /\ \A o \in Nat : Passed(log, o) <= Passed(log, o)'
  BY <1>1, LogGrows
<1>5. IsLog(old)' /\ (old # <<>> => \A o \in Nat : Passed(old, o)' = Passed(old, o))
  BY <1>1, <1>3, OldStays
<1>6. kind' \in Seq(Kinds) /\ Len(kind') <= MaxLines /\ Len(kind) <= Len(kind') /\ Len(kind') \in Nat
  BY <1>1 DEF Grows
<1>7. TypeOK'
  <2>1. chain \in Seq([seq : 1..MaxLines, line : 1..Len(kind')])
    <3>1. [seq : 1..MaxLines, line : 1..Len(kind)] \subseteq [seq : 1..MaxLines, line : 1..Len(kind')]
      <4>1. 1..Len(kind) \subseteq 1..Len(kind')
        BY <1>6, Typed, SMTT(30)
      <4> QED
        BY <4>1
    <3>2. chain \in Seq([seq : 1..MaxLines, line : 1..Len(kind)])
      BY Typed
    <3> QED
      BY <3>1, <3>2, SeqWiden
  <2>2. line' \in 0..Len(kind')
    BY <1>2, <1>6, Typed, SMTT(30) DEF run
  <2> QED
    BY <1>2, <1>4, <1>5, <1>6, <2>1, <2>2 DEF TypeInv, TypeOK, IsLog, run, ingest, history
<1>8. FilesInv'
  BY <1>2, <1>3, <1>4, <1>5 DEF TypeInv, FilesInv, run
<1>9. PaceInv'
  <2>1. PaceInv /\ FilesInv
    BY DEF TypeInv
  <2>2. \A o \in Nat : Passed(File, o) <= Passed(File, o)'
    <3>1. CASE detached
      <4>1. old # <<>> /\ File = old /\ File' = old
        BY <3>1, <2>1, <1>3 DEF FilesInv, File
      <4>2. \A o \in Nat : Passed(old, o) \in Nat
        BY Typed, PassedBounds
      <4> QED
        BY <4>1, <4>2, <1>3, <1>5, <3>1 DEF File
    <3>2. CASE ~detached
      BY <3>2, <1>3, <1>4 DEF File
    <3> QED
      BY <3>1, <3>2
  <2>3. \A o \in Nat : /\ Passed(File, o) \in Nat /\ Passed(log, o) \in Nat
    BY Typed, PassedBounds
  <2>4. \A o \in Nat : /\ Passed(File, o)' \in Nat /\ Passed(log, o)' \in Nat
    <3>1. \A f : f \in {log', old'} => \A j \in 1..Len(f) : f[j][1] \in 1..Len(kind')
      BY <1>4, <1>5 DEF IsLog, Cells
    <3>2. File' \in {log', old'} /\ Len(log') \in Nat /\ Len(old') \in Nat
      BY <1>3, <1>4, <1>5 DEF IsLog
    <3>3. (log' # <<>> => 1 \in 1..Len(log')) /\ (old' # <<>> => 1 \in 1..Len(old'))
      BY <1>4, <1>5 DEF IsLog
    <3> QED
      BY <3>1, <3>2, <3>3, <1>6, SMTT(30) DEF Passed
  <2>5. /\ chain' = chain /\ cur' = cur /\ cursor' = cursor /\ pc' = pc /\ line' = line /\ next' = next
        /\ Running' = Running
    BY <1>2 DEF run, ingest, Running
  <2>6. /\ cursor.sequence <= Passed(log, cursor.offset) /\ cur.sequence <= Passed(log, cur.offset)
        /\ cur.sequence <= Passed(File, cur.offset)
        /\ Running => cur.sequence < line /\ line <= Passed(File, next)
    BY <2>1 DEF PaceInv
  <2>7. /\ cur.offset \in Nat /\ cursor.offset \in Nat /\ next \in Nat /\ line \in Nat
        /\ cur.sequence \in Nat /\ cursor.sequence \in Nat
    BY Typed
  <2>8. /\ cursor.sequence <= Passed(log, cursor.offset)' /\ cur.sequence <= Passed(log, cur.offset)'
        /\ cur.sequence <= Passed(File, cur.offset)'
        /\ Running => line <= Passed(File, next)'
    <3> DEFINE a(o) == Passed(log, o)
               b(o) == Passed(log, o)'
               d(o) == Passed(File, o)
               e(o) == Passed(File, o)'
    <3>1. \A o \in Nat : /\ a(o) <= b(o) /\ d(o) <= e(o)
                         /\ a(o) \in Nat /\ b(o) \in Nat /\ d(o) \in Nat /\ e(o) \in Nat
      BY <1>4, <2>2, <2>3, <2>4
    <3>2. /\ b(cursor.offset) = Passed(log, cursor.offset)' /\ b(cur.offset) = Passed(log, cur.offset)'
          /\ e(cur.offset) = Passed(File, cur.offset)' /\ e(next) = Passed(File, next)'
      BY <2>5
    <3>3. /\ cursor.sequence <= a(cursor.offset) /\ cur.sequence <= a(cur.offset)
          /\ cur.sequence <= d(cur.offset)
          /\ Running => line <= d(next)
      BY <2>6
    <3> HIDE DEF a, b, d, e
    <3>4. /\ cursor.sequence <= b(cursor.offset) /\ cur.sequence <= b(cur.offset)
          /\ cur.sequence <= e(cur.offset)
          /\ Running => line <= e(next)
      BY <3>1, <3>3, <2>7
    <3> QED
      BY <3>2, <3>4
  <2> QED
    BY <2>1, <2>5, <2>6, <2>8 DEF PaceInv
<1>10. Len(chain') <= Len(kind')
  BY <1>2, <1>6, Typed DEF TypeInv, ingest
<1> QED
  BY <1>7, <1>8, <1>9, <1>10 DEF TypeInv

LEMMA TypeInit == Init => TypeInv
<1> SUFFICES ASSUME Init PROVE TypeInv
  OBVIOUS
<1>1. TypeOK
  <2>1. /\ MaxLines \in Nat /\ MaxRotations \in Nat /\ MaxRestarts \in Nat
        /\ kind = <<>> /\ chain = <<>> /\ Len(kind) = 0 /\ Len(chain) = 0
    BY EdgeTailAssumption DEF Init
  <2>2. kind \in Seq(Kinds) /\ chain \in Seq([seq : 1..MaxLines, line : 1..Len(kind)])
    BY <2>1
  <2>3. Cells(log) /\ Cells(old)
    BY DEF Init, Cells
  <2>4. Genesis \in [offset : Nat, sequence : 0..MaxLines]
    BY <2>1 DEF Genesis
  <2>5. /\ faults \in Environments /\ pc = "idle" /\ detached = FALSE /\ stale = {}
        /\ line = 0 /\ next = 0 /\ forgotten = 0 /\ rotations = 0 /\ restarts = 0
        /\ cur = Genesis /\ cursor = Genesis
    BY DEF Init, NoLine
  <2>6. /\ Len(kind) <= MaxLines /\ line \in 0..Len(kind) /\ next \in Nat
        /\ forgotten \in 0..Len(chain) /\ rotations \in 0..MaxRotations
        /\ restarts \in 0..MaxRestarts
    BY <2>1, <2>5
  <2> QED
    BY <2>2, <2>3, <2>4, <2>5, <2>6 DEF TypeOK
<1>2. FilesInv
  BY DEF Init, FilesInv, IsLog, Cells, InOrder, Passed
<1>3. PaceInv
  BY DEF Init, PaceInv, Genesis, Passed, File, Running
<1> QED
  BY <1>1, <1>2, <1>3 DEF TypeInv, Init

\* The log stays, and the run goes on in its file or returns.
LEMMA FilesStay ==
  ASSUME TypeInv, UNCHANGED <<faults, edge>>,
         \/ UNCHANGED <<old, detached>> /\ (pc' = pc \/ pc' # "idle")
         \/ Returns
  PROVE  /\ FilesInv'
         /\ Cells(log)' /\ Cells(old)'
         /\ \A f : \A o \in Nat : Passed(f, o)' = Passed(f, o)
         /\ File' \in {File, log}
         /\ UNCHANGED <<old, detached>> => File' = File
         /\ Returns => File' = log
<1>1. kind' = kind /\ log' = log
  BY DEF edge
<1>2. \A f : IsLog(f)' <=> IsLog(f)
  BY <1>1 DEF IsLog, Cells, InOrder, Newline
<1>3. \A f : \A o \in Nat : Passed(f, o)' = Passed(f, o)
  BY <1>1 DEF Passed
<1>4. Passed(log, 0)' = Passed(log, 0)
  BY <1>1 DEF Passed
<1>5. FilesInv
  BY DEF TypeInv
<1>6. CASE UNCHANGED <<old, detached>> /\ (pc' = pc \/ pc' # "idle")
  <2>1. IsLog(log)' /\ IsLog(old)'
    BY <1>1, <1>5, <1>6 DEF FilesInv, IsLog, Cells, InOrder, Newline
  <2>2. FilesInv'
    BY <1>4, <1>5, <1>6, <2>1 DEF FilesInv
  <2>3. File' = File
    BY <1>1, <1>6 DEF File
  <2>4. Returns => File' = log
    BY <1>1 DEF Returns, File
  <2> QED
    BY <1>3, <2>1, <2>2, <2>3, <2>4 DEF IsLog
<1>7. CASE Returns
  <2>1. IsLog(log)'
    BY <1>1, <1>5 DEF FilesInv, IsLog, Cells, InOrder, Newline
  <2>2. old' = <<>> /\ detached' = FALSE
    BY <1>7 DEF Returns
  <2>3. IsLog(old)'
    BY <2>2 DEF IsLog, Cells, InOrder
  <2>4. FilesInv'
    BY <2>1, <2>2, <2>3 DEF FilesInv
  <2>5. File' = log
    BY <1>1, <2>2 DEF File
  <2>6. UNCHANGED <<old, detached>> => File' = File
    BY <1>1 DEF File
  <2> QED
    BY <1>3, <2>1, <2>3, <2>4, <2>5, <2>6 DEF IsLog
<1> QED
  BY <1>6, <1>7

\* Whatever the file: the sequence is not past the first line of the log when
\* the run has another one open.
LEMMA Paced ==
  ASSUME TypeInv
  PROVE  /\ \A o \in Nat : /\ Passed(log, o) \in Nat /\ Passed(File, o) \in Nat
                           /\ Passed(log, 0) <= Passed(log, o)
         /\ \A o \in Nat : detached => Passed(File, o) <= Passed(log, 0)
         /\ \A o, p \in Nat : o <= p /\ p <= Len(File) => Passed(File, o) <= Passed(File, p)
<1>1. \A o \in Nat : /\ Passed(log, o) \in Nat /\ Passed(File, o) \in Nat
                     /\ Passed(log, 0) <= Passed(log, o)
  BY Typed, PassedBounds
<1>2. ASSUME NEW o \in Nat, detached PROVE Passed(File, o) <= Passed(log, 0)
  <2>1. File = old /\ old # <<>> /\ \A j \in 1..Len(old) : old[j][1] <= Passed(log, 0)
    BY <1>2 DEF TypeInv, FilesInv, File
  <2>2. 1 \in 1..Len(old)
    BY <2>1, Typed DEF IsLog
  <2>3. \A j \in 1..Len(old) : old[j][1] \in Nat
    <3>1. Cells(old) /\ Len(kind) \in Nat
      BY Typed DEF IsLog
    <3> QED
      BY <3>1 DEF Cells
  <2>4. Passed(log, 0) \in Nat
    BY <1>1
  <2> QED
    BY <2>1, <2>2, <2>3, <2>4 DEF Passed
<1>3. \A o, p \in Nat : o <= p /\ p <= Len(File) => Passed(File, o) <= Passed(File, p)
  BY Typed, PassedOn
<1> QED
  BY <1>1, <1>2, <1>3

\* A step that is not the edge's keeps the types if it keeps the pace.
PaceNext ==
  /\ cursor'.sequence <= cur'.sequence /\ cur'.sequence <= Len(chain')
  /\ pc' = "advance" => cur'.sequence < Len(chain')
  /\ cursor'.sequence <= Passed(log, cursor'.offset)
  /\ cur'.sequence <= Passed(log, cur'.offset)
  /\ cur'.sequence <= Passed(File', cur'.offset)
  /\ pc' \in {"publish", "advance"} => cur'.sequence < line' /\ line' <= Passed(File', next')

LEMMA StepType ==
  ASSUME TypeInv, UNCHANGED <<faults, edge>>,
         \/ UNCHANGED <<old, detached>> /\ (pc' = pc \/ pc' # "idle")
         \/ Returns,
         cur' \in [offset : Nat, sequence : Nat], cursor' \in [offset : Nat, sequence : Nat],
         pc' \in {"idle", "read", "publish", "advance"}, stale' \subseteq {"cur", "cursor"},
         line' \in 0..Len(kind), next' \in Nat, forgotten' \in 0..Len(chain'),
         chain' \in Seq([seq : 1..MaxLines, line : 1..Len(kind)]), Len(chain') <= Len(kind),
         \A i \in 1..Len(chain') : chain'[i].seq = i,
         rotations' \in 0..MaxRotations, restarts' \in 0..MaxRestarts,
         PaceNext
  PROVE  TypeInv'
<1>1. kind' = kind /\ log' = log /\ faults' = faults
  BY DEF edge
<1>2. FilesInv' /\ Cells(log)' /\ Cells(old)' /\ \A f : \A o \in Nat : Passed(f, o)' = Passed(f, o)
  BY FilesStay
<1>3. /\ cur'.offset \in Nat /\ cursor'.offset \in Nat
      /\ cur'.sequence \in Nat /\ cursor'.sequence \in Nat /\ Len(chain') \in Nat
      /\ Len(kind) \in Nat /\ MaxLines \in Nat /\ Len(kind) <= MaxLines
  BY Typed
<1>4. cur'.sequence \in 0..MaxLines /\ cursor'.sequence \in 0..MaxLines
  BY <1>3 DEF PaceNext
<1>5. /\ cur' \in [offset : Nat, sequence : 0..MaxLines]
      /\ cursor' \in [offset : Nat, sequence : 0..MaxLines]
  BY <1>4
<1>6. detached' \in BOOLEAN
  BY DEF TypeInv, TypeOK, Returns
<1>7. TypeOK'
  BY <1>1, <1>2, <1>5, <1>6 DEF TypeInv, TypeOK
<1>8. PaceInv'
  BY <1>1 DEF PaceInv, PaceNext, Running, Passed
<1> QED
  BY <1>1, <1>2, <1>7, <1>8 DEF TypeInv

-----------------------------------------------------------------------------
(* The steps of the tailer keep the types. *)

LEMMA FirstEnd ==
  ASSUME TypeInv, LineEnds # {}
  PROVE  /\ NextEnd \in LineEnds /\ NextEnd \in Nat
         /\ cur.offset + 1 <= NextEnd /\ NextEnd <= Len(File)
         /\ cur.offset < NextEnd
         /\ Newline(File[NextEnd])
         /\ \A j \in Nat : cur.offset < j /\ j < NextEnd => ~Newline(File[j])
<1>1. LineEnds \in SUBSET Nat
  BY Typed, SMTT(30) DEF LineEnds
<1>2. PICK x \in LineEnds : \A y \in LineEnds : ~ (<<y, x>> \in OpToRel(<, Nat))
  BY <1>1, NatLessThanWellFounded, WFMin
<1>8. \A y \in LineEnds : ~(y < x)
  BY <1>1, <1>2 DEF OpToRel
<1>3. \A y \in LineEnds : x <= y
  BY <1>1, <1>8
<1>4. NextEnd \in LineEnds /\ \A j \in LineEnds : NextEnd <= j
  BY <1>3 DEF NextEnd
<1>5. NextEnd \in (cur.offset + 1)..Len(File) /\ Newline(File[NextEnd])
  BY <1>4 DEF LineEnds
<1>6. cur.offset \in Nat /\ Len(File) \in Nat
  BY Typed
<1>7. ASSUME NEW j \in Nat, cur.offset < j, j < NextEnd PROVE ~Newline(File[j])
  <2>1. j \in (cur.offset + 1)..Len(File)
    BY <1>5, <1>6, <1>7
  <2>2. j \notin LineEnds
    BY <1>4, <1>5, <1>7
  <2> QED
    BY <2>1, <2>2 DEF LineEnds
<1> QED
  BY <1>4, <1>5, <1>6, <1>7

\* A sequence that has not passed the run's file has not passed the log.
LEMMA PacedInFile ==
  ASSUME TypeInv, NEW n \in Nat, NEW o \in Nat, n <= Passed(File, o)
  PROVE  n <= Passed(log, o)
<1>1. CASE detached
  <2>1. /\ Passed(File, o) <= Passed(log, 0) /\ Passed(log, 0) <= Passed(log, o)
        /\ Passed(File, o) \in Nat /\ Passed(log, 0) \in Nat /\ Passed(log, o) \in Nat
    BY <1>1, Paced
  <2> QED
    BY <2>1
<1>2. CASE ~detached
  BY <1>2 DEF File
<1> QED
  BY <1>1, <1>2

\* RunOnce returns with nothing changed but the ingest.
LEMMA ReturnsType ==
  ASSUME TypeInv, UNCHANGED <<faults, edge, cur, cursor, history>>, Returns,
         forgotten' \in 0..Len(chain'),
         chain' \in Seq([seq : 1..MaxLines, line : 1..Len(kind)]), Len(chain') <= Len(kind),
         \A i \in 1..Len(chain') : chain'[i].seq = i, Len(chain) <= Len(chain')
  PROVE  TypeInv'
<1>1. File' = log
  BY FilesStay
<1>2. /\ cursor.sequence <= cur.sequence /\ cur.sequence <= Len(chain)
      /\ cursor.sequence <= Passed(log, cursor.offset)
      /\ cur.sequence <= Passed(log, cur.offset)
  BY DEF TypeInv, PaceInv
<1>3. cur.sequence <= Len(chain')
  BY <1>2, Typed
<1>4. pc' = "idle" /\ line' = 0 /\ next' = 0
  BY DEF Returns, NoLine
<1>5. PaceNext
  BY <1>1, <1>2, <1>3, <1>4 DEF PaceNext
<1>6. /\ stale' \subseteq {"cur", "cursor"}
      /\ rotations' \in 0..MaxRotations /\ restarts' \in 0..MaxRestarts
  BY DEF TypeInv, TypeOK, history
<1>7. line' \in 0..Len(kind)
  BY <1>4, Typed
<1> QED
  BY <1>4, <1>5, <1>6, <1>7, Typed, StepType

LEMMA OpensType == ASSUME TypeInv, Opens PROVE TypeInv'
<1>1. /\ UNCHANGED <<faults, edge, old, detached, line, next, ingest, rotations, restarts>>
      /\ pc = "idle" /\ pc' = "read"
  BY DEF Opens
<1>2. ~detached /\ File = log /\ File' = log
  BY <1>1, FilesStay DEF TypeInv, FilesInv, File
<1>3. /\ cursor.sequence <= cur.sequence /\ cur.sequence <= Len(chain)
      /\ cursor.sequence <= Passed(log, cursor.offset)
      /\ cur.sequence <= Passed(log, cur.offset)
  BY DEF TypeInv, PaceInv
<1>4. /\ cur' \in [offset : Nat, sequence : Nat] /\ cursor' \in {cursor, cur'}
      /\ cur'.sequence = cur.sequence /\ cur.sequence <= Passed(log, cur'.offset)
      /\ stale' \subseteq {"cur", "cursor"}
  <2>1. CASE Len(log) < cur.offset
    <3>1. cur' = [cur EXCEPT !.offset = 0] /\ cursor' \in {cursor, cur'}
      BY <2>1 DEF Opens, PersistFails
    <3>2. stale' \subseteq {"cur", "cursor"}
      BY <2>1 DEF Opens, TypeInv, TypeOK
    <3>3. Passed(log, cur.offset) = Passed(log, 0)
      BY <2>1, Typed DEF Passed
    <3>4. /\ cur' \in [offset : Nat, sequence : Nat]
          /\ cur'.sequence = cur.sequence /\ cur'.offset = 0
      BY <3>1, Typed
    <3> QED
      BY <3>1, <3>2, <3>3, <3>4, <1>3
  <2>2. CASE ~(Len(log) < cur.offset)
    <3>1. cur' = cur /\ cursor' = cursor /\ stale' = stale \ {"cur"}
      BY <2>2 DEF Opens
    <3> QED
      BY <3>1, <1>3, Typed DEF TypeInv, TypeOK
  <2> QED
    BY <2>1, <2>2
<1>5. cursor' \in [offset : Nat, sequence : Nat]
  BY <1>4, Typed
<1>6. PaceNext
  BY <1>1, <1>2, <1>3, <1>4, Typed DEF PaceNext, ingest
<1>7. \A i \in 1..Len(chain) : chain[i].seq = i
  BY DEF TypeInv, PaceInv
<1>8. Len(chain) <= Len(kind) /\ rotations' \in 0..MaxRotations /\ restarts' \in 0..MaxRestarts
  BY <1>1 DEF TypeInv, TypeOK
<1> QED
  BY <1>1, <1>4, <1>5, <1>6, <1>7, <1>8, Typed, StepType DEF ingest

LEMMA SkipsType == ASSUME TypeInv, SkipsLine PROVE TypeInv'
<1>1. /\ UNCHANGED <<faults, edge, run, ingest, rotations, restarts>>
      /\ pc = "read" /\ LineEnds # {} /\ cur' = [cur EXCEPT !.offset = NextEnd]
      /\ cursor' \in {cursor, cur'} /\ stale' \subseteq {"cur", "cursor"}
  BY DEF SkipsLine, Persisted, PersistFails, TypeInv, TypeOK
<1>2. UNCHANGED <<old, detached, pc, line, next, chain, forgotten>>
  BY <1>1 DEF run, ingest
<1>3. NextEnd \in Nat /\ cur.offset < NextEnd /\ NextEnd <= Len(File)
  BY <1>1, FirstEnd
<1>4. /\ cursor.sequence <= cur.sequence /\ cur.sequence <= Len(chain)
      /\ cursor.sequence <= Passed(log, cursor.offset)
      /\ cur.sequence <= Passed(File, cur.offset)
  BY DEF TypeInv, PaceInv
<1>5. cur'.offset = NextEnd /\ cur'.sequence = cur.sequence /\ cur' \in [offset : Nat, sequence : Nat]
  BY <1>1, <1>3, Typed
<1>6. cur.sequence <= Passed(File, NextEnd)
  <2>2. cur.offset \in Nat /\ NextEnd \in Nat /\ cur.offset <= NextEnd /\ NextEnd <= Len(File)
    BY <1>3, Typed
  <2>3. \A o, p \in Nat : /\ o <= p /\ p <= Len(File) => Passed(File, o) <= Passed(File, p)
                         /\ Passed(File, o) \in Nat
    BY Paced
  <2>1. /\ Passed(File, cur.offset) <= Passed(File, NextEnd)
        /\ Passed(File, cur.offset) \in Nat /\ Passed(File, NextEnd) \in Nat
    BY <2>2, <2>3
  <2> QED
    BY <2>1, <1>4, Typed
<1>7. cur.sequence <= Passed(log, NextEnd)
  BY <1>3, <1>6, Typed, PacedInFile
<1>8. File' = File
  BY <1>1, <1>2, FilesStay
<1>9. PaceNext
  <2>1. cursor'.sequence <= cur'.sequence
    <3>1. CASE cursor' = cursor
      BY <3>1, <1>4, <1>5
    <3>2. CASE cursor' = cur'
      BY <3>2, <1>5, Typed
    <3> QED
      BY <3>1, <3>2, <1>1
  <2>2. cursor'.sequence <= Passed(log, cursor'.offset)
    BY <1>1, <1>4, <1>5, <1>7
  <2>3. /\ cur'.sequence <= Len(chain') /\ pc' = "read"
        /\ cur'.sequence <= Passed(log, cur'.offset)
        /\ cur'.sequence <= Passed(File', cur'.offset)
    BY <1>1, <1>2, <1>4, <1>5, <1>6, <1>7, <1>8
  <2> QED
    BY <2>1, <2>2, <2>3 DEF PaceNext
<1>10. cursor' \in [offset : Nat, sequence : Nat]
  BY <1>1, <1>5, Typed
<1>11. \A i \in 1..Len(chain) : chain[i].seq = i
  BY DEF TypeInv, PaceInv
<1>12. Len(chain) <= Len(kind) /\ rotations' \in 0..MaxRotations /\ restarts' \in 0..MaxRestarts
  BY <1>1 DEF TypeInv, TypeOK
<1> QED
  BY <1>1, <1>2, <1>5, <1>9, <1>10, <1>11, <1>12, Typed, StepType

\* The line that is read, and the offset behind it.
LEMMA FirstLine ==
  ASSUME TypeInv, LineEnds # {}, Converts(cur.offset + 1, NextEnd)
  PROVE  /\ File[cur.offset + 1][1] \in 1..Len(kind)
         /\ cur.sequence < File[cur.offset + 1][1]
         /\ File[cur.offset + 1][1] <= Passed(File, NextEnd)
         /\ File[cur.offset + 1][1] <= File[NextEnd][1] /\ File[NextEnd][1] \in Nat
<1> DEFINE o == cur.offset
<1>1. NextEnd \in Nat /\ o \in Nat /\ o + 1 <= NextEnd /\ NextEnd <= Len(File) /\ Len(File) \in Nat
  BY FirstEnd, Typed
<1>2. o + 1 \in 1..Len(File) /\ NextEnd \in 1..Len(File) /\ o + 1 <= Len(File)
  BY <1>1
<1>3. \A j \in 1..Len(File) : File[j][1] \in 1..Len(kind)
  BY Typed DEF IsLog, Cells
<1>4. Len(kind) \in Nat /\ kind \in Seq(Kinds) /\ IsLog(File)
  BY Typed
<1>5. File[o + 1][2] = 1
  BY DEF Converts
<1>6. Passed(File, o) < File[o + 1][1]
  BY <1>1, <1>2, <1>4, <1>5, PassedBefore
<1>7. cur.sequence <= Passed(File, o) /\ Passed(File, o) \in Nat /\ cur.sequence \in Nat
  BY <1>1, Typed, Paced DEF TypeInv, PaceInv
<1>8. File[o + 1][1] \in 1..Len(kind) /\ File[NextEnd][1] \in 1..Len(kind)
  BY <1>2, <1>3
<1>9. File[o + 1][1] <= File[NextEnd][1]
  <2>1. CASE o + 1 = NextEnd
    BY <2>1, <1>8, <1>4
  <2>2. CASE o + 1 < NextEnd
    BY <2>2, <1>2, <1>4 DEF IsLog, InOrder
  <2> QED
    BY <2>1, <2>2, <1>1
<1>10. Passed(File, NextEnd) = File[NextEnd][1]
  BY <1>2 DEF Passed
<1> HIDE DEF o
<1>11. cur.sequence < File[o + 1][1]
  BY <1>4, <1>6, <1>7, <1>8
<1> QED
  BY <1>4, <1>8, <1>9, <1>10, <1>11 DEF o

LEMMA ReadsType == ASSUME TypeInv, ReadsLine PROVE TypeInv'
<1>1. /\ UNCHANGED <<faults, edge, cur, cursor, old, detached, ingest, history>>
      /\ LineEnds # {} /\ Converts(cur.offset + 1, NextEnd)
      /\ pc = "read" /\ pc' = "publish" /\ line' = File[cur.offset + 1][1] /\ next' = NextEnd
  BY DEF ReadsLine
<1>2. File' = File
  BY <1>1, FilesStay
<1>3. /\ cursor.sequence <= cur.sequence /\ cur.sequence <= Len(chain)
      /\ cursor.sequence <= Passed(log, cursor.offset)
      /\ cur.sequence <= Passed(log, cur.offset)
      /\ cur.sequence <= Passed(File, cur.offset)
  BY DEF TypeInv, PaceInv
<1>4. line' \in 1..Len(kind) /\ cur.sequence < line' /\ line' <= Passed(File, next')
  BY <1>1, FirstLine
<1>5. PaceNext
  BY <1>1, <1>2, <1>3, <1>4, Typed DEF PaceNext, ingest
<1>6. \A i \in 1..Len(chain) : chain[i].seq = i
  BY DEF TypeInv, PaceInv
<1>7. /\ Len(chain) <= Len(kind) /\ rotations' \in 0..MaxRotations /\ restarts' \in 0..MaxRestarts
      /\ stale' \subseteq {"cur", "cursor"}
  BY <1>1 DEF TypeInv, TypeOK, history
<1>8. line' \in 0..Len(kind) /\ next' \in Nat
  BY <1>1, <1>4, Typed, FirstEnd, SMTT(30)
<1> QED
  BY <1>1, <1>5, <1>6, <1>7, <1>8, Typed, StepType DEF ingest

\* An admission repeats the record of its sequence or continues the chain.
LEMMA AdmitFacts ==
  ASSUME TypeInv, pc = "publish", Admits
  PROVE  /\ chain' \in Seq([seq : 1..MaxLines, line : 1..Len(kind)])
         /\ Len(chain') \in Nat /\ Len(chain) <= Len(chain') /\ Len(chain') <= Len(kind)
         /\ \A i \in 1..Len(chain') : chain'[i].seq = i
         /\ \A i \in 1..Len(chain) : chain'[i] = chain[i]
         /\ cur.sequence < Len(chain') /\ forgotten' = forgotten /\ forgotten' \in 0..Len(chain')
         /\ \/ chain' = chain
            \/ /\ cur.sequence = Len(chain) /\ Len(chain') = Len(chain) + 1
               /\ chain'[Len(chain) + 1].line = line /\ kind[line] # "deny"
<1>1. /\ \A i \in 1..Len(chain) : chain[i].seq = i
      /\ cur.sequence <= Len(chain) /\ cur.sequence < line
  BY DEF TypeInv, PaceInv, Running
<1>2. /\ chain \in Seq([seq : 1..MaxLines, line : 1..Len(kind)]) /\ Len(chain) \in Nat
      /\ forgotten \in 0..Len(chain) /\ line \in 0..Len(kind) /\ cur.sequence \in Nat
      /\ Len(kind) \in Nat /\ MaxLines \in Nat /\ Len(kind) <= MaxLines /\ Len(chain) <= Len(kind)
  BY Typed DEF TypeInv
<1>3. kind[line] # "deny" /\ forgotten' = forgotten
  BY DEF Admits
<1>4. CASE Seen(Minted) /\ chain' = chain
  <2>1. PICK i \in (forgotten + 1)..Len(chain) : chain[i].seq = cur.sequence + 1
    BY <1>4 DEF Seen, Minted
  <2>2. i \in 1..Len(chain)
    BY <1>2
  <2>3. cur.sequence < Len(chain)
    BY <1>1, <1>2, <2>1, <2>2
  <2> QED
    BY <1>1, <1>2, <1>3, <1>4, <2>3
<1>5. CASE Minted > Last /\ chain' = Append(chain, [seq |-> Minted, line |-> line])
  <2>1. Last = Len(chain)
    <3>1. CASE chain = <<>>
      BY <3>1 DEF Last
    <3>2. CASE chain # <<>>
      <4>1. Len(chain) \in 1..Len(chain)
        BY <3>2, <1>2
      <4> QED
        BY <3>2, <4>1, <1>1 DEF Last
    <3> QED
      BY <3>1, <3>2
  <2>2. cur.sequence = Len(chain) /\ Minted = Len(chain) + 1
    BY <2>1, <1>1, <1>2, <1>5 DEF Minted
  <2> DEFINE rec == [seq |-> Minted, line |-> line]
  <2>3. line \in 1..Len(kind) /\ Minted \in 1..MaxLines
    BY <2>2, <1>1, <1>2
  <2>4. rec \in [seq : 1..MaxLines, line : 1..Len(kind)] /\ rec.seq = Minted /\ rec.line = line
    BY <2>3
  <2> HIDE DEF rec
  <2>5. /\ chain' \in Seq([seq : 1..MaxLines, line : 1..Len(kind)])
        /\ Len(chain') = Len(chain) + 1 /\ chain'[Len(chain) + 1] = rec
        /\ \A i \in 1..Len(chain) : chain'[i] = chain[i]
    BY <2>4, <1>2, <1>5 DEF rec
  <2>6. \A i \in 1..Len(chain') : chain'[i].seq = i
    <3> SUFFICES ASSUME NEW i \in 1..Len(chain') PROVE chain'[i].seq = i
      OBVIOUS
    <3>1. i \in 1..(Len(chain) + 1)
      BY <2>5
    <3>2. CASE i \in 1..Len(chain)
      BY <3>2, <2>5, <1>1
    <3>3. CASE i = Len(chain) + 1
      BY <3>3, <2>2, <2>4, <2>5
    <3> QED
      BY <3>1, <3>2, <3>3, <1>2
  <2>7. Len(chain') <= Len(kind)
    BY <2>2, <2>5, <1>1, <1>2
  <2>8. forgotten' \in 0..Len(chain') /\ cur.sequence < Len(chain') /\ Len(chain') \in Nat
    BY <2>2, <2>5, <1>2, <1>3
  <2> QED
    BY <2>2, <2>4, <2>5, <2>6, <2>7, <2>8, <1>2, <1>3
<1> QED
  BY <1>4, <1>5 DEF Admits

LEMMA PublishType == ASSUME TypeInv, Publish PROVE TypeInv'
<1>1. CASE Refused
  <2>1. /\ Returns /\ UNCHANGED <<faults, edge, cur, cursor, history>>
        /\ chain' = chain /\ forgotten' = forgotten
    BY <1>1 DEF Refused, ingest
  <2>2. /\ \A i \in 1..Len(chain) : chain[i].seq = i
        /\ Len(chain) <= Len(kind)
    BY DEF TypeInv, PaceInv
  <2> QED
    BY <2>1, <2>2, Typed, ReturnsType
<1>2. CASE Acknowledged
  <2>1. /\ UNCHANGED <<faults, edge, cur, cursor, old, detached, line, next, history>>
        /\ pc = "publish" /\ pc' = "advance" /\ Admits
    BY <1>2 DEF Acknowledged
  <2>2. File' = File
    BY <2>1, FilesStay
  <2>3. /\ cursor.sequence <= cur.sequence
        /\ cursor.sequence <= Passed(log, cursor.offset)
        /\ cur.sequence <= Passed(log, cur.offset)
        /\ cur.sequence <= Passed(File, cur.offset)
        /\ cur.sequence < line /\ line <= Passed(File, next)
    BY <2>1 DEF TypeInv, PaceInv, Running
  <2>4. cur.sequence < Len(chain') /\ cur.sequence <= Len(chain')
    BY <2>1, AdmitFacts, Typed
  <2>5. PaceNext
    BY <2>1, <2>2, <2>3, <2>4 DEF PaceNext
  <2>6. /\ rotations' \in 0..MaxRotations /\ restarts' \in 0..MaxRestarts
        /\ stale' \subseteq {"cur", "cursor"}
    BY <2>1 DEF TypeInv, TypeOK, history
  <2> QED
    BY <2>1, <2>5, <2>6, AdmitFacts, Typed, StepType
<1>3. CASE AnswerLost
  <2>1. /\ Returns /\ UNCHANGED <<faults, edge, cur, cursor, history>>
        /\ pc = "publish" /\ Admits
    BY <1>3 DEF AnswerLost
  <2> QED
    BY <2>1, AdmitFacts, ReturnsType
<1> QED
  BY <1>1, <1>2, <1>3 DEF Publish

LEMMA AdvancesType == ASSUME TypeInv, Advances PROVE TypeInv'
<1>1. /\ UNCHANGED <<faults, edge, ingest, rotations, restarts>>
      /\ pc = "advance" /\ cur' = [offset |-> next, sequence |-> cur.sequence + 1]
      /\ cursor' \in {cursor, cur'} /\ stale' \subseteq {"cur", "cursor"}
      /\ \/ /\ pc' = "read" /\ line' = NoLine /\ next' = 0
            /\ UNCHANGED <<old, detached>>
         \/ Returns
  BY DEF Advances, Persisted, PersistFails, TypeInv, TypeOK
<1>2. chain' = chain /\ forgotten' = forgotten
  BY <1>1 DEF ingest
<1>3. /\ cur'.offset = next /\ cur'.sequence = cur.sequence + 1
      /\ cur' \in [offset : Nat, sequence : Nat]
  BY <1>1, Typed
<1>4. /\ cursor.sequence <= cur.sequence /\ cur.sequence < Len(chain)
      /\ cursor.sequence <= Passed(log, cursor.offset)
      /\ cur.sequence < line /\ line <= Passed(File, next)
  BY <1>1 DEF TypeInv, PaceInv, Running
<1>5. cur.sequence + 1 <= Passed(File, next) /\ cur.sequence + 1 <= Len(chain)
  <2>1. Passed(File, next) \in Nat
    BY Typed, Paced
  <2> QED
    BY <2>1, <1>4, Typed, SMTT(30)
<1>6. cur.sequence + 1 <= Passed(log, next)
  BY <1>5, Typed, PacedInFile
<1>7. pc' \in {"read", "idle"} /\ line' = 0 /\ next' = 0
  BY <1>1 DEF Returns, NoLine
<1>8. File' \in {File, log}
  BY <1>1, FilesStay
<1>9. cursor' \in [offset : Nat, sequence : Nat]
  BY <1>1, <1>3, Typed
<1>10. PaceNext
  <2>1. cursor'.sequence <= cur'.sequence
    <3>1. cursor' = cursor \/ cursor' = cur'
      BY <1>1
    <3>2. cursor.sequence \in Nat /\ cur.sequence \in Nat
      BY Typed
    <3> QED
      BY ONLY <3>1, <3>2, <1>3, <1>4
  <2>2. cursor'.sequence <= Passed(log, cursor'.offset)
    BY <1>1, <1>3, <1>4, <1>6
  <2>3. cur'.sequence <= Passed(log, cur'.offset) /\ cur'.sequence <= Passed(File', cur'.offset)
    BY <1>3, <1>5, <1>6, <1>8
  <2>4. cur'.sequence <= Len(chain')
    BY <1>2, <1>3, <1>5
  <2> QED
    BY <2>1, <2>2, <2>3, <2>4, <1>7 DEF PaceNext
<1>11. \A i \in 1..Len(chain) : chain[i].seq = i
  BY DEF TypeInv, PaceInv
<1>12. Len(chain) <= Len(kind) /\ rotations' \in 0..MaxRotations /\ restarts' \in 0..MaxRestarts
  BY <1>1 DEF TypeInv, TypeOK
<1>13. line' \in 0..Len(kind) /\ next' \in Nat
  BY <1>7, Typed
<1>14. \/ UNCHANGED <<old, detached>> /\ (pc' = pc \/ pc' # "idle")
       \/ Returns
  BY <1>1
<1> QED
  BY <1>1, <1>2, <1>3, <1>7, <1>9, <1>10, <1>11, <1>12, <1>13, <1>14, Typed, StepType

LEMMA RestartsType == ASSUME TypeInv, Restarts PROVE TypeInv'
<1>1. /\ UNCHANGED <<faults, edge, ingest, rotations>>
      /\ restarts < MaxRestarts /\ restarts' = restarts + 1
      /\ cursor' \in {cursor, Genesis} /\ cur' = cursor' /\ stale' \subseteq {"cur", "cursor"}
      /\ Returns
  BY DEF Restarts
<1>2. chain' = chain /\ forgotten' = forgotten /\ pc' = "idle" /\ line' = 0 /\ next' = 0
  BY <1>1 DEF ingest, Returns, NoLine
<1>3. /\ cursor.sequence <= cur.sequence /\ cur.sequence <= Len(chain)
      /\ cursor.sequence <= Passed(log, cursor.offset)
  BY DEF TypeInv, PaceInv
<1>4. File' = log
  BY <1>1, FilesStay
<1>5. /\ cursor' \in [offset : Nat, sequence : Nat]
      /\ cursor'.sequence <= Len(chain) /\ cursor'.sequence <= Passed(log, cursor'.offset)
  <2>1. CASE cursor' = cursor
    BY <2>1, <1>3, Typed
  <2>2. CASE cursor' = Genesis
    <3>1. cursor' \in [offset : Nat, sequence : Nat] /\ cursor'.offset = 0 /\ cursor'.sequence = 0
      BY <2>2 DEF Genesis
    <3>2. Passed(log, 0) \in Nat
      BY Paced
    <3> QED
      BY <3>1, <3>2, Typed
  <2> QED
    BY <1>1, <2>1, <2>2
<1>6. PaceNext
  BY <1>1, <1>2, <1>4, <1>5 DEF PaceNext
<1>7. \A i \in 1..Len(chain) : chain[i].seq = i
  BY DEF TypeInv, PaceInv
<1>8. Len(chain) <= Len(kind) /\ rotations' \in 0..MaxRotations /\ restarts' \in 0..MaxRestarts
  BY <1>1, EdgeTailAssumption DEF TypeInv, TypeOK
<1>9. line' \in 0..Len(kind) /\ next' \in Nat
  BY <1>2, Typed
<1> QED
  BY <1>1, <1>2, <1>5, <1>6, <1>7, <1>8, <1>9, Typed, StepType

LEMMA ForgetsType == ASSUME TypeInv, IngestForgets PROVE TypeInv'
<1>1. /\ UNCHANGED <<faults, edge, cur, cursor, run, chain, history>>
      /\ forgotten' \in (forgotten + 1)..Len(chain)
  BY DEF IngestForgets
<1>2. forgotten' \in 0..Len(chain)
  BY <1>1, Typed
<1>3. UNCHANGED <<kind, log, pc, old, detached, line, next, stale, rotations, restarts, faults>>
  BY <1>1 DEF edge, run, history
<1>4. TypeOK'
  BY <1>1, <1>2, <1>3 DEF TypeInv, TypeOK, Cells
<1>5. FilesInv'
  BY <1>3 DEF TypeInv, FilesInv, IsLog, Cells, InOrder, Newline, Passed
<1>6. PaceInv'
  BY <1>1, <1>3 DEF TypeInv, PaceInv, Running, File, Passed
<1> QED
  BY <1>1, <1>3, <1>4, <1>5, <1>6 DEF TypeInv

LEMMA RotatesType == ASSUME TypeInv, Rotates PROVE TypeInv'
<1>1. /\ UNCHANGED <<faults, kind, cur, cursor, pc, line, next, ingest, restarts>>
      /\ rotations < MaxRotations /\ rotations' = rotations + 1
      /\ Len(log) > 0 /\ log' = <<>> /\ stale' \subseteq {"cur", "cursor"}
      /\ \/ pc # "idle" /\ ~detached /\ detached' = TRUE /\ old' = log
         \/ UNCHANGED <<old, detached>>
  BY DEF Rotates
<1>2. chain' = chain /\ forgotten' = forgotten /\ kind' = kind
  BY <1>1 DEF ingest
<1>3. IsLog(log)'
  BY <1>1 DEF IsLog, Cells, InOrder
<1>4. old' \in {log, old} /\ IsLog(old)'
  BY <1>1 DEF TypeInv, FilesInv, IsLog, Cells, InOrder, Newline
<1>5. detached' \in BOOLEAN /\ (detached' => pc # "idle" /\ old' # <<>>)
  <2>1. log # <<>>
    BY <1>1
  <2>2. detached \in BOOLEAN /\ (detached => pc # "idle" /\ old # <<>>)
    BY DEF TypeInv, TypeOK, FilesInv
  <2>3. CASE UNCHANGED <<old, detached>>
    BY <2>2, <2>3
  <2>4. CASE pc # "idle" /\ detached' = TRUE /\ old' = log
    BY <2>1, <2>4
  <2> QED
    BY <1>1, <2>3, <2>4
<1>6. \A o \in Nat : Passed(log, o)' = Len(kind)
  BY <1>1, <1>2 DEF Passed
<1>7. FilesInv'
  <2>1. \A j \in 1..Len(old') : old'[j][1] <= Len(kind)
    <3>1. Cells(log) /\ Cells(old) /\ Len(kind) \in Nat
      BY Typed DEF IsLog
    <3>2. \A f \in {log, old} : \A j \in 1..Len(f) : f[j][1] <= Len(kind)
      BY <3>1 DEF Cells
    <3> QED
      BY <3>2, <1>4
  <2> QED
    BY <1>1, <1>3, <1>4, <1>5, <1>6, <2>1 DEF FilesInv
<1>8. TypeOK'
  BY <1>1, <1>2, <1>3, <1>4, <1>5, EdgeTailAssumption DEF TypeInv, TypeOK, IsLog
<1>10. \A o \in Nat : Passed(File, o)' \in {Passed(File, o), Len(kind)}
  <2> SUFFICES ASSUME NEW o \in Nat PROVE Passed(File, o)' \in {Passed(File, o), Len(kind)}
    OBVIOUS
  <2>1. CASE detached
    BY <2>1, <1>1, <1>2 DEF File, Passed
  <2>2. CASE ~detached /\ detached' = TRUE
    BY <2>2, <1>1, <1>2 DEF File, Passed
  <2>3. CASE ~detached /\ detached' # TRUE
    <3>1. File' = log' /\ File = log
      BY <2>3, <1>1, <1>5 DEF File
    <3> QED
      BY <3>1, <1>6 DEF Passed
  <2> QED
    BY <2>1, <2>2, <2>3
<1>11. PaceInv'
  <2>1. /\ \A i \in 1..Len(chain) : chain[i].seq = i
        /\ cursor.sequence <= cur.sequence /\ cur.sequence <= Len(chain)
        /\ pc = "advance" => cur.sequence < Len(chain)
        /\ cur.sequence <= Passed(File, cur.offset)
        /\ Running => cur.sequence < line /\ line <= Passed(File, next)
        /\ Len(chain) <= Len(kind)
    BY DEF TypeInv, PaceInv
  <2>2. cur.sequence <= Len(kind) /\ cursor.sequence <= Len(kind) /\ line <= Len(kind)
    BY <2>1, Typed
  <2>3. /\ Passed(log, cursor.offset)' = Len(kind) /\ Passed(log, cur.offset)' = Len(kind)
        /\ Passed(File, cur.offset)' \in {Passed(File, cur.offset), Len(kind)}
        /\ Passed(File, next)' \in {Passed(File, next), Len(kind)}
    <3>1. cur' = cur /\ cursor' = cursor /\ next' = next
      BY <1>1
    <3>2. cur.offset \in Nat /\ cursor.offset \in Nat /\ next \in Nat
      BY Typed
    <3>3. Passed(log, cursor.offset)' = Len(kind) /\ Passed(log, cur.offset)' = Len(kind)
      BY <3>1, <3>2, <1>1, <1>2 DEF Passed
    <3> QED
      BY <3>1, <3>2, <3>3, <1>10
  <2> QED
    BY <1>1, <1>2, <2>1, <2>2, <2>3 DEF PaceInv, Running
<1> QED
  BY <1>2, <1>7, <1>8, <1>11 DEF TypeInv

LEMMA TypeStep == TypeInv /\ [Next]_vars => TypeInv'
<1> SUFFICES ASSUME TypeInv, [Next]_vars PROVE TypeInv'
  OBVIOUS
<1>1. CASE Edge
  <2>1. ASSUME NEW k \in Kinds, BeginsLine(k) PROVE TypeInv'
    BY <2>1, GrowType
  <2>2. CASE ContinuesLine
    <3>1. "good" \in Kinds
      BY DEF Kinds
    <3> QED
      BY <2>2, <3>1, GrowType
  <2> QED
    BY <1>1, <2>1, <2>2, RotatesType DEF Edge
<1>2. CASE RunOnce
  <2>1. CASE ReadsNothing
    <3>1. /\ Returns /\ UNCHANGED <<faults, edge, cur, cursor, history>>
          /\ chain' = chain /\ forgotten' = forgotten
      BY <2>1 DEF ReadsNothing, ingest
    <3>2. (\A i \in 1..Len(chain) : chain[i].seq = i) /\ Len(chain) <= Len(kind)
      BY DEF TypeInv, PaceInv
    <3> QED
      BY <3>1, <3>2, Typed, ReturnsType
  <2> QED
    BY <1>2, <2>1, OpensType, SkipsType, ReadsType, AdvancesType DEF RunOnce
<1>3. CASE UNCHANGED vars
  <2>1. UNCHANGED <<faults, kind, log, cur, cursor, pc, old, detached, line, next, chain,
                    forgotten, stale, rotations, restarts>>
    BY <1>3 DEF vars, edge, run, ingest, history
  <2>2. TypeOK'
    BY <2>1 DEF TypeInv, TypeOK, Cells
  <2>3. FilesInv'
    BY <2>1 DEF TypeInv, FilesInv, IsLog, Cells, InOrder, Newline, Passed
  <2>4. PaceInv'
    BY <2>1 DEF TypeInv, PaceInv, Running, File, Passed
  <2> QED
    BY <2>1, <2>2, <2>3, <2>4 DEF TypeInv
<1> QED
  BY <1>1, <1>2, <1>3, PublishType, RestartsType, ForgetsType DEF Next

LEMMA TypesHold == Spec => []TypeInv
  BY TypeInit, TypeStep, PTL DEF Spec

\* Every state has the declared types: whatever is lost, torn from its file or
\* read at a stale offset, no sequence and no record is ahead of the lines, and
\* what the tailer publishes is a line of the log.
THEOREM TypeCorrect == Spec => []TypeOK
<1>1. TypeInv => TypeOK
  BY DEF TypeInv
<1> QED
  BY TypesHold, <1>1, PTL

-----------------------------------------------------------------------------
(* Counting lines. *)

LEMMA Counts ==
  ASSUME NEW m \in Nat, NEW T \in SUBSET (1..m), NEW S, S \subseteq T
  PROVE  /\ IsFiniteSet(T) /\ IsFiniteSet(S)
         /\ Cardinality(S) \in Nat /\ Cardinality(T) \in Nat
         /\ Cardinality(S) <= Cardinality(T)
<1>1. IsFiniteSet(1..m)
  BY FS_Interval
<1>2. IsFiniteSet(T)
  BY <1>1, FS_Subset
<1>3. IsFiniteSet(S) /\ Cardinality(S) <= Cardinality(T)
  BY <1>2, FS_Subset
<1> QED
  BY <1>2, <1>3, FS_CardinalityType

LEMMA CountsOneMore ==
  ASSUME NEW m \in Nat, NEW T \in SUBSET (1..m), NEW x \in 1..m, NEW S, S \subseteq T \cup {x}
  PROVE  Cardinality(S) <= Cardinality(T) + 1
<1>1. T \cup {x} \in SUBSET (1..m)
  OBVIOUS
<1>2. IsFiniteSet(T) /\ Cardinality(T) \in Nat
  BY Counts
<1>3. Cardinality(S) \in Nat /\ Cardinality(T \cup {x}) \in Nat /\ Cardinality(S) <= Cardinality(T \cup {x})
  BY <1>1, Counts
<1>4. Cardinality(T \cup {x}) <= Cardinality(T) + 1
  BY <1>2, FS_AddElement, SMTT(30)
<1> QED
  BY <1>2, <1>3, <1>4

LEMMA CountsOneLess ==
  ASSUME NEW m \in Nat, NEW T \in SUBSET (1..m), NEW x \in T, NEW S, S \subseteq T \ {x}
  PROVE  Cardinality(S) <= Cardinality(T) - 1
<1>1. IsFiniteSet(T) /\ Cardinality(T) \in Nat
  BY Counts
<1>2. IsFiniteSet(T \ {x}) /\ Cardinality(T \ {x}) = Cardinality(T) - 1
  BY <1>1, FS_RemoveElement
<1>3. T \ {x} \in SUBSET (1..m)
  OBVIOUS
<1>4. Cardinality(S) <= Cardinality(T \ {x})
  BY <1>3, Counts
<1> QED
  BY <1>2, <1>4

LEMMA CountsNone ==
  /\ Cardinality({}) = 0
  /\ \A m \in Nat : \A T \in SUBSET (1..m) : Cardinality(T) <= 0 => T = {}
<1>1. Cardinality({}) = 0
  BY FS_EmptySet
<1>2. ASSUME NEW m \in Nat, NEW T \in SUBSET (1..m), Cardinality(T) <= 0 PROVE T = {}
  <2>1. IsFiniteSet(T) /\ Cardinality(T) \in Nat
    BY Counts
  <2>2. Cardinality(T) = 0
    BY <1>2, <2>1
  <2> QED
    BY <2>1, <2>2, FS_EmptySet
<1> QED
  BY <1>1, <1>2

\* A chain of lines, of which there are m.
IsChain(ch, m) ==
  /\ m \in Nat /\ Len(ch) \in Nat
  /\ \A i \in 1..Len(ch) : ch[i].line \in 1..m

\* Lines that are not in the chain yet change nothing, and neither do lines
\* that are no longer to come.
LEMMA FitsGrow ==
  ASSUME NEW ch, NEW m, IsChain(ch, m), NEW s \in Nat, s <= Len(ch),
         NEW D \in SUBSET (1..m), Fits(ch, D, s),
         NEW N \in SUBSET Nat, \A n \in N : \A i \in 1..Len(ch) : ch[i].line < n,
         NEW D2, D2 \subseteq D \cup N
  PROVE  Fits(ch, D2, s)
<1>1. \A i \in 1..s : i \in 1..Len(ch)
  BY DEF IsChain
<1>2. \A i \in 1..s : \A l \in D2 : ch[i].line < l
  BY <1>1 DEF Fits
<1>3. ASSUME NEW i \in (s + 1)..Len(ch)
      PROVE  Cardinality({l \in D2 : l < ch[i].line}) <= i - s - 1
  <2> DEFINE S == {l \in D2 : l < ch[i].line}
             T == {l \in D : l < ch[i].line}
  <2>1. i \in 1..Len(ch) /\ i \in Nat
    BY DEF IsChain
  <2>2. ch[i].line \in Nat /\ m \in Nat
    BY <2>1 DEF IsChain
  <2>3. S \subseteq T
    <3> SUFFICES ASSUME NEW l \in D2, l < ch[i].line PROVE l \in D
      OBVIOUS
    <3>1. CASE l \in N
      <4>1. ch[i].line < l
        BY <3>1, <2>1
      <4> QED
        BY <4>1, <2>2, <3>1
    <3> QED
      BY <3>1
  <2>4. T \in SUBSET (1..m)
    OBVIOUS
  <2>5. Cardinality(T) <= i - s - 1
    BY DEF Fits
  <2> HIDE DEF S, T
  <2>6. Cardinality(S) <= Cardinality(T) /\ Cardinality(S) \in Nat /\ Cardinality(T) \in Nat
    BY <2>2, <2>3, <2>4, Counts
  <2>7. Cardinality(S) <= i - s - 1
    BY <2>1, <2>5, <2>6
  <2> QED
    BY <2>7 DEF S
<1> QED
  BY <1>2, <1>3 DEF Fits

\* The line x, the first to come, is behind.
LEMMA FitsAdvance ==
  ASSUME NEW ch, NEW m, IsChain(ch, m), NEW s \in Nat, s < Len(ch),
         NEW D \in SUBSET (1..m), Fits(ch, D, s), NEW x \in D,
         NEW D2 \in SUBSET (1..m), D2 \subseteq D \ {x}, \A l \in D2 : x < l
  PROVE  Fits(ch, D2, s + 1) /\ ch[s + 1].line <= x
<1>1. m \in Nat /\ Len(ch) \in Nat /\ s + 1 \in 1..Len(ch) /\ s + 1 \in (s + 1)..Len(ch)
  BY DEF IsChain
<1>2. ch[s + 1].line \in 1..m
  BY <1>1 DEF IsChain
<1>3. ch[s + 1].line <= x
  <2> DEFINE T == {l \in D : l < ch[s + 1].line}
  <2>1. Cardinality(T) <= (s + 1) - s - 1
    BY <1>1 DEF Fits
  <2>2. T \in SUBSET (1..m)
    OBVIOUS
  <2> HIDE DEF T
  <2>3. T = {}
    <3>1. (s + 1) - s - 1 = 0
      OBVIOUS
    <3>2. Cardinality(T) <= 0
      BY <2>1, <3>1
    <3> QED
      BY <1>1, <2>2, <3>2, CountsNone
  <2>4. ~(x < ch[s + 1].line)
    BY <2>3 DEF T
  <2>5. x \in Nat /\ ch[s + 1].line \in Nat
    BY <1>1, <1>2
  <2> QED
    BY <2>4, <2>5
<1>4. ASSUME NEW i \in 1..(s + 1), NEW l \in D2 PROVE ch[i].line < l
  <2>1. CASE i = s + 1
    BY <2>1, <1>1, <1>2, <1>3
  <2>2. CASE i # s + 1
    <3>1. i \in 1..s /\ l \in D
      BY <2>2
    <3> QED
      BY <3>1 DEF Fits
  <2> QED
    BY <2>1, <2>2
<1>5. ASSUME NEW i \in ((s + 1) + 1)..Len(ch)
      PROVE  Cardinality({l \in D2 : l < ch[i].line}) <= i - (s + 1) - 1
  <2> DEFINE S == {l \in D2 : l < ch[i].line}
             T == {l \in D : l < ch[i].line}
  <2>1. i \in 1..Len(ch) /\ i \in (s + 1)..Len(ch) /\ i >= s + 2 /\ i \in Nat
    BY <1>1
  <2>2. ch[i].line \in 1..m
    BY <2>1 DEF IsChain
  <2>3. Cardinality(T) <= i - s - 1
    BY <2>1 DEF Fits
  <2>4. T \in SUBSET (1..m)
    OBVIOUS
  <2>5. CASE x < ch[i].line
    <3>1. x \in T /\ S \subseteq T \ {x}
      BY <2>5
    <3> HIDE DEF S, T
    <3>2. Cardinality(S) <= Cardinality(T) - 1
      BY <3>1, <2>4, <1>1, CountsOneLess
    <3>3. S \subseteq T
      BY <3>1
    <3>4. Cardinality(S) \in Nat /\ Cardinality(T) \in Nat
      BY <3>3, <2>4, <1>1, Counts
    <3>5. Cardinality(S) <= i - (s + 1) - 1
      BY <3>2, <3>4, <2>1, <2>3
    <3> QED
      BY <3>5 DEF S
  <2>6. CASE ~(x < ch[i].line)
    <3> HIDE DEF S, T
    <3>6. x \in 1..m /\ m \in Nat
      BY <1>1
    <3>4. x \in Nat /\ ch[i].line \in Nat /\ ch[i].line <= x
      BY <2>2, <2>6, <3>6
    <3>5. ASSUME NEW l \in D2 PROVE ~(l < ch[i].line)
      <4>1. x < l /\ l \in Nat
        BY <1>1
      <4> QED
        BY <4>1, <3>4
    <3>1. S = {}
      BY <3>5 DEF S
    <3>2. Cardinality(S) = 0
      BY <3>1, CountsNone
    <3>3. Cardinality(S) <= i - (s + 1) - 1
      BY <3>2, <2>1
    <3> QED
      BY <3>3 DEF S
  <2> QED
    BY <2>5, <2>6
<1> QED
  BY <1>3, <1>4, <1>5 DEF Fits

\* The line x is committed; d of the lines D are before it.
LEMMA FitsCommit ==
  ASSUME NEW ch, NEW m, IsChain(ch, m), NEW ch2, IsChain(ch2, m),
         NEW s \in Nat, s <= Len(ch), Len(ch2) = Len(ch) + 1,
         \A i \in 1..Len(ch) : ch2[i] = ch[i],
         NEW D \in SUBSET (1..m), Fits(ch, D, s),
         Cardinality({l \in D : l < ch2[Len(ch) + 1].line}) <= Len(ch) - s
  PROVE  Fits(ch2, D, s)
<1>1. Len(ch) \in Nat
  BY DEF IsChain
<1>2. ASSUME NEW i \in 1..s, NEW l \in D PROVE ch2[i].line < l
  <2>1. i \in 1..Len(ch)
    BY <1>1
  <2> QED
    BY <2>1 DEF Fits
<1>3. ASSUME NEW i \in (s + 1)..Len(ch2)
      PROVE  Cardinality({l \in D : l < ch2[i].line}) <= i - s - 1
  <2>1. CASE i \in (s + 1)..Len(ch)
    <3>1. ch2[i] = ch[i]
      BY <2>1, <1>1
    <3>2. Cardinality({l \in D : l < ch[i].line}) <= i - s - 1
      BY <2>1 DEF Fits
    <3> QED
      BY <3>1, <3>2
  <2>2. CASE i = Len(ch) + 1
    <3>1. Len(ch) - s = i - s - 1
      BY <2>2, <1>1
    <3> QED
      BY <2>2, <3>1
  <2>3. i \in (s + 1)..(Len(ch) + 1)
    OBVIOUS
  <2> QED
    BY <2>1, <2>2, <2>3, <1>1
<1> QED
  BY <1>2, <1>3 DEF Fits

\* What is assumed of the arguments of Tallies.
Counted(ch, m, D, s, E, t, A) ==
  /\ IsChain(ch, m) /\ s \in Nat /\ t \in Nat /\ t <= s /\ s <= Len(ch)
  /\ D \in SUBSET (1..m) /\ E \in SUBSET (1..m) /\ A \in SUBSET (1..m)
  /\ Tallies(ch, D, s, E, t, A)

\* New lines N may be to come, and others no longer, but not behind a place.
Follows(ch, N, D, E, A, D2, E2, A2) ==
  /\ N \in SUBSET Nat /\ \A n \in N : \A i \in 1..Len(ch) : ch[i].line < n
  /\ D2 \subseteq D \cup N /\ E2 \subseteq E \cup N /\ A2 \subseteq A \cup N
  /\ E2 \ D2 \subseteq E \ D /\ A2 \ D2 \subseteq A \ D /\ A2 \ E2 \subseteq A \ E

LEMMA TalliesGrow ==
  ASSUME NEW ch, NEW m, NEW D, NEW s, NEW E, NEW t, NEW A, Counted(ch, m, D, s, E, t, A),
         NEW N, NEW D2, NEW E2, NEW A2, Follows(ch, N, D, E, A, D2, E2, A2)
  PROVE  Tallies(ch, D2, s, E2, t, A2)
<1> USE DEF Follows
<1>1. /\ IsChain(ch, m) /\ s \in Nat /\ t \in Nat /\ t <= s /\ s <= Len(ch) /\ 0 <= Len(ch)
      /\ D \in SUBSET (1..m) /\ E \in SUBSET (1..m) /\ A \in SUBSET (1..m)
      /\ t <= Len(ch) /\ m \in Nat /\ Len(ch) \in Nat
  BY DEF Counted, IsChain
<1>2. /\ Fits(ch, D, s) /\ Fits(ch, E, t) /\ Fits(ch, A, 0)
      /\ Cardinality(E \ D) <= s - t /\ Cardinality(A \ D) <= s /\ Cardinality(A \ E) <= t
  BY DEF Counted, Tallies
<1>3. Fits(ch, D2, s)
  BY <1>1, <1>2, FitsGrow
<1>4. Fits(ch, E2, t)
  BY <1>1, <1>2, FitsGrow
<1>5. Fits(ch, A2, 0)
  BY <1>1, <1>2, FitsGrow
<1>6. ASSUME NEW X \in SUBSET (1..m), NEW Y, Y \subseteq X, NEW n \in Nat, Cardinality(X) <= n
      PROVE  Cardinality(Y) <= n
  <2>1. Cardinality(Y) \in Nat /\ Cardinality(X) \in Nat /\ Cardinality(Y) <= Cardinality(X)
    BY <1>1, <1>6, Counts
  <2> QED
    BY <2>1, <1>6
<1>7. E \ D \in SUBSET (1..m) /\ A \ D \in SUBSET (1..m) /\ A \ E \in SUBSET (1..m)
  BY <1>1
<1>8. s - t \in Nat
  BY <1>1
<1>9. Cardinality(E2 \ D2) <= s - t
  BY <1>2, <1>6, <1>7, <1>8
<1>10. Cardinality(A2 \ D2) <= s
  BY <1>1, <1>2, <1>6, <1>7
<1>11. Cardinality(A2 \ E2) <= t
  BY <1>1, <1>2, <1>6, <1>7
<1> QED
  BY <1>3, <1>4, <1>5, <1>9, <1>10, <1>11 DEF Tallies

LEMMA TalliesSave ==
  ASSUME NEW ch, NEW m, NEW D, NEW s, NEW E, NEW t, NEW A, Counted(ch, m, D, s, E, t, A),
         NEW E2, E2 \subseteq D, A \ E2 \subseteq A \ D
  PROVE  Tallies(ch, D, s, E2, s, A)
<1>1. /\ IsChain(ch, m) /\ s \in Nat /\ s <= Len(ch) /\ m \in Nat
      /\ D \in SUBSET (1..m) /\ A \in SUBSET (1..m)
  BY DEF Counted, IsChain
<1>2. Fits(ch, D, s) /\ Fits(ch, A, 0) /\ Cardinality(A \ D) <= s
  BY DEF Counted, Tallies
<1>3. Fits(ch, E2, s)
  <2>1. E2 \subseteq D \cup {} /\ {} \in SUBSET Nat
    OBVIOUS
  <2> QED
    BY <1>1, <1>2, <2>1, FitsGrow
<1>4. Cardinality(E2 \ D) <= s - s
  <2>1. E2 \ D = {}
    OBVIOUS
  <2> QED
    <3>1. Cardinality(E2 \ D) = 0
      BY <2>1, CountsNone
    <3>2. s - s = 0
      BY <1>1
    <3> QED
      BY <3>1, <3>2
<1>5. Cardinality(A \ E2) <= s
  <2>1. A \ D \in SUBSET (1..m)
    BY <1>1
  <2>2. /\ Cardinality(A \ E2) \in Nat /\ Cardinality(A \ D) \in Nat
        /\ Cardinality(A \ E2) <= Cardinality(A \ D)
    BY <1>1, <2>1, Counts
  <2> QED
    BY <1>1, <1>2, <2>2
<1> QED
  BY <1>2, <1>3, <1>4, <1>5 DEF Tallies

LEMMA TalliesRestart ==
  ASSUME NEW ch, NEW m, NEW D, NEW s, NEW E, NEW t, NEW A, Counted(ch, m, D, s, E, t, A)
  PROVE  Tallies(ch, E, t, E, t, A) /\ Tallies(ch, A, 0, A, 0, A)
<1>1. /\ Fits(ch, E, t) /\ Fits(ch, A, 0) /\ Cardinality(A \ E) <= t /\ t \in Nat
  BY DEF Counted, Tallies
<1>2. E \ E = {} /\ A \ A = {} /\ Cardinality({}) = 0
  BY CountsNone
<1>3. t - t = 0 /\ 0 - 0 = 0
  BY <1>1
<1>4. /\ Cardinality(E \ E) <= t - t /\ Cardinality(A \ A) <= 0 - 0 /\ Cardinality(A \ A) <= 0
  BY <1>2, <1>3
<1> QED
  BY <1>1, <1>4 DEF Tallies

\* The line x is no longer to come for the tailer.
Passes(x, D, E, A, D2) ==
  /\ x \in D /\ D2 \subseteq D \ {x} /\ \A l \in D2 : x < l
  /\ E \ D2 \subseteq (E \ D) \cup {x} /\ A \ D2 \subseteq (A \ D) \cup {x}

LEMMA TalliesAdvance ==
  ASSUME NEW ch, NEW m, NEW D, NEW s, NEW E, NEW t, NEW A, Counted(ch, m, D, s, E, t, A),
         s < Len(ch), NEW x, NEW D2, Passes(x, D, E, A, D2)
  PROVE  Tallies(ch, D2, s + 1, E, t, A) /\ ch[s + 1].line <= x
<1> USE DEF Passes
<1>1. /\ IsChain(ch, m) /\ s \in Nat /\ t \in Nat /\ t <= s /\ s <= Len(ch)
      /\ D \in SUBSET (1..m) /\ E \in SUBSET (1..m) /\ A \in SUBSET (1..m) /\ m \in Nat
  BY DEF Counted, IsChain
<1>2. /\ Fits(ch, D, s) /\ Fits(ch, E, t) /\ Fits(ch, A, 0)
      /\ Cardinality(E \ D) <= s - t /\ Cardinality(A \ D) <= s /\ Cardinality(A \ E) <= t
  BY DEF Counted, Tallies
<1>3. D2 \in SUBSET (1..m) /\ x \in 1..m
  BY <1>1
<1>4. Fits(ch, D2, s + 1) /\ ch[s + 1].line <= x
  BY <1>1, <1>2, <1>3, FitsAdvance
<1>5. E \ D \in SUBSET (1..m) /\ A \ D \in SUBSET (1..m)
      /\ E \ D2 \in SUBSET (1..m) /\ A \ D2 \in SUBSET (1..m)
  BY <1>1
<1>6. /\ Cardinality(E \ D) \in Nat /\ Cardinality(A \ D) \in Nat
      /\ Cardinality(E \ D2) \in Nat /\ Cardinality(A \ D2) \in Nat
  BY <1>1, <1>5, Counts
<1>7. /\ Cardinality(E \ D2) <= Cardinality(E \ D) + 1
      /\ Cardinality(A \ D2) <= Cardinality(A \ D) + 1
  BY <1>1, <1>3, <1>5, CountsOneMore
<1>8. Cardinality(E \ D2) <= (s + 1) - t /\ Cardinality(A \ D2) <= s + 1
  BY <1>1, <1>2, <1>6, <1>7
<1> QED
  BY <1>2, <1>4, <1>8 DEF Tallies

\* A commit of the first line to come, by a tailer at the end of the chain.
LEMMA TalliesCommit ==
  ASSUME NEW ch, NEW m, NEW D, NEW s, NEW E, NEW t, NEW A, Counted(ch, m, D, s, E, t, A),
         NEW ch2, IsChain(ch2, m), s = Len(ch), Len(ch2) = Len(ch) + 1,
         \A i \in 1..Len(ch) : ch2[i] = ch[i],
         NEW x \in D, ch2[Len(ch) + 1].line = x, \A l \in D : x <= l
  PROVE  Tallies(ch2, D, s, E, t, A) /\ \A i \in 1..Len(ch) : ch[i].line < x
<1>1. /\ IsChain(ch, m) /\ s \in Nat /\ t \in Nat /\ t <= s /\ s <= Len(ch) /\ t <= Len(ch)
      /\ D \in SUBSET (1..m) /\ E \in SUBSET (1..m) /\ A \in SUBSET (1..m) /\ m \in Nat
      /\ Len(ch) \in Nat /\ 0 <= Len(ch)
  BY DEF Counted, IsChain
<1>2. /\ Fits(ch, D, s) /\ Fits(ch, E, t) /\ Fits(ch, A, 0)
      /\ Cardinality(E \ D) <= s - t /\ Cardinality(A \ D) <= s /\ Cardinality(A \ E) <= t
  BY DEF Counted, Tallies
<1>3. \A l \in D : l \in Nat /\ x \in Nat /\ ~(l < x)
  BY <1>1
<1>4. ASSUME NEW X \in SUBSET (1..m), NEW n \in Nat, Cardinality(X \ D) <= n
      PROVE  Cardinality({l \in X : l < x}) <= n
  <2>1. {l \in X : l < x} \subseteq X \ D
    BY <1>3
  <2>2. X \ D \in SUBSET (1..m)
    OBVIOUS
  <2> DEFINE S == {l \in X : l < x}
  <2> HIDE DEF S
  <2>3. S \subseteq X \ D
    BY <2>1 DEF S
  <2>4. Cardinality(S) \in Nat /\ Cardinality(X \ D) \in Nat /\ Cardinality(S) <= Cardinality(X \ D)
    BY <1>1, <2>2, <2>3, Counts
  <2>5. Cardinality(S) <= n
    BY <2>4, <1>4
  <2> QED
    BY <2>5 DEF S
<1>5. s - t \in Nat /\ Len(ch) - t = s - t /\ Len(ch) - 0 = s /\ Len(ch) - s = 0
  BY <1>1
<1>6. /\ Cardinality({l \in E : l < x}) <= Len(ch) - t
      /\ Cardinality({l \in A : l < x}) <= Len(ch) - 0
  BY <1>1, <1>2, <1>4, <1>5
<1>7. Cardinality({l \in D : l < x}) <= Len(ch) - s
  <2>1. {l \in D : l < x} = {}
    BY <1>3
  <2> QED
    <3>1. Cardinality({l \in D : l < x}) = 0
      BY <2>1, CountsNone
    <3> QED
      BY <3>1, <1>5
<1>8. Fits(ch2, D, s)
  BY <1>1, <1>2, <1>7, FitsCommit
<1>9. Fits(ch2, E, t)
  BY <1>1, <1>2, <1>6, FitsCommit
<1>10. Fits(ch2, A, 0)
  BY <1>1, <1>2, <1>6, FitsCommit
<1>11. \A i \in 1..Len(ch) : ch[i].line < x
  BY <1>2 DEF Fits
<1> QED
  BY <1>2, <1>8, <1>9, <1>10, <1>11 DEF Tallies

-----------------------------------------------------------------------------
(* The lines that begin behind an offset. *)

LEMMA StartsType ==
  ASSUME TypeInv, NEW f, IsLog(f), NEW o \in Nat
  PROVE  Starts(f, o) \in SUBSET (1..Len(kind))
<1>1. Cells(f) /\ Len(f) \in Nat
  BY DEF IsLog
<1>2. \A k \in (o + 1)..Len(f) : k \in 1..Len(f)
  BY <1>1
<1> QED
  BY <1>1, <1>2 DEF Starts, Cells

LEMMA StartsShrink ==
  ASSUME NEW f, Len(f) \in Nat, NEW o \in Nat, NEW p \in Nat, o <= p
  PROVE  Starts(f, p) \subseteq Starts(f, o)
<1>1. \A k \in (p + 1)..Len(f) : k \in (o + 1)..Len(f)
  OBVIOUS
<1> QED
  BY <1>1 DEF Starts

LEMMA StartsNone ==
  ASSUME NEW f, Len(f) \in Nat, NEW o \in Nat, Len(f) <= o
  PROVE  Starts(f, o) = {}
<1>1. (o + 1)..Len(f) = {}
  OBVIOUS
<1> QED
  BY <1>1 DEF Starts

\* Between the offset and the next newline begins one line, and it begins at
\* the offset if at all.
LEMMA StartsRead ==
  ASSUME TypeInv, LineEnds # {}
  PROVE  /\ ~Converts(cur.offset + 1, NextEnd) => Starts(File, cur.offset) = Starts(File, NextEnd)
         /\ Converts(cur.offset + 1, NextEnd) =>
              /\ File[cur.offset + 1][1] \in Starts(File, cur.offset)
              /\ Starts(File, cur.offset) \subseteq Starts(File, NextEnd) \cup {File[cur.offset + 1][1]}
              /\ \A l \in Starts(File, NextEnd) : File[cur.offset + 1][1] < l
         /\ Starts(File, NextEnd) \subseteq Starts(File, cur.offset)
<1> DEFINE o == cur.offset
           e == NextEnd
           first == File[o + 1][1]
           Begins(k) == File[k][2] = 1 /\ kind[File[k][1]] # "poison"
<1>1. /\ o \in Nat /\ e \in Nat /\ o + 1 <= e /\ e <= Len(File) /\ Len(File) \in Nat /\ o <= e
      /\ Newline(File[e]) /\ \A j \in Nat : o < j /\ j < e => ~Newline(File[j])
  BY FirstEnd, Typed
<1>2. InOrder(File) /\ Cells(File) /\ Len(kind) \in Nat
  BY Typed DEF IsLog
<1>3. Starts(File, e) \subseteq Starts(File, o)
  BY <1>1, StartsShrink
<1> HIDE DEF o, e
<1>4. ASSUME NEW k \in (o + 1)..Len(File), Begins(k), k <= e PROVE k = o + 1
  <2> SUFFICES ASSUME k # o + 1 PROVE FALSE
    OBVIOUS
  <2>1. k \in 2..Len(File) /\ k - 1 \in Nat /\ o < k - 1 /\ k - 1 < e
    BY <1>1, <1>4
  <2>2. Newline(File[k - 1])
    BY <2>1, <1>2, <1>4 DEF InOrder
  <2> QED
    BY <2>1, <2>2, <1>1
<1>5. \A f, p : Starts(f, p) = {f[j][1] : j \in {k \in (p + 1)..Len(f) : f[k][2] = 1 /\ kind[f[k][1]] # "poison"}}
  BY DEF Starts
<1>6. ASSUME NEW l \in Starts(File, o)
      PROVE  l \in Starts(File, e) \/ (l = first /\ Begins(o + 1))
  <2>1. PICK k \in (o + 1)..Len(File) : Begins(k) /\ l = File[k][1]
    BY DEF Starts
  <2>2. CASE k <= e
    BY <2>1, <2>2, <1>4
  <2>3. CASE ~(k <= e)
    <3>1. k \in (e + 1)..Len(File)
      BY <2>3, <1>1
    <3> QED
      BY <2>1, <3>1 DEF Starts
  <2> QED
    BY <2>2, <2>3
<1>7. Converts(o + 1, e) <=> Begins(o + 1)
  BY DEF Converts
<1>8. o + 1 \in (o + 1)..Len(File) /\ o + 1 \in 1..Len(File) /\ e \in 1..Len(File)
  BY <1>1
<1>9. Begins(o + 1) => first \in Starts(File, o)
  BY <1>8 DEF Starts
<1>10. ASSUME NEW l \in Starts(File, e) PROVE first < l
  <2>1. PICK k \in (e + 1)..Len(File) : l = File[k][1]
    BY DEF Starts
  <2>2. k \in 1..Len(File) /\ e < k
    BY <1>1
  <2>3. File[e][1] < File[k][1]
    BY <1>1, <1>2, <1>8, <2>2 DEF InOrder
  <2>4. first <= File[e][1]
    <3>1. CASE o + 1 = e
      BY <3>1, <1>2, <1>8 DEF Cells
    <3>2. CASE o + 1 < e
      BY <3>2, <1>2, <1>8 DEF InOrder
    <3> QED
      BY <3>1, <3>2, <1>1
  <2>5. first \in Nat /\ File[e][1] \in Nat /\ File[k][1] \in Nat
    BY <1>2, <1>8, <2>2 DEF Cells
  <2> QED
    BY <2>1, <2>3, <2>4, <2>5
<1>11. ~Begins(o + 1) => Starts(File, o) \subseteq Starts(File, e)
  BY <1>6
<1>12. Starts(File, o) \subseteq Starts(File, e) \cup {first}
  BY <1>6
<1> HIDE DEF first, Begins
<1>13. /\ ~Converts(o + 1, e) => Starts(File, o) = Starts(File, e)
       /\ Converts(o + 1, e) => /\ first \in Starts(File, o)
                                /\ Starts(File, o) \subseteq Starts(File, e) \cup {first}
                                /\ \A l \in Starts(File, e) : first < l
  BY <1>3, <1>7, <1>9, <1>10, <1>11, <1>12
<1> QED
  BY <1>3, <1>13 DEF o, e, first

\* What a new cell adds.
New(c) == IF c[2] = 1 /\ kind[c[1]] # "poison" THEN {c[1]} ELSE {}

LEMMA StartsGrow ==
  ASSUME TypeInv, NEW c, Grows(c), old' = old
  PROVE  /\ New(c)' \subseteq {Len(kind) + 1}
         /\ \A o \in Nat : o <= Len(log) => Starts(log, o)' = Starts(log, o) \cup New(c)'
         /\ \A o \in Nat : Len(log) < o => Starts(log, o)' = {}
         /\ \A o \in Nat : Starts(old, o)' = Starts(old, o)
<1>1. /\ Cells(log) /\ Cells(old) /\ Len(log) \in Nat /\ Len(old) \in Nat /\ Len(kind) \in Nat
      /\ log \in Seq(Nat \X Nat)
  BY Typed DEF IsLog
<1>2. /\ c \in Nat \X Nat /\ log' = Append(log, c)
      /\ \A l \in 1..Len(kind) : kind'[l] = kind[l]
      /\ c[2] = 1 => c[1] = Len(kind) + 1
  BY DEF Grows
<1>3. /\ Len(log') = Len(log) + 1 /\ log'[Len(log) + 1] = c
      /\ \A j \in 1..Len(log) : log'[j] = log[j]
  BY <1>1, <1>2
<1>4. New(c)' \subseteq {Len(kind) + 1}
  BY <1>2 DEF New
<1>5. ASSUME NEW k \in 1..Len(old)
      PROVE  kind'[old[k][1]] = kind[old[k][1]]
  BY <1>1, <1>2 DEF Cells
<1>6. ASSUME NEW k \in 1..Len(log)
      PROVE  kind'[log[k][1]] = kind[log[k][1]] /\ log'[k] = log[k]
  BY <1>1, <1>2, <1>3 DEF Cells
<1>7. ASSUME NEW o \in Nat PROVE Starts(old, o)' = Starts(old, o)
  <2>1. \A k \in (o + 1)..Len(old) : k \in 1..Len(old)
    BY <1>1
  <2> QED
    BY <2>1, <1>5 DEF Starts
<1>8. ASSUME NEW o \in Nat, Len(log) < o PROVE Starts(log, o)' = {}
  <2>1. (o + 1)..Len(log') = {}
    BY <1>1, <1>3, <1>8
  <2> QED
    BY <2>1 DEF Starts
<1>9. ASSUME NEW o \in Nat, o <= Len(log) PROVE Starts(log, o)' = Starts(log, o) \cup New(c)'
  <2> DEFINE n == Len(log) + 1
  <2>1. ASSUME NEW l \in Starts(log, o)' PROVE l \in Starts(log, o) \cup New(c)'
    <3>1. PICK k \in (o + 1)..Len(log') : log'[k][2] = 1 /\ kind'[log'[k][1]] # "poison" /\ l = log'[k][1]
      BY DEF Starts
    <3>2. CASE k = n
      BY <3>1, <3>2, <1>3 DEF New
    <3>3. CASE k # n
      <4>1. k \in (o + 1)..Len(log) /\ k \in 1..Len(log)
        BY <3>3, <1>1, <1>3
      <4> QED
        BY <3>1, <4>1, <1>6 DEF Starts
    <3> QED
      BY <3>2, <3>3
  <2>2. ASSUME NEW l \in Starts(log, o) PROVE l \in Starts(log, o)'
    <3>1. PICK k \in (o + 1)..Len(log) : log[k][2] = 1 /\ kind[log[k][1]] # "poison" /\ l = log[k][1]
      BY DEF Starts
    <3>2. k \in (o + 1)..Len(log') /\ k \in 1..Len(log)
      BY <1>1, <1>3
    <3> QED
      BY <3>1, <3>2, <1>6 DEF Starts
  <2>3. ASSUME NEW l \in New(c)' PROVE l \in Starts(log, o)'
    <3>1. l = c[1] /\ c[2] = 1 /\ kind'[c[1]] # "poison"
      BY DEF New
    <3>2. n \in (o + 1)..Len(log') /\ log'[n] = c
      BY <1>1, <1>3, <1>9
    <3> QED
      BY <3>1, <3>2 DEF Starts
  <2> QED
    BY <2>1, <2>2, <2>3
<1> QED
  BY <1>4, <1>7, <1>8, <1>9

LEMMA ChainTyped ==
  ASSUME TypeInv
  PROVE  IsChain(chain, Len(kind))
<1>1. chain \in Seq([seq : 1..MaxLines, line : 1..Len(kind)]) /\ Len(chain) \in Nat /\ Len(kind) \in Nat
  BY Typed
<1>2. \A i \in 1..Len(chain) : chain[i] \in [seq : 1..MaxLines, line : 1..Len(kind)]
  <2> DEFINE S == [seq : 1..MaxLines, line : 1..Len(kind)]
  <2>1. chain \in Seq(S)
    BY <1>1
  <2> HIDE DEF S
  <2>2. \A i \in 1..Len(chain) : chain[i] \in S
    BY <2>1
  <2> QED
    BY <2>2 DEF S
<1>3. \A i \in 1..Len(chain) : chain[i].line \in 1..Len(kind)
  BY <1>2
<1> QED
  BY <1>1, <1>3 DEF IsChain

\* The numbers under which the places of the tailer are compared.
LEMMA Compared ==
  ASSUME TypeInv, OrderInv
  PROVE  Counted(chain, Len(kind), FromCur, cur.sequence, FromCursor, cursor.sequence, Starts(log, 0))
<1>1. IsChain(chain, Len(kind))
  BY ChainTyped
<1>2. cursor.sequence <= cur.sequence /\ cur.sequence <= Len(chain)
  BY DEF TypeInv, PaceInv
<1>3. Starts(log, 0) \in SUBSET (1..Len(kind)) /\ Starts(File, cur.offset) \in SUBSET (1..Len(kind))
  BY Typed, StartsType
<1>4. Running => line \in 1..Len(kind)
  <2>1. Running => cur.sequence < line
    BY DEF TypeInv, PaceInv
  <2> QED
    BY <2>1, Typed
<1>5. FromCur \in SUBSET (1..Len(kind))
  BY <1>3, <1>4 DEF FromCur
<1>6. FromCursor \in SUBSET (1..Len(kind))
  BY Typed, StartsType DEF FromCursor
<1> QED
  BY <1>1, <1>2, <1>3, <1>5, <1>6, Typed DEF Counted, OrderInv

-----------------------------------------------------------------------------
(* The steps keep the order. *)

\* A cell more is to come for every place.
LEMMA GrowPlaces ==
  ASSUME TypeInv, OrderInv, Without({"regrow"}),
         NEW k \in Kinds, BeginsLine(k) \/ ContinuesLine,
         NEW c \in Nat \X Nat, Grows(c)
  PROVE  /\ PlaceInv' /\ UNCHANGED <<cur, cursor, pc, old, detached, line, next, chain, stale>>
         /\ log' = Append(log, c) /\ Len(log') = Len(log) + 1
         /\ \A l \in 1..Len(kind) : kind'[l] = kind[l]
         /\ "cur" \in stale => Len(log) + 1 < cur.offset
         /\ New(c)' \subseteq {Len(kind) + 1}
         /\ Starts(log, 0)' = Starts(log, 0) \cup New(c)'
         /\ "cur" \notin stale => Starts(log, cur.offset)' = Starts(log, cur.offset) \cup New(c)'
         /\ Starts(old, cur.offset)' = Starts(old, cur.offset)
         /\ Starts(old, next)' = Starts(old, next)
         /\ next <= Len(log) => Starts(log, next)' = Starts(log, next) \cup New(c)'
         /\ Len(log) < next => Starts(log, next)' = {}
         /\ "cur" \in stale => Starts(log, cur.offset)' = {} /\ Starts(log, cur.offset) = {}
         /\ FromCursor' = FromCursor \cup New(c)'
         /\ FromCur \cup New(c)' \subseteq FromCur' /\ FromCur' \subseteq FromCur \cup New(c)'
<1>1. Grows(c)
  OBVIOUS
<1>2. UNCHANGED <<cur, cursor, pc, old, detached, line, next, chain, stale>> /\ StaysShort
  BY DEF BeginsLine, ContinuesLine, run, ingest, history, Without
<1> DEFINE N == New(c)'
<1>3. /\ N \subseteq {Len(kind) + 1}
      /\ \A o \in Nat : o <= Len(log) => Starts(log, o)' = Starts(log, o) \cup N
      /\ \A o \in Nat : Len(log) < o => Starts(log, o)' = {}
      /\ \A o \in Nat : Starts(old, o)' = Starts(old, o)
  BY <1>1, <1>2, StartsGrow
<1>4. /\ Len(kind) \in Nat /\ Len(log) \in Nat /\ cur.offset \in Nat /\ cursor.offset \in Nat
      /\ next \in Nat /\ line \in 0..Len(kind)
  BY Typed
<1>5. /\ log' = Append(log, c) /\ Len(log') = Len(log) + 1
      /\ \A l \in 1..Len(kind) : kind'[l] = kind[l]
  <2>1. log \in Seq(Nat \X Nat)
    BY Typed DEF IsLog
  <2> QED
    BY <2>1, <1>1 DEF Grows
<1> HIDE DEF N
<1>6. /\ "cur" \in stale => Len(log) + 1 < cur.offset
      /\ "cursor" \in stale => Len(log) + 1 < cursor.offset
  BY <1>2 DEF StaysShort
<1>7. PlaceInv
  BY DEF OrderInv
<1>8. PlaceInv'
  BY <1>2, <1>4, <1>5, <1>6, <1>7 DEF PlaceInv
<1>9. File = (IF detached THEN old ELSE log) /\ File' = (IF detached THEN old ELSE log')
  BY <1>2 DEF File
<1>10. /\ Starts(log, 0)' = Starts(log, 0) \cup N
       /\ "cur" \notin stale => Starts(log, cur.offset)' = Starts(log, cur.offset) \cup N
       /\ "cur" \in stale => Starts(log, cur.offset)' = {} /\ Starts(log, cur.offset) = {}
       /\ "cursor" \notin stale => Starts(log, cursor.offset)' = Starts(log, cursor.offset) \cup N
       /\ Starts(old, cur.offset)' = Starts(old, cur.offset)
       /\ Starts(old, next)' = Starts(old, next)
       /\ next <= Len(log) => Starts(log, next)' = Starts(log, next) \cup N
       /\ Len(log) < next => Starts(log, next)' = {}
  <2>1. "cur" \in stale => Len(log) < cur.offset /\ Len(log) <= cur.offset
    BY <1>4, <1>6
  <2>2. "cur" \in stale => Starts(log, cur.offset) = {}
    BY <1>4, <2>1, StartsNone
  <2>3. 0 \in Nat /\ 0 <= Len(log)
    BY <1>4
  <2>4. Starts(log, 0)' = Starts(log, 0) \cup N
    BY <1>3, <2>3
  <2>5. /\ "cur" \notin stale => Starts(log, cur.offset)' = Starts(log, cur.offset) \cup N
        /\ "cur" \in stale => Starts(log, cur.offset)' = {}
        /\ Starts(old, cur.offset)' = Starts(old, cur.offset)
    <3>1. PICK o \in Nat : o = cur.offset /\ o = cur'.offset
      BY <1>2, <1>4
    <3>2. Starts(log, cur.offset)' = Starts(log, o)' /\ Starts(old, cur.offset)' = Starts(old, o)'
      BY <3>1
    <3> QED
      BY <1>3, <1>7, <2>1, <3>1, <3>2 DEF PlaceInv
  <2>6. "cursor" \notin stale => Starts(log, cursor.offset)' = Starts(log, cursor.offset) \cup N
    <3>1. PICK o \in Nat : o = cursor.offset /\ o = cursor'.offset
      BY <1>2, <1>4
    <3>2. Starts(log, cursor.offset)' = Starts(log, o)'
      BY <3>1
    <3> QED
      BY <1>3, <1>7, <3>1, <3>2 DEF PlaceInv
  <2>7. /\ Starts(old, next)' = Starts(old, next)
        /\ next <= Len(log) => Starts(log, next)' = Starts(log, next) \cup N
        /\ Len(log) < next => Starts(log, next)' = {}
    <3>1. PICK o \in Nat : o = next /\ o = next'
      BY <1>2, <1>4
    <3>2. Starts(log, next)' = Starts(log, o)' /\ Starts(old, next)' = Starts(old, o)'
      BY <3>1
    <3> QED
      BY <1>3, <3>1, <3>2
  <2> QED
    BY <2>2, <2>4, <2>5, <2>6, <2>7
<1>11. /\ FromCursor' = FromCursor \cup N
       /\ FromCur \cup N \subseteq FromCur' /\ FromCur' \subseteq FromCur \cup N
  <2>1. FromCursor' = FromCursor \cup N
    <3>1. CASE "cursor" \in stale
      BY <1>2, <1>10, <3>1 DEF FromCursor
    <3>2. CASE "cursor" \notin stale
      BY <1>2, <1>10, <3>2 DEF FromCursor
    <3> QED
      BY <3>1, <3>2
  <2>2. /\ Starts(File, cur.offset) = (IF detached THEN Starts(old, cur.offset) ELSE Starts(log, cur.offset))
        /\ Starts(File, cur.offset)' =
             (IF detached THEN Starts(old, cur.offset)' ELSE Starts(log, cur.offset)')
    BY <1>2 DEF File
  <2>3. detached => "cur" \in stale
    BY <1>7 DEF PlaceInv
  <2>4. Running' = Running /\ line' = line /\ stale' = stale
    BY <1>2 DEF Running
  <2> QED
    BY <1>10, <2>1, <2>2, <2>3, <2>4 DEF FromCur
<1> QED
  BY <1>2, <1>3, <1>5, <1>6, <1>8, <1>10, <1>11 DEF N

LEMMA GrowOrder ==
  ASSUME TypeInv, OrderInv, Without({"regrow"}),
         NEW k \in Kinds, BeginsLine(k) \/ ContinuesLine
  PROVE  OrderInv'
<1>1. PICK c \in Nat \X Nat : Grows(c)
  BY EdgeGrows
<1> DEFINE N == New(c)'
<1>16. /\ PlaceInv' /\ UNCHANGED <<cur, cursor, pc, old, detached, line, next, chain, stale>>
       /\ log' = Append(log, c) /\ Len(log') = Len(log) + 1
       /\ \A l \in 1..Len(kind) : kind'[l] = kind[l]
       /\ "cur" \in stale => Len(log) + 1 < cur.offset
       /\ N \subseteq {Len(kind) + 1}
       /\ Starts(log, 0)' = Starts(log, 0) \cup N
       /\ "cur" \notin stale => Starts(log, cur.offset)' = Starts(log, cur.offset) \cup N
       /\ Starts(old, cur.offset)' = Starts(old, cur.offset)
       /\ Starts(old, next)' = Starts(old, next)
       /\ next <= Len(log) => Starts(log, next)' = Starts(log, next) \cup N
       /\ Len(log) < next => Starts(log, next)' = {}
       /\ "cur" \in stale => Starts(log, cur.offset)' = {} /\ Starts(log, cur.offset) = {}
       /\ FromCursor' = FromCursor \cup N
       /\ FromCur \cup N \subseteq FromCur' /\ FromCur' \subseteq FromCur \cup N
  BY <1>1, GrowPlaces
<1> HIDE DEF N
<1>2. UNCHANGED <<cur, cursor, pc, old, detached, line, next, chain, stale>>
  BY <1>16
<1>3. N \subseteq {Len(kind) + 1}
  BY <1>16
<1>4. /\ Len(kind) \in Nat /\ Len(log) \in Nat /\ cur.offset \in Nat /\ cursor.offset \in Nat
      /\ next \in Nat /\ line \in 0..Len(kind)
  BY Typed
<1>5. log' = Append(log, c) /\ Len(log') = Len(log) + 1 /\ \A l \in 1..Len(kind) : kind'[l] = kind[l]
  BY <1>16
<1>6. "cur" \in stale => Len(log) + 1 < cur.offset
  BY <1>16
<1>7. PlaceInv
  BY DEF OrderInv
<1>8. PlaceInv'
  BY <1>16
<1>10. /\ Starts(log, 0)' = Starts(log, 0) \cup N
       /\ "cur" \notin stale => Starts(log, cur.offset)' = Starts(log, cur.offset) \cup N
       /\ "cur" \in stale => Starts(log, cur.offset)' = {} /\ Starts(log, cur.offset) = {}
       /\ Starts(old, cur.offset)' = Starts(old, cur.offset)
       /\ Starts(old, next)' = Starts(old, next)
       /\ next <= Len(log) => Starts(log, next)' = Starts(log, next) \cup N
       /\ Len(log) < next => Starts(log, next)' = {}
  BY <1>16
<1>11. /\ FromCursor' = FromCursor \cup N
       /\ FromCur \cup N \subseteq FromCur' /\ FromCur' \subseteq FromCur \cup N
  BY <1>16
<1>12. PendingInv'
  <2> SUFFICES ASSUME Running' PROVE PendingInv'
    BY DEF PendingInv
  <2>1. Running
    BY <1>2 DEF Running
  <2>2. /\ cur.offset < next
        /\ "cur" \notin stale => next <= Len(log) /\ line \in Starts(log, cur.offset)
        /\ Starts(File, cur.offset) \subseteq Starts(File, next) \cup {line}
        /\ \A l \in Starts(File, next) : line < l
        /\ "cur" \in stale => \A l \in Starts(log, 0) : line < l
        /\ kind[line] # "poison"
    BY <2>1 DEF OrderInv, PendingInv
  <2>3. \A l \in N : line < l
    BY <1>3, <1>4
  <2>4. /\ Starts(File, cur.offset) = (IF detached THEN Starts(old, cur.offset) ELSE Starts(log, cur.offset))
        /\ Starts(File, cur.offset)' =
             (IF detached THEN Starts(old, cur.offset)' ELSE Starts(log, cur.offset)')
        /\ Starts(File, next) = (IF detached THEN Starts(old, next) ELSE Starts(log, next))
        /\ Starts(File, next)' = (IF detached THEN Starts(old, next)' ELSE Starts(log, next)')
    BY <1>2 DEF File
  <2>5. detached => "cur" \in stale
    BY <1>7 DEF PlaceInv
  <2>6. "cur" \in stale => Len(log) < next
    BY <1>4, <1>6, <2>2
  <2>7. cur'.offset < next'
    BY <1>2, <2>2
  <2>8. "cur" \notin stale' => next' <= Len(log') /\ line' \in Starts(log, cur.offset)'
    <3>1. "cur" \notin stale => next' <= Len(log')
      BY <1>2, <1>4, <1>5, <2>2
    <3>2. "cur" \notin stale => line' \in Starts(log, cur.offset)'
      BY <1>2, <1>10, <2>2
    <3> QED
      BY <1>2, <3>1, <3>2
  <2>9. Starts(File, cur.offset)' \subseteq Starts(File, next)' \cup {line'}
    BY <1>2, <1>10, <2>2, <2>4, <2>5
  <2>10. \A l \in Starts(File, next)' : line' < l
    BY <1>2, <1>10, <2>2, <2>3, <2>4, <2>5, <2>6
  <2>11. "cur" \in stale' => \A l \in Starts(log, 0)' : line' < l
    BY <1>2, <1>10, <2>2, <2>3
  <2>12. kind'[line'] # "poison"
    <3>1. line \in 1..Len(kind)
      <4>1. cur.sequence < line /\ cur.sequence \in Nat
        BY <2>1, Typed DEF TypeInv, PaceInv
      <4> QED
        BY <4>1, <1>4
    <3> QED
      BY <3>1, <1>2, <1>5, <2>2
  <2> QED
    BY <2>7, <2>8, <2>9, <2>10, <2>11, <2>12 DEF PendingInv
<1>13. ChainInv'
  <2>1. \A i \in 1..Len(chain) : chain[i].line \in 1..Len(kind)
    BY ChainTyped DEF IsChain
  <2> QED
    BY <1>2, <1>5, <2>1 DEF OrderInv, ChainInv
<1>14. Tallies(chain, FromCur', cur.sequence, FromCursor', cursor.sequence, Starts(log, 0)')
  <2>1. N \in SUBSET Nat /\ \A n \in N : \A i \in 1..Len(chain) : chain[i].line < n
    <3>1. \A i \in 1..Len(chain) : chain[i].line \in 1..Len(kind)
      BY ChainTyped DEF IsChain
    <3> QED
      BY <3>1, <1>3, <1>4
  <2>2. /\ FromCursor' \ FromCur' \subseteq FromCursor \ FromCur
        /\ Starts(log, 0)' \ FromCur' \subseteq Starts(log, 0) \ FromCur
        /\ Starts(log, 0)' \ FromCursor' \subseteq Starts(log, 0) \ FromCursor
    BY <1>10, <1>11
  <2>3. FromCursor' \subseteq FromCursor \cup N /\ Starts(log, 0)' \subseteq Starts(log, 0) \cup N
    BY <1>10, <1>11
  <2>4. Follows(chain, N, FromCur, FromCursor, Starts(log, 0), FromCur', FromCursor', Starts(log, 0)')
    BY <1>11, <2>1, <2>2, <2>3 DEF Follows
  <2> QED
    BY <2>4, Compared, TalliesGrow
<1>15. (chain' = chain /\ cur' = cur /\ cursor' = cursor)
  BY <1>2
<1> QED
  BY <1>8, <1>12, <1>13, <1>14, <1>15 DEF OrderInv

\* The parts of the invariant after a step that begins no line.
LEMMA NextPlaces ==
  ASSUME kind' = kind
  PROVE  /\ FromCursor' = Starts(log', IF "cursor" \in stale' THEN 0 ELSE cursor'.offset)
         /\ FromCur' = Starts(File', cur'.offset)
                         \cup (IF "cur" \in stale' THEN Starts(log', 0) ELSE {})
                         \cup (IF pc' \in {"publish", "advance"} THEN {line'} ELSE {})
         /\ Starts(log, 0)' = Starts(log', 0)
         /\ (pc' \notin {"publish", "advance"} => PendingInv')
         /\ (/\ cur'.offset < next'
             /\ "cur" \notin stale' => next' <= Len(log') /\ line' \in Starts(log', cur'.offset)
             /\ Starts(File', cur'.offset) \subseteq Starts(File', next') \cup {line'}
             /\ \A l \in Starts(File', next') : line' < l
             /\ "cur" \in stale' => \A l \in Starts(log', 0) : line' < l
             /\ kind[line'] # "poison") => PendingInv'
  BY DEF FromCursor, FromCur, Starts, PendingInv, Running

LEMMA ChainStays ==
  ASSUME OrderInv, kind' = kind, chain' = chain
  PROVE  ChainInv'
  BY DEF OrderInv, ChainInv

LEMMA TalliesStay ==
  ASSUME TypeInv, OrderInv, chain' = chain,
         cur'.sequence = cur.sequence, cursor'.sequence = cursor.sequence,
         Follows(chain, {}, FromCur, FromCursor, Starts(log, 0), FromCur', FromCursor', Starts(log, 0)')
  PROVE  Tallies(chain', FromCur', cur'.sequence, FromCursor', cursor'.sequence, Starts(log, 0)')
  BY Compared, TalliesGrow

\* Where things are as long as the run has the file at logPath and knows it.
LEMMA Places ==
  ASSUME TypeInv, OrderInv
  PROVE  /\ "cur" \notin stale => /\ ~detached /\ File = log /\ cur.offset <= Len(log)
                                  /\ FromCur = Starts(log, cur.offset)
         /\ "cur" \in stale => Starts(log, 0) \subseteq FromCur
         /\ Starts(log, cur.offset) \subseteq Starts(log, 0)
         /\ Starts(log, cursor.offset) \subseteq Starts(log, 0)
         /\ FromCursor \subseteq Starts(log, 0)
         /\ "cur" \in stale => Starts(log, cur.offset) = {}
         /\ Running => line \in FromCur
<1>1. PlaceInv /\ PendingInv
  BY DEF OrderInv
<1>2. Starts(log, cur.offset) \subseteq Starts(log, 0) /\ Starts(log, cursor.offset) \subseteq Starts(log, 0)
  BY Typed, StartsShrink
<1>3. FromCursor \subseteq Starts(log, 0)
  BY <1>2 DEF FromCursor
<1>4. "cur" \notin stale => ~detached /\ File = log /\ cur.offset <= Len(log)
  BY <1>1 DEF PlaceInv, File
<1>5. "cur" \notin stale => FromCur = Starts(log, cur.offset)
  BY <1>1, <1>4 DEF FromCur, PendingInv
<1>6. "cur" \in stale => Starts(log, cur.offset) = {}
  <2>1. "cur" \in stale => Len(log) <= cur.offset
    BY <1>1, Typed DEF PlaceInv
  <2> QED
    BY <2>1, Typed, StartsNone
<1> QED
  BY <1>2, <1>3, <1>4, <1>5, <1>6 DEF FromCur

\* The run returns, and its file and its line are let go.
LEMMA ReturnPlaces ==
  ASSUME TypeInv, OrderInv, Returns, UNCHANGED <<kind, log, cur, cursor, stale>>
  PROVE  /\ PlaceInv' /\ PendingInv' /\ FromCursor' = FromCursor /\ Starts(log, 0)' = Starts(log, 0)
         /\ FromCur' = Starts(log, cur.offset) \cup (IF "cur" \in stale THEN Starts(log, 0) ELSE {})
         /\ \A ch : Follows(ch, {}, FromCur, FromCursor, Starts(log, 0),
                            FromCur', FromCursor', Starts(log, 0)')
<1>1. pc' = "idle" /\ detached' = FALSE /\ File' = log'
  BY DEF Returns, File
<1>2. PlaceInv'
  BY <1>1 DEF OrderInv, PlaceInv
<1>3. PendingInv'
  BY <1>1, NextPlaces
<1>4. /\ FromCursor' = FromCursor /\ Starts(log, 0)' = Starts(log, 0)
      /\ FromCur' = Starts(log, cur.offset) \cup (IF "cur" \in stale THEN Starts(log, 0) ELSE {})
  <2>1. FromCursor' = Starts(log, IF "cursor" \in stale THEN 0 ELSE cursor.offset)
    BY NextPlaces
  <2> QED
    BY <1>1, <2>1, NextPlaces DEF FromCursor
<1>5. CASE "cur" \in stale
  <2>1. FromCur' = Starts(log, 0) /\ FromCur' \subseteq FromCur /\ FromCursor \subseteq FromCur'
    BY <1>4, <1>5, Places
  <2> QED
    BY <1>2, <1>3, <1>4, <2>1 DEF Follows
<1>6. CASE "cur" \notin stale
  <2>1. FromCur' = FromCur
    BY <1>4, <1>6, Places
  <2> QED
    BY <1>2, <1>3, <1>4, <2>1 DEF Follows
<1> QED
  BY <1>5, <1>6

LEMMA ReturnOrder ==
  ASSUME TypeInv, OrderInv, Returns, UNCHANGED <<kind, log, cur, cursor, stale, chain>>
  PROVE  OrderInv'
<1>1. PlaceInv' /\ PendingInv' /\ ChainInv'
  BY ReturnPlaces, ChainStays
<1>2. Tallies(chain', FromCur', cur'.sequence, FromCursor', cursor'.sequence, Starts(log, 0)')
  BY ReturnPlaces, TalliesStay
<1> QED
  BY <1>1, <1>2 DEF OrderInv

LEMMA RotatesOrder == ASSUME TypeInv, OrderInv, Rotates PROVE OrderInv'
<1>1. /\ UNCHANGED <<kind, cur, cursor, pc, line, next, chain>>
      /\ Len(log) > 0 /\ log' = <<>>
      /\ \/ pc # "idle" /\ ~detached /\ detached' = TRUE /\ old' = log
         \/ UNCHANGED <<old, detached>>
      /\ stale' = {x \in {"cur", "cursor"} :
                     IF x = "cur" THEN cur.offset > 0 \/ pc # "idle" ELSE cursor.offset > 0}
  BY DEF Rotates, ingest
<1>2. /\ "cur" \in stale' <=> cur.offset > 0 \/ pc # "idle"
      /\ "cursor" \in stale' <=> cursor.offset > 0
  BY <1>1
<1>3. detached' => pc # "idle"
  BY <1>1 DEF TypeInv, FilesInv
<1>4. PlaceInv'
  <2>1. Len(log') = 0
    BY <1>1
  <2> QED
    BY <1>1, <1>2, <1>3, <2>1, Typed DEF PlaceInv
<1>5. \A o \in Nat : Starts(log', o) = {}
  BY <1>1, StartsNone
<1>6. File' = File \/ File' = log'
  BY <1>1 DEF File
<1>7. \A o \in Nat : Starts(File', o) \subseteq Starts(File, o)
  BY <1>5, <1>6
<1>8. FromCursor' = {} /\ Starts(log, 0)' = {}
  <2>1. FromCursor' = Starts(log', IF "cursor" \in stale' THEN 0 ELSE cursor'.offset)
    BY <1>1, NextPlaces
  <2>2. cursor'.offset \in Nat
    BY <1>1, Typed
  <2> QED
    BY <1>1, <1>5, <2>1, <2>2, NextPlaces
<1>9. FromCur' \subseteq FromCur
  <2>1. FromCur' = Starts(File', cur'.offset)
                     \cup (IF "cur" \in stale' THEN Starts(log', 0) ELSE {})
                     \cup (IF pc' \in {"publish", "advance"} THEN {line'} ELSE {})
    BY <1>1, NextPlaces
  <2>2. Starts(File', cur'.offset) \subseteq Starts(File, cur.offset) /\ Starts(log', 0) = {}
    BY <1>1, <1>5, <1>7, Typed
  <2> QED
    BY <1>1, <2>1, <2>2 DEF FromCur, Running
<1>10. PendingInv'
  <2>1. CASE pc \notin {"publish", "advance"}
    BY <1>1, <2>1, NextPlaces
  <2>2. CASE pc \in {"publish", "advance"}
    <3>1. /\ cur.offset < next
          /\ Starts(File, cur.offset) \subseteq Starts(File, next) \cup {line}
          /\ \A l \in Starts(File, next) : line < l
          /\ kind[line] # "poison"
      BY <2>2 DEF OrderInv, PendingInv, Running
    <3>2. "cur" \in stale'
      BY <1>2, <2>2
    <3>3. Starts(log', 0) = {} /\ Starts(File', next) \subseteq Starts(File, next)
      BY <1>5, <1>7, Typed
    <3>4. Starts(File', cur.offset) \subseteq Starts(File', next) \cup {line}
      <4>1. CASE File' = File
        BY <3>1, <4>1
      <4>2. CASE File' = log'
        BY <4>2, <1>5, Typed
      <4> QED
        BY <1>6, <4>1, <4>2
    <3> QED
      BY <1>1, <3>1, <3>2, <3>3, <3>4, NextPlaces
  <2> QED
    BY <2>1, <2>2
<1>11. Follows(chain, {}, FromCur, FromCursor, Starts(log, 0), FromCur', FromCursor', Starts(log, 0)')
  BY <1>8, <1>9 DEF Follows
<1>12. Tallies(chain', FromCur', cur'.sequence, FromCursor', cursor'.sequence, Starts(log, 0)')
  BY <1>1, <1>11, TalliesStay
<1> QED
  BY <1>1, <1>4, <1>10, <1>12, ChainStays DEF OrderInv

LEMMA StandsOrder ==
  ASSUME TypeInv, OrderInv,
         UNCHANGED <<kind, log, old, detached, pc, line, next, cur, cursor, stale, chain>>
  PROVE  OrderInv'
<1>1. File' = File /\ Running' = Running
  BY DEF File, Running
<1>2. FromCur' = FromCur /\ FromCursor' = FromCursor /\ Starts(log, 0)' = Starts(log, 0)
  BY <1>1 DEF FromCur, FromCursor, Starts
<1>3. PlaceInv'
  BY DEF OrderInv, PlaceInv
<1>4. PendingInv'
  <2>1. CASE ~Running
    BY <1>1, <2>1 DEF PendingInv
  <2>2. CASE Running
    BY <1>1, <2>2, NextPlaces DEF OrderInv, PendingInv
  <2> QED
    BY <2>1, <2>2
<1> QED
  BY <1>2, <1>3, <1>4, ChainStays DEF OrderInv

\* The cursor is written where the tailer is.
LEMMA SavedTallies ==
  ASSUME TypeInv, OrderInv, chain' = chain,
         cur'.sequence = cur.sequence, cursor'.sequence = cur.sequence,
         FromCur' = FromCur, Starts(log, 0)' = Starts(log, 0),
         FromCursor' \subseteq FromCur,
         Starts(log, 0) \ FromCursor' \subseteq Starts(log, 0) \ FromCur
  PROVE  Tallies(chain', FromCur', cur'.sequence, FromCursor', cursor'.sequence, Starts(log, 0)')
BY Compared, TalliesSave

\* Opening the log moves the tailer to where it would have begun.
LEMMA OpensPlaces ==
  ASSUME TypeInv, OrderInv, Opens
  PROVE  /\ UNCHANGED <<kind, log, chain>> /\ pc' = "read" /\ ~detached' /\ "cur" \notin stale'
         /\ PlaceInv' /\ cur'.sequence = cur.sequence
         /\ FromCur' = FromCur /\ Starts(log, 0)' = Starts(log, 0)
         /\ \/ cursor'.sequence = cursor.sequence /\ FromCursor' = FromCursor
            \/ cursor'.sequence = cur.sequence /\ FromCursor' = FromCur
<1>1. /\ UNCHANGED <<kind, log, old, detached, line, next, chain>>
      /\ pc = "idle" /\ pc' = "read"
  BY DEF Opens, edge, ingest
<1>2. ~detached /\ File = log /\ File' = log /\ ~Running
  BY <1>1 DEF TypeInv, FilesInv, File, Running
<1>3. PlaceInv
  BY DEF OrderInv
<1>5. /\ FromCursor' = Starts(log, IF "cursor" \in stale' THEN 0 ELSE cursor'.offset)
      /\ FromCur' = Starts(log, cur'.offset) \cup (IF "cur" \in stale' THEN Starts(log, 0) ELSE {})
      /\ Starts(log, 0)' = Starts(log, 0)
  BY <1>1, <1>2, NextPlaces
<1>6. FromCur = Starts(log, cur.offset) \cup (IF "cur" \in stale THEN Starts(log, 0) ELSE {})
  BY <1>2 DEF FromCur
<1>7. CASE Len(log) < cur.offset
  <2>1. "cur" \in stale /\ FromCur = Starts(log, 0)
    <3>1. "cur" \in stale
      BY <1>3, <1>7, Typed DEF PlaceInv
    <3> QED
      BY <3>1, <1>6, Places
  <2>2. /\ cur' = [cur EXCEPT !.offset = 0] /\ "cur" \notin stale'
        /\ \/ cursor' = cur' /\ stale' = {}
           \/ cursor' = cursor /\ ("cursor" \in stale' <=> "cursor" \in stale)
    BY <1>7 DEF Opens, PersistFails
  <2>3. cur'.offset = 0 /\ cur'.sequence = cur.sequence
    BY <2>2, Typed
  <2>4. FromCur' = FromCur
    BY <1>5, <2>1, <2>2, <2>3
  <2>5. PlaceInv'
    BY <1>1, <1>2, <1>3, <2>2, <2>3, Typed DEF PlaceInv
  <2>6. CASE cursor' = cur' /\ stale' = {}
    <3>1. FromCursor' = FromCur
      BY <1>5, <2>1, <2>3, <2>6
    <3> QED
      BY <1>1, <1>2, <1>5, <2>2, <2>3, <2>4, <2>5, <2>6, <3>1
  <2>7. CASE cursor' = cursor /\ ("cursor" \in stale' <=> "cursor" \in stale)
    <3>1. FromCursor' = FromCursor
      BY <1>5, <2>7 DEF FromCursor
    <3> QED
      BY <1>1, <1>2, <1>5, <2>2, <2>3, <2>4, <2>5, <2>7, <3>1
  <2> QED
    BY <2>2, <2>6, <2>7
<1>8. CASE ~(Len(log) < cur.offset)
  <2>1. cur' = cur /\ cursor' = cursor /\ stale' = stale \ {"cur"}
    BY <1>8 DEF Opens
  <2>2. /\ "cur" \notin stale' /\ ("cursor" \in stale' <=> "cursor" \in stale)
    BY <2>1
  <2>3. "cur" \in stale => log = <<>>
    BY <1>3, <1>8 DEF PlaceInv
  <2>4. log = <<>> => \A o \in Nat : Starts(log, o) = {}
    BY StartsNone
  <2>5. FromCur' = FromCur
    <3>1. CASE "cur" \in stale
      BY <3>1, <1>5, <1>6, <2>1, <2>2, <2>3, <2>4, Typed
    <3>2. CASE "cur" \notin stale
      BY <3>2, <1>5, <1>6, <2>1, <2>2
    <3> QED
      BY <3>1, <3>2
  <2>6. FromCursor' = FromCursor
    BY <1>5, <2>1, <2>2 DEF FromCursor
  <2>7. PlaceInv'
    <3>1. cur.offset <= Len(log)
      BY <1>8, Typed
    <3> QED
      BY <1>1, <1>2, <1>3, <2>1, <2>2, <3>1 DEF PlaceInv
  <2> QED
    BY <1>1, <1>2, <1>5, <2>1, <2>2, <2>5, <2>6, <2>7
<1> QED
  BY <1>7, <1>8

LEMMA OpensOrder == ASSUME TypeInv, OrderInv, Opens PROVE OrderInv'
<1>1. /\ UNCHANGED <<kind, log, chain>> /\ pc' = "read" /\ PlaceInv'
      /\ cur'.sequence = cur.sequence
      /\ FromCur' = FromCur /\ Starts(log, 0)' = Starts(log, 0)
      /\ \/ cursor'.sequence = cursor.sequence /\ FromCursor' = FromCursor
         \/ cursor'.sequence = cur.sequence /\ FromCursor' = FromCur
  BY OpensPlaces
<1>2. PendingInv' /\ ChainInv'
  BY <1>1, NextPlaces, ChainStays
<1>3. Tallies(chain', FromCur', cur'.sequence, FromCursor', cursor'.sequence, Starts(log, 0)')
  <2>1. CASE cursor'.sequence = cursor.sequence /\ FromCursor' = FromCursor
    <3>1. Follows(chain, {}, FromCur, FromCursor, Starts(log, 0), FromCur', FromCursor', Starts(log, 0)')
      BY <1>1, <2>1 DEF Follows
    <3> QED
      BY <1>1, <2>1, <3>1, TalliesStay
  <2>2. CASE cursor'.sequence = cur.sequence /\ FromCursor' = FromCur
    BY <1>1, <2>2, SavedTallies
  <2> QED
    BY <1>1, <2>1, <2>2
<1> QED
  BY <1>1, <1>2, <1>3 DEF OrderInv

\* A tailer whose offset is that of an earlier log finds lines only in the file
\* that it has open.
LEMMA StaleReads ==
  ASSUME TypeInv, OrderInv, "cur" \in stale, LineEnds # {}
  PROVE  detached
<1> SUFFICES ASSUME ~detached PROVE FALSE
  OBVIOUS
<1>1. File = log
  BY DEF File
<1>2. cur.offset + 1 <= NextEnd /\ NextEnd <= Len(log) /\ NextEnd \in Nat
  BY <1>1, FirstEnd
<1>3. log = <<>> \/ Len(log) < cur.offset
  BY DEF OrderInv, PlaceInv
<1>4. log = <<>> => Len(log) = 0
  OBVIOUS
<1> QED
  BY <1>2, <1>3, <1>4, Typed

\* A line that is skipped was not to come.
LEMMA SkipsPlaces ==
  ASSUME TypeInv, OrderInv, SkipsLine
  PROVE  /\ UNCHANGED <<kind, log, old, detached, chain>> /\ pc' = "read" /\ LineEnds # {}
         /\ PlaceInv' /\ cur'.sequence = cur.sequence
         /\ "cur" \in stale' <=> "cur" \in stale
         /\ FromCur' = FromCur /\ Starts(log, 0)' = Starts(log, 0)
         /\ \/ cursor'.sequence = cursor.sequence /\ FromCursor' = FromCursor
            \/ /\ cursor'.sequence = cur.sequence /\ FromCursor' \subseteq FromCur
               /\ Starts(log, 0) \ FromCursor' \subseteq Starts(log, 0) \ FromCur
               /\ "cur" \notin stale => FromCursor' = FromCur
<1>1. /\ UNCHANGED <<kind, log, old, detached, pc, line, next, chain>>
      /\ pc = "read" /\ LineEnds # {} /\ ~Converts(cur.offset + 1, NextEnd)
      /\ cur' = [cur EXCEPT !.offset = NextEnd]
      /\ \/ Persisted
         \/ cursor' = cursor /\ stale' = stale
  BY DEF SkipsLine, PersistFails, edge, run, ingest
<1>2. File' = File /\ ~Running
  BY <1>1 DEF File, Running
<1>3. NextEnd \in Nat /\ cur.offset < NextEnd /\ NextEnd <= Len(File)
  BY <1>1, FirstEnd
<1>4. cur'.offset = NextEnd /\ cur'.sequence = cur.sequence
  BY <1>1, <1>3, Typed
<1>5. "cur" \in stale' <=> "cur" \in stale
  BY <1>1 DEF Persisted
<1>6. /\ FromCursor' = Starts(log, IF "cursor" \in stale' THEN 0 ELSE cursor'.offset)
      /\ FromCur' = Starts(File, NextEnd) \cup (IF "cur" \in stale THEN Starts(log, 0) ELSE {})
      /\ Starts(log, 0)' = Starts(log, 0)
  BY <1>1, <1>2, <1>4, <1>5, NextPlaces
<1>7. FromCur' = FromCur
  BY <1>1, <1>2, <1>6, StartsRead DEF FromCur
<1>9. "cur" \in stale => detached
  BY <1>1, StaleReads
<1>10. PlaceInv
  BY DEF OrderInv
<1>11. IF "cur" \in stale THEN log = <<>> \/ Len(log) < NextEnd ELSE NextEnd <= Len(log)
  <2>1. CASE "cur" \in stale
    <3>1. log = <<>> \/ Len(log) < cur.offset
      BY <2>1, <1>10 DEF PlaceInv
    <3> QED
      BY <2>1, <3>1, <1>3, Typed
  <2>2. CASE "cur" \notin stale
    BY <2>2, <1>3, Places
  <2> QED
    BY <2>1, <2>2
<1>12. CASE Persisted
  <2>1. cursor' = cur' /\ stale' = IF "cur" \in stale THEN {"cur", "cursor"} ELSE {}
    BY <1>12 DEF Persisted
  <2>2. CASE "cur" \in stale
    <3>1. "cursor" \in stale' /\ FromCursor' = Starts(log, 0)
      BY <2>1, <2>2, <1>6
    <3>2. Starts(log, 0) \subseteq FromCur
      BY <2>2, Places
    <3>4. PlaceInv'
      <4>1. log = <<>> => Len(log) = 0
        OBVIOUS
      <4>2. Len(log) < NextEnd
        BY <4>1, <1>3, <1>11, <2>2, Typed
      <4> QED
        BY <1>1, <1>4, <2>1, <2>2, <4>2 DEF PlaceInv
    <3> QED
      BY <1>1, <1>4, <1>5, <1>6, <1>7, <2>1, <2>2, <3>1, <3>2, <3>4
  <2>3. CASE "cur" \notin stale
    <3>1. FromCursor' = FromCur
      <4>1. File = log
        BY <2>3, Places
      <4> QED
        BY <2>1, <2>3, <4>1, <1>4, <1>6, <1>7
    <3>3. PlaceInv'
      BY <1>1, <1>4, <1>10, <1>11, <2>1, <2>3 DEF PlaceInv
    <3> QED
      BY <1>1, <1>4, <1>5, <1>6, <1>7, <2>1, <3>1, <3>3
  <2> QED
    BY <2>2, <2>3
<1>13. CASE cursor' = cursor /\ stale' = stale
  <2>1. FromCursor' = FromCursor
    BY <1>6, <1>13 DEF FromCursor
  <2>4. PlaceInv'
    BY <1>1, <1>4, <1>10, <1>11, <1>13 DEF PlaceInv
  <2> QED
    BY <1>1, <1>4, <1>5, <1>6, <1>7, <1>13, <2>1, <2>4
<1> QED
  BY <1>1, <1>12, <1>13

LEMMA SkipsOrder == ASSUME TypeInv, OrderInv, SkipsLine PROVE OrderInv'
<1>1. /\ UNCHANGED <<kind, log, chain>> /\ pc' = "read" /\ PlaceInv'
      /\ cur'.sequence = cur.sequence
      /\ FromCur' = FromCur /\ Starts(log, 0)' = Starts(log, 0)
      /\ \/ cursor'.sequence = cursor.sequence /\ FromCursor' = FromCursor
         \/ /\ cursor'.sequence = cur.sequence /\ FromCursor' \subseteq FromCur
            /\ Starts(log, 0) \ FromCursor' \subseteq Starts(log, 0) \ FromCur
  BY SkipsPlaces
<1>2. PendingInv' /\ ChainInv'
  BY <1>1, NextPlaces, ChainStays
<1>3. Tallies(chain', FromCur', cur'.sequence, FromCursor', cursor'.sequence, Starts(log, 0)')
  <2>1. CASE cursor'.sequence = cursor.sequence /\ FromCursor' = FromCursor
    <3>1. Follows(chain, {}, FromCur, FromCursor, Starts(log, 0), FromCur', FromCursor', Starts(log, 0)')
      BY <1>1, <2>1 DEF Follows
    <3> QED
      BY <1>1, <2>1, <3>1, TalliesStay
  <2>2. CASE /\ cursor'.sequence = cur.sequence /\ FromCursor' \subseteq FromCur
             /\ Starts(log, 0) \ FromCursor' \subseteq Starts(log, 0) \ FromCur
    BY <1>1, <2>2, SavedTallies
  <2> QED
    BY <1>1, <2>1, <2>2
<1> QED
  BY <1>1, <1>2, <1>3 DEF OrderInv

\* The lines of the log are behind those of a file that was moved away.
LEMMA OldBeforeLog ==
  ASSUME TypeInv, detached, NEW l \in Starts(log, 0), NEW j \in 1..Len(old)
  PROVE  old[j][1] < l
<1>1. PICK k \in 1..Len(log) : l = log[k][1]
  BY Typed DEF Starts
<1>2. old[j][1] <= Passed(log, 0)
  BY DEF TypeInv, FilesInv
<1>3. Cells(log) /\ Cells(old) /\ InOrder(log) /\ Len(log) \in Nat /\ Len(kind) \in Nat
  BY Typed DEF IsLog
<1>4. 1 \in 1..Len(log) /\ 0 \notin 1..Len(log) /\ log # <<>>
  BY <1>1, <1>3
<1>5. /\ log[1][1] \in 1..Len(kind) /\ log[k][1] \in 1..Len(kind) /\ old[j][1] \in 1..Len(kind)
  BY <1>1, <1>3, <1>4 DEF Cells
<1>6. log[1][1] <= log[k][1]
  <2>1. CASE k = 1
    BY <2>1, <1>3, <1>5
  <2>2. CASE k # 1
    BY <2>2, <1>1, <1>3, <1>4 DEF InOrder
  <2> QED
    BY <2>1, <2>2
<1>7. Passed(log, 0) = log[1][1] - 1
  BY <1>4 DEF Passed
<1> QED
  BY <1>1, <1>2, <1>3, <1>5, <1>6, <1>7

\* The line that is read was to come already.
LEMMA ReadsPlaces ==
  ASSUME TypeInv, OrderInv, ReadsLine
  PROVE  FromCursor' = FromCursor /\ FromCur' = FromCur /\ Starts(log, 0)' = Starts(log, 0)
<1>1. /\ UNCHANGED <<kind, log, cur, cursor, old, detached, chain, stale>>
      /\ LineEnds # {} /\ Converts(cur.offset + 1, NextEnd)
      /\ pc = "read" /\ pc' = "publish" /\ line' = File[cur.offset + 1][1]
  BY DEF ReadsLine, edge, ingest, history
<1>2. File' = File /\ ~Running
  BY <1>1 DEF File, Running
<1>3. line' \in Starts(File, cur.offset)
  BY <1>1, StartsRead
<1>4. /\ FromCursor' = FromCursor /\ FromCur' = FromCur /\ Starts(log, 0)' = Starts(log, 0)
  <2>1. FromCursor' = FromCursor /\ Starts(log, 0)' = Starts(log, 0)
    BY <1>1, NextPlaces DEF FromCursor
  <2>2. FromCur' = Starts(File, cur.offset) \cup (IF "cur" \in stale THEN Starts(log, 0) ELSE {})
                                            \cup {line'}
    BY <1>1, <1>2, NextPlaces
  <2>3. FromCur = Starts(File, cur.offset) \cup (IF "cur" \in stale THEN Starts(log, 0) ELSE {})
    BY <1>2 DEF FromCur
  <2> QED
    BY <2>1, <2>2, <2>3, <1>3
<1> QED
  BY <1>4

LEMMA ReadsOrder == ASSUME TypeInv, OrderInv, ReadsLine PROVE OrderInv'
<1>1. /\ UNCHANGED <<kind, log, cur, cursor, old, detached, chain, stale>>
      /\ LineEnds # {} /\ Converts(cur.offset + 1, NextEnd)
      /\ pc = "read" /\ pc' = "publish" /\ line' = File[cur.offset + 1][1] /\ next' = NextEnd
  BY DEF ReadsLine, edge, ingest, history
<1>2. File' = File /\ ~Running
  BY <1>1 DEF File, Running
<1>3. NextEnd \in Nat /\ cur.offset < NextEnd /\ NextEnd <= Len(File) /\ cur.offset + 1 <= NextEnd
  BY <1>1, FirstEnd
<1>4. /\ line' \in Starts(File, cur.offset)
      /\ Starts(File, cur.offset) \subseteq Starts(File, NextEnd) \cup {line'}
      /\ \A l \in Starts(File, NextEnd) : line' < l
  BY <1>1, StartsRead
<1>5. kind[line'] # "poison"
  BY <1>1 DEF Converts
<1>6. "cur" \notin stale => NextEnd <= Len(log) /\ line' \in Starts(log, cur.offset)
  BY <1>3, <1>4, Places
<1>7. "cur" \in stale => \A l \in Starts(log, 0) : line' < l
  <2> SUFFICES ASSUME "cur" \in stale, NEW l \in Starts(log, 0) PROVE line' < l
    OBVIOUS
  <2>1. detached /\ File = old
    BY <1>1, StaleReads DEF File
  <2>2. cur.offset + 1 \in 1..Len(old)
    BY <1>3, <2>1, Typed
  <2> QED
    BY <1>1, <2>1, <2>2, OldBeforeLog
<1>8. PendingInv'
  BY <1>1, <1>2, <1>3, <1>4, <1>5, <1>6, <1>7, NextPlaces
<1>9. FromCursor' = FromCursor /\ FromCur' = FromCur /\ Starts(log, 0)' = Starts(log, 0)
  BY ReadsPlaces
<1>10. PlaceInv'
  BY <1>1 DEF OrderInv, PlaceInv
<1>11. Follows(chain, {}, FromCur, FromCursor, Starts(log, 0), FromCur', FromCursor', Starts(log, 0)')
  BY <1>9 DEF Follows
<1>12. Tallies(chain', FromCur', cur'.sequence, FromCursor', cursor'.sequence, Starts(log, 0)')
  BY <1>1, <1>11, TalliesStay
<1> QED
  BY <1>1, <1>8, <1>10, <1>12, ChainStays DEF OrderInv

\* The line of a run is the first of all that is to come.
LEMMA FirstToCome ==
  ASSUME TypeInv, OrderInv, Running
  PROVE  /\ line \in FromCur /\ line \in 1..Len(kind) /\ kind[line] # "poison"
         /\ \A l \in FromCur : line <= l
<1>1. /\ Starts(File, cur.offset) \subseteq Starts(File, next) \cup {line}
      /\ \A l \in Starts(File, next) : line < l
      /\ "cur" \in stale => \A l \in Starts(log, 0) : line < l
      /\ kind[line] # "poison"
  BY DEF OrderInv, PendingInv
<1>2. line \in FromCur
  BY Places
<1>3. FromCur \in SUBSET (1..Len(kind)) /\ Len(kind) \in Nat
  BY Compared, Typed DEF Counted
<1>4. ASSUME NEW l \in FromCur, l # line PROVE line < l
  BY <1>1, <1>4 DEF FromCur
<1> QED
  BY <1>1, <1>2, <1>3, <1>4

\* A record is appended for the first line to come, or none.
LEMMA CommitOrder ==
  ASSUME TypeInv, OrderInv, pc = "publish", Admits, UNCHANGED kind
  PROVE  /\ ChainInv'
         /\ Counted(chain', Len(kind), FromCur, cur.sequence, FromCursor, cursor.sequence, Starts(log, 0))
<1>1. CASE chain' = chain
  BY <1>1, ChainStays, Compared
<1>2. CASE chain' # chain
  <2>1. /\ Len(chain') = Len(chain) + 1 /\ cur.sequence = Len(chain)
        /\ \A i \in 1..Len(chain) : chain'[i] = chain[i]
        /\ chain'[Len(chain) + 1].line = line
    BY <1>2, AdmitFacts
  <2>2. /\ line \in FromCur /\ line \in 1..Len(kind) /\ kind[line] # "poison"
        /\ \A l \in FromCur : line <= l
    BY FirstToCome DEF Running
  <2>3. IsChain(chain, Len(kind)) /\ Len(chain) \in Nat /\ Len(kind) \in Nat
    BY ChainTyped, Typed
  <2>4. \A i \in 1..Len(chain') : i \in 1..Len(chain) \/ i = Len(chain) + 1
    BY <2>1, <2>3
  <2>5. IsChain(chain', Len(kind))
    <3>1. Len(chain') \in Nat
      BY <2>1, <2>3
    <3>2. \A i \in 1..Len(chain') : chain'[i].line \in 1..Len(kind)
      BY <2>1, <2>2, <2>3, <2>4 DEF IsChain
    <3> QED
      BY <2>3, <3>1, <3>2 DEF IsChain
  <2>6. /\ Tallies(chain', FromCur, cur.sequence, FromCursor, cursor.sequence, Starts(log, 0))
        /\ \A i \in 1..Len(chain) : chain[i].line < line
    BY <2>1, <2>2, <2>5, Compared, TalliesCommit
  <2>7. ChainInv'
    <3>1. ASSUME NEW i \in 1..Len(chain'), NEW j \in 1..(i - 1)
          PROVE  chain'[j].line < chain'[i].line
      <4>1. j \in 1..Len(chain)
        BY <2>1, <2>3
      <4>2. CASE i = Len(chain) + 1
        BY <2>1, <2>6, <4>1, <4>2
      <4>3. CASE i \in 1..Len(chain)
        BY <2>1, <4>1, <4>3 DEF OrderInv, ChainInv
      <4> QED
        BY <2>4, <4>2, <4>3
    <3>2. ASSUME NEW i \in 1..Len(chain') PROVE kind[chain'[i].line] # "poison"
      <4>1. CASE i = Len(chain) + 1
        BY <2>1, <2>2, <4>1
      <4>2. CASE i \in 1..Len(chain)
        BY <2>1, <4>2 DEF OrderInv, ChainInv
      <4> QED
        BY <2>4, <4>1, <4>2
    <3>3. kind' = kind
      OBVIOUS
    <3> QED
      BY <3>1, <3>2, <3>3 DEF ChainInv
  <2>8. cur.sequence <= Len(chain')
    BY <2>1, <2>3
  <2> QED
    BY <2>5, <2>6, <2>7, <2>8, Compared DEF Counted
<1> QED
  BY <1>1, <1>2

LEMMA PublishOrder == ASSUME TypeInv, OrderInv, Publish PROVE OrderInv'
<1>1. CASE Refused
  BY <1>1, ReturnOrder DEF Refused, edge, ingest, history
<1>2. CASE Acknowledged
  <2>1. /\ UNCHANGED <<kind, log, cur, cursor, old, detached, line, next, stale>>
        /\ pc = "publish" /\ pc' = "advance" /\ Admits
    BY <1>2 DEF Acknowledged, edge, history
  <2>2. File' = File /\ Running' /\ Running
    BY <2>1 DEF File, Running
  <2>3. FromCur' = FromCur /\ FromCursor' = FromCursor /\ Starts(log, 0)' = Starts(log, 0)
    BY <2>1, <2>2 DEF FromCur, FromCursor, Starts
  <2>4. PlaceInv'
    BY <2>1 DEF OrderInv, PlaceInv
  <2>5. PendingInv'
    BY <2>1, <2>2, NextPlaces DEF OrderInv, PendingInv
  <2>6. /\ ChainInv'
        /\ Tallies(chain', FromCur, cur.sequence, FromCursor, cursor.sequence, Starts(log, 0))
    BY <2>1, CommitOrder DEF Counted
  <2> QED
    BY <2>1, <2>3, <2>4, <2>5, <2>6 DEF OrderInv
<1>3. CASE AnswerLost
  <2>1. /\ UNCHANGED <<kind, log, cur, cursor, stale>>
        /\ pc = "publish" /\ Returns /\ Admits
    BY <1>3 DEF AnswerLost, edge, history
  <2>2. /\ PlaceInv' /\ PendingInv'
        /\ Follows(chain', {}, FromCur, FromCursor, Starts(log, 0), FromCur', FromCursor', Starts(log, 0)')
    BY <2>1, ReturnPlaces
  <2>3. /\ ChainInv'
        /\ Counted(chain', Len(kind), FromCur, cur.sequence, FromCursor, cursor.sequence, Starts(log, 0))
    BY <2>1, CommitOrder
  <2>4. Tallies(chain', FromCur', cur.sequence, FromCursor', cursor.sequence, Starts(log, 0)')
    BY <2>2, <2>3, TalliesGrow
  <2> QED
    BY <2>1, <2>2, <2>3, <2>4 DEF OrderInv
<1> QED
  BY <1>1, <1>2, <1>3 DEF Publish

\* The line is behind.
LEMMA AdvanceFacts ==
  ASSUME TypeInv, OrderInv, Advances
  PROVE  /\ UNCHANGED <<kind, log, chain>> /\ pc' \in {"idle", "read"}
         /\ cur' = [offset |-> next, sequence |-> cur.sequence + 1]
         /\ cur'.offset = next /\ cur'.sequence = cur.sequence + 1
         /\ "cur" \in stale' <=> "cur" \in stale
         /\ detached' => detached
         /\ FromCur' \subseteq FromCur \ {line} /\ \A l \in FromCur' : line < l
         /\ "cur" \notin stale => FromCur \subseteq FromCur' \cup {line} /\ FromCur' = Starts(log, next)
         /\ "cur" \in stale => Starts(log, 0) \subseteq FromCur'
         /\ Starts(log, 0)' = Starts(log, 0)
         /\ FromCursor' = Starts(log, IF "cursor" \in stale' THEN 0 ELSE cursor'.offset)
<1>1. /\ UNCHANGED <<kind, log, chain>> /\ pc = "advance"
      /\ cur' = [offset |-> next, sequence |-> cur.sequence + 1]
      /\ \/ Persisted /\ pc' = "read" /\ UNCHANGED <<old, detached>>
         \/ PersistFails /\ Returns /\ stale' = stale
  BY DEF Advances, edge, ingest
<1>2. /\ "cur" \in stale' <=> "cur" \in stale
      /\ pc' \in {"idle", "read"} /\ (detached' => detached) /\ File' \in {File, log}
  BY <1>1 DEF Persisted, Returns, File
<1>3. cur'.offset = next /\ cur'.sequence = cur.sequence + 1
  BY <1>1
<1>4. /\ FromCursor' = Starts(log, IF "cursor" \in stale' THEN 0 ELSE cursor'.offset)
      /\ FromCur' = Starts(File', next) \cup (IF "cur" \in stale THEN Starts(log, 0) ELSE {})
      /\ Starts(log, 0)' = Starts(log, 0)
  BY <1>1, <1>2, <1>3, NextPlaces
<1>5. /\ cur.offset < next
      /\ "cur" \notin stale => next <= Len(log)
      /\ Starts(File, cur.offset) \subseteq Starts(File, next) \cup {line}
      /\ \A l \in Starts(File, next) : line < l
      /\ "cur" \in stale => \A l \in Starts(log, 0) : line < l
  BY <1>1 DEF OrderInv, PendingInv, Running
<1>6. Starts(File, next) \subseteq Starts(File, cur.offset) /\ Starts(log, next) \subseteq Starts(log, 0)
  BY <1>5, Typed, StartsShrink
<1>7. "cur" \notin stale => File = log /\ File' = log /\ FromCur = Starts(log, cur.offset)
  BY <1>2, Places
<1>8. FromCur' \subseteq Starts(File, next) \cup (IF "cur" \in stale THEN Starts(log, 0) ELSE {})
  <2>1. CASE File' = File
    BY <2>1, <1>4
  <2>2. CASE File' = log
    <3>1. CASE "cur" \in stale
      BY <3>1, <2>2, <1>4, <1>6
    <3>2. CASE "cur" \notin stale
      BY <3>2, <1>4, <1>7
    <3> QED
      BY <3>1, <3>2
  <2> QED
    BY <2>1, <2>2, <1>2
<1>9. \A l \in FromCur' : line < l
  BY <1>5, <1>8
<1>10. line \in Nat
  BY Typed
<1>11. line \notin FromCur'
  <2>1. ~(line < line)
    BY <1>10
  <2> QED
    BY <2>1, <1>9
<1>12. FromCur' \subseteq FromCur
  BY <1>6, <1>8 DEF FromCur
<1>13. "cur" \notin stale => FromCur \subseteq FromCur' \cup {line} /\ FromCur' = Starts(log, next)
  BY <1>4, <1>5, <1>7
<1>14. "cur" \in stale => Starts(log, 0) \subseteq FromCur'
  BY <1>4
<1> QED
  BY <1>1, <1>2, <1>3, <1>4, <1>9, <1>11, <1>12, <1>13, <1>14

LEMMA AdvanceTallies ==
  ASSUME TypeInv, OrderInv, Advances
  PROVE  /\ Counted(chain, Len(kind), FromCur', cur.sequence + 1, FromCursor, cursor.sequence, Starts(log, 0))
         /\ chain[cur.sequence + 1].line <= line
<1>1. pc = "advance" /\ Running
  BY DEF Advances, Running
<1>2. cur.sequence < Len(chain)
  BY <1>1 DEF TypeInv, PaceInv
<1>3. /\ FromCur' \subseteq FromCur \ {line} /\ \A l \in FromCur' : line < l
      /\ "cur" \notin stale => FromCur \subseteq FromCur' \cup {line}
      /\ "cur" \in stale => Starts(log, 0) \subseteq FromCur'
  BY AdvanceFacts
<1>4. FromCursor \subseteq Starts(log, 0) /\ line \in FromCur
  BY <1>1, Places
<1>5. /\ FromCursor \ FromCur' \subseteq (FromCursor \ FromCur) \cup {line}
      /\ Starts(log, 0) \ FromCur' \subseteq (Starts(log, 0) \ FromCur) \cup {line}
  BY <1>3, <1>4
<1>6. /\ Tallies(chain, FromCur', cur.sequence + 1, FromCursor, cursor.sequence, Starts(log, 0))
      /\ chain[cur.sequence + 1].line <= line
  <2>1. Passes(line, FromCur, FromCursor, Starts(log, 0), FromCur')
    BY <1>3, <1>4, <1>5 DEF Passes
  <2> QED
    BY <1>2, <2>1, Compared, TalliesAdvance
<1>7. /\ cur.sequence + 1 \in Nat /\ cur.sequence + 1 <= Len(chain)
      /\ cursor.sequence <= cur.sequence + 1
  BY <1>2, Typed, SMTT(30) DEF TypeInv, PaceInv
<1>8. /\ IsChain(chain, Len(kind)) /\ cursor.sequence \in Nat
      /\ FromCur \in SUBSET (1..Len(kind)) /\ FromCursor \in SUBSET (1..Len(kind))
      /\ Starts(log, 0) \in SUBSET (1..Len(kind))
  BY Compared DEF Counted
<1>9. FromCur' \in SUBSET (1..Len(kind))
  BY <1>3, <1>8
<1> QED
  BY <1>6, <1>7, <1>8, <1>9 DEF Counted

LEMMA AdvancesOrder == ASSUME TypeInv, OrderInv, Advances PROVE OrderInv'
<1>1. /\ UNCHANGED <<kind, log, chain>> /\ pc' \in {"idle", "read"}
      /\ cur'.offset = next /\ cur'.sequence = cur.sequence + 1
      /\ "cur" \in stale' <=> "cur" \in stale
      /\ detached' => detached
      /\ "cur" \notin stale => FromCur' = Starts(log, next)
      /\ "cur" \in stale => Starts(log, 0) \subseteq FromCur'
      /\ Starts(log, 0)' = Starts(log, 0)
      /\ FromCursor' = Starts(log, IF "cursor" \in stale' THEN 0 ELSE cursor'.offset)
  BY AdvanceFacts
<1>2. PendingInv' /\ ChainInv'
  BY <1>1, NextPlaces, ChainStays
<1>3. Counted(chain, Len(kind), FromCur', cur.sequence + 1, FromCursor, cursor.sequence, Starts(log, 0))
  BY AdvanceTallies
<1>4. /\ cur.offset < next /\ ("cur" \notin stale => next <= Len(log))
      /\ PlaceInv
  BY DEF OrderInv, PendingInv, Running, Advances
<1>5. IF "cur" \in stale THEN Len(log) < next ELSE next <= Len(log)
  <2>1. CASE "cur" \in stale
    <3>1. log = <<>> => Len(log) = 0
      OBVIOUS
    <3> QED
      BY <2>1, <3>1, <1>4, Typed DEF PlaceInv
  <2>2. CASE "cur" \notin stale
    BY <2>2, <1>4
  <2> QED
    BY <2>1, <2>2
<1>6. CASE Persisted
  <2>1. cursor' = cur' /\ stale' = IF "cur" \in stale THEN {"cur", "cursor"} ELSE {}
    BY <1>6 DEF Persisted
  <2>2. FromCursor' \subseteq FromCur' /\ Starts(log, 0) \ FromCursor' \subseteq Starts(log, 0) \ FromCur'
    <3>1. CASE "cur" \in stale
      BY <3>1, <2>1, <1>1
    <3>2. CASE "cur" \notin stale
      BY <3>2, <2>1, <1>1
    <3> QED
      BY <3>1, <3>2
  <2>3. Tallies(chain, FromCur', cur.sequence + 1, FromCursor', cur.sequence + 1, Starts(log, 0))
    BY <1>3, <2>2, TalliesSave
  <2>4. PlaceInv'
    BY <1>1, <1>4, <1>5, <2>1 DEF PlaceInv
  <2> QED
    BY <1>1, <1>2, <2>1, <2>3, <2>4 DEF OrderInv
<1>7. CASE cursor' = cursor /\ stale' = stale
  <2>1. FromCursor' = FromCursor
    BY <1>1, <1>7 DEF FromCursor
  <2>2. PlaceInv'
    BY <1>1, <1>4, <1>5, <1>7 DEF PlaceInv
  <2> QED
    BY <1>1, <1>2, <1>3, <1>7, <2>1, <2>2 DEF OrderInv, Counted
<1> QED
  BY <1>6, <1>7 DEF Advances, PersistFails

\* A restarted tailer is at the cursor or at the beginning.
LEMMA RestartsPlaces ==
  ASSUME TypeInv, OrderInv, Restarts
  PROVE  /\ UNCHANGED <<kind, log, chain>> /\ pc' = "idle" /\ ~detached' /\ PlaceInv'
         /\ cursor'.sequence = cur'.sequence
         /\ FromCur' = FromCursor' /\ Starts(log, 0)' = Starts(log, 0)
         /\ \/ cur'.sequence = cursor.sequence /\ FromCursor' = FromCursor
            \/ "lostCursor" \in faults /\ cur'.sequence = 0 /\ FromCursor' = Starts(log, 0)
<1>1. /\ UNCHANGED <<kind, log, chain>> /\ pc' = "idle" /\ ~detached' /\ File' = log /\ cur' = cursor'
  BY DEF Restarts, edge, ingest, Returns, File
<1>3. /\ FromCursor' = Starts(log, IF "cursor" \in stale' THEN 0 ELSE cursor'.offset)
      /\ FromCur' = Starts(log, cur'.offset) \cup (IF "cur" \in stale' THEN Starts(log, 0) ELSE {})
      /\ Starts(log, 0)' = Starts(log, 0)
  BY <1>1, NextPlaces
<1>4. PlaceInv
  BY DEF OrderInv
<1>5. CASE cursor' = cursor /\ stale' = IF "cursor" \in stale THEN {"cur", "cursor"} ELSE {}
  <2>1. /\ "cursor" \in stale' <=> "cursor" \in stale
        /\ "cur" \in stale' <=> "cursor" \in stale
    BY <1>5
  <2>2. FromCursor' = FromCursor
    BY <1>3, <1>5, <2>1 DEF FromCursor
  <2>3. Starts(log, cursor.offset) \subseteq Starts(log, 0)
    BY Places
  <2>4. FromCur' = FromCursor
    <3>1. FromCur' = Starts(log, cursor.offset) \cup (IF "cursor" \in stale THEN Starts(log, 0) ELSE {})
      BY <1>1, <1>3, <1>5, <2>1
    <3> QED
      BY <3>1, <2>3 DEF FromCursor
  <2>6. PlaceInv'
    BY <1>1, <1>4, <1>5, <2>1 DEF PlaceInv
  <2> QED
    BY <1>1, <1>3, <1>5, <2>2, <2>4, <2>6
<1>6. CASE "lostCursor" \in faults /\ cursor' = Genesis /\ stale' = {}
  <2>1. cursor'.offset = 0 /\ cursor'.sequence = 0 /\ cur'.offset = 0 /\ cur'.sequence = 0
    BY <1>1, <1>6 DEF Genesis
  <2>2. FromCursor' = Starts(log, 0) /\ FromCur' = Starts(log, 0)
    BY <1>3, <1>6, <2>1
  <2>4. PlaceInv'
    BY <1>1, <1>6, <2>1, Typed DEF PlaceInv
  <2> QED
    BY <1>1, <1>3, <1>6, <2>1, <2>2, <2>4
<1> QED
  BY <1>5, <1>6 DEF Restarts

LEMMA RestartsOrder == ASSUME TypeInv, OrderInv, Restarts PROVE OrderInv'
<1>1. /\ UNCHANGED <<kind, log, chain>> /\ pc' = "idle" /\ PlaceInv'
      /\ cursor'.sequence = cur'.sequence
      /\ FromCur' = FromCursor' /\ Starts(log, 0)' = Starts(log, 0)
      /\ \/ cur'.sequence = cursor.sequence /\ FromCursor' = FromCursor
         \/ cur'.sequence = 0 /\ FromCursor' = Starts(log, 0)
  BY RestartsPlaces
<1>2. PendingInv' /\ ChainInv'
  BY <1>1, NextPlaces, ChainStays
<1>3. /\ Tallies(chain, FromCursor, cursor.sequence, FromCursor, cursor.sequence, Starts(log, 0))
      /\ Tallies(chain, Starts(log, 0), 0, Starts(log, 0), 0, Starts(log, 0))
  BY Compared, TalliesRestart
<1> QED
  BY <1>1, <1>2, <1>3 DEF OrderInv

-----------------------------------------------------------------------------
(* The order of the commits. *)

LEMMA OrderInit == Init => OrderInv
<1> SUFFICES ASSUME Init PROVE OrderInv
  OBVIOUS
<1>1. /\ kind = <<>> /\ log = <<>> /\ cur = Genesis /\ cursor = Genesis /\ pc = "idle"
      /\ detached = FALSE /\ chain = <<>> /\ stale = {}
  BY DEF Init
<1>2. cur.offset = 0 /\ cursor.offset = 0 /\ cur.sequence = 0 /\ cursor.sequence = 0
  BY <1>1 DEF Genesis
<1>3. PlaceInv /\ PendingInv
  BY <1>1, <1>2 DEF PlaceInv, PendingInv, Running
<1>4. Len(chain) = 0 /\ ChainInv
  BY <1>1 DEF ChainInv
<1>5. Starts(log, 0) = {}
  BY <1>1, StartsNone
<1>6. FromCur = {} /\ FromCursor = {}
  BY <1>1, <1>2, <1>5 DEF FromCur, FromCursor, File, Running
<1>7. Tallies(chain, {}, 0, {}, 0, {})
  <2>1. Fits(chain, {}, 0)
    BY <1>4 DEF Fits
  <2>2. {} \ {} = {} /\ Cardinality({}) = 0
    BY CountsNone
  <2>3. Cardinality({} \ {}) <= 0 - 0 /\ Cardinality({} \ {}) <= 0
    BY <2>2
  <2> QED
    BY <2>1, <2>3 DEF Tallies
<1> QED
  BY <1>2, <1>3, <1>4, <1>5, <1>6, <1>7 DEF OrderInv

LEMMA OrderStep ==
  ASSUME TypeInv, OrderInv, Without({"regrow"}), [Next]_vars
  PROVE  OrderInv'
<1>1. CASE Edge
  <2>1. ASSUME NEW k \in Kinds, BeginsLine(k) PROVE OrderInv'
    BY <2>1, GrowOrder
  <2>2. CASE ContinuesLine
    <3>1. "good" \in Kinds
      BY DEF Kinds
    <3> QED
      BY <2>2, <3>1, GrowOrder
  <2>3. CASE Rotates
    BY <2>3, RotatesOrder
  <2> QED
    BY <1>1, <2>1, <2>2, <2>3 DEF Edge
<1>2. CASE Opens
  BY <1>2, OpensOrder
<1>3. CASE ReadsNothing
  BY <1>3, ReturnOrder DEF ReadsNothing, edge, ingest, history
<1>4. CASE SkipsLine
  BY <1>4, SkipsOrder
<1>5. CASE ReadsLine
  BY <1>5, ReadsOrder
<1>6. CASE Advances
  BY <1>6, AdvancesOrder
<1>7. CASE Publish
  BY <1>7, PublishOrder
<1>8. CASE Restarts
  BY <1>8, RestartsOrder
<1>9. CASE IngestForgets
  BY <1>9, StandsOrder DEF IngestForgets, edge, run, history
<1>10. CASE UNCHANGED vars
  BY <1>10, StandsOrder DEF vars, edge, run, ingest, history
<1> QED
  BY <1>1, <1>2, <1>3, <1>4, <1>5, <1>6, <1>7, <1>8, <1>9, <1>10 DEF Next, RunOnce

LEMMA FaultsStay == [Next]_vars => faults' = faults
BY DEF Next, Edge, BeginsLine, ContinuesLine, Rotates, RunOnce, Opens, ReadsNothing, SkipsLine,
       ReadsLine, Advances, Publish, Refused, Acknowledged, AnswerLost, Restarts, IngestForgets, vars

Ordered == Without({"regrow"}) => OrderInv

LEMMA OrderHolds == Spec => [](TypeInv /\ Ordered)
<1>1. Init => TypeInv /\ Ordered
  BY TypeInit, OrderInit DEF Ordered
<1>2. TypeInv /\ Ordered /\ [Next]_vars => (TypeInv /\ Ordered)'
  <2> SUFFICES ASSUME TypeInv, Ordered, [Next]_vars PROVE TypeInv' /\ Ordered'
    OBVIOUS
  <2>1. TypeInv'
    BY TypeStep
  <2>2. Without({"regrow"})' <=> Without({"regrow"})
    BY FaultsStay DEF Without
  <2>3. Ordered'
    BY <2>2, OrderStep DEF Ordered
  <2> QED
    BY <2>1, <2>3
<1> QED
  BY <1>1, <1>2, PTL DEF Spec

\* The sequence of the channel has no gap, whatever goes wrong; and unless a
\* new log has outgrown the tailer's offset when it looks, the chain has the
\* lines in the order in which the edge wrote them, none twice: across
\* restarts, failed and lost cursors, lost answers and rotations at any time
\* (tail.go:84-86, publish.go:129-130).
THEOREM CommittedInOrder == Spec => []CommittedOnceInOrder
<1>1. TypeInv /\ Ordered => CommittedOnceInOrder
  BY DEF TypeInv, PaceInv, Ordered, OrderInv, ChainInv, CommittedOnceInOrder
<1> QED
  BY OrderHolds, <1>1, PTL

-----------------------------------------------------------------------------
(* No line is lost. *)

LEMMA AccountedOn ==
  ASSUME NEW kd, NEW ch, NEW ch2, NEW D, NEW D2, D \subseteq D2,
         NEW s \in Nat, NEW s2 \in Nat, s <= s2, \A i \in 1..s : ch2[i] = ch[i],
         Accounted(kd, ch, D, s)
  PROVE  Accounted(kd, ch2, D2, s2)
<1>1. \A i \in 1..s : i \in 1..s2
  OBVIOUS
<1> QED
  BY <1>1 DEF Accounted

\* What is said of each step that keeps the tailer where it is: its lines are
\* still to come, and the cursor is kept or written where the tailer is.
Keeps ==
  /\ faults' = faults /\ kind' = kind /\ \A i \in 1..Len(chain) : chain'[i] = chain[i]
  /\ Starts(log, 0) \subseteq Starts(log, 0)'
  /\ FromCur \subseteq FromCur' /\ cur'.sequence = cur.sequence
  /\ \/ cursor'.sequence = cursor.sequence /\ FromCursor \subseteq FromCursor'
     \/ cursor'.sequence = cur.sequence /\ FromCur \subseteq FromCursor'
  /\ "cur" \in stale' => pc' \notin {"publish", "advance"}
  /\ detached' => Len(old') <= cur'.offset

LEMMA KeepsAccounts ==
  ASSUME TypeInv, AccountInv, Keeps
  PROVE  AccountInv'
<1>1. /\ cur.sequence \in Nat /\ cursor.sequence \in Nat /\ Len(chain) \in Nat
      /\ cur.sequence <= Len(chain) /\ cursor.sequence <= cur.sequence /\ 0 <= Len(chain)
  BY Typed DEF TypeInv, PaceInv
<1>2. /\ Accounted(kind, chain, FromCur, cur.sequence)
      /\ Accounted(kind, chain, FromCursor, cursor.sequence)
      /\ Without({"rotate"}) => Accounted(kind, chain, Starts(log, 0), 0)
  BY DEF AccountInv
<1>3. \A s \in Nat : s <= Len(chain) => \A i \in 1..s : chain'[i] = chain[i]
  BY <1>1 DEF Keeps
<1>4. Accounted(kind, chain', FromCur', cur.sequence)
  BY <1>1, <1>2, <1>3, AccountedOn DEF Keeps
<1>5. Accounted(kind, chain', FromCursor', cursor'.sequence)
  <2>1. cursor.sequence <= Len(chain)
    BY <1>1
  <2>2. CASE cursor'.sequence = cursor.sequence /\ FromCursor \subseteq FromCursor'
    BY <2>1, <2>2, <1>1, <1>2, <1>3, AccountedOn
  <2>3. CASE cursor'.sequence = cur.sequence /\ FromCur \subseteq FromCursor'
    BY <2>3, <1>1, <1>2, <1>3, AccountedOn
  <2> QED
    BY <2>2, <2>3 DEF Keeps
<1>6. Without({"rotate"}) => Accounted(kind, chain', Starts(log, 0)', 0)
  BY <1>1, <1>2, <1>3, AccountedOn DEF Keeps
<1>7. (Without({"rotate"})' <=> Without({"rotate"})) /\ (Running' <=> pc' \in {"publish", "advance"})
  BY DEF Keeps, Without, Running
<1> QED
  BY <1>4, <1>5, <1>6, <1>7 DEF AccountInv, Keeps

\* A stale tailer has nothing to read: the log was drained when it was rotated.
LEMMA FreshReads ==
  ASSUME TypeInv, OrderInv, AccountInv, LineEnds # {}
  PROVE  "cur" \notin stale /\ ~detached
<1>1. detached => FALSE
  <2> SUFFICES ASSUME detached PROVE FALSE
    OBVIOUS
  <2>1. File = old /\ Len(old) <= cur.offset
    BY DEF AccountInv, File
  <2>2. cur.offset + 1 <= NextEnd /\ NextEnd <= Len(old) /\ NextEnd \in Nat
    BY <2>1, FirstEnd
  <2> QED
    BY <2>1, <2>2, Typed
<1> QED
  BY <1>1, StaleReads

LEMMA ReturnAccount ==
  ASSUME TypeInv, OrderInv, AccountInv, Returns, UNCHANGED <<faults, kind, log, cur, cursor, stale>>,
         \A i \in 1..Len(chain) : chain'[i] = chain[i]
  PROVE  AccountInv'
<1>1. /\ FromCursor' = FromCursor /\ Starts(log, 0)' = Starts(log, 0)
      /\ FromCur' = Starts(log, cur.offset) \cup (IF "cur" \in stale THEN Starts(log, 0) ELSE {})
  BY ReturnPlaces
<1>2. FromCur \subseteq FromCur'
  <2>1. CASE "cur" \notin stale
    BY <2>1, <1>1, Places
  <2>2. CASE "cur" \in stale
    <3>1. ~Running /\ (detached => Len(old) <= cur.offset)
      BY <2>2 DEF AccountInv
    <3>2. detached => Starts(File, cur.offset) = {}
      BY <3>1, Typed, StartsNone DEF File
    <3>3. ~detached => File = log
      BY DEF File
    <3> QED
      BY <2>2, <3>1, <3>2, <3>3, <1>1 DEF FromCur
  <2> QED
    BY <2>1, <2>2
<1> QED
  BY <1>1, <1>2, KeepsAccounts DEF Keeps, Returns

LEMMA GrowAccount ==
  ASSUME TypeInv, OrderInv, AccountInv, Without({"regrow"}),
         NEW k \in Kinds, BeginsLine(k) \/ ContinuesLine
  PROVE  AccountInv'
<1>1. PICK c \in Nat \X Nat : Grows(c)
  BY EdgeGrows
<1>2. /\ UNCHANGED <<cur, cursor, pc, old, detached, line, next, chain, stale>>
      /\ \A l \in 1..Len(kind) : kind'[l] = kind[l]
      /\ New(c)' \subseteq {Len(kind) + 1}
      /\ Starts(log, 0)' = Starts(log, 0) \cup New(c)'
      /\ FromCursor' = FromCursor \cup New(c)'
      /\ FromCur \cup New(c)' \subseteq FromCur'
  BY <1>1, GrowPlaces
<1>3. Len(kind) \in Nat /\ kind \in Seq(Kinds) /\ log \in Seq(Nat \X Nat) /\ Len(log) \in Nat
  BY Typed DEF IsLog
<1>4. /\ faults' = faults
      /\ \/ kind' = kind
         \/ Len(kind') = Len(kind) + 1 /\ c[1] = Len(kind) + 1 /\ c[2] = 1
  <2>1. faults' = faults
    BY DEF BeginsLine, ContinuesLine
  <2>2. CASE ContinuesLine
    BY <2>1, <2>2 DEF ContinuesLine
  <2>3. CASE BeginsLine(k)
    <3> DEFINE d == <<Len(kind) + 1, 1>>
    <3>1. kind' = Append(kind, k) /\ log' = Append(log, d)
      BY <2>3 DEF BeginsLine
    <3>2. Len(kind') = Len(kind) + 1
      BY <3>1, <1>3
    <3>3. d \in Nat \X Nat /\ d[1] = Len(kind) + 1 /\ d[2] = 1
      BY <1>3
    <3> HIDE DEF d
    <3>4. log' = Append(log, c)
      BY <1>1 DEF Grows
    <3>5. log'[Len(log) + 1] = d
      BY <1>3, <3>1, <3>3
    <3>6. log'[Len(log) + 1] = c
      BY <1>3, <3>4
    <3> QED
      BY <2>1, <3>2, <3>3, <3>5, <3>6
  <2> QED
    BY <2>2, <2>3
<1>5. ASSUME NEW l \in 1..Len(kind'), l \notin 1..Len(kind)
      PROVE  kind'[l] = "poison" \/ l \in New(c)'
  <2>1. Len(kind') = Len(kind) + 1 /\ c[1] = Len(kind) + 1 /\ c[2] = 1
    BY <1>4, <1>5
  <2>2. l = c[1]
    BY <2>1, <1>3, <1>5
  <2> QED
    BY <2>1, <2>2 DEF New
<1>6. ASSUME NEW D, NEW D2, NEW s, D \subseteq D2, New(c)' \subseteq D2, Accounted(kind, chain, D, s)
      PROVE  Accounted(kind', chain, D2, s)
  <2> SUFFICES ASSUME NEW l \in 1..Len(kind')
               PROVE  kind'[l] = "poison" \/ l \in D2 \/ \E i \in 1..s : chain[i].line = l
    BY DEF Accounted
  <2>1. CASE l \in 1..Len(kind)
    BY <2>1, <1>2, <1>6 DEF Accounted
  <2>2. CASE l \notin 1..Len(kind)
    BY <2>2, <1>5, <1>6
  <2> QED
    BY <2>1, <2>2
<1>7. /\ Accounted(kind', chain, FromCur', cur.sequence)
      /\ Accounted(kind', chain, FromCursor', cursor.sequence)
      /\ Without({"rotate"}) => Accounted(kind', chain, Starts(log, 0)', 0)
  BY <1>2, <1>6 DEF AccountInv
<1>8. (Without({"rotate"})' <=> Without({"rotate"})) /\ (Running' <=> Running)
  BY <1>2, <1>4 DEF Without, Running
<1>9. ("cur" \in stale' => ~Running') /\ (detached' => Len(old') <= cur'.offset)
  BY <1>2, <1>8 DEF AccountInv
<1> QED
  BY <1>2, <1>7, <1>8, <1>9 DEF AccountInv

LEMMA RotatesAccount ==
  ASSUME TypeInv, OrderInv, AccountInv, Without({"rotateUnread"}), Rotates
  PROVE  AccountInv'
<1>1. /\ "rotate" \in faults /\ stale = {} /\ Drained
      /\ UNCHANGED <<faults, kind, cur, cursor, pc, line, next, chain>>
      /\ detached' => (old' = old /\ detached) \/ old' = log
  BY DEF Rotates, Without, ingest
<1>2. cur.offset = Len(log) /\ cursor.offset = Len(log) /\ ~Running
  BY <1>1 DEF Drained, Running
<1>3. FromCur = {} /\ FromCursor = {}
  <2>1. Starts(log, Len(log)) = {}
    BY Typed, StartsNone
  <2> QED
    BY <2>1, <1>1, <1>2, Places DEF FromCursor
<1>4. ~detached
  BY <1>1, Places
<1>5. {} \subseteq FromCur' /\ {} \subseteq FromCursor'
  OBVIOUS
<1>6. /\ Accounted(kind, chain, {}, cur.sequence) /\ Accounted(kind, chain, {}, cursor.sequence)
  BY <1>3 DEF AccountInv
<1>7. /\ Accounted(kind, chain, FromCur', cur.sequence)
      /\ Accounted(kind, chain, FromCursor', cursor.sequence)
  BY <1>6 DEF Accounted
<1>8. ~Without({"rotate"})' /\ ~Running'
  BY <1>1, <1>2 DEF Without, Running
<1>9. detached' => Len(old') <= cur'.offset
  BY <1>1, <1>2, <1>4, Typed
<1> QED
  BY <1>1, <1>7, <1>8, <1>9 DEF AccountInv

LEMMA AdvancesAccount ==
  ASSUME TypeInv, OrderInv, AccountInv, Advances
  PROVE  AccountInv'
<1>1. /\ faults' = faults /\ UNCHANGED <<kind, log, chain>> /\ pc' \in {"idle", "read"}
      /\ cur' = [offset |-> next, sequence |-> cur.sequence + 1]
      /\ cur'.sequence = cur.sequence + 1 /\ cur'.offset = next
      /\ "cur" \in stale' <=> "cur" \in stale
      /\ detached' => detached
      /\ "cur" \notin stale => FromCur \subseteq FromCur' \cup {line} /\ FromCur' = Starts(log, next)
      /\ Starts(log, 0)' = Starts(log, 0)
      /\ FromCursor' = Starts(log, IF "cursor" \in stale' THEN 0 ELSE cursor'.offset)
  BY AdvanceFacts DEF Advances
<1>2. pc = "advance" /\ Running
  BY DEF Advances, Running
<1>3. "cur" \notin stale /\ ~detached
  BY <1>2, Places DEF AccountInv
<1>4. /\ cur.sequence < Len(chain) /\ cur.sequence \in Nat /\ Len(chain) \in Nat
      /\ cursor.sequence \in Nat
  BY <1>2, Typed DEF TypeInv, PaceInv
<1> DEFINE n == cur.sequence + 1
<1>5. n \in 1..Len(chain) /\ \A i \in 1..cur.sequence : i \in 1..(n - 1) /\ i \in 1..n
  BY <1>4
<1>6. chain[n].line = line
  <2>1. PICK x \in 1..Len(kind) : x = chain[n].line /\ kind[x] # "poison" /\ x <= line
    BY <1>5, AdvanceTallies, ChainTyped DEF IsChain, OrderInv, ChainInv
  <2> HIDE DEF n
  <2>4. x \in Nat /\ line \in Nat
    <3>1. Len(kind) \in Nat /\ line \in 0..Len(kind)
      BY Typed
    <3> QED
      BY <3>1
  <2>2. CASE x \in FromCur
    <3>1. line <= x
      BY <2>2, <1>2, FirstToCome
    <3>2. line = x
      BY <2>1, <2>4, <3>1
    <3> QED
      BY <2>1, <3>2
  <2>3. CASE x \notin FromCur
    <3>1. PICK i \in 1..cur.sequence : chain[i].line = x
      BY <2>1, <2>3 DEF AccountInv, Accounted
    <3>2. x < x
      BY <1>5, <2>1, <3>1 DEF OrderInv, ChainInv
    <3> QED
      BY <2>4, <3>2
  <2> QED
    BY <2>2, <2>3
<1>7. Accounted(kind, chain, FromCur', n)
  <2>1. \A l \in 1..Len(kind) : kind[l] = "poison" \/ l \in FromCur \/ \E i \in 1..cur.sequence : chain[i].line = l
    BY DEF AccountInv, Accounted
  <2>2. FromCur \subseteq FromCur' \cup {line} /\ n \in 1..n
    BY <1>1, <1>3, <1>4
  <2> HIDE DEF n
  <2> QED
    BY <2>1, <2>2, <1>5, <1>6 DEF Accounted
<1>8. Accounted(kind, chain, FromCursor', cursor'.sequence)
  <2>1. CASE Persisted
    <3>1. cursor' = cur' /\ stale' = {}
      BY <2>1, <1>3 DEF Persisted
    <3>2. FromCursor' = FromCur'
      BY <3>1, <1>1, <1>3
    <3> QED
      BY <3>1, <3>2, <1>1, <1>7
  <2>2. CASE cursor' = cursor /\ stale' = stale
    <3>1. FromCursor' = FromCursor
      BY <1>1, <2>2 DEF FromCursor
    <3> QED
      BY <2>2, <3>1 DEF AccountInv
  <2> QED
    BY <2>1, <2>2 DEF Advances, PersistFails
<1>9. Without({"rotate"})' => Accounted(kind, chain, Starts(log, 0), 0)
  BY <1>1 DEF AccountInv, Without
<1>10. ~Running' /\ ~detached'
  BY <1>1, <1>3 DEF Running
<1> QED
  BY <1>1, <1>7, <1>8, <1>9, <1>10 DEF AccountInv

LEMMA RestartsAccount ==
  ASSUME TypeInv, OrderInv, AccountInv, Lossless, Restarts
  PROVE  AccountInv'
<1>1. /\ faults' = faults /\ UNCHANGED <<kind, log, chain>> /\ pc' = "idle" /\ ~detached'
      /\ cursor'.sequence = cur'.sequence
      /\ FromCur' = FromCursor' /\ Starts(log, 0)' = Starts(log, 0)
      /\ \/ cur'.sequence = cursor.sequence /\ FromCursor' = FromCursor
         \/ "lostCursor" \in faults /\ cur'.sequence = 0 /\ FromCursor' = Starts(log, 0)
  BY RestartsPlaces DEF Restarts
<1>2. "lostCursor" \in faults => Without({"rotate"})
  BY DEF Lossless, Without
<1>3. Accounted(kind, chain, FromCursor', cursor'.sequence)
  BY <1>1, <1>2 DEF AccountInv
<1>4. Without({"rotate"})' => Accounted(kind, chain, Starts(log, 0), 0)
  BY <1>1 DEF AccountInv, Without
<1> QED
  BY <1>1, <1>3, <1>4 DEF AccountInv, Running

LEMMA AccountInit == Init => AccountInv
<1> SUFFICES ASSUME Init PROVE AccountInv
  OBVIOUS
<1>1. Len(kind) = 0 /\ stale = {} /\ detached = FALSE
  BY DEF Init
<1> QED
  BY <1>1 DEF AccountInv, Accounted

LEMMA AccountStep ==
  ASSUME TypeInv, OrderInv, AccountInv, Lossless, [Next]_vars
  PROVE  AccountInv'
<1>1. Without({"regrow"}) /\ Without({"rotateUnread"})
  BY DEF Lossless, Without
<1>2. CASE Edge
  <2>1. ASSUME NEW k \in Kinds, BeginsLine(k) PROVE AccountInv'
    BY <2>1, <1>1, GrowAccount
  <2>2. CASE ContinuesLine
    <3>1. "good" \in Kinds
      BY DEF Kinds
    <3> QED
      BY <2>2, <3>1, <1>1, GrowAccount
  <2>3. CASE Rotates
    BY <2>3, <1>1, RotatesAccount
  <2> QED
    BY <1>2, <2>1, <2>2, <2>3 DEF Edge
<1>3. CASE Opens
  <2>1. faults' = faults
    BY <1>3 DEF Opens
  <2> QED
    BY <1>3, <2>1, OpensPlaces, KeepsAccounts DEF Keeps
<1>4. CASE ReadsNothing
  BY <1>4, ReturnAccount DEF ReadsNothing, edge, ingest, history
<1>5. CASE SkipsLine
  <2>1. /\ UNCHANGED <<kind, log, old, detached, chain>> /\ pc' = "read" /\ LineEnds # {}
        /\ cur'.sequence = cur.sequence
        /\ FromCur' = FromCur /\ Starts(log, 0)' = Starts(log, 0)
        /\ \/ cursor'.sequence = cursor.sequence /\ FromCursor' = FromCursor
           \/ /\ cursor'.sequence = cur.sequence
              /\ "cur" \notin stale => FromCursor' = FromCur
    BY <1>5, SkipsPlaces
  <2>2. "cur" \notin stale /\ ~detached /\ faults' = faults
    BY <1>5, <2>1, FreshReads DEF SkipsLine
  <2> QED
    BY <2>1, <2>2, KeepsAccounts DEF Keeps
<1>6. CASE ReadsLine
  <2>1. FromCursor' = FromCursor /\ FromCur' = FromCur /\ Starts(log, 0)' = Starts(log, 0)
    BY <1>6, ReadsPlaces
  <2>2. /\ UNCHANGED <<faults, kind, cur, cursor, old, detached, chain, stale>> /\ LineEnds # {}
    BY <1>6 DEF ReadsLine, edge, ingest, history
  <2>3. "cur" \notin stale /\ ~detached
    BY <2>2, FreshReads
  <2> QED
    BY <2>1, <2>2, <2>3, KeepsAccounts DEF Keeps
<1>7. CASE Advances
  BY <1>7, AdvancesAccount
<1>8. CASE Publish
  <2>1. CASE Refused
    BY <2>1, ReturnAccount DEF Refused, edge, ingest, history
  <2>2. CASE AnswerLost
    <3>1. \A i \in 1..Len(chain) : chain'[i] = chain[i]
      BY <2>2, AdmitFacts DEF AnswerLost
    <3> QED
      BY <2>2, <3>1, ReturnAccount DEF AnswerLost, edge, history
  <2>3. CASE Acknowledged
    <3>1. \A i \in 1..Len(chain) : chain'[i] = chain[i]
      BY <2>3, AdmitFacts DEF Acknowledged
    <3>2. /\ UNCHANGED <<faults, kind, log, cur, cursor, old, detached, line, stale>>
          /\ pc = "publish" /\ pc' = "advance"
      BY <2>3 DEF Acknowledged, edge, history
    <3>3. File' = File /\ Running' /\ Running
      BY <3>2 DEF File, Running
    <3>4. FromCur' = FromCur /\ FromCursor' = FromCursor /\ Starts(log, 0)' = Starts(log, 0)
      BY <3>2, <3>3 DEF FromCur, FromCursor, Starts
    <3>5. "cur" \notin stale /\ (detached => Len(old) <= cur.offset)
      BY <3>3 DEF AccountInv
    <3> QED
      BY <3>1, <3>2, <3>4, <3>5, KeepsAccounts DEF Keeps
  <2> QED
    BY <1>8, <2>1, <2>2, <2>3 DEF Publish
<1>9. CASE Restarts
  BY <1>9, RestartsAccount
<1>10. CASE IngestForgets \/ UNCHANGED vars
  <2>1. UNCHANGED <<faults, kind, log, cur, cursor, old, detached, pc, line, chain, stale>>
    BY <1>10 DEF IngestForgets, edge, run, ingest, history, vars
  <2>2. File' = File /\ Running' = Running
    BY <2>1 DEF File, Running
  <2>3. FromCur' = FromCur /\ FromCursor' = FromCursor /\ Starts(log, 0)' = Starts(log, 0)
    BY <2>1, <2>2 DEF FromCur, FromCursor, Starts
  <2>4. ("cur" \in stale => pc \notin {"publish", "advance"}) /\ (detached => Len(old) <= cur.offset)
    BY DEF AccountInv, Running
  <2> QED
    BY <2>1, <2>3, <2>4, KeepsAccounts DEF Keeps
<1> QED
  BY <1>2, <1>3, <1>4, <1>5, <1>6, <1>7, <1>8, <1>9, <1>10 DEF Next, RunOnce

LEMMA TailHolds == Spec => []TailInv
<1>1. Init => TailInv
  BY TypeInit, OrderInit, AccountInit DEF TailInv
<1>2. TailInv /\ [Next]_vars => TailInv'
  <2> SUFFICES ASSUME TailInv, [Next]_vars PROVE TailInv'
    OBVIOUS
  <2>1. TypeInv'
    BY TypeStep DEF TailInv
  <2>2. (Without({"regrow"})' <=> Without({"regrow"})) /\ (Lossless' <=> Lossless)
    BY FaultsStay DEF Without, Lossless
  <2>3. Without({"regrow"})' => OrderInv'
    BY <2>2, OrderStep DEF TailInv
  <2>4. Lossless' => AccountInv'
    <3>1. Lossless => Without({"regrow"})
      BY DEF Lossless, Without
    <3> QED
      BY <2>2, <3>1, AccountStep DEF TailInv
  <2> QED
    BY <2>1, <2>3, <2>4 DEF TailInv
<1> QED
  BY <1>1, <1>2, PTL DEF Spec

\* A complete line that the durable cursor has passed is committed unless it
\* was malformed (tail.go:53-56, at least once): across restarts at any point,
\* failed cursor writes, lost answers, refusals, a lost cursor where the log is
\* not rotated, and rotations that find the log read.
THEOREM AllAccountedFor == Spec => []LinesAccountedFor
<1>1. ASSUME TailInv PROVE LinesAccountedFor
  <2> SUFFICES ASSUME Lossless, NEW l \in 1..Len(kind), Behind(l), kind[l] # "poison"
               PROVE  Committed(l)
    BY DEF LinesAccountedFor
  <2>1. TypeInv /\ OrderInv /\ AccountInv
    <3>1. Without({"regrow"})
      BY DEF Lossless, Without
    <3> QED
      BY <1>1, <3>1 DEF TailInv
  <2>2. /\ Len(log) \in Nat /\ cursor.offset \in Nat /\ cursor.sequence \in Nat
        /\ cur.sequence \in Nat /\ Len(chain) \in Nat
    BY <2>1, Typed
  <2>3. l \notin FromCursor
    <3> SUFFICES ASSUME l \in FromCursor PROVE FALSE
      OBVIOUS
    <3>1. PICK o \in Nat : o = (IF "cursor" \in stale THEN 0 ELSE cursor.offset)
      BY <2>2
    <3>2. PICK j \in (o + 1)..Len(log) : log[j][1] = l
      BY <3>1 DEF FromCursor, Starts
    <3>3. j \in 1..Len(log) /\ o < j /\ j \in Nat
      BY <2>2
    <3>4. j <= cursor.offset /\ cursor.offset <= Len(log)
      BY <3>2, <3>3 DEF Behind
    <3>5. "cursor" \in stale => Len(log) < cursor.offset
      BY <2>1 DEF OrderInv, PlaceInv
    <3> QED
      BY <2>2, <3>1, <3>3, <3>4, <3>5
  <2>4. PICK i \in 1..cursor.sequence : chain[i].line = l
    BY <2>1, <2>3 DEF AccountInv, Accounted
  <2>5. i \in 1..Len(chain)
    BY <2>1, <2>2 DEF TypeInv, PaceInv
  <2> QED
    BY <2>4, <2>5 DEF Committed
<1> QED
  BY TailHolds, <1>1, PTL
=============================================================================
