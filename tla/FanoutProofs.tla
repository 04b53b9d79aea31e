---------------------------- MODULE FanoutProofs ----------------------------
(***************************************************************************)
(* Theorems about Fanout, for logs of any length, any number of crashes    *)
(* and rotations, and every set of environments.                           *)
(***************************************************************************)
EXTENDS Fanout, SequenceTheorems, WellFoundedInduction, TLAPS

LEMMA BetweenElements ==
  ASSUME NEW from \in Nat, NEW to \in Nat
  PROVE  \A i : i \in Between(from, to) <=> i \in Nat /\ from <= i /\ i < to
BY DEF Between

-----------------------------------------------------------------------------
(* Types. *)

\* What ties the places of RunOnce to its variables.
Places ==
  /\ pc = "evidence" => next = offset /\ gap <= next
  /\ gapTotal > 0 => next >= offset
  /\ ~up => offset = 0 /\ next = 0 /\ gapTotal = 0 /\ pc = "idle" /\ gap = 0 /\ limit = 0

TypeInv == TypeOK /\ Places

LEMMA TypeInit == Init => TypeInv
<1> SUFFICES ASSUME Init PROVE TypeInv
  OBVIOUS
<1>1. Between(0, 0) = {}
  BY BetweenElements
<1>2. MaxCrashes \in Nat /\ Committed = 0
  BY FanoutAssumption DEF Init, Committed
<1> QED
  BY <1>1, <1>2 DEF Init, TypeInv, TypeOK, Places

LEMMA TypeStep == TypeInv /\ [Next]_vars => TypeInv'
<1> SUFFICES ASSUME TypeInv, [Next]_vars PROVE TypeInv'
  OBVIOUS
<1> USE DEF TypeInv, Places
<1>0. /\ Committed \in Nat /\ rotated \in Nat /\ saved \in Nat /\ offset \in Nat
      /\ next \in Nat /\ limit \in Nat /\ gap \in Nat /\ gapTotal \in Nat
      /\ rotated <= Committed
  BY DEF TypeOK, Committed
\* The log grows by one record, which takes nothing from the other types.
<1>a. ASSUME NEW rec \in [from : Nat, to : Nat], log' = Append(log, rec)
      PROVE  log' \in Seq([from : Nat, to : Nat]) /\ Committed' = Committed + 1
  BY <1>a DEF TypeOK, Committed
<1>1. CASE Admit
  <2>1. Event \in [from : Nat, to : Nat]
    BY DEF Event
  <2> QED
    BY <1>0, <1>1, <1>a, <2>1 DEF Admit, pump, TypeOK
<1>2. CASE Rotate
  <2>1. rotated' \in Nat /\ rotated < rotated' /\ rotated' <= Committed
    BY <1>0, <1>2, BetweenElements DEF Rotate
  <2>2. Between(0, rotated) \subseteq Between(0, rotated')
    BY <1>0, <2>1, BetweenElements
  <2>3. UNCHANGED <<faults, log, saved, sink, up, offset, pump, skipped, crashes>>
    BY <1>2 DEF Rotate
  <2>4. Committed' = Committed /\ skipped' \subseteq Between(0, rotated')
    BY <2>2, <2>3 DEF TypeOK, Committed
  <2>5. rotated' \in 0..Committed' /\ offset' \in 0..rotated'
    BY <1>0, <2>1, <2>3, <2>4 DEF TypeOK
  <2> QED
    BY <1>0, <2>3, <2>4, <2>5 DEF pump, TypeOK
<1>3. CASE RunBegins
  BY <1>0, <1>3 DEF RunBegins, disk, TypeOK, Committed
<1>4. CASE SkipsGap
  <2>1. gap' \in Nat /\ gap' <= offset /\ gapTotal' = gap' /\ next' = offset
    BY <1>0, <1>4 DEF SkipsGap
  <2>2. saved' \in 0..Committed
    BY <1>0, <1>4, <2>1 DEF SkipsGap, TypeOK
  <2>3. Between(next, offset) \subseteq Between(0, rotated)
    BY <1>0, BetweenElements DEF TypeOK
  <2> QED
    BY <1>0, <1>4, <2>1, <2>2, <2>3 DEF SkipsGap, TypeOK, Committed
<1>5. CASE EmitsEvidence
  <2>1. next - gap \in Nat
    BY <1>0, <1>5 DEF EmitsEvidence
  <2>2. Evidence(next - gap, next) \in [from : Nat, to : Nat]
    BY <1>0, <2>1 DEF Evidence
  <2>3. CASE log' = Append(log, Evidence(next - gap, next))
    BY <1>0, <1>5, <1>a, <2>2, <2>3 DEF EmitsEvidence, TypeOK
  <2>4. CASE UNCHANGED log
    BY <1>0, <1>5, <2>4 DEF EmitsEvidence, TypeOK, Committed
  <2> QED
    BY <1>5, <2>3, <2>4 DEF EmitsEvidence
<1>6. CASE ReadsRecords
  BY <1>0, <1>6 DEF ReadsRecords, disk, TypeOK, Committed
<1>7. CASE Delivers
  <2>1. next + 1 \in 0..Committed /\ Committed' = Committed
    BY <1>0, <1>7 DEF Delivers, TypeOK, Committed
  <2>2. Whole(next) \in [index : Nat, whole : BOOLEAN]
    BY <1>0, <2>1 DEF Whole
  <2>3. sink' \in Seq([index : Nat, whole : BOOLEAN])
    BY <1>7, <2>2 DEF Delivers, TypeOK
  <2> QED
    BY <1>0, <1>7, <2>1, <2>3 DEF Delivers, TypeOK
<1>8. CASE SinkRefuses
  BY <1>0, <1>8 DEF SinkRefuses, disk, TypeOK, Committed
<1>9. CASE SinkTears
  <2>1. next \in 0..Committed /\ Committed' = Committed
    BY <1>9 DEF SinkTears, TypeOK, Committed
  <2>2. Torn(next) \in [index : Nat, whole : BOOLEAN]
    BY <2>1 DEF Torn
  <2>3. sink' \in Seq([index : Nat, whole : BOOLEAN])
    BY <1>9, <2>2 DEF SinkTears, TypeOK
  <2> QED
    BY <1>0, <1>9, <2>1, <2>3 DEF SinkTears, TypeOK
<1>10. CASE Persists
  BY <1>0, <1>10 DEF Persists, TypeOK, Committed
<1>11. CASE PersistFails
  BY <1>0, <1>11 DEF PersistFails, disk, TypeOK, Committed
<1>12. CASE RunEnds
  BY <1>0, <1>12 DEF RunEnds, disk, TypeOK, Committed
<1>13. CASE Crash
  <2>1. crashes' \in 0..MaxCrashes
    BY <1>13, FanoutAssumption DEF Crash, TypeOK
  <2>2. UNCHANGED <<faults, log, rotated, saved, sink, skipped>> /\ up' = FALSE
    BY <1>13 DEF Crash, disk
  <2>3. /\ offset' = 0 /\ next' = 0 /\ gapTotal' = 0 /\ pc' = "idle" /\ gap' = 0
        /\ limit' = 0
    BY <1>13 DEF Crash
  <2>4. TypeOK'
    <3>1. Committed' = Committed /\ rotated' = rotated
      BY <2>2 DEF Committed
    <3>2. /\ rotated' \in 0..Committed' /\ saved' \in 0..Committed'
          /\ skipped' \subseteq Between(0, rotated')
      BY <2>2, <3>1 DEF TypeOK
    <3>3. /\ offset' \in 0..rotated' /\ next' \in 0..Committed' /\ limit' \in 0..Committed'
          /\ gap' \in 0..offset' /\ gapTotal' \in 0..offset'
      BY <1>0, <2>3, <3>1
    <3> QED
      BY <2>1, <2>2, <2>3, <3>2, <3>3 DEF TypeOK
  <2>5. Places'
    BY <2>2, <2>3
  <2> QED
    BY <2>4, <2>5
<1>14. CASE Boot
  BY <1>0, <1>14 DEF Boot, disk, TypeOK, Committed
<1>15. CASE UNCHANGED vars
  BY <1>0, <1>15 DEF vars, disk, pump, TypeOK, Committed
<1> QED
  BY <1>1, <1>2, <1>3, <1>4, <1>5, <1>6, <1>7, <1>8, <1>9, <1>10, <1>11, <1>12,
     <1>13, <1>14, <1>15 DEF Next, RunOnce

(***************************************************************************)
(* Every state of the pump has the declared types: no cursor, boundary or  *)
(* end of a run passes the end of the log, and what was skipped was        *)
(* rotated.                                                                *)
(***************************************************************************)
THEOREM TypeCorrect == Spec => []TypeOK
<1>1. Init => TypeInv
  BY TypeInit
<1>2. TypeInv /\ [Next]_vars => TypeInv'
  BY TypeStep
<1>3. TypeInv => TypeOK
  BY DEF TypeInv
<1> QED
  BY <1>1, <1>2, <1>3, PTL DEF Spec

-----------------------------------------------------------------------------
(* What the sink misses. *)

Lines == [index : Nat, whole : BOOLEAN]

\* As long as no line is torn, the lines are what was delivered, and there is
\* none missing behind the cursor, in memory as on the disk.
CursorInv ==
  Without({"tornLine"}) =>
    /\ \A k \in DOMAIN sink : sink[k].whole
    /\ Between(0, saved) \subseteq Received \cup skipped
    /\ Between(0, next) \subseteq Received \cup skipped

LEMMA CursorInit == Init => CursorInv
<1> SUFFICES ASSUME Init PROVE CursorInv
  OBVIOUS
<1>1. Between(0, 0) = {}
  BY BetweenElements
<1>2. DOMAIN sink = {}
  BY DEF Init
<1> QED
  BY <1>1, <1>2 DEF Init, CursorInv

LEMMA CursorStep == TypeInv /\ CursorInv /\ [Next]_vars => CursorInv'
<1> SUFFICES ASSUME TypeInv, CursorInv, [Next]_vars, Without({"tornLine"})'
             PROVE  /\ (\A k \in DOMAIN sink : sink[k].whole)'
                    /\ (Between(0, saved) \subseteq Received \cup skipped)'
                    /\ (Between(0, next) \subseteq Received \cup skipped)'
  BY DEF CursorInv
<1>0. /\ saved \in Nat /\ offset \in Nat /\ next \in Nat /\ sink \in Seq(Lines)
      /\ pc = "evidence" => next = offset
  BY DEF TypeInv, TypeOK, Places, Committed, Lines
<1>a. faults' = faults
  BY DEF Next, RunOnce, Admit, Rotate, RunBegins, SkipsGap, EmitsEvidence, ReadsRecords,
         Delivers, SinkRefuses, SinkTears, Persists, PersistFails, RunEnds, Crash, Boot, vars
<1>b. /\ \A k \in DOMAIN sink : sink[k].whole
      /\ Between(0, saved) \subseteq Received \cup skipped
      /\ Between(0, next) \subseteq Received \cup skipped
      /\ "tornLine" \notin faults
  BY <1>a DEF CursorInv, Without
<1>c. ASSUME UNCHANGED <<sink, skipped>>,
             saved' \in {saved, next}, next' \in {next, saved, 0}
      PROVE  /\ (\A k \in DOMAIN sink : sink[k].whole)'
             /\ (Between(0, saved) \subseteq Received \cup skipped)'
             /\ (Between(0, next) \subseteq Received \cup skipped)'
  <2>1. Received' = Received
    BY <1>c DEF Received, IntactLines
  <2>2. Between(0, 0) = {}
    BY BetweenElements
  <2> QED
    BY <1>b, <1>c, <2>1, <2>2
<1>1. CASE Admit \/ Rotate \/ ReadsRecords \/ RunBegins \/ SinkRefuses \/ EmitsEvidence
           \/ PersistFails \/ RunEnds
  BY <1>1, <1>c DEF Admit, Rotate, ReadsRecords, RunBegins, SinkRefuses, EmitsEvidence,
                    PersistFails, RunEnds, disk, pump
<1>2. CASE SkipsGap
  <2>1. /\ next' = offset /\ saved' \in {offset, saved} /\ UNCHANGED sink
        /\ skipped' = skipped \cup Between(next, offset)
    BY <1>2 DEF SkipsGap
  <2>2. Received' = Received
    BY <2>1 DEF Received, IntactLines
  <2>3. Between(0, offset) \subseteq Between(0, next) \cup Between(next, offset)
    BY <1>0, BetweenElements
  <2> QED
    BY <1>b, <2>1, <2>2, <2>3
<1>3. CASE Delivers
  <2> DEFINE n == Len(sink)
  <2>1. /\ sink' = Append(sink, Whole(next)) /\ next' = next + 1
        /\ UNCHANGED <<saved, skipped>>
    BY <1>3 DEF Delivers
  <2>2. Whole(next) \in Lines /\ Whole(next).whole /\ Whole(next).index = next
    BY <1>0 DEF Whole, Lines
  <2>3. /\ DOMAIN sink = 1..n /\ DOMAIN sink' = 1..(n + 1) /\ n \in Nat
        /\ \A k \in 1..n : sink'[k] = sink[k]
        /\ sink'[n + 1] = Whole(next)
    BY <1>0, <2>1, <2>2, AppendProperties, LenProperties
  <2>4. \A k \in DOMAIN sink' : sink'[k].whole
    BY <1>b, <2>2, <2>3
  <2>5. IntactLines = 1..n /\ IntactLines' = 1..(n + 1)
    BY <1>b, <2>3, <2>4 DEF IntactLines
  <2>6. Received \subseteq Received' /\ next \in Received'
    BY <2>2, <2>3, <2>5 DEF Received
  <2>7. Between(0, next + 1) \subseteq Between(0, next) \cup {next}
    BY <1>0, BetweenElements
  <2> QED
    BY <1>b, <2>1, <2>4, <2>6, <2>7
<1>4. CASE SinkTears
  BY <1>4, <1>b DEF SinkTears
<1>5. CASE Persists
  BY <1>5, <1>c DEF Persists
<1>6. CASE Crash
  BY <1>6, <1>c DEF Crash, disk
<1>7. CASE Boot
  BY <1>7, <1>c DEF Boot, disk
<1>8. CASE UNCHANGED vars
  BY <1>8, <1>c DEF vars, disk, pump
<1> QED
  BY <1>1, <1>2, <1>3, <1>4, <1>5, <1>6, <1>7, <1>8 DEF Next, RunOnce

(***************************************************************************)
(* At-least-once, for every log and every number of crashes, rotations and *)
(* lost cursors: behind the durable cursor there is no record that is      *)
(* neither in the sink nor skipped.  The cursor in memory is part of the   *)
(* invariant, because it is what the next cursor write makes durable.      *)
(***************************************************************************)
THEOREM NothingMissed == Spec => []NothingMissedSilently
<1>1. Init => TypeInv /\ CursorInv
  BY TypeInit, CursorInit
<1>2. TypeInv /\ CursorInv /\ [Next]_vars => (TypeInv /\ CursorInv)'
  BY TypeStep, CursorStep
<1>3. CursorInv => NothingMissedSilently
  BY DEF CursorInv, NothingMissedSilently
<1> QED
  BY <1>1, <1>2, <1>3, PTL DEF Spec

-----------------------------------------------------------------------------
(* What the log says about it. *)

\* One more record in the log names its own gap and no other.
LEMMA EvidenceAppend ==
  ASSUME TypeInv, NEW rec \in [from : Nat, to : Nat], log' = Append(log, rec)
  PROVE  /\ Evidenced' = Evidenced \cup Named(rec)
         /\ \A k \in EvidenceRecords' : k \in EvidenceRecords \/ (k = Committed + 1 /\ rec # Event)
         /\ \A k \in EvidenceRecords : k \in DOMAIN log /\ k # Committed + 1 /\ log'[k] = log[k]
         /\ log'[Committed + 1] = rec
<1>1. log \in Seq([from : Nat, to : Nat]) /\ Committed \in Nat
  BY DEF TypeInv, TypeOK, Committed
<1>2. /\ DOMAIN log = 1..Committed /\ DOMAIN log' = 1..(Committed + 1)
      /\ \A k \in 1..Committed : log'[k] = log[k]
      /\ log'[Committed + 1] = rec
  BY <1>1, AppendProperties, LenProperties DEF Committed
<1>3. 1..(Committed + 1) = (1..Committed) \cup {Committed + 1}
      /\ \A k \in 1..Committed : k # Committed + 1
  BY <1>1
<1>4. Evidenced' = UNION {Named(log'[k]) : k \in DOMAIN log'}
  BY DEF Evidenced, Named
<1>5. Evidenced' = Evidenced \cup Named(rec)
  <2>1. ASSUME NEW i \in Evidenced' PROVE i \in Evidenced \cup Named(rec)
    <3>1. PICK k \in 1..(Committed + 1) : i \in Named(log'[k])
      BY <1>2, <1>4, <2>1
    <3> QED
      BY <1>2, <1>3, <3>1 DEF Evidenced
  <2>2. ASSUME NEW i \in Evidenced PROVE i \in Evidenced'
    <3>1. PICK k \in 1..Committed : i \in Named(log[k])
      BY <1>2, <2>2 DEF Evidenced
    <3> QED
      BY <1>2, <1>3, <1>4, <3>1
  <2>3. Named(rec) \subseteq Evidenced'
    BY <1>2, <1>3, <1>4
  <2> QED
    BY <2>1, <2>2, <2>3
<1> QED
  BY <1>2, <1>3, <1>5 DEF EvidenceRecords

\* Between the skip and its evidence the gap is in the pump's hands only.
GapInv ==
  Without({"emitFault", "evidenceCrash"}) =>
    skipped \subseteq Evidenced
              \cup (IF pc = "evidence" THEN Between(next - gap, next) ELSE {})

\* What is evidenced lies behind the cursor file, and the cursor file is not
\* ahead of the pump: so the next gap begins where the evidence ends.
OnceInv ==
  Without({"cursorFault", "lostCursor"}) =>
    /\ EvidencedOnce
    /\ Evidenced \subseteq Between(0, IF pc = "evidence" THEN next - gap ELSE saved)
    /\ pc = "evidence" => saved = next
    /\ up => saved <= next

EvidenceInv == TypeInv /\ GapInv /\ OnceInv

LEMMA EvidenceInit == Init => EvidenceInv
<1> SUFFICES ASSUME Init PROVE EvidenceInv
  OBVIOUS
<1>1. DOMAIN log = {} /\ EvidenceRecords = {} /\ Evidenced = {}
  BY DEF Init, EvidenceRecords, Evidenced
<1> QED
  BY <1>1, TypeInit DEF Init, EvidenceInv, GapInv, OnceInv, EvidencedOnce

LEMMA EvidenceStep == EvidenceInv /\ TypeInv' /\ [Next]_vars => GapInv' /\ OnceInv'
<1> SUFFICES ASSUME EvidenceInv, TypeInv', [Next]_vars PROVE GapInv' /\ OnceInv'
  OBVIOUS
<1>0. /\ saved \in Nat /\ offset \in Nat /\ next \in Nat /\ gap \in Nat
      /\ Committed \in Nat /\ log \in Seq([from : Nat, to : Nat])
      /\ pc = "evidence" => next = offset /\ gap <= next
      /\ ~up => pc = "idle"
      /\ TypeInv /\ GapInv /\ OnceInv
  <2>1. TypeInv /\ GapInv /\ OnceInv
    BY DEF EvidenceInv
  <2>2. /\ saved \in Nat /\ offset \in Nat /\ next \in Nat /\ gap \in Nat
        /\ Committed \in Nat /\ log \in Seq([from : Nat, to : Nat])
    BY <2>1 DEF TypeInv, TypeOK, Committed
  <2>3. (pc = "evidence" => next = offset /\ gap <= next) /\ (~up => pc = "idle")
    BY <2>1 DEF TypeInv, Places
  <2> QED
    BY <2>1, <2>2, <2>3
<1>a. faults' = faults
  BY DEF Next, RunOnce, Admit, Rotate, RunBegins, SkipsGap, EmitsEvidence, ReadsRecords,
         Delivers, SinkRefuses, SinkTears, Persists, PersistFails, RunEnds, Crash, Boot, vars
<1>b. ASSUME UNCHANGED log
      PROVE  Evidenced' = Evidenced /\ EvidenceRecords' = EvidenceRecords
             /\ (EvidencedOnce' <=> EvidencedOnce)
  BY <1>a, <1>b DEF Evidenced, EvidenceRecords, EvidencedOnce, Without
\* A step that does not touch the gap and moves the cursor forward only.
<1>c. ASSUME UNCHANGED <<log, skipped>>, pc # "evidence", pc' # "evidence",
             Without({"cursorFault", "lostCursor"}) =>
               saved' \in Nat /\ saved <= saved' /\ (up' => saved' <= next')
      PROVE  GapInv' /\ OnceInv'
  <2>1. GapInv'
    BY <1>0, <1>a, <1>b, <1>c DEF GapInv, Without
  <2>2. ASSUME Without({"cursorFault", "lostCursor"})
        PROVE  Between(0, saved) \subseteq Between(0, saved')
    BY <1>0, <1>c, <2>2, BetweenElements
  <2>3. OnceInv'
    BY <1>0, <1>a, <1>b, <1>c, <2>2 DEF OnceInv, Without
  <2> QED
    BY <2>1, <2>3
<1>1. CASE Admit
  <2>1. /\ log' = Append(log, Event) /\ Event \in [from : Nat, to : Nat]
        /\ UNCHANGED <<saved, next, gap, pc, up, skipped>>
    BY <1>1 DEF Admit, pump, Event
  <2>2. Named(Event) = {}
    BY BetweenElements DEF Named, Event
  <2>3. Evidenced' = Evidenced
    BY <1>0, <2>1, <2>2, EvidenceAppend
  <2>4. EvidencedOnce => EvidencedOnce'
    <3>1. \A k \in EvidenceRecords' : k \in EvidenceRecords /\ log'[k] = log[k]
      BY <1>0, <2>1, EvidenceAppend
    <3> QED
      BY <1>a, <3>1 DEF EvidencedOnce, Without, Named
  <2> QED
    BY <1>0, <1>a, <2>1, <2>3, <2>4 DEF GapInv, OnceInv, Without
<1>2. CASE Rotate
  <2>1. UNCHANGED <<log, saved, next, gap, pc, up, skipped>>
    BY <1>2 DEF Rotate, pump
  <2> QED
    BY <1>0, <1>a, <1>b, <2>1 DEF GapInv, OnceInv, Without
<1>3. CASE SkipsGap
  <2>1. /\ pc = "idle" /\ pc' = "evidence" /\ gap' = offset - next /\ next' = offset
        /\ skipped' = skipped \cup Between(next, offset) /\ UNCHANGED <<log, up>>
        /\ next < offset /\ up /\ next' - gap' = next
    BY <1>0, <1>3 DEF SkipsGap
  <2>2. GapInv'
    BY <1>0, <1>a, <1>b, <2>1 DEF GapInv, Without
  <2>3. ASSUME Without({"cursorFault", "lostCursor"})
        PROVE  saved' = next' /\ Between(0, saved) \subseteq Between(0, next)
    <3>1. saved <= next
      BY <1>0, <2>1, <2>3 DEF OnceInv
    <3>2. saved' = next'
      BY <1>3, <2>3 DEF SkipsGap, Without
    <3> QED
      BY <1>0, <3>1, <3>2, BetweenElements
  <2>4. ASSUME Without({"cursorFault", "lostCursor"})
        PROVE  /\ EvidencedOnce' /\ Evidenced' \subseteq Between(0, next)
               /\ saved' = next' /\ saved' <= next'
    BY <1>0, <1>b, <2>1, <2>3, <2>4 DEF OnceInv
  <2>5. OnceInv'
    BY <1>a, <2>1, <2>4 DEF OnceInv, Without
  <2> QED
    BY <2>2, <2>5
<1>4. CASE EmitsEvidence
  <2> DEFINE rec == Evidence(next - gap, next)
  <2>1. /\ pc = "evidence" /\ pc' = "read" /\ UNCHANGED <<saved, next, up, skipped>>
        /\ next - gap \in Nat /\ next - gap <= next
    BY <1>0, <1>4 DEF EmitsEvidence
  <2>2. rec \in [from : Nat, to : Nat] /\ Named(rec) = Between(next - gap, next)
    BY <1>0, <2>1 DEF Evidence, Named
  <2>3. CASE log' = Append(log, rec)
    <3> HIDE DEF rec
    <3>1. Evidenced' = Evidenced \cup Between(next - gap, next)
      BY <1>0, <2>2, <2>3, EvidenceAppend
    <3>2. GapInv'
      BY <1>0, <1>a, <2>1, <3>1 DEF GapInv, Without
    <3>3. ASSUME Without({"cursorFault", "lostCursor"})
          PROVE  EvidencedOnce' /\ Evidenced' \subseteq Between(0, saved)
      <4>1. /\ EvidencedOnce /\ Evidenced \subseteq Between(0, next - gap) /\ saved = next
        BY <1>0, <2>1, <3>3 DEF OnceInv
      <4>2. Evidenced \cap Between(next - gap, next) = {}
        BY <1>0, <2>1, <4>1, BetweenElements
      <4>3. Between(0, next - gap) \cup Between(next - gap, next) \subseteq Between(0, saved)
        BY <1>0, <2>1, <4>1, BetweenElements
      <4>4. \A k \in EvidenceRecords : Named(log[k]) \subseteq Evidenced
        BY DEF EvidenceRecords, Evidenced
      <4>5. /\ \A k \in EvidenceRecords' : k \in EvidenceRecords \/ k = Committed + 1
            /\ \A k \in EvidenceRecords : k # Committed + 1 /\ log'[k] = log[k]
            /\ log'[Committed + 1] = rec
        BY <1>0, <2>2, <2>3, EvidenceAppend
      <4>6. \A k \in EvidenceRecords : Named(log'[k]) \cap Named(rec) = {}
        BY <2>2, <4>2, <4>4, <4>5
      <4>7. \A k, l \in EvidenceRecords : k # l => Named(log'[k]) \cap Named(log'[l]) = {}
        BY <3>3, <4>1, <4>5 DEF EvidencedOnce
      <4>8. \A k, l \in EvidenceRecords' : k # l => Named(log'[k]) \cap Named(log'[l]) = {}
        BY <4>5, <4>6, <4>7
      <4>9. EvidencedOnce'
        BY <4>8 DEF EvidencedOnce, Named
      <4> QED
        BY <3>1, <4>1, <4>3, <4>9
    <3>4. OnceInv'
      BY <1>0, <1>a, <2>1, <3>3 DEF OnceInv, Without
    <3> QED
      BY <3>2, <3>4
  <2>4. CASE "emitFault" \in faults /\ UNCHANGED log
    <3>1. GapInv'
      BY <1>a, <2>4 DEF GapInv, Without
    <3>2. ASSUME Without({"cursorFault", "lostCursor"})
          PROVE  Between(0, next - gap) \subseteq Between(0, saved)
      <4>1. saved = next
        BY <1>0, <2>1, <3>2 DEF OnceInv
      <4> QED
        BY <1>0, <2>1, <4>1, BetweenElements
    <3>3. OnceInv'
      BY <1>0, <1>a, <1>b, <2>1, <2>4, <3>2 DEF OnceInv, Without
    <3> QED
      BY <3>1, <3>3
  <2> QED
    BY <1>4, <2>3, <2>4 DEF EmitsEvidence
<1>5. CASE RunBegins \/ ReadsRecords \/ SinkRefuses \/ PersistFails \/ RunEnds
  BY <1>0, <1>5, <1>c DEF RunBegins, ReadsRecords, SinkRefuses, PersistFails, RunEnds,
                          disk, OnceInv
<1>6. CASE Delivers \/ SinkTears \/ Persists
  BY <1>0, <1>6, <1>c DEF Delivers, SinkTears, Persists, OnceInv
<1>7. CASE Crash
  <2>1. UNCHANGED <<log, saved, skipped>> /\ pc' = "idle" /\ up' = FALSE
    BY <1>7 DEF Crash, disk
  <2>2. CASE pc = "evidence"
    <3>1. "evidenceCrash" \in faults
      BY <1>7, <2>2 DEF Crash, CrashPossible, EvidenceWindow
    <3>2. GapInv'
      BY <1>a, <3>1 DEF GapInv, Without
    <3>3. ASSUME Without({"cursorFault", "lostCursor"})
          PROVE  Between(0, next - gap) \subseteq Between(0, saved)
      <4>1. saved = next
        BY <1>0, <2>2, <3>3 DEF OnceInv
      <4> QED
        BY <1>0, <2>2, <4>1, BetweenElements
    <3>4. OnceInv'
      BY <1>0, <1>a, <1>b, <2>1, <2>2, <3>3 DEF OnceInv, Without
    <3> QED
      BY <3>2, <3>4
  <2>3. CASE pc # "evidence"
    BY <1>0, <1>c, <2>1, <2>3
  <2> QED
    BY <2>2, <2>3
<1>8. CASE Boot
  <2>1. /\ UNCHANGED <<log, saved, skipped, pc>> /\ ~up
        /\ next' \in {saved} \cup (IF "lostCursor" \in faults THEN {0} ELSE {})
    BY <1>8 DEF Boot, disk
  <2>2. Without({"cursorFault", "lostCursor"}) => next' = saved
    BY <2>1 DEF Without
  <2> QED
    BY <1>0, <1>c, <2>1, <2>2
<1>9. CASE UNCHANGED vars
  <2>1. UNCHANGED <<log, saved, next, gap, pc, up, skipped>>
    BY <1>9 DEF vars, disk, pump
  <2> QED
    BY <1>0, <1>a, <1>b, <2>1 DEF GapInv, OnceInv, Without
<1> QED
  BY <1>1, <1>2, <1>3, <1>4, <1>5, <1>6, <1>7, <1>8, <1>9 DEF Next, RunOnce

(***************************************************************************)
(* The evidence of gaps, for any number of them: as long as it is admitted *)
(* and no crash comes before it, every skipped record is named by the log; *)
(* and as long as the cursor can be written and read, by one record only.  *)
(***************************************************************************)
THEOREM GapsEvidenced == Spec => []GapsOnRecord
<1>1. Init => EvidenceInv
  BY EvidenceInit
<1>2. EvidenceInv /\ [Next]_vars => EvidenceInv'
  BY TypeStep, EvidenceStep DEF EvidenceInv
<1>3. EvidenceInv => GapsOnRecord
  BY DEF EvidenceInv, GapInv, OnceInv, GapIsEvidenced, EvidencedOnce, GapsOnRecord
<1> QED
  BY <1>1, <1>2, <1>3, PTL DEF Spec

-----------------------------------------------------------------------------
(* What lines repeat, and what the evidence says of them. *)

Unbroken == {k \in DOMAIN sink : sink[k].whole}

\* A set of numbers up to n has a largest one.
LEMMA LargestExists ==
  ASSUME NEW n \in Nat, NEW D \in SUBSET (0..n), D # {}
  PROVE  \E top \in D : \A m \in D : m <= top
<1> DEFINE Back == {n - m : m \in D}
<1>1. Back \in SUBSET Nat /\ Back # {}
  <2>1. \A m \in D : n - m \in Nat
    OBVIOUS
  <2>2. PICK m \in D : TRUE
    OBVIOUS
  <2>3. n - m \in Back
    OBVIOUS
  <2> QED
    BY <2>1, <2>3
<1>2. PICK x \in Back : \A y \in Back : ~ (<<y, x>> \in OpToRel(<, Nat))
  BY <1>1, NatLessThanWellFounded, WFMin
<1>3. \A y \in Back : ~(y < x)
  BY <1>1, <1>2 DEF OpToRel
<1>4. PICK top \in D : x = n - top
  BY <1>2
<1>5. \A m \in D : m <= top
  <2> TAKE m \in D
  <2>1. n - m \in Back
    OBVIOUS
  <2>2. ~(n - m < n - top)
    BY <2>1, <1>3, <1>4
  <2> QED
    BY <2>2
<1> QED
  BY <1>5

\* HandedOver is what it is meant to be: the least bound of the whole lines.
LEMMA HandedOverIsBound ==
  ASSUME sink \in Seq(Lines), NEW n \in Nat, \A k \in Unbroken : sink[k].index < n
  PROVE  /\ HandedOver \in Nat /\ HandedOver <= n
         /\ \A k \in Unbroken : sink[k].index < HandedOver
<1> DEFINE done == {sink[k].index + 1 : k \in Unbroken}
<1>1. \A k \in Unbroken : sink[k].index \in Nat /\ sink[k].index + 1 \in done
  <2> TAKE k \in Unbroken
  <2>1. sink[k] \in Lines
    BY ElementOfSeq, LenProperties DEF Unbroken
  <2> QED
    BY <2>1 DEF Lines
<1>2. done \cup {0} \in SUBSET (0..n)
  BY <1>1
<1>3. HandedOver = CHOOSE m \in done \cup {0} : \A l \in done : l <= m
  BY DEF HandedOver, Unbroken
<1> HIDE DEF done
<1>4. PICK top \in done \cup {0} : \A m \in done \cup {0} : m <= top
  BY <1>2, LargestExists
<1>5. HandedOver \in done \cup {0} /\ \A m \in done : m <= HandedOver
  BY <1>3, <1>4
<1>6. HandedOver \in 0..n
  BY <1>2, <1>5
<1> QED
  BY <1>1, <1>5, <1>6

\* One more line at the end of the sink file.
LEMMA LineAppend ==
  ASSUME sink \in Seq(Lines), NEW line \in Lines, sink' = Append(sink, line)
  PROVE  /\ Len(sink) \in Nat /\ DOMAIN sink = 1..Len(sink)
         /\ DOMAIN sink' = 1..(Len(sink) + 1)
         /\ \A k \in 1..Len(sink) : sink'[k] = sink[k]
         /\ sink'[Len(sink) + 1] = line
         /\ Unbroken' = Unbroken \cup (IF line.whole THEN {Len(sink) + 1} ELSE {})
         /\ Received' \subseteq Received \cup {line.index}
<1>1. /\ Len(sink) \in Nat /\ DOMAIN sink = 1..Len(sink)
      /\ DOMAIN sink' = 1..(Len(sink) + 1)
      /\ \A k \in 1..Len(sink) : sink'[k] = sink[k]
      /\ sink'[Len(sink) + 1] = line
  BY AppendProperties, LenProperties
<1>2. 1..(Len(sink) + 1) = (1..Len(sink)) \cup {Len(sink) + 1}
  BY <1>1
<1>3. Unbroken' = Unbroken \cup (IF line.whole THEN {Len(sink) + 1} ELSE {})
  BY <1>1, <1>2 DEF Unbroken
<1>4. ASSUME NEW k \in IntactLines'
      PROVE  k \in IntactLines \/ k = Len(sink) + 1
  <2>1. k \in 1..Len(sink) \/ k = Len(sink) + 1
    BY <1>1, <1>2 DEF IntactLines
  <2>2. CASE k \in 1..Len(sink)
    <3>1. k = 1 \/ k - 1 \in 1..Len(sink)
      BY <1>1, <2>2
    <3> QED
      BY <1>1, <1>4, <2>2, <3>1 DEF IntactLines
  <2> QED
    BY <2>1, <2>2
<1>5. \A k \in IntactLines : k \in 1..Len(sink)
  BY <1>1 DEF IntactLines
<1>6. Received' \subseteq Received \cup {line.index}
  BY <1>1, <1>4, <1>5 DEF Received
<1> QED
  BY <1>1, <1>3, <1>6

\* The records a rotation took from the pump: none at or behind the boundary it
\* has reached when it delivers.
Boundary == IF up THEN offset ELSE rotated

PlaceInv ==
  /\ pc \in {"read", "deliver", "persist"} => next >= offset
  /\ skipped \subseteq Between(0, Boundary)

\* As long as no line is torn there is no hole in front of a delivered record
\* that a rotation did not make.
OrderInv ==
  Without({"tornLine"}) =>
    /\ \A k \in Unbroken : Between(0, sink[k].index) \subseteq Received \cup skipped
    /\ FirstReceivedInOrder

\* As long as the cursor file follows the cursor, at most the record in flight
\* is ahead of it.
AheadInv ==
  Without({"cursorFault", "lostCursor"}) =>
    /\ \A k \in Unbroken : sink[k].index < saved + 1
    /\ up => next = IF pc = "persist" THEN saved + 1 ELSE saved

\* As long as a restart does not go behind a delivered record, the pump hands
\* over ever higher records, and none of those it has named as missed.
TruthInv ==
  Without({"deliveryCrash", "lostCursor"}) =>
    /\ \A k \in Unbroken :
         sink[k].index < IF ~up THEN saved ELSE IF pc = "evidence" THEN next - gap ELSE next
    /\ Evidenced \subseteq Between(0, Boundary)
    /\ Evidenced \cap Received = {}

LinesInv == PlaceInv /\ OrderInv /\ AheadInv /\ TruthInv

LEMMA LinesInit == Init => LinesInv
<1> SUFFICES ASSUME Init PROVE LinesInv
  OBVIOUS
<1>1. DOMAIN sink = {} /\ DOMAIN log = {}
  BY DEF Init
<1>2. Unbroken = {} /\ Evidenced = {} /\ FirstReceivedInOrder
  BY <1>1 DEF Unbroken, Evidenced, FirstReceivedInOrder, IntactLines
<1>3. PlaceInv
  BY DEF Init, PlaceInv
<1>4. OrderInv
  BY <1>2 DEF OrderInv
<1>5. AheadInv
  BY <1>2 DEF Init, AheadInv
<1>6. TruthInv
  BY <1>2 DEF Init, TruthInv
<1> QED
  BY <1>3, <1>4, <1>5, <1>6 DEF LinesInv

\* The facts about one step that the four parts of the invariant share.
LEMMA FaultsStay == [Next]_vars => UNCHANGED faults
BY DEF Next, RunOnce, Admit, Rotate, RunBegins, SkipsGap, EmitsEvidence, ReadsRecords,
       Delivers, SinkRefuses, SinkTears, Persists, PersistFails, RunEnds, Crash, Boot, vars

LEMMA PlaceStep == TypeInv /\ PlaceInv /\ [Next]_vars => PlaceInv'
<1> SUFFICES ASSUME TypeInv, PlaceInv, [Next]_vars PROVE PlaceInv'
  OBVIOUS
<1>0. /\ offset \in Nat /\ next \in Nat /\ rotated \in Nat /\ offset <= rotated
      /\ pc = "evidence" => next = offset
      /\ skipped \subseteq Between(0, Boundary)
      /\ Boundary \in Nat /\ Boundary <= rotated
      /\ ~up => pc = "idle"
  <2>1. /\ offset \in Nat /\ next \in Nat /\ rotated \in Nat /\ offset <= rotated
    BY DEF TypeInv, TypeOK, Committed
  <2>2. (pc = "evidence" => next = offset) /\ (~up => pc = "idle")
    BY DEF TypeInv, Places
  <2> QED
    BY <2>1, <2>2 DEF PlaceInv, Boundary
<1>1. CASE Admit \/ RunBegins \/ EmitsEvidence \/ ReadsRecords \/ SinkRefuses \/ SinkTears
           \/ Persists \/ PersistFails \/ RunEnds \/ Delivers
  BY <1>0, <1>1 DEF Admit, RunBegins, EmitsEvidence, ReadsRecords, SinkRefuses, SinkTears,
                    Persists, PersistFails, RunEnds, Delivers, disk, pump, PlaceInv, Boundary
<1>2. CASE Rotate
  BY <1>0, <1>2 DEF Rotate, pump, PlaceInv, Boundary
<1>3. CASE SkipsGap
  <2>1. Between(next, offset) \subseteq Between(0, offset)
    BY <1>0, BetweenElements
  <2> QED
    BY <1>0, <1>3, <2>1 DEF SkipsGap, PlaceInv, Boundary
<1>4. CASE Crash \/ Boot
  <2>1. Between(0, Boundary) \subseteq Between(0, rotated)
    BY <1>0, BetweenElements
  <2>2. Boundary' = rotated /\ UNCHANGED skipped /\ pc' = "idle"
    BY <1>0, <1>4 DEF Crash, Boot, disk, Boundary
  <2> QED
    BY <1>0, <2>1, <2>2 DEF PlaceInv
<1>5. CASE UNCHANGED vars
  BY <1>0, <1>5 DEF vars, disk, pump, PlaceInv, Boundary
<1> QED
  BY <1>1, <1>2, <1>3, <1>4, <1>5 DEF Next, RunOnce

\* A new line of a record at the cursor: it has been received before, or it is
\* the first behind everything that has.
LEMMA OrderStep ==
  TypeInv /\ CursorInv /\ PlaceInv /\ OrderInv /\ [Next]_vars => OrderInv'
<1> SUFFICES ASSUME TypeInv, CursorInv, PlaceInv, OrderInv, [Next]_vars,
                    Without({"tornLine"})'
             PROVE  /\ (\A k \in Unbroken :
                          Between(0, sink[k].index) \subseteq Received \cup skipped)'
                    /\ FirstReceivedInOrder'
  BY DEF OrderInv
<1>0. UNCHANGED faults /\ Without({"tornLine"}) /\ "tornLine" \notin faults
  BY FaultsStay DEF Without
<1>1. /\ next \in Nat /\ offset \in Nat /\ sink \in Seq(Lines)
      /\ \A k \in DOMAIN sink : sink[k].whole
      /\ Between(0, next) \subseteq Received \cup skipped
      /\ \A k \in Unbroken : Between(0, sink[k].index) \subseteq Received \cup skipped
      /\ FirstReceivedInOrder
  BY <1>0 DEF TypeInv, TypeOK, Lines, Committed, CursorInv, OrderInv
<1>2. IntactLines = DOMAIN sink /\ Unbroken = DOMAIN sink
  <2>1. \A k \in DOMAIN sink : k = 1 \/ k - 1 \in DOMAIN sink
    BY <1>1, LenProperties
  <2> QED
    BY <1>1, <2>1 DEF IntactLines, Unbroken
<1>3. CASE UNCHANGED sink /\ skipped \subseteq skipped'
  <2>1. Received' = Received /\ Unbroken' = Unbroken /\ IntactLines' = IntactLines
    BY <1>3 DEF Received, IntactLines, Unbroken
  <2> QED
    BY <1>0, <1>1, <1>3, <2>1 DEF FirstReceivedInOrder
<1>4. CASE Delivers
  <2> DEFINE n == Len(sink)
             line == Whole(next)
  <2>1. /\ sink' = Append(sink, line) /\ next' = next + 1 /\ UNCHANGED <<skipped, offset, up>>
        /\ up /\ next >= offset
    BY <1>4 DEF Delivers, PlaceInv
  <2>2. line \in Lines /\ line.whole /\ line.index = next
    BY <1>1 DEF Whole, Lines
  <2> HIDE DEF line
  <2>3. /\ n \in Nat /\ DOMAIN sink = 1..n /\ DOMAIN sink' = 1..(n + 1)
        /\ \A k \in 1..n : sink'[k] = sink[k]
        /\ sink'[n + 1] = line
        /\ Unbroken' = 1..n \cup {n + 1}
    BY <1>1, <1>2, <2>1, <2>2, LineAppend
  <2>4. 1..(n + 1) = (1..n) \cup {n + 1} /\ \A k \in 1..n : k < n + 1
    BY <2>3
  <2>5. IntactLines' = 1..(n + 1)
    <3>1. \A k \in 1..(n + 1) : sink'[k].whole /\ (k = 1 \/ k - 1 \in 1..(n + 1))
      BY <1>1, <2>2, <2>3, <2>4
    <3> QED
      BY <2>3, <3>1 DEF IntactLines
  <2>6. Received \subseteq Received'
    BY <1>2, <2>3, <2>4, <2>5 DEF Received
  <2>7. \A k \in Unbroken' : Between(0, sink'[k].index) \subseteq Received' \cup skipped'
    BY <1>1, <1>2, <2>1, <2>2, <2>3, <2>6
  <2>8. ASSUME NEW l \in 1..n, ~(sink[l].index < next)
        PROVE  \E k \in 1..n : sink[k].index = next
    <3>1. sink[l].index \in Nat
      <4>1. sink[l] \in Lines
        BY <1>1, <2>3, ElementOfSeq
      <4> QED
        BY <4>1 DEF Lines
    <3>2. CASE sink[l].index = next
      BY <3>2
    <3>3. CASE next < sink[l].index
      <4>1. next \in Between(0, sink[l].index)
        BY <1>1, <3>1, <3>3, BetweenElements
      <4>2. next \in Received \cup skipped
        BY <1>1, <1>2, <2>3, <4>1
      <4>3. next \notin skipped
        <5>1. skipped \subseteq Between(0, offset)
          BY <2>1 DEF PlaceInv, Boundary
        <5> QED
          BY <1>1, <2>1, <5>1, BetweenElements
      <4> QED
        BY <1>2, <2>3, <4>2, <4>3 DEF Received
    <3> QED
      BY <1>1, <2>8, <3>1, <3>2, <3>3
  <2>9. ASSUME NEW k \in 1..(n + 1)
        PROVE  \/ \E l \in 1..(n + 1) : l < k /\ sink'[l].index = sink'[k].index
               \/ \A l \in 1..(n + 1) : l < k => sink'[l].index < sink'[k].index
    <3>1. CASE k \in 1..n
      <4>1. \/ \E l \in 1..n : l < k /\ sink[l].index = sink[k].index
            \/ \A l \in 1..n : l < k => sink[l].index < sink[k].index
        BY <1>0, <1>1, <1>2, <2>3, <3>1 DEF FirstReceivedInOrder
      <4>2. ~(n + 1 < k)
        BY <2>3, <3>1
      <4> QED
        BY <2>3, <2>4, <3>1, <4>1, <4>2
    <3>2. CASE k = n + 1
      <4>1. \/ \E l \in 1..n : sink[l].index = next
            \/ \A l \in 1..n : sink[l].index < next
        BY <2>8
      <4>2. ~(n + 1 < n + 1)
        BY <2>3
      <4> QED
        BY <2>2, <2>3, <2>4, <3>2, <4>1, <4>2
    <3> QED
      BY <2>4, <3>1, <3>2
  <2>10. FirstReceivedInOrder'
    BY <2>5, <2>9 DEF FirstReceivedInOrder
  <2> QED
    BY <2>7, <2>10
<1>5. CASE SinkTears
  BY <1>0, <1>5 DEF SinkTears
<1> QED
  BY <1>3, <1>4, <1>5 DEF Next, RunOnce, Admit, Rotate, RunBegins, SkipsGap, EmitsEvidence,
     ReadsRecords, SinkRefuses, Persists, PersistFails, RunEnds, Crash, Boot, vars, disk, pump

LEMMA AheadStep == TypeInv /\ AheadInv /\ [Next]_vars => AheadInv'
<1> SUFFICES ASSUME TypeInv, AheadInv, [Next]_vars,
                    Without({"cursorFault", "lostCursor"})'
             PROVE  /\ (\A k \in Unbroken : sink[k].index < saved + 1)'
                    /\ (up => next = IF pc = "persist" THEN saved + 1 ELSE saved)'
  BY DEF AheadInv
<1>0. /\ UNCHANGED faults /\ "cursorFault" \notin faults /\ "lostCursor" \notin faults
      /\ Without({"cursorFault", "lostCursor"})
  BY FaultsStay DEF Without
<1>1. /\ next \in Nat /\ offset \in Nat /\ saved \in Nat /\ sink \in Seq(Lines)
      /\ \A k \in Unbroken : sink[k].index < saved + 1
      /\ up => next = IF pc = "persist" THEN saved + 1 ELSE saved
  BY <1>0 DEF TypeInv, TypeOK, Lines, Committed, AheadInv
<1>2. \A k \in Unbroken : sink[k].index \in Nat
  <2> TAKE k \in Unbroken
  <2>1. sink[k] \in Lines
    BY <1>1, ElementOfSeq, LenProperties DEF Unbroken
  <2> QED
    BY <2>1 DEF Lines
\* The cursor file does not fall back, and no line is written.
<1>3. ASSUME UNCHANGED sink, saved' \in Nat, saved <= saved'
      PROVE  (\A k \in Unbroken : sink[k].index < saved + 1)'
  <2>1. Unbroken' = Unbroken
    BY <1>3 DEF Unbroken
  <2> QED
    BY <1>1, <1>2, <1>3, <2>1
<1>4. CASE Admit \/ Rotate \/ RunBegins \/ EmitsEvidence \/ ReadsRecords \/ SinkRefuses
           \/ RunEnds
  BY <1>1, <1>3, <1>4 DEF Admit, Rotate, RunBegins, EmitsEvidence, ReadsRecords,
                          SinkRefuses, RunEnds, disk, pump
<1>5. CASE SkipsGap
  <2>1. saved' = offset /\ next' = offset /\ pc' = "evidence" /\ UNCHANGED sink /\ saved < offset
    BY <1>0, <1>1, <1>5 DEF SkipsGap
  <2> QED
    BY <1>1, <1>3, <2>1
<1>6. CASE Delivers
  <2>1. /\ sink' = Append(sink, Whole(next)) /\ next' = next + 1 /\ UNCHANGED <<saved, up>>
        /\ next = saved /\ pc' = "persist"
    BY <1>1, <1>6 DEF Delivers
  <2>2. Whole(next) \in Lines /\ Whole(next).whole /\ Whole(next).index = next
    BY <1>1 DEF Whole, Lines
  <2>3. /\ \A k \in 1..Len(sink) : sink'[k] = sink[k]
        /\ sink'[Len(sink) + 1] = Whole(next)
        /\ Unbroken' = Unbroken \cup {Len(sink) + 1}
        /\ Unbroken \subseteq 1..Len(sink)
    BY <1>1, <2>1, <2>2, LineAppend DEF Unbroken
  <2>4. \A k \in Unbroken' : sink'[k].index < saved' + 1
    BY <1>1, <2>1, <2>2, <2>3
  <2> QED
    BY <2>1, <2>4
<1>7. CASE SinkTears
  <2>1. sink' = Append(sink, Torn(next)) /\ UNCHANGED <<next, saved, up>> /\ pc' = "idle"
        /\ pc = "deliver"
    BY <1>7 DEF SinkTears
  <2>2. Torn(next) \in Lines /\ ~Torn(next).whole
    BY <1>1 DEF Torn, Lines
  <2>3. /\ \A k \in 1..Len(sink) : sink'[k] = sink[k]
        /\ Unbroken' = Unbroken /\ Unbroken \subseteq 1..Len(sink)
    BY <1>1, <2>1, <2>2, LineAppend DEF Unbroken
  <2> QED
    BY <1>1, <2>1, <2>3
<1>8. CASE Persists
  <2>1. saved' = next /\ next' = next /\ pc' = "deliver" /\ UNCHANGED sink /\ next = saved + 1
    BY <1>1, <1>8 DEF Persists
  <2> QED
    BY <1>1, <1>3, <2>1
<1>9. CASE PersistFails
  BY <1>0, <1>9 DEF PersistFails
<1>10. CASE Crash \/ Boot
  <2>1. UNCHANGED <<saved, sink>> /\ (up' => next' = saved) /\ pc' = "idle"
    BY <1>0, <1>10 DEF Crash, Boot, disk, TypeInv, Places
  <2> QED
    BY <1>1, <1>3, <2>1
<1>11. CASE UNCHANGED vars
  BY <1>1, <1>3, <1>11 DEF vars, disk, pump
<1> QED
  BY <1>4, <1>5, <1>6, <1>7, <1>8, <1>9, <1>10, <1>11 DEF Next, RunOnce

\* Everything handed over lies before the cursor, and everything evidenced lies
\* before the boundary the next delivery starts from.
LEMMA TruthStep ==
  TypeInv /\ PlaceInv /\ TruthInv /\ [Next]_vars => TruthInv'
<1> SUFFICES ASSUME TypeInv, PlaceInv, TruthInv, [Next]_vars,
                    Without({"deliveryCrash", "lostCursor"})'
             PROVE  /\ (\A k \in Unbroken :
                          sink[k].index < IF ~up THEN saved
                                          ELSE IF pc = "evidence" THEN next - gap ELSE next)'
                    /\ (Evidenced \subseteq Between(0, Boundary))'
                    /\ (Evidenced \cap Received = {})'
  BY DEF TruthInv
<1> DEFINE bound == IF ~up THEN saved ELSE IF pc = "evidence" THEN next - gap ELSE next
<1>0. /\ UNCHANGED faults /\ "deliveryCrash" \notin faults /\ "lostCursor" \notin faults
      /\ Without({"deliveryCrash", "lostCursor"})
  BY FaultsStay DEF Without
<1>1. /\ next \in Nat /\ offset \in Nat /\ saved \in Nat /\ rotated \in Nat /\ gap \in Nat
      /\ sink \in Seq(Lines) /\ offset <= rotated /\ up \in BOOLEAN
  BY DEF TypeInv, TypeOK, Lines, Committed
<1>2. /\ \A k \in Unbroken : sink[k].index < bound
      /\ Evidenced \subseteq Between(0, Boundary)
      /\ Evidenced \cap Received = {}
  BY <1>0 DEF TruthInv
<1>3. /\ pc = "evidence" => next = offset /\ gap <= next
      /\ ~up => pc = "idle"
      /\ pc \in {"read", "deliver", "persist"} => next >= offset
  BY DEF TypeInv, Places, PlaceInv
<1>4. bound \in Nat /\ Boundary \in Nat /\ Boundary <= rotated
  BY <1>1, <1>3 DEF Boundary
<1>5. \A k \in Unbroken : sink[k].index \in Nat
  <2> TAKE k \in Unbroken
  <2>1. sink[k] \in Lines
    BY <1>1, ElementOfSeq, LenProperties DEF Unbroken
  <2> QED
    BY <2>1 DEF Lines
\* No line and no evidence, and neither the cursor nor the boundary falls back.
<1>6. ASSUME UNCHANGED <<log, sink>>, bound' \in Nat, bound <= bound',
             Boundary' \in Nat, Boundary <= Boundary'
      PROVE  /\ \A k \in Unbroken' : sink'[k].index < bound'
             /\ Evidenced' \subseteq Between(0, Boundary')
             /\ Evidenced' \cap Received' = {}
  <2>1. Unbroken' = Unbroken /\ Evidenced' = Evidenced /\ Received' = Received
    BY <1>6 DEF Unbroken, Evidenced, Received, IntactLines
  <2>2. Between(0, Boundary) \subseteq Between(0, Boundary')
    BY <1>4, <1>6, BetweenElements
  <2>3. \A k \in Unbroken' : sink'[k].index < bound'
    <3> HIDE DEF bound
    <3> QED
      BY <1>2, <1>4, <1>5, <1>6, <2>1
  <2> QED
    BY <1>2, <2>1, <2>2, <2>3
<1>7. CASE Admit
  <2>1. /\ log' = Append(log, Event) /\ Event \in [from : Nat, to : Nat]
        /\ UNCHANGED <<saved, next, gap, pc, up, skipped, sink, offset, rotated>>
    BY <1>7 DEF Admit, pump, Event
  <2>2. Named(Event) = {}
    BY BetweenElements DEF Named, Event
  <2>3. Evidenced' = Evidenced
    BY <2>1, <2>2, EvidenceAppend
  <2>4. Unbroken' = Unbroken /\ Received' = Received /\ Boundary' = Boundary
    BY <2>1 DEF Unbroken, Received, IntactLines, Boundary
  <2> QED
    BY <1>2, <2>1, <2>3, <2>4
<1>8. CASE Rotate
  <2>0. Committed + 1 \in Nat /\ rotated + 1 \in Nat
    BY <1>1 DEF TypeInv, TypeOK, Committed
  <2>1. UNCHANGED <<log, sink, saved, next, gap, pc, up, offset>> /\ rotated <= rotated'
        /\ rotated' \in Nat
    BY <1>1, <1>8, <2>0, BetweenElements DEF Rotate, pump
  <2>2. Boundary' \in Nat /\ Boundary <= Boundary' /\ bound' = bound
    BY <1>1, <2>1 DEF Boundary
  <2> QED
    BY <1>4, <1>6, <2>1, <2>2
<1>9. CASE SkipsGap
  <2>1. /\ pc = "idle" /\ pc' = "evidence" /\ gap' = offset - next /\ next' = offset
        /\ UNCHANGED <<log, sink, up, offset, rotated>> /\ next < offset /\ up
        /\ next' - gap' = next
    BY <1>1, <1>9 DEF SkipsGap
  <2>2. bound' = bound /\ Boundary' = Boundary
    BY <2>1 DEF Boundary
  <2> QED
    BY <1>4, <1>6, <2>1, <2>2
<1>10. CASE EmitsEvidence
  <2> DEFINE rec == Evidence(next - gap, next)
  <2>1. /\ pc = "evidence" /\ pc' = "read" /\ up
        /\ UNCHANGED <<saved, next, up, sink, offset, rotated>>
        /\ next - gap \in Nat /\ next - gap <= next /\ next = offset
    BY <1>1, <1>3, <1>10 DEF EmitsEvidence
  <2>2. bound = next - gap /\ bound' = next /\ Boundary' = Boundary /\ Boundary = next
    BY <2>1 DEF Boundary
  <2>3. CASE log' = Append(log, rec)
    <3>1. rec \in [from : Nat, to : Nat] /\ Named(rec) = Between(next - gap, next)
      BY <1>1, <2>1 DEF Evidence, Named
    <3> HIDE DEF rec
    <3>2. Evidenced' = Evidenced \cup Between(next - gap, next)
      BY <2>3, <3>1, EvidenceAppend
    <3>3. Unbroken' = Unbroken /\ Received' = Received
      BY <2>1 DEF Unbroken, Received, IntactLines
    <3>4. Between(next - gap, next) \subseteq Between(0, next)
      BY <1>1, <2>1, BetweenElements
    <3>5. Received \cap Between(next - gap, next) = {}
      <4>1. ASSUME NEW i \in Received PROVE i < next - gap /\ i \in Nat
        <5>1. PICK k \in Unbroken : i = sink[k].index
          BY <4>1 DEF Received, IntactLines, Unbroken
        <5> QED
          BY <1>2, <1>5, <2>2, <5>1
      <4> QED
        BY <1>1, <2>1, <4>1, BetweenElements
    <3>6. \A k \in Unbroken' : sink'[k].index < next
      BY <1>1, <1>2, <1>5, <2>1, <2>2, <3>3
    <3> QED
      BY <1>2, <2>1, <2>2, <3>2, <3>3, <3>4, <3>5, <3>6
  <2>4. CASE UNCHANGED log
    BY <1>1, <1>4, <1>6, <2>1, <2>2, <2>4
  <2> QED
    BY <1>10, <2>3, <2>4 DEF EmitsEvidence
<1>11. CASE Delivers
  <2>1. /\ sink' = Append(sink, Whole(next)) /\ next' = next + 1
        /\ UNCHANGED <<log, up, offset, rotated>>
        /\ pc = "deliver" /\ pc' = "persist" /\ up /\ next >= offset
    BY <1>3, <1>11 DEF Delivers
  <2>2. Whole(next) \in Lines /\ Whole(next).whole /\ Whole(next).index = next
    BY <1>1 DEF Whole, Lines
  <2>3. /\ \A k \in 1..Len(sink) : sink'[k] = sink[k]
        /\ sink'[Len(sink) + 1] = Whole(next)
        /\ Unbroken' = Unbroken \cup {Len(sink) + 1}
        /\ Unbroken \subseteq 1..Len(sink)
        /\ Received' \subseteq Received \cup {next}
    BY <1>1, <2>1, <2>2, LineAppend DEF Unbroken
  <2>4. bound = next /\ bound' = next + 1 /\ Boundary = offset /\ Boundary' = offset
    BY <2>1 DEF Boundary
  <2>5. \A k \in Unbroken' : sink'[k].index < next + 1
    BY <1>1, <1>2, <1>5, <2>2, <2>3, <2>4
  <2>6. Evidenced' = Evidenced /\ next \notin Evidenced
    <3>1. next \notin Between(0, offset)
      BY <1>1, <2>1, BetweenElements
    <3> QED
      BY <1>2, <2>1, <2>4, <3>1 DEF Evidenced
  <2> QED
    BY <1>2, <2>3, <2>4, <2>5, <2>6
<1>12. CASE SinkTears
  <2>1. /\ sink' = Append(sink, Torn(next)) /\ UNCHANGED <<log, next, gap, saved, up, offset, rotated>>
        /\ pc' = "idle" /\ pc = "deliver" /\ up /\ next >= offset
    BY <1>3, <1>12 DEF SinkTears
  <2>2. Torn(next) \in Lines /\ ~Torn(next).whole /\ Torn(next).index = next
    BY <1>1 DEF Torn, Lines
  <2>3. /\ \A k \in 1..Len(sink) : sink'[k] = sink[k]
        /\ Unbroken' = Unbroken /\ Unbroken \subseteq 1..Len(sink)
        /\ Received' \subseteq Received \cup {next}
    BY <1>1, <2>1, <2>2, LineAppend DEF Unbroken
  <2>4. bound = next /\ bound' = next /\ Boundary = offset /\ Boundary' = offset
    BY <2>1 DEF Boundary
  <2>5. \A k \in Unbroken' : sink'[k].index < next
    BY <1>2, <2>3, <2>4
  <2>6. Evidenced' = Evidenced /\ next \notin Evidenced
    <3>1. next \notin Between(0, offset)
      BY <1>1, <2>1, BetweenElements
    <3> QED
      BY <1>2, <2>1, <2>4, <3>1 DEF Evidenced
  <2> QED
    BY <1>2, <2>3, <2>4, <2>5, <2>6
<1>13. CASE RunBegins \/ ReadsRecords \/ SinkRefuses \/ Persists \/ PersistFails \/ RunEnds
  <2>1. /\ UNCHANGED <<log, sink, up, next, gap, offset, rotated>> /\ up
        /\ pc # "evidence" /\ pc' # "evidence"
    BY <1>13 DEF RunBegins, ReadsRecords, SinkRefuses, Persists, PersistFails, RunEnds, disk
  <2>2. bound' = bound /\ Boundary' = Boundary
    BY <2>1 DEF Boundary
  <2> QED
    BY <1>4, <1>6, <2>1, <2>2
\* A crash leaves the cursor file, which covers what was handed over.
<1>14. CASE Crash
  <2>1. UNCHANGED <<log, sink, saved, rotated>> /\ up' = FALSE
    BY <1>14 DEF Crash, disk
  <2>2. ~(saved < HandedOver)
    BY <1>0, <1>14 DEF Crash, CrashPossible, DeliveryWindow
  <2>3. HandedOver \in Nat /\ \A k \in Unbroken : sink[k].index < HandedOver
    <3> HIDE DEF bound
    <3> QED
      BY <1>1, <1>2, <1>4, HandedOverIsBound
  <2>4. Unbroken' = Unbroken /\ Evidenced' = Evidenced /\ Received' = Received
    BY <2>1 DEF Unbroken, Evidenced, Received, IntactLines
  <2>5. \A k \in Unbroken' : sink'[k].index < saved'
    BY <1>1, <1>5, <2>1, <2>2, <2>3, <2>4
  <2>6. Between(0, Boundary) \subseteq Between(0, rotated) /\ Boundary' = rotated
    BY <1>1, <1>4, <2>1, BetweenElements DEF Boundary
  <2> QED
    BY <1>2, <2>1, <2>4, <2>5, <2>6
<1>15. CASE Boot
  <2>1. /\ UNCHANGED <<log, sink, saved, rotated, pc>> /\ ~up /\ up' = TRUE
        /\ next' = saved /\ offset' = rotated /\ pc = "idle"
    BY <1>0, <1>3, <1>15 DEF Boot, disk
  <2>2. bound' = bound /\ Boundary' = Boundary
    BY <2>1 DEF Boundary
  <2> QED
    BY <1>4, <1>6, <2>1, <2>2
<1>16. CASE UNCHANGED vars
  <2>1. UNCHANGED <<log, sink, saved, next, gap, pc, up, offset, rotated>>
    BY <1>16 DEF vars, disk, pump
  <2>2. bound' = bound /\ Boundary' = Boundary
    BY <2>1 DEF Boundary
  <2> QED
    BY <1>4, <1>6, <2>1, <2>2
<1> QED
  BY <1>7, <1>8, <1>9, <1>10, <1>11, <1>12, <1>13, <1>14, <1>15, <1>16 DEF Next, RunOnce

LEMMA LinesStep ==
  TypeInv /\ CursorInv /\ LinesInv /\ [Next]_vars => LinesInv'
BY PlaceStep, OrderStep, AheadStep, TruthStep DEF LinesInv

(***************************************************************************)
(* Repeats are harmless, for any number of crashes, lost cursors and       *)
(* rotations: as long as no line is torn, a line is either a repeat or     *)
(* ahead of all lines before it; and as long as the cursor can be written  *)
(* and read, the record in flight is all a restart repeats.                *)
(***************************************************************************)
THEOREM RepeatsAreHarmless == Spec => []RepeatsHarmless
<1>1. Init => TypeInv /\ CursorInv /\ LinesInv
  BY TypeInit, CursorInit, LinesInit
<1>2. TypeInv /\ CursorInv /\ LinesInv /\ [Next]_vars => (TypeInv /\ CursorInv /\ LinesInv)'
  BY TypeStep, CursorStep, LinesStep
<1>3. TypeInv /\ LinesInv => RepeatsHarmless
  <2> SUFFICES ASSUME TypeInv, LinesInv PROVE RepeatsHarmless
    OBVIOUS
  <2>1. FirstReceivedInOrder
    BY DEF LinesInv, OrderInv, FirstReceivedInOrder
  <2>2. ASSUME Without({"cursorFault", "lostCursor"}) PROVE HandedOver <= saved + 1
    <3>1. saved + 1 \in Nat /\ sink \in Seq(Lines)
      BY DEF TypeInv, TypeOK, Committed, Lines
    <3>2. \A k \in Unbroken : sink[k].index < saved + 1
      BY <2>2 DEF LinesInv, AheadInv
    <3> QED
      BY <3>1, <3>2, HandedOverIsBound
  <2> QED
    BY <2>1, <2>2 DEF RepeatsHarmless, RedeliveryBounded
<1> QED
  BY <1>1, <1>2, <1>3, PTL DEF Spec

(***************************************************************************)
(* The evidence tells the truth, for any number of gaps: as long as the    *)
(* cursor file covers what was delivered when a crash comes, no record the *)
(* log says was missed is one the sink has, before the evidence or after.  *)
(***************************************************************************)
THEOREM EvidenceTellsTruth == Spec => []EvidenceTruthful
<1>1. Init => TypeInv /\ CursorInv /\ LinesInv
  BY TypeInit, CursorInit, LinesInit
<1>2. TypeInv /\ CursorInv /\ LinesInv /\ [Next]_vars => (TypeInv /\ CursorInv /\ LinesInv)'
  BY TypeStep, CursorStep, LinesStep
<1>3. LinesInv => EvidenceTruthful
  BY DEF LinesInv, TruthInv, EvidenceTruthful
<1> QED
  BY <1>1, <1>2, <1>3, PTL DEF Spec
=============================================================================
