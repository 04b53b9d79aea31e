---------------------------- MODULE PolicyProofs ----------------------------
(***************************************************************************)
(* Theorems about the two models of the retention policy: HotMargin, for   *)
(* every set of policies and environments (the types, the ceiling, and the *)
(* evidence of what stays past it), and PolicyPin, for every set of        *)
(* policies, every minimum and ceiling and every number of changes (the    *)
(* types, the pinned floor and the trail of changes).  The specifications  *)
(* are independent of each other.                                          *)
(***************************************************************************)
EXTENDS HotMargin, PolicyPin, TLAPS

-----------------------------------------------------------------------------
(* HotMargin: ages and segments.                                           *)

\* An age after one more step of time, capped.
LEMMA OlderAge ==
  ASSUME NEW a \in Nat, NEW m \in Nat
  PROVE  /\ Smaller(a + 1, m) \in Nat /\ Smaller(a + 1, m) <= m
         /\ Smaller(a + 1, m) <= a + 1
         /\ a < m => Smaller(a + 1, m) = a + 1
  BY DEF Smaller

LEMMA OlderMonotone ==
  ASSUME NEW a \in Nat, NEW b \in Nat, NEW m \in Nat, b <= a
  PROVE  Smaller(b + 1, m) <= Smaller(a + 1, m)
  BY DEF Smaller

\* NewPolicy's conditions, as numbers.
LEMMA PolicyNumbers ==
  ASSUME TypeOK
  PROVE  /\ H \in Nat /\ S \in Nat /\ T \in Nat
         /\ 0 < S /\ S < H /\ 0 < T
         /\ MaxAge \in Nat /\ MaxAge = H + T + 1
  BY HotMarginAssumption DEF TypeOK, Accepted, H, S, T, MaxAge

\* What emitBreaches does to a segment.
LEMMA ReportedSegment ==
  ASSUME NEW seg \in [age : Nat, reported : BOOLEAN, evidenced : BOOLEAN],
         NEW emitted \in BOOLEAN
  PROVE  /\ Reported(seg, emitted) \in [age : Nat, reported : BOOLEAN, evidenced : BOOLEAN]
         /\ Reported(seg, emitted).age = seg.age
         /\ (seg.reported \/ seg.evidenced => seg.age > H) =>
              (Reported(seg, emitted).reported \/ Reported(seg, emitted).evidenced => seg.age > H)
         /\ emitted /\ (seg.reported => seg.evidenced) =>
              /\ Reported(seg, emitted).reported => Reported(seg, emitted).evidenced
              /\ CeilingBreached(seg.age) => Reported(seg, emitted).evidenced
  BY DEF Reported, CeilingBreached

-----------------------------------------------------------------------------
(* Types. *)

Segs(m) == {seg \in [age : 0..m, reported : BOOLEAN, evidenced : BOOLEAN] :
              seg.reported \/ seg.evidenced => seg.age > H}

\* A round keeps a list of segments one, no longer than it was.
LEMMA RoundTypes ==
  ASSUME TypeOK, NEW segs, NEW k \in Nat, DOMAIN segs = 1..k, Len(segs) = k,
         \A i \in 1..k : segs[i] \in Segs(MaxAge), Rounds(segs)
  PROVE  /\ Len(hot') \in 0..k
         /\ hot' \in [1..Len(hot') -> Segs(MaxAge)]
         /\ leftover' \in {None} \cup 0..MaxAge
         /\ "removeFails" \notin faults => leftover' = leftover
  <1>1. MaxAge \in Nat
    BY PolicyNumbers
  <1>2. PICK n \in 0..k, emitted \in BOOLEAN :
          /\ Finished(segs, n)
          /\ hot' = [i \in 1..(k - n) |-> Reported(segs[n + i], emitted)]
    BY DEF Rounds
  <1>3. Len(hot') = k - n
    BY <1>2
  <1>4. ASSUME NEW i \in 1..(k - n) PROVE Reported(segs[n + i], emitted) \in Segs(MaxAge)
    <2> DEFINE seg == segs[n + i]
    <2>1. seg \in Segs(MaxAge) /\ MaxAge \in Nat
      BY <1>1
    <2>2. seg \in [age : Nat, reported : BOOLEAN, evidenced : BOOLEAN] /\ seg.age \in 0..MaxAge
      BY <2>1 DEF Segs
    <2>3. seg.reported \/ seg.evidenced => seg.age > H
      BY <2>1 DEF Segs
    <2> HIDE DEF seg
    <2>4. /\ Reported(seg, emitted) \in [age : Nat, reported : BOOLEAN, evidenced : BOOLEAN]
          /\ Reported(seg, emitted).age = seg.age
          /\ Reported(seg, emitted).reported \/ Reported(seg, emitted).evidenced => seg.age > H
      BY <2>2, <2>3, ReportedSegment
    <2>5. Reported(seg, emitted) \in [age : 0..MaxAge, reported : BOOLEAN, evidenced : BOOLEAN]
      BY <2>2, <2>4
    <2>6. Reported(seg, emitted) \in Segs(MaxAge)
      BY <2>4, <2>5 DEF Segs
    <2> QED
      BY <2>6 DEF seg
  <1>5. leftover' \in {None} \cup 0..MaxAge
    <2>1. \A i \in 1..n : segs[i].age \in 0..MaxAge
      BY DEF Segs
    <2> QED
      BY <1>1, <1>2, <2>1 DEF Finished, Larger, TypeOK, None
  <1>6. "removeFails" \notin faults => leftover' = leftover
    BY <1>2 DEF Finished
  <1> QED
    BY <1>2, <1>3, <1>4, <1>5, <1>6

\* Time makes an age no less and no more than one greater.
LEMMA OlderType ==
  ASSUME TypeOK, NEW a \in {None} \cup 0..MaxAge
  PROVE  /\ Older(a) \in {None} \cup 0..MaxAge
         /\ a # None => Older(a) \in 0..MaxAge /\ Older(a) = Smaller(a + 1, MaxAge)
         /\ a = None => Older(a) = None
BY PolicyNumbers, OlderAge DEF Older, None

LEMMA TypeInit == Init => TypeOK
<1> SUFFICES ASSUME Init PROVE TypeOK
  OBVIOUS
<1>1. policy \in Policies /\ Accepted(policy) /\ policy \in [hotMax : Nat, seal : Nat, tick : Nat]
  BY HotMarginAssumption DEF Init
<1> QED
  BY <1>1, HotMarginAssumption DEF Init, TypeOK, None, H, S, T, MaxAge

LEMMA TypeStep == TypeOK /\ [Next]_vars => TypeOK'
<1> SUFFICES ASSUME TypeOK, [Next]_vars PROVE TypeOK'
  OBVIOUS
<1>0. /\ H \in Nat /\ S \in Nat /\ T \in Nat /\ MaxAge \in Nat
      /\ Len(hot) \in Nat /\ DOMAIN hot = 1..Len(hot)
      /\ hot \in [1..Len(hot) -> Segs(MaxAge)]
  BY PolicyNumbers DEF TypeOK, Segs
\* The rigid part, and what is said of hot with Segs.
<1>a. ASSUME UNCHANGED <<faults, policy>>,
             active' \in {None} \cup 0..MaxAge,
             Len(hot') \in 0..MaxSegments,
             hot' \in [1..Len(hot') -> Segs(MaxAge)],
             leftover' \in {None} \cup 0..MaxAge,
             sinceSeal' \in 0..S, sinceTick' \in 0..T
      PROVE  TypeOK'
  <2>1. H' = H /\ S' = S /\ T' = T /\ MaxAge' = MaxAge
    BY <1>a DEF H, S, T, MaxAge
  <2>2. /\ hot' \in [1..Len(hot') -> [age : 0..MaxAge, reported : BOOLEAN, evidenced : BOOLEAN]]
        /\ \A i \in 1..Len(hot') : hot'[i].reported \/ hot'[i].evidenced => hot'[i].age > H
    BY <1>a DEF Segs
  <2> QED
    BY <1>a, <2>1, <2>2 DEF TypeOK
<1>1. CASE Tick
  <2>1. UNCHANGED <<faults, policy>> /\ sinceTick' = 0 /\ Len(hot) < MaxSegments
    BY <1>1 DEF Tick
  <2>2. CASE Seals
    <3> DEFINE segs == Append(hot, Segment(active))
    <3>1. active \in 0..MaxAge
      BY <2>2 DEF Seals, SealDue, TypeOK
    <3>2. Segment(active) \in Segs(MaxAge)
      BY <3>1 DEF Segment, Segs
    <3>3. hot \in Seq(Segs(MaxAge))
      BY <1>0
    <3>4. segs \in Seq(Segs(MaxAge)) /\ Len(segs) = Len(hot) + 1
      BY <3>2, <3>3
    <3>5. DOMAIN segs = 1..(Len(hot) + 1) /\ \A i \in 1..(Len(hot) + 1) : segs[i] \in Segs(MaxAge)
      BY <3>4, <1>0
    <3>6. Rounds(segs)
      BY <2>2 DEF Seals
    <3> HIDE DEF segs
    <3>7. /\ Len(hot') \in 0..(Len(hot) + 1) /\ hot' \in [1..Len(hot') -> Segs(MaxAge)]
          /\ leftover' \in {None} \cup 0..MaxAge
      BY <1>0, <3>4, <3>5, <3>6, RoundTypes
    <3>8. Len(hot') \in 0..MaxSegments
      BY <1>0, <2>1, <3>7, HotMarginAssumption
    <3> QED
      BY <1>0, <1>a, <2>1, <2>2, <3>7, <3>8 DEF Seals, None
  <2>3. CASE SealsNothing
    <3>1. Rounds(hot) /\ \A i \in 1..Len(hot) : hot[i] \in Segs(MaxAge)
      BY <1>0, <2>3 DEF SealsNothing
    <3>2. /\ Len(hot') \in 0..Len(hot) /\ hot' \in [1..Len(hot') -> Segs(MaxAge)]
          /\ leftover' \in {None} \cup 0..MaxAge
      BY <1>0, <3>1, RoundTypes
    <3>3. Len(hot') \in 0..MaxSegments
      BY <1>0, <2>1, <3>2, HotMarginAssumption
    <3> QED
      BY <1>0, <1>a, <2>1, <2>3, <3>2, <3>3 DEF SealsNothing, TypeOK
  <2> QED
    BY <1>1, <2>2, <2>3 DEF Tick
<1>2. CASE Admits
  BY <1>0, <1>2, <1>a DEF Admits, TypeOK
<1>3. CASE Passes
  <2>1. active' \in {None} \cup 0..MaxAge /\ leftover' \in {None} \cup 0..MaxAge
    BY <1>3, OlderType DEF Passes, TypeOK
  <2>2. /\ hot' = [i \in 1..Len(hot) |-> [hot[i] EXCEPT !.age = Older(@)]]
        /\ Len(hot') = Len(hot)
    BY <1>0, <1>3 DEF Passes
  <2>3. ASSUME NEW i \in 1..Len(hot)
        PROVE  [hot[i] EXCEPT !.age = Older(@)] \in Segs(MaxAge)
    <3>1. hot[i] \in Segs(MaxAge) /\ hot[i].age \in 0..MaxAge /\ H < MaxAge
      BY <1>0, PolicyNumbers DEF Segs
    <3>2. /\ Older(hot[i].age) \in 0..MaxAge
          /\ hot[i].age > H => Older(hot[i].age) > H
      <4> DEFINE a == hot[i].age
      <4>1. a \in 0..MaxAge /\ a # None
        BY <3>1 DEF None
      <4> HIDE DEF a
      <4>2. Older(a) \in 0..MaxAge /\ Older(a) = Smaller(a + 1, MaxAge)
        BY <4>1, OlderType
      <4>3. a > H => Older(a) > H
        BY <1>0, <3>1, <4>1, <4>2 DEF Smaller
      <4> QED
        BY <4>2, <4>3 DEF a
    <3>3. /\ hot[i] \in [age : 0..MaxAge, reported : BOOLEAN, evidenced : BOOLEAN]
          /\ hot[i].reported \/ hot[i].evidenced => hot[i].age > H
      BY <3>1 DEF Segs
    <3> DEFINE older == [hot[i] EXCEPT !.age = Older(@)]
    <3>4. /\ older \in [age : 0..MaxAge, reported : BOOLEAN, evidenced : BOOLEAN]
          /\ older.age = Older(hot[i].age) /\ older.reported = hot[i].reported
          /\ older.evidenced = hot[i].evidenced
      BY <3>2, <3>3
    <3> HIDE DEF older
    <3>5. older \in Segs(MaxAge)
      BY <3>2, <3>3, <3>4 DEF Segs
    <3> QED
      BY <3>5 DEF older
  <2>4. hot' \in [1..Len(hot') -> Segs(MaxAge)] /\ Len(hot') \in 0..MaxSegments
    BY <2>2, <2>3 DEF TypeOK
  <2>5. sinceSeal' \in 0..S /\ sinceTick' \in 0..T
    BY <1>0, <1>3, OlderAge DEF Passes, TypeOK
  <2> QED
    BY <1>3, <1>a, <2>1, <2>4, <2>5 DEF Passes
<1>4. CASE Restarts
  <2>1. /\ hot' = [i \in 1..Len(hot) |-> [hot[i] EXCEPT !.reported = FALSE]]
        /\ Len(hot') = Len(hot)
    BY <1>0, <1>4 DEF Restarts
  <2>2. hot' \in [1..Len(hot') -> Segs(MaxAge)] /\ Len(hot') \in 0..MaxSegments
    BY <1>0, <2>1 DEF TypeOK, Segs
  <2> QED
    BY <1>0, <1>4, <1>a, <2>2 DEF Restarts, TypeOK
<1>5. CASE UNCHANGED vars
  BY <1>0, <1>5, <1>a DEF vars, TypeOK
<1> QED
  BY <1>1, <1>2, <1>3, <1>4, <1>5 DEF Next

\* Every state of HotMargin has the declared types (Policy, SegmentEntry and the
\* tracked ages), for every set of policies.
THEOREM TypeCorrect == Spec => []TypeOK
BY TypeInit, TypeStep, PTL DEF Spec

-----------------------------------------------------------------------------
(* What a round leaves: the segments behind the ones that left, in order,  *)
(* as old as they were, and none of them due if no rotation fails.         *)

LEMMA RoundLeaves ==
  ASSUME TypeOK, NEW segs, NEW k \in Nat, DOMAIN segs = 1..k, Len(segs) = k,
         \A i \in 1..k : segs[i] \in Segs(MaxAge), Rounds(segs)
  PROVE  \E n \in 0..k, emitted \in BOOLEAN :
           /\ Len(hot') = k - n
           /\ \A i \in 1..(k - n) :
                hot'[i] = Reported(segs[n + i], emitted) /\ hot'[i].age = segs[n + i].age
           /\ n < k /\ "rotateFails" \notin faults => ~RotationDue(segs[n + 1].age)
           /\ "emitFails" \notin faults => emitted
<1>1. MaxAge \in Nat
  BY PolicyNumbers
<1>2. PICK n \in 0..k, emitted \in BOOLEAN :
        /\ Rotated(segs, n)
        /\ ~emitted => "emitFails" \in faults
        /\ hot' = [i \in 1..(k - n) |-> Reported(segs[n + i], emitted)]
  BY DEF Rounds
<1>3. Len(hot') = k - n
  BY <1>2
<1>4. \A i \in 1..(k - n) : Reported(segs[n + i], emitted).age = segs[n + i].age
  BY <1>1, ReportedSegment DEF Segs
<1> QED
  BY <1>2, <1>3, <1>4 DEF Rotated

\* The segments and the active file are in the order of their ages.
InOrder ==
  /\ \A i \in 1..Len(hot) : active <= hot[i].age
  /\ \A i, j \in 1..Len(hot) : i <= j => hot[j].age <= hot[i].age

\* How far a file can be from its next round when no round is missed.
Aging ==
  MarginSuffices /\ Without({"sealFails", "rotateFails", "removeFails", "lateTick", "restart"}) =>
    /\ active <= S - 1 + sinceTick
    /\ sinceSeal < S => active <= sinceSeal
    /\ \A i \in 1..Len(hot) : hot[i].age <= H - S - 1 + sinceTick
    /\ leftover = None

MarginInv == InOrder /\ Aging

LEMMA MarginInit == Init => MarginInv
<1> SUFFICES ASSUME Init PROVE MarginInv
  OBVIOUS
<1>1. TypeOK
  BY TypeInit
<1> QED
  BY <1>1, PolicyNumbers DEF Init, MarginInv, InOrder, Aging, None, S

\* A round over a list of segments that is in order, and no element of which
\* is much older than the ceiling less the seal interval.
LEMMA RoundKeepsMargin ==
  ASSUME TypeOK, NEW segs, NEW k \in Nat, DOMAIN segs = 1..k, Len(segs) = k,
         \A i \in 1..k : segs[i] \in Segs(MaxAge), Rounds(segs),
         UNCHANGED <<faults, policy>>,
         \A i, j \in 1..k : i <= j => segs[j].age <= segs[i].age
  PROVE  /\ \A i, j \in 1..Len(hot') : i <= j => hot'[j].age <= hot'[i].age
         /\ \A i \in 1..Len(hot') : \E j \in 1..k : hot'[i].age = segs[j].age
         /\ "rotateFails" \notin faults =>
              \A i \in 1..Len(hot') : hot'[i].age < H - S
         /\ "removeFails" \notin faults => leftover' = leftover
<1>1. PICK n \in 0..k :
        /\ Len(hot') = k - n
        /\ \A i \in 1..(k - n) : hot'[i].age = segs[n + i].age
        /\ n < k /\ "rotateFails" \notin faults => ~RotationDue(segs[n + 1].age)
  BY RoundLeaves
<1>2. \A i \in 1..(k - n) : n + i \in 1..k
  OBVIOUS
<1>3. \A i \in 1..k : segs[i].age \in Nat
  BY PolicyNumbers DEF Segs
<1>4. \A i, j \in 1..(k - n) : i <= j => hot'[j].age <= hot'[i].age
  BY <1>1, <1>2
<1>5. ASSUME "rotateFails" \notin faults, NEW i \in 1..(k - n)
      PROVE  hot'[i].age < H - S
  <2>1. n + 1 \in 1..k /\ n + i \in 1..k /\ n + 1 <= n + i
    OBVIOUS
  <2>2. segs[n + i].age <= segs[n + 1].age /\ segs[n + 1].age < H - S
    BY <1>1, <1>3, <1>5, <2>1, PolicyNumbers, SMTT(30) DEF RotationDue
  <2> QED
    BY <1>1, <1>3, <2>1, <2>2, PolicyNumbers
<1>6. "removeFails" \notin faults => leftover' = leftover
  BY RoundTypes
<1> QED
  BY <1>1, <1>2, <1>4, <1>5, <1>6

LEMMA MarginStep == TypeOK /\ MarginInv /\ [Next]_vars => MarginInv'
<1> SUFFICES ASSUME TypeOK, MarginInv, [Next]_vars PROVE MarginInv'
  OBVIOUS
<1> USE DEF MarginInv
<1>0. /\ H \in Nat /\ S \in Nat /\ T \in Nat /\ 0 < S /\ S < H /\ MaxAge \in Nat /\ MaxAge = H + T + 1
      /\ Len(hot) \in Nat /\ DOMAIN hot = 1..Len(hot)
      /\ hot \in [1..Len(hot) -> Segs(MaxAge)]
      /\ \A i \in 1..Len(hot) : hot[i].age \in Nat
      /\ active \in Int /\ active <= MaxAge /\ -1 <= active
      /\ sinceTick \in Nat /\ sinceTick <= T /\ sinceSeal \in Nat /\ sinceSeal <= S
  BY PolicyNumbers DEF TypeOK, Segs, None
<1>01. UNCHANGED <<faults, policy>>
  BY DEF Next, Tick, Admits, Passes, Restarts, vars
<1>02. H' = H /\ S' = S /\ T' = T /\ MarginSuffices' = MarginSuffices
  BY <1>01 DEF H, S, T, MarginSuffices
<1> DEFINE Calm == MarginSuffices /\ Without({"sealFails", "rotateFails", "removeFails", "lateTick", "restart"})
<1>03. Calm' = Calm
  BY <1>01, <1>02 DEF Without
<1>04. Calm => "rotateFails" \notin faults /\ "sealFails" \notin faults /\ "lateTick" \notin faults
               /\ "restart" \notin faults /\ "removeFails" \notin faults
  BY DEF Without
<1>05. Calm => /\ active <= S - 1 + sinceTick
               /\ sinceSeal < S => active <= sinceSeal
               /\ \A i \in 1..Len(hot) : hot[i].age <= H - S - 1 + sinceTick
               /\ leftover = None
  BY DEF Aging
\* What has to be shown of Aging'.
<1>a. ASSUME Calm => /\ active' <= S - 1 + sinceTick'
                     /\ sinceSeal' < S => active' <= sinceSeal'
                     /\ \A i \in 1..Len(hot') : hot'[i].age <= H - S - 1 + sinceTick'
                     /\ leftover' = leftover \/ leftover' = Older(leftover)
      PROVE  Aging'
  BY <1>a, <1>02, <1>03, <1>05, OlderType DEF Aging, None
<1>06. "rotateFails" \in faults \/ "rotateFails" \notin faults
  OBVIOUS
<1> HIDE DEF Calm
<1>1. CASE Tick
  <2>1. sinceTick' = 0
    BY <1>1 DEF Tick
  <2>2. CASE Seals
    <3> DEFINE segs == Append(hot, Segment(active))
    <3>1. active \in 0..MaxAge /\ active' = -1 /\ sinceSeal' = 0
      BY <2>2 DEF Seals, SealDue, TypeOK, None
    <3>2. Segment(active) \in Segs(MaxAge) /\ Segment(active).age = active
      BY <3>1 DEF Segment, Segs
    <3>3. hot \in Seq(Segs(MaxAge))
      BY <1>0
    <3>4. segs \in Seq(Segs(MaxAge)) /\ Len(segs) = Len(hot) + 1
      BY <3>2, <3>3
    <3>5. DOMAIN segs = 1..(Len(hot) + 1) /\ \A i \in 1..(Len(hot) + 1) : segs[i] \in Segs(MaxAge)
      BY <3>4, <1>0
    <3>6. Rounds(segs)
      BY <2>2 DEF Seals
    <3>7. /\ \A i \in 1..Len(hot) : segs[i] = hot[i]
          /\ segs[Len(hot) + 1] = Segment(active)
      BY <1>0, <3>3
    <3> HIDE DEF segs
    <3>8. ASSUME NEW i \in 1..(Len(hot) + 1), NEW j \in 1..(Len(hot) + 1), i <= j
          PROVE  segs[j].age <= segs[i].age
      <4>1. CASE j <= Len(hot)
        BY <1>0, <3>7, <3>8, <4>1 DEF InOrder
      <4>2. CASE j = Len(hot) + 1 /\ i <= Len(hot)
        BY <1>0, <3>2, <3>7, <4>2 DEF InOrder
      <4>3. CASE j = Len(hot) + 1 /\ i = Len(hot) + 1
        BY <3>1, <3>2, <3>7, <4>3
      <4> QED
        BY <1>0, <3>8, <4>1, <4>2, <4>3
    <3>9. /\ \A i, j \in 1..Len(hot') : i <= j => hot'[j].age <= hot'[i].age
          /\ \A i \in 1..Len(hot') : \E j \in 1..(Len(hot) + 1) : hot'[i].age = segs[j].age
          /\ "rotateFails" \notin faults => \A i \in 1..Len(hot') : hot'[i].age < H - S
          /\ "removeFails" \notin faults => leftover' = leftover
      <4>1. Len(hot) + 1 \in Nat /\ \A i, j \in 1..(Len(hot) + 1) : i <= j => segs[j].age <= segs[i].age
        BY <1>0, <3>8
      <4>2. DOMAIN segs = 1..(Len(hot) + 1) /\ Len(segs) = Len(hot) + 1
        BY <3>4, <3>5
      <4> QED
        BY <1>01, <3>5, <3>6, <4>1, <4>2, RoundKeepsMargin
    <3>10. \A i \in 1..Len(hot') : hot'[i].age \in Nat
      BY <3>5, <3>9 DEF Segs
    <3>11. InOrder'
      BY <3>1, <3>9, <3>10 DEF InOrder
    <3>12. Calm => \A i \in 1..Len(hot') : hot'[i].age <= H - S - 1 + sinceTick'
      BY <1>0, <1>04, <2>1, <3>9, <3>10
    <3>13. Calm => active' <= S - 1 + sinceTick' /\ active' <= sinceSeal' /\ leftover' = leftover
      BY <1>0, <1>04, <2>1, <3>1, <3>9
    <3>14. Aging'
      BY <1>a, <3>12, <3>13
    <3> QED
      BY <3>11, <3>14
  <2>3. CASE SealsNothing
    <3>1. Rounds(hot) /\ \A i \in 1..Len(hot) : hot[i] \in Segs(MaxAge)
      BY <1>0, <2>3 DEF SealsNothing
    <3>2. active' = active /\ sinceSeal' = sinceSeal
      BY <2>3 DEF SealsNothing
    <3>3. \A i, j \in 1..Len(hot) : i <= j => hot[j].age <= hot[i].age
      BY DEF InOrder
    <3>4. /\ \A i, j \in 1..Len(hot') : i <= j => hot'[j].age <= hot'[i].age
          /\ \A i \in 1..Len(hot') : \E j \in 1..Len(hot) : hot'[i].age = hot[j].age
          /\ "rotateFails" \notin faults => \A i \in 1..Len(hot') : hot'[i].age < H - S
          /\ "removeFails" \notin faults => leftover' = leftover
      BY <1>0, <1>01, <3>1, <3>3, RoundKeepsMargin
    <3>5. \A i \in 1..Len(hot') : hot'[i].age \in Nat
      BY <1>0, <3>4
    <3>6. InOrder'
      BY <3>2, <3>4 DEF InOrder
    <3>7. Calm => ~SealDue
      BY <1>04, <2>3 DEF SealsNothing
    <3>8. Calm => active <= S - 1 /\ (sinceSeal < S => active <= sinceSeal)
      BY <1>0, <1>05, <3>7 DEF SealDue, None
    <3> QED
      BY <1>0, <1>04, <1>a, <2>1, <3>2, <3>4, <3>5, <3>6, <3>8
  <2> QED
    BY <1>1, <2>2, <2>3 DEF Tick
<1>2. CASE Admits
  <2>1. active' = 0 /\ UNCHANGED <<hot, leftover, sinceSeal, sinceTick>>
    BY <1>2 DEF Admits
  <2>2. InOrder'
    BY <1>0, <2>1 DEF InOrder
  <2> QED
    BY <1>0, <1>05, <1>a, <2>1, <2>2
<1>3. CASE Passes
  <2>1. /\ sinceSeal' = Smaller(sinceSeal + 1, S)
        /\ Len(hot') = Len(hot)
        /\ \A i \in 1..Len(hot) : hot'[i].age = Smaller(hot[i].age + 1, MaxAge)
        /\ leftover' = Older(leftover)
    <3>1. hot' = [i \in 1..Len(hot) |-> [hot[i] EXCEPT !.age = Older(@)]]
      BY <1>3 DEF Passes
    <3>2. ASSUME NEW i \in 1..Len(hot) PROVE Older(hot[i].age) = Smaller(hot[i].age + 1, MaxAge)
      BY <1>0, <3>2 DEF Older, None
    <3>3. ASSUME NEW i \in 1..Len(hot) PROVE hot'[i].age = Older(hot[i].age)
      BY <1>0, <3>1 DEF Segs
    <3>4. sinceSeal' = Smaller(sinceSeal + 1, S) /\ leftover' = Older(leftover)
      BY <1>3 DEF Passes
    <3>5. Len(hot') = Len(hot)
      BY <1>0, <3>1
    <3> QED
      BY <3>2, <3>3, <3>4, <3>5
  <2>2. ASSUME NEW i \in 1..Len(hot)
        PROVE  hot'[i].age \in Nat /\ hot'[i].age <= hot[i].age + 1
    <3>1. hot[i].age \in Nat /\ hot'[i].age = Smaller(hot[i].age + 1, MaxAge)
      BY <1>0, <2>1
    <3> QED
      BY <1>0, <3>1, OlderAge
  <2>3. ASSUME NEW i \in 1..Len(hot), NEW j \in 1..Len(hot), i <= j
        PROVE  hot'[j].age <= hot'[i].age
    <3>1. hot[j].age <= hot[i].age
      BY <2>3 DEF InOrder
    <3> QED
      BY <1>0, <2>1, <3>1, OlderMonotone
  <2>a. active' = Older(active)
    BY <1>3 DEF Passes
  <2>4. active' \in Int /\ active' <= active + 1 /\ (active = -1 => active' = -1)
    <3>1. CASE active = None
      BY <2>a, <3>1 DEF Older, None
    <3>2. CASE active # None
      <4>1. active \in Nat /\ active' = Smaller(active + 1, MaxAge)
        BY <2>a, <3>2 DEF TypeOK, Older
      <4> QED
        BY <1>0, <4>1, OlderAge
    <3> QED
      BY <3>1, <3>2
  <2>5. ASSUME NEW i \in 1..Len(hot)
        PROVE  active' <= hot'[i].age
    <3>1. CASE active = None
      BY <2>a, <2>2, <3>1 DEF Older, None
    <3>2. CASE active # None
      <4>1. active \in Nat /\ active' = Smaller(active + 1, MaxAge) /\ active <= hot[i].age
        BY <2>a, <3>2 DEF TypeOK, Older, InOrder
      <4> QED
        BY <1>0, <2>1, <4>1, OlderMonotone
    <3> QED
      BY <3>1, <3>2
  <2>6. InOrder'
    BY <2>1, <2>3, <2>5 DEF InOrder
  <2>7. Calm => sinceTick' = sinceTick + 1
    BY <1>0, <1>04, <1>3, OlderAge DEF Passes
  <2>8. Calm /\ sinceSeal' < S => sinceSeal' = sinceSeal + 1 /\ sinceSeal < S
    BY <1>0, <2>1, OlderAge DEF Smaller
  <2>9. Calm => active' <= S - 1 + sinceTick'
    BY <1>0, <1>05, <2>4, <2>7
  <2>10. Calm => \A i \in 1..Len(hot') : hot'[i].age <= H - S - 1 + sinceTick'
    BY <1>0, <1>05, <2>1, <2>2, <2>7, SMTT(30)
  <2>11. Calm => (sinceSeal' < S => active' <= sinceSeal')
    BY <1>0, <1>05, <2>4, <2>8
  <2> QED
    BY <1>a, <2>1, <2>6, <2>9, <2>10, <2>11
<1>4. CASE Restarts
  <2>1. /\ Len(hot') = Len(hot)
        /\ \A i \in 1..Len(hot) : hot'[i].age = hot[i].age
        /\ active' = active
    BY <1>0, <1>4 DEF Restarts, Segs
  <2>2. InOrder'
    BY <1>0, <2>1, SMTT(30) DEF InOrder
  <2>3. ~Calm
    BY <1>04, <1>4 DEF Restarts
  <2> QED
    BY <1>a, <2>2, <2>3
<1>5. CASE UNCHANGED vars
  <2>1. UNCHANGED <<active, hot, leftover, sinceSeal, sinceTick>>
    BY <1>5 DEF vars
  <2> QED
    BY <1>05, <1>a, <2>1 DEF InOrder
<1> QED
  BY <1>1, <1>2, <1>3, <1>4, <1>5 DEF Next

LEMMA MarginKept == TypeOK /\ MarginInv => CeilingKept
<1> SUFFICES ASSUME TypeOK, MarginInv,
                    MarginSuffices, Without({"sealFails", "rotateFails", "removeFails", "lateTick", "restart"})
             PROVE  /\ active <= H /\ leftover <= H
                    /\ \A i \in 1..Len(hot) : hot[i].age <= H
  BY DEF CeilingKept
<1>1. /\ H \in Nat /\ S \in Nat /\ T \in Nat /\ sinceTick \in Nat /\ sinceTick <= T
      /\ active \in Int /\ \A i \in 1..Len(hot) : hot[i].age \in Nat
  BY PolicyNumbers DEF TypeOK, None
<1>2. T <= S + 1 /\ S + T <= H + 1
  BY DEF MarginSuffices
<1> QED
  BY <1>1, <1>2, SMTT(30) DEF MarginInv, Aging, None

\* policy.go:32-34, 63-66: for every ceiling, seal interval and tick interval
\* with MarginSuffices, every record is out of hot before the ceiling, if seals,
\* rotations and the removals behind them succeed.
THEOREM CeilingAlwaysKept == Spec => []CeilingKept
BY TypeInit, TypeStep, MarginInit, MarginStep, MarginKept, PTL DEF Spec

-----------------------------------------------------------------------------
(* Evidence. *)

\* A segment past the ceiling at the last round is on record, and the manager
\* holds only those for reported that are.
Evidence ==
  Without({"emitFails", "lateTick", "restart"}) =>
    \A i \in 1..Len(hot) :
      /\ hot[i].age > H + sinceTick => hot[i].evidenced
      /\ hot[i].reported => hot[i].evidenced

LEMMA EvidenceInit == Init => Evidence
BY DEF Init, Evidence

\* A round leaves no segment past the ceiling without evidence.
LEMMA RoundKeepsEvidence ==
  ASSUME TypeOK, NEW segs, NEW k \in Nat, DOMAIN segs = 1..k, Len(segs) = k,
         \A i \in 1..k : segs[i] \in Segs(MaxAge), Rounds(segs),
         "emitFails" \notin faults,
         \A i \in 1..k : segs[i].reported => segs[i].evidenced
  PROVE  \A i \in 1..Len(hot') :
           /\ hot'[i].age > H => hot'[i].evidenced
           /\ hot'[i].reported => hot'[i].evidenced
<1>1. PICK n \in 0..k, emitted \in BOOLEAN :
        /\ Len(hot') = k - n
        /\ \A i \in 1..(k - n) :
             hot'[i] = Reported(segs[n + i], emitted) /\ hot'[i].age = segs[n + i].age
        /\ n < k /\ "rotateFails" \notin faults => ~RotationDue(segs[n + 1].age)
        /\ "emitFails" \notin faults => emitted
  BY RoundLeaves, SMTT(30)
<1>2. MaxAge \in Nat
  BY PolicyNumbers
<1> SUFFICES ASSUME NEW i \in 1..(k - n)
             PROVE  /\ hot'[i].age > H => hot'[i].evidenced
                    /\ hot'[i].reported => hot'[i].evidenced
  BY <1>1
<1>3. n + i \in 1..k
  OBVIOUS
<1>4. segs[n + i] \in [age : Nat, reported : BOOLEAN, evidenced : BOOLEAN]
  BY <1>2, <1>3 DEF Segs
<1>5. /\ Reported(segs[n + i], emitted).reported => Reported(segs[n + i], emitted).evidenced
      /\ CeilingBreached(segs[n + i].age) => Reported(segs[n + i], emitted).evidenced
  BY <1>1, <1>3, <1>4, ReportedSegment, Zenon
<1>6. hot'[i] = Reported(segs[n + i], emitted) /\ hot'[i].age = segs[n + i].age
  BY <1>1
<1> QED
  BY <1>5, <1>6 DEF CeilingBreached

LEMMA EvidenceStep == TypeOK /\ Evidence /\ [Next]_vars => Evidence'
<1> SUFFICES ASSUME TypeOK, Evidence, [Next]_vars,
                    Without({"emitFails", "lateTick", "restart"})'
             PROVE  \A i \in 1..Len(hot') :
                      /\ hot'[i].age > H' + sinceTick' => hot'[i].evidenced
                      /\ hot'[i].reported => hot'[i].evidenced
  BY DEF Evidence
<1>0. /\ H \in Nat /\ S \in Nat /\ T \in Nat /\ MaxAge \in Nat /\ MaxAge = H + T + 1
      /\ Len(hot) \in Nat /\ DOMAIN hot = 1..Len(hot)
      /\ hot \in [1..Len(hot) -> Segs(MaxAge)]
      /\ sinceTick \in Nat /\ sinceTick <= T
  BY PolicyNumbers DEF TypeOK, Segs
<1>1. UNCHANGED <<faults, policy>> /\ H' = H
  BY DEF Next, Tick, Admits, Passes, Restarts, vars, H
<1>2. "emitFails" \notin faults /\ "lateTick" \notin faults /\ "restart" \notin faults
  BY <1>1 DEF Without
<1>3. \A i \in 1..Len(hot) :
        /\ hot[i].age > H + sinceTick => hot[i].evidenced
        /\ hot[i].reported => hot[i].evidenced
  BY <1>2 DEF Evidence, Without
<1>4. CASE Tick
  <2>1. sinceTick' = 0
    BY <1>4 DEF Tick
  <2>2. CASE Seals
    <3> DEFINE segs == Append(hot, Segment(active))
    <3>1. active \in 0..MaxAge
      BY <2>2 DEF Seals, SealDue, TypeOK
    <3>2. Segment(active) \in Segs(MaxAge) /\ ~Segment(active).reported
      BY <3>1 DEF Segment, Segs
    <3>3. hot \in Seq(Segs(MaxAge))
      BY <1>0
    <3>4. segs \in Seq(Segs(MaxAge)) /\ Len(segs) = Len(hot) + 1
      BY <3>2, <3>3
    <3>5. DOMAIN segs = 1..(Len(hot) + 1) /\ \A i \in 1..(Len(hot) + 1) : segs[i] \in Segs(MaxAge)
      BY <3>4, <1>0
    <3>6. Rounds(segs)
      BY <2>2 DEF Seals
    <3>7. /\ \A i \in 1..Len(hot) : segs[i] = hot[i]
          /\ segs[Len(hot) + 1] = Segment(active)
      BY <1>0, <3>3
    <3> HIDE DEF segs
    <3>8. \A i \in 1..(Len(hot) + 1) : segs[i].reported => segs[i].evidenced
      BY <1>0, <1>3, <3>2, <3>7
    <3>9. Len(hot) + 1 \in Nat
      BY <1>0
    <3>10. \A i \in 1..Len(hot') :
             /\ hot'[i].age > H => hot'[i].evidenced
             /\ hot'[i].reported => hot'[i].evidenced
      BY <1>2, <3>4, <3>5, <3>6, <3>8, <3>9, RoundKeepsEvidence
    <3> QED
      BY <1>0, <1>1, <2>1, <3>10
  <2>3. CASE SealsNothing
    <3>1. Rounds(hot) /\ \A i \in 1..Len(hot) : hot[i] \in Segs(MaxAge)
      BY <1>0, <2>3 DEF SealsNothing
    <3>2. \A i \in 1..Len(hot') :
             /\ hot'[i].age > H => hot'[i].evidenced
             /\ hot'[i].reported => hot'[i].evidenced
      BY <1>0, <1>2, <1>3, <3>1, RoundKeepsEvidence
    <3> QED
      BY <1>0, <1>1, <2>1, <3>2
  <2> QED
    BY <1>4, <2>2, <2>3 DEF Tick
<1>5. CASE Admits
  BY <1>1, <1>3, <1>5 DEF Admits
<1>6. CASE Passes
  <2>1. /\ Len(hot') = Len(hot)
        /\ \A i \in 1..Len(hot) :
             /\ hot'[i].age = Smaller(hot[i].age + 1, MaxAge)
             /\ hot'[i].reported = hot[i].reported /\ hot'[i].evidenced = hot[i].evidenced
    <3>1. hot' = [i \in 1..Len(hot) |-> [hot[i] EXCEPT !.age = Older(@)]]
      BY <1>6 DEF Passes
    <3>2. ASSUME NEW i \in 1..Len(hot) PROVE Older(hot[i].age) = Smaller(hot[i].age + 1, MaxAge)
      BY <1>0, <3>2 DEF Older, None, Segs
    <3>3. ASSUME NEW i \in 1..Len(hot)
          PROVE  /\ hot'[i].age = Older(hot[i].age)
                 /\ hot'[i].reported = hot[i].reported /\ hot'[i].evidenced = hot[i].evidenced
      BY <1>0, <3>1 DEF Segs
    <3> QED
      BY <1>0, <3>1, <3>2, <3>3
  <2>2. sinceTick' = sinceTick + 1
    BY <1>0, <1>2, <1>6, OlderAge DEF Passes
  <2>3. ASSUME NEW i \in 1..Len(hot), hot'[i].age > H + sinceTick'
        PROVE  hot[i].age > H + sinceTick
    <3>1. hot[i].age \in Nat /\ hot'[i].age = Smaller(hot[i].age + 1, MaxAge)
      BY <1>0, <2>1 DEF Segs
    <3>2. hot'[i].age \in Nat /\ hot'[i].age <= hot[i].age + 1
      BY <1>0, <3>1, OlderAge
    <3> QED
      BY <1>0, <2>2, <2>3, <3>1, <3>2
  <2> QED
    BY <1>1, <1>3, <2>1, <2>3
<1>7. CASE Restarts
  BY <1>2, <1>7 DEF Restarts
<1>8. CASE UNCHANGED vars
  BY <1>1, <1>3, <1>8 DEF vars
<1> QED
  BY <1>4, <1>5, <1>6, <1>7, <1>8 DEF Next

LEMMA EvidenceSuffices == TypeOK /\ Evidence => StuckIsEvidenced
<1> SUFFICES ASSUME TypeOK, Evidence, Without({"emitFails", "lateTick", "restart"}),
                    NEW i \in 1..Len(hot), hot[i].age > H + T
             PROVE  hot[i].evidenced
  BY DEF StuckIsEvidenced
<1>1. H \in Nat /\ T \in Nat /\ sinceTick \in Nat /\ sinceTick <= T /\ hot[i].age \in Nat
  BY PolicyNumbers DEF TypeOK
<1>2. hot[i].age > H + sinceTick
  BY <1>1
<1> QED
  BY <1>2 DEF Evidence

\* policy.go:72-75: for every accepted policy and tick interval, a segment that
\* is not rotated one tick after the ceiling is on record.  The copies that
\* failed removals leave behind rotated segments are not among these.
THEOREM StuckAlwaysEvidenced == Spec => []StuckIsEvidenced
BY TypeInit, TypeStep, EvidenceInit, EvidenceStep, EvidenceSuffices, PTL DEF Spec

-----------------------------------------------------------------------------
(* PolicyPin: the pinned policy.                                           *)

AllPolicies == [floor : Nat, hotMax : Int, seal : Int]

\* Acceptable policies are policies, and no file is none of them.
LEMMA AcceptableFacts ==
  /\ \A p \in Acceptable : p \in AllPolicies
  /\ NoFile \notin Acceptable
  BY PolicyAssumption DEF Acceptable, AllPolicies

-----------------------------------------------------------------------------
(* Types. *)

\* What a start decided is what memory and file hold until the next one.
Boots ==
  /\ proc = "sync" => pinned = IF saved = NoFile THEN flags ELSE saved
  /\ proc = "sync" /\ saved # NoFile => saved.floor <= flags.floor
  /\ proc = "emit" => saved = flags /\ pinned = flags /\ old.floor <= flags.floor
  /\ proc = "up" => pinned = flags
  /\ proc = "up" /\ saved # NoFile => saved = flags

LEMMA InitTypeOK == PinInit => PinTypeOK /\ Boots
  BY PolicyAssumption DEF PinInit, PinTypeOK, Boots

LEMMA NextTypeOK ==
  ASSUME PinTypeOK, Boots, [PinNext]_pinVars
  PROVE  PinTypeOK' /\ Boots'
  <1> USE AcceptableFacts
  <1>0. ASSUME UNCHANGED pinVars PROVE PinTypeOK' /\ Boots'
    BY <1>0 DEF pinVars, PinTypeOK, Boots, Acceptable, NewPolicy
  <1>1. ASSUME NEW p \in FlagPolicies, Start(p) PROVE PinTypeOK' /\ Boots'
    <2>1. p \in Acceptable
      BY <1>1 DEF Start, Acceptable
    <2> QED
      BY <1>1, <2>1 DEF Start, Loads, PinTypeOK, Boots
  <1>2. ASSUME Crash PROVE PinTypeOK' /\ Boots'
    BY <1>2 DEF Crash, Exits, PinTypeOK, Boots
  <1>3. ASSUME SyncUnchanged PROVE PinTypeOK' /\ Boots'
    BY <1>3 DEF SyncUnchanged, PinTypeOK, Boots
  <1>4. ASSUME SyncSaves PROVE PinTypeOK' /\ Boots'
    BY <1>4 DEF SyncSaves, Saves, PinTypeOK, Boots
  <1>5. ASSUME SyncFails PROVE PinTypeOK' /\ Boots'
    BY <1>5 DEF SyncFails, Exits, PinTypeOK, Boots
  <1>6. ASSUME SyncEmits PROVE PinTypeOK' /\ Boots'
    <2>1. PolicyChange \in Changes
      BY <1>6 DEF SyncEmits, PolicyChange, Shown, Changes, Pages, PinTypeOK, AllPolicies
    <2> QED
      BY <1>6, <2>1 DEF SyncEmits, PinTypeOK, Boots
  <1>7. ASSUME SyncEmitLost PROVE PinTypeOK' /\ Boots'
    BY <1>7 DEF SyncEmitLost, PinTypeOK, Boots
  <1>8. ASSUME TickSaves PROVE PinTypeOK' /\ Boots'
    BY <1>8 DEF TickSaves, Saves, PinTypeOK, Boots
  <1> QED
    BY <1>0, <1>1, <1>2, <1>3, <1>4, <1>5, <1>6, <1>7, <1>8 DEF PinNext

\* Every state has the declared types, and a daemon runs what its start
\* decided (manager.go:76-91, BootPolicySync).
THEOREM PinTypeCorrect == PinSpec => []PinTypeOK
  <1>1. PinInit => PinTypeOK /\ Boots
    BY InitTypeOK
  <1>2. PinTypeOK /\ Boots /\ [PinNext]_pinVars => (PinTypeOK /\ Boots)'
    BY NextTypeOK
  <1> QED
    BY <1>1, <1>2, PTL DEF PinSpec

LEMMA BootsCorrect == PinSpec => [](PinTypeOK /\ Boots)
  <1>1. PinInit => PinTypeOK /\ Boots
    BY InitTypeOK
  <1>2. PinTypeOK /\ Boots /\ [PinNext]_pinVars => (PinTypeOK /\ Boots)'
    BY NextTypeOK
  <1> QED
    BY <1>1, <1>2, PTL DEF PinSpec

-----------------------------------------------------------------------------
(* The pinned floor. *)

FloorStep ==
  /\ saved # NoFile => saved' # NoFile /\ saved'.floor >= saved.floor
  /\ saved' # NoFile /\ proc' = "up" => saved' = flags'

\* The floor in the signed checkpoint never goes down and a serving daemon
\* runs the pinned policy, under every fault (checkpoint.go LoadCheckpoint).
THEOREM FloorAlwaysGrows == PinSpec => FloorOnlyGrows
  <1>1. ASSUME PinTypeOK, Boots, Boots', [PinNext]_pinVars
        PROVE  [FloorStep]_pinVars
    <2> USE <1>1, AcceptableFacts DEF AllPolicies
    <2>1. ASSUME PinNext PROVE saved # NoFile => saved' # NoFile /\ saved'.floor >= saved.floor
      <3> SUFFICES ASSUME saved # NoFile PROVE saved' # NoFile /\ saved'.floor >= saved.floor
        OBVIOUS
      <3>1. saved.floor \in Nat /\ saved.floor >= saved.floor
        BY DEF PinTypeOK
      <3>2. CASE UNCHANGED saved
        BY <3>1, <3>2
      <3>3. CASE SyncSaves \/ SyncFails
        BY <3>1, <3>3 DEF SyncSaves, Saves, SyncFails, PinTypeOK, Boots
      <3>4. CASE TickSaves
        BY <3>1, <3>4 DEF TickSaves, Saves, PinTypeOK, Boots
      <3> QED
        BY <2>1, <3>2, <3>3, <3>4 DEF PinNext, Start, Crash, SyncUnchanged, SyncEmits, SyncEmitLost
    <2>2. saved' # NoFile /\ proc' = "up" => saved' = flags'
      BY DEF Boots
    <2> QED
      BY <2>1, <2>2 DEF FloorStep
  <1>2. PinSpec => [][FloorStep]_pinVars
    BY <1>1, BootsCorrect, PTL DEF PinSpec
  <1> QED
    BY <1>2 DEF FloorStep, FloorOnlyGrows

-----------------------------------------------------------------------------
(* The trail. *)

\* Each change starts where the one before ended, and none shrinks the floor.
Linked ==
  \A i \in 1..Len(trail) :
    /\ trail[i].old = IF i = 1 THEN Shown(origin) ELSE trail[i - 1].new
    /\ trail[i].old.floor <= trail[i].new.floor

\* TrailLeadsToPin, with the change that is under way.
Leads ==
  Sound =>
    /\ Linked
    /\ saved = NoFile => trail = << >>
    /\ saved # NoFile /\ proc # "emit" => TrailEnd = Shown(saved)
    /\ proc = "emit" => TrailEnd = Shown(old)

LEMMA InitLeads == PinInit => Leads
  BY DEF PinInit, Leads, Linked

\* A record that starts at the end of the trail keeps it linked.
LEMMA LinkedGrows ==
  ASSUME trail \in Seq(Changes), Linked, NEW c \in Changes,
         c.old = TrailEnd, c.old.floor <= c.new.floor,
         trail' = Append(trail, c), origin' = origin
  PROVE  Linked' /\ TrailEnd' = c.new
  <1>1. Len(trail) \in Nat /\ Len(trail') = Len(trail) + 1 /\ trail' # << >>
    OBVIOUS
  <1>2. \A i \in 1..Len(trail) : trail'[i] = trail[i]
    OBVIOUS
  <1>3. trail'[Len(trail) + 1] = c
    OBVIOUS
  <1>4. ASSUME NEW i \in 1..Len(trail')
        PROVE  /\ trail'[i].old = IF i = 1 THEN Shown(origin') ELSE trail'[i - 1].new
               /\ trail'[i].old.floor <= trail'[i].new.floor
    <2>1. CASE i \in 1..Len(trail)
      <3>1. i # 1 => i - 1 \in 1..Len(trail)
        BY <2>1, <1>1
      <3>2. /\ trail[i].old = IF i = 1 THEN Shown(origin) ELSE trail[i - 1].new
            /\ trail[i].old.floor <= trail[i].new.floor
        BY <2>1 DEF Linked
      <3> QED
        BY <2>1, <3>1, <3>2, <1>2 DEF Shown
    <2>2. CASE i = Len(trail) + 1 /\ trail = << >>
      BY <2>2, <1>3 DEF TrailEnd, Shown
    <2>3. CASE i = Len(trail) + 1 /\ trail # << >>
      <3>1. Len(trail) \in 1..Len(trail) /\ i # 1 /\ i - 1 = Len(trail)
        BY <2>3, <1>1
      <3>2. trail'[i - 1] = trail[Len(trail)]
        BY <3>1, <1>2
      <3> QED
        BY <2>3, <3>1, <3>2, <1>3 DEF TrailEnd
    <2> QED
      BY <2>1, <2>2, <2>3, <1>1
  <1>5. Linked'
    BY <1>4 DEF Linked
  <1>6. TrailEnd' = c.new
    BY <1>1, <1>3 DEF TrailEnd
  <1> QED
    BY <1>5, <1>6

LEMMA NextLeads ==
  ASSUME PinTypeOK, Boots, Leads, [PinNext]_pinVars
  PROVE  Leads'
  <1> SUFFICES ASSUME Sound' PROVE
         /\ Linked'
         /\ saved' = NoFile => trail' = << >>
         /\ saved' # NoFile /\ proc' # "emit" => TrailEnd' = Shown(saved')
         /\ proc' = "emit" => TrailEnd' = Shown(old')
    BY DEF Leads, Shown
  <1> USE AcceptableFacts
  <1>s. failures' = failures /\ Sound
    BY DEF PinNext, pinVars, Sound, Start, Crash, SyncUnchanged, SyncSaves, SyncFails,
           SyncEmits, SyncEmitLost, TickSaves
  <1>f. "syncCrash" \notin failures /\ "checkpointFault" \notin failures
        /\ "emitFault" \notin failures
    BY <1>s DEF Sound
  <1>l. /\ Linked
        /\ saved = NoFile => trail = << >>
        /\ saved # NoFile /\ proc # "emit" => TrailEnd = Shown(saved)
        /\ proc = "emit" => TrailEnd = Shown(old)
    BY <1>s DEF Leads
  <1>k. ASSUME trail' = trail, origin' = origin
        PROVE  Linked' /\ TrailEnd' = TrailEnd
    BY <1>k, <1>l DEF Linked, TrailEnd, Shown
  <1>0. CASE UNCHANGED pinVars
    BY <1>0, <1>k, <1>l DEF pinVars, Shown
  <1>1. ASSUME NEW p \in FlagPolicies, Start(p)
        PROVE  /\ trail' = trail /\ origin' = origin /\ saved' = saved
               /\ proc' # "emit" /\ proc # "emit"
    BY <1>1 DEF Start
  <1>2. ASSUME Crash
        PROVE  /\ trail' = trail /\ origin' = origin /\ saved' = saved
               /\ proc' # "emit" /\ proc # "emit"
    BY <1>2, <1>f DEF Crash, Exits
  <1>3. ASSUME SyncUnchanged
        PROVE  /\ trail' = trail /\ origin' = origin /\ saved' = saved
               /\ proc' # "emit" /\ proc # "emit"
    BY <1>3 DEF SyncUnchanged
  <1>4. ASSUME /\ trail' = trail /\ origin' = origin /\ saved' = saved
               /\ proc' # "emit" /\ proc # "emit"
        PROVE  /\ Linked'
               /\ saved' = NoFile => trail' = << >>
               /\ saved' # NoFile => TrailEnd' = Shown(saved')
    BY <1>4, <1>k, <1>l DEF Shown
  <1>5. CASE SyncSaves
    <2>1. saved # NoFile /\ pinned = saved /\ proc # "emit"
      BY <1>5 DEF SyncSaves, Boots
    <2>2. origin' = origin /\ trail' = trail /\ old' = saved /\ saved' = flags /\ proc' = "emit"
      BY <1>5, <2>1 DEF SyncSaves, Saves, PinTypeOK
    <2>3. saved' # NoFile
      BY <2>2, <1>5 DEF PinTypeOK, SyncSaves
    <2> QED
      BY <2>1, <2>2, <2>3, <1>k, <1>l DEF Shown
  <1>6. CASE SyncEmits
    <2>1. /\ saved = flags /\ old.floor <= flags.floor /\ saved # NoFile
          /\ old \in AllPolicies /\ flags \in AllPolicies
      BY <1>6 DEF SyncEmits, Boots, PinTypeOK
    <2>2. PolicyChange \in Changes /\ PolicyChange.old = Shown(old)
          /\ PolicyChange.new = Shown(flags)
          /\ PolicyChange.old.floor <= PolicyChange.new.floor
      BY <2>1 DEF PolicyChange, Shown, Changes, Pages, AllPolicies
    <2>3. /\ trail' = Append(trail, PolicyChange) /\ origin' = origin /\ saved' = saved
          /\ proc' # "emit"
      BY <1>6 DEF SyncEmits
    <2>4. trail \in Seq(Changes) /\ PolicyChange.old = TrailEnd
      BY <1>6, <1>l, <2>2 DEF PinTypeOK, SyncEmits
    <2>5. Linked' /\ TrailEnd' = PolicyChange.new
      BY <2>2, <2>3, <2>4, <1>l, LinkedGrows
    <2> QED
      BY <2>1, <2>2, <2>3, <2>5 DEF Shown
  <1>7. CASE TickSaves /\ saved = NoFile
    <2>1. trail = << >> /\ trail' = trail /\ saved' = pinned /\ origin' = pinned /\ proc' # "emit"
      BY <1>7, <1>l DEF TickSaves, Saves, PinTypeOK
    <2>2. pinned # NoFile
      BY <1>7 DEF TickSaves, PinTypeOK
    <2> QED
      BY <2>1, <2>2 DEF Linked, TrailEnd, Shown
  <1>8. CASE TickSaves /\ saved # NoFile
    <2>1. trail' = trail /\ saved' = saved /\ origin' = origin /\ proc' # "emit" /\ proc # "emit"
      BY <1>8 DEF TickSaves, Saves, PinTypeOK, Boots
    <2> QED
      BY <2>1, <1>4
  <1>9. ~SyncFails /\ ~SyncEmitLost
    BY <1>f DEF SyncFails, SyncEmitLost
  <1> QED
    BY <1>0, <1>1, <1>2, <1>3, <1>4, <1>5, <1>6, <1>7, <1>8, <1>9 DEF PinNext

\* In every environment without the window and its failures, the change
\* records of the log lead to the policy the signed checkpoint pins (NFR-SEC-45).
THEOREM TrailAlwaysLeads == PinSpec => []TrailLeadsToPin
  <1>1. PinTypeOK /\ Boots /\ Leads /\ [PinNext]_pinVars => Leads'
    BY NextLeads
  <1>2. Leads => TrailLeadsToPin
    BY DEF Leads, Linked, TrailLeadsToPin
  <1> QED
    BY InitLeads, BootsCorrect, <1>1, <1>2, PTL DEF PinSpec
=============================================================================
