-------------------------- MODULE HashChainProofs --------------------------
(***************************************************************************)
(* Facts about the hash chain operators, for every record list and every   *)
(* anchor.  They carry the store's invariants (StoreProofs) and state why  *)
(* a boot anchored on a rotation boundary verifies neither less nor more   *)
(* than a verification from genesis (ADR-0045).                            *)
(***************************************************************************)
EXTENDS HashChain, SequenceTheorems, WellFoundedInduction, TLAPS

-----------------------------------------------------------------------------
(* Numbers. *)

\* Induction over a set, which the provers can instantiate.
LEMMA SetInduction ==
  ASSUME NEW S \in SUBSET Nat, 0 \in S, \A n \in S : n + 1 \in S
  PROVE  S = Nat
<1> SUFFICES ASSUME Nat \ S # {} PROVE FALSE
  OBVIOUS
<1>1. PICK x \in Nat \ S : \A y \in Nat \ S : ~ (<<y, x>> \in OpToRel(<, Nat))
  BY NatLessThanWellFounded, WFMin
<1>2. \A y \in Nat \ S : ~(y < x)
  BY <1>1 DEF OpToRel
<1>3. x # 0 /\ x - 1 \in Nat /\ x - 1 < x
  OBVIOUS
<1>4. x - 1 \in S
  BY <1>2, <1>3
<1>5. (x - 1) + 1 \in S
  BY <1>4
<1> QED
  BY <1>3, <1>5

\* What Min returns of a set of numbers that has an element.
LEMMA MinOfNumbers ==
  ASSUME NEW D \in SUBSET Nat, D # {}
  PROVE  Min(D) \in D /\ \A j \in D : Min(D) <= j
<1>1. PICK x \in D : \A y \in D : ~ (<<y, x>> \in OpToRel(<, Nat))
  BY NatLessThanWellFounded, WFMin
<1>2. \A y \in D : ~(y < x)
  BY <1>1 DEF OpToRel
<1>3. \A y \in D : x <= y
  BY <1>2
<1> QED
  BY <1>3 DEF Min

\* What Max returns of a list of numbers and a floor.
LEMMA MaxOfList ==
  ASSUME NEW n \in Nat, NEW f, \A i \in 1..n : f[i] \in Nat, NEW low \in Nat,
         NEW all, low \in all, \A i \in 1..n : f[i] \in all,
         \A u \in all : u = low \/ \E i \in 1..n : u = f[i]
  PROVE  /\ Max(all) \in all /\ Max(all) \in Nat
         /\ \A u \in all : u \in Nat /\ u <= Max(all)
<1> DEFINE T(k) == {f[i] : i \in 1..k} \cup {low}
           S == {k \in Nat : k <= n => \E t \in T(k) : \A u \in T(k) : u <= t}
<1>1. \A k \in 0..n : T(k) \in SUBSET Nat
  OBVIOUS
<1>2. 0 \in S
  OBVIOUS
<1>3. ASSUME NEW k \in S PROVE k + 1 \in S
  <2>0. k \in Nat /\ k + 1 \in Nat
    OBVIOUS
  <2> SUFFICES ASSUME k + 1 <= n PROVE \E t \in T(k + 1) : \A u \in T(k + 1) : u <= t
    BY <2>0
  <2>1. k \in 0..n /\ k + 1 \in 0..n /\ k + 1 \in 1..n
    BY <2>0
  <2>2. T(k + 1) = T(k) \cup {f[k + 1]}
    <3>1. 1..(k + 1) = (1..k) \cup {k + 1}
      BY <2>0
    <3> QED
      BY <3>1, Zenon
  <2>3. PICK t \in T(k) : \A u \in T(k) : u <= t
    BY <2>1
  <2>4. t \in Nat /\ T(k) \in SUBSET Nat /\ f[k + 1] \in Nat
    BY <1>1, <2>1
  <2> HIDE DEF T, S
  <2>5. CASE f[k + 1] <= t
    BY <2>2, <2>3, <2>5
  <2>6. CASE ~(f[k + 1] <= t)
    <3>1. \A u \in T(k) : u <= f[k + 1]
      BY <2>3, <2>4, <2>6
    <3>2. \A u \in T(k + 1) : u <= f[k + 1]
      BY <2>2, <2>4, <3>1
    <3> QED
      BY <2>2, <3>2
  <2> QED
    BY <2>5, <2>6
<1>4. \E t \in T(n) : \A u \in T(n) : u <= t
  <2>1. S \in SUBSET Nat
    OBVIOUS
  <2>2. n \in S
    <3> HIDE DEF S
    <3> QED
      BY <1>2, <1>3, <2>1, SetInduction
  <2> HIDE DEF T
  <2> QED
    BY <2>2
<1>5. n \in 0..n
  OBVIOUS
<1>6. T(n) \in SUBSET Nat
  BY <1>1, <1>5
<1>9. all = T(n)
  OBVIOUS
<1> HIDE DEF T
<1>7. Max(T(n)) \in T(n) /\ \A u \in T(n) : Max(T(n)) >= u
  <2>1. \E t \in T(n) : \A u \in T(n) : t >= u
    BY <1>4, <1>6
  <2> QED
    BY <2>1 DEF Max
<1>8. Max(T(n)) \in Nat /\ \A u \in T(n) : u \in Nat /\ u <= Max(T(n))
  BY <1>6, <1>7
<1> QED
  BY <1>7, <1>8, <1>9

-----------------------------------------------------------------------------
(* Tips and the verification of a list. *)

\* A non-empty set of positions has a last one: what Max returns.
LEMMA MaxOfPositions ==
  ASSUME NEW n \in Nat, NEW D \in SUBSET (1..n), D # {}
  PROVE  Max(D) \in D /\ \A j \in D : Max(D) >= j
<1> DEFINE Back == {n - j : j \in D}
<1>1. Back \in SUBSET Nat /\ Back # {}
  <2>1. \A j \in D : n - j \in Nat
    OBVIOUS
  <2>2. PICK j \in D : TRUE
    OBVIOUS
  <2>3. n - j \in Back
    OBVIOUS
  <2> QED
    BY <2>1, <2>3
<1>2. PICK x \in Back : \A y \in Back : ~ (<<y, x>> \in OpToRel(<, Nat))
  BY <1>1, NatLessThanWellFounded, WFMin
<1>3. \A y \in Back : ~(y < x)
  BY <1>1, <1>2 DEF OpToRel
<1>4. PICK m \in D : x = n - m
  BY <1>2
<1>5. \A j \in D : m >= j
  <2> TAKE j \in D
  <2>1. n - j \in Back
    OBVIOUS
  <2>2. ~(n - j < n - m)
    BY <2>1, <1>3, <1>4
  <2> QED
    BY <2>2
<1> QED
  BY <1>4, <1>5 DEF Max

\* Appending a record changes the positions of its own source only.
LEMMA PositionsOfAppend ==
  ASSUME NEW R, NEW recs \in Seq(R), NEW rec \in R, NEW s
  PROVE  /\ rec.source = s =>
              PositionsOf(Append(recs, rec), Len(recs) + 1, s) =
                PositionsOf(recs, Len(recs), s) \cup {Len(recs) + 1}
         /\ rec.source # s =>
              PositionsOf(Append(recs, rec), Len(recs) + 1, s) =
                PositionsOf(recs, Len(recs), s)
<1>1. \A j \in 1..Len(recs) : Append(recs, rec)[j] = recs[j]
  BY AppendProperties
<1>2. Append(recs, rec)[Len(recs) + 1] = rec
  BY AppendProperties
<1>3. 1..(Len(recs) + 1) = (1..Len(recs)) \cup {Len(recs) + 1}
  BY LenProperties
<1> QED
  BY <1>1, <1>2, <1>3, Zenon DEF PositionsOf

\* The tip at a place depends on what precedes it and on nothing else.
LEMMA TipAtAgree ==
  ASSUME NEW R, NEW one \in Seq(R), NEW other \in Seq(R), NEW n \in Nat, NEW s,
         NEW anchors, \A j \in 1..n : one[j] = other[j]
  PROVE  TipAt(one, n, s, anchors) = TipAt(other, n, s, anchors)
<1> DEFINE D == PositionsOf(other, n, s)
<1>1. PositionsOf(one, n, s) = D
  BY DEF PositionsOf
<1>2. CASE D = {}
  BY <1>1, <1>2 DEF TipAt
<1>3. CASE D # {}
  <2>1. D \in SUBSET (1..n)
    BY DEF PositionsOf
  <2>2. Max(D) \in 1..n
    <3> HIDE DEF D
    <3> QED
      BY <1>3, <2>1, MaxOfPositions
  <2> QED
    BY <1>1, <1>3, <2>2 DEF TipAt
<1> QED
  BY <1>2, <1>3

LEMMA TipAtAppend ==
  ASSUME NEW R, NEW recs \in Seq(R), NEW rec \in R, NEW s, NEW anchors,
         NEW i \in 0..Len(recs)
  PROVE  TipAt(Append(recs, rec), i, s, anchors) = TipAt(recs, i, s, anchors)
<1> DEFINE new == Append(recs, rec)
<1>1. i \in Nat /\ new \in Seq(R) /\ \A j \in 1..i : new[j] = recs[j]
  BY LenProperties, AppendProperties
<1> HIDE DEF new
<1>2. TipAt(new, i, s, anchors) = TipAt(recs, i, s, anchors)
  BY <1>1, TipAtAgree
<1> QED
  BY <1>2 DEF new

\* The tips after an append: the record is its source's new tip, the others
\* keep theirs.  (This is Admit's update of the two per-source maps.)
LEMMA TipsOfAppend ==
  ASSUME NEW R, NEW recs \in Seq(R), NEW rec \in R, NEW anchors
  PROVE  TipsOf(Append(recs, rec), anchors) =
           [s \in DOMAIN anchors |->
              IF s = rec.source THEN TipOf(rec) ELSE TipsOf(recs, anchors)[s]]
<1> DEFINE n == Len(recs)
           new == Append(recs, rec)
<1>0. n \in Nat /\ Len(new) = n + 1 /\ new[n + 1] = rec
  BY LenProperties, AppendProperties
<1> SUFFICES ASSUME NEW s \in DOMAIN anchors
             PROVE  TipAt(new, n + 1, s, anchors) =
                      IF s = rec.source THEN TipOf(rec) ELSE TipAt(recs, n, s, anchors)
  BY <1>0 DEF TipsOf
<1>p. /\ rec.source = s => PositionsOf(new, n + 1, s) = PositionsOf(recs, n, s) \cup {n + 1}
      /\ rec.source # s => PositionsOf(new, n + 1, s) = PositionsOf(recs, n, s)
  BY PositionsOfAppend
<1>1. CASE s = rec.source
  <2> DEFINE D == PositionsOf(new, n + 1, s)
  <2>1. D = PositionsOf(recs, n, s) \cup {n + 1}
    BY <1>1, <1>p
  <2>2. D \in SUBSET (1..(n + 1)) /\ n + 1 \in D
    BY <1>0, <2>1 DEF PositionsOf
  <2>3. Max(D) \in D /\ Max(D) >= n + 1
    <3>1. n + 1 \in Nat
      BY <1>0
    <3> HIDE DEF D, n
    <3> QED
      BY <3>1, <2>2, MaxOfPositions
  <2>4. Max(D) = n + 1
    BY <1>0, <2>2, <2>3
  <2> QED
    BY <1>0, <1>1, <2>2, <2>4 DEF TipAt
<1>2. CASE s # rec.source
  <2>1. PositionsOf(new, n + 1, s) = PositionsOf(recs, n, s)
    BY <1>2, <1>p
  <2>2. PositionsOf(new, n + 1, s) = PositionsOf(new, n, s)
    <3>1. \A j \in 1..n : new[j] = recs[j]
      BY AppendProperties
    <3> QED
      BY <2>1, <3>1 DEF PositionsOf
  <2>3. TipAt(new, n + 1, s, anchors) = TipAt(new, n, s, anchors)
    BY <2>2 DEF TipAt
  <2>4. TipAt(new, n, s, anchors) = TipAt(recs, n, s, anchors)
    BY <1>0, TipAtAppend
  <2> QED
    BY <1>2, <2>3, <2>4
<1> QED
  BY <1>1, <1>2

\* One more record verifies exactly when it extends the tip of its source.
LEMMA VerifyChainsAppend ==
  ASSUME NEW R, NEW recs \in Seq(R), NEW rec \in R, NEW anchors
  PROVE  VerifyChains(Append(recs, rec), anchors) <=>
           /\ VerifyChains(recs, anchors)
           /\ Extends(TipAt(recs, Len(recs), rec.source, anchors), rec)
<1> DEFINE n == Len(recs)
           new == Append(recs, rec)
<1>0. n \in Nat /\ Len(new) = n + 1 /\ new[n + 1] = rec
  BY LenProperties, AppendProperties
<1>1. ASSUME NEW i \in 1..n
      PROVE  new[i] = recs[i] /\ \A s : TipAt(new, i - 1, s, anchors) = TipAt(recs, i - 1, s, anchors)
  BY <1>0, AppendProperties, TipAtAppend
<1>2. TipAt(new, n, rec.source, anchors) = TipAt(recs, n, rec.source, anchors)
  BY <1>0, TipAtAppend
<1>3. 1..Len(new) = (1..n) \cup {n + 1}
  BY <1>0
<1> DEFINE P(i) == Extends(TipAt(new, i - 1, new[i].source, anchors), new[i])
           Q(i) == Extends(TipAt(recs, i - 1, recs[i].source, anchors), recs[i])
<1>4. \A i \in 1..n : P(i) <=> Q(i)
  BY <1>1
<1>5. P(n + 1) <=> Extends(TipAt(recs, n, rec.source, anchors), rec)
  <2>1. (n + 1) - 1 = n
    BY <1>0
  <2> QED
    BY <1>0, <1>2, <2>1
<1>6. VerifyChains(new, anchors) <=> \A i \in (1..n) \cup {n + 1} : P(i)
  BY <1>3 DEF VerifyChains
<1>7. VerifyChains(recs, anchors) <=> \A i \in 1..n : Q(i)
  BY DEF VerifyChains
<1> HIDE DEF P, Q
<1> QED
  BY <1>4, <1>5, <1>6, <1>7
-----------------------------------------------------------------------------
(* Anchored verification *)

\* A list and what follows it: the tip at a place of the second part is what
\* the second part makes of the tips the first one leaves.
LEMMA TipAtBoundary ==
  ASSUME NEW R, NEW cold \in Seq(R), NEW hot \in Seq(R), NEW anchors,
         NEW s \in DOMAIN anchors, NEW k \in 0..Len(hot)
  PROVE  TipAt(cold \o hot, Len(cold) + k, s, anchors) =
           TipAt(hot, k, s, TipsOf(cold, anchors))
<1> DEFINE n == Len(cold)
           all == cold \o hot
           C == PositionsOf(cold, n, s)
           H == PositionsOf(hot, k, s)
           P == PositionsOf(all, n + k, s)
<1>1. n \in Nat /\ Len(hot) \in Nat /\ k \in Nat /\ k <= Len(hot)
  BY LenProperties
<1>2. /\ \A j \in 1..n : all[j] = cold[j]
      /\ \A j \in 1..Len(hot) : all[n + j] = hot[j]
  BY <1>1, ConcatProperties
<1> HIDE DEF all, n
<1>3. \A j \in 1..n : j \in P <=> j \in C
  BY <1>1, <1>2 DEF PositionsOf
<1>4. \A j \in 1..k : n + j \in P <=> j \in H
  BY <1>1, <1>2 DEF PositionsOf
<1>5. \A j \in P : j \in 1..n \/ \E i \in 1..k : j = n + i
  <2> TAKE j \in P
  <2>1. j \in 1..(n + k)
    BY DEF PositionsOf
  <2>2. CASE j <= n
    BY <1>1, <2>1, <2>2
  <2>3. CASE ~(j <= n)
    <3>1. j - n \in 1..k /\ j = n + (j - n)
      BY <1>1, <2>1, <2>3
    <3> QED
      BY <3>1
  <2> QED
    BY <2>2, <2>3
<1>6. C \subseteq 1..n /\ H \subseteq 1..k /\ P \subseteq 1..(n + k)
  BY DEF PositionsOf
<1>7. TipsOf(cold, anchors)[s] = TipAt(cold, n, s, anchors)
  BY DEF TipsOf, n
<1> HIDE DEF C, H, P
<1>8. CASE H = {}
  <2>1. P = C
    BY <1>3, <1>4, <1>5, <1>6, <1>8
  <2>2. TipAt(hot, k, s, TipsOf(cold, anchors)) = TipAt(cold, n, s, anchors)
    BY <1>7, <1>8 DEF TipAt, H
  <2>3. TipAt(all, n + k, s, anchors) = TipAt(cold, n, s, anchors)
    <3>1. CASE C = {}
      BY <2>1, <3>1 DEF TipAt, C, P
    <3>2. CASE C # {}
      <4>1. Max(C) \in 1..n
        BY <1>1, <1>6, <3>2, MaxOfPositions
      <4>2. all[Max(C)] = cold[Max(C)]
        BY <1>2, <4>1
      <4> QED
        BY <2>1, <3>2, <4>2 DEF TipAt, C, P
    <3> QED
      BY <3>1, <3>2
  <2> QED
    BY <2>2, <2>3 DEF all, n
<1>9. CASE H # {}
  <2>1. Max(H) \in H /\ \A j \in H : Max(H) >= j
    BY <1>1, <1>6, <1>9, MaxOfPositions
  <2>2. Max(H) \in 1..k /\ n + Max(H) \in P
    BY <1>4, <1>6, <2>1
  <2> DEFINE h == Max(H)
  <2> HIDE DEF h
  <2>3. ASSUME NEW j \in P PROVE n + h >= j
    <3>1. CASE j \in 1..n
      BY <1>1, <2>2, <3>1 DEF h
    <3>2. CASE \E i \in 1..k : j = n + i
      <4>1. PICK i \in 1..k : j = n + i
        BY <3>2
      <4>2. i \in H
        BY <1>4, <4>1
      <4>3. h >= i /\ h \in Nat
        BY <2>1, <2>2, <4>2 DEF h
      <4> QED
        BY <1>1, <4>1, <4>3
    <3> QED
      BY <1>5, <3>1, <3>2
  <2>4. Max(P) \in P /\ \A j \in P : Max(P) >= j
    <3>1. n + k \in Nat /\ P # {}
      BY <1>1, <2>2
    <3> QED
      BY <1>6, <3>1, MaxOfPositions
  <2>5. Max(P) = n + Max(H)
    <3> DEFINE p == Max(P)
    <3> HIDE DEF p
    <3>1. p \in Nat /\ p >= n + h /\ n + h >= p /\ h \in Nat
      <4>1. p \in 1..(n + k) /\ p \in P /\ p >= n + h
        BY <1>6, <2>2, <2>4 DEF p, h
      <4> QED
        BY <1>1, <2>2, <2>3, <4>1 DEF h
    <3>2. p = n + h
      BY <1>1, <3>1
    <3> QED
      BY <3>2 DEF p, h
  <2>6. all[Max(P)] = hot[Max(H)] /\ P # {}
    BY <1>1, <1>2, <2>2, <2>5
  <2> QED
    BY <1>9, <2>6 DEF TipAt, H, P, all, n
<1> QED
  BY <1>8, <1>9

\* RecoverAnchored trusts the rotated prefix and verifies the hot rest from
\* the tips in the signed checkpoint (recover_anchored.go:37-119).  Wherever
\* the boundary is, that is neither less nor more than verifying the whole
\* log, and the tips it goes on with are those of the whole log.
THEOREM AnchoredVerification ==
  ASSUME NEW R, NEW cold \in Seq(R), NEW hot \in Seq(R), NEW anchors,
         \A i \in 1..Len(hot) : hot[i].source \in DOMAIN anchors
  PROVE  /\ VerifyChains(cold \o hot, anchors) <=>
              /\ VerifyChains(cold, anchors)
              /\ VerifyChains(hot, TipsOf(cold, anchors))
         /\ TipsOf(cold \o hot, anchors) = TipsOf(hot, TipsOf(cold, anchors))
<1> DEFINE n == Len(cold)
           m == Len(hot)
           all == cold \o hot
<1>1. n \in Nat /\ m \in Nat /\ all \in Seq(R) /\ Len(all) = n + m
  BY LenProperties, ConcatProperties
<1>2. /\ \A j \in 1..n : all[j] = cold[j]
      /\ \A j \in 1..m : all[n + j] = hot[j]
  BY <1>1, ConcatProperties
<1> HIDE DEF n, m, all
<1> DEFINE Links(recs, i, a) == Extends(TipAt(recs, i - 1, recs[i].source, a), recs[i])
<1>3. \A i \in 1..n : Links(all, i, anchors) <=> Links(cold, i, anchors)
  <2> TAKE i \in 1..n
  <2>1. i - 1 \in Nat /\ \A j \in 1..i-1 : all[j] = cold[j]
    BY <1>1, <1>2
  <2>2. TipAt(all, i - 1, cold[i].source, anchors) = TipAt(cold, i - 1, cold[i].source, anchors)
    BY <1>1, <2>1, TipAtAgree
  <2> QED
    BY <1>2, <2>2
<1>4. \A i \in 1..m : Links(all, n + i, anchors) <=> Links(hot, i, TipsOf(cold, anchors))
  <2> TAKE i \in 1..m
  <2>1. all[n + i] = hot[i] /\ hot[i].source \in DOMAIN anchors
    BY <1>2 DEF m
  <2>2. i - 1 \in 0..m /\ (n + i) - 1 = n + (i - 1)
    BY <1>1
  <2>3. TipAt(all, n + (i - 1), hot[i].source, anchors) =
          TipAt(hot, i - 1, hot[i].source, TipsOf(cold, anchors))
    BY <2>1, <2>2, TipAtBoundary DEF all, n, m
  <2> QED
    BY <2>1, <2>2, <2>3
<1>5. VerifyChains(all, anchors) <=> \A i \in 1..(n + m) : Links(all, i, anchors)
  BY <1>1 DEF VerifyChains
<1>6. /\ VerifyChains(cold, anchors) <=> \A i \in 1..n : Links(cold, i, anchors)
      /\ VerifyChains(hot, TipsOf(cold, anchors)) <=>
           \A i \in 1..m : Links(hot, i, TipsOf(cold, anchors))
  BY DEF VerifyChains, n, m
<1> HIDE DEF Links
<1>7. (\A i \in 1..(n + m) : Links(all, i, anchors)) <=>
        /\ \A i \in 1..n : Links(all, i, anchors)
        /\ \A i \in 1..m : Links(all, n + i, anchors)
  <2>1. /\ \A i \in 1..n : i \in 1..(n + m)
        /\ \A i \in 1..m : n + i \in 1..(n + m)
    BY <1>1
  <2>2. \A i \in 1..(n + m) : i \in 1..n \/ \E j \in 1..m : i = n + j
    <3> TAKE i \in 1..(n + m)
    <3>1. CASE ~(i <= n)
      <4>1. i - n \in 1..m /\ i = n + (i - n)
        BY <1>1, <3>1
      <4> QED
        BY <4>1
    <3> QED
      BY <1>1, <3>1
  <2> QED
    BY <2>1, <2>2, Zenon
<1>8. TipsOf(all, anchors) = TipsOf(hot, TipsOf(cold, anchors))
  <2>1. DOMAIN TipsOf(cold, anchors) = DOMAIN anchors
    BY DEF TipsOf
  <2>2. m \in 0..m
    BY <1>1
  <2>3. \A s \in DOMAIN anchors :
           TipAt(all, n + m, s, anchors) = TipAt(hot, m, s, TipsOf(cold, anchors))
    BY <2>2, TipAtBoundary DEF all, n, m
  <2>4. TipsOf(all, anchors) = [s \in DOMAIN anchors |-> TipAt(all, n + m, s, anchors)]
    BY <1>1 DEF TipsOf
  <2>5. TipsOf(hot, TipsOf(cold, anchors)) =
          [s \in DOMAIN anchors |-> TipAt(hot, m, s, TipsOf(cold, anchors))]
    BY <2>1 DEF TipsOf, m
  <2> QED
    BY <2>3, <2>4, <2>5
<1> QED
  BY <1>3, <1>4, <1>5, <1>6, <1>7, <1>8 DEF all
-----------------------------------------------------------------------------
(* What a recovery rebuilds from a list. *)

TipsWith(H) == [have : BOOLEAN, hash : H, seq : Nat]

LEMMA TipAtTyped ==
  ASSUME NEW R, NEW H, \A r \in R : r.hash \in H /\ r.seq \in Nat,
         NEW recs \in Seq(R), NEW n \in 0..Len(recs),
         NEW S, NEW s \in S, NEW anchors \in [S -> TipsWith(H)]
  PROVE  TipAt(recs, n, s, anchors) \in TipsWith(H)
<1>0. Len(recs) \in Nat
  BY LenProperties
<1> DEFINE D == PositionsOf(recs, n, s)
<1>1. CASE D = {}
  BY <1>1 DEF TipAt
<1>2. CASE D # {}
  <2>1. D \in SUBSET (1..n) /\ n \in Nat
    BY <1>0 DEF PositionsOf
  <2>2. Max(D) \in 1..n
    <3> HIDE DEF D
    <3> QED
      BY <2>1, <1>2, MaxOfPositions
  <2>3. Max(D) \in 1..Len(recs)
    BY <1>0, <2>2
  <2>4. recs[Max(D)] \in R
    <3> HIDE DEF D
    <3> QED
      BY <2>3, ElementOfSeq
  <2>5. TipOf(recs[Max(D)]) \in TipsWith(H)
    <3> HIDE DEF D
    <3> QED
      BY <2>4 DEF TipOf, TipsWith
  <2> QED
    BY <1>2, <2>5 DEF TipAt
<1> QED
  BY <1>1, <1>2

LEMMA TipsOfTyped ==
  ASSUME NEW R, NEW H, \A r \in R : r.hash \in H /\ r.seq \in Nat,
         NEW recs \in Seq(R), NEW S, NEW anchors \in [S -> TipsWith(H)]
  PROVE  TipsOf(recs, anchors) \in [S -> TipsWith(H)]
<1>1. Len(recs) \in 0..Len(recs)
  BY LenProperties
<1>2. DOMAIN anchors = S
  OBVIOUS
<1>3. \A s \in S : TipAt(recs, Len(recs), s, anchors) \in TipsWith(H)
  BY <1>1, TipAtTyped
<1> QED
  BY <1>2, <1>3 DEF TipsOf

\* The highest stamp is one, and none is above it.
LEMMA FloorOfList ==
  ASSUME NEW R, \A r \in R : r.time \in Nat, NEW recs \in Seq(R), NEW low \in Nat
  PROVE  /\ FloorOf(recs, low) \in Nat /\ low <= FloorOf(recs, low)
         /\ \A t \in TimesOf(recs) : t \in Nat /\ t <= FloorOf(recs, low)
<1> DEFINE f == [i \in 1..Len(recs) |-> recs[i].time]
<1>1. Len(recs) \in Nat /\ \A i \in 1..Len(recs) : recs[i].time \in Nat
  BY LenProperties, ElementOfSeq
<1>2. \A i \in 1..Len(recs) : f[i] = recs[i].time
  OBVIOUS
<1>3. TimesOf(recs) = {f[i] : i \in 1..Len(recs)}
  BY DEF TimesOf
<1>4. \A t \in TimesOf(recs) : t \in Nat
  BY <1>1 DEF TimesOf
<1> HIDE DEF f
<1>5. Len(recs) \in Nat /\ \A i \in 1..Len(recs) : f[i] \in Nat
  BY <1>1, <1>2
<1> DEFINE all == TimesOf(recs) \cup {low}
<1>6. /\ low \in all /\ \A i \in 1..Len(recs) : f[i] \in all
      /\ \A u \in all : u = low \/ \E i \in 1..Len(recs) : u = f[i]
  BY <1>3
<1> HIDE DEF all
<1>7. Max(all) \in Nat /\ \A u \in all : u <= Max(all)
  BY <1>5, <1>6, MaxOfList, ZenonT(60)
<1> QED
  BY <1>4, <1>7 DEF FloorOf, all

\* One more record, with a stamp that does not go back.
LEMMA StampsOfAppend ==
  ASSUME NEW R, \A r \in R : r.time \in Nat, NEW recs \in Seq(R), NEW rec \in R, NEW top \in Nat,
         \A i, j \in 1..Len(recs) : i < j => recs[i].time <= recs[j].time,
         \A i \in 1..Len(recs) : recs[i].time <= top, rec.time >= top
  PROVE  LET new == Append(recs, rec)
         IN  /\ \A i, j \in 1..Len(new) : i < j => new[i].time <= new[j].time
             /\ \A i \in 1..Len(new) : new[i].time <= rec.time
<1> DEFINE n == Len(recs)
           new == Append(recs, rec)
<1>0. /\ n \in Nat /\ Len(new) = n + 1 /\ new[n + 1] = rec
      /\ \A i \in 1..n : new[i] = recs[i]
  BY LenProperties, AppendProperties
<1>1. \A i \in 1..n : recs[i].time \in Nat
  BY ElementOfSeq
<1> HIDE DEF new
<1>2. \A i \in 1..(n + 1) : new[i].time <= rec.time
  BY <1>0, <1>1
<1>3. \A i, j \in 1..(n + 1) : i < j => new[i].time <= new[j].time
  <2> TAKE i, j \in 1..(n + 1)
  <2> HAVE i < j
  <2>1. CASE j = n + 1
    BY <1>0, <1>2, <2>1
  <2>2. CASE j # n + 1
    BY <1>0, <2>2
  <2> QED
    BY <2>1, <2>2
<1> QED
  BY <1>0, <1>2, <1>3 DEF new

LEMMA KeysOfAppend ==
  ASSUME NEW R, NEW recs \in Seq(R), NEW rec \in R
  PROVE  KeysOf(Append(recs, rec)) = KeysOf(recs) \cup {<<rec.source, rec.seq>>}
<1> DEFINE n == Len(recs)
           new == Append(recs, rec)
<1>0. /\ n \in Nat /\ Len(new) = n + 1 /\ new[n + 1] = rec
      /\ \A i \in 1..n : new[i] = recs[i]
  BY LenProperties, AppendProperties
<1>1. 1..(n + 1) = (1..n) \cup {n + 1}
  BY <1>0
<1> QED
  BY <1>0, <1>1, Zenon DEF KeysOf

LEMMA LeavesTyped ==
  ASSUME NEW R, NEW H, \A r \in R : r.hash \in H, NEW recs \in Seq(R)
  PROVE  /\ LeavesOf(recs) \in Seq(H) /\ Len(LeavesOf(recs)) = Len(recs)
         /\ \A i \in 1..Len(recs) : LeavesOf(recs)[i] = recs[i].hash
<1>1. Len(recs) \in Nat /\ \A i \in 1..Len(recs) : recs[i].hash \in H
  BY LenProperties, ElementOfSeq
<1> QED
  BY <1>1 DEF LeavesOf

LEMMA LeavesOfAppend ==
  ASSUME NEW R, NEW H, \A r \in R : r.hash \in H, NEW recs \in Seq(R), NEW rec \in R
  PROVE  LeavesOf(Append(recs, rec)) = Append(LeavesOf(recs), rec.hash)
<1> DEFINE n == Len(recs)
           new == Append(recs, rec)
<1>0. /\ n \in Nat /\ Len(new) = n + 1 /\ new[n + 1] = rec /\ new \in Seq(R)
      /\ \A i \in 1..n : new[i] = recs[i]
  BY LenProperties, AppendProperties
<1>1. /\ LeavesOf(recs) \in Seq(H) /\ Len(LeavesOf(recs)) = n
      /\ \A i \in 1..n : LeavesOf(recs)[i] = recs[i].hash
  BY LeavesTyped
<1> HIDE DEF new
<1>2. /\ LeavesOf(new) \in Seq(H) /\ Len(LeavesOf(new)) = n + 1
      /\ \A i \in 1..(n + 1) : LeavesOf(new)[i] = new[i].hash
  BY <1>0, LeavesTyped
<1>3. /\ Append(LeavesOf(recs), rec.hash) \in Seq(H)
      /\ Len(Append(LeavesOf(recs), rec.hash)) = n + 1
      /\ \A i \in 1..n : Append(LeavesOf(recs), rec.hash)[i] = LeavesOf(recs)[i]
      /\ Append(LeavesOf(recs), rec.hash)[n + 1] = rec.hash
  BY <1>1, AppendProperties
<1>4. \A i \in 1..(n + 1) : LeavesOf(new)[i] = Append(LeavesOf(recs), rec.hash)[i]
  BY <1>0, <1>1, <1>2, <1>3
<1>5. LeavesOf(new) = Append(LeavesOf(recs), rec.hash)
  BY <1>2, <1>3, <1>4, SeqEqual
<1> QED
  BY <1>5 DEF new

\* A part of a verified list that starts at its beginning verifies.
LEMMA VerifyChainsPrefix ==
  ASSUME NEW R, NEW recs \in Seq(R), NEW cut \in Seq(R), NEW anchors,
         Len(cut) <= Len(recs), \A i \in 1..Len(cut) : cut[i] = recs[i],
         VerifyChains(recs, anchors)
  PROVE  VerifyChains(cut, anchors)
<1>1. Len(cut) \in Nat /\ Len(recs) \in Nat
  BY LenProperties
<1>2. ASSUME NEW i \in 1..Len(cut)
      PROVE  Extends(TipAt(cut, i - 1, cut[i].source, anchors), cut[i])
  <2>1. i \in 1..Len(recs) /\ cut[i] = recs[i]
    BY <1>1
  <2>2. i - 1 \in Nat /\ \A j \in 1..i-1 : cut[j] = recs[j]
    BY <1>1
  <2>3. TipAt(cut, i - 1, cut[i].source, anchors) = TipAt(recs, i - 1, recs[i].source, anchors)
    BY <2>1, <2>2, TipAtAgree
  <2>4. Extends(TipAt(recs, i - 1, recs[i].source, anchors), recs[i])
    BY <2>1 DEF VerifyChains
  <2> QED
    BY <2>1, <2>3, <2>4
<1> QED
  BY <1>2 DEF VerifyChains
=============================================================================
