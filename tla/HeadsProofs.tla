---------------------------- MODULE HeadsProofs ----------------------------
(***************************************************************************)
(* Proofs about MerkleTree.tla, for lists of leaves of every length, and   *)
(* from them the safety properties of Heads.tla.                           *)
(*                                                                         *)
(* The tree.  The rows of RFC 6962 are read through indexes: the node at   *)
(* level l over leaf x is number At(x, l), and its hash is a function of   *)
(* the one below and of its sibling's (NodeHashUp).  A climb along the     *)
(* siblings of a leaf thus has the hash of every node above it (ClimbHash),*)
(* and everything the tree does is such a climb: an append climbs along    *)
(* the subtrees it merges, the root along the compact range, the verifier  *)
(* along a proof.  Accumulates says what the accumulator keeps of a list   *)
(* of leaves of which it did not see the first ones; an append, a root and *)
(* a continuation from a frontier preserve it.  The verifier is sound      *)
(* because a climb can be read back: the hash at the top fixes the hashes  *)
(* below it (ClimbSound).                                                  *)
(*                                                                         *)
(* The daemon.  HeadsInv says that files and memory hold only frontiers    *)
(* and heads of the log as it was.                                         *)
(***************************************************************************)
EXTENDS Heads, HashChainProofs

-----------------------------------------------------------------------------
(* The recursive functions exist, and what they compute.                   *)

\* The widths of levels exist: each is twice the one below.
LEMMA WidthDef ==
  /\ Width[0] = 1
  /\ \A l \in Nat : Width[l + 1] = 2 * Width[l]
<1> DEFINE Base       == 1
           Step(l, w) == 2 * w
<1> DEFINE Fits(g, n) == g[0] = Base /\ \A l \in Nat : l < n => g[l + 1] = Step(l, g[l])
           S == {n \in Nat : \E g : Fits(g, n)}
           T == {n \in Nat : \A i, j \in Nat : \A g, h :
                   n <= i /\ n <= j /\ Fits(g, i) /\ Fits(h, j) => g[n] = h[n]}
<1> HIDE DEF Base, Step
<1>1. \A n \in Nat : \E g : Fits(g, n)
  <2>1. 0 \in S
    <3>1. Fits([l \in Nat |-> Base], 0)
      OBVIOUS
    <3> QED
      BY <3>1
  <2>2. ASSUME NEW n \in S PROVE n + 1 \in S
    <3>1. n \in Nat /\ n + 1 \in Nat
      OBVIOUS
    <3>2. PICK g : Fits(g, n)
      OBVIOUS
    <3>3. DEFINE h == [l \in Nat |-> IF l = n + 1 THEN Step(n, g[n]) ELSE g[l]]
    <3>4. h[0] = Base
      BY <3>1, <3>2
    <3>5. ASSUME NEW l \in Nat, l < n + 1 PROVE h[l + 1] = Step(l, h[l])
      <4>1. h[l] = g[l] /\ l + 1 \in Nat
        BY <3>1, <3>5
      <4>2. CASE l = n
        BY <3>1, <4>1, <4>2
      <4>3. CASE l < n
        BY <3>1, <3>2, <4>1, <4>3
      <4> QED
        BY <3>1, <3>5, <4>2, <4>3
    <3>6. Fits(h, n + 1)
      <4> HIDE DEF h
      <4> QED
        BY <3>4, <3>5
    <3> HIDE DEF Fits, h
    <3> QED
      BY <3>1, <3>6
  <2>3. S \in SUBSET Nat
    OBVIOUS
  <2> HIDE DEF S
  <2>4. S = Nat
    BY <2>1, <2>2, <2>3, SetInduction
  <2> QED
    BY <2>4 DEF S
<1>2. \A n, i, j \in Nat : \A g, h :
        n <= i /\ n <= j /\ Fits(g, i) /\ Fits(h, j) => g[n] = h[n]
  <2>1. 0 \in T
    OBVIOUS
  <2>2. ASSUME NEW n \in T PROVE n + 1 \in T
    <3> SUFFICES ASSUME NEW i \in Nat, NEW j \in Nat, NEW g, NEW h,
                        n + 1 <= i, n + 1 <= j, Fits(g, i), Fits(h, j)
                 PROVE  g[n + 1] = h[n + 1]
      OBVIOUS
    <3>1. n \in Nat /\ n < i /\ n < j /\ n <= i /\ n <= j
      OBVIOUS
    <3>2. g[n] = h[n]
      <4> HIDE DEF Fits
      <4> QED
        BY <3>1
    <3>3. g[n + 1] = Step(n, g[n]) /\ h[n + 1] = Step(n, h[n])
      BY <3>1
    <3> QED
      BY <3>2, <3>3
  <2>3. T \in SUBSET Nat
    OBVIOUS
  <2> HIDE DEF T
  <2>4. T = Nat
    BY <2>1, <2>2, <2>3, SetInduction
  <2> QED
    BY <2>4 DEF T
<1> DEFINE part == [n \in Nat |-> CHOOSE g : Fits(g, n)]
           full == [n \in Nat |-> part[n][n]]
<1>3. \A n \in Nat : Fits(part[n], n)
  <2> HIDE DEF Fits
  <2> QED
    BY <1>1
<1>4. \A n \in Nat : full[n + 1] = Step(n, full[n])
  <2> TAKE n \in Nat
  <2>0. n + 1 \in Nat /\ n < n + 1 /\ n <= n /\ n <= n + 1
    OBVIOUS
  <2>1. part[n][n] = part[n + 1][n]
    <3> HIDE DEF part, Fits
    <3>1. Fits(part[n], n) /\ Fits(part[n + 1], n + 1)
      BY <1>3, <2>0
    <3> QED
      BY <1>2, <2>0, <3>1
  <2>2. part[n + 1][n + 1] = Step(n, part[n + 1][n])
    <3> HIDE DEF part
    <3> QED
      BY <1>3, <2>0
  <2> HIDE DEF part
  <2> QED
    BY <2>0, <2>1, <2>2
<1>5. full[0] = Base
  <2> HIDE DEF part
  <2> QED
    BY <1>3
<1>6. \A l \in Nat : l = 0 \/ (l - 1 \in Nat /\ (l - 1) + 1 = l)
  OBVIOUS
<1>7. full = [l \in Nat |-> IF l = 0 THEN Base ELSE Step(l - 1, full[l - 1])]
  <2> HIDE DEF part
  <2> QED
    BY <1>4, <1>5, <1>6
<1>8. Width = [l \in Nat |-> IF l = 0 THEN 1 ELSE 2 * Width[l - 1]]
  <2> HIDE DEF full
  <2> QED
    BY <1>7 DEF Width, Base, Step
<1> QED
  BY <1>8
\* The climb from a leaf exists, level by level.
LEMMA ClimbDef ==
  ASSUME NEW m, NEW path, NEW hash
  PROVE  /\ Climb(m, path, hash)[0] = hash
         /\ \A l \in Nat :
              Climb(m, path, hash)[l + 1] =
                IF l \notin DOMAIN path THEN Climb(m, path, hash)[l]
                ELSE IF Odd(At(m, l)) THEN HashChildren(path[l], Climb(m, path, hash)[l])
                ELSE HashChildren(Climb(m, path, hash)[l], path[l])
<1> DEFINE Base       == hash
           Step(l, h) == IF l \notin DOMAIN path THEN h
                         ELSE IF Odd(At(m, l)) THEN HashChildren(path[l], h)
                         ELSE HashChildren(h, path[l])
           up         == Climb(m, path, hash)
<1> DEFINE Fits(g, n) == g[0] = Base /\ \A l \in Nat : l < n => g[l + 1] = Step(l, g[l])
           S == {n \in Nat : \E g : Fits(g, n)}
           T == {n \in Nat : \A i, j \in Nat : \A g, h :
                   n <= i /\ n <= j /\ Fits(g, i) /\ Fits(h, j) => g[n] = h[n]}
<1> HIDE DEF Base, Step, up
<1>1. \A n \in Nat : \E g : Fits(g, n)
  <2>1. 0 \in S
    <3>1. Fits([l \in Nat |-> Base], 0)
      OBVIOUS
    <3> QED
      BY <3>1
  <2>2. ASSUME NEW n \in S PROVE n + 1 \in S
    <3>1. n \in Nat /\ n + 1 \in Nat
      OBVIOUS
    <3>2. PICK g : Fits(g, n)
      OBVIOUS
    <3>3. DEFINE h == [l \in Nat |-> IF l = n + 1 THEN Step(n, g[n]) ELSE g[l]]
    <3>4. h[0] = Base
      BY <3>1, <3>2
    <3>5. ASSUME NEW l \in Nat, l < n + 1 PROVE h[l + 1] = Step(l, h[l])
      <4>1. h[l] = g[l] /\ l + 1 \in Nat
        BY <3>1, <3>5
      <4>2. CASE l = n
        BY <3>1, <4>1, <4>2
      <4>3. CASE l < n
        BY <3>1, <3>2, <4>1, <4>3
      <4> QED
        BY <3>1, <3>5, <4>2, <4>3
    <3>6. Fits(h, n + 1)
      <4> HIDE DEF h
      <4> QED
        BY <3>4, <3>5
    <3> HIDE DEF Fits, h
    <3> QED
      BY <3>1, <3>6
  <2>3. S \in SUBSET Nat
    OBVIOUS
  <2> HIDE DEF S
  <2>4. S = Nat
    BY <2>1, <2>2, <2>3, SetInduction
  <2> QED
    BY <2>4 DEF S
<1>2. \A n, i, j \in Nat : \A g, h :
        n <= i /\ n <= j /\ Fits(g, i) /\ Fits(h, j) => g[n] = h[n]
  <2>1. 0 \in T
    OBVIOUS
  <2>2. ASSUME NEW n \in T PROVE n + 1 \in T
    <3> SUFFICES ASSUME NEW i \in Nat, NEW j \in Nat, NEW g, NEW h,
                        n + 1 <= i, n + 1 <= j, Fits(g, i), Fits(h, j)
                 PROVE  g[n + 1] = h[n + 1]
      OBVIOUS
    <3>1. n \in Nat /\ n < i /\ n < j /\ n <= i /\ n <= j
      OBVIOUS
    <3>2. g[n] = h[n]
      <4> HIDE DEF Fits
      <4> QED
        BY <3>1
    <3>3. g[n + 1] = Step(n, g[n]) /\ h[n + 1] = Step(n, h[n])
      BY <3>1
    <3> QED
      BY <3>2, <3>3
  <2>3. T \in SUBSET Nat
    OBVIOUS
  <2> HIDE DEF T
  <2>4. T = Nat
    BY <2>1, <2>2, <2>3, SetInduction
  <2> QED
    BY <2>4 DEF T
<1> DEFINE part == [n \in Nat |-> CHOOSE g : Fits(g, n)]
           full == [n \in Nat |-> part[n][n]]
<1>3. \A n \in Nat : Fits(part[n], n)
  <2> HIDE DEF Fits
  <2> QED
    BY <1>1
<1>4. \A n \in Nat : full[n + 1] = Step(n, full[n])
  <2> TAKE n \in Nat
  <2>0. n + 1 \in Nat /\ n < n + 1 /\ n <= n /\ n <= n + 1
    OBVIOUS
  <2>1. part[n][n] = part[n + 1][n]
    <3> HIDE DEF part, Fits
    <3>1. Fits(part[n], n) /\ Fits(part[n + 1], n + 1)
      BY <1>3, <2>0
    <3> QED
      BY <1>2, <2>0, <3>1
  <2>2. part[n + 1][n + 1] = Step(n, part[n + 1][n])
    <3> HIDE DEF part
    <3> QED
      BY <1>3, <2>0
  <2> HIDE DEF part
  <2> QED
    BY <2>0, <2>1, <2>2
<1>5. full[0] = Base
  <2> HIDE DEF part
  <2> QED
    BY <1>3
<1>6. \A l \in Nat : l = 0 \/ (l - 1 \in Nat /\ (l - 1) + 1 = l)
  OBVIOUS
<1>7. full = [l \in Nat |-> IF l = 0 THEN Base ELSE Step(l - 1, full[l - 1])]
  <2> HIDE DEF part
  <2> QED
    BY <1>4, <1>5, <1>6
<1>8. up = [l \in Nat |-> IF l = 0 THEN Base ELSE Step(l - 1, up[l - 1])]
  <2> HIDE DEF full
  <2> QED
    BY <1>7 DEF Climb, Base, Step, up
<1>9. up[0] = Base
  <2> QED
    BY <1>8
<1>10. \A l \in Nat : up[l + 1] = Step(l, up[l])
  <2>1. \A l \in Nat : l + 1 \in Nat /\ l + 1 # 0 /\ (l + 1) - 1 = l
    OBVIOUS
  <2> QED
    BY <1>8, <2>1
<1> QED
  BY <1>9, <1>10 DEF Base, Step, up
\* The rows of a tree exist, from the leaves up.
LEMMA RowsDef ==
  ASSUME NEW leaves
  PROVE  /\ Rows(leaves)[0] = [j \in 0..(Len(leaves) - 1) |-> HashLeaf(leaves[j + 1])]
         /\ \A l \in Nat :
              Rows(leaves)[l + 1] =
                [j \in 0..At(Len(leaves) - 1, l + 1) |->
                   IF 2 * j < At(Len(leaves) - 1, l)
                   THEN HashChildren(Rows(leaves)[l][2 * j], Rows(leaves)[l][2 * j + 1])
                   ELSE Rows(leaves)[l][2 * j]]
<1> DEFINE Base       == [j \in 0..(Len(leaves) - 1) |-> HashLeaf(leaves[j + 1])]
           Step(l, r) == [j \in 0..At(Len(leaves) - 1, l + 1) |->
                            IF 2 * j < At(Len(leaves) - 1, l)
                            THEN HashChildren(r[2 * j], r[2 * j + 1])
                            ELSE r[2 * j]]
           row        == Rows(leaves)
<1> DEFINE Fits(g, n) == g[0] = Base /\ \A l \in Nat : l < n => g[l + 1] = Step(l, g[l])
           S == {n \in Nat : \E g : Fits(g, n)}
           T == {n \in Nat : \A i, j \in Nat : \A g, h :
                   n <= i /\ n <= j /\ Fits(g, i) /\ Fits(h, j) => g[n] = h[n]}
<1> HIDE DEF Base, Step, row
<1>1. \A n \in Nat : \E g : Fits(g, n)
  <2>1. 0 \in S
    <3>1. Fits([l \in Nat |-> Base], 0)
      OBVIOUS
    <3> QED
      BY <3>1
  <2>2. ASSUME NEW n \in S PROVE n + 1 \in S
    <3>1. n \in Nat /\ n + 1 \in Nat
      OBVIOUS
    <3>2. PICK g : Fits(g, n)
      OBVIOUS
    <3>3. DEFINE h == [l \in Nat |-> IF l = n + 1 THEN Step(n, g[n]) ELSE g[l]]
    <3>4. h[0] = Base
      BY <3>1, <3>2
    <3>5. ASSUME NEW l \in Nat, l < n + 1 PROVE h[l + 1] = Step(l, h[l])
      <4>1. h[l] = g[l] /\ l + 1 \in Nat
        BY <3>1, <3>5
      <4>2. CASE l = n
        BY <3>1, <4>1, <4>2
      <4>3. CASE l < n
        BY <3>1, <3>2, <4>1, <4>3
      <4> QED
        BY <3>1, <3>5, <4>2, <4>3
    <3>6. Fits(h, n + 1)
      <4> HIDE DEF h
      <4> QED
        BY <3>4, <3>5
    <3> HIDE DEF Fits, h
    <3> QED
      BY <3>1, <3>6
  <2>3. S \in SUBSET Nat
    OBVIOUS
  <2> HIDE DEF S
  <2>4. S = Nat
    BY <2>1, <2>2, <2>3, SetInduction
  <2> QED
    BY <2>4 DEF S
<1>2. \A n, i, j \in Nat : \A g, h :
        n <= i /\ n <= j /\ Fits(g, i) /\ Fits(h, j) => g[n] = h[n]
  <2>1. 0 \in T
    OBVIOUS
  <2>2. ASSUME NEW n \in T PROVE n + 1 \in T
    <3> SUFFICES ASSUME NEW i \in Nat, NEW j \in Nat, NEW g, NEW h,
                        n + 1 <= i, n + 1 <= j, Fits(g, i), Fits(h, j)
                 PROVE  g[n + 1] = h[n + 1]
      OBVIOUS
    <3>1. n \in Nat /\ n < i /\ n < j /\ n <= i /\ n <= j
      OBVIOUS
    <3>2. g[n] = h[n]
      <4> HIDE DEF Fits
      <4> QED
        BY <3>1
    <3>3. g[n + 1] = Step(n, g[n]) /\ h[n + 1] = Step(n, h[n])
      BY <3>1
    <3> QED
      BY <3>2, <3>3
  <2>3. T \in SUBSET Nat
    OBVIOUS
  <2> HIDE DEF T
  <2>4. T = Nat
    BY <2>1, <2>2, <2>3, SetInduction
  <2> QED
    BY <2>4 DEF T
<1> DEFINE part == [n \in Nat |-> CHOOSE g : Fits(g, n)]
           full == [n \in Nat |-> part[n][n]]
<1>3. \A n \in Nat : Fits(part[n], n)
  <2> HIDE DEF Fits
  <2> QED
    BY <1>1
<1>4. \A n \in Nat : full[n + 1] = Step(n, full[n])
  <2> TAKE n \in Nat
  <2>0. n + 1 \in Nat /\ n < n + 1 /\ n <= n /\ n <= n + 1
    OBVIOUS
  <2>1. part[n][n] = part[n + 1][n]
    <3> HIDE DEF part, Fits
    <3>1. Fits(part[n], n) /\ Fits(part[n + 1], n + 1)
      BY <1>3, <2>0
    <3> QED
      BY <1>2, <2>0, <3>1
  <2>2. part[n + 1][n + 1] = Step(n, part[n + 1][n])
    <3> HIDE DEF part
    <3> QED
      BY <1>3, <2>0
  <2> HIDE DEF part
  <2> QED
    BY <2>0, <2>1, <2>2
<1>5. full[0] = Base
  <2> HIDE DEF part
  <2> QED
    BY <1>3
<1>6. \A l \in Nat : l = 0 \/ (l - 1 \in Nat /\ (l - 1) + 1 = l)
  OBVIOUS
<1>7. full = [l \in Nat |-> IF l = 0 THEN Base ELSE Step(l - 1, full[l - 1])]
  <2> HIDE DEF part
  <2> QED
    BY <1>4, <1>5, <1>6
<1>8. row = [l \in Nat |-> IF l = 0 THEN Base ELSE Step(l - 1, row[l - 1])]
  <2>1. \A l \in Nat \ {0} : (l - 1) + 1 = l
    OBVIOUS
  <2> HIDE DEF full
  <2>2. full = [l \in Nat |->
                 IF l = 0 THEN [j \in 0..(Len(leaves) - 1) |-> HashLeaf(leaves[j + 1])]
                 ELSE [j \in 0..At(Len(leaves) - 1, l) |->
                         IF 2 * j < At(Len(leaves) - 1, l - 1)
                         THEN HashChildren(full[l - 1][2 * j], full[l - 1][2 * j + 1])
                         ELSE full[l - 1][2 * j]]]
    BY <1>7, <2>1, Zenon DEF Base, Step
  <2>3. row = [l \in Nat |->
                 IF l = 0 THEN [j \in 0..(Len(leaves) - 1) |-> HashLeaf(leaves[j + 1])]
                 ELSE [j \in 0..At(Len(leaves) - 1, l) |->
                         IF 2 * j < At(Len(leaves) - 1, l - 1)
                         THEN HashChildren(row[l - 1][2 * j], row[l - 1][2 * j + 1])
                         ELSE row[l - 1][2 * j]]]
    BY <2>2, Zenon DEF Rows, row
  <2> QED
    BY <2>1, <2>3, Zenon DEF Base, Step
<1>9. row[0] = Base
  <2> QED
    BY <1>8
<1>10. \A l \in Nat : row[l + 1] = Step(l, row[l])
  <2>1. \A l \in Nat : l + 1 \in Nat /\ l + 1 # 0 /\ (l + 1) - 1 = l
    OBVIOUS
  <2> QED
    BY <1>8, <2>1
<1> QED
  BY <1>9, <1>10 DEF Base, Step, row
\* The appends of a list of leaves exist, one after the other.
LEMMA AppendLeavesDef ==
  ASSUME NEW start, NEW ds, Len(ds) \in Nat
  PROVE  \E after : /\ after[0] = start
                    /\ \A i \in 0..(Len(ds) - 1) :
                         after[i + 1] = AppendLeaf(after[i], ds[i + 1])
                    /\ AppendLeaves(start, ds) = after[Len(ds)]
<1> DEFINE Base       == start
           Step(i, a) == AppendLeaf(a, ds[i + 1])
           after      == CHOOSE f : f = [i \in 0..Len(ds) |->
                            IF i = 0 THEN start ELSE AppendLeaf(f[i - 1], ds[i])]
<1> DEFINE Fits(g, n) == g[0] = Base /\ \A l \in Nat : l < n => g[l + 1] = Step(l, g[l])
           S == {n \in Nat : \E g : Fits(g, n)}
           T == {n \in Nat : \A i, j \in Nat : \A g, h :
                   n <= i /\ n <= j /\ Fits(g, i) /\ Fits(h, j) => g[n] = h[n]}
<1> HIDE DEF Base, Step, after
<1>1. \A n \in Nat : \E g : Fits(g, n)
  <2>1. 0 \in S
    <3>1. Fits([l \in Nat |-> Base], 0)
      OBVIOUS
    <3> QED
      BY <3>1
  <2>2. ASSUME NEW n \in S PROVE n + 1 \in S
    <3>1. n \in Nat /\ n + 1 \in Nat
      OBVIOUS
    <3>2. PICK g : Fits(g, n)
      OBVIOUS
    <3>3. DEFINE h == [l \in Nat |-> IF l = n + 1 THEN Step(n, g[n]) ELSE g[l]]
    <3>4. h[0] = Base
      BY <3>1, <3>2
    <3>5. ASSUME NEW l \in Nat, l < n + 1 PROVE h[l + 1] = Step(l, h[l])
      <4>1. h[l] = g[l] /\ l + 1 \in Nat
        BY <3>1, <3>5
      <4>2. CASE l = n
        BY <3>1, <4>1, <4>2
      <4>3. CASE l < n
        BY <3>1, <3>2, <4>1, <4>3
      <4> QED
        BY <3>1, <3>5, <4>2, <4>3
    <3>6. Fits(h, n + 1)
      <4> HIDE DEF h
      <4> QED
        BY <3>4, <3>5
    <3> HIDE DEF Fits, h
    <3> QED
      BY <3>1, <3>6
  <2>3. S \in SUBSET Nat
    OBVIOUS
  <2> HIDE DEF S
  <2>4. S = Nat
    BY <2>1, <2>2, <2>3, SetInduction
  <2> QED
    BY <2>4 DEF S
<1>2. \A n, i, j \in Nat : \A g, h :
        n <= i /\ n <= j /\ Fits(g, i) /\ Fits(h, j) => g[n] = h[n]
  <2>1. 0 \in T
    OBVIOUS
  <2>2. ASSUME NEW n \in T PROVE n + 1 \in T
    <3> SUFFICES ASSUME NEW i \in Nat, NEW j \in Nat, NEW g, NEW h,
                        n + 1 <= i, n + 1 <= j, Fits(g, i), Fits(h, j)
                 PROVE  g[n + 1] = h[n + 1]
      OBVIOUS
    <3>1. n \in Nat /\ n < i /\ n < j /\ n <= i /\ n <= j
      OBVIOUS
    <3>2. g[n] = h[n]
      <4> HIDE DEF Fits
      <4> QED
        BY <3>1
    <3>3. g[n + 1] = Step(n, g[n]) /\ h[n + 1] = Step(n, h[n])
      BY <3>1
    <3> QED
      BY <3>2, <3>3
  <2>3. T \in SUBSET Nat
    OBVIOUS
  <2> HIDE DEF T
  <2>4. T = Nat
    BY <2>1, <2>2, <2>3, SetInduction
  <2> QED
    BY <2>4 DEF T
<1> DEFINE part == [n \in Nat |-> CHOOSE g : Fits(g, n)]
           full == [n \in Nat |-> part[n][n]]
<1>3. \A n \in Nat : Fits(part[n], n)
  <2> HIDE DEF Fits
  <2> QED
    BY <1>1
<1>4. \A n \in Nat : full[n + 1] = Step(n, full[n])
  <2> TAKE n \in Nat
  <2>0. n + 1 \in Nat /\ n < n + 1 /\ n <= n /\ n <= n + 1
    OBVIOUS
  <2>1. part[n][n] = part[n + 1][n]
    <3> HIDE DEF part, Fits
    <3>1. Fits(part[n], n) /\ Fits(part[n + 1], n + 1)
      BY <1>3, <2>0
    <3> QED
      BY <1>2, <2>0, <3>1
  <2>2. part[n + 1][n + 1] = Step(n, part[n + 1][n])
    <3> HIDE DEF part
    <3> QED
      BY <1>3, <2>0
  <2> HIDE DEF part
  <2> QED
    BY <2>0, <2>1, <2>2
<1>5. full[0] = Base
  <2> HIDE DEF part
  <2> QED
    BY <1>3
<1>6. \A l \in Nat : l = 0 \/ (l - 1 \in Nat /\ (l - 1) + 1 = l)
  OBVIOUS
<1> DEFINE cut == [i \in 0..Len(ds) |-> full[i]]
<1>7. cut = [i \in 0..Len(ds) |-> IF i = 0 THEN Base ELSE Step(i - 1, cut[i - 1])]
  <2>1. \A i \in 0..Len(ds) : i \in Nat /\ (i = 0 \/ i - 1 \in 0..Len(ds))
    OBVIOUS
  <2> HIDE DEF full
  <2>2. \A i \in 0..Len(ds) : i # 0 => cut[i] = Step(i - 1, cut[i - 1])
    BY <1>4, <1>6, <2>1
  <2>3. cut[0] = Base
    BY <1>5
  <2> QED
    BY <2>2, <2>3
<1>8. after = [i \in 0..Len(ds) |-> IF i = 0 THEN start ELSE AppendLeaf(after[i - 1], ds[i])]
  <2>1. \A l \in Nat \ {0} : (l - 1) + 1 = l
    OBVIOUS
  <2> HIDE DEF full, cut
  <2> QED
    BY <1>7, <2>1 DEF Base, Step, after
<1>9. \A i \in 0..(Len(ds) - 1) :
        i + 1 \in 0..Len(ds) /\ i + 1 # 0 /\ (i + 1) - 1 = i
  OBVIOUS
<1>10. /\ after[0] = start
       /\ \A i \in 0..(Len(ds) - 1) : after[i + 1] = AppendLeaf(after[i], ds[i + 1])
  BY <1>8, <1>9
<1>11. AppendLeaves(start, ds) = after[Len(ds)]
  BY DEF AppendLeaves, after
<1> QED
  BY <1>10, <1>11

\* Widths are positive and grow.
LEMMA WidthFacts ==
  /\ \A l \in Nat : Width[l] \in Nat /\ Width[l] > l
  /\ \A k, l \in Nat : k <= l => Width[k] <= Width[l]
<1>1. \A l \in Nat : Width[l] \in Nat /\ Width[l] > l
  <2> DEFINE S == {l \in Nat : Width[l] \in Nat /\ Width[l] > l}
  <2>1. 0 \in S
    BY WidthDef
  <2>2. ASSUME NEW l \in S PROVE l + 1 \in S
    <3>1. l \in Nat /\ l + 1 \in Nat /\ Width[l] \in Nat /\ Width[l] > l
      OBVIOUS
    <3>2. Width[l + 1] = 2 * Width[l]
      BY <3>1, WidthDef
    <3> QED
      BY <3>1, <3>2
  <2>3. S \in SUBSET Nat
    OBVIOUS
  <2> HIDE DEF S
  <2>4. S = Nat
    BY <2>1, <2>2, <2>3, SetInduction
  <2> QED
    BY <2>4 DEF S
<1>2. ASSUME NEW k \in Nat PROVE \A l \in Nat : k <= l => Width[k] <= Width[l]
  <2> DEFINE S == {l \in Nat : k <= l => Width[k] <= Width[l]}
  <2>1. 0 \in S
    BY <1>1
  <2>2. ASSUME NEW l \in S PROVE l + 1 \in S
    <3>1. l \in Nat /\ l + 1 \in Nat /\ (k <= l => Width[k] <= Width[l])
      OBVIOUS
    <3>2. Width[l + 1] = 2 * Width[l] /\ Width[l] \in Nat /\ Width[k] \in Nat
      BY <1>1, <3>1, WidthDef
    <3>3. k <= l + 1 => k <= l \/ k = l + 1
      BY <3>1
    <3>4. Width[l] <= Width[l + 1]
      BY <3>2
    <3>5. k <= l + 1 => Width[k] <= Width[l + 1]
      BY <3>1, <3>2, <3>3, <3>4
    <3> QED
      BY <3>1, <3>5
  <2>3. S \in SUBSET Nat
    OBVIOUS
  <2> HIDE DEF S
  <2>4. S = Nat
    BY <2>1, <2>2, <2>3, SetInduction
  <2> QED
    BY <2>4 DEF S
<1> QED
  BY <1>1, <1>2

\* Division by twice a width is division by the width, then by two.
LEMMA HalfOfQuotient ==
  ASSUME NEW x \in Nat, NEW w \in Nat, w > 0
  PROVE  x \div (2 * w) = (x \div w) \div 2 /\ x \div w \in Nat
OBVIOUS

\* Indexes: a leaf is its own node, a parent has half the index.
LEMMA AtFacts ==
  ASSUME NEW x \in Nat
  PROVE  /\ At(x, 0) = x
         /\ \A l \in Nat : At(x, l) \in Nat /\ At(x, l + 1) = At(x, l) \div 2
<1>1. At(x, 0) = x
  BY WidthDef DEF At
<1>2. ASSUME NEW l \in Nat PROVE At(x, l) \in Nat /\ At(x, l + 1) = At(x, l) \div 2
  <2>1. Width[l] \in Nat /\ Width[l] > 0 /\ Width[l + 1] = 2 * Width[l]
    BY WidthDef, WidthFacts
  <2> QED
    BY <2>1, HalfOfQuotient DEF At
<1> QED
  BY <1>1, <1>2

\* A node has an odd or an even index, and half of it is its parent's.
LEMMA Parent ==
  ASSUME NEW x \in Nat, NEW l \in Nat
  PROVE  /\ Odd(At(x, l)) => At(x, l) = 2 * At(x, l + 1) + 1
         /\ ~Odd(At(x, l)) => At(x, l) = 2 * At(x, l + 1)
         /\ At(x, l) \in Nat /\ At(x, l + 1) \in Nat
<1>1. At(x, l) \in Nat /\ At(x, l + 1) = At(x, l) \div 2
  BY AtFacts
<1> QED
  BY <1>1 DEF Odd

\* The order of two leaves is kept by the nodes over them, from a level up.
LEMMA AtMonotone ==
  ASSUME NEW x \in Nat, NEW y \in Nat, NEW k \in Nat, At(x, k) <= At(y, k)
  PROVE  \A l \in Nat : k <= l => At(x, l) <= At(y, l)
<1> DEFINE S == {l \in Nat : k <= l => At(x, l) <= At(y, l)}
<1>1. 0 \in S
  OBVIOUS
<1>2. ASSUME NEW l \in S PROVE l + 1 \in S
  <2>1. l \in Nat /\ l + 1 \in Nat /\ (k <= l => At(x, l) <= At(y, l))
    OBVIOUS
  <2>2. CASE k <= l
    <3>1. At(x, l) <= At(y, l)
      BY <2>1, <2>2
    <3>2. At(x, l + 1) <= At(y, l + 1)
      BY <2>1, <3>1, AtFacts
    <3> QED
      BY <2>1, <3>2
  <2>3. CASE ~(k <= l)
    BY <2>1, <2>3
  <2> QED
    BY <2>2, <2>3
<1>3. S \in SUBSET Nat
  OBVIOUS
<1> HIDE DEF S
<1>4. S = Nat
  BY <1>1, <1>2, <1>3, SetInduction
<1> QED
  BY <1>4 DEF S

\* A later leaf is not under an earlier node of a level.
LEMMA AtOrder ==
  ASSUME NEW x \in Nat, NEW y \in Nat, x <= y
  PROVE  \A l \in Nat : At(x, l) <= At(y, l)
<1>1. At(x, 0) <= At(y, 0)
  BY AtFacts
<1>2. \A l \in Nat : 0 <= l
  OBVIOUS
<1> QED
  BY <1>1, <1>2, AtMonotone

\* An index is at most the leaf, and no node is left of level x over leaf x.
LEMMA AtBound ==
  ASSUME NEW x \in Nat, NEW l \in Nat
  PROVE  /\ At(x, l) <= x
         /\ x <= l => At(x, l) = 0
<1>1. Width[l] \in Nat /\ Width[l] > l
  BY WidthFacts
<1>2. ASSUME NEW w \in Nat, w > 0 PROVE x \div w <= x /\ (x < w => x \div w = 0)
  BY <1>2
<1> QED
  BY <1>1, <1>2 DEF At

\* The level at which an append of a leaf stops to merge: the nodes over the
\* leaf are right children below it, and it is the lowest level at which the
\* tree with the leaf has a last perfect subtree.
LEMMA MergesFacts ==
  ASSUME NEW x \in Nat
  PROVE  /\ Merges(x) \in 0..x /\ ~Odd(At(x, Merges(x)))
         /\ \A l \in Nat : l < Merges(x) => Odd(At(x, l))
         /\ \A l \in Nat : At(x + 1, l) = IF l <= Merges(x) THEN At(x, l) + 1 ELSE At(x, l)
<1> DEFINE t == Merges(x)
           D == {l \in 0..x : ~Odd(At(x, l))}
<1>1. x \in D
  <2>1. At(x, x) = 0
    BY AtBound
  <2> QED
    BY <2>1 DEF Odd
<1>2. t \in D /\ \A l \in D : t <= l
  <2>1. D \in SUBSET Nat /\ D # {}
    BY <1>1
  <2> QED
    BY <2>1, MinOfNumbers DEF Merges
<1>3. t \in 0..x /\ ~Odd(At(x, t))
  BY <1>2
<1>4. ASSUME NEW l \in Nat, l < t PROVE Odd(At(x, l))
  <2>1. l \in 0..x /\ ~(t <= l)
    BY <1>3, <1>4
  <2> HIDE DEF t
  <2> QED
    BY <1>2, <2>1
<1> HIDE DEF t
<1> DEFINE S == {l \in Nat : At(x + 1, l) = IF l <= t THEN At(x, l) + 1 ELSE At(x, l)}
<1>5. 0 \in S
  <2>1. At(x + 1, 0) = x + 1 /\ At(x, 0) = x
    BY AtFacts
  <2>2. 0 <= t
    BY <1>3
  <2> QED
    BY <2>1, <2>2
<1>6. ASSUME NEW l \in S PROVE l + 1 \in S
  <2>1. l \in Nat /\ l + 1 \in Nat /\ t \in Nat
    BY <1>3
  <2>2. At(x + 1, l) = IF l <= t THEN At(x, l) + 1 ELSE At(x, l)
    OBVIOUS
  <2>3. At(x, l) \in Nat /\ At(x, l + 1) = At(x, l) \div 2
        /\ At(x + 1, l + 1) = At(x + 1, l) \div 2
    <3>1. x + 1 \in Nat
      OBVIOUS
    <3>2. At(x, l) \in Nat /\ At(x, l + 1) = At(x, l) \div 2
      BY <2>1, AtFacts
    <3>3. At(x + 1, l + 1) = At(x + 1, l) \div 2
      BY <2>1, <3>1, AtFacts
    <3> QED
      BY <3>2, <3>3
  <2>4. CASE l < t
    <3>1. Odd(At(x, l))
      BY <1>4, <2>1, <2>4
    <3>2. At(x + 1, l + 1) = At(x, l + 1) + 1
      BY <2>1, <2>2, <2>3, <2>4, <3>1 DEF Odd
    <3> QED
      BY <2>1, <2>4, <3>2
  <2>5. CASE l = t
    <3>1. At(x + 1, l + 1) = At(x, l + 1)
      BY <1>3, <2>1, <2>2, <2>3, <2>5 DEF Odd
    <3> QED
      BY <2>1, <2>5, <3>1
  <2>6. CASE t < l
    <3>1. At(x + 1, l + 1) = At(x, l + 1)
      BY <2>1, <2>2, <2>3, <2>6
    <3> QED
      BY <2>1, <2>6, <3>1
  <2> QED
    BY <2>1, <2>4, <2>5, <2>6
<1>7. S \in SUBSET Nat
  OBVIOUS
<1> HIDE DEF S
<1>8. S = Nat
  BY <1>5, <1>6, <1>7, SetInduction
<1>9. \A l \in Nat : At(x + 1, l) = IF l <= t THEN At(x, l) + 1 ELSE At(x, l)
  BY <1>8 DEF S
<1> QED
  BY <1>3, <1>4, <1>9 DEF t

\* The levels of the perfect subtrees, before and after a leaf is appended.
LEMMA CoverFacts ==
  ASSUME NEW n \in Nat
  PROVE  /\ \A l \in Nat : l \in Cover(n) <=> Odd(At(n, l))
         /\ \A l \in Cover(n) : l \in Nat /\ l < n /\ At(n, l) > 0
<1>1. ASSUME NEW l \in Nat, Odd(At(n, l)) PROVE l < n /\ At(n, l) > 0
  <2>1. At(n, l) \in Nat /\ At(n, l) # 0
    BY <1>1, AtFacts DEF Odd
  <2>2. ~(n <= l)
    BY <2>1, AtBound
  <2> QED
    BY <2>1, <2>2
<1>2. ASSUME NEW l \in Cover(n) PROVE l \in Nat /\ Odd(At(n, l))
  BY DEF Cover
<1>3. ASSUME NEW l \in Nat, Odd(At(n, l)) PROVE l \in Cover(n)
  <2>1. l \in 0..n
    BY <1>1, <1>3
  <2> QED
    BY <1>3, <2>1 DEF Cover
<1> QED
  BY <1>1, <1>2, <1>3

\* The perfect subtrees of a tree with one leaf more: those that are not merged, and
\* the one they are merged into.
LEMMA CoverGrows ==
  ASSUME NEW x \in Nat
  PROVE  /\ Cover(x + 1) = (Cover(x) \ 0..(Merges(x) - 1)) \cup {Merges(x)}
         /\ 0..(Merges(x) - 1) \subseteq Cover(x)
         /\ \A l \in Cover(x + 1) : Merges(x) <= l
         /\ \A l \in Cover(x + 1) : l # Merges(x) =>
              Merges(x) < l /\ l \in Cover(x) /\ At(x + 1, l) = At(x, l)
         /\ Merges(x) \in Cover(x + 1)
<1> DEFINE t == Merges(x)
<1>1. t \in Nat /\ ~Odd(At(x, t)) /\ (\A l \in Nat : l < t => Odd(At(x, l)))
      /\ \A l \in Nat : At(x + 1, l) = IF l <= t THEN At(x, l) + 1 ELSE At(x, l)
  BY MergesFacts
<1>2. \A l \in Nat : l \in Cover(x) <=> Odd(At(x, l))
  BY CoverFacts
<1>3. \A l \in Nat : l \in Cover(x + 1) <=> Odd(At(x + 1, l))
  BY CoverFacts
<1>4. (\A l \in Cover(x) : l \in Nat) /\ (\A l \in Cover(x + 1) : l \in Nat)
  BY CoverFacts
<1> HIDE DEF t
<1>5. ASSUME NEW l \in Nat
      PROVE  /\ l < t => Odd(At(x, l)) /\ ~Odd(At(x + 1, l))
             /\ l = t => ~Odd(At(x, l)) /\ Odd(At(x + 1, l))
             /\ t < l => At(x + 1, l) = At(x, l)
             /\ l < t \/ l = t \/ t < l
  <2>1. At(x, l) \in Nat
    BY AtFacts
  <2>2. l < t => Odd(At(x, l)) /\ At(x + 1, l) = At(x, l) + 1
    BY <1>1
  <2>3. l = t => ~Odd(At(x, l)) /\ At(x + 1, l) = At(x, l) + 1
    BY <1>1
  <2>4. t < l => At(x + 1, l) = At(x, l)
    BY <1>1
  <2>5. l < t \/ l = t \/ t < l
    BY <1>1
  <2> QED
    BY <2>1, <2>2, <2>3, <2>4, <2>5 DEF Odd
<1>6. \A l \in Nat : l \in Cover(x + 1) <=> l = t \/ (t < l /\ l \in Cover(x))
  <2> TAKE l \in Nat
  <2>1. t < l => l # t /\ ~(l < t)
    BY <1>1
  <2> QED
    BY <1>2, <1>3, <1>5, <2>1
<1>7. \A l \in Nat : l < t => l \in Cover(x)
  BY <1>2, <1>5
<1>8. \A l \in Nat : l \in 0..(t - 1) <=> l < t
  BY <1>1
<1>9. 0..(t - 1) \subseteq Cover(x)
  BY <1>7, <1>8
<1>10. Cover(x + 1) = (Cover(x) \ 0..(t - 1)) \cup {t}
  <2>1. \A l \in Nat : l \in Cover(x + 1) <=> (l \in Cover(x) /\ l \notin 0..(t - 1)) \/ l = t
    <3> TAKE l \in Nat
    <3>1. l < t \/ l = t \/ t < l
      BY <1>1
    <3>2. t < l <=> ~(l < t) /\ l # t
      BY <1>1
    <3>3. l = t => l \notin Cover(x)
      BY <1>1, <1>2
    <3> QED
      BY <1>6, <1>8, <3>2, <3>3
  <2> QED
    BY <1>1, <1>4, <2>1
<1>11. t \in Cover(x + 1)
  BY <1>1, <1>6
<1>12. ASSUME NEW l \in Cover(x + 1)
       PROVE  t <= l /\ (l # t => t < l /\ l \in Cover(x) /\ At(x + 1, l) = At(x, l))
  <2>1. l \in Nat /\ (l = t \/ (t < l /\ l \in Cover(x)))
    BY <1>4, <1>6
  <2>2. t < l => t <= l
    BY <1>1, <2>1
  <2>3. l = t => t <= l
    BY <1>1
  <2> QED
    BY <1>5, <2>1, <2>2, <2>3
<1> QED
  BY <1>9, <1>10, <1>11, <1>12 DEF t

-----------------------------------------------------------------------------
(* The hashes of RFC 6962.                                                 *)

\* The hash of the j-th node at level l.
NodeHash(ds, l, j) == Rows(ds)[l][j]

\* A list of leaves that another one begins with.
Begins(pre, ds) ==
  /\ Len(pre) \in Nat /\ Len(ds) \in Nat /\ Len(pre) <= Len(ds)
  /\ \A i \in 1..Len(pre) : pre[i] = ds[i]

\* The hash of a leaf, and of a node with two children or with one.
LEMMA NodeHashDef ==
  ASSUME NEW ds, NEW last \in Nat, Len(ds) = last + 1
  PROVE  /\ \A j \in 0..last : NodeHash(ds, 0, j) = HashLeaf(ds[j + 1])
         /\ \A l \in Nat : \A j \in 0..At(last, l + 1) :
              /\ 2 * j < At(last, l) =>
                   NodeHash(ds, l + 1, j) = HashChildren(NodeHash(ds, l, 2 * j),
                                                         NodeHash(ds, l, 2 * j + 1))
              /\ ~(2 * j < At(last, l)) => NodeHash(ds, l + 1, j) = NodeHash(ds, l, 2 * j)
<1>1. Len(ds) - 1 = last
  OBVIOUS
<1>2. \A j \in 0..last : NodeHash(ds, 0, j) = HashLeaf(ds[j + 1])
  <2>1. Rows(ds)[0] = [j \in 0..last |-> HashLeaf(ds[j + 1])]
    BY <1>1, RowsDef
  <2> QED
    BY <2>1 DEF NodeHash
<1>3. ASSUME NEW l \in Nat, NEW j \in 0..At(last, l + 1)
      PROVE  NodeHash(ds, l + 1, j) =
               IF 2 * j < At(last, l)
               THEN HashChildren(NodeHash(ds, l, 2 * j), NodeHash(ds, l, 2 * j + 1))
               ELSE NodeHash(ds, l, 2 * j)
  <2>1. Rows(ds)[l + 1] =
          [i \in 0..At(Len(ds) - 1, l + 1) |->
             IF 2 * i < At(Len(ds) - 1, l)
             THEN HashChildren(Rows(ds)[l][2 * i], Rows(ds)[l][2 * i + 1])
             ELSE Rows(ds)[l][2 * i]]
    BY RowsDef, Zenon
  <2>2. Rows(ds)[l + 1] =
          [i \in 0..At(last, l + 1) |->
             IF 2 * i < At(last, l)
             THEN HashChildren(Rows(ds)[l][2 * i], Rows(ds)[l][2 * i + 1])
             ELSE Rows(ds)[l][2 * i]]
    BY <1>1, <2>1, Zenon
  <2> QED
    BY <2>2 DEF NodeHash
<1> QED
  BY <1>2, <1>3

\* The hash of the parent of the node over a leaf: with the left sibling, with
\* the right one, or alone at the end of the row.
ParentHash(ds, x, l) ==
  IF Odd(At(x, l)) THEN HashChildren(NodeHash(ds, l, At(x, l) - 1), NodeHash(ds, l, At(x, l)))
  ELSE IF At(x, l) + 1 <= At(Len(ds) - 1, l)
  THEN HashChildren(NodeHash(ds, l, At(x, l)), NodeHash(ds, l, At(x, l) + 1))
  ELSE NodeHash(ds, l, At(x, l))

\* The hash of the parent of the node over a leaf is put together that way.
LEMMA NodeHashUp ==
  ASSUME NEW ds, NEW last \in Nat, Len(ds) = last + 1, NEW x \in 0..last, NEW l \in Nat
  PROVE  NodeHash(ds, l + 1, At(x, l + 1)) = ParentHash(ds, x, l)
<1> DEFINE j == At(x, l + 1)
           i == At(x, l)
           e == At(last, l)
<1>1. x \in Nat /\ x <= last /\ l + 1 \in Nat
  OBVIOUS
<1>2. i <= e /\ j <= At(last, l + 1)
  BY <1>1, AtOrder
<1>3. i \in Nat /\ j \in Nat /\ e \in Nat /\ At(last, l + 1) \in Nat
  BY <1>1, AtFacts
<1>4. (Odd(i) => i = 2 * j + 1) /\ (~Odd(i) => i = 2 * j)
  BY <1>1, Parent
<1>5. j \in 0..At(last, l + 1)
  BY <1>2, <1>3
<1>6. /\ 2 * j < e =>
           NodeHash(ds, l + 1, j) = HashChildren(NodeHash(ds, l, 2 * j),
                                                 NodeHash(ds, l, 2 * j + 1))
      /\ ~(2 * j < e) => NodeHash(ds, l + 1, j) = NodeHash(ds, l, 2 * j)
  BY <1>5, NodeHashDef
<1>9. Len(ds) - 1 = last
  OBVIOUS
<1> HIDE DEF i, j, e
<1>7. CASE Odd(i)
  <2>1. 2 * j < e /\ i - 1 = 2 * j /\ i = 2 * j + 1
    BY <1>2, <1>3, <1>4, <1>7
  <2> QED
    BY <1>6, <1>7, <2>1 DEF i, j, ParentHash
<1>8. CASE ~Odd(i)
  <2>1. i = 2 * j /\ (i + 1 <= e <=> 2 * j < e)
    BY <1>2, <1>3, <1>4, <1>8
  <2> QED
    BY <1>6, <1>8, <1>9, <2>1 DEF i, j, e, ParentHash
<1> QED
  BY <1>7, <1>8

\* A perfect subtree has the same hash in every longer list.
LEMMA PerfectHash ==
  ASSUME NEW pre, NEW ds, Begins(pre, ds)
  PROVE  \A l, j \in Nat : j < At(Len(pre), l) => NodeHash(pre, l, j) = NodeHash(ds, l, j)
<1> DEFINE m == Len(pre)
           n == Len(ds)
           S == {l \in Nat : \A j \in Nat : j < At(m, l) => NodeHash(pre, l, j) = NodeHash(ds, l, j)}
<1>1. m \in Nat /\ n \in Nat /\ m <= n /\ \A i \in 1..m : pre[i] = ds[i]
  BY DEF Begins
<1>2. CASE m = 0
  <2>1. \A l \in Nat : At(m, l) = 0
    BY <1>2, AtBound
  <2> QED
    BY <2>1
<1>3. CASE m # 0
  <2>1. m - 1 \in Nat /\ n - 1 \in Nat /\ m - 1 <= n - 1 /\ m = (m - 1) + 1 /\ n = (n - 1) + 1
    BY <1>1, <1>3
  <2> HIDE DEF m, n
  <2>2. 0 \in S
    <3>1. ASSUME NEW j \in Nat, j < At(m, 0)
          PROVE  NodeHash(pre, 0, j) = NodeHash(ds, 0, j)
      <4>1. At(m, 0) = m
        BY <1>1, AtFacts
      <4>2. j \in 0..(m - 1) /\ j \in 0..(n - 1) /\ j + 1 \in 1..m
        BY <1>1, <2>1, <3>1, <4>1
      <4>3. NodeHash(pre, 0, j) = HashLeaf(pre[j + 1])
        BY <2>1, <4>2, NodeHashDef DEF m
      <4>4. NodeHash(ds, 0, j) = HashLeaf(ds[j + 1])
        BY <2>1, <4>2, NodeHashDef DEF n
      <4> QED
        BY <1>1, <4>2, <4>3, <4>4
    <3> QED
      BY <3>1
  <2>3. ASSUME NEW l \in S PROVE l + 1 \in S
    <3>1. l \in Nat /\ l + 1 \in Nat
      OBVIOUS
    <3>2. ASSUME NEW j \in Nat, j < At(m, l + 1)
          PROVE  NodeHash(pre, l + 1, j) = NodeHash(ds, l + 1, j)
      <4> DEFINE a == At(m, l)
                 b == At(m - 1, l)
                 c == At(n - 1, l)
      <4>1. a \in Nat /\ b \in Nat /\ c \in Nat /\ b <= c /\ At(m, l + 1) = a \div 2
            /\ At(m - 1, l + 1) = b \div 2 /\ At(n - 1, l + 1) = c \div 2
        <5>1. b <= c
          BY <2>1, <3>1, AtOrder
        <5>2. a \in Nat /\ At(m, l + 1) = a \div 2
          BY <1>1, <3>1, AtFacts
        <5>3. b \in Nat /\ At(m - 1, l + 1) = b \div 2
          BY <2>1, <3>1, AtFacts
        <5>4. c \in Nat /\ At(n - 1, l + 1) = c \div 2
          BY <2>1, <3>1, AtFacts
        <5> QED
          BY <5>1, <5>2, <5>3, <5>4
      <4>2. a = b + 1 \/ a = b
        BY <2>1, <3>1, MergesFacts
      <4>3. \A k \in Nat : k < a => NodeHash(pre, l, k) = NodeHash(ds, l, k)
        OBVIOUS
      <4> HIDE DEF a, b, c
      <4>4. 2 * j + 1 < a
        BY <3>2, <4>1
      <4>5. 2 * j < b /\ 2 * j < c
        BY <4>1, <4>2, <4>4
      <4>6. j \in 0..At(m - 1, l + 1) /\ j \in 0..At(n - 1, l + 1)
        BY <4>1, <4>5
      <4>7. NodeHash(pre, l + 1, j) = HashChildren(NodeHash(pre, l, 2 * j),
                                                   NodeHash(pre, l, 2 * j + 1))
        BY <2>1, <3>1, <4>5, <4>6, NodeHashDef DEF m, b
      <4>8. NodeHash(ds, l + 1, j) = HashChildren(NodeHash(ds, l, 2 * j),
                                                  NodeHash(ds, l, 2 * j + 1))
        BY <2>1, <3>1, <4>5, <4>6, NodeHashDef DEF n, c
      <4>9. NodeHash(pre, l, 2 * j) = NodeHash(ds, l, 2 * j)
            /\ NodeHash(pre, l, 2 * j + 1) = NodeHash(ds, l, 2 * j + 1)
        <5>1. 2 * j \in Nat /\ 2 * j + 1 \in Nat /\ 2 * j < a
          BY <4>1, <4>4
        <5> QED
          BY <4>3, <4>4, <5>1
      <4> QED
        BY <4>7, <4>8, <4>9
    <3> QED
      BY <3>1, <3>2
  <2>4. S \in SUBSET Nat
    OBVIOUS
  <2> HIDE DEF S
  <2>5. S = Nat
    BY <2>2, <2>3, <2>4, SetInduction
  <2> QED
    BY <2>5 DEF S, m
<1> QED
  BY <1>2, <1>3

\* Above the level at which a row has one node the hash is that of the tree.
LEMMA TopHash ==
  ASSUME NEW ds, NEW last \in Nat, Len(ds) = last + 1, NEW k \in Nat, At(last, k) = 0
  PROVE  \A l \in Nat : k <= l => At(last, l) = 0 /\ NodeHash(ds, l, 0) = NodeHash(ds, k, 0)
<1> DEFINE S == {l \in Nat : k <= l => At(last, l) = 0 /\ NodeHash(ds, l, 0) = NodeHash(ds, k, 0)}
<1>1. 0 \in S
  <2>1. k <= 0 => k = 0
    OBVIOUS
  <2> QED
    BY <2>1
<1>2. ASSUME NEW l \in S PROVE l + 1 \in S
  <2>1. l \in Nat /\ l + 1 \in Nat
        /\ (k <= l => At(last, l) = 0 /\ NodeHash(ds, l, 0) = NodeHash(ds, k, 0))
    OBVIOUS
  <2>2. k <= l + 1 => k <= l \/ k = l + 1
    BY <2>1
  <2>3. CASE k <= l
    <3>1. At(last, l) = 0
      BY <2>1, <2>3
    <3>2. At(last, l + 1) = 0
      BY <2>1, <3>1, AtFacts
    <3>3. 0 \in 0..At(last, l + 1) /\ 2 * 0 = 0 /\ ~(2 * 0 < At(last, l))
      BY <3>1, <3>2
    <3>4. NodeHash(ds, l + 1, 0) = NodeHash(ds, l, 0)
      BY <2>1, <3>3, NodeHashDef
    <3> QED
      BY <2>1, <2>3, <3>2, <3>4
  <2>4. CASE k = l + 1
    BY <2>1, <2>4
  <2> QED
    BY <2>1, <2>2, <2>3, <2>4
<1>3. S \in SUBSET Nat
  OBVIOUS
<1> HIDE DEF S
<1>4. S = Nat
  BY <1>1, <1>2, <1>3, SetInduction
<1> QED
  BY <1>4 DEF S

\* What is on the way up from a node over leaf x, between two levels: the
\* hashes of the siblings there are, and of no other node.  The side a sibling
\* is on may be read off another leaf m.
IsPath(ds, x, m, path, from, top) ==
  /\ \A l \in Nat : l < from => l \notin DOMAIN path
  /\ \A l \in Nat : from <= l /\ l < top =>
       /\ l \in DOMAIN path <=> Sibling(At(x, l)) <= At(Len(ds) - 1, l)
       /\ l \in DOMAIN path =>
            /\ path[l] = NodeHash(ds, l, Sibling(At(x, l)))
            /\ Odd(At(m, l)) <=> Odd(At(x, l))

\* A climb along such a path has the hash of the node over x at every level.
LEMMA ClimbHash ==
  ASSUME NEW ds, NEW last \in Nat, Len(ds) = last + 1, NEW x \in 0..last, NEW m,
         NEW path, NEW from \in Nat, NEW top \in Nat, IsPath(ds, x, m, path, from, top),
         NEW hash, hash = NodeHash(ds, from, At(x, from))
  PROVE  \A l \in Nat : from <= l /\ l <= top =>
           Climb(m, path, hash)[l] = NodeHash(ds, l, At(x, l))
<1> DEFINE up == Climb(m, path, hash)
           S  == {l \in Nat : l <= from => up[l] = hash}
           T  == {l \in Nat : from <= l /\ l <= top => up[l] = NodeHash(ds, l, At(x, l))}
<1>1. /\ up[0] = hash
      /\ \A l \in Nat : up[l + 1] = IF l \notin DOMAIN path THEN up[l]
                                    ELSE IF Odd(At(m, l)) THEN HashChildren(path[l], up[l])
                                    ELSE HashChildren(up[l], path[l])
  <2>1. up[0] = hash
    BY ONLY ClimbDef
  <2>2. ASSUME NEW l \in Nat
        PROVE  up[l + 1] = IF l \notin DOMAIN path THEN up[l]
                           ELSE IF Odd(At(m, l)) THEN HashChildren(path[l], up[l])
                           ELSE HashChildren(up[l], path[l])
    BY ONLY ClimbDef, l \in Nat
  <2> QED
    BY <2>1, <2>2
<1> HIDE DEF up
<1>2. up[from] = hash
  <2>1. 0 \in S
    BY <1>1
  <2>2. ASSUME NEW l \in S PROVE l + 1 \in S
    <3>1. l \in Nat /\ l + 1 \in Nat
      OBVIOUS
    <3>2. ASSUME l + 1 <= from PROVE up[l + 1] = hash
      <4>1. l < from /\ l <= from
        BY <3>1, <3>2
      <4>2. l \notin DOMAIN path /\ up[l] = hash
        BY <3>1, <4>1 DEF IsPath
      <4> QED
        BY <1>1, <3>1, <4>2
    <3> QED
      BY <3>1, <3>2
  <2>3. S \in SUBSET Nat
    OBVIOUS
  <2> HIDE DEF S
  <2>4. S = Nat
    BY <2>1, <2>2, <2>3, SetInduction
  <2> QED
    BY <2>4 DEF S
<1>3. Len(ds) - 1 = last
  OBVIOUS
<1>9. \A l \in Nat : NodeHash(ds, l + 1, At(x, l + 1)) = ParentHash(ds, x, l)
  BY NodeHashUp
<1>4. 0 \in T
  <2>1. from <= 0 => from = 0
    OBVIOUS
  <2> QED
    BY <1>2, <2>1
<1>5. ASSUME NEW l \in T PROVE l + 1 \in T
  <2>1. l \in Nat /\ l + 1 \in Nat
    OBVIOUS
  <2>2. CASE from = l + 1
    BY <1>2, <2>1, <2>2
  <2>3. ASSUME from <= l, l + 1 <= top PROVE up[l + 1] = NodeHash(ds, l + 1, At(x, l + 1))
    <3> DEFINE i == At(x, l)
               e == At(last, l)
    <3>1. l < top /\ l <= top
      BY <2>1, <2>3
    <3>2. up[l] = NodeHash(ds, l, i)
      BY <2>1, <2>3, <3>1
    <3>3. /\ l \in DOMAIN path <=> Sibling(i) <= e
          /\ l \in DOMAIN path => path[l] = NodeHash(ds, l, Sibling(i)) /\ (Odd(At(m, l)) <=> Odd(i))
      BY <1>3, <2>1, <2>3, <3>1 DEF IsPath
    <3>4. up[l + 1] = IF l \notin DOMAIN path THEN up[l]
                      ELSE IF Odd(At(m, l)) THEN HashChildren(path[l], up[l])
                      ELSE HashChildren(up[l], path[l])
      BY <1>1, <2>1
    <3>5. i \in Nat /\ e \in Nat /\ i <= e
      <4>1. x \in Nat /\ x <= last
        OBVIOUS
      <4>2. i \in Nat /\ e \in Nat
        BY <2>1, <4>1, AtFacts
      <4>3. i <= e
        BY <2>1, <4>1, AtOrder
      <4> QED
        BY <4>2, <4>3
    <3>6. NodeHash(ds, l + 1, At(x, l + 1)) =
            IF Odd(i) THEN HashChildren(NodeHash(ds, l, i - 1), NodeHash(ds, l, i))
            ELSE IF i + 1 <= e THEN HashChildren(NodeHash(ds, l, i), NodeHash(ds, l, i + 1))
            ELSE NodeHash(ds, l, i)
      BY <1>3, <1>9, <2>1, Zenon DEF ParentHash
    <3> HIDE DEF i, e
    <3>7. CASE Odd(i)
      <4>1. Sibling(i) = i - 1
        BY <3>7 DEF Sibling
      <4>2. Sibling(i) <= e
        BY <3>5, <4>1
      <4> QED
        BY <3>2, <3>3, <3>4, <3>6, <3>7, <4>1, <4>2
    <3>8. CASE ~Odd(i)
      <4>1. Sibling(i) = i + 1
        BY <3>8 DEF Sibling
      <4> QED
        BY <3>2, <3>3, <3>4, <3>6, <3>8, <4>1
    <3> QED
      BY <3>7, <3>8
  <2>4. from <= l + 1 => from = l + 1 \/ from <= l
    BY <2>1
  <2> QED
    BY <2>1, <2>2, <2>3, <2>4
<1>6. T \in SUBSET Nat
  OBVIOUS
<1> HIDE DEF T
<1>7. T = Nat
  BY <1>4, <1>5, <1>6, SetInduction
<1> QED
  BY <1>7 DEF T, up

\* The hash of the last perfect subtree at a level of n leaves.
LastPerfect(ds, n, l) == NodeHash(ds, l, At(n, l) - 1)

\* Perfect subtrees hashed together give the nodes of the right border.
LEMMA BorderHash ==
  ASSUME NEW ds, NEW last \in Nat, Len(ds) = last + 1, NEW top \in Nat, Merges(last) < top,
         NEW hashes, DOMAIN hashes = {l \in Cover(last + 1) : l < top},
         \A l \in DOMAIN hashes : hashes[l] = LastPerfect(ds, last + 1, l)
  PROVE  Border(last + 1, hashes)[top] = NodeHash(ds, top, At(last, top))
<1> DEFINE n    == last + 1
           t    == Merges(last)
           path == [l \in DOMAIN hashes \ {t} |-> hashes[l]]
<1>1. /\ t \in Nat /\ t <= last /\ ~Odd(At(last, t))
      /\ \A l \in Nat : At(n, l) = IF l <= t THEN At(last, l) + 1 ELSE At(last, l)
  BY MergesFacts
<1>2. /\ t \in Cover(n) /\ \A l \in Cover(n) : t <= l
  BY CoverGrows
<1>3. /\ \A l \in Nat : l \in Cover(n) <=> Odd(At(n, l))
      /\ \A l \in Cover(n) : l \in Nat
  <2>1. n \in Nat
    OBVIOUS
  <2> QED
    BY <2>1, CoverFacts
<1>4. Len(ds) - 1 = last /\ last \in 0..last
  OBVIOUS
<1>5. Min(DOMAIN hashes) = t
  <2>1. t \in DOMAIN hashes /\ DOMAIN hashes \in SUBSET Nat
    BY <1>2, <1>3
  <2>2. Min(DOMAIN hashes) \in DOMAIN hashes /\ \A j \in DOMAIN hashes : Min(DOMAIN hashes) <= j
    BY <2>1, MinOfNumbers, Zenon
  <2>3. t <= Min(DOMAIN hashes) /\ Min(DOMAIN hashes) <= t /\ Min(DOMAIN hashes) \in Nat
    BY <1>2, <2>1, <2>2
  <2> QED
    BY <1>1, <2>3
<1> HIDE DEF n, t
<1>6. IsPath(ds, last, n, path, t, top)
  <2>1. ASSUME NEW l \in Nat, l < t PROVE l \notin DOMAIN path
    BY <1>1, <1>2, <2>1 DEF n
  <2>2. ASSUME NEW l \in Nat, t <= l, l < top
        PROVE  /\ l \in DOMAIN path <=> Sibling(At(last, l)) <= At(last, l)
               /\ l \in DOMAIN path =>
                    /\ path[l] = NodeHash(ds, l, Sibling(At(last, l)))
                    /\ Odd(At(n, l)) <=> Odd(At(last, l))
    <3>1. At(last, l) \in Nat
      BY AtFacts
    <3>2. Sibling(At(last, l)) <= At(last, l) <=> Odd(At(last, l))
      BY <3>1 DEF Sibling
    <3>3. CASE l = t
      BY <1>1, <3>2, <3>3
    <3>4. CASE l # t
      <4>1. At(n, l) = At(last, l)
        BY <1>1, <2>2, <3>4
      <4>2. l \in DOMAIN path <=> Odd(At(last, l))
        BY <1>3, <2>2, <3>4, <4>1 DEF n
      <4>3. ASSUME l \in DOMAIN path PROVE path[l] = NodeHash(ds, l, Sibling(At(last, l)))
        <5>1. path[l] = LastPerfect(ds, n, l)
          BY <4>3 DEF n
        <5>2. Sibling(At(last, l)) = At(last, l) - 1
          BY <4>2, <4>3 DEF Sibling
        <5> QED
          BY <4>1, <5>1, <5>2 DEF LastPerfect
      <4> QED
        BY <3>2, <4>1, <4>2, <4>3
    <3> QED
      BY <3>3, <3>4
  <2> HIDE DEF path
  <2> QED
    BY <1>4, <2>1, <2>2 DEF IsPath
<1>7. hashes[t] = NodeHash(ds, t, At(last, t))
  <2>1. hashes[t] = LastPerfect(ds, n, t)
    BY <1>2 DEF n, t
  <2>2. At(last, t) \in Nat /\ At(n, t) = At(last, t) + 1
    BY <1>1, AtFacts
  <2>3. At(n, t) - 1 = At(last, t)
    BY <2>2
  <2> QED
    BY <2>1, <2>3 DEF LastPerfect
<1> HIDE DEF path
<1>8. Climb(n, path, hashes[t])[top] = NodeHash(ds, top, At(last, top))
  <2>1. t <= top /\ top <= top
    BY <1>1 DEF t
  <2> QED
    BY <1>1, <1>4, <1>6, <1>7, <2>1, ClimbHash
<1> QED
  BY <1>5, <1>8, Zenon DEF Border, n, path

\* Indexes are natural numbers.
LEMMA AtNat == \A x, l \in Nat : At(x, l) \in Nat
BY AtFacts

-----------------------------------------------------------------------------
(* The accumulator.                                                        *)

\* The hashes of the compact range over n leaves.
Compact(ds, n) == [l \in Cover(n) |-> LastPerfect(ds, n, l)]

\* What the accumulator over the first leaves of a list keeps, when it was
\* continued behind the first "off" of them: the hashes of the compact range;
\* in the map only nodes of the tree, the perfect ones with their hash; and
\* all perfect nodes that are not under the frontier, and those of the frontier.
Accumulates(a, ds, off) ==
  /\ a = [size |-> a.size, hashes |-> a.hashes, nodes |-> a.nodes]
  /\ Len(ds) \in Nat /\ a.size \in Nat /\ off \in Nat /\ off <= a.size /\ a.size <= Len(ds)
  /\ a.hashes = Compact(ds, a.size)
  /\ \A id \in DOMAIN a.nodes :
       /\ id \in (0..a.size) \X (0..a.size)
       /\ IsComplete(a.size, id) => a.nodes[id] = NodeHash(ds, id[1], id[2])
  /\ \A l, j \in Nat : At(off, l) <= j /\ j < At(a.size, l) => <<l, j>> \in DOMAIN a.nodes
  /\ \A l \in Cover(off) : CoverNode(off, l) \in DOMAIN a.nodes

\* The nodes an append visits have their hash in the tree.
LEMMA AppendHash ==
  ASSUME NEW ds, Len(ds) \in Nat, NEW x \in Nat, x < Len(ds),
         NEW hashes, hashes = Compact(ds, x)
  PROVE  \A l \in Nat : l <= Merges(x) =>
           Climb(x, [k \in 0..(Merges(x) - 1) |-> hashes[k]], HashLeaf(ds[x + 1]))[l]
             = NodeHash(ds, l, At(x, l))
<1> DEFINE t    == Merges(x)
           last == Len(ds) - 1
           path == [k \in 0..(t - 1) |-> hashes[k]]
<1>1. t \in Nat /\ \A l \in Nat : l < t => Odd(At(x, l))
  BY MergesFacts
<1>2. last \in Nat /\ Len(ds) = last + 1 /\ x \in 0..last /\ x <= last
  OBVIOUS
<1> HIDE DEF t, last
<1>3. IsPath(ds, x, x, path, 0, t)
  <2>1. ASSUME NEW l \in Nat, l < t
        PROVE  /\ l \in DOMAIN path
               /\ Sibling(At(x, l)) <= At(last, l)
               /\ path[l] = NodeHash(ds, l, Sibling(At(x, l)))
    <3>1. Odd(At(x, l)) /\ At(x, l) \in Nat /\ At(last, l) \in Nat /\ At(x, l) <= At(last, l)
      <4>1. At(x, l) <= At(last, l)
        BY <1>2, AtOrder
      <4>2. At(x, l) \in Nat /\ At(last, l) \in Nat
        BY <1>2, AtFacts
      <4> QED
        BY <1>1, <2>1, <4>1, <4>2
    <3>2. Sibling(At(x, l)) = At(x, l) - 1
      BY <3>1 DEF Sibling
    <3>3. l \in Cover(x)
      BY <3>1, CoverFacts
    <3>4. hashes[l] = NodeHash(ds, l, At(x, l) - 1)
      BY <3>3 DEF Compact, LastPerfect
    <3>5. l \in 0..(t - 1)
      BY <1>1, <2>1
    <3> QED
      BY <3>1, <3>2, <3>4, <3>5
  <2> HIDE DEF path
  <2> QED
    BY <2>1 DEF IsPath, last
<1>4. HashLeaf(ds[x + 1]) = NodeHash(ds, 0, At(x, 0))
  <2>1. At(x, 0) = x
    BY AtFacts
  <2> QED
    BY <1>2, <2>1, NodeHashDef
<1> HIDE DEF path
<1>5. \A l \in Nat : 0 <= l /\ l <= t =>
        Climb(x, path, HashLeaf(ds[x + 1]))[l] = NodeHash(ds, l, At(x, l))
  <2>1. 0 \in Nat
    OBVIOUS
  <2> QED
    BY <1>1, <1>2, <1>3, <1>4, <2>1, ClimbHash
<1>6. \A l \in Nat : 0 <= l
  OBVIOUS
<1> QED
  BY <1>5, <1>6, Zenon DEF path, t

\* An append of the next leaf.
LEMMA AppendAccumulates ==
  ASSUME NEW a, NEW ds, NEW off, Accumulates(a, ds, off), a.size < Len(ds)
  PROVE  /\ Accumulates(AppendLeaf(a, ds[a.size + 1]), ds, off)
         /\ AppendLeaf(a, ds[a.size + 1]).size = a.size + 1
<1> DEFINE x == a.size
           n == x + 1
           t == Merges(x)
           merged == 0..(t - 1)
           hash == Climb(x, [k \in merged |-> a.hashes[k]], HashLeaf(ds[n]))
           hs == [l \in (DOMAIN a.hashes \ merged) \cup {t} |->
                    IF l = t THEN hash[t] ELSE a.hashes[l]]
           seen == [id \in {<<l, At(x, l)>> : l \in 0..t} |-> hash[id[1]]]
           nodes == Record(a.nodes, seen)
           b == AppendLeaf(a, ds[n])
<1>0. b = [size |-> n, hashes |-> hs, nodes |-> nodes]
  BY Zenon DEF AppendLeaf
<1>1. /\ x \in Nat /\ n \in Nat /\ off \in Nat /\ off <= x /\ Len(ds) \in Nat /\ n <= Len(ds) /\ x < Len(ds)
      /\ a.hashes = Compact(ds, x)
  BY DEF Accumulates
<1>2. /\ t \in Nat /\ t <= x
      /\ \A l \in Nat : At(n, l) = IF l <= t THEN At(x, l) + 1 ELSE At(x, l)
  <2> HIDE DEF x
  <2>1. Merges(x) \in 0..x
        /\ \A l \in Nat : At(x + 1, l) = IF l <= Merges(x) THEN At(x, l) + 1 ELSE At(x, l)
    BY <1>1, MergesFacts
  <2> QED
    BY <1>1, <2>1
<1>3. \A l \in Nat : l <= t => hash[l] = NodeHash(ds, l, At(x, l))
  <2> HIDE DEF x
  <2> DEFINE hh == a.hashes
  <2>1. hh = Compact(ds, x)
    BY <1>1
  <2> HIDE DEF hh
  <2>2. \A l \in Nat : l <= Merges(x) =>
           Climb(x, [k \in 0..(Merges(x) - 1) |-> hh[k]], HashLeaf(ds[x + 1]))[l]
             = NodeHash(ds, l, At(x, l))
    BY <1>1, <2>1, AppendHash
  <2> QED
    BY <2>2 DEF hh
<1>4. /\ Cover(n) = (Cover(x) \ merged) \cup {t}
      /\ \A l \in Cover(n) : l # t => l \in Cover(x) /\ At(n, l) = At(x, l)
  BY <1>1, CoverGrows
<1>5. DOMAIN a.hashes = Cover(x)
  BY <1>1 DEF Compact
<1> HIDE DEF hash, b
<1>6. hs = Compact(ds, n)
  <2>1. DOMAIN hs = Cover(n)
    BY <1>4, <1>5
  <2>2. hs[t] = LastPerfect(ds, n, t)
    <3>1. At(n, t) - 1 = At(x, t)
      <4>1. At(x, t) \in Nat /\ At(n, t) = At(x, t) + 1
        <5> HIDE DEF x, n, t
        <5>1. t <= t
          BY <1>2
        <5> QED
          BY <1>1, <1>2, <5>1, AtNat
      <4> QED
        BY <4>1
    <3>2. hs[t] = NodeHash(ds, t, At(x, t))
      BY <1>2, <1>3
    <3> QED
      BY <3>1, <3>2 DEF LastPerfect
  <2>3. ASSUME NEW l \in Cover(n), l # t PROVE hs[l] = LastPerfect(ds, n, l)
    <3>1. l \in Cover(x) /\ At(n, l) = At(x, l)
      BY <1>4, <2>3
    <3>2. hs[l] = a.hashes[l]
      BY <2>1, <2>3
    <3>3. a.hashes[l] = LastPerfect(ds, x, l)
      BY <1>1, <3>1 DEF Compact
    <3> QED
      BY <3>1, <3>2, <3>3 DEF LastPerfect
  <2>4. hs = [l \in DOMAIN hs |-> hs[l]]
    OBVIOUS
  <2> HIDE DEF hs
  <2> QED
    BY <2>1, <2>2, <2>3, <2>4 DEF Compact
<1>7. \A l \in 0..t : seen[<<l, At(x, l)>>] = hash[l] /\ <<l, At(x, l)>> \in DOMAIN seen
  OBVIOUS
<1>8. \A id \in DOMAIN seen : \E l \in 0..t : id = <<l, At(x, l)>>
  OBVIOUS
<1>9. /\ DOMAIN nodes = DOMAIN a.nodes \cup DOMAIN seen
      /\ \A id \in DOMAIN nodes : nodes[id] = IF id \in DOMAIN seen THEN seen[id] ELSE a.nodes[id]
  BY DEF Record
<1> HIDE DEF hs, nodes, seen
<1>10. ASSUME NEW id \in DOMAIN nodes
       PROVE  /\ id \in (0..n) \X (0..n)
              /\ IsComplete(n, id) => nodes[id] = NodeHash(ds, id[1], id[2])
  <2>1. CASE id \in DOMAIN seen
    <3>1. PICK l \in 0..t : id = <<l, At(x, l)>>
      BY <1>8, <2>1
    <3>2. l \in Nat /\ l <= t /\ l <= n /\ At(x, l) \in Nat /\ At(x, l) <= x
      <4> HIDE DEF x, n, t
      <4>1. l \in Nat /\ l <= t /\ l <= x
        BY <1>1, <1>2
      <4>2. At(x, l) \in Nat /\ At(x, l) <= x
        BY <1>1, <4>1, AtNat, AtBound
      <4>3. x <= n
        BY <1>1 DEF n
      <4> QED
        BY <1>1, <4>1, <4>2, <4>3
    <3>3. nodes[id] = NodeHash(ds, l, At(x, l))
      BY <1>3, <1>7, <1>9, <2>1, <3>1, <3>2
    <3>4. id[1] = l /\ id[2] = At(x, l) /\ l \in 0..n /\ At(x, l) \in 0..n
      BY <1>1, <3>1, <3>2
    <3> QED
      BY <3>1, <3>3, <3>4
  <2>2. CASE id \notin DOMAIN seen
    <3>1. id \in DOMAIN a.nodes /\ nodes[id] = a.nodes[id]
      BY <1>9, <2>2
    <3>2. /\ id \in (0..x) \X (0..x)
          /\ IsComplete(x, id) => a.nodes[id] = NodeHash(ds, id[1], id[2])
      BY <3>1 DEF Accumulates
    <3>3. id[1] \in 0..x /\ id[2] \in 0..x /\ id = <<id[1], id[2]>>
      BY <3>2
    <3>4. id \in (0..n) \X (0..n)
      BY <1>1, <3>3
    <3>5. ASSUME IsComplete(n, id) PROVE IsComplete(x, id)
      <4>1. id[1] \in Nat /\ id[2] \in Nat /\ At(x, id[1]) \in Nat
        <5> HIDE DEF x
        <5>1. x \in Nat /\ id[1] \in 0..x /\ id[2] \in 0..x
          BY <1>1, <3>3
        <5>2. id[1] \in Nat /\ id[2] \in Nat
          BY <5>1
        <5> QED
          BY <5>1, <5>2, AtNat
      <4>2. id[2] < At(n, id[1])
        BY <3>5 DEF IsComplete
      <4>3. CASE id[1] <= t
        <5>1. id[1] \in 0..t
          BY <1>2, <4>1, <4>3
        <5>2. id[2] # At(x, id[1])
          BY <1>7, <2>2, <3>3, <5>1
        <5>3. At(n, id[1]) = At(x, id[1]) + 1
          BY <1>2, <4>1, <4>3
        <5> QED
          BY <4>1, <4>2, <5>2, <5>3 DEF IsComplete
      <4>4. CASE ~(id[1] <= t)
        BY <1>2, <4>1, <4>2, <4>4 DEF IsComplete
      <4> QED
        BY <4>3, <4>4
    <3> QED
      BY <3>1, <3>2, <3>4, <3>5
  <2> QED
    BY <2>1, <2>2
<1>11. ASSUME NEW l \in Nat, NEW j \in Nat, At(off, l) <= j, j < At(n, l)
       PROVE  <<l, j>> \in DOMAIN nodes
  <2>1. At(x, l) \in Nat
    BY <1>1, AtFacts
  <2>2. CASE j < At(x, l)
    <3>1. <<l, j>> \in DOMAIN a.nodes
      BY <1>11, <2>2 DEF Accumulates
    <3> QED
      BY <1>9, <3>1
  <2>3. CASE ~(j < At(x, l))
    <3>1. l <= t /\ j = At(x, l)
      BY <1>2, <1>11, <2>1, <2>3
    <3>2. l \in 0..t
      BY <1>2, <3>1
    <3> QED
      BY <1>7, <1>9, <3>1, <3>2
  <2> QED
    BY <2>2, <2>3
<1>12. \A l \in Cover(off) : CoverNode(off, l) \in DOMAIN nodes
  BY <1>9 DEF Accumulates
<1>13. b.size = n /\ b.hashes = hs /\ b.nodes = nodes
  BY <1>0
<1>14. off <= n
  BY <1>1
<1> HIDE DEF n
<1>15. Accumulates(b, ds, off)
  <2>1. b = [size |-> b.size, hashes |-> b.hashes, nodes |-> b.nodes]
    BY <1>0, <1>13
  <2> QED
    BY <1>1, <1>6, <1>10, <1>11, <1>12, <1>13, <1>14, <2>1 DEF Accumulates
<1> QED
  BY <1>13, <1>15 DEF b, n

\* The root leaves nodes of the border in the map, never a perfect one.
LEMMA AfterRootAccumulates ==
  ASSUME NEW a, NEW ds, NEW off, Accumulates(a, ds, off)
  PROVE  Accumulates(AfterRoot(a), ds, off) /\ AfterRoot(a).size = a.size
         /\ AfterRoot(a).hashes = a.hashes
<1> DEFINE n == a.size
           seen == BorderNodes(a)
           nodes == Record(a.nodes, seen)
           b == AfterRoot(a)
<1>1. CASE a.size = 0
  BY <1>1 DEF AfterRoot
<1>2. CASE a.size # 0
  <2>1. /\ n \in Nat /\ off \in Nat /\ off <= n /\ Len(ds) \in Nat /\ n <= Len(ds)
        /\ a = [size |-> n, hashes |-> a.hashes, nodes |-> a.nodes]
        /\ a.hashes = Compact(ds, n)
    BY DEF Accumulates
  <2>2. b = [size |-> n, hashes |-> a.hashes, nodes |-> nodes]
    <3>1. b = [a EXCEPT !.nodes = nodes]
      BY <1>2 DEF AfterRoot
    <3> HIDE DEF b, nodes
    <3> QED
      BY <2>1, <3>1
  <2>3. ASSUME NEW id \in DOMAIN seen
        PROVE  id \in (0..n) \X (0..n) /\ ~IsComplete(n, id)
    <3>1. PICK l \in Cover(n) : id = <<l + 1, At(n, l + 1)>>
      BY <2>1 DEF BorderNodes, Compact
    <3> HIDE DEF n
    <3>2. l \in Nat /\ l < n
      BY <2>1, CoverFacts
    <3>3. l + 1 \in Nat /\ l + 1 \in 0..n
      BY <2>1, <3>2
    <3>4. At(n, l + 1) \in Nat /\ At(n, l + 1) <= n
      BY <2>1, <3>3, AtNat, AtBound
    <3>5. At(n, l + 1) \in 0..n /\ ~(At(n, l + 1) < At(n, l + 1))
      BY <2>1, <3>4
    <3> QED
      BY <3>1, <3>3, <3>5 DEF IsComplete
  <2>4. /\ DOMAIN nodes = DOMAIN a.nodes \cup DOMAIN seen
        /\ \A id \in DOMAIN nodes : nodes[id] = IF id \in DOMAIN seen THEN seen[id] ELSE a.nodes[id]
    BY DEF Record
  <2>5. b.size = n /\ b.hashes = a.hashes /\ b.nodes = nodes
    BY <2>2
  <2> HIDE DEF nodes, seen, b
  <2>6. ASSUME NEW id \in DOMAIN nodes
        PROVE  /\ id \in (0..n) \X (0..n)
               /\ IsComplete(n, id) => nodes[id] = NodeHash(ds, id[1], id[2])
    <3>1. CASE id \in DOMAIN seen
      BY <2>3, <3>1
    <3>2. CASE id \notin DOMAIN seen
      BY <2>4, <3>2 DEF Accumulates
    <3> QED
      BY <3>1, <3>2
  <2>7. \A l, j \in Nat : At(off, l) <= j /\ j < At(n, l) => <<l, j>> \in DOMAIN nodes
    BY <2>4 DEF Accumulates
  <2>8. \A l \in Cover(off) : CoverNode(off, l) \in DOMAIN nodes
    BY <2>4 DEF Accumulates
  <2>9. b = [size |-> b.size, hashes |-> b.hashes, nodes |-> b.nodes]
    BY <2>2, <2>5
  <2> HIDE DEF n
  <2>10. Accumulates(b, ds, off)
    BY <2>1, <2>5, <2>6, <2>7, <2>8, <2>9 DEF Accumulates
  <2> QED
    BY <2>5, <2>10 DEF b, n
<1> QED
  BY <1>1, <1>2

\* The empty tree has no subtree.
LEMMA NoCover == Cover(0) = {}
<1>1. 0 \in Nat /\ \A l \in Nat : ~(l < 0)
  OBVIOUS
<1> QED
  BY <1>1, CoverFacts

\* The empty accumulator.
LEMMA NewAccumulates ==
  ASSUME NEW ds, Len(ds) \in Nat
  PROVE  Accumulates(New, ds, 0) /\ New.hashes = Compact(ds, 0)
<1>1. << >> = Compact(ds, 0)
  <2>1. Compact(ds, 0) = [l \in {} |-> LastPerfect(ds, 0, l)]
    BY NoCover DEF Compact
  <2> QED
    BY <2>1
<1>2. \A l \in Nat : At(0, l) = 0
  BY AtBound
<1>3. New = [size |-> 0, hashes |-> << >>, nodes |-> << >>] /\ DOMAIN New.nodes = {}
  BY DEF New
<1>4. \A l, j \in Nat : ~(j < At(0, l))
  BY <1>2
<1> QED
  BY <1>1, <1>3, <1>4, NoCover DEF Accumulates

\* A longer list than the one that was appended.
LEMMA RestrictAccumulates ==
  ASSUME NEW a, NEW ds, NEW pre, NEW off, Accumulates(a, ds, off), Begins(pre, ds),
         Len(pre) = a.size
  PROVE  Accumulates(a, pre, off)
<1> DEFINE n == a.size
<1>1. n \in Nat /\ n = Len(pre)
  BY DEF Accumulates
<1>2. \A l, j \in Nat : j < At(n, l) => NodeHash(pre, l, j) = NodeHash(ds, l, j)
  BY <1>1, PerfectHash
<1>3. Compact(pre, n) = Compact(ds, n)
  <2>1. ASSUME NEW l \in Cover(n) PROVE LastPerfect(pre, n, l) = LastPerfect(ds, n, l)
    <3>1. l \in Nat /\ At(n, l) > 0
      BY <1>1, CoverFacts
    <3>2. At(n, l) \in Nat
      BY <1>1, <3>1, AtNat
    <3>3. At(n, l) - 1 \in Nat /\ At(n, l) - 1 < At(n, l)
      BY <3>1, <3>2
    <3> QED
      BY <1>2, <3>1, <3>3 DEF LastPerfect
  <2> QED
    BY <2>1 DEF Compact
<1>4. ASSUME NEW id \in DOMAIN a.nodes, IsComplete(n, id)
      PROVE  a.nodes[id] = NodeHash(pre, id[1], id[2])
  <2>1. id \in (0..n) \X (0..n) /\ a.nodes[id] = NodeHash(ds, id[1], id[2])
    BY <1>4 DEF Accumulates
  <2>2. id[1] \in Nat /\ id[2] \in Nat
    BY <1>1, <2>1
  <2> QED
    BY <1>2, <1>4, <2>1, <2>2 DEF IsComplete
<1> HIDE DEF n
<1> QED
  BY <1>1, <1>3, <1>4 DEF Accumulates, n

\* The root is the hash of RFC 6962.
LEMMA RootHash ==
  ASSUME NEW a, NEW ds, NEW off, Accumulates(a, ds, off), Len(ds) = a.size,
         ds = << >> <=> Len(ds) = 0
  PROVE  Root(a) = TreeHash(ds)
<1> DEFINE n == a.size
           last == n - 1
<1>1. n \in Nat /\ Len(ds) = n /\ a.hashes = Compact(ds, n)
  BY DEF Accumulates
<1>2. CASE n = 0
  BY <1>1, <1>2 DEF Root, TreeHash
<1>3. CASE n # 0
  <2>1. last \in Nat /\ n = last + 1
    BY <1>1, <1>3
  <2>2. Root(a) = Border(n, a.hashes)[n] /\ TreeHash(ds) = NodeHash(ds, n, 0)
    BY <1>1, <1>3 DEF Root, TreeHash, NodeHash
  <2>3. Merges(last) < n
    BY <2>1, MergesFacts
  <2>4. Cover(n) = {l \in Cover(n) : l < n}
    BY <1>1, CoverFacts
  <2>5. At(last, n) = 0
    <3>1. last <= n
      BY <2>1
    <3> QED
      BY <1>1, <2>1, <3>1, AtBound
  <2> DEFINE hs == a.hashes
  <2>6. DOMAIN hs = {l \in Cover(n) : l < n} /\ \A l \in DOMAIN hs : hs[l] = LastPerfect(ds, n, l)
    BY <1>1, <2>4 DEF Compact
  <2> HIDE DEF last, hs, n
  <2>7. Border(n, hs)[n] = NodeHash(ds, n, At(last, n))
    BY <1>1, <2>1, <2>3, <2>6, BorderHash
  <2> QED
    BY <2>2, <2>5, <2>7 DEF hs, n
<1> QED
  BY <1>2, <1>3

\* Quotient and remainder.
LEMMA Division ==
  ASSUME NEW s \in Nat, NEW w \in Nat, w > 0
  PROVE  /\ s \div w \in Nat /\ s % w \in Nat /\ s % w < w
         /\ s = w * (s \div w) + (s % w)
OBVIOUS

\* A quotient is known by its remainder.
LEMMA Quotient ==
  ASSUME NEW q \in Nat, NEW r \in Nat, NEW w \in Nat, r < w
  PROVE  (w * q + r) \div w = q /\ (w * q + r) % w = r
<1> DEFINE s == w * q + r
           p == s \div w
           e == s % w
<1>1. w > 0 /\ s \in Nat
  OBVIOUS
<1>2. p \in Nat /\ e \in Nat /\ e < w /\ s = w * p + e
  BY <1>1, Division
<1>3. w * q + r = w * p + e
  BY <1>2
<1> HIDE DEF p, e, s
<1>4. p = q
  <2>1. CASE p < q
    <3>1. q = p + (q - p) /\ q - p \in Nat /\ q - p >= 1
      BY <1>2, <2>1
    <3>2. w * q = w * p + w * (q - p)
      BY <1>2, <3>1
    <3>3. w * (q - p) >= w
      BY <3>1
    <3>4. w * p \in Nat /\ w * q \in Nat /\ w * (q - p) \in Nat
      BY <1>2, <3>1
    <3> HIDE <2>1
    <3> QED
      BY <1>2, <1>3, <3>2, <3>3, <3>4
  <2>2. CASE q < p
    <3>1. p = q + (p - q) /\ p - q \in Nat /\ p - q >= 1
      BY <1>2, <2>2
    <3>2. w * p = w * q + w * (p - q)
      BY <1>2, <3>1
    <3>3. w * (p - q) >= w
      BY <3>1
    <3>4. w * p \in Nat /\ w * q \in Nat /\ w * (p - q) \in Nat
      BY <1>2, <3>1
    <3> QED
      BY <1>2, <1>3, <3>2, <3>3, <3>4
  <2> QED
    BY <1>2, <2>1, <2>2
<1>5. e = r
  BY <1>2, <1>3, <1>4
<1> QED
  BY <1>4, <1>5 DEF p, e, s

\* Where the subtrees larger than one of the frontier end.
LEMMA FrontierBegin ==
  ASSUME NEW s \in Nat, NEW w \in Nat, w > 0, Odd(s \div w),
         NEW begin, begin = s - (s % (2 * w))
  PROVE  /\ begin \in Nat /\ begin % w = 0 /\ begin + w <= s /\ s < begin + 2 * w
         /\ begin \div w = (s \div w) - 1
<1> DEFINE q == s \div w
           r == s % w
<1>1. q \in Nat /\ r \in Nat /\ r < w /\ s = w * q + r
  BY Division
<1>2. PICK h \in Nat : q = 2 * h + 1
  BY <1>1 DEF Odd
<1> HIDE DEF q, r
<1>3. w * q = (2 * w) * h + w
  BY <1>1, <1>2
<1>4. s = (2 * w) * h + (w + r) /\ w + r \in Nat /\ w + r < 2 * w /\ 2 * w \in Nat
  BY <1>1, <1>3
<1>5. s % (2 * w) = w + r
  <2>1. ((2 * w) * h + (w + r)) % (2 * w) = w + r
    BY ONLY <1>4, h \in Nat, Quotient
  <2> QED
    BY <1>4, <2>1
<1>6. begin = (2 * w) * h
  <2>1. (2 * w) * h \in Nat
    BY <1>4
  <2> QED
    BY <1>1, <1>4, <1>5, <2>1
<1>7. begin = w * (2 * h) + 0 /\ 2 * h \in Nat
  BY <1>6
<1>8. begin \div w = 2 * h /\ begin % w = 0
  <2>1. \A q1, r1 \in Nat : r1 < w => (w * q1 + r1) \div w = q1 /\ (w * q1 + r1) % w = r1
    BY Quotient
  <2>2. \A q1, r1 \in Nat :
          r1 = 0 /\ r1 < w /\ begin = w * q1 + r1 => begin \div w = q1 /\ begin % w = r1
    BY <2>1
  <2>3. 0 < w /\ 0 \in Nat
    OBVIOUS
  <2> QED
    BY ONLY <1>7, <2>2, <2>3, Zenon
<1>9. begin \in Nat
  BY <1>7
<1>10. begin + w <= s /\ s < begin + 2 * w
  BY <1>1, <1>4, <1>6, <1>9
<1> QED
  BY <1>2, <1>8, <1>9, <1>10 DEF q

\* The node of each hash of a frontier is the perfect subtree of its level.
LEMMA FrontierNodeIs ==
  ASSUME NEW n \in Nat, NEW l \in Cover(n)
  PROVE  FrontierNode(n, l) = CoverNode(n, l)
<1> DEFINE w     == Width[l]
           begin == n - (n % Width[l + 1])
           D     == {k \in 0..n : begin % Width[k] = 0 /\ begin + Width[k] <= n}
<1>1. l \in Nat /\ l < n /\ Odd(n \div w)
  BY CoverFacts DEF At
<1>2. w \in Nat /\ w > 0 /\ Width[l + 1] = 2 * w
  BY <1>1, WidthDef, WidthFacts
<1>3. begin = n - (n % (2 * w))
  BY <1>2
<1> HIDE DEF begin
<1>4. /\ begin \in Nat /\ begin % w = 0 /\ begin + w <= n /\ n < begin + 2 * w
      /\ begin \div w = (n \div w) - 1
  <2> HIDE DEF w
  <2> QED
    BY <1>1, <1>2, <1>3, FrontierBegin
<1>5. l \in D
  BY <1>1, <1>4
<1>6. ASSUME NEW k \in D PROVE k <= l
  <2>1. k \in Nat /\ begin + Width[k] <= n /\ Width[k] \in Nat
    BY WidthFacts
  <2>2. CASE l < k
    <3>1. l + 1 \in Nat /\ l + 1 <= k
      BY <1>1, <2>1, <2>2
    <3>2. Width[l + 1] <= Width[k]
      BY <2>1, <3>1, WidthFacts
    <3> HIDE DEF w
    <3> QED
      BY <1>2, <1>4, <2>1, <3>2
  <2> QED
    BY <1>1, <2>1, <2>2
<1>7. Max(D) = l
  <2>1. Max(D) \in D /\ \A k \in D : Max(D) >= k
    <3>1. \A k \in D : l >= k
      <4> TAKE k \in D
      <4>1. k \in Nat
        OBVIOUS
      <4> HIDE DEF D
      <4> QED
        BY <1>1, <1>6, <4>1
    <3> HIDE DEF D
    <3> QED
      BY <1>5, <3>1 DEF Max
  <2>2. Max(D) \in Nat
    BY <2>1
  <2> HIDE DEF D
  <2>3. Max(D) <= l /\ Max(D) >= l
    BY <1>5, <1>6, <2>1
  <2> QED
    BY <1>1, <2>2, <2>3
<1>8. LargestAlignedSubtree(begin, n) = l
  BY <1>7 DEF LargestAlignedSubtree
<1>9. FrontierNode(n, l) = <<l, begin \div w>>
  BY <1>8 DEF FrontierNode, begin
<1> QED
  BY <1>4, <1>9 DEF CoverNode, At

\* A frontier has what the accumulator continued from it must keep.
LEMMA FrontierAccumulates ==
  ASSUME NEW ds, Len(ds) \in Nat, NEW n \in Nat, n <= Len(ds)
  PROVE  Accumulates(NewFromFrontier(n, Compact(ds, n)), ds, n)
<1> DEFINE hs == Compact(ds, n)
           a  == NewFromFrontier(n, hs)
           nodes == a.nodes
<1>1. DOMAIN hs = Cover(n) /\ \A l \in Cover(n) : hs[l] = NodeHash(ds, l, At(n, l) - 1)
  BY DEF Compact, LastPerfect
<1>2. \A l \in DOMAIN hs : FrontierNode(n, l) = <<l, At(n, l) - 1>>
  BY <1>1, FrontierNodeIs DEF CoverNode
<1>3. a = [size |-> n, hashes |-> hs, nodes |-> nodes] /\ a.size = n /\ a.hashes = hs
  BY DEF NewFromFrontier
<1>4. nodes = [id \in {FrontierNode(n, l) : l \in DOMAIN hs} |->
                hs[CHOOSE l \in DOMAIN hs : FrontierNode(n, l) = id]]
  BY DEF NewFromFrontier
<1> HIDE DEF hs, nodes, a
<1>5. \A id \in DOMAIN nodes : \E l \in Cover(n) : id = <<l, At(n, l) - 1>> /\ nodes[id] = hs[l]
  <2> TAKE id \in DOMAIN nodes
  <2>1. PICK l \in DOMAIN hs : id = FrontierNode(n, l)
    BY <1>4
  <2>2. PICK k : k = CHOOSE i \in DOMAIN hs : FrontierNode(n, i) = id
    OBVIOUS
  <2>3. k \in DOMAIN hs /\ FrontierNode(n, k) = id
    BY <2>1, <2>2, Zenon
  <2>4. k = l
    BY <1>2, <2>1, <2>3
  <2>5. nodes[id] = hs[k]
    BY <1>4, <2>2
  <2> QED
    BY <1>1, <1>2, <2>1, <2>4, <2>5
<1>6. \A l \in Cover(n) : CoverNode(n, l) \in DOMAIN nodes
  <2>1. DOMAIN nodes = {FrontierNode(n, l) : l \in DOMAIN hs}
    BY <1>4
  <2> QED
    BY <1>1, <1>2, <2>1 DEF CoverNode
<1>7. ASSUME NEW id \in DOMAIN nodes
      PROVE  /\ id \in (0..n) \X (0..n)
             /\ nodes[id] = NodeHash(ds, id[1], id[2])
  <2>1. PICK l \in Cover(n) : id = <<l, At(n, l) - 1>> /\ nodes[id] = hs[l]
    BY <1>5
  <2>2. l \in Nat /\ l < n /\ At(n, l) > 0
    BY CoverFacts
  <2>3. At(n, l) \in Nat /\ At(n, l) <= n
    BY <2>2, AtNat, AtBound
  <2>4. l \in 0..n /\ At(n, l) - 1 \in 0..n
    BY <2>2, <2>3
  <2> QED
    BY <1>1, <2>1, <2>4
<1>8. \A l, j \in Nat : ~(At(n, l) <= j /\ j < At(n, l))
  <2> TAKE l, j \in Nat
  <2>1. At(n, l) \in Nat
    BY AtNat
  <2> QED
    BY <2>1
<1>9. n <= n
  OBVIOUS
<1> QED
  BY <1>3, <1>6, <1>7, <1>8, <1>9 DEF Accumulates, a, hs, nodes

\* An accumulator over exactly these leaves, of which there is one.
Over(a, ds, off, last) ==
  /\ Accumulates(a, ds, off)
  /\ last \in Nat /\ a.size = last + 1 /\ Len(ds) = last + 1

\* The hash of a node is found or put together, when the map has it or, for
\* one on the border, when it is not the frontier's.
LEMMA ResolvesNode ==
  ASSUME NEW a, NEW ds, NEW off, NEW last, Over(a, ds, off, last),
         NEW l \in 0..a.size, NEW s \in Nat, s <= At(last, l),
         s < At(a.size, l) => <<l, s>> \in DOMAIN a.nodes,
         ~(s < At(a.size, l)) => At(off, l) < At(a.size, l)
  PROVE  /\ Needed(a.size, <<l, s>>) \subseteq DOMAIN a.nodes
         /\ Rehash(a.size, <<l, s>>, a.nodes) = NodeHash(ds, l, s)
<1> DEFINE n     == a.size
           nodes == a.nodes
           id    == <<l, s>>
           parts == [k \in Behind(n, id) |-> nodes[CoverNode(n, k)]]
<1>1. /\ last \in Nat /\ n = last + 1 /\ n \in Nat /\ Len(ds) = last + 1
      /\ off \in Nat /\ off <= n /\ l \in Nat /\ l <= n
  BY DEF Over, Accumulates
<1>2. \A i \in DOMAIN nodes : IsComplete(n, i) => nodes[i] = NodeHash(ds, i[1], i[2])
  BY DEF Over, Accumulates
<1>3. \A k, j \in Nat : At(off, k) <= j /\ j < At(n, k) => <<k, j>> \in DOMAIN nodes
  BY DEF Over, Accumulates
<1>4. id[1] = l /\ id[2] = s
  OBVIOUS
<1>5. CASE s < At(n, l)
  <2>1. IsComplete(n, id) /\ id \in DOMAIN nodes
    BY <1>4, <1>5 DEF IsComplete
  <2> QED
    BY <1>2, <1>4, <2>1 DEF Needed, Rehash
<1>6. CASE ~(s < At(n, l))
  <2> HIDE DEF n, nodes, id
  <2>1. ~IsComplete(n, id)
    BY <1>4, <1>6 DEF IsComplete
  <2>2. At(n, l) \in Nat /\ At(last, l) \in Nat
    BY <1>1, AtNat
  <2>3. Merges(last) \in Nat
        /\ At(n, l) = IF l <= Merges(last) THEN At(last, l) + 1 ELSE At(last, l)
    BY <1>1, MergesFacts
  <2>4. Merges(last) < l /\ s = At(last, l)
    BY <1>1, <1>6, <2>2, <2>3
  <2>5. At(off, l) < At(n, l)
    BY <1>6 DEF n
  <2>6. ASSUME NEW k \in Behind(n, id)
        PROVE  /\ CoverNode(n, k) \in DOMAIN nodes
               /\ nodes[CoverNode(n, k)] = LastPerfect(ds, n, k)
    <3>1. k \in Cover(n) /\ k < l
      BY <1>4 DEF Behind
    <3>2. k \in Nat /\ At(n, k) > 0
      BY <1>1, <3>1, CoverFacts
    <3>3. At(n, k) \in Nat /\ At(off, k) \in Nat /\ At(off, l) \in Nat
      BY <1>1, <3>2, AtNat
    <3>4. At(off, k) < At(n, k)
      <4>1. CASE At(n, k) <= At(off, k)
        <5>1. At(n, l) <= At(off, l)
          <6>1. k <= l
            BY <1>1, <3>1, <3>2
          <6> QED
            BY <1>1, <3>2, <4>1, <6>1, AtMonotone
        <5> QED
          BY <2>2, <2>5, <3>3, <5>1
      <4> QED
        BY <3>3, <4>1
    <3> DEFINE j == At(n, k) - 1
    <3>5. j \in Nat /\ At(off, k) <= j /\ j < At(n, k)
      BY <3>2, <3>3, <3>4
    <3> HIDE DEF j
    <3>6. <<k, j>> \in DOMAIN nodes /\ IsComplete(n, <<k, j>>)
      BY <1>3, <3>2, <3>5 DEF IsComplete
    <3>7. nodes[<<k, j>>] = NodeHash(ds, k, j)
      BY <1>2, <3>6
    <3> QED
      BY <3>6, <3>7 DEF CoverNode, LastPerfect, j
  <2>7. DOMAIN parts = {k \in Cover(n) : k < l}
        /\ \A k \in DOMAIN parts : parts[k] = LastPerfect(ds, n, k)
    BY <1>4, <2>6 DEF Behind
  <2>8. Needed(n, id) \subseteq DOMAIN nodes
    BY <2>1, <2>6 DEF Needed
  <2>9. Rehash(n, id, nodes) = Border(n, parts)[l]
    BY <1>4, <2>1 DEF Rehash
  <2> HIDE DEF parts
  <2>10. Border(n, parts)[l] = NodeHash(ds, l, At(last, l))
    BY <1>1, <2>4, <2>7, BorderHash
  <2> QED
    BY <2>4, <2>8, <2>9, <2>10 DEF n, nodes, id
<1> QED
  BY <1>5, <1>6

\* The siblings on the way up from a leaf that is not behind the frontier.
LEMMA ResolvesSibling ==
  ASSUME NEW a, NEW ds, NEW off, NEW last, Over(a, ds, off, last),
         NEW m \in Nat, off <= m, m <= last, NEW l \in PathLevels(m, a.size, 0)
  PROVE  /\ Needed(a.size, SiblingNode(m, l)) \subseteq DOMAIN a.nodes
         /\ Rehash(a.size, SiblingNode(m, l), a.nodes) = NodeHash(ds, l, Sibling(At(m, l)))
<1> DEFINE n == a.size
           i == At(m, l)
           s == Sibling(i)
<1>1. /\ last \in Nat /\ n = last + 1 /\ n \in Nat /\ off \in Nat /\ off <= n
      /\ n - 1 = last
  BY DEF Over, Accumulates
<1>2. l \in 0..n /\ l \in Nat /\ s <= At(last, l)
  BY <1>1 DEF PathLevels
<1>3. /\ i \in Nat /\ At(last, l) \in Nat /\ At(n, l) \in Nat /\ At(off, l) \in Nat
      /\ At(off, l) <= i /\ i <= At(last, l)
  <2> HIDE DEF n
  <2>1. At(off, l) <= At(m, l) /\ At(m, l) <= At(last, l)
    BY <1>1, <1>2, AtOrder
  <2> QED
    BY <1>1, <1>2, <2>1, AtNat
<1>4. /\ \A k, j \in Nat : At(off, k) <= j /\ j < At(n, k) => <<k, j>> \in DOMAIN a.nodes
      /\ \A k \in Cover(off) : CoverNode(off, k) \in DOMAIN a.nodes
  BY DEF Over, Accumulates
<1> HIDE DEF n, i
<1>5. s \in Nat /\ ((s = i - 1 /\ Odd(i)) \/ (s = i + 1 /\ ~Odd(i)))
  BY <1>3 DEF Odd, Sibling
<1> HIDE DEF s
<1>6. ASSUME s < At(n, l) PROVE <<l, s>> \in DOMAIN a.nodes
  <2>1. CASE At(off, l) <= s
    BY <1>2, <1>4, <1>5, <1>6, <2>1
  <2>2. CASE ~(At(off, l) <= s)
    <3>1. At(off, l) = i /\ s = i - 1 /\ Odd(i)
      BY <1>3, <1>5, <2>2
    <3>2. l \in Cover(off)
      BY <1>1, <1>2, <3>1, CoverFacts
    <3> QED
      BY <1>4, <3>1, <3>2 DEF CoverNode
  <2> QED
    BY <2>1, <2>2
<1>7. ASSUME ~(s < At(n, l)) PROVE At(off, l) < At(n, l)
  <2>1. At(last, l) <= At(n, l)
    <3>1. last <= n
      BY <1>1
    <3> QED
      BY <1>1, <1>2, <3>1, AtOrder
  <2> QED
    BY <1>2, <1>3, <1>5, <1>7, <2>1
<1>8. l \in 0..a.size /\ (s < At(a.size, l) => <<l, s>> \in DOMAIN a.nodes)
      /\ (~(s < At(a.size, l)) => At(off, l) < At(a.size, l))
  BY <1>2, <1>6, <1>7 DEF n
<1>9. /\ Needed(a.size, <<l, s>>) \subseteq DOMAIN a.nodes
      /\ Rehash(a.size, <<l, s>>, a.nodes) = NodeHash(ds, l, s)
  BY <1>2, <1>5, <1>8, ResolvesNode
<1> QED
  BY <1>9 DEF SiblingNode, s, i

\* The border nodes a root leaves in the map do no harm to proofs.
LEMMA AfterRootOver ==
  ASSUME NEW a, NEW ds, NEW off, NEW last, Over(a, ds, off, last)
  PROVE  Over(AfterRoot(a), ds, off, last) /\ AfterRoot(a).size = a.size
<1>1. Accumulates(a, ds, off) /\ last \in Nat /\ a.size = last + 1 /\ Len(ds) = last + 1
  BY DEF Over
<1>2. Accumulates(AfterRoot(a), ds, off) /\ AfterRoot(a).size = a.size
  BY <1>1, AfterRootAccumulates
<1> QED
  BY <1>1, <1>2 DEF Over

\* The hash of the tree is that of the only node of its top row.
LEMMA TreeHashAt ==
  ASSUME NEW ds, NEW last \in Nat, Len(ds) = last + 1, ds # << >>
  PROVE  \A l \in Nat : last <= l => TreeHash(ds) = NodeHash(ds, l, 0) /\ At(last, l) = 0
<1>1. TreeHash(ds) = NodeHash(ds, last + 1, 0)
  BY DEF TreeHash, NodeHash
<1>2. At(last, last) = 0
  BY AtBound
<1>3. \A l \in Nat : last <= l => At(last, l) = 0 /\ NodeHash(ds, l, 0) = NodeHash(ds, last, 0)
  BY <1>2, TopHash
<1>4. last + 1 \in Nat /\ last <= last + 1
  OBVIOUS
<1> QED
  BY <1>1, <1>3, <1>4

\* Every leaf that is not behind the frontier is proved under the root.
LEMMA InclusionVerifies ==
  ASSUME NEW a, NEW ds, NEW off, NEW last, Over(a, ds, off, last), ds # << >>,
         NEW m \in Nat, off <= m, m <= last
  PROVE  VerifyInclusion(m, a.size, ds[m + 1], TreeHash(ds), InclusionProof(a, m))
<1> DEFINE b      == AfterRoot(a)
           n      == a.size
           ids    == InclusionNodes(m, n)
           levels == PathLevels(m, n, 0)
           prf    == InclusionProof(a, m)
           path   == PathOf(m, levels, prf)
           leaf   == HashLeaf(ds[m + 1])
<1>1. Over(b, ds, off, last) /\ b.size = n
  BY AfterRootOver
<1>2. last \in Nat /\ n = last + 1 /\ n \in Nat /\ Len(ds) = last + 1 /\ n - 1 = last
      /\ Len(ds) - 1 = last
  BY DEF Over
<1>3. \A l \in levels : /\ Needed(n, SiblingNode(m, l)) \subseteq DOMAIN b.nodes
                        /\ Rehash(n, SiblingNode(m, l), b.nodes) = NodeHash(ds, l, Sibling(At(m, l)))
  BY <1>1, ResolvesSibling
<1>4. ids = {SiblingNode(m, l) : l \in levels}
  BY DEF InclusionNodes
<1>5. prf = [id \in ids |-> Rehash(n, id, b.nodes)]
  <2>1. prf = Resolve(b, ids)
    BY DEF InclusionProof
  <2>2. \A id \in ids : Needed(n, id) \subseteq DOMAIN b.nodes
    BY <1>3, <1>4
  <2> HIDE DEF b, ids, prf
  <2> QED
    BY <1>1, <2>1, <2>2 DEF Resolve
<1> HIDE DEF b, ids, prf
<1>6. \A l \in levels : path[l] = NodeHash(ds, l, Sibling(At(m, l)))
  BY <1>3, <1>4, <1>5 DEF PathOf
<1>7. DOMAIN path = levels
  BY DEF PathOf
<1>8. IsPath(ds, m, m, path, 0, n)
  <2>1. \A l \in Nat : ~(l < 0)
    OBVIOUS
  <2>2. ASSUME NEW l \in Nat, l < n
        PROVE  l \in levels <=> Sibling(At(m, l)) <= At(last, l)
    <3>1. l \in 0..n
      BY <1>2, <2>2
    <3> QED
      BY <1>2, <3>1 DEF PathLevels
  <2> HIDE DEF levels, path
  <2> QED
    BY <1>2, <1>6, <1>7, <2>1, <2>2 DEF IsPath
<1> HIDE DEF path, levels, n
<1>9. leaf = NodeHash(ds, 0, At(m, 0))
  <2>1. At(m, 0) = m /\ m \in 0..last
    BY <1>2, AtFacts
  <2> QED
    BY <1>2, <2>1, NodeHashDef
<1>10. Climb(m, path, leaf)[n] = NodeHash(ds, n, At(m, n))
  <2>1. 0 \in Nat /\ 0 <= n /\ n <= n /\ m \in 0..last
    BY <1>2
  <2> HIDE DEF leaf
  <2> QED
    BY <1>2, <1>8, <1>9, <2>1, ClimbHash
<1>11. At(m, n) = 0 /\ TreeHash(ds) = NodeHash(ds, n, 0)
  <2>1. m <= n /\ last <= n
    BY <1>2
  <2> QED
    BY <1>2, <2>1, AtBound, TreeHashAt
<1>12. DOMAIN prf = ids
  BY <1>5
<1> QED
  BY <1>10, <1>11, <1>12 DEF VerifyInclusion, ids, path, leaf, levels, prf, n

\* The accumulator that was given all leaves.
LEMMA AllAppended ==
  ASSUME NEW ds, Len(ds) \in Nat
  PROVE  /\ Accumulates(AppendLeaves(New, ds), ds, 0)
         /\ AppendLeaves(New, ds).size = Len(ds)
<1> DEFINE n == Len(ds)
<1>1. PICK after : /\ after[0] = New
                   /\ \A i \in 0..(n - 1) : after[i + 1] = AppendLeaf(after[i], ds[i + 1])
                   /\ AppendLeaves(New, ds) = after[n]
  BY AppendLeavesDef
<1> HIDE DEF n
<1> DEFINE S == {i \in Nat : i <= n => Accumulates(after[i], ds, 0) /\ after[i].size = i}
<1>2. n \in Nat
  BY DEF n
<1>3. 0 \in S
  <2>1. New.size = 0
    BY DEF New
  <2> QED
    BY <1>1, <2>1, NewAccumulates
<1>4. ASSUME NEW i \in S PROVE i + 1 \in S
  <2>1. i \in Nat /\ i + 1 \in Nat
    OBVIOUS
  <2>2. ASSUME i + 1 <= n PROVE Accumulates(after[i + 1], ds, 0) /\ after[i + 1].size = i + 1
    <3>1. i <= n /\ i < n /\ i \in 0..(n - 1)
      BY <1>2, <2>1, <2>2
    <3>2. Accumulates(after[i], ds, 0) /\ after[i].size = i
      BY <3>1
    <3>3. after[i + 1] = AppendLeaf(after[i], ds[i + 1])
      BY <1>1, <3>1
    <3> DEFINE a == after[i]
    <3>4. Accumulates(a, ds, 0) /\ a.size < Len(ds) /\ a.size = i
      BY <3>1, <3>2 DEF n
    <3> HIDE DEF a
    <3>5. /\ Accumulates(AppendLeaf(a, ds[a.size + 1]), ds, 0)
          /\ AppendLeaf(a, ds[a.size + 1]).size = a.size + 1
      BY <3>4, AppendAccumulates
    <3> QED
      BY <3>3, <3>4, <3>5 DEF a
  <2> QED
    BY <2>1, <2>2
<1>5. S \in SUBSET Nat
  OBVIOUS
<1> HIDE DEF S
<1>6. S = Nat
  BY <1>3, <1>4, <1>5, SetInduction
<1>7. n \in S /\ n <= n
  BY <1>2, <1>6
<1>8. Accumulates(after[n], ds, 0) /\ after[n].size = n
  BY <1>7 DEF S
<1> QED
  BY <1>1, <1>8 DEF n

\* The climb to the earlier root, over what is left of the subtree that ends the
\* smaller tree, when seed and siblings have their hash in the larger one.
LEMMA EarlierRoot ==
  ASSUME NEW ds, NEW last \in Nat, Len(ds) = last + 1,
         NEW pre, Begins(pre, ds), pre # << >>, NEW end \in Nat, Len(pre) = end + 1, end < last,
         NEW prf, NEW seed, seed = NodeHash(ds, Merges(end), At(end, Merges(end))),
         NEW levels, levels = PathLevels(end, last + 1, Merges(end)),
         \A l \in levels : prf[SiblingNode(end, l)] = NodeHash(ds, l, Sibling(At(end, l)))
  PROVE  Climb(end, PathOf(end, {l \in levels : Odd(At(end, l))}, prf), seed)[last + 1]
           = TreeHash(pre)
<1> DEFINE n     == last + 1
           m     == end + 1
           level == Merges(end)
           left  == {l \in levels : Odd(At(end, l))}
           part  == PathOf(end, left, prf)
<1>2. /\ n \in Nat /\ n - 1 = last /\ end <= last /\ m \in Nat /\ end <= m /\ end <= n
      /\ Len(pre) - 1 = end /\ end \in 0..end /\ Len(pre) = m
  OBVIOUS
<1>4. /\ level \in Nat /\ level <= end /\ level <= n /\ n <= n
      /\ At(m, level) = At(end, level) + 1
  <2>1. Merges(end) \in 0..end
        /\ \A l \in Nat : At(end + 1, l) = IF l <= Merges(end) THEN At(end, l) + 1 ELSE At(end, l)
    BY MergesFacts
  <2>2. level \in Nat /\ level <= end /\ level <= level
    BY <2>1
  <2> QED
    BY <1>2, <2>1, <2>2
<1> HIDE DEF level, n, m
<1>6. \A l \in Nat : level <= l /\ l < n => (l \in levels <=> Sibling(At(end, l)) <= At(last, l))
  <2> TAKE l \in Nat
  <2> HAVE level <= l /\ l < n
  <2>1. l \in level..n
    BY <1>2, <1>4
  <2> QED
    BY <1>2, <2>1 DEF PathLevels, level, n
<1>7. \A l \in levels : l \in Nat /\ level <= l
  BY <1>2, <1>4 DEF PathLevels, level, n
<1>13. \A l, j \in Nat : j < At(m, l) => NodeHash(pre, l, j) = NodeHash(ds, l, j)
  BY <1>2, PerfectHash
<1>14. seed = NodeHash(pre, level, At(end, level))
  <2>1. At(end, level) \in Nat /\ At(end, level) < At(m, level)
    <3>1. At(end, level) \in Nat
      BY <1>4, AtNat
    <3> QED
      BY <1>4, <3>1
  <2> QED
    BY <1>4, <1>13, <2>1 DEF level
<1>16. IsPath(pre, end, end, part, level, n)
  <2>1. DOMAIN part = left
        /\ \A l \in left : part[l] = NodeHash(ds, l, Sibling(At(end, l)))
    BY DEF PathOf
  <2>2. \A l \in Nat : l < level => l \notin left
    BY <1>4, <1>7
  <2>3. ASSUME NEW l \in Nat, level <= l, l < n
        PROVE  /\ l \in left <=> Sibling(At(end, l)) <= At(end, l)
               /\ l \in left => part[l] = NodeHash(pre, l, Sibling(At(end, l)))
    <3> DEFINE i == At(end, l)
    <3>1. /\ i \in Nat /\ At(last, l) \in Nat /\ At(m, l) \in Nat
          /\ i <= At(last, l) /\ i <= At(m, l)
      <4>1. i <= At(last, l) /\ i <= At(m, l)
        BY <1>2, AtOrder
      <4> QED
        BY <1>2, <4>1, AtNat
    <3>2. l \in levels <=> Sibling(i) <= At(last, l)
      BY <1>6, <2>3
    <3>3. l \in left <=> l \in levels /\ Odd(i)
      OBVIOUS
    <3> HIDE DEF i, left, part
    <3>4. l \in left <=> Sibling(i) <= i
      BY <3>1, <3>2, <3>3 DEF Sibling
    <3>5. ASSUME l \in left PROVE part[l] = NodeHash(pre, l, Sibling(i))
      <4>1. Odd(i) /\ part[l] = NodeHash(ds, l, Sibling(i))
        BY <2>1, <3>3, <3>5 DEF i
      <4>2. Sibling(i) = i - 1 /\ i # 0
        BY <4>1 DEF Sibling, Odd
      <4>3. Sibling(i) \in Nat /\ Sibling(i) < At(m, l)
        BY <3>1, <4>2
      <4> QED
        BY <1>13, <4>1, <4>3
    <3> QED
      BY <3>4, <3>5 DEF i
  <2> HIDE DEF part, left
  <2> QED
    BY <1>2, <2>1, <2>2, <2>3 DEF IsPath
<1> HIDE DEF part, left
<1>18. \A l \in Nat : level <= l /\ l <= n =>
         Climb(end, part, seed)[l] = NodeHash(pre, l, At(end, l))
  BY <1>2, <1>4, <1>14, <1>16, ClimbHash
<1>19. At(end, n) = 0 /\ TreeHash(pre) = NodeHash(pre, n, 0)
  BY <1>2, AtBound, TreeHashAt
<1>20. Climb(end, part, seed)[n] = TreeHash(pre)
  BY <1>2, <1>4, <1>18, <1>19
<1> QED
  BY <1>20 DEF part, left, n

\* Every earlier tree is shown to be a prefix of this one.
LEMMA PrefixVerifies ==
  ASSUME NEW a, NEW ds, NEW last, Over(a, ds, 0, last), ds # << >>,
         NEW pre, Begins(pre, ds), pre # << >>, NEW m \in Nat, Len(pre) = m, 0 < m, m < a.size
  PROVE  VerifyConsistency(m, a.size, TreeHash(pre), TreeHash(ds), ConsistencyProof(a, m))
<1> DEFINE b      == AfterRoot(a)
           n      == a.size
           end    == m - 1
           level  == Merges(end)
           levels == PathLevels(end, n, level)
           left   == {l \in levels : Odd(At(end, l))}
           ids    == ConsistencyNodes(m, n)
           prf    == ConsistencyProof(a, m)
           start  == <<level, At(end, level)>>
           seed   == IF At(end, level) = 0 THEN TreeHash(pre) ELSE prf[start]
           whole  == PathOf(end, levels, prf)
           part   == PathOf(end, left, prf)
<1>1. Over(b, ds, 0, last) /\ b.size = n
  BY AfterRootOver
<1>2. /\ last \in Nat /\ n = last + 1 /\ n \in Nat /\ Len(ds) = last + 1 /\ n - 1 = last
      /\ Len(ds) - 1 = last /\ end \in Nat /\ end <= last /\ m = end + 1 /\ end \in 0..last
      /\ end <= m /\ m <= n /\ end <= n /\ Len(pre) = end + 1 /\ Len(pre) - 1 = end
      /\ 0 <= end /\ last <= n
  <2>1. last \in Nat /\ n = last + 1 /\ Len(ds) = last + 1
    BY DEF Over
  <2> QED
    BY <2>1
<1>3. Accumulates(b, ds, 0)
  BY <1>1 DEF Over
<1> HIDE DEF end
<1>4. /\ level \in Nat /\ level <= end
      /\ \A l \in Nat : At(m, l) = IF l <= level THEN At(end, l) + 1 ELSE At(end, l)
  <2>1. Merges(end) \in 0..end
        /\ \A l \in Nat : At(end + 1, l) = IF l <= Merges(end) THEN At(end, l) + 1 ELSE At(end, l)
    BY <1>2, MergesFacts
  <2> QED
    BY <1>2, <2>1
<1> HIDE DEF level
<1>5. levels \subseteq PathLevels(end, n, 0) /\ left \subseteq levels
  BY <1>4 DEF PathLevels
<1>6. \A l \in Nat : level <= l /\ l < n => (l \in levels <=> Sibling(At(end, l)) <= At(last, l))
  <2> TAKE l \in Nat
  <2> HAVE level <= l /\ l < n
  <2>1. l \in level..n
    BY <1>2, <1>4
  <2> QED
    BY <1>2, <2>1 DEF PathLevels
<1>7. \A l \in levels : l \in Nat /\ level <= l
  BY <1>4 DEF PathLevels
<1>8. ids = {SiblingNode(end, l) : l \in levels} \cup {id \in {start} : id[2] > 0}
  BY DEF ConsistencyNodes, end, level
<1> HIDE DEF n, b
<1>9. ASSUME NEW l \in levels
      PROVE  /\ Needed(n, SiblingNode(end, l)) \subseteq DOMAIN b.nodes
             /\ Rehash(n, SiblingNode(end, l), b.nodes) = NodeHash(ds, l, Sibling(At(end, l)))
  <2>1. l \in PathLevels(end, b.size, 0)
    BY <1>1, <1>5
  <2> HIDE DEF levels
  <2> QED
    BY <1>1, <1>2, <2>1, ResolvesSibling
<1>10. /\ At(end, level) \in Nat
       /\ Needed(n, start) \subseteq DOMAIN b.nodes
       /\ Rehash(n, start, b.nodes) = NodeHash(ds, level, At(end, level))
  <2> DEFINE s == At(end, level)
  <2>1. s \in Nat /\ At(m, level) = s + 1 /\ At(m, level) <= At(n, level) /\ s <= At(last, level)
        /\ At(n, level) \in Nat /\ At(0, level) = 0
    <3>1. At(m, level) <= At(n, level)
      BY <1>2, <1>4, AtOrder
    <3>2. s <= At(last, level)
      BY <1>2, <1>4, AtOrder
    <3>3. At(0, level) = 0
      BY <1>4, AtBound
    <3>4. s \in Nat /\ At(n, level) \in Nat
      BY <1>2, <1>4, AtNat
    <3>5. level <= level
      BY <1>4
    <3> QED
      BY <1>4, <3>1, <3>2, <3>3, <3>4, <3>5
  <2> HIDE DEF s
  <2>2. s < At(n, level) /\ At(0, level) <= s
    BY <2>1
  <2>3. <<level, s>> \in DOMAIN b.nodes
    BY <1>1, <1>3, <1>4, <2>1, <2>2 DEF Accumulates
  <2>4. level \in 0..b.size
    BY <1>1, <1>2, <1>4
  <2>5. /\ Needed(b.size, <<level, s>>) \subseteq DOMAIN b.nodes
        /\ Rehash(b.size, <<level, s>>, b.nodes) = NodeHash(ds, level, s)
    BY <1>1, <2>1, <2>2, <2>3, <2>4, ResolvesNode
  <2> QED
    BY <1>1, <2>1, <2>5 DEF s
<1> HIDE DEF start
<1>11. prf = [id \in ids |-> Rehash(n, id, b.nodes)]
  <2>1. prf = Resolve(b, ids)
    BY <1>2 DEF ConsistencyProof, b, n
  <2>2. \A id \in ids : Needed(n, id) \subseteq DOMAIN b.nodes
    <3> HIDE DEF ids, levels
    <3> QED
      BY <1>8, <1>9, <1>10
  <2> HIDE DEF ids, prf
  <2> QED
    BY <1>1, <2>1, <2>2 DEF Resolve
<1> HIDE DEF prf, ids, levels
<1>12. \A l \in levels : prf[SiblingNode(end, l)] = NodeHash(ds, l, Sibling(At(end, l)))
  BY <1>8, <1>9, <1>11
<1>13. \A l, j \in Nat : j < At(m, l) => NodeHash(pre, l, j) = NodeHash(ds, l, j)
  BY PerfectHash
<1>14. seed = NodeHash(ds, level, At(end, level))
  <2>1. NodeHash(ds, level, At(end, level)) = NodeHash(pre, level, At(end, level))
    <3>1. At(end, level) < At(m, level)
      <4>1. level <= level
        BY <1>4
      <4> QED
        BY <1>4, <1>10, <4>1
    <3> QED
      BY <1>4, <1>10, <1>13, <3>1
  <2>2. CASE At(end, level) = 0
    <3>1. \A l \in Nat : level <= l => NodeHash(pre, l, 0) = NodeHash(pre, level, 0)
      BY <1>2, <1>4, <2>2, TopHash
    <3>2. TreeHash(pre) = NodeHash(pre, end, 0)
      <4>1. end <= end
        BY <1>2
      <4> QED
        BY <1>2, <4>1, TreeHashAt
    <3>3. seed = NodeHash(pre, level, 0)
      BY <1>2, <1>4, <2>2, <3>1, <3>2
    <3> QED
      BY <2>1, <2>2, <3>3
  <2>3. CASE At(end, level) # 0
    <3>1. start[2] = At(end, level) /\ start[2] > 0
      BY <1>10, <2>3 DEF start
    <3>2. start \in ids
      BY <1>8, <3>1
    <3>3. prf[start] = NodeHash(ds, level, At(end, level))
      BY <1>10, <1>11, <3>2
    <3> QED
      BY <2>1, <2>3, <3>3
  <2> QED
    BY <2>2, <2>3
<1> HIDE DEF seed
<1>15. IsPath(ds, end, end, whole, level, n)
  <2>1. DOMAIN whole = levels
        /\ \A l \in levels : whole[l] = NodeHash(ds, l, Sibling(At(end, l)))
    BY <1>12 DEF PathOf
  <2>2. \A l \in Nat : l < level => l \notin levels
    BY <1>4, <1>7
  <2> HIDE DEF whole
  <2> QED
    BY <1>2, <1>6, <2>1, <2>2 DEF IsPath
<1> HIDE DEF whole, part, left
<1>24. 0 < m /\ m < n
  BY DEF n
<1>17. level <= n /\ n <= n /\ end \in 0..end
  BY <1>2, <1>4
<1>18. Climb(end, whole, seed)[n] = NodeHash(ds, n, At(end, n))
  <2>1. \A l \in Nat : level <= l /\ l <= n =>
          Climb(end, whole, seed)[l] = NodeHash(ds, l, At(end, l))
    <3>1. last \in Nat /\ Len(ds) = last + 1 /\ end \in 0..last /\ level \in Nat /\ n \in Nat
      BY <1>2, <1>4
    <3>2. seed = NodeHash(ds, level, At(end, level))
      BY <1>14
    <3> QED
      BY ONLY <1>15, <3>1, <3>2, ClimbHash
  <2> QED
    BY <1>2, <1>17, <2>1
<1>19. Climb(end, part, seed)[n] = TreeHash(pre)
  <2>1. end < last /\ levels = PathLevels(end, last + 1, Merges(end))
        /\ seed = NodeHash(ds, Merges(end), At(end, Merges(end)))
    BY <1>2, <1>14, <1>24 DEF levels, level
  <2> HIDE DEF whole
  <2>2. Climb(end, PathOf(end, {l \in levels : Odd(At(end, l))}, prf), seed)[last + 1]
          = TreeHash(pre)
    BY <1>2, <1>12, <2>1, EarlierRoot
  <2> QED
    BY <1>2, <2>2 DEF part, left
<1>20. At(end, n) = 0 /\ TreeHash(ds) = NodeHash(ds, n, 0)
  BY <1>2, AtBound, TreeHashAt
<1>22. DOMAIN prf = ids
  BY <1>11
<1>23. Climb(end, part, seed)[n] = TreeHash(pre) /\ Climb(end, whole, seed)[n] = TreeHash(ds)
  BY <1>18, <1>19, <1>20
<1> QED
  BY <1>22, <1>23, <1>24, Zenon
     DEF VerifyConsistency, part, whole, seed, left, levels, level, start, ids, prf, end, n

-----------------------------------------------------------------------------
(* The tree over any list of leaves.                                       *)

\* A list of leaves and the lists it begins with.
LEMMA Leaves ==
  ASSUME NEW S, NEW ds \in Seq(S)
  PROVE  /\ Len(ds) \in Nat /\ (ds = << >> <=> Len(ds) = 0)
         /\ \A m \in 0..Len(ds) :
              /\ SubSeq(ds, 1, m) \in Seq(S) /\ Len(SubSeq(ds, 1, m)) = m
              /\ Begins(SubSeq(ds, 1, m), ds)
         /\ SubSeq(ds, 1, Len(ds)) = ds
<1>1. Len(ds) \in Nat /\ (ds = << >> <=> Len(ds) = 0)
  OBVIOUS
<1>2. ASSUME NEW m \in 0..Len(ds)
      PROVE  /\ SubSeq(ds, 1, m) \in Seq(S) /\ Len(SubSeq(ds, 1, m)) = m
             /\ Begins(SubSeq(ds, 1, m), ds)
  <2>1. SubSeq(ds, 1, m) \in Seq(S) /\ Len(SubSeq(ds, 1, m)) = m
        /\ \A i \in 1..m : SubSeq(ds, 1, m)[i] = ds[i]
    OBVIOUS
  <2>2. m \in Nat /\ m <= Len(ds)
    BY <1>1
  <2> QED
    BY <1>1, <2>1, <2>2 DEF Begins
<1>3. SubSeq(ds, 1, Len(ds)) = ds
  OBVIOUS
<1> QED
  BY <1>1, <1>2, <1>3

\* The root over any list of leaves, appended one by one, is the hash of RFC
\* 6962 over them (merkletree.go:93-107, verify.go:86-95).
THEOREM RootIsTreeHash ==
  ASSUME NEW S, NEW ds \in Seq(S)
  PROVE  RootFromLeaves(ds) = TreeHash(ds)
<1>1. Len(ds) \in Nat /\ (ds = << >> <=> Len(ds) = 0)
  BY Leaves
<1> DEFINE a == AppendLeaves(New, ds)
<1>2. Accumulates(a, ds, 0) /\ a.size = Len(ds)
  BY <1>1, AllAppended
<1> HIDE DEF a
<1>3. Root(a) = TreeHash(ds)
  BY <1>1, <1>2, RootHash
<1> QED
  BY <1>3 DEF RootFromLeaves, a

\* The accumulator of a list with a leaf.
LEMMA AllOver ==
  ASSUME NEW S, NEW ds \in Seq(S), ds # << >>
  PROVE  /\ Over(AppendLeaves(New, ds), ds, 0, Len(ds) - 1)
         /\ AppendLeaves(New, ds).size = Len(ds)
<1>1. Len(ds) \in Nat /\ Len(ds) # 0
  BY Leaves
<1>2. Accumulates(AppendLeaves(New, ds), ds, 0) /\ AppendLeaves(New, ds).size = Len(ds)
  BY <1>1, AllAppended
<1>3. Len(ds) - 1 \in Nat /\ Len(ds) = (Len(ds) - 1) + 1
  BY <1>1
<1> QED
  BY <1>2, <1>3 DEF Over

\* Every leaf of any list is proved under its root: whatever nodes earlier
\* roots left in the map, a proof never lacks one (merkletree.go:109-135).
THEOREM EveryLeafIsProved ==
  ASSUME NEW S, NEW ds \in Seq(S), NEW i \in 0..(Len(ds) - 1)
  PROVE  VerifyInclusion(i, Len(ds), ds[i + 1], RootFromLeaves(ds),
                         InclusionProof(AppendLeaves(New, ds), i))
<1> DEFINE a    == AppendLeaves(New, ds)
           last == Len(ds) - 1
<1>1. ds # << >> /\ i \in Nat /\ i <= last /\ 0 <= i
  <2>1. Len(ds) \in Nat /\ (ds = << >> <=> Len(ds) = 0)
    BY Leaves
  <2> QED
    BY <2>1
<1>2. Over(a, ds, 0, last) /\ a.size = Len(ds)
  BY <1>1, AllOver
<1>3. RootFromLeaves(ds) = TreeHash(ds)
  BY RootIsTreeHash
<1> HIDE DEF a, last
<1>4. VerifyInclusion(i, a.size, ds[i + 1], TreeHash(ds), InclusionProof(a, i))
  BY <1>1, <1>2, InclusionVerifies
<1> QED
  BY <1>2, <1>3, <1>4 DEF a

\* Every earlier tree over the first leaves of any list is proved to be a
\* prefix of the whole one (merkletree.go:137-168).
THEOREM EveryPrefixIsProved ==
  ASSUME NEW S, NEW ds \in Seq(S), NEW m \in 0..Len(ds)
  PROVE  VerifyConsistency(m, Len(ds), RootFromLeaves(SubSeq(ds, 1, m)), RootFromLeaves(ds),
                           ConsistencyProof(AppendLeaves(New, ds), m))
<1> DEFINE a    == AppendLeaves(New, ds)
           n    == Len(ds)
           last == n - 1
           pre  == SubSeq(ds, 1, m)
           prf  == ConsistencyProof(a, m)
<1>1. /\ n \in Nat /\ (ds = << >> <=> n = 0) /\ m \in Nat /\ m <= n
      /\ pre \in Seq(S) /\ Len(pre) = m /\ Begins(pre, ds) /\ (m = n => pre = ds)
      /\ (pre = << >> <=> m = 0)
  <2>1. n \in Nat /\ (ds = << >> <=> n = 0) /\ pre \in Seq(S) /\ Len(pre) = m
        /\ Begins(pre, ds) /\ SubSeq(ds, 1, n) = ds
    BY Leaves
  <2>2. pre = << >> <=> Len(pre) = 0
    BY <2>1
  <2>3. m = n => pre = ds
    BY <2>1
  <2>4. m \in Nat /\ m <= n
    BY <2>1
  <2> HIDE DEF pre, n
  <2> QED
    BY <2>1, <2>2, <2>3, <2>4
<1>2. Accumulates(a, ds, 0) /\ a.size = n
  BY <1>1, AllAppended
<1>3. RootFromLeaves(ds) = TreeHash(ds) /\ RootFromLeaves(pre) = TreeHash(pre)
  BY <1>1, RootIsTreeHash
<1> HIDE DEF a, pre, prf
<1>4. CASE m \in {0, n}
  <2>1. prf = [id \in {} |-> Rehash(AfterRoot(a).size, id, AfterRoot(a).nodes)]
    BY <1>2, <1>4 DEF ConsistencyProof, Resolve, prf
  <2>2. DOMAIN prf = {}
    BY <2>1
  <2>3. CASE m = n
    BY <1>1, <1>3, <2>2, <2>3 DEF VerifyConsistency, prf, a, pre
  <2>4. CASE m = 0 /\ m # n
    <3>1. n > 0
      BY <1>1, <2>4
    <3> QED
      BY <2>2, <2>4, <3>1 DEF VerifyConsistency, prf, a, pre
  <2> QED
    BY <1>4, <2>3, <2>4
<1>5. CASE ~(m \in {0, n})
  <2>1. 0 < m /\ m < n /\ ds # << >> /\ pre # << >>
    BY <1>1, <1>5
  <2>2. Over(a, ds, 0, last)
    BY <2>1, AllOver DEF a
  <2> HIDE DEF last, n
  <2>3. VerifyConsistency(m, a.size, TreeHash(pre), TreeHash(ds), ConsistencyProof(a, m))
    BY <1>1, <1>2, <2>1, <2>2, PrefixVerifies
  <2> QED
    BY <1>2, <1>3, <2>3 DEF a, pre, n
<1> QED
  BY <1>4, <1>5

-----------------------------------------------------------------------------
(* What the verifier accepts.                                              *)

\* The hash of two children tells them apart.
LEMMA ChildrenDiffer ==
  ASSUME NEW a, NEW b, NEW c, NEW d, HashChildren(a, b) = HashChildren(c, d)
  PROVE  a = c /\ b = d
BY DEF HashChildren

\* A path has the siblings there are, from a level up to another one.
HasSiblings(last, x, path, from, top) ==
  /\ \A l \in Nat : l < from => l \notin DOMAIN path
  /\ \A l \in Nat : from <= l /\ l < top =>
       (l \in DOMAIN path <=> Sibling(At(x, l)) <= At(last, l))

\* They have their hash in the tree.
RightSiblings(ds, x, path, from, top) ==
  \A l \in Nat : from <= l /\ l < top /\ l \in DOMAIN path =>
    path[l] = NodeHash(ds, l, Sibling(At(x, l)))

\* A climb that ends at the hash of the tree was one over its hashes.
LEMMA ClimbSound ==
  ASSUME NEW ds, NEW last \in Nat, Len(ds) = last + 1, NEW x \in 0..last,
         NEW path, NEW from \in Nat, NEW top \in Nat, from <= top, NEW hash,
         HasSiblings(last, x, path, from, top),
         Climb(x, path, hash)[top] = NodeHash(ds, top, At(x, top))
  PROVE  hash = NodeHash(ds, from, At(x, from)) /\ RightSiblings(ds, x, path, from, top)
<1> DEFINE up == Climb(x, path, hash)
           Right(l) == up[l] = NodeHash(ds, l, At(x, l))
           S  == {l \in Nat : l <= from => up[l] = hash}
           T  == {k \in Nat : from <= top - k => Right(top - k)}
<1>1. /\ up[0] = hash
      /\ \A l \in Nat : up[l + 1] = IF l \notin DOMAIN path THEN up[l]
                                    ELSE IF Odd(At(x, l)) THEN HashChildren(path[l], up[l])
                                    ELSE HashChildren(up[l], path[l])
  <2>1. up[0] = hash
    BY ONLY ClimbDef
  <2>2. ASSUME NEW l \in Nat
        PROVE  up[l + 1] = IF l \notin DOMAIN path THEN up[l]
                           ELSE IF Odd(At(x, l)) THEN HashChildren(path[l], up[l])
                           ELSE HashChildren(up[l], path[l])
    BY ONLY ClimbDef, l \in Nat
  <2> QED
    BY <2>1, <2>2
<1>2. Right(top)
  OBVIOUS
<1> HIDE DEF up
<1>3. up[from] = hash
  <2>1. 0 \in S
    BY <1>1
  <2>2. ASSUME NEW l \in S PROVE l + 1 \in S
    <3>1. l \in Nat /\ l + 1 \in Nat
      OBVIOUS
    <3>2. ASSUME l + 1 <= from PROVE up[l + 1] = hash
      <4>1. l < from /\ l <= from
        BY <3>1, <3>2
      <4>2. l \notin DOMAIN path /\ up[l] = hash
        BY <3>1, <4>1 DEF HasSiblings
      <4> QED
        BY <1>1, <3>1, <4>2
    <3> QED
      BY <3>1, <3>2
  <2>3. S \in SUBSET Nat
    OBVIOUS
  <2> HIDE DEF S
  <2>4. S = Nat
    BY <2>1, <2>2, <2>3, SetInduction
  <2> QED
    BY <2>4 DEF S
<1>4. ASSUME NEW l \in Nat, from <= l, l < top, Right(l + 1)
      PROVE  /\ Right(l)
             /\ l \in DOMAIN path => path[l] = NodeHash(ds, l, Sibling(At(x, l)))
  <2> DEFINE i == At(x, l)
             e == At(last, l)
  <2>1. i \in Nat /\ e \in Nat /\ i <= e
    <3>1. x \in Nat /\ x <= last
      OBVIOUS
    <3> QED
      BY <3>1, AtNat, AtOrder
  <2>2. l \in DOMAIN path <=> Sibling(i) <= e
    BY <1>4 DEF HasSiblings
  <2>3. up[l + 1] = IF l \notin DOMAIN path THEN up[l]
                    ELSE IF Odd(i) THEN HashChildren(path[l], up[l])
                    ELSE HashChildren(up[l], path[l])
    BY <1>1
  <2>4. up[l + 1] = ParentHash(ds, x, l)
    BY <1>4, NodeHashUp
  <2>5. Len(ds) - 1 = last
    OBVIOUS
  <2>6. ParentHash(ds, x, l) =
          IF Odd(i) THEN HashChildren(NodeHash(ds, l, i - 1), NodeHash(ds, l, i))
          ELSE IF i + 1 <= e THEN HashChildren(NodeHash(ds, l, i), NodeHash(ds, l, i + 1))
          ELSE NodeHash(ds, l, i)
    BY <2>5, Zenon DEF ParentHash
  <2> HIDE DEF i, e
  <2>7. CASE Odd(i)
    <3>1. Sibling(i) = i - 1
      BY <2>7 DEF Sibling
    <3>2. Sibling(i) <= e
      BY <2>1, <3>1
    <3>3. HashChildren(path[l], up[l]) = HashChildren(NodeHash(ds, l, i - 1), NodeHash(ds, l, i))
      BY <2>2, <2>3, <2>4, <2>6, <2>7, <3>2
    <3>4. path[l] = NodeHash(ds, l, i - 1) /\ up[l] = NodeHash(ds, l, i)
      BY <3>3, ChildrenDiffer
    <3> QED
      BY <3>1, <3>4 DEF i
  <2>8. CASE ~Odd(i)
    <3>1. Sibling(i) = i + 1
      BY <2>8 DEF Sibling
    <3>2. CASE i + 1 <= e
      <4>1. HashChildren(up[l], path[l]) =
              HashChildren(NodeHash(ds, l, i), NodeHash(ds, l, i + 1))
        BY <2>2, <2>3, <2>4, <2>6, <2>8, <3>1, <3>2
      <4>2. up[l] = NodeHash(ds, l, i) /\ path[l] = NodeHash(ds, l, i + 1)
        BY <4>1, ChildrenDiffer
      <4> QED
        BY <3>1, <4>2 DEF i
    <3>3. CASE ~(i + 1 <= e)
      <4>1. l \notin DOMAIN path /\ up[l] = NodeHash(ds, l, i)
        BY <2>2, <2>3, <2>4, <2>6, <2>8, <3>1, <3>3
      <4> QED
        BY <4>1 DEF i
    <3> QED
      BY <3>2, <3>3
  <2> QED
    BY <2>7, <2>8
<1>5. 0 \in T
  BY <1>2
<1>6. ASSUME NEW k \in T PROVE k + 1 \in T
  <2>1. k \in Nat /\ k + 1 \in Nat /\ (from <= top - k => Right(top - k))
    OBVIOUS
  <2>2. ASSUME from <= top - (k + 1) PROVE Right(top - (k + 1))
    <3> DEFINE l == top - (k + 1)
    <3>1. l \in Nat /\ from <= l /\ l < top /\ l + 1 = top - k /\ from <= top - k
      BY <2>1, <2>2
    <3>2. Right(l + 1)
      BY <2>1, <3>1
    <3> HIDE DEF l, Right
    <3>3. Right(l)
      BY <1>4, <3>1, <3>2
    <3> QED
      BY <3>3 DEF l
  <2> HIDE DEF Right
  <2> QED
    BY <2>1, <2>2
<1>7. T \in SUBSET Nat
  OBVIOUS
<1> HIDE DEF T
<1>8. T = Nat
  BY <1>5, <1>6, <1>7, SetInduction
<1>9. \A l \in Nat : from <= l /\ l <= top => Right(l)
  <2> TAKE l \in Nat
  <2> HAVE from <= l /\ l <= top
  <2>1. top - l \in T
    BY <1>8
  <2>2. top - (top - l) = l
    OBVIOUS
  <2> HIDE DEF Right
  <2> QED
    BY <2>1, <2>2 DEF T
<1>10. hash = NodeHash(ds, from, At(x, from))
  <2>1. from <= from
    OBVIOUS
  <2> QED
    BY <1>3, <1>9, <2>1
<1>11. \A l \in Nat : from <= l /\ l < top => Right(l + 1)
  <2> TAKE l \in Nat
  <2> HAVE from <= l /\ l < top
  <2>1. l + 1 \in Nat /\ from <= l + 1 /\ l + 1 <= top
    OBVIOUS
  <2> HIDE DEF Right
  <2> QED
    BY <1>9, <2>1
<1> HIDE DEF Right
<1> QED
  BY <1>4, <1>10, <1>11 DEF RightSiblings

\* No proof of any kind shows another leaf at its place under the root: the
\* offline verifier accepts a record only where it was committed
\* (verify.go:103-116).
THEOREM OnlyTheLeafIsProved ==
  ASSUME NEW S, NEW ds \in Seq(S), NEW i \in 0..(Len(ds) - 1), NEW d, NEW prf,
         VerifyInclusion(i, Len(ds), d, RootFromLeaves(ds), prf)
  PROVE  d = ds[i + 1]
<1> DEFINE n      == Len(ds)
           last   == n - 1
           levels == PathLevels(i, n, 0)
           path   == PathOf(i, levels, prf)
<1>1. n \in Nat /\ last \in Nat /\ n = last + 1 /\ i \in 0..last /\ i \in Nat /\ ds # << >>
      /\ last <= n /\ i <= n /\ 0 <= n
  <2>1. Len(ds) \in Nat /\ (ds = << >> <=> Len(ds) = 0)
    BY Leaves
  <2> QED
    BY <2>1
<1>2. Climb(i, path, HashLeaf(d))[n] = TreeHash(ds)
  BY RootIsTreeHash DEF VerifyInclusion
<1> HIDE DEF n
<1>3. TreeHash(ds) = NodeHash(ds, n, 0) /\ At(i, n) = 0
  <2>1. Len(ds) = last + 1
    BY <1>1 DEF n
  <2> HIDE DEF last
  <2> QED
    BY <1>1, <2>1, AtBound, TreeHashAt
<1>4. /\ DOMAIN path = levels
      /\ \A l \in Nat : ~(l < 0)
      /\ \A l \in Nat : l < n => l \in 0..n
  BY <1>1 DEF PathOf
<1>5. HasSiblings(last, i, path, 0, n)
  <2>1. \A l \in Nat : l < n => (l \in levels <=> Sibling(At(i, l)) <= At(last, l))
    BY <1>4 DEF PathLevels
  <2> HIDE DEF path, levels
  <2> QED
    BY <1>4, <2>1 DEF HasSiblings
<1>6. HashLeaf(d) = NodeHash(ds, 0, At(i, 0))
  <2> DEFINE leaf == HashLeaf(d)
  <2>1. Climb(i, path, leaf)[n] = NodeHash(ds, n, At(i, n))
    BY <1>2, <1>3
  <2>2. 0 \in Nat /\ Len(ds) = last + 1
    BY <1>1 DEF n
  <2> HIDE DEF leaf, path, last
  <2>3. leaf = NodeHash(ds, 0, At(i, 0))
    <3>1. last \in Nat /\ i \in 0..last /\ n \in Nat /\ 0 <= n
      BY <1>1
    <3>2. leaf = NodeHash(ds, 0, At(i, 0)) /\ RightSiblings(ds, i, path, 0, n)
      BY ONLY <1>5, <2>1, <2>2, <3>1, ClimbSound
    <3> QED
      BY <3>2
  <2> QED
    BY <2>3 DEF leaf
<1>7. NodeHash(ds, 0, At(i, 0)) = HashLeaf(ds[i + 1])
  <2>1. At(i, 0) = i /\ Len(ds) = last + 1
    BY <1>1, AtFacts DEF n
  <2> HIDE DEF last
  <2>2. \A j \in 0..last : NodeHash(ds, 0, j) = HashLeaf(ds[j + 1])
    BY <1>1, <2>1, NodeHashDef
  <2> QED
    BY <1>1, <2>1, <2>2
<1> QED
  BY <1>6, <1>7 DEF HashLeaf

\* No proof of any kind shows another tree to be the earlier one: a log whose
\* first records were changed is not consistent with a head that was signed
\* over them (verify.go:118-134).
THEOREM OnlyThePrefixIsProved ==
  ASSUME NEW S, NEW ds \in Seq(S), NEW m \in 1..Len(ds), NEW root1, NEW prf,
         VerifyConsistency(m, Len(ds), root1, RootFromLeaves(ds), prf)
  PROVE  root1 = RootFromLeaves(SubSeq(ds, 1, m))
<1> DEFINE n      == Len(ds)
           last   == n - 1
           end    == m - 1
           pre    == SubSeq(ds, 1, m)
           level  == Merges(end)
           levels == PathLevels(end, n, level)
           left   == {l \in levels : Odd(At(end, l))}
           start  == <<level, At(end, level)>>
           seed   == IF At(end, level) = 0 THEN root1 ELSE prf[start]
           whole  == PathOf(end, levels, prf)
           part   == PathOf(end, left, prf)
<1>1. /\ n \in Nat /\ last \in Nat /\ n = last + 1 /\ last <= n /\ ds # << >> /\ m \in Nat /\ m <= n
      /\ end \in Nat /\ m = end + 1 /\ end \in 0..last /\ end <= n
      /\ n - 1 = last /\ m \in 0..n
  <2>1. Len(ds) \in Nat /\ (ds = << >> <=> Len(ds) = 0)
    BY Leaves
  <2> QED
    BY <2>1
<1>2. pre \in Seq(S) /\ Len(pre) = m /\ Begins(pre, ds) /\ SubSeq(ds, 1, n) = ds /\ pre # << >>
  <2>1. pre \in Seq(S) /\ Len(pre) = m /\ Begins(pre, ds) /\ SubSeq(ds, 1, n) = ds
    BY <1>1, Leaves
  <2>2. pre = << >> => Len(pre) = 0
    BY <2>1
  <2> QED
    BY <1>1, <2>1, <2>2
<1>3. RootFromLeaves(pre) = TreeHash(pre) /\ RootFromLeaves(ds) = TreeHash(ds)
  BY <1>2, RootIsTreeHash
<1>4. CASE m = n
  <2>1. root1 = RootFromLeaves(ds)
    BY <1>1, <1>4 DEF VerifyConsistency
  <2> QED
    BY <1>2, <1>4, <2>1
<1>5. CASE m # n
  <2>1. /\ Climb(end, part, seed)[n] = root1
        /\ Climb(end, whole, seed)[n] = TreeHash(ds)
    <3>1. m # 0
      BY <1>1
    <3>2. /\ Climb(end, part, seed)[n] = root1
          /\ Climb(end, whole, seed)[n] = RootFromLeaves(ds)
      BY ONLY VerifyConsistency(m, n, root1, RootFromLeaves(ds), prf), <1>5, <3>1, Zenon
         DEF VerifyConsistency
    <3> HIDE DEF whole, part, seed, end, n
    <3> QED
      BY <1>3, <3>2
  <2>2. end < last /\ Len(ds) = last + 1 /\ Len(pre) = end + 1
    <3>1. Len(ds) = last + 1
      BY <1>1
    <3>2. Len(pre) = end + 1
      BY <1>1, <1>2
    <3> HIDE DEF pre, n
    <3> QED
      BY <1>1, <1>5, <3>1, <3>2
  <2>3. DOMAIN whole = levels
    BY DEF PathOf
  <2> HIDE DEF n, last, pre, end
  <2>4. level \in Nat /\ level <= end /\ level <= n
    <3>1. Merges(end) \in 0..end
      BY <1>1, MergesFacts
    <3> QED
      BY <1>1, <3>1
  <2>5. TreeHash(ds) = NodeHash(ds, n, 0) /\ At(end, n) = 0
    BY <1>1, <2>2, AtBound, TreeHashAt
  <2> HIDE DEF level, seed, whole
  <2>6. \A l \in Nat : l < level => l \notin levels
    BY <1>1, <2>4 DEF PathLevels
  <2>7. \A l \in Nat : level <= l /\ l < n =>
          (l \in levels <=> Sibling(At(end, l)) <= At(last, l))
    <3> TAKE l \in Nat
    <3> HAVE level <= l /\ l < n
    <3>1. l \in level..n
      BY <1>1, <2>4
    <3> QED
      BY <1>1, <3>1 DEF PathLevels
  <2>8. levels = PathLevels(end, last + 1, Merges(end))
        /\ \A l \in levels : l \in Nat /\ level <= l /\ l < n
    <3>1. ASSUME NEW l \in levels PROVE l \in Nat /\ level <= l /\ l < n
      <4>1. l \in Nat /\ level <= l /\ l <= n /\ Sibling(At(end, l)) <= At(last, l)
        BY <1>1, <2>4 DEF PathLevels
      <4>2. l # n
        <5>1. At(last, n) = 0
          BY <1>1, AtBound
        <5>2. Sibling(0) = 1
          BY DEF Sibling, Odd
        <5> QED
          BY <2>5, <4>1, <5>1, <5>2
      <4> QED
        BY <1>1, <4>1, <4>2
    <3> QED
      BY <1>1, <3>1 DEF level
  <2> HIDE DEF levels
  <2>9. seed = NodeHash(ds, level, At(end, level)) /\ RightSiblings(ds, end, whole, level, n)
    <3>1. Climb(end, whole, seed)[n] = NodeHash(ds, n, At(end, n))
      BY <2>1, <2>5
    <3>2. last \in Nat /\ Len(ds) = last + 1 /\ end \in 0..last /\ level \in Nat /\ n \in Nat
          /\ level <= n
      BY <1>1, <2>2, <2>4
    <3>3. HasSiblings(last, end, whole, level, n)
      BY <2>3, <2>6, <2>7 DEF HasSiblings
    <3> QED
      BY ONLY <3>1, <3>2, <3>3, ClimbSound
  <2>10. \A l \in levels : prf[SiblingNode(end, l)] = NodeHash(ds, l, Sibling(At(end, l)))
    <3>1. \A l \in levels : whole[l] = prf[SiblingNode(end, l)]
      BY DEF whole, PathOf
    <3> QED
      BY <2>3, <2>8, <2>9, <3>1 DEF RightSiblings
  <2>11. Climb(end, PathOf(end, {l \in levels : Odd(At(end, l))}, prf), seed)[last + 1]
          = TreeHash(pre)
    <3>1. seed = NodeHash(ds, Merges(end), At(end, Merges(end)))
      BY <2>9 DEF level
    <3> QED
      BY <1>1, <1>2, <2>2, <2>8, <2>10, <3>1, EarlierRoot
  <2> QED
    BY <1>1, <1>3, <2>1, <2>11 DEF pre, part, left
<1> QED
  BY <1>4, <1>5

-----------------------------------------------------------------------------
(* The daemon around the tree.                                             *)

\* The longest log there is.
Longest == Log(MaxRecords)

\* The frontier of the first n records, and the frontiers up to a size.
FrontierAt(n) == [size |-> n, hashes |-> Compact(Longest, n)]

Frontiers(limit) == {FrontierAt(n) : n \in 0..limit}

CheckpointRight(c, limit) ==
  /\ c = [seals |-> c.seals, rotated |-> c.rotated, top |-> c.top]
  /\ c.seals \in Seq(Frontiers(limit)) /\ Len(c.seals) <= MaxSeals
  /\ c.rotated \in 0..Len(c.seals)
  /\ c.top \in Frontiers(limit)

\* The signed head over the first n records.
HeadOf(k, n) ==
  LET envelope == [size |-> n, root |-> TreeHash(Log(n))]
  IN  [is        |-> "signed",
       envelope  |-> envelope,
       signature |-> SignMessage(k, "head", envelope),
       publicKey |-> k]

HeadRight(h, limit) == \E k \in Keys : \E n \in 0..limit : h = HeadOf(k, n)

\* A head that the daemon that holds the key took.
HeadFresh(h, k, from, limit) == \E n \in from..limit : h = HeadOf(k, n)

\* The inductive invariant.  Files and memory hold only frontiers and heads of
\* the log as it was; the accumulator is the one of the log from the offset;
\* a head is written only over a log that was replayed to its end.
HeadsInv ==
  /\ faults \in Environments /\ count \in 0..MaxRecords
  /\ Whole(saved) => saved.signature.key \in Keys /\ CheckpointRight(saved.checkpoint, count)
  /\ Whole(head) => HeadRight(head, count)
  /\ proc \in {"down", "booting", "up"}
  /\ IF proc = "down" THEN key = NoKey ELSE key \in Keys
  /\ CheckpointRight(cp, count)
  /\ Accumulates(acc, Longest, offset) /\ acc.size <= count
  /\ proc = "up" => acc.size = count
  /\ booted \in 0..count
  /\ \/ dump = Idle
     \/ /\ proc # "down" /\ acc.size = count
        /\ dump = [at |-> dump.at, head |-> dump.head]
        /\ dump.at \in {"taken", "open"}
        /\ HeadFresh(dump.head, key, booted, count)
  /\ proc = "up" /\ dump.at # "open" /\ "headFault" \notin faults =>
       HeadFresh(head, key, booted, count)

\* The log up to a size: its i-th record is i.
LEMMA LogFacts ==
  ASSUME NEW n \in Nat
  PROVE  /\ Log(n) \in Seq(Nat) /\ Len(Log(n)) = n /\ \A i \in 1..n : Log(n)[i] = i
         /\ Log(n) = << >> <=> n = 0
<1>1. Log(n) \in Seq(Nat) /\ Len(Log(n)) = n /\ \A i \in 1..n : Log(n)[i] = i
  BY DEF Log
<1> HIDE DEF Log
<1>2. Log(n) = << >> <=> Len(Log(n)) = 0
  BY <1>1, Leaves
<1> QED
  BY <1>1, <1>2

\* A log begins with every shorter one.
LEMMA LogPrefix ==
  ASSUME NEW n \in Nat, NEW m \in 0..n
  PROVE  SubSeq(Log(n), 1, m) = Log(m) /\ Begins(Log(m), Log(n))
<1>1. m \in Nat /\ m <= n /\ \A i \in 1..m : i \in 1..n
  OBVIOUS
<1>2. /\ Log(n) \in Seq(Nat) /\ Len(Log(n)) = n /\ (\A i \in 1..n : Log(n)[i] = i)
      /\ Len(Log(m)) = m /\ \A i \in 1..m : Log(m)[i] = i
  BY <1>1, LogFacts
<1>3. SubSeq(Log(n), 1, m) = [i \in 1..m |-> Log(n)[i]]
  <2>1. \A s \in Seq(Nat) : \A k \in 0..Len(s) : SubSeq(s, 1, k) = [i \in 1..k |-> s[i]]
    OBVIOUS
  <2> QED
    BY <1>2, <2>1
<1>4. SubSeq(Log(n), 1, m) = Log(m)
  BY <1>1, <1>2, <1>3 DEF Log
<1> QED
  BY <1>1, <1>2, <1>4 DEF Begins

\* The longest log.
LEMMA LongestFacts ==
  /\ MaxRecords \in Nat /\ Len(Longest) = MaxRecords
  /\ \A i \in 1..MaxRecords : Longest[i] = i
BY HeadsAssumption, LogFacts DEF Longest

\* What was right of the log remains right of a longer one.
LEMMA Grows ==
  ASSUME NEW m \in Nat, NEW n \in Nat, m <= n
  PROVE  /\ \A c : CheckpointRight(c, m) => CheckpointRight(c, n)
         /\ \A h : HeadRight(h, m) => HeadRight(h, n)
         /\ \A h, k : \A b \in Nat : HeadFresh(h, k, b, m) => HeadFresh(h, k, b, n)
<1>1. Frontiers(m) \subseteq Frontiers(n)
  BY DEF Frontiers
<1>2. \A c : CheckpointRight(c, m) => CheckpointRight(c, n)
  <2>1. \A s : s \in Seq(Frontiers(m)) => s \in Seq(Frontiers(n))
    BY <1>1
  <2> QED
    BY <1>1, <2>1 DEF CheckpointRight
<1>3. 0..m \subseteq 0..n /\ \A b \in Nat : b..m \subseteq b..n
  OBVIOUS
<1> QED
  BY <1>2, <1>3 DEF HeadRight, HeadFresh

\* The frontier of a replayed log.
LEMMA FrontierRight ==
  ASSUME NEW a, NEW off, Accumulates(a, Longest, off), NEW limit \in Nat, a.size <= limit
  PROVE  Frontier(a) \in Frontiers(limit)
<1>1. a.size \in 0..limit /\ a.hashes = Compact(Longest, a.size)
  BY DEF Accumulates
<1> QED
  BY <1>1 DEF Frontiers, FrontierAt, Frontier

\* An empty checkpoint and an empty accumulator are right for every log.
LEMMA EmptyRight ==
  ASSUME NEW limit \in Nat
  PROVE  CheckpointRight(EmptyCheckpoint, limit) /\ Accumulates(New, Longest, 0)
         /\ New.size = 0
<1>1. Accumulates(New, Longest, 0) /\ New.size = 0
  BY LongestFacts, NewAccumulates DEF New
<1>2. Frontier(New) \in Frontiers(limit)
  <2>1. New.size <= limit
    BY <1>1
  <2> HIDE DEF New
  <2> QED
    BY <1>1, <2>1, FrontierRight
<1>3. << >> \in Seq(Frontiers(limit)) /\ Len(<< >>) = 0
  OBVIOUS
<1>4. MaxSeals \in Nat /\ 0 <= MaxSeals
  BY HeadsAssumption
<1>5. EmptyCheckpoint = [seals |-> << >>, rotated |-> 0, top |-> Frontier(New)]
  BY DEF EmptyCheckpoint
<1>6. EmptyCheckpoint.seals = << >> /\ EmptyCheckpoint.rotated = 0
      /\ EmptyCheckpoint.top = Frontier(New)
  BY <1>5
<1>7. 0 \in 0..Len(<< >>)
  OBVIOUS
<1> HIDE DEF Frontiers
<1>8. CheckpointRight(EmptyCheckpoint, limit)
  BY <1>2, <1>3, <1>4, <1>5, <1>6, <1>7 DEF CheckpointRight
<1> QED
  BY <1>1, <1>8

\* The root of a replayed log is that of RFC 6962.
LEMMA ReplayedRoot ==
  ASSUME NEW a, NEW off, Accumulates(a, Longest, off)
  PROVE  /\ Accumulates(a, Log(a.size), off) /\ Root(a) = TreeHash(Log(a.size))
         /\ Len(Log(a.size)) = a.size
<1>1. a.size \in Nat /\ a.size <= MaxRecords
  BY LongestFacts DEF Accumulates
<1>2. Len(Log(a.size)) = a.size /\ Begins(Log(a.size), Longest)
      /\ (Log(a.size) = << >> <=> a.size = 0)
  <2>1. a.size \in 0..MaxRecords
    BY <1>1, LongestFacts
  <2> QED
    BY <1>1, <2>1, LongestFacts, LogFacts, LogPrefix DEF Longest
<1>3. Accumulates(a, Log(a.size), off)
  BY <1>2, RestrictAccumulates
<1>4. Log(a.size) = << >> <=> Len(Log(a.size)) = 0
  BY <1>2
<1> QED
  BY <1>2, <1>3, <1>4, RootHash

\* The invariant holds at first.
LEMMA InitEstablishes == Init => HeadsInv
<1> SUFFICES ASSUME Init PROVE HeadsInv
  OBVIOUS
<1>1. CheckpointRight(EmptyCheckpoint, 0) /\ Accumulates(New, Longest, 0) /\ New.size = 0
  BY EmptyRight
<1>2. ~Whole(NoFile)
  BY DEF Whole, NoFile
<1>3. 0 \in 0..MaxRecords /\ 0 \in 0..0 /\ 0 <= 0
  BY HeadsAssumption
<1> QED
  BY <1>1, <1>2, <1>3 DEF Init, HeadsInv

\* What a boot restores from the checkpoint is right for the log.
LEMMA BootRestores ==
  ASSUME NEW c, NEW limit \in Nat, CheckpointRight(c, limit), limit <= MaxRecords
  PROVE  LET a == IF HasAnchors(c) THEN NewFromFrontier(c.top.size, c.top.hashes) ELSE New
         IN  Accumulates(a, Longest, c.top.size) /\ a.size <= limit
<1>1. PICK n \in 0..limit : c.top = FrontierAt(n)
  BY DEF CheckpointRight, Frontiers
<1>2. c.top.size = n /\ c.top.hashes = Compact(Longest, n)
  BY <1>1 DEF FrontierAt
<1>3. Len(Longest) \in Nat /\ n \in Nat /\ n <= Len(Longest) /\ n <= limit
  BY LongestFacts
<1>4. CASE HasAnchors(c)
  <2>1. Accumulates(NewFromFrontier(n, Compact(Longest, n)), Longest, n)
    BY <1>3, FrontierAccumulates
  <2>2. NewFromFrontier(n, Compact(Longest, n)).size = n
    BY DEF NewFromFrontier
  <2> QED
    BY <1>2, <1>3, <1>4, <2>1, <2>2
<1>5. CASE ~HasAnchors(c)
  <2>1. n = 0
    BY <1>2, <1>3, <1>5 DEF HasAnchors
  <2>2. Accumulates(New, Longest, 0) /\ New.size = 0
    BY EmptyRight
  <2> QED
    BY <1>2, <1>3, <1>5, <2>1, <2>2
<1> QED
  BY <1>4, <1>5

\* The log is a natural number of records, and the parts of the invariant.
LEMMA InvFacts ==
  ASSUME HeadsInv
  PROVE  /\ count \in Nat /\ count <= MaxRecords /\ count \in 0..MaxRecords
         /\ CheckpointRight(cp, count) /\ Accumulates(acc, Longest, offset)
         /\ acc.size \in Nat /\ acc.size <= count
         /\ booted \in Nat /\ booted <= count
BY LongestFacts DEF HeadsInv, Accumulates

\* A boot takes over a checkpoint that is right and continues the tree behind it.
LEMMA BootKeeps ==
  ASSUME HeadsInv, NEW k \in Keys, Boot(k)
  PROVE  HeadsInv'
<1> DEFINE c == SavedCheckpoint
<1>1. CheckpointRight(c, count)
  <2>1. CASE Whole(saved)
    BY <2>1 DEF HeadsInv, SavedCheckpoint
  <2>2. CASE ~Whole(saved)
    BY <2>2, InvFacts, EmptyRight DEF SavedCheckpoint
  <2> QED
    BY <2>1, <2>2
<1>2. /\ proc = "down" /\ proc' = "booting" /\ key' = k /\ cp' = c
      /\ acc' = IF HasAnchors(c) THEN NewFromFrontier(c.top.size, c.top.hashes) ELSE New
      /\ offset' = c.top.size /\ booted' = count
      /\ UNCHANGED <<faults, count, saved, head, dump>>
  BY DEF Boot
<1> HIDE DEF c
<1>3. Accumulates(acc', Longest, offset') /\ acc'.size <= count
  BY <1>1, <1>2, InvFacts, BootRestores
<1>4. dump = Idle
  BY <1>2 DEF HeadsInv
<1>5. booted' \in 0..count
  BY <1>2, InvFacts
<1> QED
  BY <1>1, <1>2, <1>3, <1>4, <1>5 DEF HeadsInv

\* An accumulator that is given the next record.
LEMMA NextRecord ==
  ASSUME HeadsInv, acc.size < MaxRecords
  PROVE  /\ Accumulates(AppendLeaf(acc, acc.size + 1), Longest, offset)
         /\ AppendLeaf(acc, acc.size + 1).size = acc.size + 1
<1>1. Accumulates(acc, Longest, offset) /\ acc.size \in Nat
  BY InvFacts
<1>2. acc.size < Len(Longest) /\ Longest[acc.size + 1] = acc.size + 1
  <2>1. acc.size + 1 \in 1..MaxRecords
    BY <1>1, LongestFacts
  <2> QED
    BY <2>1, LongestFacts
<1>3. /\ Accumulates(AppendLeaf(acc, Longest[acc.size + 1]), Longest, offset)
      /\ AppendLeaf(acc, Longest[acc.size + 1]).size = acc.size + 1
  BY <1>1, <1>2, AppendAccumulates
<1> QED
  BY <1>2, <1>3

\* The replayed record is the next one of the log.
LEMMA BootReplaysKeeps ==
  ASSUME HeadsInv, BootReplays
  PROVE  HeadsInv'
<1>1. /\ proc = "booting" /\ acc.size < count /\ acc' = AppendLeaf(acc, acc.size + 1)
      /\ UNCHANGED <<faults, count, saved, head, proc, key, cp, offset, dump, booted>>
  BY DEF BootReplays
<1>2. Accumulates(acc', Longest, offset') /\ acc'.size <= count
  <2>1. acc.size < MaxRecords /\ acc.size + 1 <= count
    BY <1>1, InvFacts, LongestFacts
  <2> QED
    BY <1>1, <2>1, NextRecord
<1>3. dump = Idle
  <2>1. acc.size # count
    BY <1>1, InvFacts
  <2> QED
    BY <2>1 DEF HeadsInv
<1> QED
  BY <1>1, <1>2, <1>3 DEF HeadsInv

\* What is left when the process dies.
LEMMA DiesKeeps ==
  ASSUME HeadsInv, Dies, UNCHANGED <<faults, count, saved, head>>
  PROVE  HeadsInv'
<1>1. /\ proc' = "down" /\ key' = NoKey /\ cp' = EmptyCheckpoint /\ acc' = New /\ offset' = 0
      /\ dump' = Idle /\ booted' = 0
  BY DEF Dies
<1>2. count \in Nat /\ 0 \in 0..count /\ 0 <= count
  BY InvFacts
<1>3. CheckpointRight(EmptyCheckpoint, count) /\ Accumulates(New, Longest, 0) /\ New.size = 0
  BY <1>2, EmptyRight
<1> QED
  BY <1>1, <1>2, <1>3 DEF HeadsInv

\* An admitted record is the next leaf, and heads of the log so far stay right.
LEMMA AdmitKeeps ==
  ASSUME HeadsInv, Admit
  PROVE  HeadsInv'
<1>1. /\ proc = "up" /\ count < MaxRecords /\ count' = count + 1 /\ acc' = AppendLeaf(acc, count')
      /\ UNCHANGED <<faults, saved, head, proc, key, cp, offset, dump, booted>>
  BY DEF Admit
<1>2. acc.size = count
  BY <1>1 DEF HeadsInv
<1>3. /\ count \in Nat /\ count' \in Nat /\ count <= count' /\ count' \in 0..MaxRecords
      /\ booted \in Nat /\ booted \in 0..count'
  BY <1>1, InvFacts, LongestFacts
<1>4. Accumulates(acc', Longest, offset') /\ acc'.size = count'
  BY <1>1, <1>2, NextRecord
<1>5. acc'.size <= count'
  BY <1>3, <1>4
<1>6. /\ Whole(saved) => CheckpointRight(saved.checkpoint, count')
      /\ Whole(head) => HeadRight(head, count')
      /\ CheckpointRight(cp, count')
      /\ \A h : HeadFresh(h, key, booted, count) => HeadFresh(h, key, booted, count')
  BY <1>3, Grows DEF HeadsInv
<1> QED
  BY <1>1, <1>3, <1>4, <1>5, <1>6 DEF HeadsInv

\* A checkpoint that is right is written under the daemon's key.
LEMMA CheckpointSaved ==
  ASSUME HeadsInv, proc = "up", CheckpointRight(cp', count), saved' = SignedCheckpoint(cp'),
         UNCHANGED <<faults, count, head, proc, key, acc, offset, dump, booted>>
  PROVE  HeadsInv'
<1>1. saved'.checkpoint = cp' /\ saved'.signature.key = key
  BY DEF SignedCheckpoint, SignMessage
<1>2. key \in Keys
  BY DEF HeadsInv
<1> QED
  BY <1>1, <1>2 DEF HeadsInv

\* The frontier of a seal is that of the whole log.
LEMMA SealKeeps ==
  ASSUME HeadsInv, Seal
  PROVE  HeadsInv'
<1>1. /\ proc = "up" /\ Len(cp.seals) < MaxSeals
      /\ cp' = [cp EXCEPT !.seals = Append(@, Frontier(acc))]
      /\ saved' = SignedCheckpoint(cp')
      /\ UNCHANGED <<faults, count, head, proc, key, acc, offset, dump, booted>>
  BY DEF Seal
<1>2. Frontier(acc) \in Frontiers(count)
  BY InvFacts, FrontierRight
<1> DEFINE seals == Append(cp.seals, Frontier(acc))
<1>3. /\ cp = [seals |-> cp.seals, rotated |-> cp.rotated, top |-> cp.top]
      /\ cp.seals \in Seq(Frontiers(count)) /\ cp.rotated \in 0..Len(cp.seals)
      /\ cp.top \in Frontiers(count)
  BY InvFacts DEF CheckpointRight
<1>4. cp' = [seals |-> seals, rotated |-> cp.rotated, top |-> cp.top]
  BY <1>1, <1>3
<1>5. seals \in Seq(Frontiers(count)) /\ Len(seals) = Len(cp.seals) + 1
  <2> HIDE DEF Frontiers, Frontier
  <2> QED
    BY <1>2, <1>3
<1>6. Len(seals) <= MaxSeals /\ cp.rotated \in 0..Len(seals)
  <2>1. Len(cp.seals) \in Nat
    BY <1>3
  <2> HIDE DEF seals
  <2> QED
    BY <1>1, <1>3, <1>5, <2>1, HeadsAssumption
<1> HIDE DEF seals
<1>7. CheckpointRight(cp', count)
  BY <1>3, <1>4, <1>5, <1>6 DEF CheckpointRight
<1> QED
  BY <1>1, <1>7, CheckpointSaved

\* The frontier a rotation promotes is one that was sealed.
LEMMA RotateKeeps ==
  ASSUME HeadsInv, Rotate
  PROVE  HeadsInv'
<1>1. /\ proc = "up" /\ cp.rotated < Len(cp.seals)
      /\ cp' = [cp EXCEPT !.rotated = @ + 1, !.top = cp.seals[cp.rotated + 1]]
      /\ saved' = SignedCheckpoint(cp')
      /\ UNCHANGED <<faults, count, head, proc, key, acc, offset, dump, booted>>
  BY DEF Rotate
<1>2. /\ cp = [seals |-> cp.seals, rotated |-> cp.rotated, top |-> cp.top]
      /\ cp.seals \in Seq(Frontiers(count)) /\ Len(cp.seals) <= MaxSeals
      /\ cp.rotated \in 0..Len(cp.seals) /\ cp.top \in Frontiers(count)
  BY InvFacts DEF CheckpointRight
<1>3. cp' = [seals |-> cp.seals, rotated |-> cp.rotated + 1, top |-> cp.seals[cp.rotated + 1]]
  BY <1>1, <1>2
<1>4. Len(cp.seals) \in Nat /\ cp.rotated + 1 \in 1..Len(cp.seals)
      /\ cp.rotated + 1 \in 0..Len(cp.seals)
  <2>1. Len(cp.seals) \in Nat
    BY <1>2
  <2> QED
    BY <1>1, <1>2, <2>1
<1>5. cp.seals[cp.rotated + 1] \in Frontiers(count)
  <2> HIDE DEF Frontiers
  <2> QED
    BY <1>2, <1>4
<1>6. CheckpointRight(cp', count)
  BY <1>2, <1>3, <1>4, <1>5 DEF CheckpointRight
<1> QED
  BY <1>1, <1>6, CheckpointSaved

\* A served proof leaves border nodes in the map, and nothing else changes.
LEMMA ServesProofKeeps ==
  ASSUME HeadsInv, ServesProof
  PROVE  HeadsInv'
<1>1. /\ proc = "up" /\ acc' = AfterRoot(acc)
      /\ UNCHANGED <<faults, count, saved, head, proc, key, cp, offset, dump, booted>>
  BY DEF ServesProof
<1>2. Accumulates(acc', Longest, offset) /\ acc'.size = acc.size
  BY <1>1, InvFacts, AfterRootAccumulates
<1> QED
  BY <1>1, <1>2 DEF HeadsInv

\* The head that is taken is that of the whole log.
LEMMA DumpTakesKeeps ==
  ASSUME HeadsInv, DumpTakes
  PROVE  HeadsInv'
<1>1. /\ proc # "down" /\ acc.size = count /\ dump = Idle
      /\ dump' = [at |-> "taken", head |-> SignHead(key, acc)] /\ acc' = AfterRoot(acc)
      /\ UNCHANGED <<faults, count, saved, head, proc, key, cp, offset, booted>>
  BY DEF DumpTakes
<1>2. Accumulates(acc', Longest, offset) /\ acc'.size = acc.size
  BY <1>1, InvFacts, AfterRootAccumulates
<1>3. SignHead(key, acc) = HeadOf(key, count)
  <2>1. Root(acc) = TreeHash(Log(count))
    BY <1>1, InvFacts, ReplayedRoot
  <2> QED
    BY <1>1, <2>1 DEF SignHead, HeadOf
<1>4. HeadFresh(SignHead(key, acc), key, booted, count)
  <2>1. count \in booted..count
    BY InvFacts
  <2> QED
    BY <1>3, <2>1 DEF HeadFresh
<1>5. dump'.at = "taken" /\ dump'.head = SignHead(key, acc)
      /\ dump' = [at |-> dump'.at, head |-> dump'.head] /\ Idle.at = "idle"
  BY <1>1 DEF Idle
<1> QED
  BY <1>1, <1>2, <1>4, <1>5 DEF HeadsInv

\* A head that is being written can not be read, and is still fresh in memory.
LEMMA DumpTruncatesKeeps ==
  ASSUME HeadsInv, DumpTruncates
  PROVE  HeadsInv'
<1>1. /\ dump.at = "taken" /\ head' = Torn /\ dump' = [dump EXCEPT !.at = "open"]
      /\ UNCHANGED <<faults, count, saved, proc, key, cp, acc, offset, booted>>
  BY DEF DumpTruncates
<1>2. dump # Idle
  BY <1>1 DEF Idle
<1>3. dump = [at |-> dump.at, head |-> dump.head]
  BY <1>2 DEF HeadsInv
<1>4. dump' = [at |-> "open", head |-> dump.head]
  BY <1>1, <1>3
<1>5. dump'.at = "open" /\ dump'.head = dump.head /\ dump' = [at |-> dump'.at, head |-> dump'.head]
  BY <1>4
<1>6. ~Whole(head')
  BY <1>1 DEF Whole, Torn
<1> QED
  BY <1>1, <1>2, <1>5, <1>6 DEF HeadsInv

\* The head that is written is the one that was taken, though the log has grown.
LEMMA DumpWritesKeeps ==
  ASSUME HeadsInv, DumpWrites
  PROVE  HeadsInv'
<1>1. /\ dump.at = "open" /\ head' = dump.head /\ dump' = Idle /\ proc' = "up"
      /\ UNCHANGED <<faults, count, saved, key, cp, acc, offset, booted>>
  BY DEF DumpWrites
<1>2. dump # Idle
  BY <1>1 DEF Idle
<1>3. proc # "down" /\ acc.size = count /\ HeadFresh(dump.head, key, booted, count)
  BY <1>2 DEF HeadsInv
<1>4. key \in Keys
  BY <1>3 DEF HeadsInv
<1>5. HeadRight(head', count)
  <2>1. booted..count \subseteq 0..count
    BY InvFacts
  <2> QED
    BY <1>1, <1>3, <1>4, <2>1 DEF HeadFresh, HeadRight
<1> QED
  BY <1>1, <1>3, <1>4, <1>5 DEF HeadsInv

\* A write that fails leaves a torn head, which only a fault excuses.
LEMMA DumpFailsKeeps ==
  ASSUME HeadsInv, DumpFails
  PROVE  HeadsInv'
<1>1. "headFault" \in faults /\ UNCHANGED <<faults, count, saved, head>>
  BY DEF DumpFails
<1>2. CASE proc = "booting" /\ Dies
  BY <1>1, <1>2, DiesKeeps
<1>3. CASE proc = "up" /\ dump' = Idle /\ UNCHANGED <<proc, key, cp, acc, offset, booted>>
  BY <1>1, <1>3 DEF HeadsInv
<1> QED
  BY <1>2, <1>3 DEF DumpFails

\* Every step keeps the invariant.
LEMMA StepKeeps == HeadsInv /\ [Next]_vars => HeadsInv'
<1> SUFFICES ASSUME HeadsInv, [Next]_vars PROVE HeadsInv'
  OBVIOUS
<1>1. ASSUME NEW k \in Keys, Boot(k) PROVE HeadsInv'
  BY <1>1, BootKeeps
<1>2. CASE BootReplays
  BY <1>2, BootReplaysKeeps
<1>3. CASE Crash
  BY <1>3, DiesKeeps DEF Crash
<1>4. CASE Admit
  BY <1>4, AdmitKeeps
<1>5. CASE Seal
  BY <1>5, SealKeeps
<1>6. CASE Rotate
  BY <1>6, RotateKeeps
<1>7. CASE ServesProof
  BY <1>7, ServesProofKeeps
<1>8. CASE DumpTakes
  BY <1>8, DumpTakesKeeps
<1>9. CASE DumpTruncates
  BY <1>9, DumpTruncatesKeeps
<1>10. CASE DumpWrites
  BY <1>10, DumpWritesKeeps
<1>11. CASE DumpFails
  BY <1>11, DumpFailsKeeps
<1>12. CASE UNCHANGED vars
  BY <1>12 DEF HeadsInv, vars, daemon
<1> QED
  BY <1>1, <1>2, <1>3, <1>4, <1>5, <1>6, <1>7, <1>8, <1>9, <1>10, <1>11, <1>12 DEF Next

-----------------------------------------------------------------------------
(* What the invariant says of the checked properties.                      *)

\* A frontier of the log has the shape of a compact range.
LEMMA FrontierShape ==
  ASSUME NEW limit \in Nat, limit <= MaxRecords
  PROVE  \A f \in Frontiers(limit) : FrontierOK(f)
<1> SUFFICES ASSUME NEW n \in 0..limit PROVE FrontierOK(FrontierAt(n))
  BY DEF Frontiers
<1>1. FrontierAt(n).size = n /\ FrontierAt(n).hashes = Compact(Longest, n)
  BY DEF FrontierAt
<1>2. n \in Sizes
  BY LongestFacts DEF Sizes
<1>3. DOMAIN Compact(Longest, n) = Cover(n)
  BY DEF Compact
<1> QED
  BY <1>1, <1>2, <1>3 DEF FrontierOK, FrontierFits

\* So every checkpoint that is right has frontiers of a fitting shape.
LEMMA CheckpointShape ==
  ASSUME NEW c, NEW limit \in Nat, limit <= MaxRecords, CheckpointRight(c, limit)
  PROVE  CheckpointOK(c)
<1>1. \A f \in Frontiers(limit) : FrontierOK(f)
  BY FrontierShape
<1>2. /\ c.seals \in Seq(Frontiers(limit)) /\ Len(c.seals) <= MaxSeals
      /\ c.rotated \in 0..Len(c.seals) /\ c.top \in Frontiers(limit)
  BY DEF CheckpointRight
<1>3. \A i \in DOMAIN c.seals : c.seals[i] \in Frontiers(limit)
  <2> HIDE DEF Frontiers
  <2> QED
    BY <1>2
<1> QED
  BY <1>1, <1>2, <1>3 DEF CheckpointOK

\* A head that is right is signed, by an operator's key, over a size of the log.
LEMMA HeadFields ==
  ASSUME NEW k, NEW n
  PROVE  /\ HeadOf(k, n).is = "signed" /\ Whole(HeadOf(k, n))
         /\ HeadOf(k, n).publicKey = k
         /\ HeadOf(k, n).envelope = [size |-> n, root |-> TreeHash(Log(n))]
         /\ HeadOf(k, n).envelope.size = n
         /\ HeadOf(k, n).envelope.root = TreeHash(Log(n))
         /\ VerifyHead(HeadOf(k, n), k)
<1> DEFINE envelope == [size |-> n, root |-> TreeHash(Log(n))]
<1>1. HeadOf(k, n) = [is |-> "signed", envelope |-> envelope,
                      signature |-> SignMessage(k, "head", envelope), publicKey |-> k]
  BY DEF HeadOf
<1>2. envelope.size = n /\ envelope.root = TreeHash(Log(n))
  OBVIOUS
<1> HIDE DEF envelope
<1>3. /\ HeadOf(k, n).is = "signed" /\ HeadOf(k, n).publicKey = k
      /\ HeadOf(k, n).envelope = envelope
      /\ HeadOf(k, n).signature = SignMessage(k, "head", envelope)
  BY <1>1
<1>4. VerifyHead(HeadOf(k, n), k)
  BY <1>3 DEF VerifyHead, VerifyMessage
<1> QED
  BY <1>2, <1>3, <1>4 DEF Whole, envelope

\* The invariant has the type invariant in it.
LEMMA InvTypes == HeadsInv => TypeOK
<1> SUFFICES ASSUME HeadsInv PROVE TypeOK
  OBVIOUS
<1>1. /\ count \in Nat /\ count <= MaxRecords /\ MaxRecords \in Nat
      /\ Accumulates(acc, Longest, offset) /\ acc.size \in Nat /\ acc.size <= count
      /\ booted \in Nat /\ booted <= count
  BY InvFacts, LongestFacts
<1>2. offset \in Nat /\ offset <= acc.size
  BY <1>1 DEF Accumulates
<1>3. faults \in Environments /\ count \in Sizes /\ offset \in Sizes /\ booted \in Sizes
  <2>1. count \in 0..MaxRecords /\ offset \in 0..MaxRecords /\ booted \in 0..MaxRecords
    BY <1>1, <1>2
  <2> QED
    BY <2>1 DEF HeadsInv, Sizes
<1>4. Whole(saved) => saved.signature.key \in Keys /\ CheckpointOK(saved.checkpoint)
  BY <1>1, CheckpointShape DEF HeadsInv
<1>5. Whole(head) => head.publicKey \in Keys /\ head.envelope.size \in Sizes
  <2> SUFFICES ASSUME Whole(head)
               PROVE  head.publicKey \in Keys /\ head.envelope.size \in Sizes
    OBVIOUS
  <2>1. PICK k \in Keys, n \in 0..count : head = HeadOf(k, n)
    BY DEF HeadsInv, HeadRight
  <2>2. n \in Sizes
    BY <1>1 DEF Sizes
  <2>3. head.publicKey = k /\ head.envelope.size = n
    BY <2>1, HeadFields
  <2> QED
    BY <2>1, <2>2, <2>3
<1>6. proc \in {"down", "booting", "up"} /\ key \in Keys \cup {NoKey}
      /\ (key = NoKey <=> proc = "down")
  BY HeadsAssumption DEF HeadsInv
<1>7. CheckpointOK(cp)
  BY <1>1, InvFacts, CheckpointShape
<1>8. FrontierOK(Frontier(acc))
  <2>1. Frontier(acc) \in Frontiers(count)
    BY <1>1, FrontierRight
  <2> QED
    BY <1>1, <2>1, FrontierShape
<1>9. \A id \in DOMAIN acc.nodes : id[1] \in Sizes /\ id[2] \in Sizes
  <2>1. \A id \in DOMAIN acc.nodes : id \in (0..acc.size) \X (0..acc.size)
    BY <1>1 DEF Accumulates
  <2>2. 0..acc.size \subseteq Sizes
    BY <1>1 DEF Sizes
  <2> HIDE DEF Sizes
  <2> QED
    BY <2>1, <2>2
<1>10. dump.at \in {"idle", "taken", "open"}
  <2>1. Idle.at = "idle"
    BY DEF Idle
  <2> QED
    BY <2>1 DEF HeadsInv
<1> QED
  BY <1>3, <1>4, <1>5, <1>6, <1>7, <1>8, <1>9, <1>10 DEF TypeOK

\* An accumulator of the whole log serves the proofs of the log.
LEMMA InvServes == HeadsInv => TreeServesLog
<1> SUFFICES ASSUME HeadsInv, proc = "up"
             PROVE  /\ acc.size = count /\ Root(acc) = TreeHash(Log(count))
                    /\ \A i \in 0..(count - 1) :
                         IF i < offset THEN ServedProof(i) = Missing
                         ELSE VerifyInclusion(i, count, i + 1, TreeHash(Log(count)),
                                              ServedProof(i))
  BY DEF TreeServesLog
<1>1. acc.size = count
  BY DEF HeadsInv
<1>2. count \in Nat /\ Accumulates(acc, Longest, offset)
  BY InvFacts
<1>3. Accumulates(acc, Log(count), offset) /\ Root(acc) = TreeHash(Log(count))
      /\ Len(Log(count)) = count
  BY <1>1, <1>2, ReplayedRoot
<1>4. ASSUME NEW i \in 0..(count - 1), i < offset
      PROVE  ServedProof(i) = Missing
  BY <1>4 DEF ServedProof
<1>5. ASSUME NEW i \in 0..(count - 1), ~(i < offset)
      PROVE  VerifyInclusion(i, count, i + 1, TreeHash(Log(count)), ServedProof(i))
  <2>1. /\ count - 1 \in Nat /\ count = (count - 1) + 1 /\ count # 0
        /\ i \in Nat /\ i <= count - 1 /\ i + 1 \in 1..count /\ ~(i >= count)
    BY <1>2
  <2>2. offset \in Nat /\ offset <= i
    BY <1>3, <1>5, <2>1 DEF Accumulates
  <2>3. Over(acc, Log(count), offset, count - 1)
    BY <1>1, <1>3, <2>1 DEF Over
  <2>4. Log(count) # << >> /\ Log(count)[i + 1] = i + 1
    BY <1>2, <2>1, LogFacts
  <2>5. VerifyInclusion(i, acc.size, Log(count)[i + 1], TreeHash(Log(count)),
                        InclusionProof(acc, i))
    BY <2>1, <2>2, <2>3, <2>4, InclusionVerifies
  <2>6. ServedProof(i) = InclusionProof(acc, i)
    BY <1>5, <2>1 DEF ServedProof
  <2> QED
    BY <1>1, <2>4, <2>5, <2>6
<1> QED
  BY <1>1, <1>3, <1>4, <1>5

\* The offline verifier accepts a head that is right over the log it is of.
LEMMA HeadAccepted ==
  ASSUME NEW k, NEW n \in Nat
  PROVE  /\ VerifyStore(Log(n), HeadOf(k, n), k)
         /\ \A m \in 0..n : ProvesConsistency(Log(n), m)
<1>1. Log(n) \in Seq(Nat) /\ Len(Log(n)) = n
  BY LogFacts
<1>2. RootFromLeaves(Log(n)) = TreeHash(Log(n))
  BY <1>1, RootIsTreeHash
<1>3. /\ HeadOf(k, n).envelope.size = n /\ HeadOf(k, n).envelope.root = TreeHash(Log(n))
      /\ VerifyHead(HeadOf(k, n), k)
  BY HeadFields
<1>4. \A i \in 0..(Len(Log(n)) - 1) :
        VerifyInclusion(i, Len(Log(n)), Log(n)[i + 1], RootFromLeaves(Log(n)),
                        InclusionProof(AppendLeaves(New, Log(n)), i))
  BY <1>1, EveryLeafIsProved
<1>5. \A m \in 0..Len(Log(n)) :
        VerifyConsistency(m, Len(Log(n)), RootFromLeaves(SubSeq(Log(n), 1, m)),
                          RootFromLeaves(Log(n)),
                          ConsistencyProof(AppendLeaves(New, Log(n)), m))
  BY <1>1, EveryPrefixIsProved
<1>6. VerifyStore(Log(n), HeadOf(k, n), k)
  BY <1>1, <1>2, <1>3, <1>4 DEF VerifyStore
<1> QED
  BY <1>1, <1>5, <1>6 DEF ProvesConsistency

\* A head of the log as it was is one the offline verifier accepts.
LEMMA InvVerifies == HeadsInv => HeadVerifies
<1> SUFFICES ASSUME HeadsInv PROVE HeadVerifies
  OBVIOUS
<1>1. count \in Nat /\ booted \in Nat
  BY InvFacts
<1>2. ASSUME Whole(head)
      PROVE  /\ head.envelope.size <= count
             /\ VerifyStore(Log(head.envelope.size), head, head.publicKey)
             /\ \A m \in 0..head.envelope.size :
                  ProvesConsistency(Log(head.envelope.size), m)
  <2>1. PICK k \in Keys, n \in 0..count : head = HeadOf(k, n)
    BY <1>2 DEF HeadsInv, HeadRight
  <2>2. n \in Nat /\ n <= count
    BY <1>1
  <2>3. head.envelope.size = n /\ head.publicKey = k
    BY <2>1, HeadFields
  <2> QED
    BY <2>1, <2>2, <2>3, HeadAccepted
<1>3. ASSUME proc = "up", dump.at # "open", "headFault" \notin faults
      PROVE  Whole(head) /\ head.envelope.size >= booted /\ head.publicKey = key
  <2>1. PICK n \in booted..count : head = HeadOf(key, n)
    BY <1>3 DEF HeadsInv, HeadFresh
  <2>2. n >= booted
    BY <1>1
  <2>3. Whole(head) /\ head.envelope.size = n /\ head.publicKey = key
    BY <2>1, HeadFields
  <2> QED
    BY <2>2, <2>3
<1> QED
  BY <1>2, <1>3 DEF HeadVerifies

-----------------------------------------------------------------------------
(* The theorems.                                                           *)

\* Files and memory hold only frontiers and heads of the log as it was, and
\* the accumulator is that of the log (store.go:160-266, main.go:145-151).
THEOREM FilesMatchLog == Spec => []HeadsInv
<1>1. Init => HeadsInv
  BY InitEstablishes
<1>2. HeadsInv /\ [Next]_vars => HeadsInv'
  BY StepKeeps
<1> QED
  BY <1>1, <1>2, PTL DEF Spec

\* Every frontier, of the accumulator and in the checkpoint, has the shape of
\* a compact range of its size: a boot is never refused for it
\* (merkletree.go:66-85).
THEOREM HeadsTyped == Spec => []TypeOK
BY FilesMatchLog, InvTypes, PTL

\* However often the log was sealed, rotated and recovered, the store's root
\* is that of the whole log, and every record behind the rotated prefix is
\* proved under it (merkletree.go:59-65, store.go:266-269).
THEOREM ServedProofsVerify == Spec => []TreeServesLog
BY FilesMatchLog, InvServes, PTL

\* Every head file is accepted by the offline verifier over the log it is of,
\* and without a fault of the disk it covers what was there at the start
\* (main.go:145-151, verify.go:86-134).
THEOREM HeadFileVerifies == Spec => []HeadVerifies
BY FilesMatchLog, InvVerifies, PTL
=============================================================================
