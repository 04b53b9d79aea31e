---------------------------- MODULE MerkleTree ----------------------------
(***************************************************************************)
(* The Merkle tree over the committed log (internal/merkletree): the       *)
(* accumulator that grows with every record and remembers node hashes for  *)
(* proofs, its continuation from a frontier, and the verifier's side.      *)
(*                                                                         *)
(* A hash is the tree of what was hashed: a leaf <<"leaf", d>> or a node   *)
(* <<"node", l, r>>.  Two hashes are equal exactly when they cover the     *)
(* same data in the same shape.  A node of the tree has the identifier     *)
(* <<level, index>> and covers the leaves index * 2^level and following.   *)
(*                                                                         *)
(* The library the package wraps (transparency-dev/merkle) is external: it *)
(* is modelled by what RFC 6962 says its results are, level by level.  Its *)
(* lists of hashes are functions here, from the level or the node a hash   *)
(* belongs to: which ones a list has follows from sizes and indexes, and   *)
(* its order is that of the levels.                                        *)
(***************************************************************************)
EXTENDS Integers, Sequences, FiniteSetsExt

HashLeaf(d)        == <<"leaf", d>>
HashChildren(l, r) == <<"node", l, r>>
EmptyRoot          == <<"empty">>

\* The number of leaves under a node of a level.
Width[l \in Nat] == IF l = 0 THEN 1 ELSE 2 * Width[l - 1]

\* The index at level l of the node over leaf x; the number of complete nodes
\* at level l of a tree with x leaves.
At(x, l) == x \div Width[l]

Odd(x) == x % 2 = 1

-----------------------------------------------------------------------------
(* RFC 6962, section 2.1: the hashes of all nodes, row by row.  The last   *)
(* node of a row goes up as it is when it has no sibling.                  *)

Rows(leaves) ==
  LET row[l \in Nat] ==
        IF l = 0 THEN [j \in 0..(Len(leaves) - 1) |-> HashLeaf(leaves[j + 1])]
        ELSE [j \in 0..At(Len(leaves) - 1, l) |->
                IF 2 * j < At(Len(leaves) - 1, l - 1)
                THEN HashChildren(row[l - 1][2 * j], row[l - 1][2 * j + 1])
                ELSE row[l - 1][2 * j]]
  IN  row

TreeHash(leaves) ==
  IF leaves = << >> THEN EmptyRoot ELSE Rows(leaves)[Len(leaves)][0]

\* The hash a hash becomes at each level on the way up from leaf m, when it
\* meets the hashes of "path" at their levels.
Climb(m, path, hash) ==
  LET up[l \in Nat] ==
        IF l = 0 THEN hash
        ELSE IF l - 1 \notin DOMAIN path THEN up[l - 1]
        ELSE IF Odd(At(m, l - 1)) THEN HashChildren(path[l - 1], up[l - 1])
        ELSE HashChildren(up[l - 1], path[l - 1])
  IN  up

\* The first level at which the node over leaf x is a left child: so often are
\* subtrees merged when it is appended.
Merges(x) == Min({l \in 0..x : ~Odd(At(x, l))})

-----------------------------------------------------------------------------
(* Which nodes there are.                                                  *)

\* The perfect subtrees the first n leaves are made of, one at a level at most.
Cover(n) == {l \in 0..n : Odd(At(n, l))}

CoverNode(n, l) == <<l, At(n, l) - 1>>

IsComplete(n, id) == id[2] < At(n, id[1])

\* The perfect subtrees behind a node of the right border.
Behind(n, id) == {l \in Cover(n) : l < id[1]}

Sibling(j) == IF Odd(j) THEN j - 1 ELSE j + 1

\* The siblings on the way up from leaf m, from a level on.
PathLevels(m, n, from) == {l \in from..n : Sibling(At(m, l)) <= At(n - 1, l)}

SiblingNode(m, l) == <<l, Sibling(At(m, l))>>

InclusionNodes(m, n) == {SiblingNode(m, l) : l \in PathLevels(m, n, 0)}

\* The largest subtree that ends the first m leaves, unless it is all of them,
\* and the siblings on the way up from it.
ConsistencyNodes(m, n) ==
  LET level == Merges(m - 1)
  IN  {SiblingNode(m - 1, l) : l \in PathLevels(m - 1, n, level)}
        \cup {id \in {<<level, At(m - 1, level)>>} : id[2] > 0}

\* Hashes of perfect subtrees hashed together from the right: the node of the
\* right border at each level above them.
Border(n, hashes) ==
  LET low == Min(DOMAIN hashes)
  IN  Climb(n, [l \in DOMAIN hashes \ {low} |-> hashes[l]], hashes[low])

-----------------------------------------------------------------------------
(* The accumulator: number of leaves, hashes of the compact range over     *)
(* them, and every node hash it has seen.                                  *)

\* Seeded fault: a node that is known keeps its hash.
RecordOnce(nodes, seen) ==
  [id \in DOMAIN nodes \cup DOMAIN seen |->
     IF id \in DOMAIN nodes THEN nodes[id] ELSE seen[id]]

\* The map with the nodes of the second one entered, whatever was there.
Record(nodes, seen) ==
  [id \in DOMAIN nodes \cup DOMAIN seen |->
     IF id \in DOMAIN seen THEN seen[id] ELSE nodes[id]]

New == [size |-> 0, hashes |-> << >>, nodes |-> << >>]

\* NewRange refuses a number of hashes that does not fit the size.
FrontierFits(size, hashes) == DOMAIN hashes = Cover(size)

\* The level of the largest perfect subtree at "begin" that ends by "end".
LargestAlignedSubtree(begin, end) ==
  Max({l \in 0..end : begin % Width[l] = 0 /\ begin + Width[l] <= end})

\* The node of the hash at level l: the larger subtrees end where it begins.
FrontierNode(size, l) ==
  LET begin == size - (size % Width[l + 1])
      level == LargestAlignedSubtree(begin, size)
  IN  <<level, begin \div Width[level]>>

NewFromFrontier(size, hashes) ==
  [size |-> size, hashes |-> hashes,
   nodes |-> [id \in {FrontierNode(size, l) : l \in DOMAIN hashes} |->
                hashes[CHOOSE l \in DOMAIN hashes : FrontierNode(size, l) = id]]]

\* Seeded fault: one hash is left behind.
FrontierShort(acc) ==
  [size |-> acc.size,
   hashes |-> [l \in {k \in DOMAIN acc.hashes : \E i \in DOMAIN acc.hashes : k < i} |->
                 acc.hashes[l]]]

Frontier(acc) == [size |-> acc.size, hashes |-> acc.hashes]

\* Append of the compact range: a new leaf is merged with every last subtree
\* of its own size; the merged nodes are visited.
AppendLeaf(acc, d) ==
  LET top    == Merges(acc.size)
      merged == 0..(top - 1)
      hash   == Climb(acc.size, [l \in merged |-> acc.hashes[l]], HashLeaf(d))
  IN  [size   |-> acc.size + 1,
       hashes |-> [l \in (DOMAIN acc.hashes \ merged) \cup {top} |->
                     IF l = top THEN hash[top] ELSE acc.hashes[l]],
       nodes  |-> Record(acc.nodes,
                         [id \in {<<l, At(acc.size, l)>> : l \in 0..top} |-> hash[id[1]]])]

AppendLeaves(acc, ds) ==
  LET after[i \in 0..Len(ds)] == IF i = 0 THEN acc ELSE AppendLeaf(after[i - 1], ds[i])
  IN  after[Len(ds)]

Root(acc) == IF acc.size = 0 THEN EmptyRoot ELSE Border(acc.size, acc.hashes)[acc.size]

\* GetRootHash visits the parents on the right border, complete or not: those
\* of all compact hashes but the last.
BorderNodes(acc) ==
  LET visited == {<<l + 1, At(acc.size, l + 1)>> :
                    l \in DOMAIN acc.hashes \ {Min(DOMAIN acc.hashes)}}
  IN  [id \in visited |-> Border(acc.size, acc.hashes)[id[1]]]

\* Head computes the root and leaves the border nodes in the map.
AfterRoot(acc) ==
  IF acc.size = 0 THEN acc ELSE [acc EXCEPT !.nodes = Record(@, BorderNodes(acc))]

\* The error that a node is not in the map, in the place of a proof.
Missing == [id \in {<<-1, 0>>} |-> EmptyRoot]

\* The known nodes that the hash of a node is made from.
Needed(n, id) ==
  IF IsComplete(n, id) THEN {id} ELSE {CoverNode(n, l) : l \in Behind(n, id)}

Rehash(n, id, nodes) ==
  IF IsComplete(n, id) THEN nodes[id]
  ELSE Border(n, [l \in Behind(n, id) |-> nodes[CoverNode(n, l)]])[id[1]]

\* resolve: the hash of every node, one that is not perfect rehashed from its
\* perfect parts.
Resolve(acc, ids) ==
  IF \A id \in ids : Needed(acc.size, id) \subseteq DOMAIN acc.nodes
  THEN [id \in ids |-> Rehash(acc.size, id, acc.nodes)]
  ELSE Missing

InclusionProof(acc, index) == Resolve(AfterRoot(acc), InclusionNodes(index, acc.size))

\* The empty tree and the tree itself need no proof.
ConsistencyProof(acc, size1) ==
  Resolve(AfterRoot(acc),
          IF size1 \in {0, acc.size} THEN {} ELSE ConsistencyNodes(size1, acc.size))

-----------------------------------------------------------------------------
(* The verifier's side.                                                    *)

PathOf(m, levels, prf) == [l \in levels |-> prf[SiblingNode(m, l)]]

VerifyInclusion(index, size, d, root, prf) ==
  /\ DOMAIN prf = InclusionNodes(index, size)
  /\ Climb(index, PathOf(index, PathLevels(index, size, 0), prf), HashLeaf(d))[size] = root

\* Both roots from the subtree that ends the smaller tree: the earlier one is
\* made of it and what is left of it, the later one of everything.
VerifyConsistency(size1, size2, root1, root2, prf) ==
  LET last   == size1 - 1
      level  == Merges(last)
      levels == PathLevels(last, size2, level)
      seed   == IF At(last, level) = 0 THEN root1 ELSE prf[<<level, At(last, level)>>]
      left   == {l \in levels : Odd(At(last, l))}
  IN  \/ size1 = size2 /\ DOMAIN prf = {} /\ root1 = root2
      \/ size1 = 0 /\ size2 > 0 /\ DOMAIN prf = {}
      \/ /\ 0 < size1 /\ size1 < size2
         /\ DOMAIN prf = ConsistencyNodes(size1, size2)
         /\ Climb(last, PathOf(last, left, prf), seed)[size2] = root1
         /\ Climb(last, PathOf(last, levels, prf), seed)[size2] = root2

RootFromLeaves(ds) == Root(AppendLeaves(New, ds))
=============================================================================
