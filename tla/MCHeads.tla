------------------------------ MODULE MCHeads ------------------------------
(* Heads on a small instance: with six records a border node of the head   *)
(* over three is, one record later, a node with other content, which the   *)
(* proofs of a still larger tree need.                                     *)
EXTENDS Heads

AllEnvironments == {{"crash"}, {"crash", "headFault"}}

-----------------------------------------------------------------------------
(* The tree on its own, beyond the sizes the instance reaches.             *)

MaxLeaves == 9

\* RFC 6962, section 2.1, word for word: split at the largest power of two
\* below the number of leaves.
SplitPoint(n) == Max({Width[l] : l \in {k \in 0..n : Width[k] < n}})

RECURSIVE MTH(_)
MTH(leaves) ==
  LET n == Len(leaves)
      k == SplitPoint(n)
  IN  CASE n = 0 -> EmptyRoot
        [] n = 1 -> HashLeaf(leaves[1])
        [] OTHER -> HashChildren(MTH(SubSeq(leaves, 1, k)), MTH(SubSeq(leaves, k + 1, n)))

\* Row by row is the same tree.
ASSUME RowsAreRFC6962 == \A n \in 0..(2 * MaxLeaves) : TreeHash(Log(n)) = MTH(Log(n))

\* merkletree.go:66-72: a tree continued from any frontier is the tree of
\* RFC 6962 over all the leaves, and proves those behind the frontier.
ASSUME ContinuedTree ==
  \A n \in 0..MaxLeaves : \A m \in 0..n :
    LET a == AppendLeaves(NewFromFrontier(m, AppendLeaves(New, Log(m)).hashes),
                          SubSeq(Log(n), m + 1, n))
    IN  /\ Root(a) = TreeHash(Log(n))
        /\ \A i \in m..(n - 1) : VerifyInclusion(i, n, i + 1, Root(a), InclusionProof(a, i))

\* merkletree.go:180-182: every earlier tree is shown to be a prefix, and a
\* proof does not serve for a tree with other leaves in that prefix.
ASSUME ConsistentTree ==
  \A n \in 0..MaxLeaves : \A m \in 0..n :
    LET prf   == ConsistencyProof(AppendLeaves(New, Log(n)), m)
        other == [i \in 1..m |-> i % m]
    IN  /\ VerifyConsistency(m, n, TreeHash(Log(m)), TreeHash(Log(n)), prf)
        /\ m > 0 => ~VerifyConsistency(m, n, TreeHash(other), TreeHash(Log(n)), prf)
=============================================================================
