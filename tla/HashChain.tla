----------------------------- MODULE HashChain -----------------------------
(***************************************************************************)
(* The per-source hash chain (internal/chain) and the reading of a commit- *)
(* ordered record list that boot, the daemon's memory and the independent  *)
(* verifier share (internal/store/verify.go, recover.go, recover_anchored  *)
(* .go).                                                                   *)
(*                                                                         *)
(* A record is [source, seq, body, time, prev, hash]: "body" stands for    *)
(* the event fields a source authors (trace, session, actor, resource,     *)
(* action, outcome, payload), "time" for the trusted IngestTime stamp.     *)
(* SHA-256 is a free constructor: the hash of a record is the sequence of  *)
(* everything hashed so far, so two hashes are equal exactly when their    *)
(* inputs are (no collisions).                                             *)
(***************************************************************************)
EXTENDS Naturals, Sequences, FiniteSets, FiniteSetsExt

\* Genesis: the fixed prior hash of the first record of a source.
GenesisPrevHash == << >>

\* The event identity that is hashed: everything but the chain linkage.
CanonicalEvent(rec) == [source |-> rec.source, seq |-> rec.seq,
                        body |-> rec.body, time |-> rec.time]

Compute(prev, seq, event) == Append(prev, <<seq, event>>)

\* chain.Author: the linkage is computed from the record's own fields and the
\* predecessor's hash.
Author(source, seq, body, time, prev) ==
  LET event == [source |-> source, seq |-> seq, body |-> body, time |-> time]
  IN  [source |-> source, seq |-> seq, body |-> body, time |-> time,
       prev |-> prev, hash |-> Compute(prev, seq, event)]

\* chain.Verify: linkage and recomputed hash both match.
Verify(rec, prev) ==
  /\ rec.prev = prev
  /\ rec.hash = Compute(rec.prev, rec.seq, CanonicalEvent(rec))

-----------------------------------------------------------------------------
(***************************************************************************)
(* A tip is what the verifier's loop carries from one record of a source   *)
(* to the next: (prev, lastSeq, haveSeq).  With have = FALSE the source    *)
(* has no record yet and the next one links onto genesis.                  *)
(***************************************************************************)
NoTip == [have |-> FALSE, hash |-> GenesisPrevHash, seq |-> 0]
TipOf(rec) == [have |-> TRUE, hash |-> rec.hash, seq |-> rec.seq]

\* One iteration of verifyChainFrom: strictly increasing, and linked.
Extends(tip, rec) ==
  /\ tip.have => rec.seq > tip.seq
  /\ Verify(rec, tip.hash)

\* The positions up to n that hold a record of s.
PositionsOf(recs, n, s) == {j \in 1..n : recs[j].source = s}

\* The tip of s after the first n records, from the anchored tips "anchors".
TipAt(recs, n, s, anchors) ==
  IF PositionsOf(recs, n, s) = {}
  THEN anchors[s]
  ELSE TipOf(recs[Max(PositionsOf(recs, n, s))])

TipsOf(recs, anchors) ==
  [s \in DOMAIN anchors |-> TipAt(recs, Len(recs), s, anchors)]

\* VerifyChainsFromRaw (every anchor is NoTip) and verifyChainsAnchored: every
\* record extends the tip its predecessors of the same source leave.
VerifyChains(recs, anchors) ==
  \A i \in 1..Len(recs) :
     Extends(TipAt(recs, i - 1, recs[i].source, anchors), recs[i])

Genesis(sources) == [s \in sources |-> NoTip]

-----------------------------------------------------------------------------
\* What recovery rebuilds besides the tips: the (source, sequence) dedupe set,
\* the Merkle leaves in commit order, and the highest stamp.
KeysOf(recs)   == {<<recs[i].source, recs[i].seq>> : i \in 1..Len(recs)}
LeavesOf(recs) == [i \in 1..Len(recs) |-> recs[i].hash]
TimesOf(recs)  == {recs[i].time : i \in 1..Len(recs)}
FloorOf(recs, floor) == Max(TimesOf(recs) \cup {floor})
=============================================================================
