------------------------------- MODULE Heads -------------------------------
(***************************************************************************)
(* The daemon (cmd/ocu-audit) around the Merkle tree: recovery that        *)
(* continues the tree from the frontier of the signed checkpoint, the head *)
(* file it signs at boot and on a ticker, the proofs the store serves, and *)
(* the offline verifier (cmd/ocu-audit-verify) that is given the head file *)
(* and the whole log.                                                      *)
(*                                                                         *)
(* MerkleTree.tla has the tree.  Store.tla and Retention.tla have what can *)
(* go wrong inside an admission, a seal and a rotation; here each of them  *)
(* is one step.  A record is its place in the log: the leaf, its chain     *)
(* hash, is unlike that of any other record (HashChain.tla).               *)
(***************************************************************************)
EXTENDS MerkleTree

CONSTANTS Keys,          \* signing keys an operator may start the daemon with
          NoKey,         \* no daemon is running
          Environments,  \* sets of faults; a behaviour has one of them
          MaxRecords,    \* bound: committed records
          MaxSeals       \* bound: sealed segments

ASSUME HeadsAssumption ==
  /\ Environments \subseteq SUBSET {"crash", "headFault"}
  /\ MaxRecords \in Nat /\ MaxSeals \in Nat
  /\ NoKey \notin Keys

VARIABLES
  faults,  \* what can go wrong; never changes
  \* the disk
  count,   \* number of committed records
  saved,   \* the signed checkpoint file
  head,    \* the signed head file
  \* the daemon
  proc,    \* "down", "booting" (recovered, no head written yet), "up"
  key,     \* its signing key
  cp,      \* the manager's checkpoint
  acc,     \* the store's accumulator
  offset,  \* globalOffset
  dump,    \* the head being written: what it is, and how far the write is
  \* history
  booted   \* number of records when this daemon started

daemon == <<proc, key, cp, acc, offset, dump, booted>>
vars   == <<faults, count, saved, head, daemon>>

\* A file that does not exist, and a head file that was not written to its end;
\* the others are "signed".
NoFile == [is |-> "absent"]
Torn   == [is |-> "torn"]

Whole(file) == file.is = "signed"

\* The committed log up to some size.
Log(n) == [i \in 1..n |-> i]

-----------------------------------------------------------------------------
(* Signatures: what was signed, under which key and domain tag.            *)

SignMessage(k, tag, content) == [key |-> k, tag |-> tag, over |-> content]

VerifyMessage(pinned, tag, content, sig) == sig = SignMessage(pinned, tag, content)

SignHead(k, a) ==
  LET envelope == [size |-> a.size, root |-> Root(a)]
  IN  [is        |-> "signed",
       envelope  |-> envelope,
       signature |-> SignMessage(k, "head", envelope),
       publicKey |-> k]

VerifyHead(sh, pinned) ==
  /\ sh.publicKey = pinned
  /\ VerifyMessage(pinned, "head", sh.envelope, sh.signature)

-----------------------------------------------------------------------------
(* The checkpoint, as far as the tree goes: the frontier at each seal, how *)
(* many seals are rotated, and the frontier promoted by the last rotation. *)

EmptyCheckpoint == [seals |-> << >>, rotated |-> 0, top |-> Frontier(New)]

HasAnchors(c) == c.top.size > 0 \/ c.rotated > 0

SignedCheckpoint(c) ==
  [is |-> "signed", checkpoint |-> c, signature |-> SignMessage(key, "retention", c)]

\* LoadCheckpoint refuses what was not signed with the daemon's own key.
Loads(k) ==
  Whole(saved) => VerifyMessage(k, "retention", saved.checkpoint, saved.signature)

SavedCheckpoint == IF Whole(saved) THEN saved.checkpoint ELSE EmptyCheckpoint

-----------------------------------------------------------------------------
(* Boot and crash. *)

\* Seeded fault: the daemon serves before it has written a head.
BootServesAtOnce(k) ==
  /\ proc = "down"
  /\ Loads(k)
  /\ LET c == SavedCheckpoint
     IN  /\ FrontierFits(c.top.size, c.top.hashes)
         /\ cp' = c
         /\ acc' = IF HasAnchors(c) THEN NewFromFrontier(c.top.size, c.top.hashes) ELSE New
         /\ offset' = c.top.size
  /\ proc' = "up" /\ key' = k
  /\ booted' = count
  /\ UNCHANGED <<faults, count, saved, head, dump>>

\* A boot that is refused leaves everything as it is.  RecoverAnchored starts
\* from the frontier, Recover from the empty tree.
Boot(k) ==
  /\ proc = "down"
  /\ Loads(k)
  /\ LET c == SavedCheckpoint
     IN  /\ FrontierFits(c.top.size, c.top.hashes)
         /\ cp' = c
         /\ acc' = IF HasAnchors(c) THEN NewFromFrontier(c.top.size, c.top.hashes) ELSE New
         /\ offset' = c.top.size
  /\ proc' = "booting" /\ key' = k
  /\ booted' = count
  /\ UNCHANGED <<faults, count, saved, head, dump>>

\* The leaf of the next hot record.
BootReplays ==
  /\ proc = "booting" /\ acc.size < count
  /\ acc' = AppendLeaf(acc, acc.size + 1)
  /\ UNCHANGED <<faults, count, saved, head, proc, key, cp, offset, dump, booted>>

Idle == [at |-> "idle"]

\* Memory goes; a head file that is open stays torn.
Dies ==
  /\ proc' = "down" /\ key' = NoKey
  /\ cp' = EmptyCheckpoint /\ acc' = New /\ offset' = 0
  /\ dump' = Idle /\ booted' = 0

Crash ==
  /\ proc # "down" /\ "crash" \in faults
  /\ Dies
  /\ UNCHANGED <<faults, count, saved, head>>

-----------------------------------------------------------------------------
(* The store and the manager. *)

Admit ==
  /\ proc = "up" /\ count < MaxRecords
  /\ count' = count + 1
  /\ acc' = AppendLeaf(acc, count')
  /\ UNCHANGED <<faults, saved, head, proc, key, cp, offset, dump, booted>>

Boundary(c) == IF c.seals = << >> THEN 0 ELSE c.seals[Len(c.seals)].size

\* maybeSeal: the frontier of the seal enters the inventory.
Seal ==
  /\ proc = "up" /\ count > Boundary(cp) /\ Len(cp.seals) < MaxSeals
  /\ cp' = [cp EXCEPT !.seals = Append(@, Frontier(acc))]
  /\ saved' = SignedCheckpoint(cp')
  /\ UNCHANGED <<faults, count, head, proc, key, acc, offset, dump, booted>>

\* rotateDue: the frontier of the next seal is promoted to the top.
Rotate ==
  /\ proc = "up" /\ cp.rotated < Len(cp.seals)
  /\ cp' = [cp EXCEPT !.rotated = @ + 1, !.top = cp.seals[cp.rotated + 1]]
  /\ saved' = SignedCheckpoint(cp')
  /\ UNCHANGED <<faults, count, head, proc, key, acc, offset, dump, booted>>

\* Store.InclusionProof: the rotated prefix is left to the offline verifier.
ServedProof(index) ==
  IF index < offset \/ index >= count THEN Missing ELSE InclusionProof(acc, index)

\* A proof that is served computes the root as well, and leaves its nodes.
ServesProof ==
  /\ proc = "up" /\ offset < count
  /\ acc' = AfterRoot(acc)
  /\ UNCHANGED <<faults, count, saved, head, proc, key, cp, offset, dump, booted>>

-----------------------------------------------------------------------------
(* dumpHead: once before the daemon serves, then on a ticker.              *)

\* Seeded fault: there is no ticker.
DumpTakesAtBoot ==
  /\ proc = "booting" /\ acc.size = count /\ dump = Idle
  /\ dump' = [at |-> "taken", head |-> SignHead(key, acc)]
  /\ acc' = AfterRoot(acc)
  /\ UNCHANGED <<faults, count, saved, head, proc, key, cp, offset, booted>>

\* Head under the store lock, and the signature; admissions go on.
DumpTakes ==
  /\ proc # "down" /\ acc.size = count /\ dump = Idle
  /\ dump' = [at |-> "taken", head |-> SignHead(key, acc)]
  /\ acc' = AfterRoot(acc)
  /\ UNCHANGED <<faults, count, saved, head, proc, key, cp, offset, booted>>

\* os.WriteFile truncates the file before it writes.
DumpTruncates ==
  /\ dump.at = "taken"
  /\ head' = Torn
  /\ dump' = [dump EXCEPT !.at = "open"]
  /\ UNCHANGED <<faults, count, saved, proc, key, cp, acc, offset, booted>>

DumpWrites ==
  /\ dump.at = "open"
  /\ head' = dump.head
  /\ dump' = Idle
  /\ proc' = "up"
  /\ UNCHANGED <<faults, count, saved, key, cp, acc, offset, booted>>

\* The error of the ticker's dump is logged, that of the first one is fatal.
DumpFails ==
  /\ dump # Idle /\ "headFault" \in faults
  /\ \/ proc = "booting" /\ Dies
     \/ proc = "up" /\ dump' = Idle /\ UNCHANGED <<proc, key, cp, acc, offset, booted>>
  /\ UNCHANGED <<faults, count, saved, head>>

-----------------------------------------------------------------------------
Init ==
  /\ faults \in Environments
  /\ count = 0 /\ saved = NoFile /\ head = NoFile
  /\ proc = "down" /\ key = NoKey
  /\ cp = EmptyCheckpoint /\ acc = New /\ offset = 0
  /\ dump = Idle /\ booted = 0

Next ==
  \/ \E k \in Keys : Boot(k)
  \/ BootReplays
  \/ Crash
  \/ Admit
  \/ Seal
  \/ Rotate
  \/ ServesProof
  \/ DumpTakes
  \/ DumpTruncates
  \/ DumpWrites
  \/ DumpFails

\* A daemon that died is started again and takes the steps it can, some day
\* it stays up, and a write that can fail does not fail for ever.
Fairness ==
  /\ WF_vars(\E k \in Keys : Boot(k)) /\ WF_vars(BootReplays)
  /\ WF_vars(DumpTakes) /\ SF_vars(DumpTruncates) /\ SF_vars(DumpWrites)
  /\ <>[][~Crash]_vars

Spec == Init /\ [][Next]_vars /\ Fairness
-----------------------------------------------------------------------------
Sizes == 0..MaxRecords

\* The shape of a frontier of n leaves is the shape of their compact range.
FrontierOK(f) == f.size \in Sizes /\ FrontierFits(f.size, f.hashes)

CheckpointOK(c) ==
  /\ \A i \in DOMAIN c.seals : FrontierOK(c.seals[i])
  /\ Len(c.seals) <= MaxSeals /\ c.rotated \in 0..Len(c.seals)
  /\ FrontierOK(c.top)

TypeOK ==
  /\ faults \in Environments
  /\ count \in Sizes /\ offset \in Sizes /\ booted \in Sizes
  /\ Whole(saved) => saved.signature.key \in Keys /\ CheckpointOK(saved.checkpoint)
  /\ Whole(head) => head.publicKey \in Keys /\ head.envelope.size \in Sizes
  /\ proc \in {"down", "booting", "up"}
  /\ key \in Keys \cup {NoKey} /\ (key = NoKey <=> proc = "down")
  /\ CheckpointOK(cp)
  /\ FrontierOK(Frontier(acc))
  /\ \A id \in DOMAIN acc.nodes : id[1] \in Sizes /\ id[2] \in Sizes
  /\ dump.at \in {"idle", "taken", "open"}

\* After any number of seals, rotations and restarts the store's tree is that
\* of the whole log, although its records below globalOffset were never read
\* again and the map still holds the border nodes of every earlier head; it
\* proves each record it holds under the current root and refuses the others
\* (merkletree.go:59-65, store.go:266-269).
TreeServesLog ==
  proc = "up" =>
    LET root == TreeHash(Log(count))
    IN  /\ acc.size = count /\ Root(acc) = root
        /\ \A i \in 0..(count - 1) :
             IF i < offset THEN ServedProof(i) = Missing
             ELSE VerifyInclusion(i, count, i + 1, root, ServedProof(i))

\* The offline verifier over a log, for every record it may sample.
VerifyStore(records, sh, pinned) ==
  LET n    == Len(records)
      full == AppendLeaves(New, records)
      root == RootFromLeaves(records)
  IN  /\ n = sh.envelope.size /\ root = sh.envelope.root
      /\ VerifyHead(sh, pinned)
      /\ \A i \in 0..(n - 1) :
           VerifyInclusion(i, n, records[i + 1], root, InclusionProof(full, i))

\* Its consistency proof between an earlier size and the present one.
ProvesConsistency(records, size1) ==
  VerifyConsistency(size1, Len(records), RootFromLeaves(SubSeq(records, 1, size1)),
                    RootFromLeaves(records),
                    ConsistencyProof(AppendLeaves(New, records), size1))

\* A head file that can be read commits to the log as it was at some time, so
\* the offline verifier accepts it over these records; and while the daemon
\* serves, unless a write is under way or failed, it covers every record that
\* was there when the daemon started (main.go:145-151).
HeadVerifies ==
  /\ Whole(head) =>
       /\ head.envelope.size <= count
       /\ VerifyStore(Log(head.envelope.size), head, head.publicKey)
       /\ \A size1 \in 0..head.envelope.size :
            ProvesConsistency(Log(head.envelope.size), size1)
  /\ proc = "up" /\ dump.at # "open" /\ "headFault" \notin faults =>
       /\ Whole(head) /\ head.envelope.size >= booted
       /\ head.publicKey = key

\* However often the daemon crashes and writes fail, every committed record
\* gets under a signed head: while records go on coming the file follows
\* them, and MaxRecords says that some day they do not.
HeadCatchesUp == []<>(Whole(head) /\ head.envelope.size = count)
=============================================================================
