# Verification of ocu-audit

ocu-audit is a durable audit log. Sources publish events over mTLS; the daemon
authors a hash-chained record for each, fsyncs it, acknowledges it, keeps a
Merkle tree over everything committed, seals and rotates the log between a hot
and a cold tier, and passes the records on to a SIEM. This directory holds
TLA+ models of that program, TLC configurations that check them, and TLAPS
proofs about them. Line numbers below are of the Go source under `src/`.

## The system

| part | state | operations | with whom it interacts |
|---|---|---|---|
| hash chain (`internal/chain`) | none | author, verify | called by the store, boot, the offline verifier |
| write-ahead log (`internal/wal`) | active file, buffered writer, closed flag | Open, Append, SealTo, Close, ReadAll, ListSegments | the store holds the handle; boot and verifier read the files |
| durable store (`internal/store`) | chain tips, dedupe set, records, Merkle leaves, ingest floor, global offset, WAL handle | Admit, SealActive, Recover, RecoverAnchored, RecordsFrom, Head, InclusionProof | one lock; called by request handlers, self-emits, manager, pump, head dump |
| retention (`internal/retention`) | signed checkpoint (file and memory), failure and breach marks | Tick: seal, inventory, rotate, breach evidence; boot policy sync | seals through the store, moves files behind its back, decides how boot recovers |
| ingest server and limiter (`internal/ingest`) | token bucket per source, own sequence | handlePublish, SelfEmit | concurrent handlers into the store; manager and pump call SelfEmit |
| fan-out pump (`internal/fanout`) | cursor in memory and on disk, sink file | RunOnce, NewPump | reads the store, self-emits gaps, shares boot's offset with retention |
| edge tailer (`internal/edgetail`) | byte offset and sequence, in memory and on disk | RunOnce | turns an Envoy access log into publishes |
| publish client (`pkg/publish`) | none | Publish, Retriable | the sources' side of the ingest protocol |
| Merkle tree (`internal/merkletree`) | compact hashes, map of node hashes, size | AppendLeaf, Head, proofs, NewFromFrontier | the store, the checkpoint, the verifier |
| signer, envelope, wiring | keys; none; the head file | sign, decode, boot and head dump | wiring starts the tickers of manager, pump and head |

What is hard about it:

- **The disk outlives the process.** A frame is written, flushed, fsynced and
  acknowledged in four steps; a seal renames before the checkpoint knows; a
  rotation copies, promotes and deletes. The process can die or an operation
  can fail between any two of them, and boot is fail-closed: a state it does not
  expect is an outage.
- **Several views of one log.** Tips, dedupe set, records, leaves, floor, file,
  segments and checkpoint are updated one after the other and rebuilt by two
  different recoveries. They must describe the same records.
- **Concurrency** between request handlers, the manager's tick, the pump and
  self-emits, each with lock regions that end earlier than its decision.
- **Delivery.** Sources retry, answers are lost, sinks fail, cursors lag.

What makes each part correct: the chain of every source verifies at every
instant; an acknowledged event is in the log and stays there; stamps never go
back; sealing, rotating and restarting do not change what a reader of the log
sees; every record is in the tier the checkpoint names; a source gets its share
and no more; evidence of what went wrong is itself recorded; the SIEM misses
nothing silently. `PROJECT.json` lists the hazards at their lines, each with the
property that would catch it.

## The modules

| module | models | relation to the others |
|---|---|---|
| `HashChain` | `chain.Author`, `chain.Verify`, the verifier's loop, what recovery rebuilds from a record list | pure operators, extended by all |
| `DurableLog` | what the store promises: an append-only, chained, ordered log and acknowledgements for records of it | abstract specification |
| `Store` | Admit, the framed file, its faults and crash points, Recover | implements `DurableLog` |
| `Retention` | seal, inventory, rotation, checkpoint, anchored boot, offline reading | the two tiers together implement `DurableLog` |
| `Fanout` | the pump, its cursor and the sink file | its log and rotation boundary are those of `Store` and `Retention` |
| `Ingest` | concurrent handlers, limiter, self-emits, retrying sources | its store is the decision part of `Store` |
| `EdgeTail` | the edge tailer, the publish client it uses, the rotated access log | its ingest is what `Ingest` and `Retention` show to one source |
| `HotMargin` | the policy and the timing of the manager's rounds | the rounds of `Retention` as one step, with ages instead of files |
| `PolicyPin` | the flags of each start, the pinned policy, `BootPolicySync` | the policy part of `Retention`'s checkpoint |
| `MerkleTree` | the accumulator, its proofs and the verifier's checks | pure operators |
| `Heads` | frontier, anchored boot, head file, served proofs, offline verifier | uses `MerkleTree`; an admission, a seal and a rotation are one step each |
| `HashChainProofs`, `StoreProofs`, `RetentionProofs`, `FanoutProofs`, `IngestProofs`, `EdgeTailProofs`, `HeadsProofs` | theorems | each extends the module it is named after; `StoreProofs`, `RetentionProofs` and `HeadsProofs` also use `HashChainProofs` |
| `PolicyProofs` | theorems | extends `HotMargin` and `PolicyPin`, two independent models of the policy; for its sake `PolicyPin` calls its parts `PinSpec`, `PinTypeOK` and so on |
| `MC*` | the instances TLC checks | |

**HashChain.** SHA-256 is a free constructor: the hash of a record is the
sequence of everything hashed so far. Two hashes are equal exactly when their
inputs are, which is the assumption "no collisions" and nothing else. A *tip* is
what `verifyChainFrom` carries from record to record; `VerifyChains(recs, anchors)`
covers both the verification from genesis and the anchored one.

**Store.** `disk` is the file as a reader sees it: frames that are whole or that
lack bytes. A torn frame takes its missing bytes from the frames behind it,
`lacks` says how many are enough; `Readable` and `Corrupt` are `ReadAll`. `synced`
is what the last fsync covers. The store lock makes an admission atomic, but a
crash obeys no lock: the decision of `Admit` (`store.go:110-170`) followed by
each way `Append` (`wal.go:133-159`) can end is an action of its own -
committed, refused before the write, write fault, sync fault, crash in the
middle of the write, before the fsync, before the answer.

**Retention.** A tick of the manager is a walk of `pc` through the points
where an admission can come in between or the process can die: seal (rename,
reopen, inventory, save), rotation per segment (resume, copy, rename, promote,
save, finish), breach evidence. Files are the sequences of their records and a
digest is the content it is computed from. A sealed segment may be impossible to
read back for its row (`manager.go:191-198`, the fault `inventoryFault`): the daemon goes on
without the row, and the next seal takes the same name. Boot chooses between `Recover` and
`RecoverAnchored` as `cmd/ocu-audit/main.go:132-142` does.

**Fanout.** `RunOnce` (`fanout.go:89-125`) is cut where its steps touch something
that lasts: cursor jump, evidence, the snapshot of records, delivery, cursor
write. The store's offset is read at boot only; the rotation boundary moves on
disk meanwhile. The sink is a file of lines, a failed write can leave half of one.

**Ingest.** A handler takes the limiter's lock twice (`admit`, `saturationOnset`)
and a self-emit two different locks (sequence, store); these are separate steps.
Buckets hold their age instead of `lastRefill`, so that time needs no bound. The store
has the two things that decide an admission: the last sequence, and the dedupe set, of which
`forgotten` says what it lacks. An anchored boot, which takes sequences from the anchors
and reads hot records only (`recover_anchored.go:75-82`), may forget whatever was
rotated until then (`Rebuilds`); the retry of such an event is answered 409
(`AdmitRegresses`).

**EdgeTail.** The access log is a sequence of cells, a few per line, so that a
run can find half a line and an offset can point into the middle of one. The
edge writes, renames or truncates between any two steps of `RunOnce`
(`tail.go:64-113`), which has the old file open meanwhile. The tailer's crash
leaves the cursor file; publishing is a request with four answers (committed,
duplicate, refused, lost), and the ingest may restart anchored and forget which
sequences it has seen (`recover_anchored.go:79`). A line is good, malformed, or a
pre-authentication deny. `stale` is a history variable: which of the two cursors is
an offset into an earlier log.

**HotMargin.** The manager's rounds with time in units: `policy` is any policy
`NewPolicy` accepts with any tick interval; time passes one unit at a time, the
ticker does not let it pass `T` unless a round is late. Only the age of the
oldest record of each file is kept. A rotation can fail before the checkpoint calls the segment
rotated, when the segment stays in `hot` and is retried, and behind that, in the removal of the
hot copy (`manager.go:264-268`): then the copy is `leftover`, which no later round looks at.

**PolicyPin.** Every start has flags of its own. `Start` is `NewPolicy` and
`LoadCheckpoint`, `Sync...` the steps of `BootPolicySync`, `TickSaves` the checkpoint
writes of a running manager, which on a first boot are what pins the policy.

**MerkleTree and Heads.** A hash is the tree of what was hashed. The accumulator
has its compact hashes and the map of every node hash it saw
(`merkletree.go:30-39`); reading a root or a proof leaves border nodes in the map, which
later leaves turn into other nodes of the same identifier. The library that the
package wraps is external and stated level by level. Node `j` of level `l` covers the leaves from
`j * 2^l` on; `Rows` is the tree of the RFC row by row, of which `TreeHash` is the top;
`Climb` is the one thing all the library's loops do, going up from a leaf and hashing in
what is found beside the way: the merges of an append, the root over the compact
range, the verifier's side of both proofs. A list of hashes is a function from the levels
or nodes the hashes belong to, which follow from sizes and indexes
(`Cover`, `InclusionNodes`, `ConsistencyNodes`); the order of the list is that of the levels.
A proof with too many or too few hashes is one with another domain, and refused. In
`Heads` a boot starts from the frontier the checkpoint carries and replays the hot
leaves one by one; `dumpHead` takes the root under the store lock, then
truncates and writes the file while admissions go on.

### Faults and environments

Each module has a rigid variable `faults`, drawn from the constant `Environments` (`failures` and
`FailureSets` in `PolicyPin`): a
behaviour has one environment. A property that does not hold under every fault
names the faults it cannot stand in its own definition (`NoHalfWrites`, `Sound`,
`Without`), so the configurations run all environments at once and nothing is
hidden in a configuration. In `Retention` and `Fanout` a crash in certain windows is a
fault of its own; a window is a state predicate next to `Crash`.

Definitions marked *Seeded fault* are not part of the specifications. They are
plausible bugs, and each property is checked to fail when its bug is put in.

## The runs

| run | instance | shows |
|---|---|---|
| `store` | 2 sources, 2 sequences, clock 1..2, 3 frames, 4 environments | all faults: serving state coherent, chains verify, stamps monotonic, memory within the file. Without half writes: boot never refused, acknowledged events in the log, and `DurableLog` implemented |
| `store_syncfault` | a failing fsync | finding 1 |
| `retention` | 1 producer and the pipeline, clock {1,4}, 4 records, 2 segments, 2 environments | every fault but a sealed segment that cannot be read back, every crash but in three windows: the store, boot and the offline reader all find the one log, `DurableLog` implemented. With those too: inventory honest, cold tier write-once |
| `retention_live` | one environment without faults, one with failing operations | every segment old enough reaches the cold tier |
| `retention_seal` | a crash in one window | finding 2 |
| `fanout` | 3 events and the evidence, 2 crashes, 4 environments | nothing missed silently, order, bounded redelivery, gaps evidenced once and truthfully, everything arrives |
| `ingest` | 1 source, 2 handlers, 1 emitter, burst 2, refill 2, 3 environments | share kept and regained, onset reported, evidence never regresses, no replay refused but that of an event a boot forgot; where none forgets, everything acknowledged |
| `edgetail` | 4 lines of 1 or 2 cells, 2 rotations, 2 restarts, 7 environments | no line behind the cursor is missing, none is committed twice or out of order, the bridge catches up |
| `edgetail_deny` | a deny and nothing else | finding 3 |
| `margin` | every policy with a ceiling up to 5 and tick up to 4, 5 segments, 5 environments | records leave hot before the ceiling wherever the margin suffices and removals succeed; a segment that cannot be rotated is on record |
| `heads` | 6 records, 2 seals, 2 keys, 2 environments | the continued tree is the tree of the log and proves every hot record; every readable head file passes the verifier and every one of its proofs; the head catches up |
| `pin` | 4 floors, 3 ceilings, 2 seal intervals, 3 changes, 2 environments | the pinned floor never goes down; the change records lead to the pinned policy |

Several properties are conjunctions of named parts (`ServingConsistent`,
`FileMatchesServing`, `AckedKept`, `CheckpointTrue`, `RecoveryExact`, `RepeatsHarmless`,
`GapsOnRecord`, `ShareExact`); each part has its own comment at its line.

**Bounds and why they are enough.** Chains and stamps relate a record to its
predecessor and to one before that: three frames of two sources give every
interleaving of two chains with a restart in between, and let a torn frame be
followed by frames that do and do not complete it. Retention needs two segments,
one rotated while the next is sealed, with evidence records between: four
records. Two clock readings whose distance exceeds the hot ceiling make every
due and not-due combination occur; the clock goes back from one to the other.
The pump needs two gaps, hence two crashes, and a delivery before, between and
after. The limiter's age wraps at one interval more than fills a bucket, where
the rest modulo the interval is all that matters: time itself is not bounded.
Two handlers and an emitter are enough for both lost-record orders, which involve
two parties. The tailer needs a line before, across and behind a rotation and one
in the new log: four lines and two rotations, so that the second finds what the
first left. The margin is a matter of the differences of three numbers: the range has
policies on both sides of `MarginSuffices` with every alignment, and
`PolicyProofs` has the general case. In a tree of six records the border node of the head over
three is, one record later, a node with other content, and the frontiers of
two seals have every size up to six. Assumptions of `MCHeads`, which TLC evaluates, compare
`TreeHash` with the recursive definition of RFC 6962, word for word, up to 18 leaves, and the
accumulator with `TreeHash` for every continuation and every pair of sizes up to nine leaves;
`HeadsProofs` has the latter for every size.
Three changes of policy make a trail with a middle. Bounds are constants named `Max...` (and `Step`), and
appear only in guards and in `Aged`, `excess` and `quiet` of `Ingest`, which
saturate above every value a property tells apart. At `MaxEvidence` `Ingest`
drops further self-emits.

`CHECK_DEADLOCK FALSE` is set where the bounds or a refused boot end a behaviour.

**Fairness.** Retention: the ticker fires (`main.go:226-237`) and a tick does not
block, hence weak fairness of its steps; the clock advances far enough
at some tick; a copy, checkpoint write or removal that is attempted again and again does
not always fail, hence strong fairness of the successes. Fanout: the supervisor
restarts the daemon, the ticker fires, and a sink that is tried again and again
accepts in the end; a failing cursor needs no fairness. Ingest: time passes, a
handler finishes, a source keeps coming back (as `edgetail/tail.go:103-107`
does), and neither commit nor answer fails every time. EdgeTail: the tailer's
ticker (`cmd/ocu-audit-edgetail/main.go:85-100`) and the client act, and a request that is sent again
and again is answered in the end. Heads: the supervisor restarts the daemon, the
ticker of `main.go:236-250` fires, a write that is tried again and again succeeds,
and crashes end some day. No fairness is put on
admission as such, on crashes or on faults.

## What is proved

The theorems hold for **every** value of the constants: any sources, sequences,
bodies, clock readings, handlers, shares, environments and file lengths. The only
assumptions are the `...Assumption`s of the module each is about. `NoFileAssumption` of
`Retention` says that the value for a missing file is none of the files.

**Store** (`StoreProofs`).

- `TypeCorrect`: `Spec => []TypeOK`.
- `ServingCorrect`: `Spec => []ServingConsistent`. Under all faults, including torn and unsynced
  frames, the tips, the dedupe set, the leaves and the floor describe one list of
  committed records (`ServingStateCoherent`), which verifies (`ServedChainsVerify`)
  and whose stamps do not go back (`StampsNeverRegress`).

The three properties are not inductive: boot rebuilds memory from the
file, and the file of a daemon that had a failed fsync may contain two records on
one predecessor. Chains need no help, since boot verifies what it reads
and refuses otherwise; stamps do, since boot does not check them. `ServingInv`
adds that the stamps of everything a reader can find in the file are ordered
and, while the daemon runs, bounded by the floor. An append keeps that in each of its
endings, because `Stamp` raises the floor before the write and a torn frame either
hides what follows it or corrupts the file; a lemma per fact says so
(`ReadableAppend`, `ReadableOfPrefix`, `FloorOfRecords`). `HashChainProofs` has what one
appended record does to tips and verification (`TipsOfAppend`,
`VerifyChainsAppend`): the reason why the incremental tips of `Admit` and the
ones recovery computes from the whole list are the same.

**Store, file and acknowledgements** (`StoreProofs`).

- `FileCorrect`: `Spec => []FileMatchesServing`. `OnDisk` gives each served record its
  place in the file. It is inductive under every fault, since an append
  takes nothing away and a boot reads whole frames only (`OnDiskGrows`, `OnDiskCommit`,
  `OnDiskRead`).
- `BootCorrect`: `Spec => []BootNeverRefused`.
- `AckedCorrect`: `Spec => []AckedKept`.
- `StoreImplementsLog`: `Spec => ImplementsDurableLog`, the refinement of `DurableLog`.

The last three and the second half of the first rest on `LogInv`, which speaks of
environments without half writes (`NoHalfWrites`): no frame of the file is torn, the
readable records verify and are the ones served, boot was never refused, all of the file
is synced unless unsynced frames survive a crash, and, in a `Sound` environment, every
acknowledged key is in the file. The conjuncts need each other. A
replay is answered from the dedupe set, which a boot takes from the file, so
acknowledgements need the file to be the memory. Memory and file agree after a boot
only if the boot accepts, which needs the verified chains. Those survive an append
because memory agrees with the file (`LogAppend`) and a power loss because a prefix of a
verified list verifies (`VerifyChainsPrefix`). A power loss keeps the acknowledgements
only if the whole file is synced.

**Anchored verification** (`HashChainProofs`). `AnchoredVerification`: for every list of
records and every place to cut it, the whole verifies exactly when the first part does and
the second does from the tips the first leaves, and the tips at the end are the same. An
anchored boot (`recover_anchored.go`) verifies only the second part and takes the tips of
the first from the signed checkpoint. `TipAtBoundary` is
the fact behind it.

**Retention** (`RetentionProofs`).

- `TypeCorrect`: `Spec => []TypeOK`.
- `RotatedIsComplete`: `Spec => []InventoryHonest`, and `ColdFilesStay`:
  `Spec => ColdIsPermanent`, an action property; both under every fault.
- `SignedIsTrue`: `Spec => []CheckpointTrue`.
- `RecoveryIsExact`: `Spec => []RecoveryExact`.
- `AnchoredBootSucceeds`: `Spec => []BootNeverRefused`.
- `VerifierFindsWholeLog`: `Spec => []VerifierFindsLog`.
- `UnionImplementsLog`: `Spec => ImplementsDurableLog`, the refinement of `DurableLog`.

The inductive invariant is `SoundInv == TypeInv /\ KeepInv /\ (Sound => SoundState)`.
`KeepInv` holds under every fault: a hot copy goes only when the cold one is complete, and
the saved checkpoint follows the one in memory, with the same promotions or
one more. `SoundState` is for behaviours whose crashes keep out of the three windows
that `Sound` names, and in which a sealed segment can be read back: without a row, a
segment is overwritten by the next seal, after a crash in the next life of
the daemon, after a failed read in the same. `CheckpointTrue` (its part about the log), `RecoveryExact`,
`BootNeverRefused`, `VerifierFindsLog` and `ImplementsDurableLog` are claimed for these
behaviours only; `InventoryHonest`, `ColdIsPermanent` and `TypeOK` for all. `SoundState` says
what each of the places holds that are changed one after the other: `LogInv`, that the log verifies, its stamps are ordered, memory
serves it and no boot was refused; `RowInv`, that the checkpoint's rows are exact
slices of the log and its anchors stand at the end of the last rotated row, or one row
behind while a promotion is under way; `Layout`, which file holds which
slice, the file of a seal the checkpoint has not heard of included. That slices
laid end to end are the log is `FlattenSlices`; that an admission prolongs
only the active slice is `LayoutGrows`. What a boot reads back is what the layout
says (`BootReads`), and, by `AnchoredVerification`, the verification of the hot part
from the anchors' tips succeeds and leaves memory as it was (`BootRebuilds`). The
refinement and the verifier's result follow from the layout of one state
(`UnionIsLog`).

**Fanout** (`FanoutProofs`).

- `TypeCorrect`: `Spec => []TypeOK`. `Places` ties the program counter to the
  cursor: where evidence is due, the cursor stands at the rotation boundary.
- `NothingMissed`: `Spec => []NothingMissedSilently`. A cursor that a failed write
  left behind, or that was lost, takes the pump back to any earlier place, so
  `CursorInv` claims the same of the cursor in memory as of the one in the file.
- `GapsEvidenced`: `Spec => []GapsOnRecord`. Between the skip
  and its evidence the gap is in the pump's hands only: `GapInv` names the
  interval it holds. `OnceInv` says that everything evidenced lies behind the
  cursor file, so that the next gap begins where the evidence ends.
- `RepeatsAreHarmless`: `Spec => []RepeatsHarmless`. `OrderInv`: there is no hole in front of a
  delivered record that a rotation did not make. `AheadInv`: while
  the cursor file follows the cursor, at most the record in flight is ahead of it.
- `EvidenceTellsTruth`: `Spec => []EvidenceTruthful`. `TruthInv`: while no restart goes behind
  a delivered record, the pump hands over ever higher records, and none of those it has named
  as missed.

**Ingest** (`IngestProofs`).

- `TypeCorrect`: `Spec => []TypeOK`. `Carried` bounds the sequence that a process
  takes from one lock to the next.
- `EvidenceKept`: `Spec => []EmitNeverRegresses`. `EmitInv` adds that the sequences
  on their way to the store are different from each other; emitted in order, the
  smallest goes first and the others stay above what is committed.
- `RetryNeverRefused`: `Spec => []ConformingNeverRefused`. `RetryInv`: neither a
  source nor a request it gave up on is more than one event ahead of what is
  committed. The exception in the property is the event an anchored boot forgot; that
  there is no other is what the theorem says of any number of restarts.
- `OnsetReported`: `Spec => SaturationReported`, an action property. `EpisodeInv`: an
  episode without a report has a shaped request that will still report it.

- `ShareKept`: `Spec => []ShareExact`. `ShareInv`: what `excess` is
  above zero, the bucket is short of tokens and of time towards the next one
  (`Room`). A refill moves room from time to tokens (`RefilledRoom`), a tick
  from `excess` to time (`AgedRoom`), and the wrapping of the age is reached only
  when `excess` is zero. The products of two constants take three lemmas of
  arithmetic (`Product`, `Division`, `QuotientAtLeast`).

**EdgeTail** (`EdgeTailProofs`).

- `TypeCorrect`: `Spec => []TypeOK`. `FilesInv`: the files have their lines in the order of
  writing. `PaceInv`: the tailer's sequence runs behind the chain, and behind the lines
  before its offset, which is why a sequence never exceeds the number of lines.
- `CommittedInOrder`: `Spec => []CommittedOnceInOrder`.
- `AllAccountedFor`: `Spec => []LinesAccountedFor`.

Order is not inductive, since a tailer that has lost its cursor publishes under old
sequences again, and after a rotation these are answered for other lines. `OrderInv`
counts instead. From each place the tailer may go on from (where it is, the cursor
file, the beginning of the log), with sequence `s`, the lines to come fit the chain
(`Fits`): the record `s + k` is not of a later line than the `k`-th of them, so that
whatever is answered as a replay is of a line at or before the one it is
answered for, and the first line that is new is above the whole chain. `Tallies` adds that from one place to
the next there are no more lines than sequences, which a step back to an earlier place
needs. `PlaceInv` says that an offset of an earlier log is longer than the log,
`PendingInv` that the line being published is the first to come. `AccountInv`: every line
is to come or committed, seen from the tailer, from the cursor and, without
rotations, from the beginning.

**HotMargin** (`PolicyProofs`).

- `TypeCorrect`: `Spec => []TypeOK`.
- `CeilingAlwaysKept`: `Spec => []CeilingKept`, for every ceiling `H`, seal interval
  `S` and tick interval `T` with `T <= S + 1` and `S + T <= H + 1`. The ceiling
  alone is not inductive. `InOrder` says that segments are younger from left to right and
  the active file is youngest; `Aging`, that at a round an active file older
  than `S - 1` is sealed, that one seal later it is no older than the time since, and
  that what a round leaves in hot is at most `H - S - 1` old, plus the time since
  that round.
- `StuckAlwaysEvidenced`: `Spec => []StuckIsEvidenced`, without any relation between the
  intervals. It is about segments that are not rotated. A copy that a failed removal
  left behind a rotated one is never reported, and `CeilingAlwaysKept` bounds its age only
  where removals succeed.

**PolicyPin** (`PolicyProofs`).

- `PinTypeCorrect`: `PinSpec => []PinTypeOK`.
- `FloorAlwaysGrows`: `PinSpec => FloorOnlyGrows`, an action property, under all faults. `Boots`
  carries the gate from the start to the save: what is being repinned is no
  shorter than the file.
- `TrailAlwaysLeads`: `PinSpec => []TrailLeadsToPin`. Between the save and its record the
  trail ends one policy before the pin, which `old` remembers.

**The Merkle tree** (`HeadsProofs`), for lists of leaves of every length.

- `RootIsTreeHash`: the root of the accumulator is the tree hash of RFC 6962.
- `EveryLeafIsProved`, `EveryPrefixIsProved`: every inclusion proof and every consistency
  proof can be put together from the node map and verifies.
- `OnlyTheLeafIsProved`, `OnlyThePrefixIsProved`: the verifier is sound. Whatever it is given as
  a proof, it accepts under the root of a list only the leaf that is at the index, and as the root
  of an earlier size only that of the list's own prefix.

The last two rest on the assumption that hashes do not collide, which the free constructors
`HashLeaf` and `HashChildren` stand for.

The functions `Width`, `Rows`, `Climb` and the one in `AppendLeaves` are recursive in one number.
That they exist and satisfy their equations is proved from the set form of induction
(`SetInduction`), and so is every fact about them (`WidthDef`, `RowsDef`, `ClimbDef`,
`AppendLeavesDef`). `NodeHashUp` says what a node is made of on the way up from a leaf;
`ClimbHash`, that a climb which meets the siblings there are has the hash of every node it
passes. An append is such a climb (`AppendHash`), since the subtrees it merges are the left
siblings; so is the root over the compact range (`BorderHash`), and what the verifier does.
`Accumulates(acc, leaves, off)` is what an accumulator that was continued behind `off` leaves
keeps: the compact hashes; in its map only nodes of the tree, each *complete* one with its
hash; and all complete nodes that are not under the frontier. A border node of an earlier root is
incomplete until the append that completes it enters it anew, which is the case a proof must
not get wrong. An append, a root and a boot from a frontier preserve it (`AppendAccumulates`,
`AfterRootAccumulates`, `FrontierAccumulates`). For soundness a climb is read backwards: the
hash at the top fixes the two below it, level by level (`ClimbSound`).

**Heads** (`HeadsProofs`).

- `HeadsTyped`: `Spec => []TypeOK`.
- `ServedProofsVerify`: `Spec => []TreeServesLog`.
- `HeadFileVerifies`: `Spec => []HeadVerifies`.
- `FilesMatchLog`: `Spec => []HeadsInv`, the inductive invariant. Every frontier, of a seal or
  the top, in the file or in memory, is that of the log at some size (`CheckpointRight`); every head
  file is the signed head over the log at some size (`HeadRight`), and the one being
  written is of this daemon, over at least the records it started with (`HeadFresh`); the accumulator
  `Accumulates` the log from the offset on, and has all of it once the daemon serves.

What is only model-checked: the liveness properties (`SealedReachesCold`, `EverythingArrives`,
`EverythingAcknowledged`, `EverythingBridged`, `HeadCatchesUp`), since liveness under fairness and
`ENABLED` are beyond the prover; and that `Rows` is the RFC's recursive definition by splitting
(`RowsAreRFC6962`), since the prover does not support recursive operators. Every
invariant and every action property of a passing run is a theorem.

## Findings

`PROJECT.json` quotes the lines. With a run:

1. `store_syncfault`: a failed fsync leaves its frame in the file; the retry forks the
   chain on disk and the next boot refuses the log.
2. `retention_seal`: after a crash between a seal's rename and its checkpoint the next
   seal overwrites the segment.
3. `edgetail_deny`: a pre-authentication deny, which the converter lets through and
   the ingest refuses for good, is retried for ever and holds up the bridge.

Without one, met while modelling; where a property of a passing run excludes the
case, its guard says so:

- Store: a torn tail is not truncated, so records acknowledged after the restart are
  unreadable behind it or the log is refused (`wal.go:60`, `NoHalfWrites`); recovery
  acknowledges replays of frames no fsync covered (`recover.go:45`, `AckedSynced`).
- Retention: a resumed rotation removes the hot copy before the checkpoint says rotated
  (`rotate.go:197`, the window `resumeCrash`); the roll-back of a failed promotion leaves
  the anchors promoted, and a later boot refuses an intact log (`manager.go:257`,
  `rollbackCrash`); a hot copy that is left over after its rotation was saved is never
  removed (`manager.go:233`); one failed read of a segment that was just sealed makes the
  next tick seal over it, without a crash (`manager.go:191`, `inventoryFault`). The instance of
  `retention_seal` with that fault in place of the crash violates the same property in nine steps.
- Fanout: a half-written line swallows the record that is retried (`fanout.go:183`,
  `tornLine`); the restart of a pump whose cursor writes fail repeats everything
  since the last good one (`fanout.go:121`, `RedeliveryBounded`).
- Ingest: two self-emits can reach the store in the wrong order and one is lost
  (`server.go:206-223`, `EmitNeverRegresses`); an episode whose first shaped request is
  overtaken closes unreported (`fairness.go:111-146`, `SaturationReported`); the retry of a
  committed event whose answer was lost is refused for ever once the event was rotated and
  the daemon restarted (`recover_anchored.go:79`, `forgetful`).
- EdgeTail: lines written between the last run and a rename are never read, and a new log
  that has outgrown the offset is taken for the old one (`tail.go:75`, `Lossless`);
  `publish.Retriable` disagrees with its comment about a 429 (`publish.go:185`).
- HotMargin: no tick or seal interval that breaks the margin is refused (`policy.go:47`,
  `MarginSuffices`); a breach that ends in the tick that would report it, or that is in
  the active file, leaves no record (`manager.go:134`), and a hot copy whose removal failed stays
  past the ceiling without one for good (`manager.go:278`, `leftover`).
- PolicyPin: a first boot pins nothing on the disk, so a restart before the first seal
  may lower the floor (`manager.go:86`, `origin`); the record of a policy change can be lost
  behind its save (`manager.go:116`, `Sound`) and does not show the seal interval
  (`manager.go:120`, `Shown`).

## Not modelled, and why

- Bytes: frame headers, CRC, JSON, envelope bounds, the date in the head, the encodings that
  are signed. They are data conversions; the models take a whole frame as readable, and a
  signature as a value that only its key makes over that content.
- Authorisation, TLS, flags: stateless decisions and I/O.
- A power loss outside `Store`. The crashes elsewhere are process crashes:
  renames and writes that returned stay. `FileSink` and the head file are not fsynced.
- Tampering with the files. What the verifier must reject is a matter of the chain and tree operators
  and of the hash assumption: `Heads` shows what it must accept, `OnlyTheLeafIsProved` and
  `OnlyThePrefixIsProved` what it must not.
- A log that is copied and truncated while a run has unread bytes in its buffer, and
  the tailer's count of skipped lines (`EdgeTail` truncates and renames between reads).
- Sources that send out of order.
- In `Heads` and `PolicyPin`: failures inside a seal, a rotation or a checkpoint write of a running
  manager, which are `Retention`'s; in `Heads`, the chain part of `VerifyStore`, which is
  `HashChain`'s.
- Build files, container image and interface descriptions.

## Plan

Every component with state of its own is modelled, and every safety property of a
passing run is a theorem. What is left:

1. A property for the two failures after which every append fails until a restart: the write error
   that stays in the `bufio.Writer` (`wal.go:145`, `AdmitRefused` of `Store`), and the directory
   fsync or reopen that fails after a seal's rename (`wal.go:103`, `SealWedges` of `Retention`). The
   models have both; what a supervisor has to do about them is not in the code.
2. The refinement of a smaller model of the pump, in which delivery and cursor are one step, by
   `Fanout` in environments without crashes between them.
