------------------------------- MODULE Store -------------------------------
(***************************************************************************)
(* The durable store on one WAL file: admission (internal/store/store.go)  *)
(* over the framed append-only log (internal/wal/wal.go), and the boot     *)
(* that rebuilds the serving state from it (internal/store/recover.go).    *)
(*                                                                         *)
(* The store lock makes one admission atomic towards the other calls; a    *)
(* crash is not bound by a lock, so every place inside Append where the    *)
(* process can die, and every way Append can fail, is an action of its     *)
(* own.  The variable faults says which of them the environment has.       *)
(***************************************************************************)
EXTENDS HashChain, SequencesExt

CONSTANTS Sources,    \* host-attested source labels, one per channel
          Seqs,       \* sequence numbers the sources may send
          Bodies,     \* event contents
          Oversized,  \* contents whose marshalled record exceeds maxRecord
          Times,      \* readings of the host clock (it may go back)
          Environments, \* sets of faults; a behaviour has one of them
          MaxFrames,  \* bound: frames the active file may hold
          MaxLack     \* bound: following frames that complete a torn one

FaultKinds == {"crash", "ackLost", "unsyncedFrame", "tornFrame",
               "syncFault", "writeFault", "powerLoss"}

ASSUME StoreAssumption ==
  /\ Seqs \subseteq Nat /\ Times \subseteq Nat
  /\ Oversized \subseteq Bodies
  /\ Environments \subseteq SUBSET FaultKinds
  /\ MaxFrames \in Nat /\ MaxLack \in Nat

Events == [seq : Seqs, body : Bodies]

VARIABLES
  faults,   \* what can go wrong; never changes
  disk,     \* frames of the active file, as a reader of the file sees them
  synced,   \* how many of them a power loss cannot take away
  wal,      \* WAL handle: "open"; "stuck" on a bufio error; "closed"
  proc,     \* daemon: "up" (serving), "down", "refused" (boot failed)
  tip,      \* perSourceLastHash and perSourceLastSeq
  seen,     \* the (source, sequence) dedupe set
  records,  \* committed records in commit order
  leaves,   \* leaves of the Merkle accumulator
  floor,    \* ingestFloor
  acked     \* history: keys a source got a 200 for

memory == <<tip, seen, records, leaves, floor>>
vars == <<faults, disk, synced, wal, proc, tip, seen, records, leaves, floor, acked>>

-----------------------------------------------------------------------------
(***************************************************************************)
(* Frames.  lacks = 0 is a whole frame.  A torn frame lacks bytes; a reader *)
(* takes them from whatever follows, and "lacks" is the number of frames   *)
(* appended behind it that are enough to fill it.                          *)
(***************************************************************************)
Whole(rec)    == [rec |-> rec, lacks |-> 0]
Torn(rec, n)  == [rec |-> rec, lacks |-> n]
TornFrames(d) == {i \in 1..Len(d) : d[i].lacks > 0}

\* Seeded fault: the short last read is handed out as a record.
ReadableWithTorn(d) ==
  LET n == IF TornFrames(d) = {} THEN Len(d) ELSE Min(TornFrames(d))
  IN  [i \in 1..n |-> d[i].rec]

\* ReadAll stops at the first torn frame and drops it ...
Readable(d) ==
  LET n == IF TornFrames(d) = {} THEN Len(d) ELSE Min(TornFrames(d)) - 1
  IN  [i \in 1..n |-> d[i].rec]

\* ... unless later frames completed it: then its CRC cannot match, and that
\* is a hard error.
Corrupt(d) ==
  /\ TornFrames(d) # {}
  /\ Len(d) - Min(TornFrames(d)) >= d[Min(TornFrames(d))].lacks

-----------------------------------------------------------------------------
(* Admission: the decisions Admit takes under the store lock. *)

Key(s, e) == <<s, e.seq>>

Duplicate(s, e) == Key(s, e) \in seen

\* ErrSequenceRegressed: answered 409, nothing changes.
Regressed(s, e) == tip[s].have /\ e.seq <= tip[s].seq

\* stampIngest: the clock reading, floored by the highest stamp so far.
Stamp(now) == IF now < floor THEN floor ELSE now

NextRecord(s, e, now) == Author(s, e.seq, e.body, Stamp(now), tip[s].hash)

\* An admission that reaches WAL.Append.
ReachesAppend(s, e) ==
  /\ proc = "up"
  /\ ~Duplicate(s, e)
  /\ ~Regressed(s, e)

\* An admission whose frame Append starts to write.
Writes(s, e) ==
  /\ ReachesAppend(s, e)
  /\ wal = "open"
  /\ e.body \notin Oversized
  /\ Len(disk) < MaxFrames

\* 200 on an exact replay: no record is appended.
AdmitDuplicate(s, e) ==
  /\ proc = "up"
  /\ Duplicate(s, e)
  /\ acked' = acked \cup {Key(s, e)}
  /\ UNCHANGED <<faults, disk, synced, wal, proc, memory>>

\* Seeded fault: the leaf is the whole link and not the hash.
CommitLinkLeaf(rec) ==
  /\ tip' = [tip EXCEPT ![rec.source] = TipOf(rec)]
  /\ seen' = seen \cup {<<rec.source, rec.seq>>}
  /\ records' = Append(records, rec)
  /\ leaves' = Append(leaves, <<rec.prev, rec.hash>>)

\* The in-memory state after a committed append.
Commit(rec) ==
  /\ tip' = [tip EXCEPT ![rec.source] = TipOf(rec)]
  /\ seen' = seen \cup {<<rec.source, rec.seq>>}
  /\ records' = Append(records, rec)
  /\ leaves' = Append(leaves, rec.hash)

\* Seeded fault: the ack does not wait for the fsync.
AdmitWithoutSync(s, e, now) ==
  /\ Writes(s, e)
  /\ LET rec == NextRecord(s, e, now)
     IN  disk' = Append(disk, Whole(rec)) /\ Commit(rec)
  /\ floor' = Stamp(now)
  /\ acked' = acked \cup {Key(s, e)}
  /\ UNCHANGED <<faults, synced, wal, proc>>

\* fsync succeeded: state advances, the ack is licensed.
AdmitCommitted(s, e, now) ==
  /\ Writes(s, e)
  /\ LET rec == NextRecord(s, e, now)
     IN  /\ disk' = Append(disk, Whole(rec))
         /\ Commit(rec)
  /\ synced' = Len(disk')
  /\ floor' = Stamp(now)
  /\ acked' = acked \cup {Key(s, e)}
  /\ UNCHANGED <<faults, wal, proc>>

\* Seeded fault: the error of the append is answered 200.
AdmitRefusedAcked(s, e, now) ==
  /\ ReachesAppend(s, e)
  /\ wal # "open" \/ e.body \in Oversized
  /\ floor' = Stamp(now)
  /\ acked' = acked \cup {Key(s, e)}
  /\ UNCHANGED <<faults, disk, synced, wal, proc, tip, seen, records, leaves>>

\* 503 before anything is written: the record is oversized, the handle is
\* closed, or an earlier write error sticks in the buffered writer.  The
\* stamp has already raised the floor.
AdmitRefused(s, e, now) ==
  /\ ReachesAppend(s, e)
  /\ wal # "open" \/ e.body \in Oversized
  /\ floor' = Stamp(now)
  /\ UNCHANGED <<faults, disk, synced, wal, proc, tip, seen, records, leaves, acked>>

\* Seeded fault: the dedupe set is marked before the durable commit.
AdmitSyncFaultSeen(s, e, now) ==
  /\ "syncFault" \in faults
  /\ Writes(s, e)
  /\ disk' = Append(disk, Whole(NextRecord(s, e, now)))
  /\ seen' = seen \cup {Key(s, e)}
  /\ floor' = Stamp(now)
  /\ UNCHANGED <<faults, synced, wal, proc, tip, records, leaves, acked>>

\* 503 from a failed fsync: the whole frame is already in the file.
AdmitSyncFault(s, e, now) ==
  /\ "syncFault" \in faults
  /\ Writes(s, e)
  /\ disk' = Append(disk, Whole(NextRecord(s, e, now)))
  /\ floor' = Stamp(now)
  /\ UNCHANGED <<faults, synced, wal, proc, tip, seen, records, leaves, acked>>

\* 503 from a failed write or flush: none or part of the frame is in the
\* file, and the buffered writer returns the error from now on.
AdmitWriteFault(s, e, now) ==
  /\ "writeFault" \in faults
  /\ Writes(s, e)
  /\ \/ disk' = disk
     \/ \E n \in 1..MaxLack : disk' = Append(disk, Torn(NextRecord(s, e, now), n))
  /\ wal' = "stuck"
  /\ floor' = Stamp(now)
  /\ UNCHANGED <<faults, synced, proc, tip, seen, records, leaves, acked>>

\* Store.Close on shutdown; handlers still in flight get ErrClosed.
Close ==
  /\ proc = "up" /\ wal # "closed"
  /\ wal' = "closed"
  /\ UNCHANGED <<faults, disk, synced, proc, memory, acked>>

-----------------------------------------------------------------------------
(* The process stops.  Nothing in memory survives. *)

Forget ==
  /\ proc' = "down"
  /\ wal' = "closed"
  /\ tip' = Genesis(Sources)
  /\ seen' = {}
  /\ records' = << >>
  /\ leaves' = << >>
  /\ floor' = 0

\* Between two admissions, or on a clean exit.
Crash ==
  /\ proc = "up"
  /\ "crash" \in faults \/ wal = "closed"
  /\ Forget
  /\ UNCHANGED <<faults, disk, synced, acked>>

\* After the fsync and before the response: committed, never answered.
CrashBeforeAck(s, e, now) ==
  /\ "ackLost" \in faults
  /\ Writes(s, e)
  /\ disk' = Append(disk, Whole(NextRecord(s, e, now)))
  /\ synced' = Len(disk')
  /\ Forget
  /\ UNCHANGED <<faults, acked>>

\* After the flush and before the fsync: the page cache keeps the frame.
CrashBeforeSync(s, e, now) ==
  /\ "unsyncedFrame" \in faults
  /\ Writes(s, e)
  /\ disk' = Append(disk, Whole(NextRecord(s, e, now)))
  /\ Forget
  /\ UNCHANGED <<faults, synced, acked>>

\* In the middle of the write: part of the frame is in the file.
CrashMidWrite(s, e, now) ==
  /\ "tornFrame" \in faults
  /\ Writes(s, e)
  /\ \E n \in 1..MaxLack : disk' = Append(disk, Torn(NextRecord(s, e, now), n))
  /\ Forget
  /\ UNCHANGED <<faults, synced, acked>>

\* The machine loses power: any suffix that was not fsynced may be gone.
PowerLoss ==
  /\ "powerLoss" \in faults
  /\ \E keep \in synced..Len(disk) :
        /\ disk' = SubSeq(disk, 1, keep)
        /\ synced' = keep
  /\ Forget
  /\ UNCHANGED <<faults, acked>>

-----------------------------------------------------------------------------
(* Boot: Recover reads, verifies from genesis, and rebuilds. *)

BootAccepts(d) == ~Corrupt(d) /\ VerifyChains(Readable(d), Genesis(Sources))

\* Seeded fault: the store boots with the records but no chain tips.
RebuildAmnesiac(recs) ==
  /\ tip' = Genesis(Sources)
  /\ seen' = KeysOf(recs)
  /\ records' = recs
  /\ leaves' = LeavesOf(recs)
  /\ floor' = FloorOf(recs, 0)

\* The state Recover rebuilds from the records it read.
Rebuild(recs) ==
  /\ tip' = TipsOf(recs, Genesis(Sources))
  /\ seen' = KeysOf(recs)
  /\ records' = recs
  /\ leaves' = LeavesOf(recs)
  /\ floor' = FloorOf(recs, 0)

\* Nothing is written at boot: a torn tail stays in the file.
BootServes ==
  /\ proc # "up"
  /\ BootAccepts(disk)
  /\ Rebuild(Readable(disk))
  /\ wal' = "open"
  /\ proc' = "up"
  /\ UNCHANGED <<faults, disk, synced, acked>>

BootRefuses ==
  /\ proc = "down"
  /\ ~BootAccepts(disk)
  /\ proc' = "refused"
  /\ UNCHANGED <<faults, disk, synced, wal, memory, acked>>

-----------------------------------------------------------------------------
\* The first boot: no file yet, an empty store.
Init ==
  /\ faults \in Environments
  /\ disk = << >>
  /\ synced = 0
  /\ wal = "open"
  /\ proc = "up"
  /\ tip = Genesis(Sources)
  /\ seen = {}
  /\ records = << >>
  /\ leaves = << >>
  /\ floor = 0
  /\ acked = {}

Admit(s, e, now) ==
  \/ AdmitCommitted(s, e, now)
  \/ AdmitRefused(s, e, now)
  \/ AdmitSyncFault(s, e, now)
  \/ AdmitWriteFault(s, e, now)
  \/ CrashBeforeAck(s, e, now)
  \/ CrashBeforeSync(s, e, now)
  \/ CrashMidWrite(s, e, now)

Next ==
  \/ \E s \in Sources, e \in Events : AdmitDuplicate(s, e)
  \/ \E s \in Sources, e \in Events, now \in Times : Admit(s, e, now)
  \/ Close
  \/ Crash
  \/ PowerLoss
  \/ BootServes
  \/ BootRefuses

Spec == Init /\ [][Next]_vars
-----------------------------------------------------------------------------
HashInputs == [source : Sources, seq : Nat, body : Bodies, time : Nat]
Hashes     == Seq(Nat \X HashInputs)
Records    == [source : Sources, seq : Nat, body : Bodies, time : Nat,
               prev : Hashes, hash : Hashes]
Tips       == [have : BOOLEAN, hash : Hashes, seq : Nat]
Frames     == [rec : Records, lacks : Nat]

TypeOK ==
  /\ faults \in Environments
  /\ disk \in Seq(Frames)
  /\ synced \in 0..Len(disk)
  /\ wal \in {"open", "stuck", "closed"}
  /\ proc \in {"up", "down", "refused"}
  /\ tip \in [Sources -> Tips]
  /\ seen \subseteq Sources \X Nat
  /\ records \in Seq(Records)
  /\ leaves \in Seq(Hashes)
  /\ floor \in Nat
  /\ acked \subseteq Sources \X Nat

(***************************************************************************)
(* Under every fault.                                                      *)
(***************************************************************************)

\* The four in-memory views the store keeps (chain tips, dedupe set, Merkle
\* leaves, ingest floor) always describe one and the same list of committed
\* records, however admissions, refusals, faults and recoveries interleave:
\* store.go updates them one by one and recovery rebuilds them separately.
ServingStateCoherent ==
  /\ tip = TipsOf(records, Genesis(Sources))
  /\ seen = KeysOf(records)
  /\ leaves = LeavesOf(records)
  /\ \A t \in TimesOf(records) : t <= floor

\* The records being served always pass the verifier that boot and the
\* independent verifier run (VerifyChainsFromRaw): no fault makes the daemon
\* author a record that does not link.
ServedChainsVerify == VerifyChains(records, Genesis(Sources))

\* NFR-SEC-48: along the commit order stamps never go back, also not across a
\* restart, whatever the host clock does.
StampsNeverRegress ==
  \A i, j \in 1..Len(records) : i < j => records[i].time <= records[j].time

\* The three together: whatever fails, and whenever, memory is the state after
\* one list of committed records that verifies and is stamped in order.
ServingConsistent == ServingStateCoherent /\ ServedChainsVerify /\ StampsNeverRegress

\* Every record served is a whole frame of the file, and the file has them in
\* commit order: memory never runs ahead of the log.
ServedRecordsOnDisk ==
  \A i \in 1..Len(records) :
     /\ Whole(records[i]) \in Range(disk)
     /\ \A j \in 1..i-1 :
           \E k, m \in 1..Len(disk) :
              k < m /\ disk[k] = Whole(records[j]) /\ disk[m] = Whole(records[i])

(***************************************************************************)
(* Where every append that returns an error, and every crash, leaves whole *)
(* frames only and the error happened before the write.                    *)
(***************************************************************************)
NoHalfWrites == faults \cap {"tornFrame", "syncFault", "writeFault"} = {}

\* Boot acknowledges what it reads without an fsync, so an unsynced frame that
\* survives a process crash must not meet a power loss.
Sound == NoHalfWrites /\ ~({"unsyncedFrame", "powerLoss"} \subseteq faults)

\* What a reader of the file finds is what the daemon serves: the
\* independent verifier and the signed head count the same records.
DiskMatchesMemory ==
  NoHalfWrites /\ proc = "up" => ~Corrupt(disk) /\ Readable(disk) = records

\* Memory and file say the same of what is committed: under every fault
\* memory is not ahead of the file, and without half writes nor behind it.
FileMatchesServing == ServedRecordsOnDisk /\ DiskMatchesMemory

\* Fail-closed boot never locks out a log the daemon wrote itself.
BootNeverRefused == NoHalfWrites => proc # "refused"

\* INV-4: everything acknowledged is readable from the log at every instant,
\* so any crash can be recovered from without losing it.
AckedInLog == Sound => acked \subseteq KeysOf(Readable(disk))

\* A replay of an acknowledged event is recognised as such after any number
\* of restarts: it is answered 200, not refused as a regression.
AckedReplayable == Sound /\ proc = "up" => acked \subseteq seen

\* INV-4 on the medium itself: where no crash leaves an unsynced frame behind,
\* everything acknowledged is within what the last fsync covered.
AckedSynced ==
  NoHalfWrites /\ "unsyncedFrame" \notin faults =>
     acked \subseteq KeysOf(Readable(SubSeq(disk, 1, synced)))

\* INV-4 as a whole: an acknowledgement stays good in the log, on the medium
\* and towards a source that replays.
AckedKept == AckedInLog /\ AckedReplayable /\ AckedSynced

(***************************************************************************)
(* What a comment promises and the code does not keep.                     *)
(***************************************************************************)

\* store.go:108-109: after any error of an admission the chains are unbroken
\* because nothing was appended, so the log of a running daemon verifies.
RefusalLeavesChainsUnbroken ==
  proc = "up" /\ ~Corrupt(disk) => VerifyChains(Readable(disk), Genesis(Sources))

(***************************************************************************)
(* What the log file lets a reader see implements the promise: no action   *)
(* of the daemon, crash or recovery takes a committed record back, reorders *)
(* or forks a chain, or withdraws an acknowledgement.  Environments that   *)
(* are not Sound map to the empty log.                                     *)
(***************************************************************************)
LogView   == IF Sound THEN Readable(disk) ELSE << >>
AckedView == IF Sound THEN acked ELSE {}
Log == INSTANCE DurableLog WITH log <- LogView, acked <- AckedView

\* Every step of the store is a commit, an acknowledgement or a stutter of the
\* abstract log (store.go:106-109, README INV-4).
ImplementsDurableLog == Log!Spec
=============================================================================
