----------------------------- MODULE Retention -----------------------------
(***************************************************************************)
(* The two-tier log: sealing the active WAL file into segments             *)
(* (internal/wal/wal.go SealTo, internal/store/store.go SealActive),       *)
(* rotating old segments to the cold tier (internal/retention/rotate.go),  *)
(* the signed checkpoint that makes a rotation survive a restart           *)
(* (checkpoint.go), the manager that drives them (manager.go), and the     *)
(* boot that continues from hot tier and checkpoint alone                  *)
(* (internal/store/recover_anchored.go).                                   *)
(*                                                                         *)
(* Admissions run beside the manager's goroutine; a tick is therefore a    *)
(* sequence of steps, one for every point where an admission can come in   *)
(* between or the process can die.  Store.tla has the admission decisions  *)
(* and the faults inside one append: here an admission commits the next    *)
(* record of its source or is refused because the log file is unusable.    *)
(*                                                                         *)
(* A file is the sequence of the records in it, a digest is the content it *)
(* is computed from, a Merkle frontier is the sequence of the leaves below *)
(* it: two of them are equal exactly when what they summarise is.          *)
(***************************************************************************)
EXTENDS HashChain, SequencesExt

CONSTANTS Producers,     \* sources of audit events
          Pipeline,      \* the source of self-emitted evidence
          Times,         \* readings of the host clock (it may go back)
          SealInterval,  \* Policy.SealInterval
          HotMax,        \* Policy.HotMax
          NoFile,        \* content of a file that does not exist
          Environments,  \* sets of faults; a behaviour has one of them
          MaxRecords,    \* bound: committed records
          MaxSegments    \* bound: sealed segments

\* Errors of a seal, of the reading of a segment that was just sealed, of a copy
\* to the cold tier, of a checkpoint write, of the removal of a hot copy; a crash;
\* and a crash in one of three windows, which are states of the disk and defined
\* with Crash below.
FaultKinds == {"sealFault", "inventoryFault", "copyFault", "checkpointFault", "removeFault",
               "crash", "sealCrash", "resumeCrash", "rollbackCrash"}

ASSUME RetentionAssumption ==
  /\ Pipeline \notin Producers
  /\ Times \subseteq Nat \ {0}
  /\ SealInterval \in Nat /\ HotMax \in Nat
  /\ 0 < SealInterval /\ SealInterval < HotMax
  /\ Environments \subseteq SUBSET FaultKinds
  /\ MaxRecords \in Nat /\ MaxSegments \in Nat

Sources  == Producers \cup {Pipeline}
Segments == 1..MaxSegments

VARIABLES
  faults,   \* what can go wrong; never changes
  \* the disk
  active,   \* the active WAL file
  hot,      \* sealed segments of the hot directory, by index
  cold,     \* segments of the cold directory, by index
  temp,     \* temporary of the copy under way, or left by a crash
  saved,    \* the checkpoint file
  \* the daemon's store
  proc,     \* "up", "down", "refused" (boot failed)
  wal,      \* WAL handle: "open" or "closed"
  offset,   \* globalOffset
  records,  \* committed records the store holds
  leaves,   \* leaves of the Merkle accumulator
  tip,      \* perSourceLastHash and perSourceLastSeq
  floor,    \* ingestFloor
  \* the retention manager
  pc,       \* where its tick is
  now,      \* the time its tick was given
  cp,       \* its checkpoint
  snap,     \* the seal snapshot it was handed
  failing,  \* segments whose failure episode is on record
  breached, \* segments whose ceiling breach is on record
  \* history
  log       \* every record committed so far, in commit order

disk    == <<active, hot, cold, temp, saved>>
serving == <<proc, wal, offset, records, leaves, tip, floor>>
manager == <<pc, now, cp, snap, failing, breached>>
vars    == <<faults, disk, serving, manager, log>>

-----------------------------------------------------------------------------
(* Checkpoint and policy. *)

Exists(file)  == file # NoFile
Content(file) == IF Exists(file) THEN file ELSE << >>

\* The empty checkpoint, which is also what an absent file amounts to.
EmptyCheckpoint ==
  [segments |-> << >>, tips |-> Genesis(Sources), frontier |-> << >>]

NoSnapshot == [tips |-> Genesis(Sources), frontier |-> << >>]

Rotated(c)   == {i \in DOMAIN c.segments : c.segments[i].rotated}
Unrotated(c) == DOMAIN c.segments \ Rotated(c)
HasAnchors(c) == Len(c.frontier) > 0 \/ Rotated(c) # {}

\* The global index behind the last sealed record, and the last seal.
Boundary(c) == Max({c.segments[i].lastGlobal + 1 : i \in DOMAIN c.segments} \cup {0})
LastSeal(c) == Max({c.segments[i].sealedAt : i \in DOMAIN c.segments} \cup {0})

SealDue(t) ==
  /\ t >= LastSeal(cp) + SealInterval
  /\ offset + Len(records) > Boundary(cp)
  /\ Len(cp.segments) < MaxSegments

RotationDue(seg, t)     == t + SealInterval >= seg.first + HotMax
CeilingBreached(seg, t) == t > seg.first + HotMax

\* Seeded fault: the last index is one too low.
SegmentEntryOffByOne(content) ==
  [digest      |-> content,
   first       |-> Min(TimesOf(content)),
   last        |-> Max(TimesOf(content)),
   firstGlobal |-> Boundary(cp),
   lastGlobal  |-> Boundary(cp) + Len(content) - 2,
   sealedAt    |-> now,
   rotated     |-> FALSE,
   tips        |-> snap.tips,
   frontier    |-> snap.frontier]

\* The inventory row of a segment that was just sealed.
SegmentEntry(content) ==
  [digest      |-> content,
   first       |-> Min(TimesOf(content)),
   last        |-> Max(TimesOf(content)),
   firstGlobal |-> Boundary(cp),
   lastGlobal  |-> Boundary(cp) + Len(content) - 1,
   sealedAt    |-> now,
   rotated     |-> FALSE,
   tips        |-> snap.tips,
   frontier    |-> snap.frontier]

-----------------------------------------------------------------------------
(* Admission, by the ingest handlers and by the manager's own evidence. *)

NextRecord(s, body, t) ==
  Author(s, tip[s].seq + 1, body, IF t < floor THEN floor ELSE t, tip[s].hash)

Commit(rec) ==
  /\ active' = Append(active, rec)
  /\ records' = Append(records, rec)
  /\ leaves' = Append(leaves, rec.hash)
  /\ tip' = [tip EXCEPT ![rec.source] = TipOf(rec)]
  /\ floor' = rec.time
  /\ log' = Append(log, rec)

\* The seal holds the store lock from the rename to the reopen.
Admit(s, t) ==
  /\ proc = "up" /\ pc # "reopen" /\ wal = "open"
  /\ Len(log) < MaxRecords
  /\ Commit(NextRecord(s, "event", t))
  /\ UNCHANGED <<faults, hot, cold, temp, saved, proc, wal, offset, manager>>

\* 503 from a WAL that a failed seal closed; the stamp raises the floor.
AdmitRefused(t) ==
  /\ proc = "up" /\ wal = "closed"
  /\ t > floor
  /\ floor' = t
  /\ UNCHANGED <<faults, disk, proc, wal, offset, records, leaves, tip, manager, log>>

\* SelfEmit swallows the error of an admission that fails.
SelfEmit(handle, body) ==
  IF handle = "open" /\ Len(log) < MaxRecords
  THEN Commit(NextRecord(Pipeline, body, now))
  ELSE UNCHANGED <<active, records, leaves, tip, floor, log>>

\* One record per failure episode of a segment.
EmitOnce(handle, i, body) ==
  /\ failing' = failing \cup {i}
  /\ IF i \in failing
     THEN UNCHANGED <<active, records, leaves, tip, floor, log>>
     ELSE SelfEmit(handle, body)

-----------------------------------------------------------------------------
(* Tick, first part: maybeSeal. *)

NextSegment == Len(cp.segments) + 1

TickBegins(t) ==
  /\ proc = "up" /\ pc = "idle"
  /\ now' = t
  /\ pc' = IF SealDue(t) THEN "seal" ELSE "rotate"
  /\ UNCHANGED <<faults, disk, serving, cp, snap, failing, breached, log>>

\* Flush, fsync, close and rename.  A file of that name is overwritten.
SealRenames ==
  /\ pc = "seal" /\ wal = "open"
  /\ hot' = [hot EXCEPT ![NextSegment] = active]
  /\ active' = NoFile
  /\ pc' = "reopen"
  /\ UNCHANGED <<faults, cold, temp, saved, serving, now, cp, snap, failing,
                 breached, log>>

\* An error before the rename leaves the file in place; if it was the close
\* that failed, the handle is gone.
SealFails ==
  /\ pc = "seal"
  /\ wal = "closed" \/ "sealFault" \in faults
  /\ \E handle \in {wal, "closed"} :
        wal' = handle /\ EmitOnce(handle, NextSegment, "seal_failure")
  /\ pc' = "rotate"
  /\ UNCHANGED <<faults, hot, cold, temp, saved, proc, offset, now, cp, snap, breached>>

\* An error after the rename leaves no active file and no usable handle.
SealWedges ==
  /\ pc = "reopen" /\ "sealFault" \in faults
  /\ wal' = "closed"
  /\ EmitOnce("closed", NextSegment, "seal_failure")
  /\ pc' = "rotate"
  /\ UNCHANGED <<faults, hot, cold, temp, saved, proc, offset, now, cp, snap, breached>>

\* Directory fsync, a fresh active file, and the anchors under the store lock.
SealReopens ==
  /\ pc = "reopen"
  /\ active' = << >>
  /\ snap' = [tips |-> tip, frontier |-> leaves]
  /\ pc' = "inventory"
  /\ UNCHANGED <<faults, hot, cold, temp, saved, serving, now, cp, failing, breached, log>>

\* inventorySealed refuses an empty segment, or cannot read or decode the one that
\* was sealed.  That one stays in hot without a row: NextSegment does not move,
\* and the next seal renames its file onto it.
InventoryFails ==
  /\ pc = "inventory"
  /\ hot[NextSegment] = << >> \/ "inventoryFault" \in faults
  /\ EmitOnce(wal, NextSegment, "seal_failure")
  /\ pc' = "rotate" /\ snap' = NoSnapshot
  /\ UNCHANGED <<faults, hot, cold, temp, saved, proc, wal, offset, now, cp, breached>>

\* The segment enters the inventory and the checkpoint is written.
InventorySaves ==
  /\ pc = "inventory" /\ hot[NextSegment] # << >>
  /\ cp' = [cp EXCEPT !.segments = Append(@, SegmentEntry(hot[NextSegment]))]
  /\ saved' = cp'
  /\ failing' = failing \ {NextSegment}
  /\ pc' = "rotate" /\ snap' = NoSnapshot
  /\ UNCHANGED <<faults, active, hot, cold, temp, serving, now, breached, log>>

\* WriteCheckpoint fails, before the rename or in the directory fsync behind
\* it; the row stays in memory.
InventoryUnsaved ==
  /\ pc = "inventory" /\ hot[NextSegment] # << >>
  /\ "checkpointFault" \in faults
  /\ cp' = [cp EXCEPT !.segments = Append(@, SegmentEntry(hot[NextSegment]))]
  /\ saved' \in {saved, cp'}
  /\ SelfEmit(wal, "seal_failure")
  /\ failing' = failing \ {NextSegment}
  /\ pc' = "rotate" /\ snap' = NoSnapshot
  /\ UNCHANGED <<faults, hot, cold, temp, proc, wal, offset, now, breached>>

-----------------------------------------------------------------------------
(* Tick, second part: rotateDue, on the first segment that is not rotated. *)

Turn == Min(Unrotated(cp))

\* Seeded fault: the loop ends at a rotated segment instead of skipping it.
RotationIsDueOnce ==
  Rotated(cp) = {} /\ Unrotated(cp) # {} /\ RotationDue(cp.segments[Turn], now)

RotationIsDue == Unrotated(cp) # {} /\ RotationDue(cp.segments[Turn], now)

NothingToRotate ==
  /\ pc = "rotate" /\ ~RotationIsDue
  /\ pc' = "breach"
  /\ UNCHANGED <<faults, disk, serving, now, cp, snap, failing, breached, log>>

\* The rotation of this tick ends with an error.
RotationFails ==
  /\ EmitOnce(wal, Turn, "rotation_failure")
  /\ pc' = "breach"
  /\ UNCHANGED <<faults, proc, wal, offset, now, snap, breached>>

\* Seeded fault: the copy that goes is the cold one.
ResumeRemovesCold ==
  /\ pc = "rotate" /\ RotationIsDue
  /\ Exists(hot[Turn]) /\ hot[Turn] = cold[Turn]
  /\ cold' = [cold EXCEPT ![Turn] = NoFile]
  /\ temp' = NoFile
  /\ pc' = "promote"
  /\ UNCHANGED <<faults, active, hot, saved, serving, now, cp, snap, failing, breached, log>>

\* ResumeSegment discards temporaries; with both copies present and identical
\* it removes the hot one.
ResumeRemovesHot ==
  /\ pc = "rotate" /\ RotationIsDue
  /\ Exists(hot[Turn]) /\ hot[Turn] = cold[Turn]
  /\ hot' = [hot EXCEPT ![Turn] = NoFile]
  /\ temp' = NoFile
  /\ pc' = "promote"
  /\ UNCHANGED <<faults, active, cold, saved, serving, now, cp, snap, failing, breached, log>>

\* Divergent copies are left alone.  Identical ones are if the removal fails;
\* if only the directory fsync behind it fails, the hot copy is gone.
ResumeFails ==
  /\ pc = "rotate" /\ RotationIsDue
  /\ Exists(hot[Turn]) /\ Exists(cold[Turn])
  /\ \/ hot[Turn] # cold[Turn] /\ hot' = hot
     \/ /\ hot[Turn] = cold[Turn] /\ "removeFault" \in faults
        /\ hot' \in {hot, [hot EXCEPT ![Turn] = NoFile]}
  /\ temp' = NoFile
  /\ RotationFails
  /\ UNCHANGED <<cold, saved, cp>>

\* Without a hot copy the rotation counts as finished by an earlier attempt.
ResumeFinished ==
  /\ pc = "rotate" /\ RotationIsDue
  /\ ~Exists(hot[Turn])
  /\ temp' = NoFile
  /\ pc' = "promote"
  /\ UNCHANGED <<faults, active, hot, cold, saved, serving, now, cp, snap, failing,
                 breached, log>>

\* Seeded fault: the copy is written under the final name.
CopyWritesInPlace ==
  /\ pc = "rotate" /\ RotationIsDue
  /\ Exists(hot[Turn]) /\ ~Exists(cold[Turn])
  /\ \/ cold' = [cold EXCEPT ![Turn] = hot[Turn]]
     \/ "copyFault" \in faults /\ cold' = [cold EXCEPT ![Turn] = Front(hot[Turn])]
  /\ temp' = cold'[Turn]
  /\ pc' = "copied"
  /\ UNCHANGED <<faults, active, hot, saved, serving, now, cp, snap, failing,
                 breached, log>>

\* The copy to a temporary; what the medium took may be less than was written.
CopyWrites ==
  /\ pc = "rotate" /\ RotationIsDue
  /\ Exists(hot[Turn]) /\ ~Exists(cold[Turn])
  /\ \/ temp' = hot[Turn]
     \/ "copyFault" \in faults /\ temp' = Front(hot[Turn])
  /\ pc' = "copied"
  /\ UNCHANGED <<faults, active, hot, cold, saved, serving, now, cp, snap, failing,
                 breached, log>>

\* Seeded fault: the temporary is not read back.
CopyRenamesUnread ==
  /\ pc = "copied"
  /\ cold' = [cold EXCEPT ![Turn] = temp]
  /\ temp' = NoFile
  /\ pc' = "promote"
  /\ UNCHANGED <<faults, active, hot, saved, serving, now, cp, snap, failing, breached, log>>

\* The temporary, read back, equals the hot copy: it gets its final name.
CopyRenames ==
  /\ pc = "copied"
  /\ temp = hot[Turn]
  /\ cold' = [cold EXCEPT ![Turn] = temp]
  /\ temp' = NoFile
  /\ pc' = "promote"
  /\ UNCHANGED <<faults, active, hot, saved, serving, now, cp, snap, failing, breached, log>>

\* The read-back does not match, or an I/O error before the rename.
CopyFails ==
  /\ pc = "copied"
  /\ temp # hot[Turn] \/ "copyFault" \in faults
  /\ RotationFails
  /\ UNCHANGED <<hot, cold, temp, saved, cp>>

\* The directory fsync behind the rename fails.
CopyUnsynced ==
  /\ pc = "copied" /\ "copyFault" \in faults
  /\ temp = hot[Turn]
  /\ cold' = [cold EXCEPT ![Turn] = temp]
  /\ temp' = NoFile
  /\ RotationFails
  /\ UNCHANGED <<hot, saved, cp>>

\* The checkpoint with the segment rotated and its seal anchors on top.
Promoted ==
  [cp EXCEPT !.segments[Turn].rotated = TRUE,
             !.tips = cp.segments[Turn].tips,
             !.frontier = cp.segments[Turn].frontier]

\* The checkpoint is rewritten before the hot copy goes.
PromoteSaves ==
  /\ pc = "promote"
  /\ cp' = Promoted
  /\ saved' = Promoted
  /\ pc' = "finish"
  /\ UNCHANGED <<faults, active, hot, cold, temp, serving, now, snap, failing,
                 breached, log>>

\* The write fails: RotatedAtMillis is taken back, the anchors are not.
PromoteUnsaved ==
  /\ pc = "promote" /\ "checkpointFault" \in faults
  /\ saved' \in {saved, Promoted}
  /\ cp' = [Promoted EXCEPT !.segments[Turn].rotated = FALSE]
  /\ RotationFails
  /\ UNCHANGED <<hot, cold, temp>>

\* The segment whose promotion was just saved.
Finishing == Max(Rotated(cp))

\* Seeded fault: the removal takes the segment behind.
FinishRemovesNext ==
  /\ pc = "finish"
  /\ hot' = [hot EXCEPT ![Finishing + 1] = NoFile]
  /\ failing' = failing \ {Finishing}
  /\ breached' = breached \ {Finishing}
  /\ pc' = "rotate"
  /\ UNCHANGED <<faults, active, cold, temp, saved, serving, now, cp, snap, log>>

FinishRemoves ==
  /\ pc = "finish"
  /\ hot' = [hot EXCEPT ![Finishing] = NoFile]
  /\ failing' = failing \ {Finishing}
  /\ breached' = breached \ {Finishing}
  /\ pc' = "rotate"
  /\ UNCHANGED <<faults, active, cold, temp, saved, serving, now, cp, snap, log>>

\* The removal fails, or the directory fsync behind it.
FinishFails ==
  /\ pc = "finish" /\ "removeFault" \in faults
  /\ Exists(hot[Finishing])
  /\ hot' \in {hot, [hot EXCEPT ![Finishing] = NoFile]}
  /\ SelfEmit(wal, "rotation_failure")
  /\ failing' = failing \ {Finishing}
  /\ breached' = breached \ {Finishing}
  /\ pc' = "rotate"
  /\ UNCHANGED <<faults, cold, temp, saved, proc, wal, offset, now, cp, snap>>

-----------------------------------------------------------------------------
(* Tick, third part: emitBreaches, one segment after the other. *)

Breaching == {i \in Unrotated(cp) \ breached : CeilingBreached(cp.segments[i], now)}

EmitsBreach ==
  /\ pc = "breach" /\ Breaching # {}
  /\ SelfEmit(wal, "ceiling_breach")
  /\ breached' = breached \cup {Min(Breaching)}
  /\ UNCHANGED <<faults, hot, cold, temp, saved, proc, wal, offset, pc, now, cp, snap, failing>>

TickEnds ==
  /\ pc = "breach" /\ Breaching = {}
  /\ pc' = "idle" /\ now' = 0
  /\ UNCHANGED <<faults, disk, serving, cp, snap, failing, breached, log>>

-----------------------------------------------------------------------------
(* The process dies; what is on the disk stays, memory goes. *)

\* A sealed segment the saved checkpoint does not list: the manager of the
\* next boot gives its name to the next segment.
SealWindow == \E i \in Segments : Exists(hot[i]) /\ i \notin DOMAIN saved.segments

\* A segment that is in the cold tier only and that the saved checkpoint does
\* not call rotated.
ResumeWindow ==
  \E i \in Segments : Exists(cold[i]) /\ ~Exists(hot[i]) /\ i \notin Rotated(saved)

\* Saved anchors that were promoted for a segment that is not rotated.
RollbackWindow ==
  \E i \in Unrotated(saved) : Len(saved.frontier) > saved.segments[i].firstGlobal

CrashPossible ==
  /\ SealWindow => "sealCrash" \in faults
  /\ ResumeWindow => "resumeCrash" \in faults
  /\ RollbackWindow => "rollbackCrash" \in faults
  /\ ~(SealWindow \/ ResumeWindow \/ RollbackWindow) => "crash" \in faults

Crash ==
  /\ proc = "up" /\ CrashPossible
  /\ proc' = "down" /\ wal' = "closed"
  /\ offset' = 0 /\ records' = << >> /\ leaves' = << >>
  /\ tip' = Genesis(Sources) /\ floor' = 0
  /\ pc' = "idle" /\ now' = 0
  /\ cp' = EmptyCheckpoint /\ snap' = NoSnapshot
  /\ failing' = {} /\ breached' = {}
  /\ UNCHANGED <<faults, disk, log>>

-----------------------------------------------------------------------------
(* Boot: hot tier and checkpoint only, never the cold tier. *)

\* A directory read in segment order, without the names in "skip".
InOrder(dir, skip) ==
  FlattenSeq([i \in Segments |-> IF i \in skip THEN << >> ELSE Content(dir[i])])

\* Seeded fault: leftovers of rotated segments are read again.
HotRecordsAll(skip) == InOrder(hot, {}) \o Content(active)

\* readHotRecordsExcluding.
HotRecords(skip) == InOrder(hot, skip) \o Content(active)

\* BootAnchor: the highest stamp of the rotated prefix.
AnchorFloor(c) == Max({c.segments[i].last : i \in Rotated(c)} \cup {0})

BootSkips   == IF HasAnchors(saved) THEN Rotated(saved) ELSE {}
BootTips    == IF HasAnchors(saved) THEN saved.tips ELSE Genesis(Sources)
BootAccepts == VerifyChains(HotRecords(BootSkips), BootTips)

\* Seeded fault: the accumulator starts over with the hot leaves.
BootServesFreshTree ==
  /\ proc = "down" /\ BootAccepts
  /\ LET recs == HotRecords(BootSkips)
     IN  /\ records' = recs
         /\ offset' = Len(saved.frontier)
         /\ leaves' = LeavesOf(recs)
         /\ tip' = TipsOf(recs, BootTips)
         /\ floor' = FloorOf(recs, AnchorFloor(saved))
  /\ active' = Content(active)
  /\ cp' = saved
  /\ proc' = "up" /\ wal' = "open"
  /\ UNCHANGED <<faults, hot, cold, temp, saved, pc, now, snap, failing, breached, log>>

BootServes ==
  /\ proc = "down" /\ BootAccepts
  /\ LET recs == HotRecords(BootSkips)
     IN  /\ records' = recs
         /\ offset' = Len(saved.frontier)
         /\ leaves' = saved.frontier \o LeavesOf(recs)
         /\ tip' = TipsOf(recs, BootTips)
         /\ floor' = FloorOf(recs, AnchorFloor(saved))
  /\ active' = Content(active)
  /\ cp' = saved
  /\ proc' = "up" /\ wal' = "open"
  /\ UNCHANGED <<faults, hot, cold, temp, saved, pc, now, snap, failing, breached, log>>

BootRefuses ==
  /\ proc = "down" /\ ~BootAccepts
  /\ proc' = "refused"
  /\ UNCHANGED <<faults, disk, wal, offset, records, leaves, tip, floor, manager, log>>

-----------------------------------------------------------------------------
Init ==
  /\ faults \in Environments
  /\ active = << >>
  /\ hot = [i \in Segments |-> NoFile]
  /\ cold = [i \in Segments |-> NoFile]
  /\ temp = NoFile
  /\ saved = EmptyCheckpoint
  /\ proc = "up" /\ wal = "open"
  /\ offset = 0 /\ records = << >> /\ leaves = << >>
  /\ tip = Genesis(Sources) /\ floor = 0
  /\ pc = "idle" /\ now = 0
  /\ cp = EmptyCheckpoint /\ snap = NoSnapshot
  /\ failing = {} /\ breached = {}
  /\ log = << >>

Seal     == \/ SealRenames \/ SealFails \/ SealWedges \/ SealReopens
            \/ InventoryFails \/ InventorySaves \/ InventoryUnsaved
Rotate   == \/ NothingToRotate \/ ResumeRemovesHot \/ ResumeFails \/ ResumeFinished
            \/ CopyWrites \/ CopyRenames \/ CopyFails \/ CopyUnsynced
            \/ PromoteSaves \/ PromoteUnsaved \/ FinishRemoves \/ FinishFails
Breaches == EmitsBreach \/ TickEnds

Next ==
  \/ \E s \in Producers, t \in Times : Admit(s, t)
  \/ \E t \in Times : AdmitRefused(t)
  \/ \E t \in Times : TickBegins(t)
  \/ Seal
  \/ Rotate
  \/ Breaches
  \/ Crash
  \/ BootServes
  \/ BootRefuses

Spec == Init /\ [][Next]_vars
-----------------------------------------------------------------------------
Bodies     == {"event", "seal_failure", "rotation_failure", "ceiling_breach"}
HashInputs == [source : Sources, seq : Nat, body : Bodies, time : Nat]
Hashes     == Seq(Nat \X HashInputs)
Records    == [source : Sources, seq : Nat, body : Bodies, time : Nat,
               prev : Hashes, hash : Hashes]

\* A file that does not exist differs from every file, also from an empty one.
ASSUME NoFileAssumption == NoFile \notin Seq(Records)

Tips       == [Sources -> [have : BOOLEAN, hash : Hashes, seq : Nat]]
Files      == Seq(Records) \cup {NoFile}
Entries    == [digest : Seq(Records), first : Nat, last : Nat, firstGlobal : Nat,
               lastGlobal : Nat, sealedAt : Nat, rotated : BOOLEAN,
               tips : Tips, frontier : Seq(Hashes)]
Checkpoints == [segments : Seq(Entries), tips : Tips, frontier : Seq(Hashes)]

TypeOK ==
  /\ faults \in Environments
  /\ active \in Files /\ temp \in Files
  /\ hot \in [Segments -> Files] /\ cold \in [Segments -> Files]
  /\ saved \in Checkpoints /\ cp \in Checkpoints
  /\ proc \in {"up", "down", "refused"} /\ wal \in {"open", "closed"}
  /\ offset \in Nat /\ floor \in Nat
  /\ records \in Seq(Records) /\ log \in Seq(Records)
  /\ leaves \in Seq(Hashes) /\ tip \in Tips
  /\ pc \in {"idle", "seal", "reopen", "inventory", "rotate", "copied", "promote",
             "finish", "breach"}
  /\ now \in Nat
  /\ snap \in [tips : Tips, frontier : Seq(Hashes)]
  /\ failing \subseteq Segments /\ breached \subseteq Segments

(***************************************************************************)
(* Under every fault.                                                      *)
(***************************************************************************)

\* What is in the cold directory under a final name is never touched again,
\* neither by a rotation that is resumed nor by one that failed half-way
\* (rotate.go: the cold tier may be a WORM mount).
ColdIsPermanent == [][\A i \in Segments : Exists(cold[i]) => cold'[i] = cold[i]]_vars

\* A segment the signed checkpoint calls rotated is in the cold tier, complete
\* and with the digest the inventory gives it: the audit of
\* cmd/ocu-audit-verify succeeds at every instant.
InventoryHonest ==
  \A i \in Rotated(saved) : cold[i] = saved.segments[i].digest

(***************************************************************************)
(* As long as no crash falls into a window and every sealed segment can be *)
(* read back for its inventory row: either leaves a sealed segment without *)
(* a row, or a checkpoint that does not fit the hot tier (findings).       *)
(***************************************************************************)
Sound == faults \cap {"sealCrash", "resumeCrash", "rollbackCrash", "inventoryFault"} = {}

Prefix(n) == SubSeq(log, 1, n)

\* After any number of seals, rotations, failed attempts and restarts the
\* store serves the one committed log: global indexes, head, proofs and next
\* links are those of a daemon that never restarted or rotated anything.
ServingMatchesLog ==
  Sound /\ proc = "up" =>
    /\ offset + Len(records) = Len(log)
    /\ records = SubSeq(log, offset + 1, Len(log))
    /\ leaves = LeavesOf(log)
    /\ tip = TipsOf(log, Genesis(Sources))

\* The fail-closed anchored boot never locks out a log the daemon wrote.
BootNeverRefused == Sound => proc # "refused"

\* ReadUnion.
Union == InOrder(cold, {}) \o HotRecords({i \in Segments : Exists(cold[i])})

\* The offline verifier finds, at every instant of a seal or a rotation and
\* also between a crash and the next boot, the whole committed log in the two
\* directories, each record once, in order and linked from genesis.
VerifierFindsLog ==
  Sound =>
    /\ Union = log
    /\ VerifyChains(log, Genesis(Sources))
    /\ \A i \in Segments : Exists(hot[i]) /\ Exists(cold[i]) => hot[i] = cold[i]
    /\ Exists(active) \/ \E i \in Segments : Exists(hot[i])

\* store.go:186-189: the snapshot handed out with a seal describes the log up
\* to the last sealed record, although admissions go on while the manager
\* holds it.  So do the global indexes of the row.
SealAnchorsExact ==
  Sound =>
    \A c \in {cp, saved} : \A i \in DOMAIN c.segments :
      LET seg == c.segments[i]
      IN  /\ seg.digest = SubSeq(log, seg.firstGlobal + 1, seg.lastGlobal + 1)
          /\ seg.tips = TipsOf(Prefix(seg.lastGlobal + 1), Genesis(Sources))
          /\ seg.frontier = LeavesOf(Prefix(seg.lastGlobal + 1))

\* What is signed is true: of the cold tier and of the log.
CheckpointTrue == InventoryHonest /\ SealAnchorsExact

\* NFR-SEC-48: along the whole log stamps never go back, although after a
\* rotation boot does not read the records with the highest ones.
StampsNeverRegress ==
  Sound => \A i, j \in 1..Len(log) : i < j => log[i].time <= log[j].time

\* What every recovery must rebuild: views, stamps and all.
RecoveryExact == ServingMatchesLog /\ StampsNeverRegress

\* The two directories together implement the abstract log: sealing, rotating
\* and restarting are invisible to a reader of the whole horizon.
UnionView == IF Sound THEN Union ELSE << >>
Horizon == INSTANCE DurableLog WITH log <- UnionView, acked <- KeysOf(UnionView)
ImplementsDurableLog == Horizon!Spec

(***************************************************************************)
(* Progress.  A step of the manager's goroutine that can be taken is taken *)
(* (a tick does not block), its ticker goes on, and the clock advances far *)
(* enough; an operation that can fail does not fail for ever.              *)
(***************************************************************************)
LastTime == Max(Times)

Fairness ==
  /\ SF_vars(TickBegins(LastTime))
  /\ WF_vars(Seal) /\ WF_vars(Rotate) /\ WF_vars(Breaches)
  /\ SF_vars(CopyWrites /\ temp' = hot[Turn]) /\ SF_vars(CopyRenames)
  /\ SF_vars(ResumeRemovesHot) /\ SF_vars(PromoteSaves)

FairSpec == Spec /\ Fairness

\* Every segment in the inventory that the clock lets grow old enough reaches
\* the cold tier, and the checkpoint says so, although attempts keep failing
\* (manager.go:129-132: failures retry on a later tick).
SealedReachesCold ==
  \A i \in Segments :
    i \in DOMAIN cp.segments /\ RotationDue(cp.segments[i], LastTime)
      ~> i \in Rotated(saved) /\ Exists(cold[i])

(***************************************************************************)
(* What a comment promises and the code does not keep.                     *)
(***************************************************************************)

\* manager.go:180-182: a segment that is sealed but not yet inventoried is
\* still read by the next boot, so nothing is lost.
NothingSealedIsLost == \A i \in 1..Len(log) : log[i] \in Range(Union)
=============================================================================
