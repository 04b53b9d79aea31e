----------------------------- MODULE PolicyPin -----------------------------
(***************************************************************************)
(* The retention policy across restarts: the flags of each start           *)
(* (internal/retention/policy.go NewPolicy), the policy pinned in the      *)
(* signed checkpoint and the gate it opens (checkpoint.go LoadCheckpoint), *)
(* and the record of every accepted change in the log (manager.go          *)
(* BootPolicySync), in the order of cmd/ocu-audit/main.go.                 *)
(*                                                                         *)
(* Retention.tla has everything else the checkpoint carries, Heads.tla its *)
(* signature, Ingest.tla what can happen to self-emitted evidence.  The    *)
(* names are unlike those of HotMargin.tla: PolicyProofs.tla extends both. *)
(***************************************************************************)
EXTENDS Integers, Sequences

CONSTANTS FlagPolicies,  \* what the flags of a start may say
          FloorMinimum,  \* FloorYearsMinimum
          Ceiling,       \* HotMaxCeiling
          NoFile,        \* content of a file that does not exist
          FailureSets,   \* sets of failures; a behaviour has one of them
          MaxChanges     \* bound: recorded policy changes

\* A crash; a crash between the save and its evidence; a checkpoint write and
\* an admission of evidence that fail.
FailureKinds == {"crash", "syncCrash", "checkpointFault", "emitFault"}

ASSUME PolicyAssumption ==
  /\ FlagPolicies \subseteq [floor : Nat, hotMax : Int, seal : Int]
  /\ FloorMinimum \in Nat /\ Ceiling \in Nat
  /\ NoFile \notin [floor : Nat, hotMax : Int, seal : Int]
  /\ FailureSets \subseteq SUBSET FailureKinds
  /\ MaxChanges \in Nat

VARIABLES
  failures, \* what can go wrong; never changes
  saved,    \* the policy in the checkpoint file
  trail,    \* the policy-change records of the log
  proc,     \* "down", "sync" (loaded), "emit" (repinned, nothing on record), "up"
  flags,    \* ManagerConfig.Policy
  pinned,   \* the policy in the manager's checkpoint
  old,      \* the policy that a change under way replaces
  \* history
  origin    \* the policy of the first checkpoint file

pinVars == <<failures, saved, trail, proc, flags, pinned, old, origin>>

\* The part of a policy that a policy-change record shows.
Shown(p) == [floor |-> p.floor, hotMax |-> p.hotMax]

NewPolicy(p) ==
  /\ p.floor >= FloorMinimum
  /\ 0 < p.hotMax /\ p.hotMax <= Ceiling
  /\ 0 < p.seal /\ p.seal < p.hotMax

\* Seeded fault: the configured policy must not be longer.
LoadsReversed(p) ==
  saved # NoFile => saved.floor >= FloorMinimum /\ p.floor <= saved.floor

\* LoadCheckpoint: a floor below the minimum and a shrink refuse the boot.
Loads(p) ==
  saved # NoFile => saved.floor >= FloorMinimum /\ p.floor >= saved.floor

\* A refused start leaves everything as it is.
Start(p) ==
  /\ proc = "down"
  /\ NewPolicy(p) /\ Loads(p)
  /\ saved \notin {NoFile, p} => Len(trail) < MaxChanges
  /\ flags' = p
  /\ pinned' = IF saved = NoFile THEN p ELSE saved
  /\ proc' = "sync"
  /\ UNCHANGED <<failures, saved, trail, old, origin>>

Exits == proc' = "down" /\ flags' = NoFile /\ pinned' = NoFile /\ old' = NoFile

\* The daemon exits or dies; between the save and the evidence only in an
\* environment of its own.
Crash ==
  /\ proc # "down"
  /\ IF proc = "emit" THEN "syncCrash" \in failures ELSE "crash" \in failures
  /\ Exits
  /\ UNCHANGED <<failures, saved, trail, origin>>

SyncUnchanged ==
  /\ proc = "sync" /\ pinned = flags
  /\ proc' = "up"
  /\ UNCHANGED <<failures, saved, trail, flags, pinned, old, origin>>

\* WriteCheckpoint replaces the file as a whole; the first one is the origin.
Saves(p) ==
  /\ saved' = p
  /\ origin' = IF origin = NoFile THEN p ELSE origin

\* BootPolicySync: the checkpoint first, then the record.
SyncSaves ==
  /\ proc = "sync" /\ pinned # flags
  /\ Saves(flags)
  /\ pinned' = flags /\ old' = pinned
  /\ proc' = "emit"
  /\ UNCHANGED <<failures, trail, flags>>

\* Seeded fault: the file is written in place.
SyncTruncates ==
  /\ proc = "sync" /\ pinned # flags /\ "checkpointFault" \in failures
  /\ saved' \in {saved, NoFile}
  /\ Exits
  /\ UNCHANGED <<failures, trail, origin>>

\* The write fails before the rename or behind it, and the daemon exits.
SyncFails ==
  /\ proc = "sync" /\ pinned # flags /\ "checkpointFault" \in failures
  /\ saved' \in {saved, flags}
  /\ Exits
  /\ UNCHANGED <<failures, trail, origin>>

\* Seeded fault: the record is made from the repinned checkpoint.
PolicyChangeRepinned == [old |-> Shown(pinned), new |-> Shown(flags)]

\* The payload of the record.
PolicyChange == [old |-> Shown(old), new |-> Shown(flags)]

SyncEmits ==
  /\ proc = "emit"
  /\ trail' = Append(trail, PolicyChange)
  /\ proc' = "up" /\ old' = NoFile
  /\ UNCHANGED <<failures, saved, flags, pinned, origin>>

\* SelfEmit swallows the error of the admission.
SyncEmitLost ==
  /\ proc = "emit" /\ "emitFault" \in failures
  /\ proc' = "up" /\ old' = NoFile
  /\ UNCHANGED <<failures, saved, trail, flags, pinned, origin>>

\* A seal or a promotion writes the checkpoint: on a first boot this is what
\* pins the policy.  A write that fails leaves what is there, or this.
TickSaves ==
  /\ proc = "up"
  /\ Saves(pinned)
  /\ UNCHANGED <<failures, trail, proc, flags, pinned, old>>

-----------------------------------------------------------------------------
\* What memory holds before the first start.
PinInit ==
  /\ failures \in FailureSets
  /\ saved = NoFile /\ trail = << >>
  /\ proc = "down"
  /\ flags = NoFile /\ pinned = NoFile /\ old = NoFile
  /\ origin = NoFile

PinNext ==
  \/ \E p \in FlagPolicies : Start(p)
  \/ Crash
  \/ SyncUnchanged
  \/ SyncSaves
  \/ SyncFails
  \/ SyncEmits
  \/ SyncEmitLost
  \/ TickSaves

PinSpec == PinInit /\ [][PinNext]_pinVars
-----------------------------------------------------------------------------
Acceptable == {p \in FlagPolicies : NewPolicy(p)}
Pages    == [floor : Nat, hotMax : Int]
Changes  == [old : Pages, new : Pages]

PinTypeOK ==
  /\ failures \in FailureSets
  /\ saved \in Acceptable \cup {NoFile} /\ origin \in Acceptable \cup {NoFile}
  /\ trail \in Seq(Changes)
  /\ proc \in {"down", "sync", "emit", "up"}
  /\ flags \in Acceptable \cup {NoFile}
  /\ pinned \in Acceptable \cup {NoFile} /\ old \in Acceptable \cup {NoFile}
  /\ proc = "down" <=> flags = NoFile
  /\ proc = "down" <=> pinned = NoFile
  /\ proc = "emit" <=> old # NoFile
  /\ saved = NoFile <=> origin = NoFile

\* Whatever fails: the floor in the signed checkpoint never goes down, and a
\* daemon that serves beside a checkpoint runs the policy pinned in it
\* (checkpoint.go:200-202).
FloorOnlyGrows ==
  [][/\ saved # NoFile => saved' # NoFile /\ saved'.floor >= saved.floor
     /\ saved' # NoFile /\ proc' = "up" => saved' = flags']_pinVars

\* No crash falls between a save and its evidence, and neither of them fails.
Sound == failures \subseteq {"crash"}

\* Where the trail leads: the new side of the last change.
TrailEnd == IF trail = << >> THEN Shown(origin) ELSE trail[Len(trail)].new

\* NFR-SEC-45, manager.go:107-109: the change records of the log lead from the
\* first pinned policy, each from where the one before ended and none to a
\* lower floor, to the policy the signed checkpoint pins now.
TrailLeadsToPin ==
  Sound =>
    /\ \A i \in 1..Len(trail) :
         /\ trail[i].old = IF i = 1 THEN Shown(origin) ELSE trail[i - 1].new
         /\ trail[i].old.floor <= trail[i].new.floor
    /\ saved # NoFile /\ proc # "emit" => TrailEnd = Shown(saved)
=============================================================================
