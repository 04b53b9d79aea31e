------------------------------- MODULE Fanout -------------------------------
(***************************************************************************)
(* The fan-out pump (internal/fanout/fanout.go): committed records go to a *)
(* sink off the admission path, resumed across restarts by a cursor file.  *)
(*                                                                         *)
(* Records are named by their global index, from 0.  The log grows under   *)
(* the pump's hands and is durable (Store.tla); a rotation moves the       *)
(* boundary of the cold tier on the disk (Retention.tla), which the store  *)
(* reads at boot only.  A record that the pump self-emits joins the same   *)
(* log and is delivered in its turn.                                       *)
(*                                                                         *)
(* The sink is FileSink: a file of lines.  A write that fails half-way     *)
(* leaves a line without its end, and what is written next continues it.   *)
(***************************************************************************)
EXTENDS Naturals, Sequences, FiniteSets

CONSTANTS Environments,  \* sets of faults; a behaviour has one of them
          MaxRecords,    \* bound: committed records that are not evidence
          MaxCrashes,    \* bound: crashes
          MaxTorn        \* bound: half-written lines

\* Errors of a delivery, before and in the middle of its line; of a cursor
\* write; of a self-emit; a cursor file that cannot be read; and a crash,
\* which may also fall into one of two windows (see CrashPossible).
FaultKinds == {"sinkFault", "tornLine", "cursorFault", "emitFault",
               "lostCursor", "crash", "evidenceCrash", "deliveryCrash"}

ASSUME FanoutAssumption ==
  /\ Environments \subseteq SUBSET FaultKinds
  /\ MaxRecords \in Nat /\ MaxCrashes \in Nat /\ MaxTorn \in Nat

VARIABLES
  faults,    \* what can go wrong; never changes
  \* the disk
  log,       \* the committed records: Event, or the evidence of a gap
  rotated,   \* records in the cold tier
  saved,     \* the cursor file
  sink,      \* the lines of the sink file
  \* the process
  up,        \* is it running?
  offset,    \* the store's globalOffset
  next,      \* Pump.next
  gapTotal,  \* Pump.gapTotal
  pc,        \* where RunOnce is
  gap,       \* its gap, until it is evidenced
  limit,     \* the end of the records it was handed
  \* history
  skipped,   \* records the cursor jumped over
  crashes

disk == <<log, rotated, saved, sink>>
pump == <<next, gapTotal, pc, gap, limit>>
vars == <<faults, disk, up, offset, pump, skipped, crashes>>

Event == [from |-> 0, to |-> 0]
Evidence(from, to) == [from |-> from, to |-> to]

Between(from, to) == {i \in 0..to : from <= i /\ i < to}
Named(rec) == Between(rec.from, rec.to)

\* The records some evidence record says the sink has missed.
Evidenced == UNION {Named(log[k]) : k \in DOMAIN log}

Whole(i) == [index |-> i, whole |-> TRUE]
Torn(i)  == [index |-> i, whole |-> FALSE]

\* Lines a collector can parse: whole, and not the rest of a torn one.
IntactLines == {k \in DOMAIN sink : sink[k].whole /\ (k = 1 \/ sink[k - 1].whole)}
Received == {sink[k].index : k \in IntactLines}

\* One more than the highest index that was ever handed over.
HandedOver ==
  LET done == {sink[k].index + 1 : k \in {l \in DOMAIN sink : sink[l].whole}}
  IN  CHOOSE n \in done \cup {0} : \A m \in done : m <= n

-----------------------------------------------------------------------------
(* Around the pump. *)

Committed == Len(log)

EvidenceRecords == {k \in DOMAIN log : log[k] # Event}

\* Store.Admit, on behalf of a source.
Admit ==
  /\ up /\ Cardinality(DOMAIN log \ EvidenceRecords) < MaxRecords
  /\ log' = Append(log, Event)
  /\ UNCHANGED <<faults, rotated, saved, sink, up, offset, pump, skipped, crashes>>

\* The retention manager rotates sealed segments; the store's offset stays.
Rotate ==
  /\ up
  /\ rotated' \in Between(rotated + 1, Committed + 1)
  /\ UNCHANGED <<faults, log, saved, sink, up, offset, pump, skipped, crashes>>

-----------------------------------------------------------------------------
(* RunOnce, one step for every point where an admission can come in        *)
(* between or the process can die.                                         *)

\* Seeded fault: a cursor at the boundary counts as lagging.
RunBeginsBehind ==
  /\ up /\ pc = "idle" /\ next > offset
  /\ pc' = "read"
  /\ UNCHANGED <<faults, disk, up, offset, next, gapTotal, gap, limit, skipped, crashes>>

\* Nothing was rotated before its delivery.
RunBegins ==
  /\ up /\ pc = "idle" /\ next >= offset
  /\ pc' = "read"
  /\ UNCHANGED <<faults, disk, up, offset, next, gapTotal, gap, limit, skipped, crashes>>

\* Seeded fault: the boundary itself is skipped too.
SkipsOneTooMany ==
  /\ up /\ pc = "idle" /\ next < offset
  /\ gap' = offset - next
  /\ gapTotal' = gapTotal + gap'
  /\ next' = offset + 1
  /\ saved' \in {next'} \cup (IF "cursorFault" \in faults THEN {saved} ELSE {})
  /\ skipped' = skipped \cup Between(next, offset)
  /\ pc' = "evidence"
  /\ UNCHANGED <<faults, log, rotated, sink, up, offset, limit, crashes>>

\* The cursor lags behind the boundary: it jumps there, and is saved there
\* if the write succeeds; its error is ignored.
SkipsGap ==
  /\ up /\ pc = "idle" /\ next < offset
  /\ gap' = offset - next
  /\ gapTotal' = gapTotal + gap'
  /\ next' = offset
  /\ saved' \in {next'} \cup (IF "cursorFault" \in faults THEN {saved} ELSE {})
  /\ skipped' = skipped \cup Between(next, offset)
  /\ pc' = "evidence"
  /\ UNCHANGED <<faults, log, rotated, sink, up, offset, limit, crashes>>

\* Seeded fault: the record at the boundary is named as missed.
EmitsEvidenceOneMore ==
  /\ up /\ pc = "evidence"
  /\ \/ log' = Append(log, Evidence(next - gap, next + 1))
     \/ "emitFault" \in faults /\ UNCHANGED log
  /\ gap' = 0 /\ pc' = "read"
  /\ UNCHANGED <<faults, rotated, saved, sink, up, offset, next, gapTotal, limit,
                 skipped, crashes>>

\* Seeded fault: a flag suppresses all evidence but the first.
EmitsEvidenceOnce ==
  /\ up /\ pc = "evidence"
  /\ log' = IF Evidenced = {} THEN Append(log, Evidence(next - gap, next)) ELSE log
  /\ gap' = 0 /\ pc' = "read"
  /\ UNCHANGED <<faults, rotated, saved, sink, up, offset, next, gapTotal, limit,
                 skipped, crashes>>

\* Server.SelfEmit: the evidence is admitted, or its error is swallowed.
EmitsEvidence ==
  /\ up /\ pc = "evidence"
  /\ \/ log' = Append(log, Evidence(next - gap, next))
     \/ "emitFault" \in faults /\ UNCHANGED log
  /\ gap' = 0 /\ pc' = "read"
  /\ UNCHANGED <<faults, rotated, saved, sink, up, offset, next, gapTotal, limit,
                 skipped, crashes>>

\* Store.RecordsFrom: the records committed by now.
ReadsRecords ==
  /\ up /\ pc = "read"
  /\ limit' = Committed /\ pc' = "deliver"
  /\ UNCHANGED <<faults, disk, up, offset, next, gapTotal, gap, skipped, crashes>>

\* Sink.Emit succeeds: the record's line is at the end of the sink file.
Delivers ==
  /\ up /\ pc = "deliver" /\ next < limit
  /\ sink' = Append(sink, Whole(next))
  /\ next' = next + 1
  /\ pc' = "persist"
  /\ UNCHANGED <<faults, log, rotated, saved, up, offset, gapTotal, gap, limit,
                 skipped, crashes>>

\* Seeded fault: the run goes on with the record behind the failed one.
SinkRefusesOne ==
  /\ "sinkFault" \in faults /\ up /\ pc = "deliver" /\ next < limit
  /\ next' = next + 1
  /\ UNCHANGED <<faults, disk, up, offset, gapTotal, pc, gap, limit, skipped, crashes>>

\* Seeded fault: the cursor advances before the delivery is known.
SinkRefusesAdvanced ==
  /\ "sinkFault" \in faults /\ up /\ pc = "deliver" /\ next < limit
  /\ next' = next + 1
  /\ pc' = "persist"
  /\ UNCHANGED <<faults, disk, up, offset, gapTotal, gap, limit, skipped, crashes>>

\* Emit fails and nothing is written: the run stops, the cursor stays.
SinkRefuses ==
  /\ "sinkFault" \in faults /\ up /\ pc = "deliver" /\ next < limit
  /\ pc' = "idle"
  /\ UNCHANGED <<faults, disk, up, offset, next, gapTotal, gap, limit, skipped, crashes>>

\* Emit fails in the middle of the line (a full disk): the part stays.
SinkTears ==
  /\ "tornLine" \in faults /\ up /\ pc = "deliver" /\ next < limit
  /\ Cardinality({k \in DOMAIN sink : ~sink[k].whole}) < MaxTorn
  /\ sink' = Append(sink, Torn(next))
  /\ pc' = "idle"
  /\ UNCHANGED <<faults, log, rotated, saved, up, offset, next, gapTotal, gap, limit,
                 skipped, crashes>>

\* persistCursor: temporary, fsync, rename.
Persists ==
  /\ up /\ pc = "persist"
  /\ saved' = next /\ pc' = "deliver"
  /\ UNCHANGED <<faults, log, rotated, sink, up, offset, next, gapTotal, gap, limit,
                 skipped, crashes>>

\* It fails: the run stops, and the cursor in memory stays advanced.
PersistFails ==
  /\ "cursorFault" \in faults /\ up /\ pc = "persist"
  /\ pc' = "idle"
  /\ UNCHANGED <<faults, disk, up, offset, next, gapTotal, gap, limit, skipped, crashes>>

RunEnds ==
  /\ up /\ pc = "deliver" /\ next >= limit
  /\ pc' = "idle"
  /\ UNCHANGED <<faults, disk, up, offset, next, gapTotal, gap, limit, skipped, crashes>>

-----------------------------------------------------------------------------
(* Crash and restart. *)

\* A gap is skipped and its evidence is not in the log yet.
EvidenceWindow == pc = "evidence"

\* Something was delivered that the cursor file does not cover yet.
DeliveryWindow == saved < HandedOver

CrashPossible ==
  /\ "crash" \in faults
  /\ EvidenceWindow => "evidenceCrash" \in faults
  /\ DeliveryWindow => "deliveryCrash" \in faults

Crash ==
  /\ up /\ CrashPossible /\ crashes < MaxCrashes
  /\ up' = FALSE /\ crashes' = crashes + 1
  /\ offset' = 0 /\ next' = 0 /\ gapTotal' = 0 /\ pc' = "idle" /\ gap' = 0 /\ limit' = 0
  /\ UNCHANGED <<faults, disk, skipped>>

\* The store recovers anchored on the checkpoint; NewPump loads the cursor,
\* and starts at genesis when it cannot read it.
Boot ==
  /\ ~up
  /\ up' = TRUE
  /\ offset' = rotated
  /\ next' \in {saved} \cup (IF "lostCursor" \in faults THEN {0} ELSE {})
  /\ UNCHANGED <<faults, disk, gapTotal, pc, gap, limit, skipped, crashes>>

-----------------------------------------------------------------------------
Init ==
  /\ faults \in Environments
  /\ log = << >> /\ rotated = 0 /\ saved = 0 /\ sink = << >>
  /\ up = TRUE /\ offset = 0
  /\ next = 0 /\ gapTotal = 0 /\ pc = "idle" /\ gap = 0 /\ limit = 0
  /\ skipped = {} /\ crashes = 0

RunOnce == RunBegins \/ SkipsGap \/ EmitsEvidence \/ ReadsRecords
           \/ Delivers \/ SinkRefuses \/ SinkTears \/ Persists \/ PersistFails \/ RunEnds

Next == Admit \/ Rotate \/ RunOnce \/ Crash \/ Boot

Spec == Init /\ [][Next]_vars

-----------------------------------------------------------------------------
TypeOK ==
  /\ faults \in Environments
  /\ log \in Seq([from : Nat, to : Nat])
  /\ rotated \in 0..Committed /\ saved \in 0..Committed
  /\ sink \in Seq([index : Nat, whole : BOOLEAN])
  /\ up \in BOOLEAN /\ offset \in 0..rotated
  /\ next \in 0..Committed /\ limit \in 0..Committed
  /\ gap \in 0..offset /\ gapTotal \in 0..offset
  /\ pc \in {"idle", "evidence", "read", "deliver", "persist"}
  /\ skipped \subseteq Between(0, rotated)
  /\ crashes \in 0..MaxCrashes

Without(kinds) == faults \cap kinds = {}

\* fanout.go:8-11: delivery is at least once.  Behind the durable cursor there
\* is no record that neither a collector can read in the sink nor a rotation
\* took away before, whatever crashes, errors and lost cursors there were.
NothingMissedSilently ==
  Without({"tornLine"}) => Between(0, saved) \subseteq Received \cup skipped

\* A collector sees every record for the first time in commit order, although
\* restarts repeat some and rotations skip some.
FirstReceivedInOrder ==
  Without({"tornLine"}) =>
    \A k \in IntactLines :
      \/ \E l \in IntactLines : l < k /\ sink[l].index = sink[k].index
      \/ \A l \in IntactLines : l < k => sink[l].index < sink[k].index

\* fanout.go:127-128: as long as the cursor can be written and read, a restart
\* repeats at most the record in flight.
RedeliveryBounded ==
  Without({"cursorFault", "lostCursor"}) => HandedOver <= saved + 1

\* What a collector may count on when lines repeat: the order and the number.
RepeatsHarmless == FirstReceivedInOrder /\ RedeliveryBounded

\* fanout.go:10-11: a gap is evidenced.  As long as the evidence is admitted and
\* no crash falls between the skip and its evidence, every skipped record is
\* named by an evidence record of the log, also after several gaps.
GapIsEvidenced ==
  Without({"emitFault", "evidenceCrash"}) /\ pc # "evidence" => skipped \subseteq Evidenced

\* ... once: no two evidence records name the same record.
EvidencedOnce ==
  Without({"cursorFault", "lostCursor"}) =>
    \A k, l \in EvidenceRecords : k # l => Named(log[k]) \cap Named(log[l]) = {}

\* Every gap, and no gap twice.
GapsOnRecord == GapIsEvidenced /\ EvidencedOnce

\* fanout.go:108: of the records the evidence names, the sink has none.  This
\* needs the cursor file to cover what was delivered when a crash comes.
EvidenceTruthful ==
  Without({"deliveryCrash", "lostCursor"}) => Evidenced \cap Received = {}

(***************************************************************************)
(* Progress.  The daemon is restarted, the pump's ticker goes on and its   *)
(* steps are taken; a sink that fails does not fail for ever.              *)
(***************************************************************************)
Fairness ==
  /\ WF_vars(Boot)
  /\ WF_vars(RunOnce)
  /\ SF_vars(Delivers)

FairSpec == Spec /\ Fairness

\* Every committed record reaches a collector, or is skipped.
EverythingArrives ==
  Without({"tornLine"}) =>
    \A i \in 0..(MaxRecords + MaxCrashes) :
      i < Committed ~> i \in Received \cup skipped
=============================================================================
