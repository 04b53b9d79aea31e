----------------------------- MODULE HotMargin ------------------------------
(***************************************************************************)
(* The timing of the hot tier: retention.Policy (policy.go) as NewPolicy   *)
(* accepts it, and the rounds of the manager (manager.go, Tick) that the   *)
(* daemon's ticker runs (cmd/ocu-audit/main.go).  A record must be out of  *)
(* the hot tier before HotMax; rotation starts SealInterval earlier, and   *)
(* the tick interval is a flag that nothing compares with the other two.   *)
(*                                                                         *)
(* Retention.tla has the steps of a round and what they leave on the       *)
(* disks; here a round is one step and only ages are kept: of the oldest   *)
(* record of the active file and of each segment in hot, of the last seal  *)
(* and of the last round.  Stamps never go back (Store), so the oldest     *)
(* record of a file is its first one.  A hot copy whose removal fails      *)
(* (FinishRotation) stays behind: the checkpoint calls its segment         *)
(* rotated, so neither rotateDue nor emitBreaches looks at it again.       *)
(***************************************************************************)
EXTENDS Integers, Sequences

CONSTANTS Policies,      \* [hotMax, seal, tick] the operator may configure
          Environments,  \* sets of faults; a behaviour has one of them
          MaxSegments    \* bound: segments in hot at once

\* A seal that fails; a rotation that fails before the checkpoint calls the
\* segment rotated, and one that fails behind it, in the removal of the hot copy;
\* evidence that is not committed; a round that comes late; a restart, after
\* which the ticker begins anew.
FaultKinds == {"sealFails", "rotateFails", "removeFails", "emitFails", "lateTick", "restart"}

ASSUME HotMarginAssumption ==
  /\ Policies \subseteq [hotMax : Nat, seal : Nat, tick : Nat]
  /\ Environments \subseteq SUBSET FaultKinds
  /\ MaxSegments \in Nat

VARIABLES
  faults,     \* what can go wrong; never changes
  policy,     \* ManagerConfig.Policy and -retention-tick; never changes
  active,     \* the age of the oldest record of the active file
  hot,        \* the segments in hot that are not rotated, oldest first
  leftover,   \* the age of the oldest hot copy of a segment that is
  sinceSeal,  \* since the latest SealedAtMillis of the checkpoint
  sinceTick   \* since the last round, or since the ticker was made

vars == <<faults, policy, active, hot, leftover, sinceSeal, sinceTick>>

None == -1  \* the active file is empty, or no hot copy is left over

H == policy.hotMax
S == policy.seal
T == policy.tick

MaxAge == H + T + 1  \* bound: no comparison tells greater ages apart

Smaller(a, b) == IF a < b THEN a ELSE b
Larger(a, b)  == IF a < b THEN b ELSE a

\* An age, or the age of nothing, when time has passed.
Older(age) == IF age = None THEN None ELSE Smaller(age + 1, MaxAge)

-----------------------------------------------------------------------------
(* The policy. *)

\* NewPolicy; the floor and HotMaxCeiling do not matter here.
Accepted(p) == /\ 0 < p.hotMax
               /\ 0 < p.seal /\ p.seal < p.hotMax
               /\ 0 < p.tick                       \* or time.NewTicker panics

\* Seeded fault: a segment is due when it reaches the ceiling.
DueAtCeiling(age) == age >= H

RotationDue(age) == age >= H - S

\* Seeded fault: the margin as the threshold.
BreachedTwice(age) == age > H + S

\* Seeded fault: a breach is reported when the ceiling is reached.
BreachedAtCeiling(age) == age >= H

CeilingBreached(age) == age > H

-----------------------------------------------------------------------------
(* A round. *)

Segment(age) == [age |-> age, reported |-> FALSE, evidenced |-> FALSE]

SealDue == sinceSeal >= S /\ active # None

\* rotateDue stops at the first segment that is not due.
DueUpTo(segs, n) == \A i \in 1..n : RotationDue(segs[i].age)

\* All that are due are rotated, unless one of them fails.
Rotated(segs, n) ==
  /\ n \in 0..Len(segs) /\ DueUpTo(segs, n)
  /\ n < Len(segs) /\ RotationDue(segs[n + 1].age) => "rotateFails" \in faults

\* FinishRotation removes the hot copies of the rotated ones.  One that stays is
\* reported once as a failed rotation, and stays for good.
Finished(segs, n) ==
  \/ UNCHANGED leftover
  \/ /\ "removeFails" \in faults
     /\ \E i \in 1..n : leftover' = Larger(leftover, segs[i].age)

\* emitBreaches: one record for a segment's episode; that it was not committed
\* is not noticed.
Reported(seg, emitted) ==
  IF CeilingBreached(seg.age) /\ ~seg.reported
  THEN [seg EXCEPT !.reported = TRUE, !.evidenced = emitted \/ @]
  ELSE seg

\* What rotateDue and emitBreaches leave of the given segments.
Rounds(segs) ==
  \E n \in 0..Len(segs), emitted \in BOOLEAN :
    /\ Rotated(segs, n) /\ Finished(segs, n)
    /\ ~emitted => "emitFails" \in faults
    /\ hot' = [i \in 1..(Len(segs) - n) |-> Reported(segs[n + i], emitted)]

Seals ==
  /\ SealDue
  /\ active' = None /\ sinceSeal' = 0
  /\ Rounds(Append(hot, Segment(active)))

\* Nothing to seal, or the seal fails and the active file stays.
SealsNothing ==
  /\ ~SealDue \/ "sealFails" \in faults
  /\ UNCHANGED <<active, sinceSeal>>
  /\ Rounds(hot)

\* Manager.Tick; the bound on the segments ends the model, not the code.
Tick ==
  /\ sinceTick >= T
  /\ Len(hot) < MaxSegments
  /\ sinceTick' = 0
  /\ Seals \/ SealsNothing
  /\ UNCHANGED <<faults, policy>>

-----------------------------------------------------------------------------
(* Everything else. *)

\* A record is committed: the first one of the active file.
Admits ==
  /\ active = None
  /\ active' = 0
  /\ UNCHANGED <<faults, policy, hot, leftover, sinceSeal, sinceTick>>

\* Time passes; the ticker does not let it pass it by.
Passes ==
  /\ sinceTick < T \/ "lateTick" \in faults
  /\ active' = Older(active) /\ leftover' = Older(leftover)
  /\ hot' = [i \in 1..Len(hot) |-> [hot[i] EXCEPT !.age = Older(@)]]
  /\ sinceSeal' = Smaller(sinceSeal + 1, S)
  /\ sinceTick' = Smaller(sinceTick + 1, T)
  /\ UNCHANGED <<faults, policy>>

\* The episodes are forgotten, the checkpoint and the log are not; boot skips a
\* leftover copy and nothing removes it.
Restarts ==
  /\ "restart" \in faults
  /\ hot' = [i \in 1..Len(hot) |-> [hot[i] EXCEPT !.reported = FALSE]]
  /\ sinceTick' = 0
  /\ UNCHANGED <<faults, policy, active, leftover, sinceSeal>>

Init ==
  /\ faults \in Environments
  /\ policy \in {p \in Policies : Accepted(p)}
  /\ active = None /\ hot = <<>> /\ leftover = None
  /\ sinceSeal = policy.seal  \* no seal yet: due
  /\ sinceTick = 0

Next == Tick \/ Admits \/ Passes \/ Restarts

Spec == Init /\ [][Next]_vars

-----------------------------------------------------------------------------
\* Also: a breach is on record only for a segment that is past the ceiling.
TypeOK ==
  /\ faults \in Environments
  /\ policy \in Policies /\ Accepted(policy)
  /\ active \in {None} \cup 0..MaxAge /\ leftover \in {None} \cup 0..MaxAge
  /\ Len(hot) \in 0..MaxSegments
  /\ hot \in [1..Len(hot) -> [age : 0..MaxAge, reported : BOOLEAN, evidenced : BOOLEAN]]
  /\ \A i \in 1..Len(hot) : hot[i].reported \/ hot[i].evidenced => hot[i].age > H
  /\ sinceSeal \in 0..S
  /\ sinceTick \in 0..T

Without(kinds) == faults \cap kinds = {}

\* What the margin needs of the configuration.  The defaults have it (1 h, 24 h,
\* 90 d); NewPolicy does not ask for it.
MarginSuffices == T <= S + 1 /\ S + T <= H + 1

\* policy.go:32-34, 63-66: the oldest record of a segment leaves hot before the
\* ceiling even in the worst alignment of seal, round and arrival, if rounds
\* come and succeed, the removal of the hot copies included.
CeilingKept ==
  MarginSuffices
  /\ Without({"sealFails", "rotateFails", "removeFails", "lateTick", "restart"}) =>
    /\ active <= H /\ leftover <= H
    /\ \A i \in 1..Len(hot) : hot[i].age <= H

\* policy.go:72-75, manager.go:274-291: a segment that cannot be rotated is on
\* record within one round of the ceiling, whatever the configuration.  This is
\* said of hot alone: a copy that a failed removal leaves behind its rotated
\* segment (leftover) is past the ceiling without such a record, at any age.
StuckIsEvidenced ==
  Without({"emitFails", "lateTick", "restart"}) =>
    \A i \in 1..Len(hot) : hot[i].age > H + T => hot[i].evidenced
=============================================================================
