------------------------------- MODULE Ingest -------------------------------
(***************************************************************************)
(* The ingest server (internal/ingest/server.go) and its fairness limiter  *)
(* (fairness.go): requests of several handlers run at once, each through   *)
(* the steps between which it holds no lock; a request over its source's   *)
(* share is shaped (429), and the first one of an episode self-emits a     *)
(* saturation record on the pipeline's own channel.  Sources retry an      *)
(* event under its sequence until it is acknowledged (internal/edgetail    *)
(* does), and may give up waiting for an answer that is still on its way.  *)
(*                                                                         *)
(* The limiter reads the clock only to subtract lastRefill from it: a      *)
(* bucket is kept with its age, the reading less lastRefill, and not with  *)
(* the two.  A bucket is created full, and a full one forgets its age: one *)
(* that does not exist yet is a full one.  The store is reduced to what    *)
(* decides an admission (Store.tla has the rest): the last sequence of a   *)
(* source and its dedupe set, from which an anchored boot leaves out the   *)
(* rotated prefix of the log (Retention.tla has the rotation).  overShare  *)
(* is only ever printed and left out, as are the checks that end a request *)
(* before the limiter sees it (method, channel, certificate,               *)
(* authorisation).                                                         *)
(***************************************************************************)
EXTENDS Integers, FiniteSets

CONSTANTS Producers,    \* sources of audit events
          Handlers,     \* requests the server handles at once
          Emitters,     \* other goroutines that self-emit (manager, pump)
          Nobody,       \* the source of a handler that is idle
          Burst,        \* FairnessShare.Burst
          RefillEvery,  \* FairnessShare.RefillEveryMillis
          Environments, \* sets of faults; a behaviour has one of them
          Step,         \* bound: how far the host clock is stepped
          MaxSequence,  \* bound: events of a source
          MaxRestarts,  \* bound: restarts of the daemon
          MaxEvidence   \* bound: self-emitted records

\* A commit that fails, an answer that is lost, a step of the host clock, a
\* restart, and one whose boot forgets; a request that passes the limiter while
\* another one of its source stands between admit and saturationOnset; and two
\* self-emits that reach the store in the other order than they took their
\* sequences.
FaultKinds == {"commitFault", "lostAnswer", "clockStep", "restart", "forgetful",
               "overtaken", "emitRace"}

ASSUME IngestAssumption ==
  /\ Burst \in Nat \ {0} /\ RefillEvery \in Nat \ {0}
  /\ Handlers \cap Emitters = {}
  /\ Nobody \notin Producers
  /\ Environments \subseteq SUBSET FaultKinds
  /\ Step \in Nat /\ MaxSequence \in Nat /\ MaxRestarts \in Nat /\ MaxEvidence \in Nat

VARIABLES
  faults,     \* what can go wrong; never changes
  \* the daemon
  bucket,     \* limiter.buckets
  selfSeq,    \* Server.selfEmitSeq
  pc,         \* where each handler or emitter is
  source,     \* the source of its request
  seq,        \* the sequence it is about to admit
  \* the store
  last,       \* perSourceLastSeq of the producers
  forgotten,  \* seen lacks the sequences of a producer up to here
  evidence,   \* perSourceLastSeq of the pipeline
  \* the sources
  want,       \* the event each source is publishing
  \* history
  quiet,      \* time since a source last came to the limiter
  excess,     \* see ShareBound
  restarts

daemon  == <<bucket, selfSeq, pc, source, seq>>
store   == <<last, forgotten, evidence>>
history == <<quiet, excess, restarts>>
vars    == <<faults, daemon, store, want, history>>

Processes == Handlers \cup Emitters
FullBucket == [tokens |-> Burst, age |-> 0, saturated |-> FALSE, onsetReported |-> FALSE]

MaxQuiet == Burst * RefillEvery  \* bound: a longer silence changes nothing
MaxAge   == MaxQuiet + RefillEvery

Smaller(a, b) == IF a < b THEN a ELSE b
Larger(a, b)  == IF a < b THEN b ELSE a

-----------------------------------------------------------------------------
(* The limiter. *)

\* Seeded fault: lastRefill stays.
RefilledAgain(b) ==
  IF b.tokens = Burst \/ b.age < RefillEvery THEN b
  ELSE [b EXCEPT !.tokens = Smaller(Burst, @ + b.age \div RefillEvery)]

\* Whole intervals turn into tokens; the rest of the time is kept.
Refilled(b) ==
  IF b.tokens = Burst THEN [b EXCEPT !.age = 0]
  ELSE IF b.age < RefillEvery THEN b
  ELSE [b EXCEPT !.tokens = Smaller(Burst, @ + b.age \div RefillEvery),
                 !.age = @ % RefillEvery]

\* Seeded fault: a token for the request and one for its record.
SpentTwice(b) == [b EXCEPT !.tokens = @ - 2, !.saturated = FALSE, !.onsetReported = FALSE]

\* An admitted event closes the episode, a shaped one opens or prolongs it.
Spent(b) == [b EXCEPT !.tokens = @ - 1, !.saturated = FALSE, !.onsetReported = FALSE]
Shaped(b) == [b EXCEPT !.saturated = TRUE]

\* A bucket's age after a change of the host clock.
Aged(b, by) ==
  LET age == b.age + by
  IN  IF b.tokens = Burst THEN b
      ELSE [b EXCEPT !.age = IF age >= MaxAge THEN MaxQuiet + (age % RefillEvery)
                              ELSE age]

-----------------------------------------------------------------------------
(* A request. *)

\* Another request of the source was shaped and has not looked at the onset.
Overtaking(h, s) == \E g \in Handlers \ {h} : pc[g] = "shaped" /\ source[g] = s

\* The source comes to the limiter: what the history makes of it.
Arrives(s) == quiet' = [quiet EXCEPT ![s] = 0]

\* Handler h takes a request of source s, which is within its share.
Passes(h, s) ==
  LET b == Refilled(bucket[s])
  IN  /\ pc[h] = "idle" /\ want[s] <= MaxSequence
      /\ b.tokens > 0
      /\ Overtaking(h, s) => "overtaken" \in faults
      /\ bucket' = [bucket EXCEPT ![s] = Spent(b)]
      /\ pc' = [pc EXCEPT ![h] = "commit"]
      /\ source' = [source EXCEPT ![h] = s] /\ seq' = [seq EXCEPT ![h] = want[s]]
      /\ Arrives(s)
      /\ excess' = [excess EXCEPT ![s] = Smaller(@ + RefillEvery, MaxAge)]
      /\ UNCHANGED <<faults, selfSeq, store, want, restarts>>

\* ... or over it.
Shapes(h, s) ==
  LET b == Refilled(bucket[s])
  IN  /\ pc[h] = "idle" /\ want[s] <= MaxSequence
      /\ b.tokens = 0
      /\ bucket' = [bucket EXCEPT ![s] = Shaped(b)]
      /\ pc' = [pc EXCEPT ![h] = "shaped"]
      /\ source' = [source EXCEPT ![h] = s]
      /\ Arrives(s)
      /\ UNCHANGED <<faults, selfSeq, seq, store, want, excess, restarts>>

\* Seeded fault: only the request that finds the last handler free reports.
ReportsAlone(h) ==
  LET s == source[h]
      onset == bucket[s].saturated /\ ~bucket[s].onsetReported
               /\ \A g \in Handlers \ {h} : source[g] # s
  IN  /\ pc[h] = "shaped"
      /\ bucket' = IF onset THEN [bucket EXCEPT ![s].onsetReported = TRUE] ELSE bucket
      /\ pc' = [pc EXCEPT ![h] = IF onset THEN "mint" ELSE "idle"]
      /\ source' = [source EXCEPT ![h] = Nobody]
      /\ UNCHANGED <<faults, selfSeq, seq, store, want, history>>

\* saturationOnset: the first request of an episode to ask reports it, the
\* others are answered 429 at once.
Reports(h) ==
  LET s == source[h]
      onset == bucket[s].saturated /\ ~bucket[s].onsetReported
  IN  /\ pc[h] = "shaped"
      /\ bucket' = IF onset THEN [bucket EXCEPT ![s].onsetReported = TRUE] ELSE bucket
      /\ pc' = [pc EXCEPT ![h] = IF onset THEN "mint" ELSE "idle"]
      /\ source' = [source EXCEPT ![h] = Nobody]
      /\ UNCHANGED <<faults, selfSeq, seq, store, want, history>>

\* In the store's dedupe set: a source that retries in order has committed
\* every sequence up to its last (ConformingNeverRefused), and the set holds the
\* ones that the last boot read or that were committed since.
Committed(s, q) == forgotten[s] < q /\ q <= last[s]

\* Not in the set, and not above the last sequence either.
Regressed(s, q) == q <= forgotten[s]

\* The handler has written its answer.
Answered(h) ==
  /\ pc' = [pc EXCEPT ![h] = "idle"]
  /\ source' = [source EXCEPT ![h] = Nobody] /\ seq' = [seq EXCEPT ![h] = 0]

\* Seeded fault: the replay of a committed event is refused.
AdmitsNoReplay(h) ==
  LET s == source[h]
  IN  /\ pc[h] = "commit" /\ ~Regressed(s, seq[h])
      /\ last' = IF Committed(s, seq[h]) THEN last ELSE [last EXCEPT ![s] = seq[h]]
      /\ \/ want' = IF want[s] = seq[h] /\ ~Committed(s, seq[h])
                    THEN [want EXCEPT ![s] = @ + 1] ELSE want
         \/ "lostAnswer" \in faults /\ UNCHANGED want
      /\ Answered(h)
      /\ UNCHANGED <<faults, bucket, selfSeq, forgotten, evidence, history>>

\* Store.Admit and the answer, 200 in either case: a new sequence is committed,
\* a committed one is acknowledged without a second record.
Admits(h) ==
  LET s == source[h]
  IN  /\ pc[h] = "commit" /\ ~Regressed(s, seq[h])
      /\ last' = IF Committed(s, seq[h]) THEN last ELSE [last EXCEPT ![s] = seq[h]]
      /\ \/ want' = IF want[s] = seq[h] THEN [want EXCEPT ![s] = @ + 1] ELSE want
         \/ "lostAnswer" \in faults /\ UNCHANGED want
      /\ Answered(h)
      /\ UNCHANGED <<faults, bucket, selfSeq, forgotten, evidence, history>>

\* ErrSequenceRegressed, 409: the event is committed, but the store has
\* forgotten it, and the source is told that it is not.
AdmitRegresses(h) ==
  /\ pc[h] = "commit" /\ Regressed(source[h], seq[h])
  /\ Answered(h)
  /\ UNCHANGED <<faults, bucket, selfSeq, store, want, history>>

\* Seeded fault: a commit that failed is acknowledged.
AdmitFailsAcked(h) ==
  /\ "commitFault" \in faults /\ pc[h] = "commit"
  /\ want' = [want EXCEPT ![source[h]] = Larger(@, seq[h] + 1)]
  /\ Answered(h)
  /\ UNCHANGED <<faults, bucket, selfSeq, store, history>>

\* The commit fails (503), or the body cannot be read or decoded (400): the
\* token is gone, the store is as it was.
AdmitFails(h) ==
  /\ "commitFault" \in faults /\ pc[h] = "commit"
  /\ Answered(h)
  /\ UNCHANGED <<faults, bucket, selfSeq, store, want, history>>

-----------------------------------------------------------------------------
(* SelfEmit: the sequence under one lock, the admission under another. *)

\* Another goroutine of the daemon emits evidence of its own.
EmitterStarts(e) ==
  /\ pc[e] = "idle"
  /\ pc' = [pc EXCEPT ![e] = "mint"]
  /\ UNCHANGED <<faults, bucket, selfSeq, source, seq, store, want, history>>

Mints(p) ==
  /\ pc[p] = "mint" /\ selfSeq < MaxEvidence
  /\ selfSeq' = selfSeq + 1
  /\ seq' = [seq EXCEPT ![p] = selfSeq']
  /\ pc' = [pc EXCEPT ![p] = "emit"]
  /\ UNCHANGED <<faults, bucket, source, store, want, history>>

\* At the bound of the model the record is dropped, the request goes on.
MintsNoMore(p) ==
  /\ pc[p] = "mint" /\ selfSeq = MaxEvidence
  /\ pc' = [pc EXCEPT ![p] = "idle"]
  /\ UNCHANGED <<faults, bucket, selfSeq, source, seq, store, want, history>>

InEmitOrder(p) == \A q \in Processes : pc[q] = "emit" => seq[p] <= seq[q]

\* The store commits the record if its sequence is new; an error is swallowed.
Emits(p) ==
  /\ pc[p] = "emit"
  /\ InEmitOrder(p) \/ "emitRace" \in faults
  /\ \/ evidence' = Larger(evidence, seq[p])
     \/ "commitFault" \in faults /\ UNCHANGED evidence
  /\ pc' = [pc EXCEPT ![p] = "idle"] /\ seq' = [seq EXCEPT ![p] = 0]
  /\ UNCHANGED <<faults, bucket, selfSeq, source, last, forgotten, want, history>>

-----------------------------------------------------------------------------
(* Time and restarts. *)

\* Time passes, and the host clock with it.
Tick ==
  /\ bucket' = [s \in Producers |-> Aged(bucket[s], 1)]
  /\ quiet' = [s \in Producers |-> Smaller(quiet[s] + 1, MaxQuiet)]
  /\ excess' = [s \in Producers |-> Larger(excess[s] - 1, 0)]
  /\ UNCHANGED <<faults, selfSeq, pc, source, seq, store, want, restarts>>

\* SystemClock is the wall clock: it can be set, forward or back.
ClockSteps ==
  /\ "clockStep" \in faults
  /\ \E by \in {-Step, Step} :
       /\ \A s \in Producers : bucket[s].age + by >= -Step
       /\ bucket' = [s \in Producers |-> Aged(bucket[s], by)]
  /\ UNCHANGED <<faults, selfSeq, pc, source, seq, store, want, history>>

\* Boot rebuilds the dedupe set.  The plain one reads every record; the anchored
\* one takes the last sequences from the anchors and reads the hot records only:
\* whatever was rotated until then is forgotten.
Rebuilds ==
  IF "forgetful" \in faults
  THEN /\ forgotten' \in [Producers -> 0..MaxSequence]
       /\ \A s \in Producers : forgotten'[s] \in forgotten[s]..last[s]
  ELSE UNCHANGED forgotten

\* Seeded fault: the pipeline's channel starts at 1 again.
RestartsAtOne ==
  /\ "restart" \in faults /\ restarts < MaxRestarts
  /\ bucket' = [s \in Producers |-> FullBucket]
  /\ selfSeq' = 0
  /\ pc' = [p \in Processes |-> "idle"]
  /\ source' = [h \in Handlers |-> Nobody] /\ seq' = [p \in Processes |-> 0]
  /\ quiet' = [s \in Producers |-> MaxQuiet] /\ excess' = [s \in Producers |-> 0]
  /\ restarts' = restarts + 1
  /\ Rebuilds
  /\ UNCHANGED <<faults, last, evidence, want>>

\* A crash at any point, and a new server over the recovered store.
Restarts ==
  /\ "restart" \in faults /\ restarts < MaxRestarts
  /\ bucket' = [s \in Producers |-> FullBucket]
  /\ selfSeq' = evidence
  /\ pc' = [p \in Processes |-> "idle"]
  /\ source' = [h \in Handlers |-> Nobody] /\ seq' = [p \in Processes |-> 0]
  /\ quiet' = [s \in Producers |-> MaxQuiet] /\ excess' = [s \in Producers |-> 0]
  /\ restarts' = restarts + 1
  /\ Rebuilds
  /\ UNCHANGED <<faults, last, evidence, want>>

-----------------------------------------------------------------------------
Init ==
  /\ faults \in Environments
  /\ bucket = [s \in Producers |-> FullBucket]
  /\ selfSeq = 0
  /\ pc = [p \in Processes |-> "idle"]
  /\ source = [h \in Handlers |-> Nobody] /\ seq = [p \in Processes |-> 0]
  /\ last = [s \in Producers |-> 0] /\ evidence = 0
  /\ forgotten = [s \in Producers |-> 0]
  /\ want = [s \in Producers |-> 1]
  /\ quiet = [s \in Producers |-> MaxQuiet] /\ excess = [s \in Producers |-> 0]
  /\ restarts = 0

Handles(h) == Reports(h) \/ Admits(h) \/ AdmitRegresses(h) \/ AdmitFails(h)
SelfEmit(p) == Mints(p) \/ MintsNoMore(p) \/ Emits(p)

Next ==
  \/ \E h \in Handlers : Handles(h) \/ \E s \in Producers : Passes(h, s) \/ Shapes(h, s)
  \/ \E e \in Emitters : EmitterStarts(e)
  \/ \E p \in Processes : SelfEmit(p)
  \/ Tick \/ ClockSteps \/ Restarts

Spec == Init /\ [][Next]_vars

-----------------------------------------------------------------------------
TypeOK ==
  /\ faults \in Environments
  /\ bucket \in [Producers -> [tokens : 0..Burst, age : -Step..MaxAge,
                               saturated : BOOLEAN, onsetReported : BOOLEAN]]
  /\ selfSeq \in 0..MaxEvidence /\ evidence \in 0..selfSeq
  /\ pc \in [Processes -> {"idle", "shaped", "mint", "emit", "commit"}]
  /\ source \in [Handlers -> Producers \cup {Nobody}]
  /\ \A h \in Handlers : pc[h] \in {"shaped", "commit"} => source[h] \in Producers
  /\ seq \in [Processes -> 0..Larger(MaxEvidence, MaxSequence)]
  /\ last \in [Producers -> 0..MaxSequence]
  /\ forgotten \in [Producers -> 0..MaxSequence]
  /\ \A s \in Producers : forgotten[s] <= last[s]
  /\ want \in [Producers -> 1..(MaxSequence + 1)]
  /\ quiet \in [Producers -> 0..MaxQuiet] /\ excess \in [Producers -> 0..MaxAge]
  /\ restarts \in 0..MaxRestarts

Without(kinds) == faults \cap kinds = {}

\* fairness.go:28-35: the share.  In any stretch of time L between restarts, a
\* source passes at most Burst requests and one for every begun refill interval
\* of L.  excess is RefillEvery times the requests that passed, less L, for
\* the stretch that ends now and for which this is largest: the bound on the
\* requests of every stretch is the bound on excess.
ShareBound ==
  Without({"clockStep"}) =>
    \A s \in Producers : excess[s] <= Burst * RefillEvery + RefillEvery - 1

\* fairness.go:34: a source that stays away for Burst refill intervals has its
\* whole share again, whatever it and the other sources did before.
QuietRegainsShare ==
  Without({"clockStep"}) =>
    \A s \in Producers : quiet[s] = MaxQuiet => Refilled(bucket[s]).tokens = Burst

\* The share from both sides: never more, and in the end never less.
ShareExact == ShareBound /\ QuietRegainsShare

\* fairness.go:132-137: an episode is not over before its onset was reported,
\* if no request overtakes a shaped one on its way to saturationOnset.
SaturationReported ==
  [][Without({"overtaken"}) /\ restarts' = restarts =>
       \A s \in Producers :
         bucket[s].saturated /\ ~bucket'[s].saturated => bucket[s].onsetReported]_vars

\* server.go:81-83, store.go:245-248: evidence is lost if it reaches the store
\* with a sequence that is not new.  None does, across restarts and with
\* several goroutines emitting, if they reach the store in the order in which
\* they took their sequences.
EmitNeverRegresses ==
  Without({"emitRace"}) => \A p \in Processes : pc[p] = "emit" => seq[p] > evidence

\* server.go:182-187: a source that retries each event until it is acknowledged
\* is never told that its sequence regressed, although requests it gave up on
\* still run: the sequence of a request is new or one that was committed for its
\* source.  The exception is an event that was rotated before the last boot and
\* whose answer was lost (a finding).
ConformingNeverRefused ==
  \A h \in Handlers : pc[h] = "commit" =>
    \/ Committed(source[h], seq[h]) \/ seq[h] = last[source[h]] + 1
    \/ "forgetful" \in faults /\ seq[h] <= forgotten[source[h]]

(***************************************************************************)
(* Progress.  Time passes, the server's steps are taken, a source comes    *)
(* back again and again, and neither commits nor answers fail for ever.    *)
(***************************************************************************)
Acknowledges(s) ==
  \E h \in Handlers : source[h] = s /\ Admits(h) /\ want[s] = seq[h] /\ want'[s] = want[s] + 1

Fairness ==
  /\ WF_vars(Tick)
  /\ \A h \in Handlers : WF_vars(Handles(h))
  /\ \A p \in Processes : WF_vars(SelfEmit(p))
  /\ \A s \in Producers : SF_vars(\E h \in Handlers : Passes(h, s))
  /\ \A s \in Producers : SF_vars(Acknowledges(s))

FairSpec == Spec /\ Fairness

\* fairness.go:12-13: shaping is not dropping.  Every event is acknowledged, if
\* no boot forgets what it holds.
EverythingAcknowledged ==
  Without({"clockStep", "forgetful"}) => \A s \in Producers : <>(want[s] > MaxSequence)
=============================================================================
