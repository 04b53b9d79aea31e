---------------------------- MODULE IngestProofs ----------------------------
(***************************************************************************)
(* Theorems about Ingest, for any numbers of sources, handlers and other   *)
(* emitters, every share and every set of environments.                    *)
(***************************************************************************)
EXTENDS Ingest, TLAPS

Buckets == [tokens : 0..Burst, age : -Step..MaxAge,
            saturated : BOOLEAN, onsetReported : BOOLEAN]

LEMMA Sizes ==
  /\ Burst \in Nat /\ Burst > 0 /\ RefillEvery \in Nat /\ RefillEvery > 0
  /\ MaxQuiet \in Nat /\ MaxAge \in Nat /\ MaxAge = MaxQuiet + RefillEvery
  /\ Step \in Nat /\ MaxSequence \in Nat /\ MaxRestarts \in Nat /\ MaxEvidence \in Nat
BY IngestAssumption DEF MaxQuiet, MaxAge

\* What is left of the age after whole intervals were taken from it.
LEMMA Remainder ==
  ASSUME NEW age \in Int
  PROVE  age % RefillEvery \in 0..(RefillEvery - 1)
BY Sizes

LEMMA FullBucketType == FullBucket \in Buckets
BY Sizes DEF FullBucket, Buckets

LEMMA AgedType ==
  ASSUME NEW b \in Buckets, NEW by \in Int, b.age + by >= -Step
  PROVE  Aged(b, by) \in Buckets
<1> DEFINE age == b.age + by
<1>1. age \in Int /\ age >= -Step
  BY Sizes DEF Buckets
<1>2. CASE b.tokens = Burst
  BY <1>2 DEF Aged
<1>3. CASE b.tokens # Burst /\ age >= MaxAge
  <2>1. MaxQuiet + (age % RefillEvery) \in -Step..MaxAge
    BY <1>1, Sizes, Remainder
  <2>2. Aged(b, by) = [b EXCEPT !.age = MaxQuiet + (age % RefillEvery)]
    BY <1>3 DEF Aged
  <2> QED
    BY <2>1, <2>2 DEF Buckets
<1>4. CASE b.tokens # Burst /\ ~(age >= MaxAge)
  <2>1. age \in -Step..MaxAge
    BY <1>1, <1>4, Sizes
  <2>2. Aged(b, by) = [b EXCEPT !.age = age]
    BY <1>4 DEF Aged
  <2> QED
    BY <2>1, <2>2 DEF Buckets
<1> QED
  BY <1>2, <1>3, <1>4

LEMMA RefilledType ==
  ASSUME NEW b \in Buckets
  PROVE  Refilled(b) \in Buckets
<1>1. CASE b.tokens = Burst
  <2>1. 0 \in -Step..MaxAge
    BY Sizes
  <2> QED
    BY <1>1, <2>1 DEF Refilled, Buckets
<1>2. CASE b.tokens # Burst /\ b.age < RefillEvery
  BY <1>2 DEF Refilled
<1>3. CASE b.tokens # Burst /\ ~(b.age < RefillEvery)
  <2>1. b.age \in Nat /\ b.tokens \in 0..Burst
    BY <1>3, Sizes DEF Buckets
  <2>2. b.age % RefillEvery \in -Step..MaxAge
    BY <2>1, Remainder, Sizes
  <2>3. b.age \div RefillEvery \in Nat
    BY <2>1, Sizes
  <2>4. Smaller(Burst, b.tokens + b.age \div RefillEvery) \in 0..Burst
    BY <2>1, <2>3, Sizes DEF Smaller
  <2>5. Refilled(b) = [b EXCEPT !.tokens = Smaller(Burst, b.tokens + b.age \div RefillEvery),
                                !.age = b.age % RefillEvery]
    BY <1>3 DEF Refilled
  <2> QED
    BY <2>2, <2>4, <2>5 DEF Buckets
<1> QED
  BY <1>1, <1>2, <1>3

LEMMA SpentShapedType ==
  ASSUME NEW b \in Buckets
  PROVE  /\ b.tokens > 0 => Spent(b) \in Buckets /\ ~Spent(b).saturated
         /\ Shaped(b) \in Buckets /\ Shaped(b).onsetReported = b.onsetReported
<1>1. b.tokens > 0 => b.tokens - 1 \in 0..Burst
  BY Sizes DEF Buckets
<1> QED
  BY <1>1 DEF Buckets, Spent, Shaped

-----------------------------------------------------------------------------
(* Types.  What a process carries from one lock to the next is bounded by  *)
(* what it was taken from: without it, neither Emits nor Admits keeps its  *)
(* variables within their types.                                           *)

Carried ==
  /\ \A p \in Processes : pc[p] = "emit" => seq[p] \in 1..selfSeq
  /\ \A h \in Handlers : pc[h] = "commit" => seq[h] \in 1..MaxSequence

TypeInv == TypeOK /\ Carried

LEMMA TypeInit == Init => TypeInv
<1> SUFFICES ASSUME Init PROVE TypeInv
  OBVIOUS
<1>1. bucket \in [Producers -> Buckets]
  BY FullBucketType DEF Init
<1>2. 0 \in 0..Larger(MaxEvidence, MaxSequence)
  BY Sizes DEF Larger
<1>3. selfSeq \in 0..MaxEvidence /\ evidence \in 0..selfSeq /\ restarts \in 0..MaxRestarts
  BY Sizes DEF Init
<1>4. /\ last \in [Producers -> 0..MaxSequence] /\ forgotten \in [Producers -> 0..MaxSequence]
      /\ \A s \in Producers : forgotten[s] <= last[s]
      /\ want \in [Producers -> 1..(MaxSequence + 1)]
  BY Sizes DEF Init
<1>5. quiet \in [Producers -> 0..MaxQuiet] /\ excess \in [Producers -> 0..MaxAge]
  BY Sizes DEF Init
<1>6. /\ pc = [p \in Processes |-> "idle"] /\ source = [h \in Handlers |-> Nobody]
      /\ seq = [p \in Processes |-> 0] /\ faults \in Environments
      /\ Handlers \subseteq Processes
  BY DEF Init, Processes
<1> QED
  BY <1>1, <1>2, <1>3, <1>4, <1>5, <1>6 DEF TypeInv, TypeOK, Carried, Buckets

LEMMA TypeStep == TypeInv /\ [Next]_vars => TypeInv'
<1> SUFFICES ASSUME TypeInv, [Next]_vars PROVE TypeInv'
  OBVIOUS
<1> USE DEF TypeInv, Carried
<1>0. /\ bucket \in [Producers -> Buckets]
      /\ MaxEvidence \in 0..Larger(MaxEvidence, MaxSequence)
      /\ MaxSequence \in 0..Larger(MaxEvidence, MaxSequence)
      /\ Larger(MaxEvidence, MaxSequence) \in Nat
      /\ Handlers \subseteq Processes /\ Emitters \subseteq Processes
  BY Sizes DEF TypeOK, Buckets, Larger, Processes
<1>1. ASSUME NEW h \in Handlers, NEW s \in Producers, Passes(h, s)
      PROVE  TypeInv'
  <2>1. Spent(Refilled(bucket[s])) \in Buckets
    BY <1>0, <1>1, RefilledType, SpentShapedType DEF Passes
  <2>2. bucket' \in [Producers -> Buckets]
    BY <1>0, <1>1, <2>1 DEF Passes
  <2>3. Smaller(excess[s] + RefillEvery, MaxAge) \in 0..MaxAge /\ 0 \in 0..MaxQuiet
    BY Sizes DEF TypeOK, Smaller
  <2>4. excess' \in [Producers -> 0..MaxAge] /\ quiet' \in [Producers -> 0..MaxQuiet]
    BY <1>1, <2>3 DEF Passes, Arrives, TypeOK
  <2>5. want[s] \in 1..MaxSequence /\ want[s] \in 0..Larger(MaxEvidence, MaxSequence)
    BY <1>0, <1>1, Sizes DEF Passes, TypeOK
  <2>6. UNCHANGED <<faults, selfSeq, evidence, last, forgotten, want, restarts>>
    BY <1>1 DEF Passes, store
  <2> QED
    BY <1>0, <1>1, <2>2, <2>4, <2>5, <2>6 DEF Passes, TypeOK, Buckets
<1>2. ASSUME NEW h \in Handlers, NEW s \in Producers, Shapes(h, s)
      PROVE  TypeInv'
  <2>1. bucket' \in [Producers -> Buckets]
    BY <1>0, <1>2, RefilledType, SpentShapedType DEF Shapes
  <2>2. quiet' \in [Producers -> 0..MaxQuiet]
    BY <1>2, Sizes DEF Shapes, Arrives, TypeOK
  <2>3. UNCHANGED <<faults, selfSeq, seq, evidence, last, forgotten, want, excess, restarts>>
    BY <1>2 DEF Shapes, store
  <2> QED
    BY <1>0, <1>2, <2>1, <2>2, <2>3 DEF Shapes, TypeOK, Buckets
<1>3. ASSUME NEW h \in Handlers, Reports(h)
      PROVE  TypeInv'
  <2>1. bucket' \in [Producers -> Buckets]
    BY <1>0, <1>3 DEF Reports, Buckets
  <2>2. /\ UNCHANGED <<faults, selfSeq, seq, evidence, last, forgotten, want, quiet, excess, restarts>>
        /\ \/ pc' = [pc EXCEPT ![h] = "mint"]
           \/ pc' = [pc EXCEPT ![h] = "idle"]
        /\ source' = [source EXCEPT ![h] = Nobody]
    BY <1>3 DEF Reports, store, history
  <2> QED
    BY <1>0, <2>1, <2>2 DEF TypeOK, Buckets
<1>4. ASSUME NEW h \in Handlers, Admits(h)
      PROVE  TypeInv'
  <2>1. pc[h] = "commit" /\ source[h] \in Producers /\ seq[h] \in 1..MaxSequence
    BY <1>4 DEF Admits, TypeOK
  <2>2. last' \in [Producers -> 0..MaxSequence]
    BY <1>4, <2>1, Sizes DEF Admits, TypeOK
  <2>3. want' \in [Producers -> 1..(MaxSequence + 1)]
    BY <1>4, <2>1, Sizes DEF Admits, TypeOK
  <2>4. UNCHANGED <<faults, bucket, selfSeq, forgotten, evidence, quiet, excess, restarts>>
    BY <1>4 DEF Admits, history
  <2>6. \A t \in Producers : forgotten[t] <= last'[t]
    BY <1>4, <2>1, Sizes DEF Admits, Committed, Regressed, TypeOK
  <2>5. 0 \in 0..Larger(MaxEvidence, MaxSequence)
    BY <1>0
  <2> QED
    BY <1>0, <1>4, <2>2, <2>3, <2>4, <2>5, <2>6 DEF Admits, Answered, TypeOK
<1>5. ASSUME NEW h \in Handlers, AdmitFails(h)
      PROVE  TypeInv'
  <2>1. UNCHANGED <<faults, bucket, selfSeq, evidence, last, forgotten, want, quiet, excess, restarts>>
    BY <1>5 DEF AdmitFails, store, history
  <2>2. 0 \in 0..Larger(MaxEvidence, MaxSequence)
    BY <1>0
  <2> QED
    BY <1>0, <1>5, <2>1, <2>2 DEF AdmitFails, Answered, TypeOK
<1>5a. ASSUME NEW h \in Handlers, AdmitRegresses(h)
      PROVE  TypeInv'
  <2>1. UNCHANGED <<faults, bucket, selfSeq, evidence, last, forgotten, want, quiet, excess, restarts>>
    BY <1>5a DEF AdmitRegresses, store, history
  <2>2. 0 \in 0..Larger(MaxEvidence, MaxSequence)
    BY <1>0
  <2> QED
    BY <1>0, <1>5a, <2>1, <2>2 DEF AdmitRegresses, Answered, TypeOK
<1>6. ASSUME NEW e \in Emitters, EmitterStarts(e)
      PROVE  TypeInv'
  BY <1>0, <1>6 DEF EmitterStarts, TypeOK, store, history
<1>7. ASSUME NEW p \in Processes, Mints(p)
      PROVE  TypeInv'
  <2>1. /\ selfSeq' = selfSeq + 1 /\ selfSeq' \in 1..MaxEvidence
        /\ selfSeq' \in 0..Larger(MaxEvidence, MaxSequence)
    BY <1>0, <1>7, Sizes DEF Mints, TypeOK
  <2>2. UNCHANGED <<faults, bucket, source, evidence, last, forgotten, want, quiet, excess, restarts>>
    BY <1>7 DEF Mints, store, history
  <2> QED
    BY <1>0, <1>7, <2>1, <2>2 DEF Mints, TypeOK
<1>8. ASSUME NEW p \in Processes, MintsNoMore(p)
      PROVE  TypeInv'
  BY <1>0, <1>8 DEF MintsNoMore, TypeOK, store, history
<1>9. ASSUME NEW p \in Processes, Emits(p)
      PROVE  TypeInv'
  <2>1. evidence' \in 0..selfSeq
    BY <1>9 DEF Emits, TypeOK, Larger
  <2>2. UNCHANGED <<faults, bucket, selfSeq, source, last, forgotten, want, quiet, excess, restarts>>
    BY <1>9 DEF Emits, history
  <2>3. 0 \in 0..Larger(MaxEvidence, MaxSequence)
    BY <1>0
  <2> QED
    BY <1>0, <1>9, <2>1, <2>2, <2>3 DEF Emits, TypeOK
<1>10. CASE Tick
  <2>1. ASSUME NEW s \in Producers PROVE Aged(bucket[s], 1) \in Buckets
    <3>1. bucket[s] \in Buckets /\ bucket[s].age + 1 >= -Step
      BY <1>0, Sizes DEF Buckets
    <3> QED
      BY <3>1, AgedType
  <2>2. bucket' \in [Producers -> Buckets]
    BY <1>10, <2>1 DEF Tick
  <2>3. ASSUME NEW s \in Producers
        PROVE  /\ Smaller(quiet[s] + 1, MaxQuiet) \in 0..MaxQuiet
               /\ Larger(excess[s] - 1, 0) \in 0..MaxAge
    BY Sizes DEF TypeOK, Smaller, Larger
  <2>4. quiet' \in [Producers -> 0..MaxQuiet] /\ excess' \in [Producers -> 0..MaxAge]
    BY <1>10, <2>3 DEF Tick
  <2>5. UNCHANGED <<faults, selfSeq, pc, source, seq, evidence, last, forgotten, want, restarts>>
    BY <1>10 DEF Tick, store
  <2> QED
    BY <2>2, <2>4, <2>5 DEF TypeOK, Buckets
<1>11. CASE ClockSteps
  <2>1. PICK by \in {-Step, Step} :
          /\ \A s \in Producers : bucket[s].age + by >= -Step
          /\ bucket' = [s \in Producers |-> Aged(bucket[s], by)]
    BY <1>11 DEF ClockSteps
  <2>2. by \in Int
    BY <2>1, Sizes
  <2>3. ASSUME NEW s \in Producers PROVE Aged(bucket[s], by) \in Buckets
    BY <1>0, <2>1, <2>2, AgedType
  <2>4. bucket' \in [Producers -> Buckets]
    BY <2>1, <2>3
  <2>5. UNCHANGED <<faults, selfSeq, pc, source, seq, evidence, last, forgotten, want, quiet,
                    excess, restarts>>
    BY <1>11 DEF ClockSteps, store, history
  <2> QED
    BY <2>4, <2>5 DEF TypeOK, Buckets
<1>12. CASE Restarts
  <2>1. bucket' \in [Producers -> Buckets]
    BY <1>12, FullBucketType DEF Restarts
  <2>2. UNCHANGED <<faults, evidence, last, want>>
    BY <1>12 DEF Restarts
  <2>5. /\ forgotten' \in [Producers -> 0..MaxSequence]
        /\ \A s \in Producers : forgotten'[s] <= last[s]
    BY <1>12 DEF Restarts, Rebuilds, TypeOK
  <2>3. restarts' \in 0..MaxRestarts /\ selfSeq' \in 0..MaxEvidence /\ evidence' \in 0..selfSeq'
    BY <1>12, <2>2, Sizes DEF Restarts, TypeOK
  <2>4. 0 \in 0..Larger(MaxEvidence, MaxSequence) /\ MaxQuiet \in 0..MaxQuiet /\ 0 \in 0..MaxAge
    BY <1>0, Sizes
  <2> QED
    BY <1>0, <1>12, <2>1, <2>2, <2>3, <2>4, <2>5 DEF Restarts, TypeOK, Buckets
<1>13. CASE UNCHANGED vars
  BY <1>13 DEF vars, daemon, store, history, TypeOK
<1> QED
  BY <1>1, <1>2, <1>3, <1>4, <1>5, <1>5a, <1>6, <1>7, <1>8, <1>9, <1>10, <1>11, <1>12, <1>13
  DEF Next, Handles, SelfEmit

\* No reachable state leaves the types: no bucket holds more than the burst,
\* and no sequence of the pipeline is committed that was not handed out.
THEOREM TypeCorrect == Spec => []TypeOK
<1>1. TypeInv => TypeOK
  BY DEF TypeInv
<1> QED
  BY <1>1, TypeInit, TypeStep, PTL DEF Spec

-----------------------------------------------------------------------------
(* Evidence.  In "emit" stand the sequences that were handed out and have  *)
(* not reached the store: they differ from each other, and if they reach   *)
(* it in order, all of them are above what it holds.                       *)

EmitInv ==
  /\ \A p, q \in Processes :
       pc[p] = "emit" /\ pc[q] = "emit" /\ p # q => seq[p] # seq[q]
  /\ EmitNeverRegresses

LEMMA EmitInit == Init => EmitInv
BY DEF Init, EmitInv, EmitNeverRegresses

LEMMA EmitStep == TypeInv /\ EmitInv /\ [Next]_vars => EmitInv'
<1> SUFFICES ASSUME TypeInv, EmitInv, [Next]_vars PROVE EmitInv'
  OBVIOUS
<1> USE DEF EmitInv, EmitNeverRegresses, Without
<1>0. /\ selfSeq \in Nat /\ evidence \in Nat /\ evidence <= selfSeq
      /\ pc \in [Processes -> {"idle", "shaped", "mint", "emit", "commit"}]
      /\ seq \in [Processes -> Nat]
      /\ \A p \in Processes : pc[p] = "emit" => seq[p] \in 1..selfSeq
      /\ Handlers \subseteq Processes /\ Emitters \subseteq Processes
  BY Sizes DEF TypeInv, TypeOK, Carried, Larger, Processes
\* A process that is not in "emit" after the step adds nothing to it.
<1>a. ASSUME UNCHANGED <<faults, selfSeq, evidence>>,
             \A p \in Processes : pc'[p] = "emit" => pc[p] = "emit" /\ seq'[p] = seq[p]
      PROVE  EmitInv'
  BY <1>a
<1>1. ASSUME NEW h \in Handlers, NEW s \in Producers, Passes(h, s)
      PROVE  EmitInv'
  BY <1>0, <1>1, <1>a DEF Passes, store
<1>2. ASSUME NEW h \in Handlers, NEW s \in Producers, Shapes(h, s)
      PROVE  EmitInv'
  BY <1>0, <1>2, <1>a DEF Shapes, store
<1>3. ASSUME NEW h \in Handlers, Reports(h)
      PROVE  EmitInv'
  BY <1>0, <1>3, <1>a DEF Reports, store
<1>4. ASSUME NEW h \in Handlers, Admits(h)
      PROVE  EmitInv'
  BY <1>0, <1>4, <1>a DEF Admits, Answered
<1>5. ASSUME NEW h \in Handlers, AdmitFails(h)
      PROVE  EmitInv'
  BY <1>0, <1>5, <1>a DEF AdmitFails, Answered, store
<1>5a. ASSUME NEW h \in Handlers, AdmitRegresses(h)
      PROVE  EmitInv'
  BY <1>0, <1>5a, <1>a DEF AdmitRegresses, Answered, store
<1>6. ASSUME NEW e \in Emitters, EmitterStarts(e)
      PROVE  EmitInv'
  BY <1>0, <1>6, <1>a DEF EmitterStarts, store
<1>7. ASSUME NEW p \in Processes, Mints(p)
      PROVE  EmitInv'
  <2>1. /\ selfSeq' = selfSeq + 1 /\ UNCHANGED <<faults, evidence>>
        /\ seq' = [seq EXCEPT ![p] = selfSeq + 1] /\ pc' = [pc EXCEPT ![p] = "emit"]
    BY <1>7 DEF Mints, store
  <2>2. \A q \in Processes : q # p => seq'[q] = seq[q] /\ pc'[q] = pc[q]
    BY <1>0, <2>1
  <2>3. seq'[p] = selfSeq + 1
    BY <1>0, <2>1
  <2> QED
    BY <1>0, <2>1, <2>2, <2>3
<1>8. ASSUME NEW p \in Processes, MintsNoMore(p)
      PROVE  EmitInv'
  BY <1>0, <1>8, <1>a DEF MintsNoMore, store
<1>9. ASSUME NEW p \in Processes, Emits(p)
      PROVE  EmitInv'
  <2>1. /\ pc[p] = "emit" /\ UNCHANGED <<faults, selfSeq>>
        /\ pc' = [pc EXCEPT ![p] = "idle"] /\ seq' = [seq EXCEPT ![p] = 0]
        /\ evidence' \in {evidence, seq[p]}
    BY <1>9 DEF Emits, Larger
  <2>2. \A q \in Processes : pc'[q] = "emit" => q # p /\ pc[q] = "emit" /\ seq'[q] = seq[q]
    BY <1>0, <2>1
  <2>3. ASSUME faults \cap {"emitRace"} = {}, NEW q \in Processes, pc'[q] = "emit"
        PROVE  seq'[q] > evidence'
    <3>1. seq[p] <= seq[q] /\ seq[p] # seq[q]
      BY <1>9, <2>1, <2>2, <2>3 DEF Emits, InEmitOrder
    <3>2. seq[q] > evidence
      BY <2>2, <2>3
    <3> QED
      BY <1>0, <2>1, <2>2, <2>3, <3>1, <3>2
  <2> QED
    BY <1>0, <2>1, <2>2, <2>3
<1>10. CASE Tick
  BY <1>10, <1>a DEF Tick, store
<1>11. CASE ClockSteps
  BY <1>11, <1>a DEF ClockSteps, store
<1>12. CASE Restarts
  BY <1>12 DEF Restarts
<1>13. CASE UNCHANGED vars
  BY <1>13 DEF vars, daemon, store
<1> QED
  BY <1>1, <1>2, <1>3, <1>4, <1>5, <1>5a, <1>6, <1>7, <1>8, <1>9, <1>10, <1>11, <1>12, <1>13
  DEF Next, Handles, SelfEmit

\* Self-emitted evidence that reaches the store in the order in which it took
\* its sequences is never below what is committed, so none of it is refused as
\* a regression, for any number of emitters and across restarts.
THEOREM EvidenceKept == Spec => []EmitNeverRegresses
<1>1. EmitInv => EmitNeverRegresses
  BY DEF EmitInv
<1> QED
  BY <1>1, TypeInit, TypeStep, EmitInit, EmitStep, PTL DEF Spec

-----------------------------------------------------------------------------
(* Retries.  A source is never more than one event ahead of what is        *)
(* committed for it, and neither is a request it gave up on.               *)

RetryInv ==
  /\ \A s \in Producers : want[s] <= last[s] + 1
  /\ "forgetful" \notin faults => \A s \in Producers : forgotten[s] = 0
  /\ \A h \in Handlers : pc[h] = "commit" => seq[h] <= last[source[h]] + 1

LEMMA RetryInit == Init => RetryInv
BY DEF Init, RetryInv, Processes

LEMMA RetryStep == TypeInv /\ RetryInv /\ [Next]_vars => RetryInv'
<1> SUFFICES ASSUME TypeInv, RetryInv, [Next]_vars PROVE RetryInv'
  OBVIOUS
<1> USE DEF RetryInv
<1>0. /\ last \in [Producers -> Nat] /\ forgotten \in [Producers -> Nat]
      /\ want \in [Producers -> Nat]
      /\ pc \in [Processes -> {"idle", "shaped", "mint", "emit", "commit"}]
      /\ seq \in [Processes -> Nat]
      /\ source \in [Handlers -> Producers \cup {Nobody}]
      /\ \A h \in Handlers : pc[h] = "commit" => source[h] \in Producers
      /\ Handlers \subseteq Processes /\ Emitters \subseteq Processes
      /\ Handlers \cap Emitters = {}
  BY Sizes, IngestAssumption DEF TypeInv, TypeOK, Carried, Larger, Processes
\* A step after which no request is on its way that was not on it before.
<1>a. ASSUME UNCHANGED <<last, want>>,
             faults' = faults, UNCHANGED forgotten \/ "forgetful" \in faults,
             \A h \in Handlers : pc'[h] = "commit" =>
               pc[h] = "commit" /\ seq'[h] = seq[h] /\ source'[h] = source[h]
      PROVE  RetryInv'
  BY <1>a
<1>1. ASSUME NEW h \in Handlers, NEW s \in Producers, Passes(h, s)
      PROVE  RetryInv'
  <2>1. /\ UNCHANGED <<faults, last, forgotten, want>>
        /\ pc' = [pc EXCEPT ![h] = "commit"] /\ source' = [source EXCEPT ![h] = s]
        /\ seq' = [seq EXCEPT ![h] = want[s]]
    BY <1>1 DEF Passes, store
  <2> QED
    BY <1>0, <2>1
<1>2. ASSUME NEW h \in Handlers, NEW s \in Producers, Shapes(h, s)
      PROVE  RetryInv'
  BY <1>0, <1>2, <1>a DEF Shapes, store
<1>3. ASSUME NEW h \in Handlers, Reports(h)
      PROVE  RetryInv'
  BY <1>0, <1>3, <1>a DEF Reports, store
<1>4. ASSUME NEW h \in Handlers, Admits(h)
      PROVE  RetryInv'
  <2> DEFINE s == source[h]
  <2>1. pc[h] = "commit" /\ s \in Producers /\ seq[h] <= last[s] + 1
    BY <1>0, <1>4 DEF Admits, Answered
  <2>2. /\ last' \in [Producers -> Nat]
        /\ \A t \in Producers : last[t] <= last'[t]
        /\ seq[h] <= last'[s]
    BY <1>0, <1>4, <2>1 DEF Admits, Committed, Regressed
  <2>3. want' \in {want, [want EXCEPT ![s] = want[s] + 1]} /\ (want' # want => want[s] = seq[h])
    BY <1>4 DEF Admits, Answered
  <2>4. \A t \in Producers : want'[t] <= last'[t] + 1
    BY <1>0, <2>1, <2>2, <2>3
  <2>5. \A g \in Handlers : pc'[g] = "commit" =>
          pc[g] = "commit" /\ seq'[g] = seq[g] /\ source'[g] = source[g]
    BY <1>0, <1>4 DEF Admits, Answered
  <2>6. UNCHANGED <<faults, forgotten>>
    BY <1>4 DEF Admits
  <2> QED
    BY <1>0, <2>2, <2>4, <2>5, <2>6
<1>5. ASSUME NEW h \in Handlers, AdmitFails(h)
      PROVE  RetryInv'
  BY <1>0, <1>5, <1>a DEF AdmitFails, Answered, store
<1>5a. ASSUME NEW h \in Handlers, AdmitRegresses(h)
      PROVE  RetryInv'
  BY <1>0, <1>5a, <1>a DEF AdmitRegresses, Answered, store
<1>6. ASSUME NEW e \in Emitters, EmitterStarts(e)
      PROVE  RetryInv'
  BY <1>0, <1>6, <1>a DEF EmitterStarts, store
<1>7. ASSUME NEW p \in Processes, Mints(p)
      PROVE  RetryInv'
  BY <1>0, <1>7, <1>a DEF Mints, store
<1>8. ASSUME NEW p \in Processes, MintsNoMore(p)
      PROVE  RetryInv'
  BY <1>0, <1>8, <1>a DEF MintsNoMore, store
<1>9. ASSUME NEW p \in Processes, Emits(p)
      PROVE  RetryInv'
  BY <1>0, <1>9, <1>a DEF Emits
<1>10. CASE Tick
  BY <1>10, <1>a DEF Tick, store
<1>11. CASE ClockSteps
  BY <1>11, <1>a DEF ClockSteps, store
<1>12. CASE Restarts
  BY <1>0, <1>12, <1>a DEF Restarts, Rebuilds
<1>13. CASE UNCHANGED vars
  BY <1>13 DEF vars, daemon, store
<1> QED
  BY <1>1, <1>2, <1>3, <1>4, <1>5, <1>5a, <1>6, <1>7, <1>8, <1>9, <1>10, <1>11, <1>12, <1>13
  DEF Next, Handles, SelfEmit

\* A source that retries each event until it is acknowledged is never told
\* that its sequence regressed, however many of its requests still run, unless a
\* boot has forgotten the event: one that was rotated before (server.go:182-187).
THEOREM RetryNeverRefused == Spec => []ConformingNeverRefused
<1>1. TypeInv /\ RetryInv => ConformingNeverRefused
  <2> SUFFICES ASSUME TypeInv, RetryInv, NEW h \in Handlers, pc[h] = "commit"
               PROVE  \/ Committed(source[h], seq[h]) \/ seq[h] = last[source[h]] + 1
                      \/ "forgetful" \in faults /\ seq[h] <= forgotten[source[h]]
    BY DEF ConformingNeverRefused
  <2>1. /\ source[h] \in Producers /\ seq[h] \in Nat /\ seq[h] > 0
        /\ last[source[h]] \in Nat /\ forgotten[source[h]] \in Nat
        /\ seq[h] <= last[source[h]] + 1
    BY Sizes DEF TypeInv, TypeOK, Carried, RetryInv
  <2>2. "forgetful" \notin faults => forgotten[source[h]] = 0
    BY <2>1 DEF RetryInv
  <2> QED
    BY <2>1, <2>2 DEF Committed
<1> QED
  BY <1>1, TypeInit, TypeStep, RetryInit, RetryStep, PTL DEF Spec

-----------------------------------------------------------------------------
(* Episodes.  An episode without a report has a request that will report   *)
(* it: one that was shaped and has not looked at the onset yet.            *)

Reporter(s) == \E g \in Handlers : pc[g] = "shaped" /\ source[g] = s

EpisodeInv ==
  \A s \in Producers : bucket[s].saturated /\ ~bucket[s].onsetReported => Reporter(s)

LEMMA EpisodeInit == Init => EpisodeInv
BY DEF Init, EpisodeInv, FullBucket

LEMMA FlagsKept ==
  ASSUME NEW b \in Buckets
  PROVE  /\ Refilled(b).saturated = b.saturated
         /\ Refilled(b).onsetReported = b.onsetReported
         /\ \A by \in Int : /\ Aged(b, by).saturated = b.saturated
                            /\ Aged(b, by).onsetReported = b.onsetReported
BY DEF Buckets, Refilled, Aged

LEMMA EpisodeStep == TypeInv /\ EpisodeInv /\ [Next]_vars => EpisodeInv'
<1> SUFFICES ASSUME TypeInv, EpisodeInv, [Next]_vars PROVE EpisodeInv'
  OBVIOUS
<1> USE DEF EpisodeInv, Reporter
<1>0. /\ bucket \in [Producers -> Buckets]
      /\ pc \in [Processes -> {"idle", "shaped", "mint", "emit", "commit"}]
      /\ source \in [Handlers -> Producers \cup {Nobody}]
      /\ Handlers \subseteq Processes /\ Emitters \subseteq Processes
      /\ Handlers \cap Emitters = {}
  BY IngestAssumption DEF TypeInv, TypeOK, Buckets, Processes
\* A step that opens no episode and ends no request that was shaped.
<1>a. ASSUME \A s \in Producers : /\ bucket'[s].saturated = bucket[s].saturated
                                  /\ bucket'[s].onsetReported = bucket[s].onsetReported,
             \A h \in Handlers : pc[h] = "shaped" => pc'[h] = "shaped" /\ source'[h] = source[h]
      PROVE  EpisodeInv'
  BY <1>a
<1>1. ASSUME NEW h \in Handlers, NEW s \in Producers, Passes(h, s)
      PROVE  EpisodeInv'
  <2>1. /\ pc[h] = "idle" /\ pc' = [pc EXCEPT ![h] = "commit"]
        /\ source' = [source EXCEPT ![h] = s]
        /\ bucket' = [bucket EXCEPT ![s] = Spent(Refilled(bucket[s]))]
        /\ Refilled(bucket[s]).tokens > 0
    BY <1>1 DEF Passes
  <2>2. ~bucket'[s].saturated
    BY <1>0, <2>1, RefilledType, SpentShapedType
  <2>3. \A g \in Handlers : pc[g] = "shaped" => pc'[g] = "shaped" /\ source'[g] = source[g]
    BY <1>0, <2>1
  <2>4. \A t \in Producers : t # s => bucket'[t] = bucket[t]
    BY <1>0, <2>1
  <2> QED
    BY <2>2, <2>3, <2>4
<1>2. ASSUME NEW h \in Handlers, NEW s \in Producers, Shapes(h, s)
      PROVE  EpisodeInv'
  <2>1. /\ pc[h] = "idle" /\ pc' = [pc EXCEPT ![h] = "shaped"]
        /\ source' = [source EXCEPT ![h] = s]
        /\ bucket' = [bucket EXCEPT ![s] = Shaped(Refilled(bucket[s]))]
    BY <1>2 DEF Shapes
  <2>2. pc'[h] = "shaped" /\ source'[h] = s
    BY <1>0, <2>1
  <2>3. \A g \in Handlers : pc[g] = "shaped" => pc'[g] = "shaped" /\ source'[g] = source[g]
    BY <1>0, <2>1
  <2>4. \A t \in Producers : t # s => bucket'[t] = bucket[t]
    BY <1>0, <2>1
  <2> QED
    BY <2>2, <2>3, <2>4
<1>3. ASSUME NEW h \in Handlers, Reports(h)
      PROVE  EpisodeInv'
  <2> DEFINE s == source[h]
  <2>1. pc[h] = "shaped" /\ s \in Producers
    BY <1>3 DEF Reports, TypeInv, TypeOK
  <2>2. \A g \in Handlers \ {h} : pc'[g] = pc[g] /\ source'[g] = source[g]
    BY <1>0, <1>3 DEF Reports
  <2>3. \A t \in Producers : t # s => bucket'[t] = bucket[t]
    BY <1>0, <1>3 DEF Reports
  <2>4. bucket'[s].saturated => bucket'[s].onsetReported
    BY <1>0, <1>3, <2>1 DEF Reports, Buckets
  <2> QED
    BY <2>1, <2>2, <2>3, <2>4
<1>4. ASSUME NEW h \in Handlers, Admits(h)
      PROVE  EpisodeInv'
  BY <1>0, <1>4, <1>a DEF Admits, Answered
<1>5. ASSUME NEW h \in Handlers, AdmitFails(h)
      PROVE  EpisodeInv'
  BY <1>0, <1>5, <1>a DEF AdmitFails, Answered
<1>5a. ASSUME NEW h \in Handlers, AdmitRegresses(h)
      PROVE  EpisodeInv'
  BY <1>0, <1>5a, <1>a DEF AdmitRegresses, Answered
<1>6. ASSUME NEW e \in Emitters, EmitterStarts(e)
      PROVE  EpisodeInv'
  BY <1>0, <1>6, <1>a DEF EmitterStarts
<1>7. ASSUME NEW p \in Processes, Mints(p)
      PROVE  EpisodeInv'
  BY <1>0, <1>7, <1>a DEF Mints
<1>8. ASSUME NEW p \in Processes, MintsNoMore(p)
      PROVE  EpisodeInv'
  BY <1>0, <1>8, <1>a DEF MintsNoMore
<1>9. ASSUME NEW p \in Processes, Emits(p)
      PROVE  EpisodeInv'
  BY <1>0, <1>9, <1>a DEF Emits
<1>10. CASE Tick
  BY <1>0, <1>10, <1>a, FlagsKept DEF Tick
<1>11. CASE ClockSteps
  <2>1. PICK by \in Int : bucket' = [s \in Producers |-> Aged(bucket[s], by)]
    BY <1>11, Sizes DEF ClockSteps
  <2>2. UNCHANGED <<pc, source>>
    BY <1>11 DEF ClockSteps
  <2> QED
    BY <1>0, <2>1, <2>2, <1>a, FlagsKept
<1>12. CASE Restarts
  BY <1>12 DEF Restarts, FullBucket
<1>13. CASE UNCHANGED vars
  BY <1>13 DEF vars, daemon
<1> QED
  BY <1>1, <1>2, <1>3, <1>4, <1>5, <1>5a, <1>6, <1>7, <1>8, <1>9, <1>10, <1>11, <1>12, <1>13
  DEF Next, Handles, SelfEmit

\* What a step may do to an episode: only a request that passes ends one, and
\* it finds it reported if it overtakes no request that was shaped.
LEMMA EpisodeEnds ==
  TypeInv /\ EpisodeInv /\ [Next]_vars =>
    (Without({"overtaken"}) /\ restarts' = restarts =>
       \A s \in Producers :
         bucket[s].saturated /\ ~bucket'[s].saturated => bucket[s].onsetReported)
<1> SUFFICES ASSUME TypeInv, EpisodeInv, [Next]_vars, Without({"overtaken"}),
                    restarts' = restarts, NEW s \in Producers,
                    bucket[s].saturated, ~bucket'[s].saturated
             PROVE  bucket[s].onsetReported
  OBVIOUS
<1>0. /\ bucket \in [Producers -> Buckets] /\ restarts \in Nat
      /\ Handlers \subseteq Processes
  BY DEF TypeInv, TypeOK, Buckets, Processes
<1>1. ASSUME NEW h \in Handlers, NEW t \in Producers, Passes(h, t)
      PROVE  bucket[s].onsetReported
  <2>1. t = s
    BY <1>0, <1>1 DEF Passes
  <2>2. pc[h] = "idle" /\ ~Overtaking(h, s)
    BY <1>1, <2>1 DEF Passes, Without
  <2>3. ~Reporter(s)
    BY <2>2 DEF Overtaking, Reporter
  <2> QED
    BY <1>0, <2>3 DEF EpisodeInv, Buckets
<1>2. ASSUME NEW h \in Handlers, NEW t \in Producers, Shapes(h, t)
      PROVE  FALSE
  <2>1. bucket' = [bucket EXCEPT ![t] = Shaped(Refilled(bucket[t]))]
    BY <1>2 DEF Shapes
  <2>2. Shaped(Refilled(bucket[t])).saturated
    <3>1. Refilled(bucket[t]) \in Buckets
      BY <1>0, RefilledType
    <3> QED
      BY <3>1 DEF Shaped, Buckets
  <2> QED
    BY <1>0, <2>1, <2>2
<1>3. ASSUME NEW h \in Handlers, Reports(h)
      PROVE  FALSE
  BY <1>0, <1>3 DEF Reports, Buckets
<1>4. CASE Tick
  BY <1>0, <1>4, FlagsKept DEF Tick
<1>5. CASE ClockSteps
  <2>1. PICK by \in Int : bucket' = [t \in Producers |-> Aged(bucket[t], by)]
    BY <1>5, Sizes DEF ClockSteps
  <2> QED
    BY <1>0, <2>1, FlagsKept
<1>6. CASE Restarts
  BY <1>0, <1>6 DEF Restarts
<1>7. CASE UNCHANGED bucket
  BY <1>7
<1> QED
  BY <1>1, <1>2, <1>3, <1>4, <1>5, <1>6, <1>7
  DEF Next, Handles, SelfEmit, Admits, AdmitFails, AdmitRegresses, EmitterStarts, Mints, MintsNoMore,
      Emits, vars, daemon

\* No saturation episode ends unreported, for any number of requests of a
\* source at once, unless one of them overtakes a shaped one.
THEOREM OnsetReported == Spec => SaturationReported
<1>1. TypeInv /\ EpisodeInv /\ [Next]_vars =>
        [Without({"overtaken"}) /\ restarts' = restarts =>
           \A s \in Producers :
             bucket[s].saturated /\ ~bucket'[s].saturated => bucket[s].onsetReported]_vars
  BY EpisodeEnds
<1> QED
  BY <1>1, TypeInit, TypeStep, EpisodeInit, EpisodeStep, PTL DEF Spec, SaturationReported

-----------------------------------------------------------------------------
(* The share.  Every request that passed was paid for with a token, and    *)
(* every token came from an interval: what excess is above zero, the       *)
(* bucket is short of tokens and of time towards the next one.             *)

LEMMA Product ==
  ASSUME NEW a \in Int, NEW b \in Int, NEW r \in Nat
  PROVE  /\ a <= b => a * r <= b * r
         /\ (a + b) * r = a * r + b * r /\ (a - b) * r = a * r - b * r
         /\ 0 * r = 0 /\ 1 * r = r
OBVIOUS

LEMMA Division ==
  ASSUME NEW n \in Nat, NEW r \in Nat, r > 0
  PROVE  /\ n = (n \div r) * r + (n % r)
         /\ n \div r \in Nat /\ n % r \in 0..(r - 1)
OBVIOUS

LEMMA QuotientAtLeast ==
  ASSUME NEW n \in Nat, NEW r \in Nat, r > 0, NEW b \in Nat, b * r <= n
  PROVE  b <= n \div r
BY Division, Product

\* The bound on excess in a state whose bucket is b.
Room(b) == (Burst - b.tokens) * RefillEvery - b.age + RefillEvery - 1

ShareInv ==
  Without({"clockStep"}) =>
    \A s \in Producers : /\ bucket[s].age >= 0
                         /\ bucket[s].tokens = Burst \/ bucket[s].age >= quiet[s]
                         /\ excess[s] = 0 \/ excess[s] <= Room(bucket[s])

LEMMA RefilledRoom ==
  ASSUME NEW b \in Buckets, b.age >= 0, NEW e \in Nat, e = 0 \/ e <= Room(b)
  PROVE  Refilled(b).age \in 0..(RefillEvery - 1) /\ e <= Room(Refilled(b))
<1>0. b.tokens \in 0..Burst /\ b.age \in Nat
  BY Sizes DEF Buckets
<1>a. (Burst - b.tokens) * RefillEvery \in Nat
  <2>1. Burst - b.tokens \in Nat
    BY <1>0, Sizes
  <2> QED
    BY <2>1, Sizes
<1>1. CASE b.tokens = Burst
  <2>1. Refilled(b).age = 0 /\ Refilled(b).tokens = Burst
    BY <1>1 DEF Refilled, Buckets
  <2>2. (Burst - Burst) * RefillEvery = 0
    BY Sizes
  <2> QED
    BY <1>0, <1>1, <2>1, <2>2, Sizes DEF Room
<1>2. CASE b.tokens # Burst /\ b.age < RefillEvery
  <2>1. Refilled(b) = b
    BY <1>2 DEF Refilled
  <2> QED
    BY <1>0, <1>a, <1>2, <2>1, Sizes DEF Room
<1>3. CASE b.tokens # Burst /\ ~(b.age < RefillEvery)
  <2> DEFINE q == b.age \div RefillEvery
             m == b.age % RefillEvery
  <2>1. b.age = q * RefillEvery + m /\ q \in Nat /\ m \in 0..(RefillEvery - 1)
    BY <1>0, Sizes, Division
  <2>2. Refilled(b).age = m /\ Refilled(b).tokens = Smaller(Burst, b.tokens + q)
    BY <1>3 DEF Refilled, Buckets
  <2> HIDE DEF q, m
  <2>3. CASE Burst <= b.tokens + q
    <3>1. Refilled(b).tokens = Burst
      BY <1>0, <2>1, <2>2, <2>3, Sizes DEF Smaller
    <3>2. (Burst - b.tokens) * RefillEvery <= q * RefillEvery
      BY <1>0, <2>1, <2>3, Sizes, Product
    <3>3. (Burst - Burst) * RefillEvery = 0
      BY Sizes
    <3>4. q * RefillEvery \in Nat
      BY <2>1, Sizes
    <3> QED
      BY <1>0, <1>a, <2>1, <2>2, <3>1, <3>2, <3>3, <3>4, Sizes DEF Room
  <2>4. CASE b.tokens + q < Burst
    <3>1. Refilled(b).tokens = b.tokens + q
      BY <1>0, <2>1, <2>2, <2>4, Sizes DEF Smaller
    <3>2. (Burst - (b.tokens + q)) * RefillEvery = (Burst - b.tokens) * RefillEvery - q * RefillEvery
      BY <1>0, <2>1, Sizes
    <3>3. Burst - (b.tokens + q) \in Nat
      BY <1>0, <2>1, <2>4, Sizes
    <3>4. (Burst - (b.tokens + q)) * RefillEvery \in Nat /\ q * RefillEvery \in Nat
      BY <2>1, <3>3, Sizes
    <3> QED
      BY <1>0, <1>a, <2>1, <2>2, <3>1, <3>2, <3>4, Sizes DEF Room
  <2> QED
    BY <1>0, <2>1, <2>3, <2>4, Sizes
<1> QED
  BY <1>1, <1>2, <1>3

LEMMA AgedRoom ==
  ASSUME NEW b \in Buckets, b.age >= 0,
         NEW e \in Nat, e = 0 \/ e <= Room(b),
         NEW quietFor \in Nat, b.tokens = Burst \/ b.age >= quietFor
  PROVE  LET a == Aged(b, 1)
             f == Larger(e - 1, 0)
         IN  /\ a.age >= 0
             /\ a.tokens = Burst \/ a.age >= Smaller(quietFor + 1, MaxQuiet)
             /\ f = 0 \/ f <= Room(a)
<1> DEFINE a == Aged(b, 1)
           f == Larger(e - 1, 0)
<1>0. b.tokens \in 0..Burst /\ b.age \in Nat
  BY Sizes DEF Buckets
<1>a. f \in Nat /\ (f = 0 \/ f = e - 1)
  BY DEF Larger
<1>b. Smaller(quietFor + 1, MaxQuiet) <= quietFor + 1 /\ Smaller(quietFor + 1, MaxQuiet) <= MaxQuiet
      /\ Smaller(quietFor + 1, MaxQuiet) \in Nat
  BY Sizes DEF Smaller
<1>c. (Burst - b.tokens) * RefillEvery \in Nat /\ (Burst - b.tokens) * RefillEvery <= MaxQuiet
  <2>1. Burst - b.tokens \in Nat /\ Burst - b.tokens <= Burst
    BY <1>0, Sizes
  <2> QED
    BY <2>1, Sizes, Product DEF MaxQuiet
<1> HIDE DEF f
<1>1. CASE b.tokens = Burst
  <2>1. a = b
    BY <1>1 DEF Aged
  <2> QED
    BY <1>0, <1>1, <1>a, <1>c, <2>1, Sizes DEF Room, f
<1>2. CASE b.tokens # Burst /\ b.age + 1 >= MaxAge
  <2>1. a.age = MaxQuiet + ((b.age + 1) % RefillEvery)
    BY <1>0, <1>2, Sizes DEF Aged, Buckets
  <2>2. (b.age + 1) % RefillEvery \in 0..(RefillEvery - 1)
    BY <1>0, Remainder
  <2>3. e = 0
    BY <1>0, <1>2, <1>c, Sizes DEF Room
  <2>4. f = 0
    BY <2>3 DEF f, Larger
  <2> QED
    BY <1>b, <2>1, <2>2, <2>4, Sizes DEF f
<1>3. CASE b.tokens # Burst /\ b.age + 1 < MaxAge
  <2>1. a.age = b.age + 1 /\ a.tokens = b.tokens
    BY <1>0, <1>3, Sizes DEF Aged, Buckets
  <2>2. f = 0 \/ f <= Room(a)
    BY <1>0, <1>a, <1>c, <2>1, Sizes DEF Room
  <2> QED
    BY <1>0, <1>3, <1>b, <2>1, <2>2, Sizes DEF f
<1> QED
  BY <1>0, <1>1, <1>2, <1>3, Sizes

LEMMA ShareInit == Init => ShareInv
<1> SUFFICES ASSUME Init, NEW s \in Producers
             PROVE  bucket[s].age >= 0 /\ bucket[s].tokens = Burst /\ excess[s] = 0
  BY DEF ShareInv
<1> QED
  BY DEF Init, FullBucket

LEMMA ShareStep == TypeInv /\ ShareInv /\ [Next]_vars => ShareInv'
<1> SUFFICES ASSUME TypeInv, ShareInv, [Next]_vars, Without({"clockStep"})',
                    NEW s \in Producers
             PROVE  (/\ bucket[s].age >= 0
                     /\ bucket[s].tokens = Burst \/ bucket[s].age >= quiet[s]
                     /\ excess[s] = 0 \/ excess[s] <= Room(bucket[s]))'
  BY DEF ShareInv
<1> DEFINE Claim == /\ bucket[s].age >= 0
                    /\ bucket[s].tokens = Burst \/ bucket[s].age >= quiet[s]
                    /\ excess[s] = 0 \/ excess[s] <= Room(bucket[s])
<1>0. /\ bucket \in [Producers -> Buckets]
      /\ quiet \in [Producers -> 0..MaxQuiet] /\ excess \in [Producers -> 0..MaxAge]
  BY DEF TypeInv, TypeOK, Buckets
<1>a. faults' = faults
  BY DEF Next, Handles, SelfEmit, Passes, Shapes, Reports, Admits, AdmitFails, AdmitRegresses,
         EmitterStarts, Mints, MintsNoMore, Emits, Tick, ClockSteps, Restarts, vars
<1>b. Claim /\ ~ClockSteps
  BY <1>a DEF ShareInv, Without, ClockSteps
<1>c. ASSUME bucket'[s].age = bucket[s].age, bucket'[s].tokens = bucket[s].tokens,
             quiet'[s] = quiet[s], excess'[s] = excess[s]
      PROVE  Claim'
  BY <1>b, <1>c DEF Room
<1>1. ASSUME NEW h \in Handlers, NEW t \in Producers, Passes(h, t)
      PROVE  Claim'
  <2>1. CASE t # s
    BY <1>0, <1>1, <1>c, <2>1 DEF Passes, Arrives
  <2>2. CASE t = s
    <3> DEFINE r == Refilled(bucket[s])
    <3>1. r.age \in 0..(RefillEvery - 1) /\ excess[s] <= Room(r)
      BY <1>0, <1>b, RefilledRoom
    <3>2. r \in Buckets /\ r.tokens > 0
      BY <1>0, <1>1, <2>2, RefilledType DEF Passes
    <3>3. bucket'[s].age = r.age /\ bucket'[s].tokens = r.tokens - 1
      BY <1>0, <1>1, <2>2, <3>2 DEF Passes, Spent, Buckets
    <3>4. quiet'[s] = 0
      BY <1>0, <1>1, <2>2 DEF Passes, Arrives
    <3>5. excess'[s] = Smaller(excess[s] + RefillEvery, MaxAge)
      BY <1>0, <1>1, <2>2 DEF Passes
    <3>6. excess[s] \in Nat /\ excess'[s] <= excess[s] + RefillEvery /\ excess'[s] \in Nat
      BY <1>0, <3>5, Sizes DEF Smaller
    <3>7. r.tokens \in 0..Burst /\ r.age \in Int
      BY <3>1, <3>2, Sizes DEF Buckets
    <3> HIDE DEF r
    <3>8. (Burst - (r.tokens - 1)) * RefillEvery = (Burst - r.tokens) * RefillEvery + RefillEvery
      BY <3>7, Sizes
    <3>9. (Burst - r.tokens) * RefillEvery \in Int
      BY <3>7, Sizes
    <3>10. excess'[s] <= (Room(bucket[s]))'
      BY <3>1, <3>3, <3>6, <3>7, <3>8, <3>9, Sizes DEF Room
    <3> QED
      BY <3>1, <3>3, <3>4, <3>7, <3>10, Sizes
  <2> QED
    BY <2>1, <2>2
<1>2. ASSUME NEW h \in Handlers, NEW t \in Producers, Shapes(h, t)
      PROVE  Claim'
  <2>1. CASE t # s
    BY <1>0, <1>2, <1>c, <2>1 DEF Shapes, Arrives
  <2>2. CASE t = s
    <3> DEFINE r == Refilled(bucket[s])
    <3>1. r.age \in 0..(RefillEvery - 1) /\ excess[s] <= Room(r)
      BY <1>0, <1>b, RefilledRoom
    <3>2. r \in Buckets
      BY <1>0, RefilledType
    <3>3. bucket'[s].age = r.age /\ bucket'[s].tokens = r.tokens
      BY <1>0, <1>2, <2>2, <3>2 DEF Shapes, Shaped, Buckets
    <3>4. quiet'[s] = 0 /\ excess'[s] = excess[s]
      BY <1>0, <1>2, <2>2 DEF Shapes, Arrives
    <3> HIDE DEF r
    <3> QED
      BY <3>1, <3>3, <3>4, Sizes DEF Room
  <2> QED
    BY <2>1, <2>2
<1>3. ASSUME NEW h \in Handlers, Reports(h)
      PROVE  Claim'
  BY <1>0, <1>3, <1>c DEF Reports, history, Buckets
<1>4. CASE Tick
  <2>1. /\ bucket'[s] = Aged(bucket[s], 1)
        /\ quiet'[s] = Smaller(quiet[s] + 1, MaxQuiet)
        /\ excess'[s] = Larger(excess[s] - 1, 0)
    BY <1>4 DEF Tick
  <2> QED
    BY <1>0, <1>b, <2>1, AgedRoom, Sizes
<1>5. CASE Restarts
  BY <1>5, Sizes DEF Restarts, FullBucket
<1>6. CASE UNCHANGED <<bucket, quiet, excess>>
  BY <1>6, <1>c
<1> QED
  BY <1>b, <1>1, <1>2, <1>3, <1>4, <1>5, <1>6
  DEF Next, Handles, SelfEmit, Admits, AdmitFails, AdmitRegresses, EmitterStarts, Mints, MintsNoMore,
      Emits, vars, daemon, history

\* For any burst and any refill interval: a source passes no more requests in
\* any stretch of time than its share, and has all of it back after a silence
\* of Burst intervals.
THEOREM ShareKept == Spec => []ShareExact
<1>1. TypeInv /\ ShareInv => ShareExact
  <2> SUFFICES ASSUME TypeInv, ShareInv, Without({"clockStep"}), NEW s \in Producers
               PROVE  /\ excess[s] <= Burst * RefillEvery + RefillEvery - 1
                      /\ quiet[s] = MaxQuiet => Refilled(bucket[s]).tokens = Burst
    BY DEF ShareExact, ShareBound, QuietRegainsShare
  <2> DEFINE b == bucket[s]
  <2>1. /\ b \in Buckets /\ b.tokens \in 0..Burst /\ b.age \in Nat /\ excess[s] \in Nat
        /\ b.tokens = Burst \/ b.age >= quiet[s]
        /\ excess[s] = 0 \/ excess[s] <= Room(b)
    BY Sizes DEF TypeInv, TypeOK, Buckets, ShareInv
  <2> HIDE DEF b
  <2>2. /\ (Burst - b.tokens) * RefillEvery \in Nat
        /\ (Burst - b.tokens) * RefillEvery <= Burst * RefillEvery
        /\ RefillEvery <= Burst * RefillEvery /\ Burst * RefillEvery \in Nat
    <3>1. Burst - b.tokens \in Nat /\ Burst - b.tokens <= Burst /\ 1 <= Burst
      BY <2>1, Sizes
    <3> QED
      BY <3>1, Sizes, Product
  <2>3. excess[s] <= Burst * RefillEvery + RefillEvery - 1
    BY <2>1, <2>2, Sizes DEF Room
  <2>4. ASSUME b.tokens # Burst, b.age >= MaxQuiet
        PROVE  Refilled(b).tokens = Burst
    <3>1. ~(b.age < RefillEvery) /\ Burst * RefillEvery <= b.age
      BY <2>1, <2>2, <2>4, Sizes DEF MaxQuiet
    <3>2. b.age \div RefillEvery \in Nat /\ Burst <= b.age \div RefillEvery
      BY <2>1, <3>1, Sizes, Division, QuotientAtLeast
    <3>3. Smaller(Burst, b.tokens + b.age \div RefillEvery) = Burst
      BY <2>1, <3>2, Sizes DEF Smaller
    <3> QED
      BY <2>1, <2>4, <3>1, <3>3 DEF Refilled, Buckets
  <2>5. b.tokens = Burst => Refilled(b).tokens = Burst
    BY <2>1 DEF Refilled, Buckets
  <2> QED
    BY <2>1, <2>3, <2>4, <2>5 DEF b
<1> QED
  BY <1>1, TypeInit, TypeStep, ShareInit, ShareStep, PTL DEF Spec

=============================================================================
