------------------------ MODULE StreamingQueryProofs ------------------------
(***************************************************************************)
(* Lemmas about the micro-batch loop that the proofs of the three sinks    *)
(* share: the offset log and the commit log of Spark's checkpoint.         *)
(***************************************************************************)
EXTENDS StreamingQuery, SequenceTheorems, TLAPS

\* The logs of the checkpoint: the offset log is at most one batch ahead of the
\* commit log, it is while a batch is in the driver's hands, and the batches are
\* successive, not empty, and within the topic.
LogsOrdered ==
  /\ commits <= Len(offsetLog) /\ Len(offsetLog) <= commits + 1
  /\ step # "idle" => Len(offsetLog) = commits + 1
  /\ \A a, b \in 1 .. Len(offsetLog) : a < b => offsetLog[a] < offsetLog[b]

QueryInv == QueryTypeOK /\ LogsOrdered

\* What a sink does to the query while it has the batch.
SinkStep == step # "idle" /\ UNCHANGED <<topic, offsetLog, commits, crashes>>

QueryNext ==
  \/ Arrive \/ PlanBatch \/ ReplayBatch \/ CommitBatch
  \/ CrashRestart
  \/ SinkStep

-----------------------------------------------------------------------------
LEMMA QueryTypes ==
  ASSUME QueryTypeOK
  PROVE  /\ Len(topic) \in Nat /\ Len(topic) \in 0 .. MaxRecords
         /\ topic \in [1 .. Len(topic) -> Kinds]
         /\ Len(offsetLog) \in Nat
         /\ \A b \in 1 .. Len(offsetLog) : offsetLog[b] \in 1 .. Len(topic)
         /\ commits \in Nat /\ crashes \in Nat /\ MaxRecords \in Nat
<1>1. /\ topic \in Seq(Kinds) /\ Len(topic) <= MaxRecords /\ MaxRecords \in Nat
      /\ offsetLog \in Seq(1 .. Len(topic))
      /\ commits \in Nat /\ crashes \in Nat
  BY QueryAssumption DEF QueryTypeOK
<1>2. Len(topic) \in Nat /\ topic \in [1 .. Len(topic) -> Kinds]
  BY <1>1, LenProperties
<1>3. Len(offsetLog) \in Nat /\ offsetLog \in [1 .. Len(offsetLog) -> 1 .. Len(topic)]
  BY <1>1, LenProperties
<1> QED
  BY <1>1, <1>2, <1>3

\* Every planned batch ends at a record that has arrived.
LEMMA EndOfType ==
  ASSUME QueryInv, NEW b \in 0 .. Len(offsetLog)
  PROVE  EndOf(b) \in 0 .. Len(topic)
BY QueryTypes DEF QueryInv, EndOf

\* Later batches end later.
LEMMA EndOfIncreases ==
  ASSUME QueryInv, NEW a \in 0 .. Len(offsetLog), NEW b \in 0 .. Len(offsetLog), a < b
  PROVE  EndOf(a) < EndOf(b)
BY QueryTypes DEF QueryInv, LogsOrdered, EndOf

LEMMA EndOfMonotone ==
  ASSUME QueryInv, NEW a \in 0 .. Len(offsetLog), NEW b \in 0 .. Len(offsetLog), a <= b
  PROVE  EndOf(a) <= EndOf(b)
<1>1. CASE a = b
  BY <1>1, EndOfType
<1>2. CASE a < b
  BY <1>2, EndOfIncreases, EndOfType
<1> QED
  BY <1>1, <1>2, QueryTypes DEF QueryInv

\* The same of one state as a formula, to state it of the next state as well.
EndsIncrease ==
  /\ \A b \in 0 .. Len(offsetLog) : EndOf(b) \in 0 .. Len(topic)
  /\ \A a, b \in 0 .. Len(offsetLog) : a <= b => EndOf(a) <= EndOf(b)

LEMMA EndsDoIncrease == QueryInv => EndsIncrease
BY EndOfType, EndOfMonotone DEF EndsIncrease

LEMMA NextEndsIncrease == QueryInv' => EndsIncrease'
BY EndsDoIncrease, PTL

\* A batch is a range of records that have arrived, between its neighbours.
LEMMA BatchRange ==
  ASSUME QueryInv, NEW b \in 1 .. Len(offsetLog), NEW o \in BatchOf(b)
  PROVE  /\ o \in 1 .. Len(topic)
         /\ o \in 1 .. MaxRecords
         /\ EndOf(b - 1) < o /\ o <= EndOf(b)
<1>1. Len(offsetLog) \in Nat /\ Len(topic) \in 0 .. MaxRecords /\ MaxRecords \in Nat
  BY QueryTypes DEF QueryInv
<1>2. b - 1 \in 0 .. Len(offsetLog) /\ b \in 0 .. Len(offsetLog)
  BY <1>1
<1>3. EndOf(b - 1) \in 0 .. Len(topic) /\ EndOf(b) \in 0 .. Len(topic)
  BY <1>2, EndOfType
<1> QED
  BY <1>1, <1>3 DEF BatchOf

BatchesInRange ==
  \A b \in 1 .. Len(offsetLog) : \A o \in BatchOf(b) :
    /\ o \in 1 .. Len(topic) /\ o \in Offsets
    /\ EndOf(b - 1) < o /\ o <= EndOf(b)

LEMMA BatchesAreInRange == QueryInv => BatchesInRange
BY BatchRange DEF BatchesInRange, Offsets

LEMMA NextBatchesInRange == QueryInv' => BatchesInRange'
BY BatchesAreInRange, PTL

\* No record is in two batches.
LEMMA BatchesDisjoint ==
  ASSUME QueryInv, NEW a \in 1 .. Len(offsetLog), NEW b \in 1 .. Len(offsetLog),
         NEW o \in BatchOf(a), o \in BatchOf(b)
  PROVE  a = b
<1> SUFFICES ASSUME NEW c \in 1 .. Len(offsetLog), NEW d \in 1 .. Len(offsetLog),
                    o \in BatchOf(c), o \in BatchOf(d), c < d
             PROVE  FALSE
  BY QueryTypes DEF QueryInv
<1>1. Len(offsetLog) \in Nat /\ Len(topic) \in Nat
  BY QueryTypes DEF QueryInv
<1>2. c \in 0 .. Len(offsetLog) /\ d - 1 \in 0 .. Len(offsetLog) /\ c <= d - 1
  BY <1>1
<1>3. EndOf(c) <= EndOf(d - 1)
  BY <1>2, EndOfMonotone
<1>4. o <= EndOf(c) /\ EndOf(d - 1) < o
  BY BatchRange
<1>5. o \in Nat /\ EndOf(c) \in Nat /\ EndOf(d - 1) \in Nat
  BY <1>1, <1>2, BatchRange, EndOfType
<1> QED
  BY <1>3, <1>4, <1>5

AreDisjoint ==
  \A a, b \in 1 .. Len(offsetLog) : \A o \in BatchOf(a) : o \in BatchOf(b) => a = b

LEMMA BatchesAreDisjoint == QueryInv => AreDisjoint
BY BatchesDisjoint DEF AreDisjoint

LEMMA NextBatchesAreDisjoint == QueryInv' => AreDisjoint'
BY BatchesAreDisjoint, PTL

-----------------------------------------------------------------------------
LEMMA QueryInitInv == QueryInit => QueryInv
BY QueryAssumption, EmptySeq DEF QueryInit, QueryInv, QueryTypeOK, LogsOrdered

\* The topic only grows, and a planned batch is never planned anew.
LEMMA LogsGrow ==
  ASSUME QueryInv, QueryNext \/ UNCHANGED queryVars
  PROVE  /\ Len(topic) <= Len(topic') /\ Len(topic') \in Nat
         /\ \A o \in 1 .. Len(topic) : topic'[o] = topic[o]
         /\ Len(offsetLog) <= Len(offsetLog') /\ Len(offsetLog') \in Nat
         /\ \A b \in 1 .. Len(offsetLog) : offsetLog'[b] = offsetLog[b]
         /\ \A b \in 0 .. Len(offsetLog) : EndOf(b)' = EndOf(b)
         /\ \A b \in 1 .. Len(offsetLog) : BatchOf(b)' = BatchOf(b)
<1>1. /\ topic \in Seq(Kinds) /\ Len(topic) \in Nat
      /\ offsetLog \in Seq(1 .. Len(topic)) /\ Len(offsetLog) \in Nat
  BY QueryTypes DEF QueryInv, QueryTypeOK
<1>2. /\ Len(topic) <= Len(topic') /\ Len(topic') \in Nat
      /\ \A o \in 1 .. Len(topic) : topic'[o] = topic[o]
  <2>1. CASE Arrive
    <3>1. PICK k \in Kinds : topic' = Append(topic, k)
      BY <2>1 DEF Arrive
    <3> QED
      BY <1>1, <3>1, AppendProperties
  <2>2. CASE UNCHANGED topic
    BY <1>1, <2>2
  <2> QED
    BY <2>1, <2>2 DEF QueryNext, queryVars, PlanBatch, ReplayBatch, CommitBatch,
                      CrashRestart, SinkStep
<1>3. /\ Len(offsetLog) <= Len(offsetLog') /\ Len(offsetLog') \in Nat
      /\ \A b \in 1 .. Len(offsetLog) : offsetLog'[b] = offsetLog[b]
  <2>1. CASE PlanBatch
    <3>1. offsetLog' = Append(offsetLog, Len(topic))
      BY <2>1 DEF PlanBatch
    <3>2. offsetLog \in Seq(0 .. Len(topic)) /\ Len(topic) \in 0 .. Len(topic)
      BY <1>1, SeqMonotonic
    <3> QED
      BY <1>1, <3>1, <3>2, AppendProperties
  <2>2. CASE UNCHANGED offsetLog
    BY <1>1, <2>2
  <2> QED
    BY <2>1, <2>2 DEF QueryNext, queryVars, Arrive, ReplayBatch, CommitBatch,
                      CrashRestart, SinkStep
<1>4. \A b \in 0 .. Len(offsetLog) : EndOf(b)' = EndOf(b)
  BY <1>1, <1>3 DEF EndOf
<1>5. ASSUME NEW b \in 1 .. Len(offsetLog) PROVE BatchOf(b)' = BatchOf(b)
  <2>1. b \in 0 .. Len(offsetLog) /\ b - 1 \in 0 .. Len(offsetLog)
    BY <1>1
  <2>2. EndOf(b)' = EndOf(b) /\ EndOf(b - 1)' = EndOf(b - 1)
    BY <1>4, <2>1
  <2> QED
    BY <2>2 DEF BatchOf
<1> QED
  BY <1>2, <1>3, <1>4, <1>5

\* The whole of it: where the planned batches end moves forward.
LEMMA PlannedGrows ==
  ASSUME QueryInv, QueryInv', QueryNext \/ UNCHANGED queryVars
  PROVE  /\ EndOf(Len(offsetLog)) \in Nat /\ EndOf(Len(offsetLog))' \in Nat
         /\ EndOf(Len(offsetLog)) <= EndOf(Len(offsetLog))'
<1>1. /\ Len(offsetLog) \in Nat /\ Len(offsetLog') \in Nat /\ Len(offsetLog) <= Len(offsetLog')
      /\ Len(topic) \in Nat /\ Len(topic') \in Nat
      /\ \A b \in 0 .. Len(offsetLog) : EndOf(b)' = EndOf(b)
  BY LogsGrow, QueryTypes DEF QueryInv
<1>2. EndOf(Len(offsetLog)) \in Nat
  BY <1>1, EndOfType
<1> QED
  BY <1>1, <1>2, NextEndsIncrease DEF EndsIncrease

\* A batch that a step plans is the next one, of records in no batch so far.
LEMMA NewBatch ==
  ASSUME QueryInv, QueryInv', QueryNext \/ UNCHANGED queryVars,
         NEW b \in 1 .. Len(offsetLog'), b \notin 1 .. Len(offsetLog),
         NEW o \in BatchOf(b)'
  PROVE  /\ b = Len(offsetLog) + 1 /\ UNCHANGED topic
         /\ o \in Offsets /\ EndOf(Len(offsetLog)) < o
<1>1. Len(offsetLog) \in Nat /\ Len(topic) \in Nat /\ offsetLog \in Seq(1 .. Len(topic))
  BY QueryTypes DEF QueryInv, QueryTypeOK
<1>2. PlanBatch
  BY DEF QueryNext, Arrive, ReplayBatch, CommitBatch, CrashRestart, SinkStep, queryVars
<1>3. offsetLog' = Append(offsetLog, Len(topic)) /\ UNCHANGED topic
  BY <1>2 DEF PlanBatch
<1>4. offsetLog \in Seq(0 .. Len(topic)) /\ Len(topic) \in 0 .. Len(topic)
  BY <1>1, SeqMonotonic
<1>5. Len(offsetLog') = Len(offsetLog) + 1
  BY <1>3, <1>4, AppendProperties
<1>6. b - 1 = Len(offsetLog) /\ b - 1 \in 0 .. Len(offsetLog)
  BY <1>1, <1>5
<1>7. o \in Offsets /\ EndOf(b - 1)' < o
  BY NextBatchesInRange DEF BatchesInRange
<1>8. EndOf(b - 1)' = EndOf(b - 1) /\ EndOf(b - 1) = EndOf(Len(offsetLog))
  BY <1>6, LogsGrow
<1> QED
  BY <1>1, <1>3, <1>6, <1>7, <1>8

LEMMA QueryStepTypes ==
  ASSUME QueryInv, QueryNext \/ UNCHANGED queryVars
  PROVE  QueryTypeOK'
<1>1. /\ topic \in Seq(Kinds) /\ Len(topic) \in Nat /\ Len(topic) <= MaxRecords
      /\ offsetLog \in Seq(1 .. Len(topic))
      /\ commits \in Nat /\ crashes \in 0 .. MaxCrashes
      /\ MaxRecords \in Nat /\ MaxCrashes \in Nat
  BY QueryTypes, QueryAssumption DEF QueryInv, QueryTypeOK
<1>2. CASE Arrive
  <2>1. PICK k \in Kinds : topic' = Append(topic, k)
    BY <1>2 DEF Arrive
  <2>2. topic' \in Seq(Kinds) /\ Len(topic') = Len(topic) + 1
    BY <1>1, <2>1, AppendProperties
  <2>3. offsetLog \in Seq(1 .. Len(topic'))
    <3>1. 1 .. Len(topic) \subseteq 1 .. Len(topic')
      BY <1>1, <2>2
    <3> QED
      BY <1>1, <3>1, SeqMonotonic
  <2> QED
    BY <1>1, <1>2, <2>2, <2>3 DEF Arrive, QueryTypeOK
<1>3. CASE PlanBatch
  <2>1. Len(topic) \in 1 .. Len(topic)
    <3>1. commits \in 0 .. Len(offsetLog)
      BY <1>1, <1>3, QueryTypes DEF QueryInv, LogsOrdered
    <3>2. EndOf(commits) \in Nat
      BY <3>1, EndOfType
    <3> QED
      BY <1>1, <1>3, <3>2 DEF PlanBatch
  <2>2. offsetLog' \in Seq(1 .. Len(topic))
    BY <1>1, <1>3, <2>1, AppendProperties DEF PlanBatch
  <2> QED
    BY <1>1, <1>3, <2>2 DEF PlanBatch, QueryTypeOK
<1>4. CASE ReplayBatch \/ SinkStep \/ UNCHANGED queryVars
  BY <1>1, <1>4 DEF ReplayBatch, SinkStep, queryVars, QueryTypeOK
<1>5. CASE CommitBatch
  BY <1>1, <1>5 DEF CommitBatch, QueryTypeOK
<1>6. CASE CrashRestart
  BY <1>1, <1>6 DEF CrashRestart, QueryTypeOK
<1> QED
  BY <1>2, <1>3, <1>4, <1>5, <1>6 DEF QueryNext

\* The engine, a crash and a sink keep the logs of the checkpoint in order.
LEMMA QueryStepInv ==
  ASSUME QueryInv, QueryNext \/ UNCHANGED queryVars
  PROVE  QueryInv'
<1>1. /\ offsetLog \in Seq(1 .. Len(topic)) /\ Len(offsetLog) \in Nat /\ Len(topic) \in Nat
      /\ \A b \in 1 .. Len(offsetLog) : offsetLog[b] \in 1 .. Len(topic)
      /\ commits \in Nat /\ LogsOrdered
  BY QueryTypes DEF QueryInv, QueryTypeOK
<1>2. CASE PlanBatch
  <2>1. offsetLog' = Append(offsetLog, Len(topic))
    BY <1>2 DEF PlanBatch
  <2>2. offsetLog \in Seq(0 .. Len(topic)) /\ Len(topic) \in 0 .. Len(topic)
    BY <1>1, SeqMonotonic
  <2>3. /\ Len(offsetLog') = Len(offsetLog) + 1
        /\ \A b \in 1 .. Len(offsetLog) : offsetLog'[b] = offsetLog[b]
        /\ offsetLog'[Len(offsetLog) + 1] = Len(topic)
    BY <2>1, <2>2, AppendProperties
  <2>4. \A b \in 1 .. Len(offsetLog) : offsetLog[b] < Len(topic)
    <3>1. commits = Len(offsetLog) /\ EndOf(commits) < Len(topic)
      BY <1>2 DEF PlanBatch
    <3>2. ASSUME NEW b \in 1 .. Len(offsetLog) PROVE offsetLog[b] < Len(topic)
      <4>1. EndOf(Len(offsetLog)) = offsetLog[Len(offsetLog)]
        BY <1>1 DEF EndOf
      <4>2. b = Len(offsetLog) \/ offsetLog[b] < offsetLog[Len(offsetLog)]
        BY <1>1 DEF LogsOrdered
      <4>3. offsetLog[b] \in Nat /\ offsetLog[Len(offsetLog)] \in Nat
        BY <1>1
      <4> QED
        BY <1>1, <3>1, <4>1, <4>2, <4>3
    <3> QED
      BY <3>2
  <2>5. \A a, b \in 1 .. Len(offsetLog') : a < b => offsetLog'[a] < offsetLog'[b]
    <3> SUFFICES ASSUME NEW a \in 1 .. Len(offsetLog) + 1, NEW b \in 1 .. Len(offsetLog) + 1, a < b
                 PROVE  offsetLog'[a] < offsetLog'[b]
      BY <2>3
    <3>1. a \in 1 .. Len(offsetLog) /\ offsetLog'[a] = offsetLog[a]
      BY <1>1, <2>3
    <3>2. CASE b = Len(offsetLog) + 1
      BY <2>3, <2>4, <3>1, <3>2
    <3>3. CASE b \in 1 .. Len(offsetLog)
      BY <1>1, <2>3, <3>1, <3>3 DEF LogsOrdered
    <3> QED
      BY <1>1, <3>2, <3>3
  <2> QED
    BY <1>1, <1>2, <2>3, <2>5, QueryStepTypes DEF PlanBatch, QueryInv, LogsOrdered
<1>3. CASE Arrive \/ ReplayBatch \/ CommitBatch \/ CrashRestart \/ SinkStep \/ UNCHANGED queryVars
  <2>1. UNCHANGED offsetLog
    BY <1>3 DEF Arrive, ReplayBatch, CommitBatch, CrashRestart, SinkStep, queryVars
  <2>2. /\ commits' <= Len(offsetLog) /\ Len(offsetLog) <= commits' + 1
        /\ step' # "idle" => Len(offsetLog) = commits' + 1
    BY <1>1, <1>3
    DEF Arrive, ReplayBatch, CommitBatch, CrashRestart, SinkStep, queryVars, LogsOrdered
  <2> QED
    BY <1>1, <2>1, <2>2, QueryStepTypes DEF QueryInv, LogsOrdered
<1> QED
  BY <1>2, <1>3 DEF QueryNext
=============================================================================
