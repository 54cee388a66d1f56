------------------------ MODULE StateChangeSinkProofs ------------------------
(***************************************************************************)
(* Theorems about StateChangeSink, for every value of its constants.       *)
(***************************************************************************)
EXTENDS StateChangeSink, StreamingQueryProofs

USE QueryAssumption, SinkAssumption

-----------------------------------------------------------------------------
(* The inductive invariant.                                                *)

Pending == Len(offsetLog) = commits + 1
InQueue(o) == \E i \in DOMAIN queue : queue[i] = o

\* The Delta table: a batch that is written is there, and one that is about to
\* be written has been written at most once by each driver that crashed.
BatchesWritten ==
  /\ step \in {"producing", "flushed"} => Events # {}
  /\ step = "written" => \A o \in Events : delta[o] >= 1
  /\ Pending /\ step # "written" => \A o \in BatchOf(Batch) : delta[o] <= crashes

TableInv == BatchesWritten /\ CommittedIsDurable /\ CopiesBounded

\* Kafka, until the broker stalls: what was produced in this run of the batch is
\* in the topic or on its way there, and all of it after the flush.
OnlyEvents ==
  /\ \A i \in DOMAIN kafka : IsEvent(kafka[i])
  /\ \A i \in DOMAIN queue : IsEvent(queue[i])

ProducedHeld ==
  /\ step = "producing" => \A o \in Events : o <= sent => InTopic(o) \/ InQueue(o)
  /\ step = "flushed" => \A o \in Events : InTopic(o)

\* No message precedes the first copy of an earlier event: what KafkaInOrder
\* says, in a form that holds of the topic and the queue together.
EarlierFirst ==
  /\ \A i \in DOMAIN kafka, p \in Offsets :
       IsEvent(p) /\ p < kafka[i] => \E h \in 1 .. (i - 1) : kafka[h] = p
  /\ \A i \in DOMAIN queue, p \in Offsets :
       IsEvent(p) /\ p < queue[i] => InTopic(p) \/ \E h \in 1 .. (i - 1) : queue[h] = p

KafkaInv ==
  /\ OnlyEvents
  /\ ~stalled => ProducedHeld /\ EarlierFirst
  /\ KafkaBeforeDelta

Inv == QueryInv /\ TypeOK /\ TableInv /\ KafkaInv

-----------------------------------------------------------------------------
LEMMA StepIsQueryStep ==
  ASSUME [Next]_vars
  PROVE  QueryNext \/ UNCHANGED queryVars
<1>1. CASE Engine \/ Crash
  BY <1>1 DEF Engine, Crash, QueryNext
<1>2. CASE CollectNone \/ CollectSome \/ FlushDone \/ FlushTimeout \/ AppendDelta
  BY <1>2 DEF CollectNone, CollectSome, FlushDone, FlushTimeout, AppendDelta, QueryNext, SinkStep
<1>3. CASE (\E o \in Offsets : Produce(o)) \/ Deliver \/ GiveUp \/ UNCHANGED vars
  BY <1>3 DEF Produce, Deliver, GiveUp, queryVars, vars
<1> QED
  BY <1>1, <1>2, <1>3 DEF Next

LEMMA InitInv == Init => Inv
<1> SUFFICES ASSUME Init PROVE Inv
  OBVIOUS
<1>1. QueryInv
  BY QueryInitInv DEF Init
<1>2. TypeOK
  <2>1. stalled \in BOOLEAN
    BY DEF Init
  <2> QED
    BY <1>1, <2>1, EmptySeq DEF Init, QueryInit, QueryInv, TypeOK, Steps
<1>3. TableInv
  BY EmptySeq DEF Init, QueryInit, TableInv, BatchesWritten, CommittedIsDurable, CopiesBounded,
                  IsEvent, Pending, Offsets
<1>4. KafkaInv
  BY EmptySeq DEF Init, QueryInit, KafkaInv, OnlyEvents, ProducedHeld, EarlierFirst, KafkaBeforeDelta
<1> QED
  BY <1>1, <1>2, <1>3, <1>4 DEF Inv

LEMMA BoundType == MaxRecords \in Nat /\ 0 \in 0 .. MaxRecords /\ Offsets \subseteq 0 .. MaxRecords
BY DEF Offsets

\* Type correctness of the next state.
LEMMA StepTypes ==
  ASSUME Inv, [Next]_vars
  PROVE  TypeOK'
<1>1. TypeOK /\ QueryTypeOK'
  BY StepIsQueryStep, QueryStepTypes DEF Inv
<1> USE DEF TypeOK, Steps
<1>2. CASE Engine
  BY <1>1, <1>2 DEF Engine, Arrive, PlanBatch, ReplayBatch, CommitBatch, sinkVars
<1>3. CASE CollectNone \/ CollectSome \/ FlushDone \/ FlushTimeout
  BY <1>1, <1>3, BoundType DEF CollectNone, CollectSome, FlushDone, FlushTimeout, sinkVars
<1>4. ASSUME NEW o \in Offsets, Produce(o) PROVE TypeOK'
  BY <1>1, <1>4, BoundType, AppendProperties DEF Produce, queryVars
<1>5. CASE AppendDelta
  BY <1>1, <1>5 DEF AppendDelta, AppendCopies
<1>6. CASE Deliver \/ GiveUp
  <2>1. queue # <<>> /\ queue \in Seq(Offsets) /\ kafka \in Seq(Offsets)
    BY <1>1, <1>6 DEF Deliver, GiveUp
  <2>2. Head(queue) \in Offsets /\ Tail(queue) \in Seq(Offsets)
    BY <2>1, HeadTailProperties
  <2>3. Append(kafka, Head(queue)) \in Seq(Offsets)
    BY <2>1, <2>2, AppendProperties
  <2>4. stalled' \in BOOLEAN
    BY <1>1, <1>6 DEF Deliver, GiveUp
  <2> QED
    BY <1>1, <1>6, <2>2, <2>3, <2>4 DEF Deliver, GiveUp, queryVars
<1>7. CASE Crash
  BY <1>1, <1>7, BoundType, EmptySeq DEF Crash, CrashRestart
<1>8. CASE UNCHANGED vars
  BY <1>1, <1>8 DEF vars
<1> QED
  BY <1>2, <1>3, <1>4, <1>5, <1>6, <1>7, <1>8 DEF Next

-----------------------------------------------------------------------------
(* What a step leaves of a batch.                                          *)

\* A planned batch keeps its range and its events until it is committed.
LEMMA BatchKept ==
  ASSUME Inv, [Next]_vars, Pending, UNCHANGED commits
  PROVE  Pending' /\ Batch' = Batch /\ BatchOf(Batch)' = BatchOf(Batch) /\ Events' = Events
<1>1. /\ QueryInv /\ commits \in Nat /\ Len(offsetLog) \in Nat
      /\ Batch \in 1 .. Len(offsetLog)
  BY QueryTypes DEF Inv, QueryInv, Pending, Batch
<1>2. /\ Len(offsetLog) <= Len(offsetLog') /\ Len(offsetLog') \in Nat
      /\ \A o \in 1 .. Len(topic) : topic'[o] = topic[o]
      /\ \A b \in 1 .. Len(offsetLog) : BatchOf(b)' = BatchOf(b)
  BY <1>1, StepIsQueryStep, LogsGrow
<1>3. Len(offsetLog') <= commits' + 1
  BY StepIsQueryStep, QueryStepInv DEF Inv, QueryInv, LogsOrdered
<1>4. Batch' = Batch /\ BatchOf(Batch)' = BatchOf(Batch) /\ Pending'
  <2>1. PICK b \in 1 .. Len(offsetLog) : b = Batch
    BY <1>1
  <2>2. Batch' = b /\ BatchOf(b)' = BatchOf(b)
    BY <1>2, <2>1 DEF Batch
  <2>3. BatchOf(Batch)' = BatchOf(b)'
    BY <2>1, <2>2 DEF BatchOf, EndOf, Batch
  <2> QED
    BY <1>1, <1>2, <1>3, <2>1, <2>2, <2>3 DEF Pending
<1>5. \A o \in BatchOf(Batch) : topic'[o] = topic[o]
  BY <1>1, <1>2, BatchRange
<1> QED
  BY <1>4, <1>5 DEF Events, Rows

\* Which records are events, and which are committed, does not change.
LEMMA EventsKept ==
  ASSUME Inv, [Next]_vars, NEW o \in Offsets
  PROVE  /\ IsEvent(o) => IsEvent(o)'
         /\ IsEvent(o)' /\ o <= Len(topic) => IsEvent(o)
<1>1. /\ Len(topic) <= Len(topic') /\ Len(topic') \in Nat /\ Len(topic) \in Nat
      /\ \A p \in 1 .. Len(topic) : topic'[p] = topic[p]
  BY StepIsQueryStep, LogsGrow, QueryTypes DEF Inv, QueryInv
<1> QED
  BY <1>1 DEF IsEvent, Offsets

-----------------------------------------------------------------------------
(* The Delta table.                                                        *)

LEMMA StepBatches ==
  ASSUME Inv, [Next]_vars
  PROVE  BatchesWritten'
<1>1. /\ QueryInv /\ LogsOrdered /\ TypeOK /\ BatchesWritten /\ CopiesBounded
      /\ commits \in Nat /\ crashes \in Nat /\ Len(offsetLog) \in Nat
  BY QueryTypes DEF Inv, QueryInv, TableInv
<1>2. Pending => Events \subseteq BatchOf(Batch) /\ BatchOf(Batch) \subseteq Offsets
  BY <1>1, BatchRange DEF Pending, Events, Rows, Batch, Offsets
<1>3. CASE UNCHANGED <<offsetLog, commits, step, crashes, delta>>
  <2>1. CASE Pending
    <3>1. Pending' /\ Events' = Events /\ BatchOf(Batch)' = BatchOf(Batch)
      BY <1>3, <2>1, BatchKept
    <3> QED
      BY <1>1, <1>3, <2>1, <3>1 DEF BatchesWritten
  <2>2. CASE ~Pending
    <3>1. step' = "idle" /\ ~Pending'
      BY <1>1, <1>3, <2>2 DEF Pending, LogsOrdered
    <3> QED
      BY <3>1 DEF BatchesWritten
  <2> QED
    BY <2>1, <2>2
<1>4. CASE CollectNone \/ CollectSome \/ FlushDone \/ FlushTimeout \/ AppendDelta
  <2>1. step \in {"running", "producing", "flushed"} /\ UNCHANGED <<commits, crashes>>
    BY <1>4 DEF CollectNone, CollectSome, FlushDone, FlushTimeout, AppendDelta
  <2>2. Pending
    BY <1>1, <2>1 DEF LogsOrdered, Pending
  <2>3. Pending' /\ Events' = Events /\ BatchOf(Batch)' = BatchOf(Batch)
    BY <2>1, <2>2, BatchKept
  <2>4. CASE CollectNone \/ CollectSome \/ FlushDone \/ FlushTimeout
    BY <1>1, <2>2, <2>3, <2>4
    DEF BatchesWritten, CollectNone, CollectSome, FlushDone, FlushTimeout, sinkVars
  <2>5. CASE AppendDelta
    <3>1. step' = "written" /\ \A o \in Events : delta'[o] = delta[o] + 1 /\ delta[o] \in Nat
      BY <1>1, <1>2, <2>2, <2>5 DEF AppendDelta, AppendCopies, TypeOK
    <3>2. \A o \in Events : delta'[o] >= 1
      BY <3>1
    <3> QED
      BY <2>3, <3>1, <3>2 DEF BatchesWritten
  <2> QED
    BY <1>4, <2>4, <2>5
<1>5. CASE PlanBatch /\ UNCHANGED sinkVars
  <2>1. /\ step' = "running" /\ crashes' = crashes /\ delta' = delta
        /\ Len(offsetLog) = commits /\ commits' = commits
    BY <1>5 DEF PlanBatch, sinkVars
  <2>2. ASSUME Pending', NEW o \in BatchOf(Batch)' PROVE delta[o] <= crashes
    <3>1. QueryInv' /\ Len(topic) \in Nat
      BY <1>1, StepIsQueryStep, QueryStepInv, QueryTypes DEF QueryInv
    <3>2. PICK b \in 1 .. Len(offsetLog') : b = Batch'
      BY <1>1, <2>1, <2>2 DEF Pending, Batch
    <3>3. o \in BatchOf(b)' /\ b \notin 1 .. Len(offsetLog)
      BY <1>1, <2>1, <2>2, <3>2 DEF BatchOf, EndOf, Batch
    <3>4. o \in Offsets /\ EndOf(Len(offsetLog)) < o
      BY <1>1, <3>1, <3>3, StepIsQueryStep, NewBatch
    <3>5. EndOf(Len(offsetLog)) \in Nat
      BY <1>1, <3>1, EndOfType
    <3>6. delta[o] \in Nat /\ ~(delta[o] > 0)
      BY <1>1, <3>4, <3>5 DEF CopiesBounded, TypeOK, Offsets
    <3> QED
      BY <1>1, <3>6
  <2> QED
    BY <2>1, <2>2 DEF BatchesWritten
<1>6. CASE ReplayBatch /\ UNCHANGED sinkVars
  <2>1. /\ step' = "running" /\ step = "idle" /\ UNCHANGED <<crashes, delta, commits>>
        /\ Pending
    BY <1>1, <1>6 DEF ReplayBatch, sinkVars, Pending, LogsOrdered
  <2>2. BatchOf(Batch)' = BatchOf(Batch)
    BY <2>1, BatchKept
  <2> QED
    BY <1>1, <2>1, <2>2 DEF BatchesWritten
<1>7. CASE CommitBatch /\ UNCHANGED sinkVars
  <2>1. step' = "idle" /\ ~Pending'
    BY <1>1, <1>7 DEF CommitBatch, Pending, LogsOrdered
  <2> QED
    BY <2>1 DEF BatchesWritten
<1>8. CASE Crash
  <2>1. /\ step' = "idle" /\ crashes' = crashes + 1 /\ UNCHANGED <<delta, commits, offsetLog>>
        /\ Pending' = Pending
    BY <1>8 DEF Crash, CrashRestart, Pending
  <2>2. ASSUME Pending' PROVE \A o \in BatchOf(Batch)' : delta[o] <= crashes + 1
    <3>1. BatchOf(Batch)' = BatchOf(Batch)
      BY <2>1, <2>2, BatchKept
    <3> QED
      BY <1>1, <1>2, <2>1, <2>2, <3>1 DEF CopiesBounded
  <2> QED
    BY <2>1, <2>2 DEF BatchesWritten
<1>9. CASE \/ Arrive /\ UNCHANGED sinkVars
           \/ \E o \in Offsets : Produce(o)
           \/ Deliver \/ GiveUp \/ UNCHANGED vars
  BY <1>3, <1>9 DEF Arrive, Produce, Deliver, GiveUp, queryVars, sinkVars, vars
<1> QED
  BY <1>4, <1>5, <1>6, <1>7, <1>8, <1>9 DEF Next, Engine

LEMMA DeltaGrows ==
  ASSUME Inv, [Next]_vars, NEW o \in Offsets
  PROVE  delta[o] \in Nat /\ delta'[o] \in Nat /\ delta'[o] >= delta[o]
<1>1. TypeOK /\ TypeOK'
  BY StepTypes DEF Inv
<1>2. CASE AppendDelta
  BY <1>1, <1>2 DEF AppendDelta, AppendCopies, TypeOK
<1>3. CASE UNCHANGED delta
  BY <1>1, <1>3 DEF TypeOK
<1> QED
  BY <1>2, <1>3
  DEF Next, Engine, CollectNone, CollectSome, Produce, FlushDone, FlushTimeout, Deliver, GiveUp,
      Crash, sinkVars, vars

LEMMA StepDurable ==
  ASSUME Inv, [Next]_vars
  PROVE  CommittedIsDurable'
<1> SUFFICES ASSUME NEW o \in Offsets, IsEvent(o)', Committed(o)'
             PROVE  delta'[o] >= 1
  BY DEF CommittedIsDurable
<1>1. /\ QueryInv /\ LogsOrdered /\ BatchesWritten /\ CommittedIsDurable
      /\ commits \in Nat /\ Len(offsetLog) \in Nat /\ Len(topic) \in Nat /\ o \in Nat
  BY QueryTypes DEF Inv, QueryInv, TableInv, Offsets
<1>2. ASSUME NEW b \in 0 .. Len(offsetLog)
      PROVE  EndOf(b)' = EndOf(b) /\ EndOf(b) \in 0 .. Len(topic)
  BY <1>1, StepIsQueryStep, LogsGrow, EndOfType
<1>3. CASE UNCHANGED commits
  <2>1. commits \in 0 .. Len(offsetLog) /\ EndOf(commits)' = EndOf(commits)
    BY <1>1, <1>2, <1>3 DEF LogsOrdered, EndOf
  <2>2. o <= EndOf(commits) /\ o <= Len(topic)
    BY <1>1, <1>2, <2>1 DEF Committed
  <2>3. delta[o] >= 1
    BY <1>1, <2>2, EventsKept DEF CommittedIsDurable, Committed
  <2> QED
    BY <2>3, DeltaGrows
<1>4. CASE CommitBatch
  <2>1. /\ step = "written" /\ commits' = Batch /\ Batch \in 1 .. Len(offsetLog)
        /\ commits \in 0 .. Len(offsetLog) /\ UNCHANGED <<topic, offsetLog>>
    BY <1>1, <1>4 DEF CommitBatch, LogsOrdered, Batch
  <2>2. EndOf(commits)' = EndOf(Batch)
    BY <2>1 DEF EndOf
  <2>3. o <= EndOf(Batch) /\ EndOf(Batch) \in 0 .. Len(topic) /\ EndOf(commits) \in 0 .. Len(topic)
    BY <1>2, <2>1, <2>2 DEF Committed
  <2>4. IsEvent(o)
    BY <1>1, <2>3, EventsKept
  <2>5. CASE o <= EndOf(commits)
    BY <1>1, <2>4, <2>5, DeltaGrows DEF CommittedIsDurable, Committed
  <2>6. CASE ~(o <= EndOf(commits))
    <3>1. o \in Events
      BY <1>1, <2>3, <2>4, <2>6 DEF Events, Rows, BatchOf, Batch, IsEvent
    <3> QED
      BY <1>1, <2>1, <3>1, DeltaGrows DEF BatchesWritten
  <2> QED
    BY <2>5, <2>6
<1> QED
  BY <1>3, <1>4, StepIsQueryStep
  DEF QueryNext, Arrive, PlanBatch, ReplayBatch, CrashRestart, SinkStep, queryVars

LEMMA StepCopies ==
  ASSUME Inv, [Next]_vars
  PROVE  CopiesBounded'
<1> SUFFICES ASSUME NEW o \in Offsets
             PROVE  /\ delta'[o] <= crashes' + 1
                    /\ delta'[o] > 0 => IsEvent(o)' /\ o <= EndOf(Len(offsetLog))'
  BY DEF CopiesBounded
<1>1. /\ QueryInv /\ LogsOrdered /\ BatchesWritten /\ TypeOK /\ QueryInv'
      /\ delta[o] <= crashes + 1
      /\ delta[o] > 0 => IsEvent(o) /\ o <= EndOf(Len(offsetLog))
      /\ commits \in Nat /\ Len(offsetLog) \in Nat /\ o \in Nat /\ crashes \in Nat
      /\ delta[o] \in Nat
  BY QueryTypes, StepIsQueryStep, QueryStepInv DEF Inv, QueryInv, TableInv, CopiesBounded, TypeOK, Offsets
<1>2. /\ EndOf(Len(offsetLog)) \in Nat /\ EndOf(Len(offsetLog))' \in Nat
      /\ EndOf(Len(offsetLog)) <= EndOf(Len(offsetLog))'
  BY <1>1, StepIsQueryStep, PlannedGrows
<1>3. CASE AppendDelta /\ o \in Events
  <2>1. Pending /\ Batch \in 1 .. Len(offsetLog) /\ Batch = Len(offsetLog) /\ o \in BatchOf(Batch)
    BY <1>1, <1>3 DEF AppendDelta, LogsOrdered, Pending, Batch, Events, Rows
  <2>2. delta[o] <= crashes /\ delta'[o] = delta[o] + 1 /\ crashes' = crashes
    BY <1>1, <1>3, <2>1 DEF AppendDelta, AppendCopies, BatchesWritten
  <2>3. IsEvent(o) /\ o <= EndOf(Len(offsetLog))
    BY <1>1, <1>3, <2>1, BatchRange DEF IsEvent, Events, Rows
  <2> QED
    BY <1>1, <1>2, <2>2, <2>3, EventsKept
<1>4. CASE delta'[o] = delta[o]
  <2>1. crashes' \in Nat /\ crashes <= crashes'
    BY <1>1, StepIsQueryStep
    DEF QueryNext, Arrive, PlanBatch, ReplayBatch, CommitBatch, CrashRestart, SinkStep, queryVars
  <2> QED
    BY <1>1, <1>2, <1>4, <2>1, EventsKept
<1>5. CASE AppendDelta /\ o \notin Events
  BY <1>4, <1>5 DEF AppendDelta, AppendCopies
<1> QED
  BY <1>3, <1>4, <1>5
  DEF Next, Engine, CollectNone, CollectSome, Produce, FlushDone, FlushTimeout, Deliver, GiveUp,
      Crash, sinkVars, vars

-----------------------------------------------------------------------------
(* Kafka.                                                                  *)

LEMMA Domains ==
  ASSUME TypeOK
  PROVE  /\ DOMAIN kafka = 1 .. Len(kafka) /\ Len(kafka) \in Nat
         /\ DOMAIN queue = 1 .. Len(queue) /\ Len(queue) \in Nat
         /\ \A i \in 1 .. Len(kafka) : kafka[i] \in Offsets
         /\ \A i \in 1 .. Len(queue) : queue[i] \in Offsets
BY LenProperties DEF TypeOK

\* An offset enters the queue at its end.
LEMMA ProduceElements ==
  ASSUME TypeOK, NEW o \in Offsets, Produce(o)
  PROVE  /\ DOMAIN queue' = 1 .. (Len(queue) + 1) /\ kafka' = kafka
         /\ \A i \in 1 .. Len(queue) : queue'[i] = queue[i]
         /\ queue'[Len(queue) + 1] = o
<1>1. queue \in Seq(Offsets) /\ queue' = Append(queue, o) /\ kafka' = kafka
  BY DEF TypeOK, Produce
<1>2. queue' \in Seq(Offsets) /\ Len(queue') = Len(queue) + 1
  BY <1>1, AppendProperties
<1>3. DOMAIN queue' = 1 .. (Len(queue) + 1)
  BY <1>2, LenProperties
<1> QED
  BY <1>1, <1>3, AppendProperties

LEMMA TailElements ==
  ASSUME TypeOK, queue # <<>>, queue' = Tail(queue)
  PROVE  /\ 1 \in DOMAIN queue
         /\ DOMAIN queue' = 1 .. (Len(queue) - 1)
         /\ \A i \in 1 .. (Len(queue) - 1) : queue'[i] = queue[i + 1]
<1>1. queue \in Seq(Offsets) /\ Len(queue) \in Nat \ {0} /\ DOMAIN queue = 1 .. Len(queue)
  BY EmptySeq, LenProperties DEF TypeOK
<1>2. queue' \in Seq(Offsets) /\ Len(queue') = Len(queue) - 1
      /\ \A i \in 1 .. Len(queue') : queue'[i] = queue[i + 1]
  BY <1>1, HeadTailProperties
<1>3. DOMAIN queue' = 1 .. Len(queue')
  BY <1>2, LenProperties
<1> QED
  BY <1>1, <1>2, <1>3

LEMMA DeliverElements ==
  ASSUME TypeOK, Deliver
  PROVE  /\ DOMAIN kafka' = 1 .. (Len(kafka) + 1)
         /\ \A i \in 1 .. Len(kafka) : kafka'[i] = kafka[i]
         /\ kafka'[Len(kafka) + 1] = queue[1]
<1>1. queue \in Seq(Offsets) /\ kafka \in Seq(Offsets) /\ queue # <<>>
      /\ kafka' = Append(kafka, Head(queue))
  BY DEF TypeOK, Deliver
<1>2. Head(queue) = queue[1] /\ Head(queue) \in Offsets
  BY <1>1, HeadTailProperties
<1>3. kafka' \in Seq(Offsets) /\ Len(kafka') = Len(kafka) + 1
  BY <1>1, <1>2, AppendProperties
<1>4. DOMAIN kafka' = 1 .. (Len(kafka) + 1)
  BY <1>3, LenProperties
<1> QED
  BY <1>1, <1>2, <1>4, AppendProperties

\* The steps that touch neither.
LEMMA ElementsKept ==
  ASSUME [Next]_vars, ~(\E o \in Offsets : Produce(o)), ~Deliver, ~GiveUp, ~Crash
  PROVE  UNCHANGED <<kafka, queue>>
BY DEF Next, Engine, CollectNone, CollectSome, FlushDone, FlushTimeout, AppendDelta, sinkVars, vars

LEMMA InTopicStays ==
  ASSUME TypeOK, [Next]_vars, NEW p \in Offsets, InTopic(p)
  PROVE  InTopic(p)'
<1>1. CASE Deliver
  <2>1. PICK i \in 1 .. Len(kafka) : kafka[i] = p
    BY Domains DEF InTopic
  <2> QED
    BY <1>1, <2>1, Domains, DeliverElements DEF InTopic
<1>2. CASE UNCHANGED kafka
  BY <1>2 DEF InTopic
<1> QED
  BY <1>1, <1>2, ElementsKept DEF Produce, GiveUp, Crash

LEMMA StalledStays ==
  ASSUME TypeOK, [Next]_vars, ~stalled'
  PROVE  ~stalled /\ ~GiveUp /\ ~FlushTimeout
<1>1. ~GiveUp /\ ~FlushTimeout
  BY DEF GiveUp, FlushTimeout
<1> QED
  BY <1>1 DEF Next, Engine, CollectNone, CollectSome, Produce, FlushDone, AppendDelta, Deliver,
              Crash, sinkVars, vars

LEMMA EventIsEvent ==
  ASSUME QueryInv, step # "idle", NEW o \in Events
  PROVE  o \in Offsets /\ IsEvent(o) /\ o \in Nat
<1>1. Batch \in 1 .. Len(offsetLog) /\ o \in BatchOf(Batch) /\ topic[o] = "event"
  BY QueryTypes DEF QueryInv, LogsOrdered, Batch, Events, Rows
<1>2. o \in 1 .. Len(topic) /\ o \in 1 .. MaxRecords /\ Len(topic) \in Nat
  BY <1>1, BatchRange, QueryTypes DEF QueryInv
<1> QED
  BY <1>1, <1>2 DEF IsEvent, Offsets

LEMMA StepOnlyEvents ==
  ASSUME Inv, [Next]_vars
  PROVE  OnlyEvents'
<1>1. TypeOK /\ OnlyEvents /\ QueryInv
  BY DEF Inv, KafkaInv
<1>2. \A p \in Offsets : IsEvent(p) => IsEvent(p)'
  BY EventsKept
<1>3. /\ \A i \in 1 .. Len(queue) : queue[i] <= Len(topic') /\ topic'[queue[i]] = "event"
      /\ \A i \in 1 .. Len(kafka) : kafka[i] <= Len(topic') /\ topic'[kafka[i]] = "event"
  BY <1>1, <1>2, Domains DEF OnlyEvents, IsEvent
<1>4. ASSUME NEW o \in Offsets, Produce(o) PROVE OnlyEvents'
  <2>1. IsEvent(o)
    BY <1>1, <1>4, EventIsEvent DEF Produce, Unsent
  <2>2. o <= Len(topic') /\ topic'[o] = "event"
    BY <1>2, <2>1 DEF IsEvent
  <2>3. /\ DOMAIN queue' = 1 .. (Len(queue) + 1) /\ kafka' = kafka /\ Len(queue) \in Nat
        /\ \A i \in 1 .. Len(queue) : queue'[i] = queue[i]
        /\ queue'[Len(queue) + 1] = o
    BY <1>1, <1>4, Domains, ProduceElements
  <2>4. ASSUME NEW i \in DOMAIN queue' PROVE queue'[i] <= Len(topic') /\ topic'[queue'[i]] = "event"
    <3>1. i \in 1 .. Len(queue) \/ i = Len(queue) + 1
      BY <2>3
    <3> QED
      BY <1>3, <2>2, <2>3, <3>1
  <2> QED
    BY <1>1, <1>3, <2>3, <2>4, Domains DEF OnlyEvents, IsEvent
<1>5. CASE Deliver
  <2>1. /\ 1 \in 1 .. Len(queue) /\ Len(kafka) \in Nat /\ Len(queue) \in Nat
        /\ DOMAIN queue' = 1 .. (Len(queue) - 1)
        /\ \A i \in 1 .. (Len(queue) - 1) : queue'[i] = queue[i + 1]
        /\ DOMAIN kafka' = 1 .. (Len(kafka) + 1)
        /\ \A i \in 1 .. Len(kafka) : kafka'[i] = kafka[i]
        /\ kafka'[Len(kafka) + 1] = queue[1]
    BY <1>1, <1>5, Domains, TailElements, DeliverElements DEF Deliver
  <2>2. ASSUME NEW i \in DOMAIN kafka' PROVE kafka'[i] <= Len(topic') /\ topic'[kafka'[i]] = "event"
    <3>1. i \in 1 .. Len(kafka) \/ i = Len(kafka) + 1
      BY <2>1
    <3> QED
      BY <1>3, <2>1, <3>1
  <2>3. ASSUME NEW i \in DOMAIN queue' PROVE queue'[i] <= Len(topic') /\ topic'[queue'[i]] = "event"
    <3>1. i + 1 \in 1 .. Len(queue)
      BY <2>1
    <3> QED
      BY <1>3, <2>1, <3>1
  <2> QED
    BY <2>2, <2>3 DEF OnlyEvents, IsEvent
<1>6. CASE GiveUp
  <2>1. queue # <<>> /\ queue' = Tail(queue) /\ kafka' = kafka
    BY <1>6 DEF GiveUp
  <2> QED
    BY <1>1, <1>3, <2>1, Domains, TailElements DEF OnlyEvents, IsEvent
<1>7. CASE Crash
  BY <1>1, <1>3, <1>7, Domains DEF Crash, OnlyEvents, IsEvent
<1>8. CASE UNCHANGED <<kafka, queue>>
  BY <1>1, <1>3, <1>8, Domains DEF OnlyEvents, IsEvent
<1> QED
  BY <1>4, <1>5, <1>6, <1>7, <1>8, ElementsKept

LEMMA StepBeforeDelta ==
  ASSUME Inv, [Next]_vars
  PROVE  KafkaBeforeDelta'
<1> SUFFICES ASSUME ~stalled', NEW o \in Offsets, delta'[o] > 0
             PROVE  InTopic(o)'
  BY DEF KafkaBeforeDelta
<1>1. TypeOK /\ ~stalled /\ ProducedHeld /\ KafkaBeforeDelta
  BY StalledStays DEF Inv, KafkaInv
<1>2. CASE AppendDelta /\ o \in Events
  BY <1>1, <1>2, InTopicStays DEF AppendDelta, ProducedHeld
<1>3. CASE delta'[o] = delta[o]
  BY <1>1, <1>3, InTopicStays DEF KafkaBeforeDelta
<1>4. CASE AppendDelta /\ o \notin Events
  BY <1>3, <1>4 DEF AppendDelta, AppendCopies
<1> QED
  BY <1>2, <1>3, <1>4
  DEF Next, Engine, CollectNone, CollectSome, Produce, FlushDone, FlushTimeout, Deliver, GiveUp,
      Crash, sinkVars, vars

LEMMA StepHeld ==
  ASSUME Inv, [Next]_vars, ~stalled'
  PROVE  ProducedHeld'
<1>1. /\ TypeOK /\ QueryInv /\ LogsOrdered /\ ~stalled /\ ProducedHeld
      /\ ~GiveUp /\ ~FlushTimeout /\ Len(offsetLog) \in Nat /\ commits \in Nat
  BY StalledStays, QueryTypes DEF Inv, KafkaInv, QueryInv
<1>2. CASE step' \notin {"producing", "flushed"}
  BY <1>2 DEF ProducedHeld
<1>3. CASE step' \in {"producing", "flushed"}
  <2>1. Pending /\ step # "idle" /\ UNCHANGED commits /\ ~Crash
    BY <1>1, <1>3
    DEF Next, Engine, Arrive, PlanBatch, ReplayBatch, CommitBatch, CollectNone, CollectSome,
        Produce, FlushDone, AppendDelta, Deliver, Crash, CrashRestart, queryVars, vars,
        LogsOrdered, Pending
  <2>2. Events' = Events
    BY <2>1, BatchKept
  <2>3. \A o \in Events : o \in Offsets /\ o \in Nat /\ (InTopic(o) => InTopic(o)')
    BY <1>1, <2>1, EventIsEvent, InTopicStays
  <2>4. CASE CollectSome
    <3>1. step' = "producing" /\ sent' = 0 /\ \A o \in Events : ~(o <= 0)
      BY <2>3, <2>4 DEF CollectSome, Offsets
    <3> QED
      BY <2>2, <3>1 DEF ProducedHeld
  <2>5. ASSUME NEW q \in Offsets, Produce(q) PROVE ProducedHeld'
    <3>1. step = "producing" /\ step' = "producing" /\ sent' = q /\ sent \in Nat
      BY <1>1, <2>5 DEF Produce, queryVars, TypeOK
    <3>2. ASSUME NEW o \in Events, o <= q PROVE InTopic(o)' \/ InQueue(o)'
      <4>1. CASE o <= sent
        <5>1. CASE InTopic(o)
          BY <2>3, <5>1
        <5>2. CASE InQueue(o)
          BY <1>1, <2>5, <5>2, Domains, ProduceElements DEF InQueue
        <5> QED
          BY <1>1, <3>1, <4>1, <5>1, <5>2 DEF ProducedHeld
      <4>2. CASE ~(o <= sent)
        <5>1. o = q
          BY <2>3, <2>5, <3>1, <3>2, <4>2 DEF Produce, Unsent, Offsets
        <5> QED
          BY <1>1, <2>5, <5>1, Domains, ProduceElements DEF InQueue
      <4> QED
        BY <4>1, <4>2
    <3> QED
      BY <2>2, <3>1, <3>2 DEF ProducedHeld
  <2>6. CASE FlushDone
    <3>1. ASSUME NEW o \in Events PROVE InTopic(o)'
      <4>1. o <= sent /\ ~InQueue(o) /\ step = "producing"
        BY <1>1, <2>3, <2>6, EmptySeq DEF FlushDone, Unsent, InQueue, TypeOK
      <4> QED
        BY <1>1, <2>3, <4>1 DEF ProducedHeld
    <3> QED
      BY <2>2, <2>6, <3>1 DEF FlushDone, ProducedHeld
  <2>7. CASE Deliver
    <3>1. ASSUME NEW o \in Events, InQueue(o) PROVE InTopic(o)' \/ InQueue(o)'
      <4>1. PICK i \in 1 .. Len(queue) : queue[i] = o
        BY <1>1, <3>1, Domains DEF InQueue
      <4>2. CASE i = 1
        <5>1. Len(kafka) + 1 \in DOMAIN kafka' /\ kafka'[Len(kafka) + 1] = o
          BY <1>1, <2>7, <4>1, <4>2, Domains, DeliverElements
        <5> QED
          BY <5>1 DEF InTopic
      <4>3. CASE i # 1
        <5>1. i - 1 \in 1 .. (Len(queue) - 1) /\ (i - 1) + 1 = i
          BY <1>1, <4>1, <4>3, Domains
        <5>2. i - 1 \in DOMAIN queue' /\ queue'[i - 1] = o
          BY <1>1, <2>7, <4>1, <5>1, TailElements DEF Deliver
        <5> QED
          BY <5>2 DEF InQueue
      <4> QED
        BY <4>2, <4>3
    <3> QED
      BY <1>1, <2>2, <2>3, <2>7, <3>1 DEF ProducedHeld, Deliver, queryVars
  <2>8. CASE UNCHANGED <<step, sent, queue, kafka>>
    BY <1>1, <2>2, <2>8 DEF ProducedHeld, InTopic, InQueue
  <2> QED
    BY <1>1, <1>3, <2>1, <2>4, <2>5, <2>6, <2>7, <2>8
    DEF Next, Engine, Arrive, PlanBatch, ReplayBatch, CommitBatch, CollectNone, AppendDelta,
        sinkVars, vars
<1> QED
  BY <1>2, <1>3

\* Every event before the one that is produced has been produced before: those
\* of committed batches are in the Delta table, hence in Kafka.
LEMMA EarlierProduced ==
  ASSUME Inv, ~stalled, NEW o \in Offsets, Produce(o), NEW p \in Offsets, IsEvent(p), p < o
  PROVE  InTopic(p) \/ InQueue(p)
<1>1. /\ QueryInv /\ LogsOrdered /\ TypeOK /\ CommittedIsDurable /\ KafkaBeforeDelta /\ ProducedHeld
      /\ commits \in Nat /\ Len(offsetLog) \in Nat /\ o \in Nat /\ p \in Nat /\ Len(topic) \in Nat
  BY QueryTypes DEF Inv, QueryInv, TableInv, KafkaInv, Offsets
<1>2. /\ step = "producing" /\ o \in Events /\ o \in Unsent /\ \A q \in Unsent : o <= q
      /\ Batch \in 1 .. Len(offsetLog) /\ commits \in 0 .. Len(offsetLog)
  BY <1>1 DEF Produce, Unsent, LogsOrdered, Batch
<1>3. EndOf(commits) \in Nat /\ o \in BatchOf(Batch) /\ o <= EndOf(Batch) /\ EndOf(Batch) \in Nat
      /\ commits = Batch - 1 /\ BatchOf(Batch) = (EndOf(commits) + 1) .. EndOf(Batch)
  BY <1>1, <1>2, EndOfType, BatchRange DEF Events, Rows, Batch, BatchOf
<1>4. CASE p <= EndOf(commits)
  <2>1. delta[p] >= 1 /\ delta[p] \in Nat
    BY <1>1, <1>4 DEF CommittedIsDurable, Committed, TypeOK
  <2> QED
    BY <1>1, <2>1 DEF KafkaBeforeDelta
<1>5. CASE ~(p <= EndOf(commits))
  <2>1. p \in Events
    BY <1>1, <1>3, <1>5 DEF Events, Rows, IsEvent
  <2>2. p \notin Unsent
    BY <1>1, <1>2
  <2>3. p <= sent
    BY <1>1, <2>1, <2>2 DEF Unsent, TypeOK
  <2> QED
    BY <1>1, <1>2, <2>1, <2>3 DEF ProducedHeld
<1> QED
  BY <1>4, <1>5

LEMMA StepEarlier ==
  ASSUME Inv, [Next]_vars, ~stalled'
  PROVE  EarlierFirst'
<1>1. /\ TypeOK /\ QueryInv /\ OnlyEvents /\ ~stalled /\ EarlierFirst /\ ~GiveUp
      /\ Len(topic) \in Nat
  BY StalledStays, QueryTypes DEF Inv, KafkaInv, QueryInv
<1>2. /\ DOMAIN kafka = 1 .. Len(kafka) /\ Len(kafka) \in Nat
      /\ DOMAIN queue = 1 .. Len(queue) /\ Len(queue) \in Nat
      /\ \A i \in 1 .. Len(kafka) : kafka[i] \in Nat /\ kafka[i] <= Len(topic)
      /\ \A i \in 1 .. Len(queue) : queue[i] \in Nat /\ queue[i] <= Len(topic)
  <2>1. /\ \A i \in DOMAIN kafka : kafka[i] <= Len(topic)
        /\ \A i \in DOMAIN queue : queue[i] <= Len(topic)
    BY <1>1 DEF OnlyEvents, IsEvent
  <2>2. \A q \in Offsets : q \in Nat
    BY DEF Offsets
  <2> QED
    BY <1>1, <2>1, <2>2, Domains
\* An event that precedes one of the queue or the topic is not a new one.
<1>3. ASSUME NEW p \in Offsets, IsEvent(p)', NEW q \in Nat, p < q, q <= Len(topic)
      PROVE  IsEvent(p)
  <2>1. p <= Len(topic)
    BY <1>1, <1>3 DEF Offsets
  <2> QED
    BY <1>3, <2>1, EventsKept
<1>4. ASSUME NEW i \in 1 .. Len(kafka), NEW p \in Offsets, IsEvent(p)', p < kafka[i]
      PROVE  \E h \in 1 .. (i - 1) : kafka[h] = p
  BY <1>1, <1>2, <1>3, <1>4 DEF EarlierFirst
<1>5. ASSUME NEW i \in 1 .. Len(queue), NEW p \in Offsets, IsEvent(p)', p < queue[i]
      PROVE  InTopic(p) \/ \E h \in 1 .. (i - 1) : queue[h] = p
  BY <1>1, <1>2, <1>3, <1>5 DEF EarlierFirst
<1>6. CASE UNCHANGED <<kafka, queue>>
  BY <1>2, <1>4, <1>5, <1>6 DEF EarlierFirst, InTopic
<1>7. CASE Crash
  BY <1>2, <1>4, <1>7 DEF Crash, EarlierFirst
<1>8. ASSUME NEW o \in Offsets, Produce(o) PROVE EarlierFirst'
  <2>1. /\ DOMAIN queue' = 1 .. (Len(queue) + 1) /\ kafka' = kafka
        /\ \A i \in 1 .. Len(queue) : queue'[i] = queue[i]
        /\ queue'[Len(queue) + 1] = o
    BY <1>1, <1>8, ProduceElements
  <2>2. o \in Nat /\ o <= Len(topic)
    BY <1>1, <1>8, EventIsEvent DEF Produce, Unsent, IsEvent
  <2>3. ASSUME NEW i \in DOMAIN queue', NEW p \in Offsets, IsEvent(p)', p < queue'[i]
        PROVE  InTopic(p) \/ \E h \in 1 .. (i - 1) : queue'[h] = p
    <3>1. CASE i \in 1 .. Len(queue)
      <4>1. InTopic(p) \/ \E h \in 1 .. (i - 1) : queue[h] = p
        BY <1>5, <2>1, <2>3, <3>1
      <4> QED
        BY <1>2, <2>1, <3>1, <4>1
    <3>2. CASE i = Len(queue) + 1
      <4>1. p < o /\ IsEvent(p)
        BY <1>3, <2>1, <2>2, <2>3, <3>2
      <4>2. InTopic(p) \/ InQueue(p)
        BY <1>1, <1>8, <4>1, EarlierProduced
      <4>3. i - 1 = Len(queue)
        BY <1>2, <3>2
      <4> QED
        BY <1>2, <2>1, <4>2, <4>3 DEF InQueue
    <3> QED
      BY <1>2, <2>1, <3>1, <3>2
  <2> QED
    BY <1>2, <1>4, <2>1, <2>3 DEF EarlierFirst, InTopic
<1>9. CASE Deliver
  <2>1. /\ 1 \in 1 .. Len(queue)
        /\ DOMAIN queue' = 1 .. (Len(queue) - 1)
        /\ \A i \in 1 .. (Len(queue) - 1) : queue'[i] = queue[i + 1]
        /\ DOMAIN kafka' = 1 .. (Len(kafka) + 1)
        /\ \A i \in 1 .. Len(kafka) : kafka'[i] = kafka[i]
        /\ kafka'[Len(kafka) + 1] = queue[1]
    BY <1>1, <1>2, <1>9, TailElements, DeliverElements DEF Deliver
  <2>2. ASSUME NEW i \in DOMAIN kafka', NEW p \in Offsets, IsEvent(p)', p < kafka'[i]
        PROVE  \E h \in 1 .. (i - 1) : kafka'[h] = p
    <3>1. CASE i \in 1 .. Len(kafka)
      <4>1. \E h \in 1 .. (i - 1) : kafka[h] = p
        BY <1>4, <2>1, <2>2, <3>1
      <4> QED
        BY <1>2, <2>1, <3>1, <4>1
    <3>2. CASE i = Len(kafka) + 1
      <4>1. InTopic(p) \/ \E h \in 1 .. (1 - 1) : queue[h] = p
        BY <1>5, <2>1, <2>2, <3>2
      <4>2. InTopic(p) /\ i - 1 = Len(kafka)
        BY <1>2, <3>2, <4>1
      <4> QED
        BY <1>2, <2>1, <4>2 DEF InTopic
    <3> QED
      BY <1>2, <2>1, <3>1, <3>2
  <2>3. ASSUME NEW i \in DOMAIN queue', NEW p \in Offsets, IsEvent(p)', p < queue'[i]
        PROVE  InTopic(p)' \/ \E h \in 1 .. (i - 1) : queue'[h] = p
    <3>1. i + 1 \in 1 .. Len(queue) /\ p < queue[i + 1]
      BY <1>2, <2>1, <2>3
    <3>2. InTopic(p) \/ \E h \in 1 .. ((i + 1) - 1) : queue[h] = p
      BY <1>5, <2>3, <3>1
    <3>3. CASE InTopic(p)
      BY <1>1, <3>3, InTopicStays
    <3>4. ASSUME NEW h \in 1 .. ((i + 1) - 1), queue[h] = p
          PROVE  InTopic(p)' \/ \E g \in 1 .. (i - 1) : queue'[g] = p
      <4>1. CASE h = 1
        <5>1. Len(kafka) + 1 \in DOMAIN kafka' /\ kafka'[Len(kafka) + 1] = p
          BY <1>2, <2>1, <3>4, <4>1
        <5> QED
          BY <5>1 DEF InTopic
      <4>2. CASE h # 1
        <5>1. h - 1 \in 1 .. (i - 1) /\ (h - 1) + 1 = h /\ h - 1 \in 1 .. (Len(queue) - 1)
          BY <1>2, <2>1, <3>4, <4>2
        <5>2. queue'[h - 1] = p
          BY <2>1, <3>4, <5>1
        <5> QED
          BY <5>1, <5>2
      <4> QED
        BY <4>1, <4>2
    <3> QED
      BY <3>2, <3>3, <3>4
  <2> QED
    BY <2>2, <2>3 DEF EarlierFirst
<1> QED
  BY <1>1, <1>6, <1>7, <1>8, <1>9, ElementsKept

-----------------------------------------------------------------------------
LEMMA StepInv == Inv /\ [Next]_vars => Inv'
<1> SUFFICES ASSUME Inv, [Next]_vars PROVE Inv'
  OBVIOUS
<1>1. QueryInv'
  BY StepIsQueryStep, QueryStepInv DEF Inv
<1>2. TableInv'
  BY StepBatches, StepDurable, StepCopies DEF TableInv
<1>3. KafkaInv'
  BY StepOnlyEvents, StepHeld, StepEarlier, StepBeforeDelta DEF KafkaInv
<1> QED
  BY <1>1, <1>2, <1>3, StepTypes DEF Inv

LEMMA Invariance == Spec => []Inv
BY InitInv, StepInv, PTL DEF Spec

\* Type correctness of the sink, of its producer's queue and of the query that
\* calls it (vessel_state_job.py:248-289).
THEOREM TypeCorrect == Spec => []TypeOK
<1>1. Inv => TypeOK
  BY DEF Inv
<1> QED
  BY <1>1, Invariance, PTL

\* At least once: no crash loses an event of a committed batch
\* (vessel_state_job.py:266-273).
THEOREM EventsDurable == Spec => []CommittedIsDurable
<1>1. Inv => CommittedIsDurable
  BY DEF Inv, TableInv
<1> QED
  BY <1>1, Invariance, PTL

\* A crash costs at most one extra copy of an event (vessel_state_job.py:273-275).
THEOREM RepeatsBounded == Spec => []CopiesBounded
<1>1. Inv => CopiesBounded
  BY DEF Inv, TableInv
<1> QED
  BY <1>1, Invariance, PTL

\* The Delta table shows nothing that Kafka does not have, until a broker stalls
\* beyond flush's ten seconds (vessel_state_job.py:271).
THEOREM KafkaLeads == Spec => []KafkaBeforeDelta
<1>1. Inv => KafkaBeforeDelta
  BY DEF Inv, KafkaInv
<1> QED
  BY <1>1, Invariance, PTL

\* Consumers see the first copies of the events in order, until a broker stalls
\* (vessel_state_job.py:226-245, 268-271).
THEOREM KafkaOrdered == Spec => []KafkaInOrder
<1>1. Inv => KafkaInOrder
  <2> SUFFICES ASSUME Inv, ~stalled, NEW i \in DOMAIN kafka, NEW j \in DOMAIN kafka,
                      kafka[j] < kafka[i], i < j
               PROVE  \E h \in 1 .. (i - 1) : kafka[h] = kafka[j]
    BY DEF KafkaInOrder
  <2>1. kafka[j] \in Offsets /\ IsEvent(kafka[j]) /\ EarlierFirst
    BY Domains DEF Inv, KafkaInv, OnlyEvents
  <2> QED
    BY <2>1 DEF EarlierFirst
<1> QED
  BY <1>1, Invariance, PTL

-----------------------------------------------------------------------------
(* The table implements the append-only log.                               *)

Taken == EndOf(AppendedBatches)
Since == IF AppendedBatches = 0 THEN 0 ELSE EndOf(AppendedBatches - 1)

LEMMA InitRefines == Init => Table!Init
<1> SUFFICES ASSUME Init PROVE Table!Init
  OBVIOUS
<1>1. AppendedBatches = 0
  BY EmptySeq DEF Init, QueryInit, AppendedBatches
<1> QED
  BY <1>1 DEF Init, QueryInit, Table!Init, Table!Offsets, Offsets, EndOf

LEMMA AppendedType ==
  ASSUME Inv
  PROVE  /\ AppendedBatches \in 0 .. Len(offsetLog)
         /\ AppendedBatches = commits \/ (Pending /\ AppendedBatches = commits + 1)
BY QueryTypes DEF Inv, QueryInv, LogsOrdered, AppendedBatches, Pending

\* The marks of a batch stay where they are.
LEMMA MarksKept ==
  ASSUME Inv, [Next]_vars, AppendedBatches' = AppendedBatches
  PROVE  Taken' = Taken /\ Since' = Since
<1>1. PICK n \in 0 .. Len(offsetLog) : n = AppendedBatches
  BY AppendedType
<1>2. /\ Len(offsetLog) \in Nat
      /\ \A b \in 0 .. Len(offsetLog) : EndOf(b)' = EndOf(b)
  BY StepIsQueryStep, LogsGrow, QueryTypes DEF Inv, QueryInv
<1>3. EndOf(n)' = EndOf(n) /\ (n # 0 => EndOf(n - 1)' = EndOf(n - 1))
  BY <1>2
<1>4. Taken = EndOf(n) /\ Taken' = EndOf(n)' /\ AppendedBatches' = n
  BY <1>1 DEF Taken, EndOf
<1>5. /\ Since = IF n = 0 THEN 0 ELSE EndOf(n - 1)
      /\ Since' = IF n = 0 THEN 0 ELSE EndOf(n - 1)'
  BY <1>1, <1>4 DEF Since, EndOf
<1> QED
  BY <1>3, <1>4, <1>5

\* What is appended is a batch, when nothing is left out of it.
LEMMA AppendedCopies ==
  ASSUME Inv, Pending
  PROVE  AppendCopies(delta, Events) = Table!Appended(delta, EndOf(commits), EndOf(Batch), {})
<1>1. commits \in Nat /\ BatchOf(Batch) = (EndOf(commits) + 1) .. EndOf(Batch)
  BY QueryTypes DEF Inv, QueryInv, BatchOf, Batch
<1> QED
  BY <1>1 DEF AppendCopies, Table!Appended, Table!Among, Table!Offsets, Offsets, Events, Rows

\* The ends of the pending batch.
LEMMA PendingEnds ==
  ASSUME Inv, Pending
  PROVE  /\ EndOf(commits) \in Nat
         /\ EndOf(Batch) \in (EndOf(commits) + 1) .. Len(topic)
         /\ Batch \in 1 .. Len(offsetLog) /\ commits \in 0 .. Len(offsetLog)
         /\ Batch # 0 /\ Batch - 1 = commits
<1>1. QueryInv /\ commits \in Nat /\ Len(offsetLog) \in Nat /\ Len(topic) \in Nat
  BY QueryTypes DEF Inv, QueryInv
<1>2. /\ Batch \in 1 .. Len(offsetLog) /\ commits \in 0 .. Len(offsetLog) /\ Batch \in 0 .. Len(offsetLog)
      /\ commits < Batch /\ Batch # 0 /\ Batch - 1 = commits
  BY <1>1 DEF Pending, Batch
<1>3. EndOf(commits) \in 0 .. Len(topic) /\ EndOf(Batch) \in 0 .. Len(topic) /\ EndOf(commits) < EndOf(Batch)
  BY <1>1, <1>2, EndOfType, EndOfIncreases
<1> QED
  BY <1>1, <1>2, <1>3

LEMMA AppendRefines ==
  ASSUME Inv, [Next]_vars, AppendDelta
  PROVE  Table!Take \/ Table!Repeat
<1>1. /\ QueryInv /\ Pending /\ commits \in Nat /\ Len(offsetLog) \in Nat
      /\ UNCHANGED <<topic, offsetLog, commits>>
      /\ delta' = AppendCopies(delta, Events)
  BY QueryTypes DEF Inv, QueryInv, AppendDelta, LogsOrdered, Pending
<1>2. BatchOf(Batch)' = BatchOf(Batch) /\ Events' = Events /\ Pending'
  BY <1>1, BatchKept
<1>3. \E o \in BatchOf(Batch) : delta'[o] > 0
  <2>1. PICK o \in Events : TRUE
    BY DEF Inv, TableInv, BatchesWritten, AppendDelta
  <2>2. o \in BatchOf(Batch) /\ o \in Offsets /\ delta[o] \in Nat
    BY <2>1, EventIsEvent DEF Inv, AppendDelta, TypeOK, Events, Rows
  <2>3. delta'[o] = delta[o] + 1
    BY <1>1, <2>1, <2>2 DEF AppendCopies
  <2> QED
    BY <2>2, <2>3
<1>4. AppendedBatches' = commits + 1
  BY <1>1, <1>2, <1>3 DEF AppendedBatches, Pending
<1>5. /\ EndOf(commits) \in Nat
      /\ EndOf(Batch) \in (EndOf(commits) + 1) .. Len(topic)
      /\ Batch # 0 /\ Batch - 1 = commits
  BY <1>1, PendingEnds
<1>6. Taken' = EndOf(Batch) /\ Since' = EndOf(commits)
  <2>1. EndOf(Batch)' = EndOf(Batch) /\ EndOf(commits)' = EndOf(commits)
    BY <1>1 DEF EndOf, Batch
  <2> QED
    BY <1>1, <1>4, <2>1 DEF Taken, Since, EndOf, Batch
<1>7. delta' = Table!Appended(delta, EndOf(commits), EndOf(Batch), {})
  BY <1>1, AppendedCopies
<1>8. CASE AppendedBatches = commits
  <2>1. Taken = EndOf(commits)
    BY <1>8 DEF Taken
  <2>2. {} \in SUBSET Table!Among(EndOf(commits), EndOf(Batch), {})
    OBVIOUS
  <2> QED
    BY <1>1, <1>5, <1>6, <1>7, <2>1, <2>2 DEF Table!Take, Taken, Since
<1>9. CASE AppendedBatches = commits + 1
  <2>1. Taken = EndOf(Batch) /\ Since = EndOf(commits)
    BY <1>1, <1>5, <1>9 DEF Taken, Since, Batch
  <2> QED
    BY <1>1, <1>6, <1>7, <2>1 DEF Table!Repeat, Taken, Since
<1> QED
  BY <1>8, <1>9, AppendedType

LEMMA CommitRefines ==
  ASSUME Inv, [Next]_vars, CommitBatch, UNCHANGED sinkVars
  PROVE  Table!Take \/ UNCHANGED Table!vars
<1>1. /\ QueryInv /\ Pending /\ commits \in Nat /\ Len(offsetLog) \in Nat /\ step = "written"
      /\ UNCHANGED <<topic, offsetLog, delta>> /\ commits' = commits + 1
  BY QueryTypes DEF Inv, QueryInv, CommitBatch, LogsOrdered, Pending, sinkVars
<1>2. AppendedBatches' = commits + 1
  BY <1>1 DEF AppendedBatches, Pending
<1>3. CASE AppendedBatches = commits + 1
  BY <1>1, <1>2, <1>3, MarksKept DEF Table!vars, Taken, Since
<1>4. CASE AppendedBatches = commits
  <2>1. /\ EndOf(commits) \in Nat
        /\ EndOf(Batch) \in (EndOf(commits) + 1) .. Len(topic)
        /\ Batch # 0 /\ Batch - 1 = commits
    BY <1>1, PendingEnds
  <2>2. Taken = EndOf(commits) /\ Taken' = EndOf(Batch) /\ Since' = EndOf(commits)
    BY <1>1, <1>2, <1>4, <2>1 DEF Taken, Since, EndOf, Batch
  <2>3. Events = {}
    <3>1. \A o \in BatchOf(Batch) : ~(delta[o] > 0)
      BY <1>1, <1>4 DEF AppendedBatches, Pending
    <3>2. \A o \in Events : delta[o] >= 1 /\ delta[o] \in Nat /\ o \in BatchOf(Batch)
      BY <1>1, EventIsEvent DEF Inv, TableInv, BatchesWritten, TypeOK, Events, Rows
    <3> QED
      BY <3>1, <3>2
  <2>4. delta = AppendCopies(delta, Events)
    BY <2>3 DEF AppendCopies, Inv, TypeOK
  <2>5. delta' = Table!Appended(delta, EndOf(commits), EndOf(Batch), {})
    BY <1>1, <2>4, AppendedCopies
  <2>6. {} \in SUBSET Table!Among(EndOf(commits), EndOf(Batch), {})
    OBVIOUS
  <2>7. Table!Take
    BY <1>1, <2>1, <2>2, <2>5, <2>6 DEF Table!Take, Taken, Since
  <2> QED
    BY <2>7
<1> QED
  BY <1>3, <1>4, AppendedType

\* No other step moves the newest appended batch.
LEMMA AppendedKept ==
  ASSUME Inv, [Next]_vars, ~AppendDelta, UNCHANGED <<commits, delta>>
  PROVE  AppendedBatches' = AppendedBatches
<1>1. QueryInv /\ QueryInv' /\ commits \in Nat /\ Len(offsetLog) \in Nat /\ LogsOrdered
  BY QueryTypes, StepIsQueryStep, QueryStepInv DEF Inv, QueryInv
<1>2. CASE Pending
  <2>1. Pending' /\ BatchOf(Batch)' = BatchOf(Batch)
    BY <1>2, BatchKept
  <2> QED
    BY <1>1, <1>2, <2>1 DEF AppendedBatches, Pending
<1>3. CASE ~Pending
  <2>1. AppendedBatches = commits /\ Len(offsetLog) = commits
    BY <1>1, <1>3 DEF AppendedBatches, Pending, LogsOrdered
  <2>2. ASSUME Pending', NEW o \in BatchOf(Batch)' PROVE ~(delta'[o] > 0)
    <3>1. PICK b \in 1 .. Len(offsetLog') : b = Batch'
      BY <1>1, <2>1, <2>2 DEF Pending, Batch
    <3>2. o \in BatchOf(b)' /\ b \notin 1 .. Len(offsetLog)
      BY <1>1, <2>1, <2>2, <3>1 DEF BatchOf, EndOf, Batch
    <3>3. o \in Offsets /\ EndOf(Len(offsetLog)) < o
      BY <1>1, <3>1, <3>2, StepIsQueryStep, NewBatch
    <3>4. EndOf(Len(offsetLog)) \in Nat
      BY <1>1, StepIsQueryStep, PlannedGrows
    <3> QED
      BY <3>3, <3>4 DEF Inv, TableInv, CopiesBounded, Offsets
  <2>3. Len(offsetLog') <= commits' + 1 /\ commits' <= Len(offsetLog') /\ Len(offsetLog') \in Nat
    BY <1>1, StepIsQueryStep, LogsGrow DEF QueryInv, LogsOrdered
  <2>4. AppendedBatches' = commits
    <3>1. CASE Pending'
      BY <2>2, <3>1 DEF AppendedBatches
    <3>2. CASE ~Pending'
      BY <1>1, <2>3, <3>2 DEF AppendedBatches, Pending
    <3> QED
      BY <3>1, <3>2
  <2> QED
    BY <2>1, <2>4
<1> QED
  BY <1>2, <1>3

LEMMA StepRefines == Inv /\ [Next]_vars => [Table!Next]_(Table!vars)
<1> SUFFICES ASSUME Inv, [Next]_vars PROVE Table!Next \/ UNCHANGED Table!vars
  OBVIOUS
<1>1. CASE AppendDelta
  BY <1>1, AppendRefines DEF Table!Next
<1>2. CASE CommitBatch /\ UNCHANGED sinkVars
  BY <1>2, CommitRefines DEF Table!Next
<1>3. CASE Arrive /\ UNCHANGED sinkVars
  <2>1. UNCHANGED <<commits, delta, step>>
    BY <1>3 DEF Arrive, sinkVars
  <2>2. ~AppendDelta
    BY <2>1 DEF AppendDelta
  <2>3. Taken' = Taken /\ Since' = Since
    BY <2>1, <2>2, AppendedKept, MarksKept
  <2>4. Table!Arrive
    BY <1>3, <2>1, <2>3 DEF Arrive, Table!Arrive, Taken, Since
  <2> QED
    BY <2>4 DEF Table!Next
<1>4. CASE ~AppendDelta /\ UNCHANGED <<topic, commits, delta>>
  <2>1. Taken' = Taken /\ Since' = Since
    BY <1>4, AppendedKept, MarksKept
  <2> QED
    BY <1>4, <2>1 DEF Table!vars, Taken, Since
<1> QED
  BY <1>1, <1>2, <1>3, <1>4
  DEF Next, Engine, PlanBatch, ReplayBatch, CollectNone, CollectSome, Produce, FlushDone,
      FlushTimeout, Deliver, GiveUp, Crash, CrashRestart, queryVars, sinkVars, vars

\* The Delta table is an append-only log of the events, in which only the newest
\* batch can repeat (vessel_state_job.py:264-276).
THEOREM ImplementsTable == Spec => RefinesTable
BY InitRefines, StepRefines, Invariance, PTL DEF Spec, RefinesTable, Table!Spec
=============================================================================
