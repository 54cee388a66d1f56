-------------------------- MODULE StateChangeSink --------------------------
(***************************************************************************)
(* write_state_change_batch of processing/streaming/vessel_state_job.py,   *)
(* the foreachBatch sink of the vessel-state query: the events of a batch  *)
(* are produced to Kafka one by one, the producer is flushed for at most   *)
(* ten seconds, and the batch is appended to the Delta table               *)
(* vessel_state_changes.  The producer is a global of the driver: its      *)
(* queue is delivered in the background, outlives the batch and dies with  *)
(* the driver.  flush's result is not looked at and produce has no         *)
(* delivery callback.                                                      *)
(*                                                                         *)
(* A record of the topic is of kind "event" when the state machine emits   *)
(* an event for it and "quiet" when it does not: the state store is        *)
(* versioned by batch, so a re-run emits the same events.                  *)
(***************************************************************************)
EXTENDS StreamingQuery

ASSUME SinkAssumption == "event" \in Kinds

VARIABLES
  sent,    \* highest offset produced in this run of the batch
  queue,   \* the producer's undelivered messages
  kafka,   \* the output topic
  delta,   \* vessel_state_changes: copies of each event
  stalled  \* history: the broker once failed to take messages in time

sinkVars == <<sent, queue, kafka, delta, stalled>>
vars == <<topic, offsetLog, commits, step, crashes, sent, queue, kafka, delta, stalled>>

Steps == {"idle", "running", "producing", "flushed", "written"}
Events == Rows({"event"})

Init ==
  /\ QueryInit
  /\ sent = 0 /\ queue = <<>> /\ kafka = <<>>
  /\ delta = [o \in Offsets |-> 0]
  /\ stalled = FALSE

\* The engine's steps leave the sink alone.
Engine == (Arrive \/ PlanBatch \/ ReplayBatch \/ CommitBatch) /\ UNCHANGED sinkVars

\* rows = batch_df.collect(); nothing is written when there are none.
CollectNone ==
  /\ step = "running" /\ Events = {}
  /\ step' = "written"
  /\ UNCHANGED <<topic, offsetLog, commits, crashes, sinkVars>>

CollectSome ==
  /\ step = "running" /\ Events # {}
  /\ step' = "producing" /\ sent' = 0
  /\ UNCHANGED <<topic, offsetLog, commits, crashes, queue, kafka, delta, stalled>>

Unsent == {o \in Events : o > sent}

\* Variant: the next offset to produce is off by one.
ProduceSkipping(o) ==
  /\ step = "producing"
  /\ o \in Unsent /\ \A p \in Unsent : o <= p
  /\ queue' = Append(queue, o)
  /\ sent' = o + 1
  /\ UNCHANGED <<queryVars, kafka, delta, stalled>>

\* producer.produce(...): the message enters the local queue.
Produce(o) ==
  /\ step = "producing"
  /\ o \in Unsent /\ \A p \in Unsent : o <= p
  /\ queue' = Append(queue, o)
  /\ sent' = o
  /\ UNCHANGED <<queryVars, kafka, delta, stalled>>

\* Variants: no flush before the append; a flush without its timeout.
FlushAtOnce ==
  /\ step = "producing" /\ Unsent = {}
  /\ step' = "flushed"
  /\ UNCHANGED <<topic, offsetLog, commits, crashes, sinkVars>>
NoFlushTimeout == FALSE

\* producer.flush(10) returns with an empty queue, or after ten seconds.
FlushDone ==
  /\ step = "producing" /\ Unsent = {} /\ queue = <<>>
  /\ step' = "flushed"
  /\ UNCHANGED <<topic, offsetLog, commits, crashes, sinkVars>>

FlushTimeout ==
  /\ step = "producing" /\ Unsent = {} /\ queue # <<>>
  /\ step' = "flushed"
  /\ stalled' = TRUE
  /\ UNCHANGED <<topic, offsetLog, commits, crashes, sent, queue, kafka, delta>>

AppendCopies(table, offsets) ==
  [o \in Offsets |-> IF o \in offsets THEN table[o] + 1 ELSE table[o]]

\* Variant: an append retried although it went through.
AppendTwice ==
  /\ step = "flushed"
  /\ delta' = AppendCopies(AppendCopies(delta, Events), Events)
  /\ step' = "written"
  /\ UNCHANGED <<topic, offsetLog, commits, crashes, sent, queue, kafka, stalled>>

\* batch_df.write...mode("append"): one transaction, no transaction id.
AppendDelta ==
  /\ step = "flushed"
  /\ delta' = AppendCopies(delta, Events)
  /\ step' = "written"
  /\ UNCHANGED <<topic, offsetLog, commits, crashes, sent, queue, kafka, stalled>>

\* Variant: retries that overtake (no idempotent producer).
DeliverNewest ==
  /\ queue # <<>>
  /\ kafka' = Append(kafka, queue[Len(queue)])
  /\ queue' = SubSeq(queue, 1, Len(queue) - 1)
  /\ UNCHANGED <<queryVars, sent, delta, stalled>>

\* The producer's background thread: in order, once (idempotence, acks=all).
Deliver ==
  /\ queue # <<>>
  /\ kafka' = Append(kafka, Head(queue))
  /\ queue' = Tail(queue)
  /\ UNCHANGED <<queryVars, sent, delta, stalled>>

\* A message the broker does not take for long enough is given up.
GiveUp ==
  /\ queue # <<>>
  /\ queue' = Tail(queue)
  /\ stalled' = TRUE
  /\ UNCHANGED <<queryVars, sent, kafka, delta>>

Crash ==
  /\ CrashRestart
  /\ sent' = 0 /\ queue' = <<>>
  /\ UNCHANGED <<kafka, delta, stalled>>

Next ==
  \/ Engine
  \/ CollectNone \/ CollectSome
  \/ \E o \in Offsets : Produce(o)
  \/ FlushDone \/ FlushTimeout
  \/ AppendDelta
  \/ Deliver \/ GiveUp
  \/ Crash

Spec == Init /\ [][Next]_vars

\* The driver keeps running (and is restarted, MaxCrashes times); nothing is
\* assumed of the broker, whose deliveries may never come.
DriverFairness ==
  /\ WF_vars(PlanBatch /\ UNCHANGED sinkVars)
  /\ WF_vars(ReplayBatch /\ UNCHANGED sinkVars)
  /\ WF_vars(CommitBatch /\ UNCHANGED sinkVars)
  /\ WF_vars(CollectNone) /\ WF_vars(CollectSome)
  /\ WF_vars(\E o \in Offsets : Produce(o))
  /\ WF_vars(FlushDone \/ FlushTimeout)
  /\ WF_vars(AppendDelta)

LiveSpec == Spec /\ DriverFairness

-----------------------------------------------------------------------------
TypeOK ==
  /\ QueryTypeOK
  /\ step \in Steps
  /\ sent \in 0 .. MaxRecords
  /\ queue \in Seq(Offsets) /\ kafka \in Seq(Offsets)
  /\ delta \in [Offsets -> Nat]
  /\ stalled \in BOOLEAN

IsEvent(o) == o <= Len(topic) /\ topic[o] = "event"
Committed(o) == o <= EndOf(commits)
InTopic(o) == \E i \in DOMAIN kafka : kafka[i] = o

\* At least once: an event of a committed batch is in the Delta table.  The
\* commit comes after the append (vessel_state_job.py:266-273), so a crash
\* between them repeats the batch instead of losing it.
CommittedIsDurable ==
  \A o \in Offsets : IsEvent(o) /\ Committed(o) => delta[o] >= 1

\* A crash costs at most one extra copy, and an event of a batch that has not
\* been planned is not in the table.
CopiesBounded ==
  \A o \in Offsets :
    /\ delta[o] <= crashes + 1
    /\ delta[o] > 0 => IsEvent(o) /\ o <= EndOf(Len(offsetLog))

\* Every event reaches the Delta table: a broker that takes no message holds a
\* batch up for flush's ten seconds, not for ever (vessel_state_job.py:271).
EventsReachDelta == \A o \in Offsets : IsEvent(o) ~> delta[o] >= 1

\* The Delta table never shows an event that Kafka consumers do not have, and a
\* consumer that ignores repeats sees the events in their order in spite of
\* re-run batches: the flush is between the two sinks (vessel_state_job.py:271).
\* A stalled broker voids both.
KafkaBeforeDelta ==
  ~stalled => \A o \in Offsets : delta[o] > 0 => InTopic(o)

KafkaInOrder ==
  ~stalled => \A i, j \in DOMAIN kafka :
    kafka[j] < kafka[i] /\ i < j => \E h \in 1 .. (i - 1) : kafka[h] = kafka[j]

\* The Delta table as a TableLog: everything up to the newest appended batch
\* is taken.
AppendedBatches ==
  IF /\ Len(offsetLog) > commits
     /\ \E o \in BatchOf(Batch) : delta[o] > 0
  THEN commits + 1 ELSE commits

Table == INSTANCE TableLog WITH
  Kept <- {"event"}, Losable <- {}, Repeatable <- TRUE, rows <- delta,
  taken <- EndOf(AppendedBatches),
  since <- IF AppendedBatches = 0 THEN 0 ELSE EndOf(AppendedBatches - 1)

\* The table implements the append-only log whose newest range can repeat.
RefinesTable == Table!Spec
=============================================================================
