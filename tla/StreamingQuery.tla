--------------------------- MODULE StreamingQuery ---------------------------
(***************************************************************************)
(* The micro-batch loop that all streaming jobs run in (Spark Structured   *)
(* Streaming with a checkpoint directory; each job's main).  A batch is a  *)
(* range of topic offsets, written to the offset log before it runs and to *)
(* the commit log after its sink returns.  A crash loses the driver; the   *)
(* restarted job re-runs the planned, uncommitted batch over the same      *)
(* range, or plans the next one.  A sink module takes the batch from       *)
(* "running" to "written".                                                 *)
(***************************************************************************)
EXTENDS Naturals, Sequences

CONSTANTS
  Kinds,       \* what a record of the topic can be
  MaxRecords,  \* bound on the records that arrive
  MaxCrashes   \* bound on the crashes of the job

ASSUME QueryAssumption == MaxRecords \in Nat /\ MaxCrashes \in Nat

VARIABLES
  topic,       \* the Kafka topic: kinds by offset
  offsetLog,   \* end offset of every planned batch
  commits,     \* number of committed batches
  step,        \* what the driver is doing
  crashes      \* crashes so far

queryVars == <<topic, offsetLog, commits, step, crashes>>

Offsets == 1 .. MaxRecords
EndOf(b) == IF b = 0 THEN 0 ELSE offsetLog[b]
BatchOf(b) == (EndOf(b - 1) + 1) .. EndOf(b)

\* The batch the driver is running, and its records of some kinds.
Batch == commits + 1
Rows(kinds) == {o \in BatchOf(Batch) : topic[o] \in kinds}

QueryInit ==
  /\ topic = <<>> /\ offsetLog = <<>>
  /\ commits = 0 /\ step = "idle" /\ crashes = 0

Arrive ==
  /\ Len(topic) < MaxRecords
  /\ \E k \in Kinds : topic' = Append(topic, k)
  /\ UNCHANGED <<offsetLog, commits, step, crashes>>

PlanBatch ==
  /\ step = "idle"
  /\ Len(offsetLog) = commits
  /\ EndOf(commits) < Len(topic)
  /\ offsetLog' = Append(offsetLog, Len(topic))
  /\ step' = "running"
  /\ UNCHANGED <<topic, commits, crashes>>

\* Variant: a re-run takes in what has arrived since.
ReplayWider ==
  /\ step = "idle"
  /\ Len(offsetLog) > commits
  /\ offsetLog' = [offsetLog EXCEPT ![commits + 1] = Len(topic)]
  /\ step' = "running"
  /\ UNCHANGED <<topic, commits, crashes>>

ReplayBatch ==
  /\ step = "idle"
  /\ Len(offsetLog) > commits
  /\ step' = "running"
  /\ UNCHANGED <<topic, offsetLog, commits, crashes>>

\* Variant: the commit does not wait for the sink.
CommitEarly ==
  /\ step \in {"running", "written"}
  /\ commits' = commits + 1
  /\ step' = "idle"
  /\ UNCHANGED <<topic, offsetLog, crashes>>

CommitBatch ==
  /\ step = "written"
  /\ commits' = commits + 1
  /\ step' = "idle"
  /\ UNCHANGED <<topic, offsetLog, crashes>>

CrashRestart ==
  /\ crashes < MaxCrashes
  /\ crashes' = crashes + 1
  /\ step' = "idle"
  /\ UNCHANGED <<topic, offsetLog, commits>>

QueryTypeOK ==
  /\ topic \in Seq(Kinds) /\ Len(topic) <= MaxRecords
  /\ offsetLog \in Seq(1 .. Len(topic))
  /\ commits \in Nat
  /\ crashes \in 0 .. MaxCrashes
=============================================================================
