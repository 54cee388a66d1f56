--------------------------- MODULE ShipStaticSink ---------------------------
(***************************************************************************)
(* processing/streaming/ship_static_job.py: the only job that writes with  *)
(* writeStream.format("delta") instead of foreachBatch.  Spark's Delta     *)
(* sink records the batch number in the table's transaction log with the   *)
(* rows and skips a batch that is already recorded.                        *)
(*                                                                         *)
(* A record's kind is the version of the schema it was written with, 0 for *)
(* the plain JSON of before the migration.  schemas/register_schemas.py    *)
(* adds versions to the registry; the job fetches the latest one when it   *)
(* starts and decodes every record with it, the version in the record's    *)
(* header being cut off.  What it cannot read is filtered out.             *)
(***************************************************************************)
EXTENDS StreamingQuery

CONSTANTS
  MaxVersions,  \* bound on the versions of the schema
  Readable      \* <<written, loaded>>: which schema decodes which version

Versions == 1 .. MaxVersions

ASSUME SchemaAssumption ==
  /\ MaxVersions \in Nat \ {0}
  /\ Kinds = 0 .. MaxVersions
  /\ Readable \subseteq Versions \X Versions
  /\ \A v \in Versions : <<v, v>> \in Readable

VARIABLES
  registered, \* the latest version in the registry
  schema,     \* the version this driver fetched
  delta,      \* ship_static: copies of each record
  lastBatch   \* batch number in the table's transaction log

schemaVars == <<registered, schema>>
sinkVars == <<delta, lastBatch>>
vars == <<topic, offsetLog, commits, step, crashes, registered, schema, delta, lastBatch>>

FetchLatestSchema == registered

Init ==
  /\ QueryInit
  /\ registered = 1 /\ schema = FetchLatestSchema
  /\ delta = [o \in Offsets |-> 0]
  /\ lastBatch = 0

\* register_schemas.py, run again with a changed schema file.
Register ==
  /\ registered < MaxVersions
  /\ registered' = registered + 1
  /\ UNCHANGED <<queryVars, schema, sinkVars>>

\* A producer's schema is in the registry before its first record is in the
\* topic; producers of older versions may still be running.
ArriveWritten ==
  /\ Len(topic) < MaxRecords
  /\ \E v \in 0 .. registered : topic' = Append(topic, v)
  /\ UNCHANGED <<offsetLog, commits, step, crashes, schemaVars, sinkVars>>

Engine == (PlanBatch \/ ReplayBatch \/ CommitBatch) /\ UNCHANGED <<schemaVars, sinkVars>>

\* Variant: what did not decode is not filtered out.
DecodedOrNull == BatchOf(Batch)

\* The batch without the records whose MessageType is null after decoding.
Decoded == {o \in BatchOf(Batch) : <<topic[o], schema>> \in Readable}

AddRows == delta' = [o \in Offsets |-> IF o \in Decoded THEN delta[o] + 1 ELSE delta[o]]

\* Variants: the batch number is not recorded with the rows; it is recorded and
\* not looked at.
AddUnrecorded ==
  /\ step = "running"
  /\ Batch > lastBatch
  /\ AddRows
  /\ step' = "written"
  /\ UNCHANGED <<topic, offsetLog, commits, crashes, schemaVars, lastBatch>>
AddAgain ==
  /\ step = "running"
  /\ AddRows
  /\ lastBatch' = Batch
  /\ step' = "written"
  /\ UNCHANGED <<topic, offsetLog, commits, crashes, schemaVars>>

\* Rows and batch number enter the table in one transaction.
AddBatch ==
  /\ step = "running"
  /\ Batch > lastBatch
  /\ AddRows
  /\ lastBatch' = Batch
  /\ step' = "written"
  /\ UNCHANGED <<topic, offsetLog, commits, crashes, schemaVars>>

SkipBatch ==
  /\ step = "running"
  /\ Batch <= lastBatch
  /\ step' = "written"
  /\ UNCHANGED <<topic, offsetLog, commits, crashes, schemaVars, sinkVars>>

\* The restarted driver fetches the schema anew.
Crash ==
  /\ CrashRestart
  /\ schema' = FetchLatestSchema
  /\ UNCHANGED <<registered, sinkVars>>

Next == Register \/ ArriveWritten \/ Engine \/ AddBatch \/ SkipBatch \/ Crash
Spec == Init /\ [][Next]_vars

-----------------------------------------------------------------------------
\* The table's own log is the query's commit log, or one batch ahead of it.
LogsAgree ==
  /\ lastBatch \in {commits, commits + 1}
  /\ step = "written" => lastBatch = commits + 1
  /\ lastBatch <= Len(offsetLog)

\* Each batch is in the table as one version of the schema decodes it, and that
\* version had been registered: a crash between the table's transaction and the
\* commit, followed by a start with a newer schema, must not mix two decodings
\* of one batch (avro_kafka_reader.py:182, ship_static_job.py:21).
DecodedAsOne ==
  \A b \in 1 .. Len(offsetLog) : \E v \in 1 .. registered :
    \A o \in BatchOf(b) :
      delta[o] = IF b <= lastBatch /\ <<topic[o], v>> \in Readable THEN 1 ELSE 0

Table == INSTANCE TableLog WITH
  Kept <- Versions, Repeatable <- FALSE, rows <- delta,
  Losable <- {w \in Versions : \E v \in Versions : <<w, v>> \notin Readable},
  taken <- EndOf(lastBatch),
  since <- IF lastBatch = 0 THEN 0 ELSE EndOf(lastBatch - 1)

\* The table implements the append-only log that never repeats, and in which
\* only a record that some version of the schema cannot read may be missing.
RefinesTable == Table!Spec
=============================================================================
