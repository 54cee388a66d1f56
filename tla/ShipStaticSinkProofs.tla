------------------------ MODULE ShipStaticSinkProofs ------------------------
(***************************************************************************)
(* Theorems about ShipStaticSink, for every value of its constants: every  *)
(* number of versions, every relation of readability between them, every   *)
(* bound on records and crashes.                                           *)
(***************************************************************************)
EXTENDS ShipStaticSink, StreamingQueryProofs

USE QueryAssumption, SchemaAssumption

Steps == {"idle", "running", "written"}

\* What the properties below leave unsaid: the driver's schema was registered,
\* and a record of no planned batch is not in the table.
SinkTypeOK ==
  /\ step \in Steps
  /\ registered \in Versions
  /\ schema \in 1 .. registered
  /\ delta \in [Offsets -> Nat]
  /\ lastBatch \in Nat

NothingUnplanned == \A o \in Offsets : o > EndOf(Len(offsetLog)) => delta[o] = 0

Inv ==
  /\ QueryInv
  /\ SinkTypeOK
  /\ LogsAgree
  /\ NothingUnplanned
  /\ DecodedAsOne

-----------------------------------------------------------------------------
(* Every step is a step of the query.                                      *)

LEMMA StepIsQueryStep ==
  ASSUME Inv, [Next]_vars
  PROVE  QueryNext \/ UNCHANGED queryVars
<1>1. CASE ArriveWritten
  <2>1. 0 .. registered \subseteq Kinds
    BY DEF Inv, SinkTypeOK, Versions
  <2> QED
    BY <1>1, <2>1 DEF ArriveWritten, Arrive, QueryNext
<1>2. CASE AddBatch \/ SkipBatch
  BY <1>2 DEF AddBatch, SkipBatch, QueryNext, SinkStep
<1>3. CASE Register \/ UNCHANGED vars
  BY <1>3 DEF Register, queryVars, vars
<1>4. CASE Engine \/ Crash
  BY <1>4 DEF Engine, Crash, QueryNext
<1> QED
  BY <1>1, <1>2, <1>3, <1>4 DEF Next

LEMMA InitInv == Init => Inv
<1> SUFFICES ASSUME Init PROVE Inv
  OBVIOUS
<1>1. QueryInv
  BY QueryInitInv DEF Init
<1>2. SinkTypeOK
  BY DEF Init, QueryInit, SinkTypeOK, Steps, FetchLatestSchema, Versions
<1>3. /\ Len(offsetLog) = 0
      /\ LogsAgree /\ NothingUnplanned /\ DecodedAsOne
  BY EmptySeq DEF Init, QueryInit, LogsAgree, NothingUnplanned, DecodedAsOne
<1> QED
  BY <1>1, <1>2, <1>3 DEF Inv

LEMMA StepTypes ==
  ASSUME Inv, [Next]_vars
  PROVE  SinkTypeOK'
<1> USE DEF SinkTypeOK, Steps
<1>1. /\ SinkTypeOK /\ commits \in Nat
      /\ registered \in Nat /\ MaxVersions \in Nat
  BY QueryTypes DEF Inv, QueryInv, Versions
<1>2. CASE AddBatch
  <2>1. delta' \in [Offsets -> Nat]
    BY <1>1, <1>2 DEF AddBatch, AddRows
  <2> QED
    BY <1>1, <1>2, <2>1 DEF AddBatch, schemaVars, Batch
<1>3. CASE SkipBatch
  BY <1>1, <1>3 DEF SkipBatch, schemaVars, sinkVars
<1>4. CASE Register
  BY <1>1, <1>4 DEF Register, queryVars, sinkVars, Versions
<1>5. CASE Crash
  BY <1>1, <1>5 DEF Crash, CrashRestart, sinkVars, FetchLatestSchema, Versions
<1>6. CASE ArriveWritten \/ Engine \/ UNCHANGED vars
  BY <1>1, <1>6
  DEF ArriveWritten, Engine, PlanBatch, ReplayBatch, CommitBatch, schemaVars, sinkVars, vars
<1> QED
  BY <1>2, <1>3, <1>4, <1>5, <1>6 DEF Next

-----------------------------------------------------------------------------
(* The two logs, and what an append does.                                  *)

LEMMA StepLogs ==
  ASSUME Inv, [Next]_vars
  PROVE  LogsAgree'
<1>1. /\ LogsAgree /\ LogsOrdered
      /\ commits \in Nat /\ lastBatch \in Nat /\ Len(offsetLog) \in Nat
      /\ Len(offsetLog) <= Len(offsetLog') /\ Len(offsetLog') \in Nat
  BY QueryTypes, StepIsQueryStep, LogsGrow DEF Inv, QueryInv, SinkTypeOK
<1> USE DEF LogsAgree, LogsOrdered, Batch
<1>2. CASE AddBatch \/ SkipBatch
  BY <1>1, <1>2 DEF AddBatch, SkipBatch, schemaVars, sinkVars
<1>3. CASE Engine
  BY <1>1, <1>3 DEF Engine, PlanBatch, ReplayBatch, CommitBatch, sinkVars
<1>4. CASE Register \/ ArriveWritten \/ Crash \/ UNCHANGED vars
  BY <1>1, <1>4 DEF Register, ArriveWritten, Crash, CrashRestart, queryVars, sinkVars, vars
<1> QED
  BY <1>2, <1>3, <1>4 DEF Next

\* An append is of the newest batch, which the table does not have yet.
LEMMA AddIsNewest ==
  ASSUME Inv, AddBatch
  PROVE  /\ lastBatch = commits
         /\ Len(offsetLog) = Batch
         /\ Batch \in 1 .. Len(offsetLog)
         /\ \A o \in BatchOf(Batch) : delta[o] = 0
<1>1. /\ LogsAgree /\ LogsOrdered
      /\ commits \in Nat /\ lastBatch \in Nat /\ Len(offsetLog) \in Nat
  BY QueryTypes DEF Inv, QueryInv, SinkTypeOK
<1>2. lastBatch = commits /\ Len(offsetLog) = Batch /\ Batch \in 1 .. Len(offsetLog)
  BY <1>1 DEF AddBatch, LogsAgree, LogsOrdered, Batch
<1>3. ASSUME NEW o \in BatchOf(Batch) PROVE delta[o] = 0
  <2>1. PICK v \in 1 .. registered : \A p \in BatchOf(Batch) :
          delta[p] = IF Batch <= lastBatch /\ <<topic[p], v>> \in Readable THEN 1 ELSE 0
    BY <1>2 DEF Inv, DecodedAsOne
  <2>2. ~(Batch <= lastBatch)
    BY <1>1, <1>2 DEF Batch
  <2> QED
    BY <2>1, <2>2
<1> QED
  BY <1>2, <1>3

LEMMA StepUnplanned ==
  ASSUME Inv, [Next]_vars
  PROVE  NothingUnplanned'
<1> SUFFICES ASSUME NEW o \in Offsets, o > EndOf(Len(offsetLog))'
             PROVE  delta'[o] = 0
  BY DEF NothingUnplanned
<1>1. QueryInv /\ QueryInv' /\ o \in Nat
  BY StepIsQueryStep, QueryStepInv DEF Inv, Offsets
<1>2. /\ EndOf(Len(offsetLog)) \in Nat /\ EndOf(Len(offsetLog))' \in Nat
      /\ EndOf(Len(offsetLog)) <= EndOf(Len(offsetLog))'
  BY <1>1, StepIsQueryStep, PlannedGrows
<1>3. Len(offsetLog) \in Nat
  BY <1>1, QueryTypes DEF QueryInv
<1>4. o > EndOf(Len(offsetLog)) /\ delta[o] = 0
  BY <1>1, <1>2, <1>3 DEF Inv, NothingUnplanned
<1>5. CASE AddBatch
  <2>1. o \notin BatchOf(Batch)
    BY <1>1, <1>2, <1>4, <1>5, AddIsNewest DEF BatchOf
  <2> QED
    BY <1>4, <1>5, <2>1 DEF AddBatch, AddRows, Decoded
<1>6. CASE UNCHANGED delta
  BY <1>4, <1>6
<1> QED
  BY <1>5, <1>6
  DEF Next, Register, ArriveWritten, Engine, SkipBatch, Crash, schemaVars, sinkVars, vars

-----------------------------------------------------------------------------
(* One version of the schema for a batch.                                  *)

DecodedBy(b, v) ==
  \A o \in BatchOf(b) :
    delta[o] = IF b <= lastBatch /\ <<topic[o], v>> \in Readable THEN 1 ELSE 0

\* A step that leaves the table alone leaves the planned batches as they were.
LEMMA BatchKept ==
  ASSUME Inv, [Next]_vars, NEW b \in 1 .. Len(offsetLog), NEW v \in 1 .. registered,
         DecodedBy(b, v), ~(AddBatch /\ b = Batch)
  PROVE  DecodedBy(b, v)'
<1> SUFFICES ASSUME NEW o \in BatchOf(b)'
             PROVE  delta'[o] = IF b <= lastBatch' /\ <<topic'[o], v>> \in Readable THEN 1 ELSE 0
  BY DEF DecodedBy
<1>1. /\ QueryInv /\ BatchOf(b)' = BatchOf(b)
      /\ \A p \in 1 .. Len(topic) : topic'[p] = topic[p]
  BY StepIsQueryStep, LogsGrow DEF Inv
<1>2. /\ o \in BatchOf(b) /\ o \in 1 .. Len(topic) /\ o \in Offsets /\ topic'[o] = topic[o]
  BY <1>1, BatchRange DEF Offsets
<1>3. delta[o] = IF b <= lastBatch /\ <<topic[o], v>> \in Readable THEN 1 ELSE 0
  BY <1>2 DEF DecodedBy
<1>4. CASE AddBatch
  <2>1. lastBatch = commits /\ Len(offsetLog) = Batch /\ Batch \in 1 .. Len(offsetLog)
    BY <1>4, AddIsNewest
  <2>2. b # Batch /\ o \notin BatchOf(Batch)
    BY <1>1, <1>2, <1>4, <2>1, BatchesDisjoint
  <2>3. delta'[o] = delta[o] /\ lastBatch' = Batch
    BY <1>2, <1>4, <2>2 DEF AddBatch, AddRows, Decoded
  <2>4. b <= lastBatch /\ b <= lastBatch'
    BY <1>1, <2>1, <2>2, <2>3, QueryTypes DEF Batch, QueryInv
  <2> QED
    BY <1>2, <1>3, <2>3, <2>4
<1>5. CASE UNCHANGED <<delta, lastBatch>>
  BY <1>2, <1>3, <1>5
<1> QED
  BY <1>4, <1>5
  DEF Next, Register, ArriveWritten, Engine, SkipBatch, Crash, schemaVars, sinkVars, vars

LEMMA StepDecoded ==
  ASSUME Inv, [Next]_vars
  PROVE  DecodedAsOne'
<1>1. /\ QueryInv /\ SinkTypeOK /\ LogsAgree /\ NothingUnplanned /\ QueryInv' /\ SinkTypeOK'
      /\ commits \in Nat /\ lastBatch \in Nat /\ Len(offsetLog) \in Nat
      /\ registered \in Nat /\ registered' \in Nat /\ registered <= registered'
  <2>1. registered \in Nat /\ registered' \in Nat
    BY StepTypes DEF Inv, SinkTypeOK, Versions
  <2>2. registered <= registered'
    BY <2>1 DEF Next, Register, ArriveWritten, Engine, AddBatch, SkipBatch, Crash,
                schemaVars, vars
  <2> QED
    BY <2>1, <2>2, StepTypes, StepIsQueryStep, QueryStepInv, QueryTypes
    DEF Inv, QueryInv, SinkTypeOK
<1>2. ASSUME NEW b \in 1 .. Len(offsetLog') PROVE \E v \in 1 .. registered' : DecodedBy(b, v)'
  <2>1. CASE b \in 1 .. Len(offsetLog) /\ ~(AddBatch /\ b = Batch)
    <3>1. PICK v \in 1 .. registered : DecodedBy(b, v)
      BY <2>1 DEF Inv, DecodedAsOne, DecodedBy
    <3>2. DecodedBy(b, v)'
      BY <2>1, <3>1, BatchKept
    <3>3. v \in 1 .. registered'
      BY <1>1
    <3> QED
      BY <3>2, <3>3
  <2>2. CASE AddBatch /\ b = Batch
    <3>1. /\ Batch \in 1 .. Len(offsetLog) /\ \A o \in BatchOf(Batch) : delta[o] = 0
          /\ UNCHANGED <<topic, offsetLog, commits, registered>> /\ lastBatch' = Batch
      BY <2>2, AddIsNewest DEF AddBatch, schemaVars
    <3>2. BatchOf(b)' = BatchOf(Batch)
      BY <2>2, <3>1, StepIsQueryStep, LogsGrow, <1>1
    <3>3. ASSUME NEW o \in BatchOf(Batch)
          PROVE  delta'[o] = IF <<topic[o], schema>> \in Readable THEN 1 ELSE 0
      <4>1. o \in Offsets /\ delta[o] = 0
        BY <1>1, <3>1, BatchRange DEF Offsets
      <4> QED
        BY <2>2, <4>1 DEF AddBatch, AddRows, Decoded
    <3>4. schema \in 1 .. registered' /\ b <= lastBatch'
      BY <1>1, <2>2, <3>1 DEF SinkTypeOK
    <3>5. PICK v \in 1 .. registered' : v = schema
      BY <3>4
    <3>6. DecodedBy(b, v)'
      BY <3>1, <3>2, <3>3, <3>4, <3>5 DEF DecodedBy
    <3> QED
      BY <3>6
  <2>3. CASE b \notin 1 .. Len(offsetLog)
    <3>1. PlanBatch /\ UNCHANGED <<schemaVars, sinkVars>>
      BY <2>3 DEF Next, Register, ArriveWritten, Engine, AddBatch, SkipBatch, Crash,
                  CrashRestart, ReplayBatch, CommitBatch, queryVars, vars
    <3>2. b = Len(offsetLog) + 1 /\ UNCHANGED <<topic, delta, lastBatch, registered>>
      BY <1>1, <2>3, <3>1, AppendProperties DEF PlanBatch, QueryInv, QueryTypeOK, schemaVars, sinkVars
    <3>3. ASSUME NEW o \in BatchOf(b)' PROVE delta'[o] = 0
      <4>1. o \in Offsets /\ EndOf(Len(offsetLog)) < o
        BY <1>1, <2>3, StepIsQueryStep, NewBatch
      <4>2. EndOf(Len(offsetLog)) \in Nat /\ o > EndOf(Len(offsetLog))
        BY <1>1, <4>1, StepIsQueryStep, PlannedGrows DEF Offsets
      <4> QED
        BY <1>1, <3>2, <4>1, <4>2 DEF NothingUnplanned
    <3>4. ~(b <= lastBatch') /\ 1 \in 1 .. registered'
      BY <1>1, <3>2 DEF LogsAgree, SinkTypeOK, Versions
    <3>5. DecodedBy(b, 1)'
      BY <3>3, <3>4 DEF DecodedBy
    <3> QED
      BY <3>4, <3>5
  <2> QED
    BY <2>1, <2>2, <2>3
<1> QED
  BY <1>2 DEF DecodedAsOne, DecodedBy

-----------------------------------------------------------------------------
LEMMA StepInv == Inv /\ [Next]_vars => Inv'
<1> SUFFICES ASSUME Inv, [Next]_vars PROVE Inv'
  OBVIOUS
<1>1. QueryInv'
  BY StepIsQueryStep, QueryStepInv DEF Inv
<1> QED
  BY <1>1, StepTypes, StepLogs, StepUnplanned, StepDecoded DEF Inv

LEMMA Invariance == Spec => []Inv
BY InitInv, StepInv, PTL DEF Spec

\* The table's log is never further than a batch from the commit log, so a batch
\* that runs again after a crash is known by its number (ship_static_job.py:40-44).
THEOREM LogsDoAgree == Spec => []LogsAgree
<1>1. Inv => LogsAgree
  BY DEF Inv
<1> QED
  BY <1>1, Invariance, PTL

\* No batch is a mixture of two decodings, whenever the schema changes and
\* wherever the job crashes (avro_kafka_reader.py:182,
\* ship_static_job.py:21).
THEOREM BatchesDecodedAsOne == Spec => []DecodedAsOne
<1>1. Inv => DecodedAsOne
  BY DEF Inv
<1> QED
  BY <1>1, Invariance, PTL

-----------------------------------------------------------------------------
(* The table implements the append-only log.                               *)

LosableVersions == {w \in Versions : \E v \in Versions : <<w, v>> \notin Readable}
Taken == EndOf(lastBatch)
Since == IF lastBatch = 0 THEN 0 ELSE EndOf(lastBatch - 1)

LEMMA InitRefines == Init => Table!Init
BY DEF Init, QueryInit, Table!Init, Table!Offsets, Offsets, EndOf

\* What a step that leaves the table's log alone does not move.
LEMMA MarksKept ==
  ASSUME Inv, [Next]_vars, UNCHANGED lastBatch
  PROVE  Taken' = Taken /\ Since' = Since
<1>1. /\ QueryInv /\ lastBatch \in Nat /\ lastBatch <= Len(offsetLog) /\ Len(offsetLog) \in Nat
      /\ \A b \in 0 .. Len(offsetLog) : EndOf(b)' = EndOf(b)
  BY StepIsQueryStep, LogsGrow, QueryTypes DEF Inv, LogsAgree, SinkTypeOK, QueryInv
<1>2. EndOf(lastBatch)' = EndOf(lastBatch)
  BY <1>1 DEF EndOf
<1>3. lastBatch # 0 => EndOf(lastBatch - 1)' = EndOf(lastBatch - 1)
  BY <1>1 DEF EndOf
<1> QED
  BY <1>2, <1>3 DEF Taken, Since

LEMMA AddRefines ==
  ASSUME Inv, [Next]_vars, AddBatch
  PROVE  Table!Take
<1> DEFINE lo == EndOf(commits)
           hi == EndOf(Batch)
           lost == {o \in BatchOf(Batch) : topic[o] \in LosableVersions /\ <<topic[o], schema>> \notin Readable}
<1>1. /\ QueryInv /\ SinkTypeOK /\ commits \in Nat /\ Len(offsetLog) \in Nat
      /\ lastBatch = commits /\ Len(offsetLog) = Batch /\ Batch \in 1 .. Len(offsetLog)
      /\ UNCHANGED <<topic, offsetLog>> /\ lastBatch' = Batch
  BY QueryTypes, AddIsNewest DEF Inv, QueryInv, AddBatch
<1>2. BatchOf(Batch) = (lo + 1) .. hi
  BY <1>1 DEF BatchOf, Batch
<1>3. lo \in Nat /\ hi \in (lo + 1) .. Len(topic) /\ Len(topic) \in Nat
  BY <1>1, EndOfType, EndOfIncreases, QueryTypes DEF QueryInv, Batch
<1>4. Taken = lo /\ Taken' = hi /\ Since' = lo
  BY <1>1 DEF Taken, Since, EndOf, Batch
<1>5. lost \in SUBSET Table!Among(lo, hi, LosableVersions)
  BY <1>2 DEF Table!Among
<1>6. ASSUME NEW o \in Offsets
      PROVE  o \in Decoded <=> o \in Table!Among(lo, hi, Versions) \ lost
  <2>1. schema \in Versions
    BY <1>1 DEF SinkTypeOK, Versions
  <2> QED
    BY <1>2, <2>1 DEF Decoded, Table!Among, LosableVersions
<1>7. delta' = Table!Appended(delta, lo, hi, lost)
  BY <1>6 DEF AddBatch, AddRows, Table!Appended, Table!Offsets, Offsets
<1> QED
  BY <1>1, <1>3, <1>4, <1>5, <1>7 DEF Table!Take, Taken, Since, LosableVersions

LEMMA StepRefines == Inv /\ [Next]_vars => [Table!Next]_(Table!vars)
<1> SUFFICES ASSUME Inv, [Next]_vars PROVE Table!Next \/ UNCHANGED Table!vars
  OBVIOUS
<1>1. CASE AddBatch
  BY <1>1, AddRefines DEF Table!Next
<1>2. CASE ArriveWritten
  <2>1. 0 .. registered \subseteq Kinds
    BY DEF Inv, SinkTypeOK, Versions
  <2>2. Taken' = Taken /\ Since' = Since
    BY <1>2, MarksKept DEF ArriveWritten, sinkVars
  <2>3. Table!Arrive
    BY <1>2, <2>1, <2>2 DEF ArriveWritten, sinkVars, Table!Arrive, Taken, Since
  <2> QED
    BY <2>3 DEF Table!Next
<1>3. CASE UNCHANGED <<topic, delta, lastBatch>>
  BY <1>3, MarksKept DEF Table!vars, Taken, Since
<1> QED
  BY <1>1, <1>2, <1>3
  DEF Next, Register, Engine, PlanBatch, ReplayBatch, CommitBatch, SkipBatch, Crash, CrashRestart,
      queryVars, schemaVars, sinkVars, vars

\* The Delta table is an append-only log of the topic in which nothing repeats
\* and nothing is skipped but what some version of the schema cannot read
\* (ship_static_job.py:21-44).
THEOREM ImplementsTable == Spec => RefinesTable
BY InitRefines, StepRefines, Invariance, PTL DEF Spec, RefinesTable, Table!Spec
=============================================================================
