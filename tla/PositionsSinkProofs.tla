------------------------ MODULE PositionsSinkProofs ------------------------
(***************************************************************************)
(* Theorems about PositionsSink, for every value of its constants: any     *)
(* reports, any released zone files, every bound on records and crashes.   *)
(***************************************************************************)
EXTENDS PositionsSink, StreamingQueryProofs, FiniteSetTheorems

USE QueryAssumption

-----------------------------------------------------------------------------
(* The inductive invariant.                                                *)

Steps == {"idle", "running", "quarantined", "written"}
ZoneRow == [zone : {None} \cup UNION ZoneFilesAt, file : ZoneFilesAt]

SinkTypeOK ==
  /\ step \in Steps
  /\ zones \in ZoneFilesAt
  /\ quarantine \in [Offsets -> Nat]
  /\ silver \in [Offsets -> Seq(ZoneRow)]

\* A record of no planned batch is not in silver.
NothingUnplanned == \A o \in Offsets : o > EndOf(Len(offsetLog)) => silver[o] = <<>>

\* A row's zone is one that its file gives to the report's place.
RowsPicked ==
  \A o \in Offsets : \A i \in 1 .. Len(silver[o]) :
    silver[o][i].zone \in BestZones(silver[o][i].file, topic[o].place)

\* A batch whose rejects or rows are written has them where they belong ...
BatchLanded ==
  /\ step \in {"quarantined", "written"} => \A o \in Rejected : quarantine[o] >= 1
  /\ step = "written" =>
       \A o \in Valid : \E p \in BatchOf(Batch) :
         KeyOf(topic[p]) = KeyOf(topic[o]) /\ silver[p] # <<>>
\* ... its rejects are strictly ahead until silver follows ...
RejectsAhead ==
  step = "quarantined" =>
    \A o \in BatchOf(Batch), p \in Rejected : Len(silver[o]) < quarantine[p]
\* ... and before the write of silver no key was stored by this driver.
Pending == Len(offsetLog) = commits + 1
TwinsInHand ==
  Pending /\ step # "written" =>
    \A o, p \in BatchOf(Batch) :
      o # p /\ KeyOf(topic[o]) = KeyOf(topic[p]) => Len(silver[o]) + Len(silver[p]) <= crashes

Inv ==
  /\ QueryInv /\ SinkTypeOK
  /\ NothingUnplanned /\ RowsPicked
  /\ CommittedHasLanded /\ BatchLanded
  /\ QuarantineLeads /\ RejectsAhead
  /\ TwinsStoredOnce /\ TwinsInHand

-----------------------------------------------------------------------------
LEMMA StepIsQueryStep ==
  ASSUME [Next]_vars
  PROVE  QueryNext \/ UNCHANGED queryVars
<1>1. CASE Engine \/ Crash
  BY <1>1 DEF Engine, Crash, QueryNext
<1>2. CASE WriteQuarantine \/ WriteSilver
  BY <1>2 DEF WriteQuarantine, WriteSilver, QueryNext, SinkStep
<1>3. CASE UNCHANGED vars
  BY <1>3 DEF queryVars, vars
<1> QED
  BY <1>1, <1>2, <1>3 DEF Next

LEMMA InitInv == Init => Inv
<1> SUFFICES ASSUME Init PROVE Inv
  OBVIOUS
<1>1. QueryInv
  BY QueryInitInv DEF Init
<1>2. SinkTypeOK
  <2>1. [o \in Offsets |-> <<>>] \in [Offsets -> Seq(ZoneRow)]
    BY EmptySeq
  <2>2. step \in Steps
    BY DEF Init, QueryInit, Steps
  <2> QED
    BY <2>1, <2>2 DEF Init, SinkTypeOK
<1>3. /\ Len(offsetLog) = 0 /\ Len(topic) = 0 /\ commits = 0 /\ step = "idle"
      /\ \A o \in Offsets : silver[o] = <<>> /\ Len(silver[o]) = 0
  BY EmptySeq DEF Init, QueryInit
<1>4. NothingUnplanned /\ RowsPicked
  BY <1>3 DEF NothingUnplanned, RowsPicked
<1>5. CommittedHasLanded /\ QuarantineLeads /\ TwinsStoredOnce
  BY <1>3 DEF CommittedHasLanded, QuarantineLeads, TwinsStoredOnce, Arrived, SameBatch, Offsets
<1>6. BatchLanded /\ RejectsAhead /\ TwinsInHand
  BY <1>3 DEF BatchLanded, RejectsAhead, TwinsInHand, Pending
<1> QED
  BY <1>1, <1>2, <1>4, <1>5, <1>6 DEF Inv

-----------------------------------------------------------------------------
(* The two appends.                                                        *)

\* While the driver has a batch, it is the newest, of records that arrived.
LEMMA BatchInHand ==
  ASSUME Inv, step # "idle"
  PROVE  /\ Pending /\ Batch \in 1 .. Len(offsetLog) /\ Batch = Len(offsetLog)
         /\ \A o \in BatchOf(Batch) :
              o \in Offsets /\ o \in 1 .. Len(topic) /\ topic[o] \in Kinds
<1>1. /\ QueryInv /\ commits \in Nat /\ Len(offsetLog) \in Nat
      /\ topic \in [1 .. Len(topic) -> Kinds]
  BY QueryTypes DEF Inv, QueryInv
<1>2. Pending /\ Batch \in 1 .. Len(offsetLog) /\ Batch = Len(offsetLog)
  BY <1>1 DEF QueryInv, LogsOrdered, Pending, Batch
<1> QED
  BY <1>1, <1>2, BatchRange DEF Offsets

LEMMA RejectedAre ==
  ASSUME Inv, step # "idle", NEW o \in BatchOf(Batch)
  PROVE  /\ o \in Rejected <=> ~QualityOk(topic[o])
         /\ o \in Valid <=> QualityOk(topic[o])
BY BatchInHand DEF Rejected, Valid, Rows

\* The zones that a released file gives to a place are zones of it, or none.
LEMMA BestZonesAre ==
  ASSUME NEW file \in ZoneFilesAt, NEW place, NEW z \in BestZones(file, place)
  PROVE  z \in {None} \cup UNION ZoneFilesAt
BY DEF BestZones, Containing

\* The append to silver: a row more for the kept records and no others, and of
\* two records of one key at most one is kept, of every valid one's key some.
LEMMA SilverElements ==
  ASSUME Inv, WriteSilver
  PROVE  \E kept \in SUBSET Valid :
           /\ \A o \in Valid : \E p \in kept : KeyOf(topic[p]) = KeyOf(topic[o])
           /\ \A o, p \in kept : KeyOf(topic[o]) = KeyOf(topic[p]) => o = p
           /\ \A o \in Offsets \ kept : silver'[o] = silver[o]
           /\ \A o \in kept :
                /\ o \in Offsets
                /\ \E z \in BestZones(zones, topic[o].place) :
                     silver'[o] = Append(silver[o], [zone |-> z, file |-> zones])
<1>1. PICK kept \in OnePerKey(Valid) : \E zoneOf \in Enrichments(kept) :
        silver' = AppendRows(zoneOf)
  BY DEF WriteSilver
<1>2. PICK zoneOf \in Enrichments(kept) : silver' = AppendRows(zoneOf)
  BY <1>1
<1>3. /\ kept \in SUBSET Valid
      /\ \A o \in Valid : \E p \in kept : KeyOf(topic[p]) = KeyOf(topic[o])
      /\ \A o, p \in kept : KeyOf(topic[o]) = KeyOf(topic[p]) => o = p
  BY <1>1 DEF OnePerKey
<1>4. DOMAIN zoneOf = kept /\ \A o \in kept : zoneOf[o] \in BestZones(zones, topic[o].place)
  BY <1>2 DEF Enrichments
<1>5. step # "idle" /\ Valid \subseteq BatchOf(Batch)
  BY DEF WriteSilver, Valid, Rows
<1>6. \A o \in kept : o \in Offsets
  BY <1>3, <1>5, BatchInHand
<1>7. \A o \in Offsets \ kept : silver'[o] = silver[o]
  BY <1>2, <1>4 DEF AppendRows
<1>8. \A o \in kept : silver'[o] = Append(silver[o], [zone |-> zoneOf[o], file |-> zones])
  BY <1>2, <1>4, <1>6 DEF AppendRows
<1>9. ASSUME NEW o \in kept
      PROVE  \E z \in BestZones(zones, topic[o].place) :
               silver'[o] = Append(silver[o], [zone |-> z, file |-> zones])
  BY <1>4, <1>8
<1> QED
  BY <1>3, <1>6, <1>7, <1>9

\* Rows are never removed or changed, and rows that are added are a zone each.
LEMMA SilverStep ==
  ASSUME Inv, [Next]_vars, NEW o \in Offsets
  PROVE  /\ silver[o] \in Seq(ZoneRow) /\ Len(silver[o]) \in Nat
         /\ \/ silver'[o] = silver[o]
            \/ /\ WriteSilver /\ o \in Valid
               /\ Len(silver'[o]) = Len(silver[o]) + 1
               /\ silver'[o] \in Seq(ZoneRow)
               /\ \A i \in 1 .. Len(silver[o]) : silver'[o][i] = silver[o][i]
               /\ LET row == silver'[o][Len(silver[o]) + 1]
                  IN  row.zone \in BestZones(row.file, topic[o].place)
<1>1. /\ silver[o] \in Seq(ZoneRow) /\ Len(silver[o]) \in Nat
      /\ zones \in ZoneFilesAt
  BY LenProperties DEF Inv, SinkTypeOK
<1>2. CASE WriteSilver
  <2>1. PICK kept \in SUBSET Valid :
          /\ \A p \in Offsets \ kept : silver'[p] = silver[p]
          /\ \A p \in kept : \E z \in BestZones(zones, topic[p].place) :
               silver'[p] = Append(silver[p], [zone |-> z, file |-> zones])
    BY <1>2, SilverElements
  <2>2. CASE o \in kept
    <3>1. PICK z \in BestZones(zones, topic[o].place) :
            silver'[o] = Append(silver[o], [zone |-> z, file |-> zones])
      BY <2>1, <2>2
    <3>2. [zone |-> z, file |-> zones] \in ZoneRow
      BY <1>1, BestZonesAre DEF ZoneRow
    <3>3. /\ silver'[o] \in Seq(ZoneRow)
          /\ Len(silver'[o]) = Len(silver[o]) + 1
          /\ \A i \in 1 .. Len(silver[o]) : silver'[o][i] = silver[o][i]
          /\ silver'[o][Len(silver[o]) + 1] = [zone |-> z, file |-> zones]
      BY <1>1, <3>1, <3>2, AppendProperties
    <3> QED
      BY <1>1, <1>2, <2>2, <3>3
  <2> QED
    BY <1>1, <2>1, <2>2
<1>3. CASE UNCHANGED silver
  BY <1>1, <1>3
<1> QED
  BY <1>2, <1>3 DEF Next, Engine, WriteQuarantine, Crash, sinkVars, vars

LEMMA StepTypes ==
  ASSUME Inv, [Next]_vars
  PROVE  SinkTypeOK'
<1>1. SinkTypeOK
  BY DEF Inv
<1>2. step' \in Steps
  BY <1>1 DEF SinkTypeOK, Steps, Next, Engine, Arrive, PlanBatch, ReplayBatch, CommitBatch,
              WriteQuarantine, WriteSilver, Crash, CrashRestart, vars
<1>3. zones' \in ZoneFilesAt
  BY <1>1 DEF SinkTypeOK, Next, Engine, WriteQuarantine, WriteSilver, Crash, sinkVars, vars
<1>4. quarantine' \in [Offsets -> Nat]
  <2>1. CASE WriteQuarantine
    BY <1>1, <2>1 DEF SinkTypeOK, WriteQuarantine, AppendCopies
  <2>2. CASE UNCHANGED quarantine
    BY <1>1, <2>2 DEF SinkTypeOK
  <2> QED
    BY <2>1, <2>2 DEF Next, Engine, WriteSilver, Crash, sinkVars, vars
<1>5. silver' \in [Offsets -> Seq(ZoneRow)]
  <2>1. CASE WriteSilver
    <3>1. PICK f : silver' = [o \in Offsets |-> f[o]]
      BY <2>1 DEF WriteSilver, AppendRows
    <3>2. \A o \in Offsets : silver'[o] \in Seq(ZoneRow)
      BY SilverStep
    <3> QED
      BY <3>1, <3>2
  <2>2. CASE UNCHANGED silver
    BY <1>1, <2>2 DEF SinkTypeOK
  <2> QED
    BY <2>1, <2>2 DEF Next, Engine, WriteQuarantine, Crash, sinkVars, vars
<1> QED
  BY <1>2, <1>3, <1>4, <1>5 DEF SinkTypeOK

LEMMA QuarantineStep ==
  ASSUME Inv, [Next]_vars, NEW o \in Offsets
  PROVE  /\ quarantine[o] \in Nat /\ quarantine'[o] \in Nat /\ quarantine[o] <= quarantine'[o]
         /\ WriteQuarantine /\ o \in Rejected => quarantine'[o] = quarantine[o] + 1
<1>1. quarantine \in [Offsets -> Nat] /\ quarantine' \in [Offsets -> Nat]
  BY StepTypes DEF Inv, SinkTypeOK
<1>2. CASE WriteQuarantine
  BY <1>1, <1>2 DEF WriteQuarantine, AppendCopies
<1>3. CASE UNCHANGED quarantine /\ ~WriteQuarantine
  BY <1>1, <1>3
<1> QED
  BY <1>2, <1>3 DEF Next, Engine, WriteSilver, Crash, sinkVars, vars

-----------------------------------------------------------------------------
(* What a step leaves of a batch.                                          *)

\* The batch in hand keeps its records, the rejected and the valid ones, until
\* it is committed.
LEMMA BatchKept ==
  ASSUME Inv, [Next]_vars, Pending, UNCHANGED commits
  PROVE  /\ Pending' /\ BatchOf(Batch)' = BatchOf(Batch)
         /\ Rejected' = Rejected /\ Valid' = Valid
         /\ \A o \in BatchOf(Batch) : topic'[o] = topic[o]
<1>1. /\ QueryInv /\ commits \in Nat /\ Len(offsetLog) \in Nat
      /\ Batch \in 1 .. Len(offsetLog)
  BY QueryTypes DEF Inv, QueryInv, Pending, Batch
<1>2. /\ Len(offsetLog) <= Len(offsetLog') /\ Len(offsetLog') \in Nat
      /\ \A o \in 1 .. Len(topic) : topic'[o] = topic[o]
      /\ \A b \in 1 .. Len(offsetLog) : BatchOf(b)' = BatchOf(b)
  BY <1>1, StepIsQueryStep, LogsGrow
<1>3. Len(offsetLog') <= commits' + 1
  BY StepIsQueryStep, QueryStepInv DEF Inv, QueryInv, LogsOrdered
<1>4. Pending'
  BY <1>1, <1>2, <1>3 DEF Pending
<1>5. BatchOf(Batch)' = BatchOf(Batch)
  <2>1. PICK b \in 1 .. Len(offsetLog) : b = Batch
    BY <1>1
  <2>2. Batch' = b /\ BatchOf(b)' = BatchOf(b)
    BY <1>2, <2>1 DEF Batch
  <2>3. BatchOf(Batch)' = BatchOf(b)'
    BY <2>1, <2>2 DEF BatchOf, EndOf, Batch
  <2> QED
    BY <2>1, <2>2, <2>3
<1>6. \A o \in BatchOf(Batch) : topic'[o] = topic[o]
  BY <1>1, <1>2, BatchRange
<1>7. Rejected' = Rejected /\ Valid' = Valid
  BY <1>5, <1>6 DEF Rejected, Valid, Rows
<1> QED
  BY <1>4, <1>5, <1>6, <1>7

\* Records that share a batch after a step shared it before, or were just
\* planned, and are in no table.
LEMMA SameBatchBefore ==
  ASSUME Inv, [Next]_vars, NEW o \in Offsets, NEW p \in Offsets, SameBatch(o, p)'
  PROVE  /\ topic'[o] = topic[o] /\ topic'[p] = topic[p] /\ Arrived(o) /\ Arrived(p)
         /\ \/ SameBatch(o, p)
            \/ UNCHANGED silver /\ Len(silver[o]) = 0 /\ Len(silver[p]) = 0
<1>1. /\ QueryInv /\ QueryInv' /\ SinkTypeOK /\ NothingUnplanned
      /\ Len(topic) \in Nat /\ Len(offsetLog) \in Nat
  BY StepIsQueryStep, QueryStepInv, QueryTypes DEF Inv, QueryInv
<1>2. PICK b \in 1 .. Len(offsetLog') : o \in BatchOf(b)' /\ p \in BatchOf(b)'
  BY DEF SameBatch
<1>3. \A q \in 1 .. Len(topic) : topic'[q] = topic[q]
  BY <1>1, StepIsQueryStep, LogsGrow
<1>4. CASE b \in 1 .. Len(offsetLog)
  <2>1. o \in BatchOf(b) /\ p \in BatchOf(b)
    BY <1>1, <1>2, <1>4, StepIsQueryStep, LogsGrow
  <2>2. o \in 1 .. Len(topic) /\ p \in 1 .. Len(topic)
    BY <1>1, <1>4, <2>1, BatchRange
  <2> QED
    BY <1>1, <1>3, <1>4, <2>1, <2>2 DEF SameBatch, Arrived
<1>5. CASE b \notin 1 .. Len(offsetLog)
  <2>1. /\ UNCHANGED topic /\ EndOf(Len(offsetLog)) < o /\ EndOf(Len(offsetLog)) < p
    BY <1>1, <1>2, <1>5, StepIsQueryStep, NewBatch
  <2>2. EndOf(Len(offsetLog)) \in Nat /\ o \in Nat /\ p \in Nat
    BY <1>1, StepIsQueryStep, PlannedGrows DEF Offsets
  <2>3. silver[o] = <<>> /\ silver[p] = <<>>
    BY <1>1, <2>1, <2>2 DEF NothingUnplanned
  <2>4. PlanBatch /\ UNCHANGED sinkVars
    BY <1>2, <1>5
    DEF Next, Engine, Arrive, ReplayBatch, CommitBatch, WriteQuarantine, WriteSilver, Crash,
        CrashRestart, vars
  <2>5. o \in 1 .. Len(topic) /\ p \in 1 .. Len(topic)
    BY <1>1, <1>2, <2>1, NextBatchesInRange DEF BatchesInRange
  <2> QED
    BY <1>1, <2>1, <2>3, <2>4, <2>5, EmptySeq DEF Arrived, sinkVars
<1> QED
  BY <1>4, <1>5

\* Records in one batch stay in one batch.
LEMMA SameBatchAfter ==
  ASSUME Inv, [Next]_vars, NEW o, NEW p, SameBatch(o, p)
  PROVE  SameBatch(o, p)'
<1>1. QueryInv /\ Len(offsetLog) \in Nat
  BY QueryTypes DEF Inv, QueryInv
<1>2. /\ Len(offsetLog) <= Len(offsetLog') /\ Len(offsetLog') \in Nat
      /\ \A b \in 1 .. Len(offsetLog) : BatchOf(b)' = BatchOf(b)
  BY <1>1, StepIsQueryStep, LogsGrow
<1> QED
  BY <1>1, <1>2 DEF SameBatch

LEMMA SilverGrows ==
  ASSUME Inv, [Next]_vars, NEW o \in Offsets
  PROVE  /\ Len(silver[o]) \in Nat /\ Len(silver'[o]) \in Nat
         /\ Len(silver[o]) <= Len(silver'[o])
         /\ silver[o] # <<>> => silver'[o] # <<>>
<1>1. /\ silver[o] \in Seq(ZoneRow) /\ Len(silver[o]) \in Nat
      /\ silver'[o] = silver[o] \/ Len(silver'[o]) = Len(silver[o]) + 1
  BY SilverStep
<1>2. silver[o] # <<>> => Len(silver[o]) # 0
  BY <1>1, EmptySeq
<1> QED
  BY <1>1, <1>2, EmptySeq

LEMMA StepUnplanned ==
  ASSUME Inv, [Next]_vars
  PROVE  NothingUnplanned'
<1> SUFFICES ASSUME NEW o \in Offsets, o > EndOf(Len(offsetLog))'
             PROVE  silver'[o] = <<>>
  BY DEF NothingUnplanned
<1>1. QueryInv /\ QueryInv' /\ o \in Nat
  BY StepIsQueryStep, QueryStepInv DEF Inv, Offsets
<1>2. /\ EndOf(Len(offsetLog)) \in Nat /\ EndOf(Len(offsetLog))' \in Nat
      /\ EndOf(Len(offsetLog)) <= EndOf(Len(offsetLog))'
  BY <1>1, StepIsQueryStep, PlannedGrows
<1>3. o > EndOf(Len(offsetLog)) /\ silver[o] = <<>>
  BY <1>1, <1>2 DEF Inv, NothingUnplanned
<1>4. ~(WriteSilver /\ o \in Valid)
  <2> SUFFICES ASSUME WriteSilver, o \in Valid PROVE FALSE
    OBVIOUS
  <2>1. o \in BatchOf(Batch) /\ step # "idle"
    BY DEF WriteSilver, Valid, Rows
  <2>2. Batch = Len(offsetLog)
    BY <2>1, BatchInHand
  <2>3. o <= EndOf(Batch)
    BY <1>1, <2>1, BatchInHand, BatchRange
  <2> QED
    BY <1>1, <1>2, <1>3, <2>2, <2>3
<1> QED
  BY <1>3, <1>4, SilverStep

LEMMA StepPicked ==
  ASSUME Inv, [Next]_vars
  PROVE  RowsPicked'
<1> SUFFICES ASSUME NEW o \in Offsets, NEW i \in 1 .. Len(silver'[o])
             PROVE  silver'[o][i].zone \in BestZones(silver'[o][i].file, topic'[o].place)
  BY DEF RowsPicked
<1>1. /\ QueryInv /\ o \in Nat /\ Len(topic) \in Nat
      /\ silver[o] \in Seq(ZoneRow) /\ Len(silver[o]) \in Nat
  BY SilverStep, QueryTypes DEF Inv, QueryInv, Offsets
<1>2. CASE silver'[o] = silver[o]
  <2>1. silver[o] # <<>>
    BY <1>1, <1>2, EmptySeq
  <2>2. o <= EndOf(Len(offsetLog)) /\ EndOf(Len(offsetLog)) \in 0 .. Len(topic)
    <3>1. Len(offsetLog) \in 0 .. Len(offsetLog)
      BY <1>1, QueryTypes DEF QueryInv
    <3>2. EndOf(Len(offsetLog)) \in 0 .. Len(topic)
      BY <1>1, <3>1, EndOfType
    <3> QED
      BY <1>1, <2>1, <3>2 DEF Inv, NothingUnplanned
  <2>3. topic'[o] = topic[o]
    <3>1. o \in 1 .. Len(topic)
      BY <1>1, <2>2 DEF Offsets
    <3> QED
      BY <1>1, <3>1, StepIsQueryStep, LogsGrow
  <2> QED
    BY <1>2, <2>3 DEF Inv, RowsPicked
<1>3. CASE WriteSilver /\ o \in Valid
  <2>1. /\ topic' = topic
        /\ \/ silver'[o] = silver[o]
           \/ /\ Len(silver'[o]) = Len(silver[o]) + 1
              /\ \A j \in 1 .. Len(silver[o]) : silver'[o][j] = silver[o][j]
              /\ LET row == silver'[o][Len(silver[o]) + 1]
                 IN  row.zone \in BestZones(row.file, topic[o].place)
    BY <1>3, SilverStep DEF WriteSilver
  <2>2. \A j \in 1 .. Len(silver[o]) :
          silver[o][j].zone \in BestZones(silver[o][j].file, topic[o].place)
    BY DEF Inv, RowsPicked
  <2>3. CASE Len(silver'[o]) = Len(silver[o]) + 1 /\ i = Len(silver[o]) + 1
    BY <1>2, <2>1, <2>3
  <2>4. CASE Len(silver'[o]) = Len(silver[o]) + 1 /\ i \in 1 .. Len(silver[o])
    <3>1. silver'[o][i] = silver[o][i]
      BY <2>1, <2>4
    <3> QED
      BY <2>1, <2>2, <2>4, <3>1
  <2> QED
    BY <1>1, <1>2, <2>1, <2>3, <2>4
<1> QED
  BY <1>2, <1>3, SilverStep

-----------------------------------------------------------------------------
(* Nothing is lost.                                                        *)

LEMMA StepBatchLanded ==
  ASSUME Inv, [Next]_vars
  PROVE  BatchLanded'
<1>1. /\ QueryInv /\ SinkTypeOK /\ BatchLanded
      /\ commits \in Nat /\ Len(offsetLog) \in Nat
  BY QueryTypes DEF Inv, QueryInv
<1>2. CASE WriteQuarantine
  <2>1. Pending /\ commits' = commits /\ step' = "quarantined" /\ step = "running"
    BY <1>2, BatchInHand DEF WriteQuarantine
  <2>2. Rejected' = Rejected
    BY <2>1, BatchKept
  <2>3. ASSUME NEW o \in Rejected PROVE quarantine'[o] >= 1
    <3>1. o \in Offsets
      BY <2>1, BatchInHand DEF Rejected, Rows
    <3> QED
      BY <1>2, <3>1, QuarantineStep
  <2> QED
    BY <2>1, <2>2, <2>3 DEF BatchLanded
<1>3. CASE WriteSilver
  <2>1. /\ Pending /\ commits' = commits /\ step' = "written" /\ step = "quarantined"
        /\ quarantine' = quarantine
    BY <1>3, BatchInHand DEF WriteSilver
  <2>2. Rejected' = Rejected /\ Valid' = Valid /\ BatchOf(Batch)' = BatchOf(Batch)
        /\ \A o \in BatchOf(Batch) : topic'[o] = topic[o]
    BY <2>1, BatchKept
  <2>3. PICK kept \in SUBSET Valid :
          /\ \A o \in Valid : \E p \in kept : KeyOf(topic[p]) = KeyOf(topic[o])
          /\ \A p \in kept :
               /\ p \in Offsets
               /\ \E z \in BestZones(zones, topic[p].place) :
                    silver'[p] = Append(silver[p], [zone |-> z, file |-> zones])
    BY <1>3, SilverElements
  <2>4. Valid \subseteq BatchOf(Batch)
    BY DEF Valid, Rows
  <2>5. ASSUME NEW p \in kept PROVE silver'[p] # <<>>
    <3>1. /\ silver[p] \in Seq(ZoneRow) /\ zones \in ZoneFilesAt
      BY <1>1, <2>3 DEF SinkTypeOK
    <3>2. PICK z \in BestZones(zones, topic[p].place) :
            silver'[p] = Append(silver[p], [zone |-> z, file |-> zones])
      BY <2>3
    <3>3. [zone |-> z, file |-> zones] \in ZoneRow
      BY <3>1, BestZonesAre DEF ZoneRow
    <3> QED
      BY <3>1, <3>2, <3>3, AppendProperties
  <2>6. ASSUME NEW o \in Valid
        PROVE  \E p \in BatchOf(Batch) : KeyOf(topic'[p]) = KeyOf(topic'[o]) /\ silver'[p] # <<>>
    <3>1. PICK p \in kept : KeyOf(topic[p]) = KeyOf(topic[o])
      BY <2>3
    <3>2. p \in BatchOf(Batch) /\ o \in BatchOf(Batch) /\ topic'[p] = topic[p] /\ topic'[o] = topic[o]
      BY <2>2, <2>4
    <3> QED
      BY <2>5, <3>1, <3>2
  <2> QED
    BY <1>1, <2>1, <2>2, <2>6 DEF BatchLanded
<1>4. CASE UNCHANGED <<step, commits, offsetLog, quarantine, silver>>
  <2>1. CASE step = "idle"
    BY <1>4, <2>1 DEF BatchLanded
  <2>2. CASE step # "idle"
    <3>1. Pending
      BY <2>2, BatchInHand
    <3>2. /\ Rejected' = Rejected /\ Valid' = Valid /\ BatchOf(Batch)' = BatchOf(Batch)
          /\ \A o \in BatchOf(Batch) : topic'[o] = topic[o]
      BY <1>4, <3>1, BatchKept
    <3>3. Valid \subseteq BatchOf(Batch)
      BY DEF Valid, Rows
    <3> QED
      BY <1>1, <1>4, <3>2, <3>3 DEF BatchLanded
  <2> QED
    BY <2>1, <2>2
<1>5. CASE step' \in {"idle", "running"}
  BY <1>5 DEF BatchLanded
<1> QED
  BY <1>2, <1>3, <1>4, <1>5
  DEF Next, Engine, Arrive, PlanBatch, ReplayBatch, CommitBatch, Crash, CrashRestart, sinkVars, vars

\* A record of a committed batch that has landed stays landed.
Landed(o) ==
  IF QualityOk(topic[o])
  THEN \E p \in Offsets : SameBatch(o, p) /\ KeyOf(topic[p]) = KeyOf(topic[o]) /\ silver[p] # <<>>
  ELSE quarantine[o] >= 1

LEMMA LandedStays ==
  ASSUME Inv, [Next]_vars, NEW o \in Offsets, Arrived(o), Landed(o)
  PROVE  Landed(o)'
<1>1. /\ QueryInv /\ Len(topic) \in Nat
      /\ \A q \in 1 .. Len(topic) : topic'[q] = topic[q]
  BY StepIsQueryStep, LogsGrow, QueryTypes DEF Inv, QueryInv
<1>2. topic'[o] = topic[o]
  BY <1>1 DEF Arrived, Offsets
<1>3. CASE QualityOk(topic[o])
  <2>1. PICK p \in Offsets :
          SameBatch(o, p) /\ KeyOf(topic[p]) = KeyOf(topic[o]) /\ silver[p] # <<>>
    BY <1>3 DEF Landed
  <2>2. SameBatch(o, p)'
    BY <2>1, SameBatchAfter
  <2>3. topic'[p] = topic[p]
    BY <2>2, SameBatchBefore
  <2>4. silver'[p] # <<>>
    BY <2>1, SilverGrows
  <2> QED
    BY <1>2, <1>3, <2>1, <2>2, <2>3, <2>4 DEF Landed
<1>4. CASE ~QualityOk(topic[o])
  BY <1>2, <1>4, QuarantineStep DEF Landed
<1> QED
  BY <1>3, <1>4

LEMMA StepLanded ==
  ASSUME Inv, [Next]_vars
  PROVE  CommittedHasLanded'
<1> SUFFICES ASSUME NEW o \in Offsets, o <= EndOf(commits)'
             PROVE  Landed(o)'
  BY DEF CommittedHasLanded, Landed
<1>1. /\ QueryInv /\ LogsOrdered /\ SinkTypeOK /\ BatchLanded /\ CommittedHasLanded
      /\ commits \in Nat /\ Len(offsetLog) \in Nat /\ Len(topic) \in Nat /\ o \in Nat
  BY QueryTypes DEF Inv, QueryInv, Offsets
<1>2. \A b \in 0 .. Len(offsetLog) : EndOf(b)' = EndOf(b) /\ EndOf(b) \in 0 .. Len(topic)
  BY <1>1, StepIsQueryStep, LogsGrow, EndOfType
<1>3. CASE UNCHANGED commits
  <2>1. commits \in 0 .. Len(offsetLog) /\ EndOf(commits)' = EndOf(commits)
    BY <1>1, <1>2, <1>3 DEF LogsOrdered, EndOf
  <2>2. o <= EndOf(commits) /\ Arrived(o)
    BY <1>1, <1>2, <2>1 DEF Arrived
  <2>3. Landed(o)
    BY <1>1, <2>2 DEF CommittedHasLanded, Landed
  <2> QED
    BY <2>2, <2>3, LandedStays
<1>4. CASE CommitBatch
  <2>1. /\ step = "written" /\ commits' = Batch /\ Batch \in 1 .. Len(offsetLog)
        /\ commits \in 0 .. Len(offsetLog)
    BY <1>1, <1>4 DEF CommitBatch, LogsOrdered, Batch
  <2>2. EndOf(commits)' = EndOf(Batch)
    BY <1>4, <2>1 DEF EndOf, CommitBatch
  <2>3. o <= EndOf(Batch) /\ EndOf(Batch) \in 0 .. Len(topic) /\ EndOf(commits) \in 0 .. Len(topic)
    BY <1>2, <2>1, <2>2
  <2>4. Arrived(o)
    BY <1>1, <2>3 DEF Arrived
  <2>5. CASE o <= EndOf(commits)
    BY <1>1, <2>4, <2>5, LandedStays DEF CommittedHasLanded, Landed
  <2>6. CASE ~(o <= EndOf(commits))
    <3>1. o \in BatchOf(Batch)
      BY <1>1, <2>3, <2>6 DEF BatchOf, Batch
    <3>2. CASE QualityOk(topic[o])
      <4>1. o \in Valid
        BY <2>1, <3>1, <3>2, RejectedAre
      <4>2. PICK p \in BatchOf(Batch) : KeyOf(topic[p]) = KeyOf(topic[o]) /\ silver[p] # <<>>
        BY <1>1, <2>1, <4>1 DEF BatchLanded
      <4>3. p \in Offsets /\ SameBatch(o, p)
        BY <2>1, <3>1, BatchInHand DEF SameBatch
      <4> QED
        BY <2>4, <3>2, <4>2, <4>3, LandedStays DEF Landed
    <3>3. CASE ~QualityOk(topic[o])
      <4>1. o \in Rejected
        BY <2>1, <3>1, <3>3, RejectedAre
      <4> QED
        BY <1>1, <2>1, <2>4, <3>3, <4>1, LandedStays DEF Landed, BatchLanded
    <3> QED
      BY <3>2, <3>3
  <2> QED
    BY <2>5, <2>6
<1> QED
  BY <1>3, <1>4, StepIsQueryStep
  DEF QueryNext, Arrive, PlanBatch, ReplayBatch, CrashRestart, SinkStep, queryVars

-----------------------------------------------------------------------------
(* Quarantine ahead of silver.                                             *)

LEMMA StepAhead ==
  ASSUME Inv, [Next]_vars
  PROVE  RejectsAhead'
<1>1. SinkTypeOK /\ RejectsAhead /\ QuarantineLeads
  BY DEF Inv
<1>2. CASE WriteQuarantine
  <2>1. Pending /\ commits' = commits /\ step # "idle" /\ silver' = silver
    BY <1>2, BatchInHand DEF WriteQuarantine
  <2>2. Rejected' = Rejected /\ BatchOf(Batch)' = BatchOf(Batch)
    BY <2>1, BatchKept
  <2>3. ASSUME NEW o \in BatchOf(Batch), NEW p \in Rejected
        PROVE  Len(silver'[o]) < quarantine'[p]
    <3>1. p \in BatchOf(Batch)
      BY DEF Rejected, Rows
    <3>2. /\ o \in Offsets /\ p \in Offsets /\ Arrived(o) /\ Arrived(p) /\ SameBatch(o, p)
      <4>1. Len(topic) \in Nat
        BY QueryTypes DEF Inv, QueryInv
      <4> QED
        BY <2>1, <3>1, <4>1, BatchInHand DEF Arrived, SameBatch
    <3>3. ~QualityOk(topic[p])
      BY <2>1, <3>1, RejectedAre
    <3>4. Len(silver[o]) <= quarantine[p]
      BY <1>1, <3>2, <3>3 DEF QuarantineLeads
    <3>5. quarantine[p] \in Nat /\ quarantine'[p] = quarantine[p] + 1 /\ Len(silver[o]) \in Nat
      BY <1>2, <3>2, QuarantineStep, SilverGrows
    <3> QED
      BY <2>1, <3>4, <3>5
  <2> QED
    BY <2>2, <2>3 DEF RejectsAhead
<1>3. CASE step' # "quarantined"
  BY <1>3 DEF RejectsAhead
<1>4. CASE step = "quarantined" /\ UNCHANGED <<commits, quarantine, silver>>
  <2>1. Pending
    BY <1>4, BatchInHand
  <2>2. Rejected' = Rejected /\ BatchOf(Batch)' = BatchOf(Batch)
    BY <1>4, <2>1, BatchKept
  <2> QED
    BY <1>1, <1>4, <2>2 DEF RejectsAhead
<1> QED
  BY <1>2, <1>3, <1>4
  DEF Next, Engine, Arrive, PlanBatch, ReplayBatch, CommitBatch, WriteSilver, Crash, CrashRestart,
      sinkVars, vars

LEMMA StepLeads ==
  ASSUME Inv, [Next]_vars
  PROVE  QuarantineLeads'
<1> SUFFICES ASSUME NEW o \in Offsets, NEW p \in Offsets,
                    ~QualityOk(topic'[p]), SameBatch(o, p)'
             PROVE  Len(silver'[o]) <= quarantine'[p]
  BY DEF QuarantineLeads
<1>1. /\ topic'[p] = topic[p] /\ Arrived(o) /\ Arrived(p)
      /\ \/ SameBatch(o, p)
         \/ UNCHANGED silver /\ Len(silver[o]) = 0
  BY SameBatchBefore
<1>2. /\ quarantine[p] \in Nat /\ quarantine'[p] \in Nat /\ quarantine[p] <= quarantine'[p]
      /\ Len(silver[o]) \in Nat
  BY QuarantineStep, SilverGrows
<1>3. Len(silver[o]) <= quarantine[p]
  BY <1>1, <1>2 DEF Inv, QuarantineLeads
<1>4. CASE silver'[o] = silver[o]
  BY <1>2, <1>3, <1>4
<1>5. CASE WriteSilver /\ o \in Valid /\ Len(silver'[o]) = Len(silver[o]) + 1
  <2>1. step = "quarantined" /\ o \in BatchOf(Batch) /\ UNCHANGED <<offsetLog, commits>>
    BY <1>5 DEF WriteSilver, Valid, Rows
  <2>2. PICK b \in 1 .. Len(offsetLog) : o \in BatchOf(b) /\ p \in BatchOf(b)
    BY <2>1 DEF SameBatch, BatchOf, EndOf
  <2>3. b = Batch
    BY <2>1, <2>2, BatchInHand, BatchesDisjoint DEF Inv
  <2>4. p \in Rejected
    BY <1>1, <2>1, <2>2, <2>3, RejectedAre
  <2>5. Len(silver[o]) < quarantine[p]
    BY <2>1, <2>4 DEF Inv, RejectsAhead
  <2> QED
    BY <1>2, <1>5, <2>5
<1> QED
  BY <1>4, <1>5, SilverStep

-----------------------------------------------------------------------------
(* One row for each key.                                                   *)

TwinsOf(o, p) == o # p /\ KeyOf(topic[o]) = KeyOf(topic[p])

\* Of two twins one write stores one.
LEMMA OneTwinWritten ==
  ASSUME Inv, WriteSilver, NEW o \in Offsets, NEW p \in Offsets, TwinsOf(o, p)
  PROVE  silver'[o] = silver[o] \/ silver'[p] = silver[p]
<1>1. PICK kept \in SUBSET Valid :
        /\ \A q, r \in kept : KeyOf(topic[q]) = KeyOf(topic[r]) => q = r
        /\ \A q \in Offsets \ kept : silver'[q] = silver[q]
  BY SilverElements
<1>2. o \notin kept \/ p \notin kept
  BY <1>1 DEF TwinsOf
<1> QED
  BY <1>1, <1>2

\* Arithmetic.
LEMMA BoundGrows ==
  \A m, n, c, d \in Nat : m + n <= c + 1 /\ c <= d => m + n <= d + 1
OBVIOUS

LEMMA OneMore ==
  \A m, n, k, l, c \in Nat :
    /\ m + n <= c
    /\ k = m \/ k = m + 1
    /\ l = n \/ l = n + 1
    /\ k = m \/ l = n
    => k + l <= c + 1
OBVIOUS

LEMMA StepTwins ==
  ASSUME Inv, [Next]_vars
  PROVE  TwinsStoredOnce'
<1> SUFFICES ASSUME NEW o \in Offsets, NEW p \in Offsets, SameBatch(o, p)', TwinsOf(o, p)'
             PROVE  Len(silver'[o]) + Len(silver'[p]) <= crashes' + 1
  BY DEF TwinsStoredOnce, TwinsOf
<1>1. /\ TwinsOf(o, p) /\ Arrived(o) /\ Arrived(p)
      /\ \/ SameBatch(o, p)
         \/ UNCHANGED silver /\ Len(silver[o]) = 0 /\ Len(silver[p]) = 0
  BY SameBatchBefore DEF TwinsOf
<1>2. /\ crashes \in Nat /\ crashes' \in Nat /\ crashes <= crashes'
      /\ Len(silver[o]) \in Nat /\ Len(silver[p]) \in Nat
      /\ Len(silver[o]) + Len(silver[p]) <= crashes + 1
  <2>1. crashes \in Nat /\ Len(silver[o]) \in Nat /\ Len(silver[p]) \in Nat
    BY QueryTypes, SilverGrows DEF Inv, QueryInv
  <2>2. crashes' = crashes \/ crashes' = crashes + 1
    BY StepIsQueryStep
    DEF QueryNext, Arrive, PlanBatch, ReplayBatch, CommitBatch, CrashRestart, SinkStep, queryVars
  <2>3. crashes' \in Nat /\ crashes <= crashes'
    BY <2>1, <2>2
  <2>4. ASSUME SameBatch(o, p) PROVE Len(silver[o]) + Len(silver[p]) <= crashes + 1
    BY <1>1, <2>4 DEF Inv, TwinsStoredOnce, TwinsOf
  <2>5. ASSUME Len(silver[o]) = 0 /\ Len(silver[p]) = 0
        PROVE  Len(silver[o]) + Len(silver[p]) <= crashes + 1
    BY <2>1, <2>5
  <2> QED
    BY <1>1, <2>1, <2>3, <2>4, <2>5
<1>3. CASE silver'[o] = silver[o] /\ silver'[p] = silver[p]
  <2>1. Len(silver[o]) + Len(silver[p]) <= crashes' + 1
    BY <1>2, BoundGrows
  <2> QED
    BY <1>3, <2>1
<1>4. CASE WriteSilver /\ (o \in Valid \/ p \in Valid)
  <2>1. /\ step = "quarantined" /\ UNCHANGED <<offsetLog, commits, crashes>>
        /\ Valid \subseteq BatchOf(Batch)
    BY <1>4 DEF WriteSilver, Valid, Rows
  <2>2. PICK b \in 1 .. Len(offsetLog) : o \in BatchOf(b) /\ p \in BatchOf(b)
    BY <2>1 DEF SameBatch, BatchOf, EndOf
  <2>3. b = Batch /\ Pending
    BY <1>4, <2>1, <2>2, BatchInHand, BatchesDisjoint DEF Inv
  <2>4. Len(silver[o]) + Len(silver[p]) <= crashes
    BY <1>1, <2>1, <2>2, <2>3 DEF Inv, TwinsInHand, TwinsOf
  <2>5. /\ silver'[o] = silver[o] \/ Len(silver'[o]) = Len(silver[o]) + 1
        /\ silver'[p] = silver[p] \/ Len(silver'[p]) = Len(silver[p]) + 1
    BY SilverStep
  <2>6. silver'[o] = silver[o] \/ silver'[p] = silver[p]
    BY <1>1, <1>4, OneTwinWritten
  <2>7. /\ Len(silver'[o]) = Len(silver[o]) \/ Len(silver'[o]) = Len(silver[o]) + 1
        /\ Len(silver'[p]) = Len(silver[p]) \/ Len(silver'[p]) = Len(silver[p]) + 1
        /\ Len(silver'[o]) = Len(silver[o]) \/ Len(silver'[p]) = Len(silver[p])
    BY <2>5, <2>6
  <2>8. crashes' = crashes
    BY <2>1
  <2>9. Len(silver'[o]) \in Nat /\ Len(silver'[p]) \in Nat
    BY SilverGrows
  <2>10. Len(silver'[o]) + Len(silver'[p]) <= crashes + 1
    BY <1>2, <2>4, <2>7, <2>9, OneMore
  <2> QED
    BY <2>8, <2>10
<1> QED
  BY <1>3, <1>4, SilverStep

LEMMA StepInHand ==
  ASSUME Inv, [Next]_vars
  PROVE  TwinsInHand'
<1>1. /\ QueryInv /\ LogsOrdered /\ TwinsInHand /\ TwinsStoredOnce
      /\ commits \in Nat /\ crashes \in Nat /\ Len(offsetLog) \in Nat /\ Len(topic) \in Nat
  BY QueryTypes DEF Inv, QueryInv
<1> SUFFICES ASSUME Pending', step' # "written",
                    NEW o \in BatchOf(Batch)', NEW p \in BatchOf(Batch)', TwinsOf(o, p)'
             PROVE  Len(silver'[o]) + Len(silver'[p]) <= crashes'
  BY DEF TwinsInHand, TwinsOf
<1>2. silver' = silver
  BY DEF Next, Engine, WriteQuarantine, WriteSilver, Crash, sinkVars, vars
<1>3. QueryInv' /\ commits' \in Nat
  BY <1>1, StepIsQueryStep, QueryStepInv DEF QueryInv, QueryTypeOK
<1>4. PICK b \in 1 .. Len(offsetLog') : b = Batch'
  <2>1. Len(offsetLog') \in Nat /\ Len(offsetLog') = commits' + 1
    BY <1>1, LogsGrow, StepIsQueryStep DEF Pending
  <2>2. PICK c \in Nat : c = commits' /\ Batch' = c + 1
    BY <1>3 DEF Batch
  <2>3. Len(offsetLog') = c + 1
    BY <2>1, <2>2
  <2>4. c + 1 \in 1 .. (c + 1)
    OBVIOUS
  <2> QED
    BY <2>2, <2>3, <2>4
<1>5. o \in BatchOf(b)' /\ p \in BatchOf(b)'
  BY <1>4 DEF BatchOf, EndOf, Batch
<1>6. o \in Offsets /\ p \in Offsets /\ SameBatch(o, p)'
  <2>1. o \in Offsets /\ p \in Offsets
    BY <1>3, <1>5, NextBatchesInRange DEF BatchesInRange
  <2> QED
    BY <1>5, <2>1 DEF SameBatch
<1>7. /\ TwinsOf(o, p) /\ Arrived(o) /\ Arrived(p)
      /\ \/ SameBatch(o, p)
         \/ Len(silver[o]) = 0 /\ Len(silver[p]) = 0
  BY <1>6, SameBatchBefore DEF TwinsOf
<1>8. crashes' = crashes \/ (Crash /\ crashes' = crashes + 1)
  BY DEF Next, Engine, Arrive, PlanBatch, ReplayBatch, CommitBatch, WriteQuarantine, WriteSilver,
         Crash, CrashRestart, vars
<1>9. Len(silver[o]) \in Nat /\ Len(silver[p]) \in Nat
  BY <1>6, SilverGrows
<1>10. CASE SameBatch(o, p) /\ Crash
  <2>1. Len(silver[o]) + Len(silver[p]) <= crashes + 1
    BY <1>6, <1>7, <1>10 DEF Inv, TwinsStoredOnce, TwinsOf
  <2>2. crashes' = crashes + 1
    BY <1>10 DEF Crash, CrashRestart
  <2> QED
    BY <1>2, <2>1, <2>2
<1>11. CASE SameBatch(o, p) /\ ~Crash
  <2>1. PICK a \in 1 .. Len(offsetLog) : o \in BatchOf(a) /\ p \in BatchOf(a)
    BY <1>11 DEF SameBatch
  <2>2. BatchOf(a)' = BatchOf(a) /\ a \in 1 .. Len(offsetLog')
    BY <1>1, <2>1, StepIsQueryStep, LogsGrow
  <2>3. o \in BatchOf(a)'
    BY <2>1, <2>2
  <2>4. a = b
    BY <1>3, <1>5, <2>2, <2>3, NextBatchesAreDisjoint DEF AreDisjoint
  <2>5. Batch = a /\ Pending /\ commits' = commits
    <3>1. Batch' = a /\ a <= Len(offsetLog) /\ Len(offsetLog) <= commits + 1
      BY <1>1, <1>4, <2>1, <2>4 DEF LogsOrdered
    <3>2. commits' = commits \/ commits' = commits + 1
      BY StepIsQueryStep
      DEF QueryNext, Arrive, PlanBatch, ReplayBatch, CommitBatch, CrashRestart, SinkStep, queryVars
    <3> QED
      BY <1>1, <3>1, <3>2 DEF Pending, Batch
  <2>6. step # "written"
    BY <1>1, <1>11, <2>5
    DEF Next, Engine, Arrive, PlanBatch, ReplayBatch, CommitBatch, WriteQuarantine, WriteSilver, vars
  <2>7. Len(silver[o]) + Len(silver[p]) <= crashes
    BY <1>1, <1>7, <2>1, <2>5, <2>6 DEF TwinsInHand, TwinsOf
  <2> QED
    BY <1>2, <1>8, <1>11, <2>7
<1>12. CASE Len(silver[o]) = 0 /\ Len(silver[p]) = 0
  BY <1>1, <1>2, <1>8, <1>12
<1> QED
  BY <1>7, <1>10, <1>11, <1>12

-----------------------------------------------------------------------------
LEMMA StepInv == Inv /\ [Next]_vars => Inv'
<1> SUFFICES ASSUME Inv, [Next]_vars PROVE Inv'
  OBVIOUS
<1>1. QueryInv'
  BY StepIsQueryStep, QueryStepInv DEF Inv
<1> QED
  BY <1>1, StepTypes, StepUnplanned, StepPicked, StepLanded, StepBatchLanded, StepLeads, StepAhead,
     StepTwins, StepInHand DEF Inv

LEMMA Invariance == Spec => []Inv
BY InitInv, StepInv, PTL DEF Spec

\* Every report of a committed batch has landed, whatever crashed when
\* (positions_silver_job.py:81-109).
THEOREM NothingLost == Spec => []CommittedHasLanded
<1>1. Inv => CommittedHasLanded
  BY DEF Inv
<1> QED
  BY <1>1, Invariance, PTL

\* The rejected reports of a batch are in quarantine before its rows in silver
\* (positions_silver_job.py:82-114).
THEOREM QuarantineFirst == Spec => []QuarantineLeads
<1>1. Inv => QuarantineLeads
  BY DEF Inv
<1> QED
  BY <1>1, Invariance, PTL

\* A key of a batch is stored once by each driver that got to write it
\* (positions_silver_job.py:96).
THEOREM KeysStoredOnce == Spec => []TwinsStoredOnce
<1>1. Inv => TwinsStoredOnce
  BY DEF Inv
<1> QED
  BY <1>1, Invariance, PTL

-----------------------------------------------------------------------------
(* The zone of a report.                                                   *)

LEMMA Released ==
  ASSUME NEW file \in ZoneFilesAt
  PROVE  Merges(file) /\ Validates(file)
BY DEF ZoneFilesAt, ReleasedFiles

\* Two zones of a released file that share water differ in priority or in area.
LEMMA ZonesComparable ==
  ASSUME NEW file \in ZoneFilesAt, NEW f \in file, NEW g \in file,
         f # g, f.cells \cap g.cells # {}
  PROVE  Precedes(f, g) \/ Precedes(g, f)
<1>1. ValidFeature(f) /\ ValidFeature(g)
  BY Released DEF Merges
<1>2. ZonePriority(f) \in Nat /\ ZonePriority(g) \in Nat
  BY DEF ZonePriority
<1>3. Cardinality(f.cells) \in Nat /\ Cardinality(g.cells) \in Nat
  BY AreasAssumption, FS_CardinalityType
<1>4. CASE f.zone_type # g.zone_type
  <2>1. ZonePriority(f) # ZonePriority(g)
    BY <1>1, <1>4 DEF ValidFeature, ZonePriority
  <2> QED
    BY <1>2, <2>1 DEF Precedes
<1>5. CASE f.zone_type = g.zone_type
  <2>1. Overlap(f, g) => {f, g} \in OverlapErrors(file)
    <3> SUFFICES ASSUME Overlap(f, g) PROVE {f, g} \in OverlapErrors(file)
      OBVIOUS
    <3>1. <<f, g>> \in {q \in file \X file :
             q[1] # q[2] /\ q[1].zone_type = q[2].zone_type /\ Overlap(q[1], q[2])}
      BY <1>5
    <3> QED
      BY <3>1 DEF OverlapErrors
  <2>2. {f.zone_id, g.zone_id} \in ALLOWED_OVERLAPS
    BY <2>1, Released DEF Validates, Overlap
  <2>3. Cardinality(f.cells) # Cardinality(g.cells)
    BY <2>2, AreasAssumption
  <2>4. ZonePriority(f) = ZonePriority(g)
    BY <1>5 DEF ZonePriority
  <2> QED
    BY <1>3, <2>3, <2>4 DEF Precedes
<1> QED
  BY <1>4, <1>5

\* Whatever order the equals of a sort come in, the first is one zone.
LEMMA BestIsOne ==
  ASSUME NEW file \in ZoneFilesAt, NEW place, NEW y \in BestZones(file, place),
         NEW z \in BestZones(file, place)
  PROVE  y = z
<1>1. CASE Containing(file, place) = {}
  BY <1>1 DEF BestZones
<1>2. CASE Containing(file, place) # {}
  <2>1. /\ y \in file /\ z \in file /\ place \in y.cells \cap z.cells
        /\ ~Precedes(y, z) /\ ~Precedes(z, y)
    BY <1>2 DEF BestZones, Containing
  <2> QED
    BY <2>1, ZonesComparable
<1> QED
  BY <1>1, <1>2

\* Two jobs that read one file give a report one zone, and an id has one type
\* and name in it: for every file that passes merge_zones and validate_zones
\* (spatial_join.py:116, vessel_state_job.py:154).
THEOREM OneZoneEach == Spec => []ZonesAgree
<1>1. Inv => ZonesAgree
  <2> SUFFICES ASSUME Inv, NEW o \in Offsets, NEW p \in Offsets,
                      NEW row \in Range(silver[o]), NEW other \in Range(silver[p])
               PROVE  /\ BestZones(row.file, topic[o].place) = {row.zone}
                      /\ None \notin {row.zone, other.zone} /\ row.file = other.file
                           /\ row.zone.zone_id = other.zone.zone_id
                         => row.zone = other.zone
    BY DEF ZonesAgree
  <2>1. /\ silver[o] \in Seq(ZoneRow) /\ silver[p] \in Seq(ZoneRow)
    BY DEF Inv, SinkTypeOK
  <2>2. /\ row \in ZoneRow /\ row.zone \in BestZones(row.file, topic[o].place)
        /\ other \in ZoneRow /\ other.zone \in BestZones(other.file, topic[p].place)
    <3>1. PICK i \in 1 .. Len(silver[o]) : row = silver[o][i]
      BY <2>1, LenProperties DEF Range
    <3>2. PICK j \in 1 .. Len(silver[p]) : other = silver[p][j]
      BY <2>1, LenProperties DEF Range
    <3> QED
      BY <2>1, <3>1, <3>2, ElementOfSeq DEF Inv, RowsPicked
  <2>3. row.file \in ZoneFilesAt /\ other.file \in ZoneFilesAt
    BY <2>2 DEF ZoneRow
  <2>4. BestZones(row.file, topic[o].place) = {row.zone}
    BY <2>2, <2>3, BestIsOne
  <2>5. ASSUME None \notin {row.zone, other.zone}, row.file = other.file,
               row.zone.zone_id = other.zone.zone_id
        PROVE  row.zone = other.zone
    <3>1. row.zone \in row.file /\ other.zone \in row.file
      BY <2>2, <2>5 DEF BestZones, Containing
    <3> QED
      BY <2>3, <2>5, <3>1, Released DEF Merges
  <2> QED
    BY <2>4, <2>5
<1> QED
  BY <1>1, Invariance, PTL
=============================================================================
