--------------------------- MODULE PositionsSink ---------------------------
(***************************************************************************)
(* processing/streaming/positions_silver_job.py: each batch of position    *)
(* reports is checked, the rejected reports are appended to the Delta      *)
(* table positions_quarantine, then the valid ones to positions_silver,    *)
(* each with its zone, one row for each (mmsi, event_time) of the batch.   *)
(* The two appends are two transactions.                                   *)
(*                                                                         *)
(* A record is a report of QualityChecks.  Relays of one broadcast share   *)
(* mmsi and event_time, and may be ingested at different times.  The zones *)
(* are those of the file the driver read when it started; a restart reads  *)
(* the file that is there.                                                 *)
(***************************************************************************)
EXTENDS StreamingQuery, ZoneFiles, Functions

CONSTANTS
  Surveys,                           \* what zones.geojson can be built from
  NineDigits, Box, SOG_MAX, MAX_SKEW \* the bounds of QualityChecks

INSTANCE QualityChecks

ZoneFilesAt == ReleasedFiles(Surveys)

\* Areas are numbers, and zones that may share water differ in theirs: the pairs
\* that validate_zones.py:26-42 allows are a sub-anchorage and the area around it,
\* and the explosives anchorage with ones of other sizes (zones.geojson).
ASSUME AreasAssumption ==
  \A file \in ZoneFilesAt : \A f, g \in file :
    /\ IsFiniteSet(f.cells)
    /\ f # g /\ {f.zone_id, g.zone_id} \in ALLOWED_OVERLAPS
       => Cardinality(f.cells) # Cardinality(g.cells)

VARIABLES
  zones,        \* the features that the driver has loaded
  quarantine,   \* positions_quarantine: copies of each record
  silver        \* positions_silver: the rows of each record

sinkVars == <<zones, quarantine, silver>>
vars == <<topic, offsetLog, commits, step, crashes, zones, quarantine, silver>>

Init ==
  /\ QueryInit
  /\ zones \in ZoneFilesAt
  /\ quarantine = [o \in Offsets |-> 0]
  /\ silver = [o \in Offsets |-> <<>>]

Engine == (Arrive \/ PlanBatch \/ ReplayBatch \/ CommitBatch) /\ UNCHANGED sinkVars

AppendCopies(table, offsets) ==
  [o \in Offsets |-> IF o \in offsets THEN table[o] + 1 ELSE table[o]]

Rejected == Rows({r \in Kinds : ~QualityOk(r)})
Valid == Rows({r \in Kinds : QualityOk(r)})
KeyOf(r) == <<r.mmsi, r.event_time>>

\* The zones that pick_best_zone can give to each of some rows.
Enrichments(offsets) ==
  LET best == [o \in offsets |-> BestZones(zones, topic[o].place)]
  IN  {f \in [offsets -> UNION Range(best)] : \A o \in offsets : f[o] \in best[o]}

\* The table with a row for each of some records, which keeps its zone and,
\* for the properties, the file the zone comes from.
AppendRows(zoneOf) ==
  [o \in Offsets |-> IF o \in DOMAIN zoneOf
                     THEN Append(silver[o], [zone |-> zoneOf[o], file |-> zones])
                     ELSE silver[o]]

\* Variant: no dropDuplicates.
EveryRow(offsets) == {offsets}

\* dropDuplicates keeps some row of each key, not always the same one.
OnePerKey(offsets) ==
  {kept \in SUBSET offsets :
     /\ \A o \in offsets : \E p \in kept : KeyOf(topic[p]) = KeyOf(topic[o])
     /\ \A o, p \in kept : KeyOf(topic[o]) = KeyOf(topic[p]) => o = p}

\* Variant: the append fails when there is nothing to quarantine.
QuarantineNonEmpty ==
  /\ step = "running" /\ Rejected # {}
  /\ quarantine' = AppendCopies(quarantine, Rejected)
  /\ step' = "quarantined"
  /\ UNCHANGED <<topic, offsetLog, commits, crashes, zones, silver>>

\* if quarantined_count: append the rejected reports.
WriteQuarantine ==
  /\ step = "running"
  /\ quarantine' = AppendCopies(quarantine, Rejected)
  /\ step' = "quarantined"
  /\ UNCHANGED <<topic, offsetLog, commits, crashes, zones, silver>>

\* Variants: a batch with rejects does not reach silver; silver is written
\* without waiting for the quarantine.
SilverUnlessRejects ==
  /\ step = "quarantined"
  /\ \E kept \in OnePerKey(Valid) : \E zoneOf \in Enrichments(kept) :
       silver' = IF Rejected = {} THEN AppendRows(zoneOf) ELSE silver
  /\ step' = "written"
  /\ UNCHANGED <<topic, offsetLog, commits, crashes, zones, quarantine>>
SilverFirst ==
  /\ step \in {"running", "quarantined"}
  /\ \E kept \in OnePerKey(Valid) : \E zoneOf \in Enrichments(kept) :
       silver' = AppendRows(zoneOf)
  /\ step' = "written"
  /\ UNCHANGED <<topic, offsetLog, commits, crashes, zones, quarantine>>

\* if valid_count: append the valid reports, one for each key.
WriteSilver ==
  /\ step = "quarantined"
  /\ \E kept \in OnePerKey(Valid) : \E zoneOf \in Enrichments(kept) :
       silver' = AppendRows(zoneOf)
  /\ step' = "written"
  /\ UNCHANGED <<topic, offsetLog, commits, crashes, zones, quarantine>>

\* The restarted driver loads the zones anew.
Crash ==
  /\ CrashRestart
  /\ zones' \in ZoneFilesAt
  /\ UNCHANGED <<quarantine, silver>>

Next == Engine \/ WriteQuarantine \/ WriteSilver \/ Crash
Spec == Init /\ [][Next]_vars

\* The driver keeps running and is restarted by systemd or launchd.
LiveSpec ==
  /\ Spec
  /\ WF_vars((PlanBatch \/ ReplayBatch \/ CommitBatch) /\ UNCHANGED sinkVars)
  /\ WF_vars(WriteQuarantine \/ WriteSilver)

-----------------------------------------------------------------------------
Arrived(o) == o <= Len(topic)
SameBatch(o, p) ==
  \E b \in 1 .. Len(offsetLog) : o \in BatchOf(b) /\ p \in BatchOf(b)

\* Every report of a committed batch has landed: a rejected one itself in the
\* quarantine, a valid one, or its twin of the same batch, in silver
\* (positions_silver_job.py:81-109).
CommittedHasLanded ==
  \A o \in Offsets : Arrived(o) /\ o <= EndOf(commits) =>
    IF QualityOk(topic[o])
    THEN \E p \in Offsets : /\ SameBatch(o, p)
                            /\ KeyOf(topic[p]) = KeyOf(topic[o])
                            /\ silver[p] # <<>>
    ELSE quarantine[o] >= 1

\* Quarantine runs ahead of silver and never behind: when a batch's row is in
\* silver n times, all of its rejected reports are in quarantine n times, so a
\* crash between the two appends repeats rejects but never loses any.
QuarantineLeads ==
  \A o, p \in Offsets :
    Arrived(o) /\ Arrived(p) /\ ~QualityOk(topic[p]) /\ SameBatch(o, p)
      => Len(silver[o]) <= quarantine[p]

\* Within one write of a batch a key is stored once; only a crash repeats it.
TwinsStoredOnce ==
  \A o, p \in Offsets :
    /\ Arrived(o) /\ Arrived(p) /\ o # p /\ SameBatch(o, p)
    /\ KeyOf(topic[o]) = KeyOf(topic[p])
    => Len(silver[o]) + Len(silver[p]) <= crashes + 1

\* The two jobs that read one zone file give a report the same zone, although
\* each sorts for itself and takes any of several equals (spatial_join.py:116,
\* vessel_state_job.py:154); and that file gives a zone id one type and name,
\* for int_zones.sql to find.  validate_zones.py and merge_zones.py see to it.
ZonesAgree ==
  \A o, p \in Offsets : \A row \in Range(silver[o]), other \in Range(silver[p]) :
    /\ BestZones(row.file, topic[o].place) = {row.zone}
    /\ /\ None \notin {row.zone, other.zone}
       /\ row.file = other.file /\ row.zone.zone_id = other.zone.zone_id
       => row.zone = other.zone

\* Every report that arrives lands in one of the tables.
ReportsLand ==
  \A o \in Offsets :
    Arrived(o) ~> (o <= EndOf(commits))

\* What the module's docstring says of a retried batch
\* (positions_silver_job.py:8-13): both tables hold a report at most once.
TablesExactlyOnce == \A o \in Offsets : Len(silver[o]) <= 1 /\ quarantine[o] <= 1
=============================================================================
