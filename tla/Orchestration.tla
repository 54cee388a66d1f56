---------------------------- MODULE Orchestration ----------------------------
(***************************************************************************)
(* From the lakehouse bucket to the dashboard: sync_lakehouse.sh mirrors   *)
(* the bucket object by object and touches a marker; the Dagster sensor    *)
(* requests a run when the marker is newer than its cursor, a daily        *)
(* backstop does so anyway; a run builds the dbt models from the mirror    *)
(* into one DuckDB file and then exports a snapshot of it.  DuckDB locks   *)
(* the file: one writer, or readers; who finds it locked fails at once.    *)
(*                                                                         *)
(* The tables have one version number between them.  A version is there    *)
(* when both its log entry and its data are.  The mtime of the marker is   *)
(* the number of times it was touched.                                     *)
(***************************************************************************)
EXTENDS Naturals, Sequences, FiniteSets

CONSTANTS
  MaxRuns,     \* bound on the Dagster runs
  MaxVersion,  \* bound on the versions that the streaming jobs write
  MaxSyncs     \* bound on the syncs that complete

ASSUME OrchestrationAssumption == MaxRuns \in Nat /\ MaxVersion \in Nat /\ MaxSyncs \in Nat

VARIABLES
  lake,      \* newest version in the bucket
  mirror,    \* objects in the local mirror
  todo,      \* objects the running sync has listed and not copied yet
  sync,      \* "idle" or "copying"
  listed,    \* version the running sync has listed
  covers,    \* history: version listed by each sync that touched the marker
  cursor,    \* the sensor's cursor: mtime of the last marker acted upon
  tick,      \* the sensor daemon: "idle", "evaluated", "launched"
  seen,      \* mtime the sensor tick has read
  run,       \* the runs: step, run key (0: backstop) and version in hand
  gold,      \* version in the DuckDB file
  snapshot   \* version in the published snapshot

syncVars == <<lake, mirror, todo, sync, listed, covers>>
sensorVars == <<cursor, tick, seen>>
buildVars == <<run, gold, snapshot>>
vars == <<syncVars, sensorVars, buildVars>>

Versions == 1 .. MaxVersion
Parts == {"log", "data"}
ObjectsOf(n) == (1 .. n) \X Parts
Mtime == Len(covers)

Init ==
  /\ lake = 0 /\ mirror = {} /\ todo = {} /\ sync = "idle" /\ listed = 0
  /\ covers = <<>>
  /\ cursor = 0 /\ tick = "idle" /\ seen = 0
  /\ run = <<>>
  /\ gold = 0 /\ snapshot = 0

-----------------------------------------------------------------------------
(* The bucket and its mirror.                                              *)

StreamsAppend ==
  /\ lake < MaxVersion
  /\ lake' = lake + 1
  /\ UNCHANGED <<mirror, todo, sync, listed, covers, sensorVars, buildVars>>

\* oci os object sync: lists the bucket, copies what the mirror has not.
SyncStart ==
  /\ sync = "idle" /\ Len(covers) < MaxSyncs
  /\ sync' = "copying"
  /\ listed' = lake
  /\ todo' = ObjectsOf(lake) \ mirror
  /\ UNCHANGED <<lake, mirror, covers, sensorVars, buildVars>>

SyncCopy(o) ==
  /\ sync = "copying" /\ o \in todo
  /\ mirror' = mirror \cup {o}
  /\ todo' = todo \ {o}
  /\ UNCHANGED <<lake, sync, listed, covers, sensorVars, buildVars>>

\* set -e: a sync that fails does not touch the marker.
SyncFails ==
  /\ sync = "copying"
  /\ sync' = "idle" /\ todo' = {}
  /\ UNCHANGED <<lake, mirror, listed, covers, sensorVars, buildVars>>

\* Variant: the marker is touched whether or not the sync got through.
TouchAnyway ==
  /\ sync = "copying"
  /\ sync' = "idle" /\ todo' = {}
  /\ covers' = Append(covers, listed)
  /\ UNCHANGED <<lake, mirror, listed, sensorVars, buildVars>>

\* The sync is complete: touch .last_synced.
SyncTouch ==
  /\ sync = "copying" /\ todo = {}
  /\ sync' = "idle"
  /\ covers' = Append(covers, listed)
  /\ UNCHANGED <<lake, mirror, todo, listed, sensorVars, buildVars>>

-----------------------------------------------------------------------------
(* The sensor and the backstop.                                            *)

Runs == DOMAIN run
Requested(key) == \E r \in Runs : run[r].key = key
Request(key) ==
  /\ Len(run) < MaxRuns
  /\ run' = Append(run, [step |-> "queued", key |-> key, version |-> 0])

\* Variant: the cursor is saved when the marker is read.
EvaluateAndSave ==
  /\ tick = "idle" /\ Mtime > cursor
  /\ seen' = Mtime /\ tick' = "evaluated" /\ cursor' = Mtime
  /\ UNCHANGED <<syncVars, buildVars>>

\* lakehouse_sync_sensor: the marker is newer than the cursor.
Evaluate ==
  /\ tick = "idle" /\ Mtime > cursor
  /\ seen' = Mtime /\ tick' = "evaluated"
  /\ UNCHANGED <<syncVars, cursor, buildVars>>

\* Variant: a run request without a run key.
LaunchAlways ==
  /\ tick = "evaluated"
  /\ tick' = "launched"
  /\ Request(seen)
  /\ UNCHANGED <<syncVars, cursor, seen, gold, snapshot>>

\* RunRequest(run_key): the daemon launches it unless one has this key already.
Launch ==
  /\ tick = "evaluated"
  /\ tick' = "launched"
  /\ IF Requested(seen) THEN UNCHANGED run ELSE Request(seen)
  /\ UNCHANGED <<syncVars, cursor, seen, gold, snapshot>>

\* context.update_cursor takes effect when the tick is done.
SaveCursor ==
  /\ tick = "launched"
  /\ tick' = "idle" /\ cursor' = seen
  /\ UNCHANGED <<syncVars, seen, buildVars>>

DaemonCrash ==
  /\ tick # "idle"
  /\ tick' = "idle"
  /\ UNCHANGED <<syncVars, cursor, seen, buildVars>>

\* The daily schedule asks for a run whatever the marker says.
Backstop ==
  /\ Request(0)
  /\ UNCHANGED <<syncVars, sensorVars, gold, snapshot>>

-----------------------------------------------------------------------------
(* A run: spb_dbt_assets, then ships_at_anchor_now_export.                 *)

Writing(r) == run[r].step \in {"locked", "building"}
Reading(r) == run[r].step = "exporting"
NoWriter == \A r \in Runs : ~Writing(r)
Unlocked == \A r \in Runs : ~Writing(r) /\ ~Reading(r)
Step(r, from, to) == run[r].step = from /\ run' = [run EXCEPT ![r].step = to]

\* A Delta table can be read when its log has no gap and no file is missing.
Logged == {n \in Versions : <<n, "log">> \in mirror}
NewestLogged == IF Logged = {} THEN 0 ELSE CHOOSE n \in Logged : \A m \in Logged : m <= n
Readable == ObjectsOf(NewestLogged) \subseteq mirror

\* Variant: a database that several builds can open at once.
OpenShared(r) ==
  /\ Step(r, "queued", "locked")
  /\ UNCHANGED <<syncVars, sensorVars, gold, snapshot>>

\* dbt build opens the DuckDB file, or finds it locked and fails.
OpenForBuild(r) ==
  /\ IF Unlocked THEN Step(r, "queued", "locked") ELSE Step(r, "queued", "failed")
  /\ UNCHANGED <<syncVars, sensorVars, gold, snapshot>>

\* The staging models read the mirror, in the middle of a sync or not.
ReadMirror(r) ==
  /\ run[r].step = "locked"
  /\ run' = [run EXCEPT ![r].step = IF Readable THEN "building" ELSE "failed",
                        ![r].version = NewestLogged]
  /\ UNCHANGED <<syncVars, sensorVars, gold, snapshot>>

\* A model or a test fails: dbt exits, with some of the tables written already,
\* and the export is skipped.
BuildFails(r) ==
  /\ Step(r, "building", "failed")
  /\ gold' \in {gold, run[r].version}
  /\ UNCHANGED <<syncVars, sensorVars, snapshot>>

BuildDone(r) ==
  /\ Step(r, "building", "built")
  /\ gold' = run[r].version
  /\ UNCHANGED <<syncVars, sensorVars, snapshot>>

\* duckdb.connect(read_only=True): still refused while a build has the file.
OpenForExport(r) ==
  /\ IF NoWriter THEN Step(r, "built", "exporting") ELSE Step(r, "built", "failed")
  /\ UNCHANGED <<syncVars, sensorVars, gold, snapshot>>

\* Both queries run on one connection, which keeps the file open.
Query(r) ==
  /\ run[r].step = "exporting"
  /\ run' = [run EXCEPT ![r].step = "uploading", ![r].version = gold]
  /\ UNCHANGED <<syncVars, sensorVars, gold, snapshot>>

\* The file is replaced, or the object put; the put may fail (check=True).
Publish(r) ==
  /\ Step(r, "uploading", "done")
  /\ snapshot' = run[r].version
  /\ UNCHANGED <<syncVars, sensorVars, gold>>

PublishFails(r) ==
  /\ Step(r, "uploading", "failed")
  /\ UNCHANGED <<syncVars, sensorVars, gold, snapshot>>

Next ==
  \/ StreamsAppend
  \/ SyncStart \/ SyncFails \/ SyncTouch
  \/ \E o \in todo : SyncCopy(o)
  \/ Evaluate \/ Launch \/ SaveCursor \/ DaemonCrash
  \/ Backstop
  \/ \E r \in Runs :
       \/ OpenForBuild(r) \/ ReadMirror(r) \/ BuildFails(r) \/ BuildDone(r)
       \/ OpenForExport(r) \/ Query(r) \/ Publish(r) \/ PublishFails(r)

Spec == Init /\ [][Next]_vars

\* The daemon runs, and is restarted whenever it stops: not every tick is cut
\* short (spb-dagster-daemon.service).
DaemonFairness ==
  /\ WF_vars(Evaluate)
  /\ SF_vars(Launch)
  /\ SF_vars(SaveCursor)

LiveSpec == Spec /\ DaemonFairness

-----------------------------------------------------------------------------
\* A sync is built at most once on the sensor's account, however often the
\* daemon dies in the middle of a tick (sensors.py:31-32).
OneRunPerSync ==
  \A q, r \in Runs : run[q].key = run[r].key /\ run[r].key # 0 => q = r

\* A run that a sync triggered builds, and publishes, at least what that sync
\* had listed, also when another sync is copying or another run has built in
\* between: the marker is touched last (sync_lakehouse.sh:15-25).
RunSeesItsSync ==
  \A r \in Runs :
    /\ run[r].key # 0
    /\ run[r].step \in {"building", "built", "exporting", "uploading", "done"}
    => run[r].version >= covers[run[r].key]

\* The tables in DuckDB never go back to an older state of the lakehouse,
\* whichever of two runs that overlap ends first (dashboard_export.py:56-59).
GoldNeverGoesBack == [][gold' >= gold]_vars

\* Every completed sync leads to a run for it or for a later one, though the
\* daemon may die between reading the marker, launching and saving the cursor
\* (sensors.py:1-5).  Bound: no more runs.
EverySyncIsRun ==
  \A m \in 1 .. MaxSyncs :
    (Mtime >= m) ~> (Len(run) = MaxRuns \/ \E r \in Runs : run[r].key >= m)
=============================================================================
