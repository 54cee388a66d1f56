# San Pedro Bay pipeline: TLA+ specifications

TLA+ models of the pipeline that turns AIS position reports into vessel states,
sessions and marts, TLC configurations that check them on small instances, and
TLAPS proofs of what matters most for every instance.

    tlc -config tracking_in_order.cfg MCTracking      # check one run
    tlapm VesselTrackingProofs.tla                    # check the proofs

## 1. The system

    AIS feed --> producer --> Kafka (ais.raw.positions, ais.raw.static, ais.deadletter)
                                |
       +------------------------+----------------------------+
       |                        |                            |
    vessel_state_job     positions_silver_job          ship_static_job
    (state store,        (quality, zones, dedup)       (decode, project)
     watermark, timeouts)       |                            |
       |         |        positions_silver             ship_static
       |         |        positions_quarantine               |
    Kafka     vessel_state_changes                           |
                 |              |                            |
                 +---- sync ----+---- dbt (DuckDB): int_vessel_sessions,
                                |     int_zones, fct_*, dim_vessels
                                +---- Dagster sensor / schedule --> snapshot --> dashboard

| Component (source) | State | Operations | Module |
|---|---|---|---|
| State machine (`vessel_state_logic.py`) | `VesselState` per vessel | `process_observation`, `process_timeout` | `VesselLogic` |
| Vessel-state query (`vessel_state_job.py:128-220`) | state store, watermark, timeouts | `update_vessel_state` per row and per timeout; batches | `VesselTracking` |
| What the two promise their readers | place, suspicion and dispute per vessel | begin, stay, move, end | `VesselJourney`, implemented by `VesselTracking` (`TrackingRefinement`) |
| Micro-batch engine (each job's `main`) | topic, offset log, commit log | plan, re-run, commit, crash and restart | `StreamingQuery` |
| State-change sink (`vessel_state_job.py:223-276`) | Kafka producer queue, Kafka topic, Delta table | collect, produce, flush(10), append | `StateChangeSink` |
| Positions job (`positions_silver_job.py`) | two Delta tables, the zones it has loaded | check, quarantine, enrich, deduplicate, append | `PositionsSink` |
| Quality checks (`quality_checks.py`) | none | `validate_positions` | `QualityChecks` |
| Geofence files (`geofences/*.py`) and zone join (`spatial_join.py`) | `zones.geojson` | build, merge, validate; contain, rank, pick | `ZoneFiles` |
| Ship-static job (`ship_static_job.py`), decoding (`avro_kafka_reader.py`), registration (`register_schemas.py`) | Delta table and its transaction log; registry; fetched schema | native Delta sink; register, fetch, decode | `ShipStaticSink` |
| Readers (`int_vessel_sessions.sql`, `int_zones.sql`, `fct_berth_visits.sql`, `fct_anchorage_dwell.sql`, `fct_discrepancy_events.sql`, `validate_state_accuracy.py`) | none | sessions, visits, dwells, discrepancy pairs, as-of join | `SessionMarts`, `JourneyMarts`, `StateChangeLog` |
| Producer (`producer.py`) | connection, backoff, queue | receive, route, produce, reconnect, shut down | `Producer` |
| Orchestration (`orchestration/`, `sync_lakehouse.sh`) | marker, cursor, runs, DuckDB file | sync, sensor tick, schedule, build, export | `Orchestration` |
| Daily rollup, `dim_vessels`, infrastructure, dashboard, demos | | | not modelled (section 7) |

What is hard here: reports arrive late and with clocks that run ahead, in
batches; a timeout is decided by a watermark that the whole fleet moves; a
crash can fall between any two writes, and a re-run batch repeats its side
effects; the readers reconstruct states from events by event time alone, where
equal times are ordinary, and join names that another job writes; drivers that
live for months read zones and schemas once, when they start.

## 2. What makes each component correct

- State machine and query: a transition needs an unbroken run of DEBOUNCE; a
  flag needs sustained disagreement; a vessel expires only after real silence,
  and does expire; its lives do not overlap.
- Sinks: nothing that was committed is missing; a repeat is a whole batch and
  only the newest; rejects are never behind valid rows; Kafka is ahead of Delta.
- Enrichment: the two jobs that join zones agree on the zone of a report; a batch
  is decoded by one schema, and only what some schema cannot read is left out.
- Readers: what they derive from the events is the state the machine held for
  every report, and what they published about the past stands.
- Producer: it comes back after every close; the topics keep the order of
  reception; what is lost is logged, or lies behind a frame that was refused.
- Orchestration: every completed sync is built, once, from at least what it
  brought; the tables never go back.

## 3. The modules, and how they follow the code

**`VesselLogic`** is `process_observation` and `process_timeout` as operators
over a state and an observation. `Moves` says when the vessel changes state,
`CandidateAfter`/`CandidateSinceAfter` what becomes of the candidate,
`Disagrees`/`Agrees`/`Flags`/`Clears` and `Discrepancy...After` the discrepancy,
computed on the state *after* the transition as in the code. An observation is
its event time, zone, whether its speed is below the threshold, and its status
code. Fields that the code writes and never reads are left out
(position, speed, `state_entry_time`, `candidate_zone_id`, `reported_status`).
Times are integers; units only have to be the same everywhere.

**`StateChanges`** is the form of the events, shared by the side that writes them
and the side that reads them.

**`VesselJourney`** is the abstract specification: what a reader of the events may
rely on, without batches, watermark, timeouts, raw states and status codes. A
vessel lives through journeys; a journey begins in the place of its first report,
moves to a place of another state only when the vessel may have been elsewhere for
DEBOUNCE, and ends at the time of its last report; the next begins later. A dispute
is flagged after DISCREPANCY_THRESHOLD, cleared before it is flagged again, and
dropped without a word when the journey ends. `elsewhere` abstracts
`candidate_since`: any report may start, keep or end the suspicion.
**`TrackingRefinement`** maps the store and the history of `VesselTracking` to it:
`RefinesJourney`. It holds for reports in order; a late report breaks it, as it
breaks the properties of `tracking_in_order`.

**`VesselTracking`** is the streaming query. `Observe` is one turn of the
handler's loop with the state read and write around it; `Expire` the
`hasTimedOut` branch; `RowsDone` and `EndBatch` the phases of a micro-batch: rows,
then timeouts, then a new watermark. `NotLate` is Spark's late-row filter, which
drops a row by the watermark of the batch *before* (`lateMark`) while timeouts fire
by the current one; `InBatchOrder` is the sort (within a batch only). `FleetReport` is a row of a vessel
that is not followed, of which only the event time matters. `Deliverable` is the
environment: event times at most `MaxAhead` beyond the wall clock, and at most
`MaxLate` older than the vessel's newest. A row whose timeout is behind the watermark
already would make `setTimeoutTimestamp` raise, in every re-run of its batch too;
`Deliverable` excludes it. `run`, `newest` and `agreed` are history
variables that only properties read (`Deliverable` also reads `newest`, to bound
the lateness).

**`StreamingQuery`** is what all jobs share: a batch is a range of offsets,
written to the offset log before it runs; the commit follows the sink;
`CrashRestart` can come between any two steps, and the restarted job re-runs the
planned, uncommitted batch over the same range. The sinks extend it and take a
batch from "running" to "written".

**`StateChangeSink`** has one action for each step of `write_state_change_batch`.
The producer is a global of the driver: its background thread delivers at any
time (`Deliver`), may give a message up (`GiveUp`), outlives the batch and dies
with the driver. `flush(10)` returns with an empty queue (`FlushDone`) or not
(`FlushTimeout`), and the code goes on in both cases. The state store is
versioned by batch, so a re-run emits the same events: an offset stands for its
event. The order of one batch's events is assumed to be the same in a re-run.

**`PositionsSink`** has the two appends as two actions. A record is a report with
its vessel, times, place and speed; `QualityOk` of **`QualityChecks`** decides where
it goes. A missing event time passes the skew check, as a comparison with a missing
time does in the code. `Enrichments` is the zone join with `pick_best_zone`, and
`OnePerKey` is `dropDuplicates`, which keeps some row of each key. `zones` is the
closure variable of `make_write_positions_batch`: loaded when the driver starts, from
whichever released file is there then.

**`ZoneFiles`** is that file, from its sources on: what the three builders make of
the regulation's areas, OpenStreetMap's elements and the chart's breakwaters
(`BuildAnchorages`, `BuildBerths`, `BuildHarbor`), when `merge_zones.py` and
`validate_zones.py` accept it (`Merges`, `Validates`), and how a position's zone is
picked: `BestZones` is the *set* of zones that can come first, because both
tie-breaks (`pick_best_zone` and the sort in `update_vessel_state`) take any of
several equals. Geometry is a set of cells, area their number; rings that share an edge
come as one cluster, which is what `unary_union` joins before the largest polygon is
kept (`PolygonOf`).

**`ShipStaticSink`** is the native Delta sink: rows and batch number enter the table
in one transaction. A record's kind is the version of the schema it was written
with, 0 for the plain JSON of before the migration. `Register` adds a version to
the registry; the job fetches the latest when it starts, and decodes everything with
it, because the schema id in a record's header is cut off. Which versions can read
which is the constant `Readable`.

**`TableLog`** is the abstract specification of an append-only table fed from a
topic: ranges are taken in order, each at once; with `Repeatable` the newest
range may be written again, without it no record is there twice; records of
a `Losable` kind may be passed over. Both `StateChangeSink` (repeatable, nothing
lost) and `ShipStaticSink` (no repeats; a version that some other cannot read is
losable) implement it: `RefinesTable`.

**`SessionMarts`** holds the readers as operators over the table of events.
`SessionEnds` is `lead(session_start)` with every order of equal starts;
`ProceededToBerth` keeps SQL's third value; `ClearedAt` pairs flags and clears;
`DerivedAsOf` is the as-of join. **`JourneyMarts`** applies them to what
`VesselJourney` emits, next to `int_zones`, which grows as the positions job names
zones (`NameZone`). Because `VesselTracking` implements `VesselJourney`, what holds of
every journey holds of the query, with reports in order, and the check needs none of
its batches. **`StateChangeLog`** applies them to `VesselTracking` itself: two claims
of the mart's comments, which the query refutes with a behaviour of its own.

**`Producer`** is one process and its successors. Frames are numbered as they are
received; those after the first `nread` wait in the websocket's buffer. `Handle` is
`handle_message` with its `produce` and `poll(0)`; `HandleRaises` the exception
that leaves `async with`, closes the connection and loses the buffer. `LoopEnds` is
the end of `async for` after a normal close, which goes straight back to
`connect`; after anything else the loop sleeps (`Wake`). `queue` and `reports` are the
Kafka client: a queue for each topic, as librdkafka keeps order within a partition and
none across, and it is full (`Full`) when messages and *unserved* delivery reports
together reach its limit. A topic stands for one of its partitions: the reports of a
vessel have one key, and go to one. `Signal` and `FlushEnds` are the signal handler, which
runs in the middle of the loop and ends in `SystemExit`; `Crash` is a kill. Both are
followed by the service manager's restart.

**`Orchestration`** goes from the bucket to the snapshot: `sync_lakehouse.sh` object
by object with the marker touched last; the sensor's tick in three steps (read the
marker, launch, save the cursor), any of which a daemon crash can follow; the
backstop; and runs that hold the DuckDB file or fail at once because another does.
A version is readable when the mirror holds every log entry and every data file up
to it (`Readable`), so a build in the middle of a sync fails or takes what is complete.
A failed build may have written some tables (`BuildFails`). The file is locked for the
whole build; dbt-duckdb may let go of it between two models. That would not matter to
`GoldNeverGoesBack`: only the gold models are tables, and each reads the mirror through
views while it is created, with the lock. All tables share one version number: what differs between tables of one build is
abstracted.

Operators named as variants in the modules (`StickyCandidate`, `AppendTwice`, ...)
are slips that the code could have had; `PROJECT.json` pairs each property with
the variant that breaks it.

## 4. The runs

| Run | Checks | Result |
|---|---|---|
| `tracking_in_order` | debounce and discrepancy with reports in order, two zones, a status, expiry and return; refinement of `VesselJourney` | pass, 176 000 states |
| `tracking_late` | late reports and a leading clock: expiry, lives, liveness of expiry | pass, 355 000 states |
| `state_change_sink` | crashes and a stalling broker: Delta at least once, batch by batch; Kafka first and in order; refinement | pass, 51 000 states |
| `positions_sink` | crashes between the appends; twins; zones of both jobs, over released files; liveness | pass, 277 000 states |
| `ship_static_sink` | no repeats, one decoding per batch, over crashes and schema versions; refinement | pass, 70 000 states |
| `state_change_log` | sessions, visits, dwells, flags and as-of join of every journey; published history | pass, 132 000 states |
| `producer` | routing, reconnects, backoff, full client, signal, crash; liveness | pass, 151 000 states |
| `orchestration` | sync, sensor tick with crashes, overlapping runs and exports; liveness | pass, 147 000 states |
| `debounce_late_row` | "must hold continuously for 5 minutes" (README.md:99-100) with a late row | violated |
| `positions_exactly_once` | "Delta already de-dupes" (positions_silver_job.py:8-13) | violated |
| `expired_session` | an expired vessel has no ongoing session (int_vessel_sessions.sql:47-54) | violated |
| `anchor_to_berth` | `proceeded_to_berth` tells "whether it went on to actually berth afterward" (fct_anchorage_dwell.sql:1-4) | violated |

What the four violations show:

- *debounce_late_row*: the sort is per batch (`vessel_state_job.py:157`). A row
  that the watermark accepts in a later batch is handled after newer ones; the
  transition it commits, or the candidate it starts, ignores reports of another
  raw state stamped inside the window.
- *positions_exactly_once*: a `foreachBatch` append carries no transaction id, so
  the batch of a crash between append and commit is appended again. (For
  `vessel_state_changes` the readers' `distinct` absorbs it; `positions_silver` and
  `positions_quarantine` keep the copies.)
- *expired_session*: `EXPIRED` is stamped with the last report's time. When that
  report committed the last transition, both rows have one `session_start`, and
  `lead()` may put EXPIRED first: the real session stays ongoing for ever.
- *anchor_to_berth*: `lead(state)` takes the very next session. A vessel that weighs
  anchor is under way before it moors, so the normal anchor-then-berth cycle has
  UNDERWAY as its next state and reads `proceeded_to_berth = false`.

Other things the code does, which the properties are stated around and no run calls a
violation:

- `poll(0)` follows a successful `produce` only. A client that is full of
  unserved reports stays full: every frame raises, the connection is closed and
  opened again, and the producer never delivers another frame until it is restarted. `KeepsSubscribing` holds in that
  state; "every frame is eventually produced" would not.
- After a normal close the next attempt follows without a pause, and a
  subscription resets the backoff: a server that accepts and closes is met in a
  tight loop. `AttemptsArePaced` speaks of attempts without a subscription only.
- `flush(10)`'s result is ignored: a message that the producer gives up, or that
  dies with the driver, is missing from Kafka although its batch is committed, against
  int_vessel_sessions.sql:7-9 ("at-least-once").
  `KafkaBeforeDelta` and `KafkaInOrder` are stated for a broker that is not stalled.
- A zone whose name changed between two releases has two rows in `int_zones` once
  drivers of both have written, and its sessions show twice. `ZonesAgree` is stated
  for rows of one file.
- A report that fails the quality checks is quarantined by the positions job and
  still drives the state machine, and its watermark.
- A discrepancy left open by a vessel that expired is paired with the first clear of
  a later life, though the comment at fct_discrepancy_events.sql:1-4 calls the pairing
  unambiguous, and a flag cleared at its own event time stays open: the two exceptions
  of `FlagsPairUp`.

- `read_only=True` does not keep the export clear of a build, as
  dashboard_export.py:56-59 says: DuckDB refuses a reader while another process writes,
  and a writer while another reads. `OpenForExport` and `OpenForBuild` fail then.

Of two runs that overlap, the one that queried first may publish last: the
snapshot can be replaced by an older one, until the next run. The tables cannot
(`GoldNeverGoesBack`).

### Bounds and why they are enough

- Tracking: one vessel is enough because the handler is per key; the others act
  through the watermark, which `FleetReport` moves. Thresholds of 2 leave room
  below, at and above each. `MaxTime` admits a transition or a flag, an expiry and a
  return; a transition in each of two lives is in `state_change_log`. The in-order
  run keeps a berth and an anchorage
  (all three raw states), and a status that agrees with one of them; the late run
  drops status and berth, which its properties do not read, and pays for
  lateness, a leading clock and liveness with it. `WATERMARK` is below
  `TIMEOUT_AFTER`, as 10 minutes is below 30: `TrackingAssumption`.
- Sinks: three or four records make up to as many batches, or one batch of
  several; two or three crashes can fall into one batch or into several.
- Positions: three records of five kinds (a report, two relays of it of which one is
  too late, one without a time from where two anchorages overlap, one on the rim of
  the outer) reach every combination of valid, rejected and twin in one batch or
  several. Seven surveys: two are released (the second after a terminal was renamed
  and breakwaters built), five have one defect each that a script must stop.
- Ship static: four records, JSON and two versions of which the older can read the
  newer and not the reverse (a field was added): a batch may be written by one driver
  and re-run by the next, which has fetched another version.
- Marts: one vessel (all readers partition by mmsi), an anchorage and a berth,
  thresholds of 1. Four event times are enough for a flag, a clear and a move inside
  a life, for two lives with a move in each, and for a dwell whose outcome comes
  with a later life; several reports may share one time. `MartView` leaves out the
  last step's events, which are the end of the log. Reports come in order: with late
  ones `session_start` can repeat.
- `expired_session` and `anchor_to_berth` stop at their counterexamples.
- Producer: three frames (routed, dead letter, refused) and a client that holds
  two reach a full client, a buffer behind a refused frame and a close with frames
  unread. With `MAX_BACKOFF` = 3 the pauses are 1, 2, 3, 3: below and at the cap.
- Orchestration: two syncs, two runs and two versions are a run that overlaps a sync, two
  runs that overlap, and a request repeated after a crash.

### Deadlock

The tracking, mart and producer runs check for deadlock: a batch can always end, a
journey and a producer can always go on. The sink runs stop when the bounded topic is consumed
and the orchestration run when its syncs and runs are used up, so they do not.

### Fairness

- `QueryFairness`: batches end, timeouts are handled, time passes: weak fairness of
  the driver's steps. The trigger is periodic and the service is restarted.
- `FeedFairness`: some vessel of the fleet reports the current time again and
  again (strong fairness, because the batch phase disables it in between). The
  feed never stops for long in a busy port; without it the watermark stands still
  and nobody expires, which is what event-time timeouts do.
- `DriverFairness`: the driver's steps only. Nothing is assumed of the broker
  (`Deliver`, `GiveUp`): Delta must be reached while Kafka is down.
- `Fairness` of the producer: its loop runs, the server admits it some time
  (a failed attempt is not forced), a message is delivered or times out. Nothing is
  assumed of the feed.
- `DaemonFairness`: the daemon's steps; strong fairness of launching and saving,
  because systemd restarts a daemon that dies and not every tick is cut short.

## 5. What is proved

Every invariant, every action property and every refinement that a passing run
checks is also a theorem, for every value of the constants: any vessels, zones,
thresholds and times, any topic and batching, any number of crashes, frames, attempts,
syncs and runs. The theorems are about the specification without fairness; the one with
fairness implies it.

| Module | Theorem | Statement |
|---|---|---|
| `VesselTrackingProofs` | `TypeCorrect` | `Spec => []TypeOK` |
| | `DebounceIsExact` | `Spec => []DebounceExact` |
| | `EventTimesOrdered` | `MaxLate <= WATERMARK => (Spec => []EventOrder)` |
| | `ExpiryIsSilence` | `MaxLate <= WATERMARK => (Spec => ExpiryNeedsSilence)` |
| | `LivesAreOrdered` | `MaxLate <= WATERMARK => (Spec => LivesDoNotOverlap)` |
| | `ArrivalsOrdered` | `MaxLate = 0 => (Spec => []ArrivalOrder)` |
| | `DebounceHeldInOrder` | `MaxLate = 0 => (Spec => HeldContinuously)` |
| | `DiscrepancySustainedInOrder` | `MaxLate = 0 => (Spec => DisagreementSustained)` |
| | `ImplementsJourney` | `MaxLate = 0 => (Spec => RefinesJourney)` |
| `StateChangeSinkProofs` | `TypeCorrect` | types, over deliveries, crashes and restarts |
| | `EventsDurable`, `RepeatsBounded` | `CommittedIsDurable`, `CopiesBounded` |
| | `KafkaLeads`, `KafkaOrdered` | `KafkaBeforeDelta`, `KafkaInOrder` |
| | `ImplementsTable` | `RefinesTable` |
| `PositionsSinkProofs` | `NothingLost`, `QuarantineFirst` | `CommittedHasLanded`, `QuarantineLeads` |
| | `KeysStoredOnce`, `OneZoneEach` | `TwinsStoredOnce`, `ZonesAgree` |
| `ShipStaticSinkProofs` | `LogsDoAgree`, `BatchesDecodedAsOne` | `LogsAgree`, `DecodedAsOne` |
| | `ImplementsTable` | `RefinesTable` |
| `JourneyMartsProofs` | `IdsAreUnique`, `FlagsArePaired` | `IdsUnique`, `FlagsPairUp` |
| | `OngoingCurrent`, `SessionsCover` | `OngoingIsCurrent`, `SessionsCoverReports` |
| | `AsOfExact` | `AsOfIsExact` |
| | `PublishedStands` | `MartSpec => HistoryIsFinal` |
| `ProducerProofs` | `FramesInOrder`, `LossesAreBehindRefusals` | `TopicsInOrder`, `SilentLossIsBehindRefusal` |
| | `BackoffPacesAttempts` | `AttemptsArePaced` |
| `OrchestrationProofs` | `OneRunEach`, `RunsSeeTheirSync` | `OneRunPerSync`, `RunSeesItsSync` |
| | `GoldOnlyRises` | `GoldNeverGoesBack` |

`StreamingQueryProofs` holds what the three sinks share: the batches are consecutive
ranges, at most one is planned and not committed (`QueryInv`).

### Assumptions

- `LogicAssumption`, `NoneAssumption`, `VesselJourneyAssumption`, `JourneyAssumption`:
  thresholds are positive (5, 15 and 30 minutes, vessel_state_logic.py:35-41); None is
  not a time, a zone, a zone type, a state or a record, as Python's None and SQL's NULL are not.
- `TrackingAssumption`: `WATERMARK <= TIMEOUT_AFTER` (10 and 30 minutes).
- `AreasAssumption`: in a zone file, two zones of which an overlap is allowed never have the
  same area. The allowed pairs are those of validate_zones.py; in `zones.geojson` the
  areas of each pair differ by far. Without it the two tie-breaks may choose
  differently, and the two jobs disagree: the code orders zones by area alone.
- `SchemaAssumption`: versions are numbered, and each reads what it wrote.
- `SinkAssumption`, `QueryAssumption`, `ProducerAssumption`, `OrchestrationAssumption`: bounds
  are numbers, the queue has room for one message, the cap of the backoff is positive.

The hypotheses `MaxLate <= WATERMARK` and `MaxLate = 0` bound how late a report
may come. Neither can be dropped: `debounce_late_row` refutes `HeldContinuously` with a
late row, and the first is explained below.

### The arguments

*Tracking.* `DebounceExact` is inductive with `TypeOK`: the candidate and the
history's run are reset by the same reports. `EventOrder` is the invariant behind
expiry: a vessel's newest report is at most `MaxLate` newer than its last *arrived*
one, from which the timeout counts; the watermark is `WATERMARK` behind the newest
event, which is at most `MaxAhead` beyond the clock. When the timeout falls behind
the watermark, the newest report is therefore still `TIMEOUT_AFTER` behind the clock
(the watermark's lag pays for the lateness), and behind the watermark itself because
`WATERMARK <= TIMEOUT_AFTER`; the next batch's late filter uses that watermark, so
everything accepted later is newer: lives are ordered. The hypothesis
`MaxLate <= WATERMARK` cannot be left to the late filter: it uses the previous batch's
watermark, so after a batch that moved the watermark far a row can be accepted that is
older than `WATERMARK`, move the timeout back and let the vessel expire early.
`ArrivalOrder` (no late reports) relates candidate and disagreement
to the newest report of each raw state and to the newest that agreed; the two
action properties follow from it in one step, with `DebounceElapsed` and `Flags`.

*Implementing `VesselJourney`.* The step of a report needs that a stored vessel's last
position *is* its newest report (`ArrivalOrder`), that a vessel that is gone is newer than
nothing it may still send (`EventOrder`), that a candidate exists exactly while the run
lasts (`DebounceExact`), and that what is stored is a place of the journey (`InPlace`: a
moored vessel is in a berth, and only a vessel with `discrepancy_since` is flagged). With these, each of `Observe`, `Expire` and the batch steps is a
`Begin`, `Stay`, `Move`, `End` or a stutter.

*Sinks.* `CommittedIsDurable` and `CopiesBounded` say nothing of a batch that is
written and not committed, so they are proved with `BatchesWritten`: a batch past its
write has each of its events in the table, a pending one before its write at most as
many copies as there were crashes. `KafkaInv` adds where each event is between `produce`
and delivery: what this run of the batch has produced is in the topic or in the queue
(`ProducedHeld`), and no message, in either, precedes the first copy of an earlier event
(`EarlierFirst`). In
`PositionsSink` the same is done for the two appends: `BatchLanded` (what a running batch
has written so far), `RejectsAhead` (between the appends the rejects are strictly ahead
of the rows) and `TwinsInHand` (before silver's append, the two rows of one key are stored
at most as often as there were crashes). `LogsAgree` and `DecodedAsOne` are inductive with
`NothingUnplanned`. The refinements map each write to the abstract append of its range.

*Marts.* The inductive invariant says what the log knows of a vessel: its rows are in
event-time order up to its newest report (`LogOrder`); only an EXPIRED row can share its
time with the transition before it (`StartsIncrease`); the last transition is where the
vessel is, and older than any suspicion that it is elsewhere, or it ended the last life
(`LastIsCurrent`: a move then is DEBOUNCE newer than the last one, which is what makes
`StartsIncrease` inductive); a dispute that can still be flagged began after every
earlier flag (`FlagOrder`); a flag that nothing ended is the vessel's dispute
(`OpenFlag`); and a report of each time lies in the transition of its place
(`HeldIsLogged`). `lead()`, the joins and `min` are then computed from the log
(`EndsInLog`, `NextInLog`). For `HistoryIsFinal` the same is done before and after a
step: new transitions are not before the old ones, and real ones are after them, so the
minimum that ends an old session stays (`MinStands`). Together with `ImplementsJourney`
this is about the query's events, as long as reports come in order: the constants that
the query gives `VesselJourney` satisfy its assumption by those of `VesselLogic`.

*Producer.* By `QueueInOrder` a topic's queue increases and is behind the topic;
`TopicsInOrder` follows for a retried or failed delivery too. `PacingInv` is
inductive for the backoff: the time since the last subscription is at least the sum of
the pauses, and `backoff` is at least the next pause, at each place of the loop.

*Orchestration.* `BuildInv` (one run writes; the version in DuckDB is between what the
writer read and the newest complete one) gives `GoldNeverGoesBack`; `MirrorInv` (the
mirror holds what every finished sync had listed) gives `RunSeesItsSync`.

Sums and minima are recursive functions and `CHOOSE`s; where an induction over numbers is
needed it is done with sets (`SetInduction`, `RecursionExists`, `MinOf`), from the
library's well-foundedness of the numbers, because the library's induction theorems take
an operator as a parameter.

### Only model-checked

- Liveness: `SilentVesselExpires`, `EventsReachDelta`, `ReportsLand`, `FramesSettle`,
  `KeepsSubscribing`, `EverySyncIsRun`. Liveness under fairness is beyond the prover.
- The four violations, which are counterexamples.
- The marts over the query's own log (`StateChangeLog`): the theorems are about the log of
  `VesselJourney`, and `ImplementsJourney` about the events of each step.

## 6. Abstractions

- Spark: rows are taken not to be so old that `setTimeoutTimestamp` raises
  (`Deliverable`). Rows of one key in one batch may span several Arrow chunks; the
  model sorts over the batch, the stronger reading.
- A position report whose payload does not decode is filtered out before it is one;
  decoding is modelled in `ShipStaticSink`, the same code serves both topics.
- In `VesselTracking` an observation has one zone or none: the choice among several
  is `BestZones`, and `ZonesAgree` says that it is one.
- A feature's geometry is a set of cells; projections, buffers and the tolerance of
  touching edges are Shapely's and Sedona's. The builders' network access, caches and
  operator names are left out.
- A batch in which nothing is to be written writes nothing: an append of no rows.
- Reader queries take distinct rows, so the log has each event once.

Hazards that the properties do not reach, each with its line in `PROJECT.json`: a row
so late that its batch fails, or more than WATERMARK late, which moves its vessel's
timeout back; the marts over late reports; relays of one broadcast in two
batches; two drivers with two zone files; a producer whose client stays full; an export
or a build that finds the DuckDB file locked; and a snapshot that is overtaken. There
the code promises nothing, or what it says of itself is not so (section 4).

## 7. Not modelled, and the plan

Not modelled: the daily rollup and `dim_vessels` (one grouping, one newest row per
vessel), staging projections, the choice of vessels and the rates of the accuracy
report, Terraform and host scripts, demos, Sedona's geometry, the coordinates of the
regulation and the download of the chart, Spark session configuration.

Plan, in order:

1. done: `VesselLogic`, `VesselTracking`, `StreamingQuery`, the three sinks,
   `TableLog`; proofs about `VesselTracking`.
2. done: `Producer` and `Orchestration`.
3. done: `VesselJourney` and its refinement; the marts over it; zones from survey to
   row; quality checks; versions of the schema.
4. done: proofs of every safety property and refinement that a passing run checks.
5. Left: the marts' theorems restated for the query's own log, with `held` as a history
   of the query.

`PROJECT.json` lists the components, runs, hazards, findings, theorems and, for
every definition, the lines it models.
