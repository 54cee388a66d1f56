--------------------------- MODULE VesselTracking ---------------------------
(***************************************************************************)
(* The vessel-state streaming query of processing/streaming/               *)
(* vessel_state_job.py: applyInPandasWithState runs update_vessel_state    *)
(* over the position reports of each micro-batch, keeps one VesselState    *)
(* per vessel in the state store, and expires a vessel whose timeout falls *)
(* behind the event-time watermark.                                        *)
(*                                                                         *)
(* A micro-batch has two phases: the rows of every vessel, in event-time   *)
(* order per vessel, then the timeouts.  The watermark is fixed during a   *)
(* batch; the end of the batch moves it to WATERMARK behind the newest     *)
(* event time of any row so far.  Rows at or behind the watermark of the   *)
(* batch BEFORE are dropped before they reach the handler: Spark 3.5 drops *)
(* late rows by that one and times out by the current one.  One action     *)
(* handles one row (one turn of the handler's loop), one expires one       *)
(* vessel.                                                                 *)
(*                                                                         *)
(* run, newest and agreed are history variables: they record what was      *)
(* observed, and only the properties read them.                            *)
(***************************************************************************)
EXTENDS VesselLogic, FiniteSets

CONSTANTS
  Vessels,     \* mmsi of the vessels followed
  WATERMARK,   \* lateness allowed by withWatermark (10 minutes)
  MaxAhead,    \* how far ahead of the wall clock an event time can be stamped
  MaxLate,     \* how much older than a vessel's newest report one can arrive
  MaxTime      \* bound on the wall clock

ASSUME TrackingAssumption ==
  /\ WATERMARK \in 0..TIMEOUT_AFTER
  /\ MaxAhead \in Nat
  /\ MaxLate \in Nat
  /\ MaxTime \in Nat

VARIABLES
  store,       \* the state store: a VesselState per tracked vessel, else None
  rowTime,     \* event time of the vessel's last row in the running batch
  phase,       \* "rows" or "timeouts": what the running batch is doing
  watermark,   \* the event-time watermark of the running batch
  lateMark,    \* that of the batch before, which decides what is late
  maxEvent,    \* newest event time of any row read so far
  now,         \* wall clock
  out,         \* the events the last step yielded
  run,         \* history: raw state of the current unbroken run, and its start
  newest,      \* history: newest event time seen per vessel and raw state
  agreed       \* history: newest event time of a report that agreed

history == <<run, newest, agreed>>
vars == <<store, rowTime, phase, watermark, lateMark, maxEvent, now, out, run, newest, agreed>>

NoRun == [raw |-> None, since |-> None]
Later(a, b) == IF a = None \/ a < b THEN b ELSE a
EventTimes == 0 .. (MaxTime + MaxAhead)

Init ==
  /\ store = [v \in Vessels |-> None]
  /\ rowTime = [v \in Vessels |-> None]
  /\ phase = "rows"
  /\ watermark = 0
  /\ lateMark = 0
  /\ maxEvent = 0
  /\ now = 0
  /\ out = <<>>
  /\ run = [v \in Vessels |-> NoRun]
  /\ newest = [v \in Vessels |-> [r \in RawStates |-> None]]
  /\ agreed = [v \in Vessels |-> None]

-----------------------------------------------------------------------------
StateOf(v) == IF store[v] = None THEN NewVesselState ELSE store[v]

\* Variants, each a slip the properties below must notice: the watermark filter
\* left out; timeouts held against the newest event instead of the watermark;
\* a watermark that moves back; no batch, and no watermark, without rows.
EveryRowAccepted(t) == TRUE
TimedOutEarly(v) == store[v] # None /\ store[v].last_position_time + TIMEOUT_AFTER < maxEvent
UnlatchedWatermark == maxEvent - WATERMARK
RowDrivenWatermark ==
  IF \E v \in Vessels : rowTime[v] # None
  THEN Later(watermark, maxEvent - WATERMARK) ELSE watermark

\* Rows of one vessel in one batch are handled in event-time order.
InBatchOrder(v, t) == rowTime[v] # None => rowTime[v] <= t

\* Rows at or behind the previous batch's watermark never reach the handler.
NotLate(t) == t > lateMark

\* What the feed can deliver: a bounded clock lead and a bounded delay.  For a
\* row whose timeout is at or behind the watermark already, setTimeoutTimestamp
\* would raise and stop the query: rows that late are taken not to come.
Deliverable(v, t) ==
  /\ t <= now + MaxAhead
  /\ t + TIMEOUT_AFTER > watermark
  /\ \A r \in RawStates : newest[v][r] # None => t + MaxLate >= newest[v][r]

NextRun(rn, o) ==
  IF rn.raw = ClassifyRawState(o) THEN rn
  ELSE [raw |-> ClassifyRawState(o), since |-> o.time]

RecordHistory(v, o) ==
  LET raw == ClassifyRawState(o)
  IN  /\ run' = [run EXCEPT ![v] = NextRun(run[v], o)]
      /\ newest' = [newest EXCEPT ![v][raw] = Later(newest[v][raw], o.time)]
      /\ agreed' = IF Agrees(StateOf(v), o)
                   THEN [agreed EXCEPT ![v] = Later(agreed[v], o.time)]
                   ELSE agreed

\* update_vessel_state, one row: classify, debounce, compare, keep the state.
Observe(v, o) ==
  /\ phase = "rows"
  /\ Deliverable(v, o.time)
  /\ NotLate(o.time)
  /\ InBatchOrder(v, o.time)
  /\ store' = [store EXCEPT ![v] = ProcessObservation(StateOf(v), o)]
  /\ out' = ObservationEvents(v, StateOf(v), o)
  /\ rowTime' = [rowTime EXCEPT ![v] = o.time]
  /\ maxEvent' = Later(maxEvent, o.time)
  /\ RecordHistory(v, o)
  /\ UNCHANGED <<phase, watermark, lateMark, now>>

\* A row of a vessel that is not followed here: only its event time matters.
FleetReport(t) ==
  /\ phase = "rows"
  /\ t > maxEvent /\ t <= now + MaxAhead
  /\ maxEvent' = t
  /\ out' = <<>>
  /\ UNCHANGED <<store, rowTime, phase, watermark, lateMark, now, history>>

\* The rows of the batch are exhausted: its timeouts are next.
RowsDone ==
  /\ phase = "rows"
  /\ phase' = "timeouts"
  /\ out' = <<>>
  /\ UNCHANGED <<store, rowTime, watermark, lateMark, maxEvent, now, history>>

TimedOut(v) ==
  /\ store[v] # None
  /\ store[v].last_position_time + TIMEOUT_AFTER < watermark

\* update_vessel_state with hasTimedOut: emit the departure, drop the state.
Expire(v) ==
  /\ phase = "timeouts"
  /\ TimedOut(v)
  /\ store' = [store EXCEPT ![v] = None]
  /\ out' = ProcessTimeout(v, store[v])
  /\ run' = [run EXCEPT ![v] = NoRun]
  /\ agreed' = [agreed EXCEPT ![v] = None]
  /\ UNCHANGED <<rowTime, phase, watermark, lateMark, maxEvent, now, newest>>

\* The watermark never moves back, and the end of every batch moves it, of one
\* without rows too.
NextWatermark == Later(watermark, maxEvent - WATERMARK)

\* The batch commits and the watermark moves for the next one.
EndBatch ==
  /\ phase = "timeouts"
  /\ \A v \in Vessels : ~TimedOut(v)
  /\ phase' = "rows"
  /\ watermark' = NextWatermark
  /\ lateMark' = watermark
  /\ rowTime' = [v \in Vessels |-> None]
  /\ out' = <<>>
  /\ UNCHANGED <<store, maxEvent, now, history>>

Tick ==
  /\ now < MaxTime
  /\ now' = now + 1
  /\ out' = <<>>
  /\ UNCHANGED <<store, rowTime, phase, watermark, lateMark, maxEvent, history>>

Next ==
  \/ \E v \in Vessels, o \in Observations(EventTimes) : Observe(v, o)
  \/ \E t \in EventTimes : FleetReport(t)
  \/ RowsDone
  \/ \E v \in Vessels : Expire(v)
  \/ EndBatch
  \/ Tick

Spec == Init /\ [][Next]_vars

\* The query is scheduled: rows end, timeouts are handled, batches commit,
\* and time passes.  The job is restarted by systemd/launchd when it stops.
QueryFairness ==
  /\ WF_vars(RowsDone) /\ WF_vars(EndBatch) /\ WF_vars(Tick)
  /\ \A v \in Vessels : WF_vars(Expire(v))

\* The feed is alive: some vessel of the fleet keeps reporting current times.
FeedFairness == SF_vars(FleetReport(now))

LiveSpec == Spec /\ QueryFairness /\ FeedFairness

-----------------------------------------------------------------------------
(* Type invariant.                                                         *)

Events ==
  [mmsi: Vessels, type: {"state_transition", "discrepancy_flagged", "discrepancy_cleared"},
   from: RawStates \cup {"UNKNOWN", None}, derived: RawStates \cup {"EXPIRED"},
   zone: Zones \cup {None}, time: Nat]

\* Every variable keeps its type; a state in the store is never UNKNOWN.
TypeOK ==
  /\ store \in [Vessels -> {s \in VesselStates : /\ s.current_state # "UNKNOWN"
                                                /\ s.last_position_time # None} \cup {None}]
  /\ rowTime \in [Vessels -> Nat \cup {None}]
  /\ phase \in {"rows", "timeouts"}
  /\ watermark \in Nat /\ lateMark \in Nat
  /\ maxEvent \in Nat /\ now \in Nat
  /\ out \in Seq(Events)
  /\ run \in [Vessels -> [raw: RawStates \cup {None}, since: Nat \cup {None}]]
  /\ newest \in [Vessels -> [RawStates -> Nat \cup {None}]]
  /\ agreed \in [Vessels -> Nat \cup {None}]

-----------------------------------------------------------------------------
(* Properties.                                                             *)

\* What one step does to a vessel.
Changes(v) ==
  /\ store[v] # None /\ store'[v] # None
  /\ store'[v].current_state # store[v].current_state
Expires(v) == store[v] # None /\ store'[v] = None
Enters(v) == store[v] = None /\ store'[v] # None
Raises(v) ==
  /\ store[v] # None /\ store'[v] # None
  /\ store'[v].discrepancy_flagged /\ ~store[v].discrepancy_flagged

\* The debounce is exact in arrival order, whatever that order is: while the
\* vessel reports its current raw state there is no candidate, and while it
\* reports another one the candidate is precisely that unbroken run of
\* reports, not yet DEBOUNCE long (no transition is early, none is missed).
\* vessel_state_logic.py:97-124 keeps it across flaps, batches and expiries.
RunMatches(st, rn) ==
  IF rn.raw = st.current_state
  THEN st.candidate_state = None /\ st.candidate_since = None
  ELSE /\ st.candidate_state = rn.raw
       /\ st.candidate_since = rn.since
       /\ rn.raw # None /\ rn.since # None
       /\ st.last_position_time - rn.since < DEBOUNCE

DebounceExact == \A v \in Vessels : store[v] # None => RunMatches(store[v], run[v])

\* How far event times can be out of order, when no report comes more than
\* WATERMARK after a newer one of its vessel.  The watermark is WATERMARK behind
\* the newest event, which is at most MaxAhead beyond the clock; what a tracked
\* vessel reported is at most MaxLate newer than the last report that ARRIVED;
\* what an expired one reported is behind every row still accepted.
ClockOrder ==
  /\ maxEvent <= now + MaxAhead
  /\ watermark = 0 \/ watermark + WATERMARK <= maxEvent
  /\ lateMark <= watermark

ReportOrder(v, t) ==
  /\ store[v] = None => /\ t < watermark
                        /\ phase = "rows" => t < lateMark
  /\ store[v] # None => t <= store[v].last_position_time + MaxLate

EventOrder ==
  /\ ClockOrder
  /\ \A v \in Vessels, r \in RawStates :
       newest[v][r] # None => ReportOrder(v, newest[v][r])

\* When nothing arrives late (MaxLate = 0): the last report is the newest one; a
\* candidate is at least as new as every report of another raw state, and a
\* disagreement at least as new as every report that agreed.
ArrivalOrder ==
  \A v \in Vessels :
    IF store[v] = None THEN agreed[v] = None
    ELSE LET st == store[v] IN
      /\ \E r \in RawStates : newest[v][r] = st.last_position_time
      /\ \A r \in RawStates : newest[v][r] # None =>
           /\ newest[v][r] <= st.last_position_time
           /\ st.candidate_state \notin {None, r} => newest[v][r] <= st.candidate_since
      /\ agreed[v] # None =>
           /\ agreed[v] <= st.last_position_time
           /\ st.discrepancy_since # None => agreed[v] <= st.discrepancy_since

\* A transition of a tracked vessel means its new raw state has held for
\* DEBOUNCE of event time: no report of another raw state is stamped within
\* the DEBOUNCE before the report that commits it (README.md:99-101).
HeldContinuously ==
  [][\A v \in Vessels : Changes(v) =>
       \A r \in RawStates \ {store'[v].current_state} :
         newest[v][r] # None =>
           newest[v][r] + DEBOUNCE <= store'[v].last_position_time]_vars

\* A vessel expires only after real silence: the wall clock, even when the
\* feed stamps event times MaxAhead early, is more than TIMEOUT_AFTER past
\* every report of that vessel.  The state keeps the time of the last report
\* ARRIVED, which a late report moves back (vessel_state_logic.py:129); the
\* watermark's own lag makes up for it as long as MaxLate <= WATERMARK.
ExpiryNeedsSilence ==
  [][\A v \in Vessels : Expires(v) =>
       \A r \in RawStates : newest[v][r] # None =>
         newest[v][r] + TIMEOUT_AFTER < now + MaxAhead]_vars

\* Lives of a vessel do not overlap: a vessel that expired and comes back
\* starts its new life at an event time after everything of the old one, so
\* its sessions can be ordered by time alone (int_vessel_sessions.sql:29).
LivesDoNotOverlap ==
  [][\A v \in Vessels : Enters(v) =>
       \A r \in RawStates : newest[v][r] # None =>
         newest[v][r] < store'[v].last_position_time]_vars

\* A discrepancy is raised only when it was sustained: within the
\* DISCREPANCY_THRESHOLD before it no compared report agreed with the state
\* derived at the time (vessel_state_logic.py:20-22).
DisagreementSustained ==
  [][\A v \in Vessels : Raises(v) /\ agreed[v] # None =>
       agreed[v] + DISCREPANCY_THRESHOLD <= store'[v].last_position_time]_vars

\* A tracked vessel that falls silent is expired (vessel_state_logic.py:39-41),
\* given a time horizon long enough to see it happen.
ExpiryHorizon == MaxTime - TIMEOUT_AFTER - WATERMARK - 1
SilentVesselExpires ==
  \A v \in Vessels :
    (store[v] # None /\ StateOf(v).last_position_time <= ExpiryHorizon)
      ~> (store[v] = None \/ StateOf(v).last_position_time > ExpiryHorizon)
=============================================================================
