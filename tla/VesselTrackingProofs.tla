------------------------ MODULE VesselTrackingProofs ------------------------
(***************************************************************************)
(* Theorems about VesselTracking, for every value of its constants.        *)
(***************************************************************************)
EXTENDS TrackingRefinement, SequenceTheorems, TLAPS

USE LogicAssumption, TrackingAssumption DEF RawStates

-----------------------------------------------------------------------------
(* Lemmas about the per-vessel operators.                                  *)

LEMMA ClassifyType == ASSUME NEW o PROVE ClassifyRawState(o) \in RawStates
BY DEF ClassifyRawState

LEMMA ObservationType ==
  ASSUME NEW o \in Observations(EventTimes)
  PROVE  /\ o.time \in Nat
         /\ o.zone \in Zones \cup {None}
BY DEF Observations, EventTimes

LEMMA LaterType ==
  ASSUME NEW a \in Nat \cup {None}, NEW b \in Nat
  PROVE  Later(a, b) \in Nat
BY DEF Later

\* A report always leaves a well-formed, known state behind.
LEMMA ProcessType ==
  ASSUME NEW st \in VesselStates, NEW o \in Observations(EventTimes)
  PROVE  /\ ProcessObservation(st, o) \in VesselStates
         /\ ProcessObservation(st, o).current_state # "UNKNOWN"
         /\ ProcessObservation(st, o).last_position_time = o.time
<1> DEFINE n == ProcessObservation(st, o)
           raw == ClassifyRawState(o)
<1>1. /\ raw \in RawStates
      /\ o.time \in Nat
      /\ o.zone \in Zones \cup {None}
  BY ClassifyType, ObservationType
<1>2. StateAfter(st, o) \in RawStates
  BY <1>1 DEF StateAfter, Moves, VesselStates
<1>3. CandidateAfter(st, o) \in RawStates \cup {None}
  BY <1>1 DEF CandidateAfter
<1>4. CandidateSinceAfter(st, o) \in Nat \cup {None}
  BY <1>1 DEF CandidateSinceAfter, VesselStates
<1>5. DiscrepancySinceAfter(st, o) \in Nat \cup {None}
  BY <1>1 DEF DiscrepancySinceAfter, VesselStates
<1>6. DiscrepancyFlaggedAfter(st, o) \in BOOLEAN
  BY DEF DiscrepancyFlaggedAfter
<1>7. (IF Moves(st, o) THEN EntryZone(o) ELSE st.current_zone_id) \in Zones \cup {None}
  BY <1>1 DEF EntryZone, VesselStates
<1> QED
  BY <1>1, <1>2, <1>3, <1>4, <1>5, <1>6, <1>7 DEF ProcessObservation, VesselStates

\* The events of a report are well-formed.
LEMMA ObservationEventsType ==
  ASSUME NEW v \in Vessels, NEW st \in VesselStates, NEW o \in Observations(EventTimes)
  PROVE  ObservationEvents(v, st, o) \in Seq(Events)
<1>1. /\ ClassifyRawState(o) \in RawStates
      /\ o.time \in Nat
      /\ EntryZone(o) \in Zones \cup {None}
      /\ st.current_state \in RawStates \cup {"UNKNOWN"}
  BY ClassifyType, ObservationType DEF EntryZone, VesselStates
<1>2. StateAfter(st, o) \in RawStates
  BY <1>1 DEF StateAfter, Moves
<1>3. TransitionEvent(v, st.current_state, ClassifyRawState(o), EntryZone(o), o.time) \in Events
  BY <1>1 DEF TransitionEvent, Events
<1>4. /\ DiscrepancyEvent(v, "discrepancy_flagged", StateAfter(st, o), o.time) \in Events
      /\ DiscrepancyEvent(v, "discrepancy_cleared", StateAfter(st, o), o.time) \in Events
  BY <1>1, <1>2 DEF DiscrepancyEvent, Events
<1>5. TransitionEvents(v, st, o) \in Seq(Events)
  BY <1>3 DEF TransitionEvents
<1>6. DiscrepancyEvents(v, st, o) \in Seq(Events)
  BY <1>4 DEF DiscrepancyEvents
<1> QED
  BY <1>5, <1>6 DEF ObservationEvents

LEMMA NewStateType == NewVesselState \in VesselStates
BY DEF NewVesselState, VesselStates

-----------------------------------------------------------------------------
(* Type correctness.                                                       *)

LEMMA StateOfType ==
  ASSUME TypeOK, NEW v \in Vessels PROVE StateOf(v) \in VesselStates
BY NewStateType DEF StateOf, TypeOK

LEMMA InitType == Init => TypeOK
BY DEF Init, TypeOK, NoRun

LEMMA NextType == TypeOK /\ [Next]_vars => TypeOK'
<1> SUFFICES ASSUME TypeOK, [Next]_vars PROVE TypeOK'
  OBVIOUS
<1>1. ASSUME NEW v \in Vessels, NEW o \in Observations(EventTimes), Observe(v, o)
      PROVE  TypeOK'
  <2>1. StateOf(v) \in VesselStates
    BY StateOfType
  <2>2. /\ o.time \in Nat
        /\ ClassifyRawState(o) \in RawStates
    BY ClassifyType, ObservationType
  <2>3. store' \in [Vessels -> {s \in VesselStates : /\ s.current_state # "UNKNOWN"
                                                     /\ s.last_position_time # None} \cup {None}]
    BY <1>1, <2>1, <2>2, ProcessType DEF Observe, TypeOK
  <2>4. out' \in Seq(Events)
    BY <1>1, <2>1, ObservationEventsType DEF Observe
  <2>5. /\ rowTime' \in [Vessels -> Nat \cup {None}]
        /\ maxEvent' \in Nat
        /\ phase' \in {"rows", "timeouts"}
        /\ watermark' \in Nat /\ lateMark' \in Nat /\ now' \in Nat
    BY <1>1, <2>2 DEF Observe, TypeOK, Later
  <2>6. run' \in [Vessels -> [raw: RawStates \cup {None}, since: Nat \cup {None}]]
    <3>1. run[v] \in [raw: RawStates \cup {None}, since: Nat \cup {None}]
      BY DEF TypeOK
    <3>2. NextRun(run[v], o) \in [raw: RawStates \cup {None}, since: Nat \cup {None}]
      BY <2>2, <3>1 DEF NextRun
    <3> QED
      BY <1>1, <3>2 DEF Observe, RecordHistory, TypeOK
  <2>7. newest' \in [Vessels -> [RawStates -> Nat \cup {None}]]
    <3>1. newest[v][ClassifyRawState(o)] \in Nat \cup {None}
      BY <2>2 DEF TypeOK
    <3>2. Later(newest[v][ClassifyRawState(o)], o.time) \in Nat
      BY <2>2, <3>1, LaterType
    <3> QED
      BY <1>1, <2>2, <3>2 DEF Observe, RecordHistory, TypeOK
  <2>8. agreed' \in [Vessels -> Nat \cup {None}]
    <3>1. Later(agreed[v], o.time) \in Nat
      BY <2>2, LaterType DEF TypeOK
    <3> QED
      BY <1>1, <3>1 DEF Observe, RecordHistory, TypeOK
  <2> QED
    BY <2>3, <2>4, <2>5, <2>6, <2>7, <2>8 DEF TypeOK
<1>2. ASSUME NEW t \in EventTimes, FleetReport(t) PROVE TypeOK'
  BY <1>2 DEF FleetReport, TypeOK, EventTimes, history
<1>3. CASE RowsDone
  BY <1>3 DEF RowsDone, TypeOK, history
<1>4. ASSUME NEW v \in Vessels, Expire(v) PROVE TypeOK'
  <2>1. ProcessTimeout(v, store[v]) \in Seq(Events)
    <3>1. /\ store[v].current_state \in RawStates
          /\ store[v].last_position_time \in Nat
      BY <1>4 DEF Expire, TimedOut, TypeOK, VesselStates
    <3>2. TransitionEvent(v, store[v].current_state, "EXPIRED", None,
                          store[v].last_position_time) \in Events
      BY <3>1 DEF TransitionEvent, Events
    <3> QED
      BY <3>2 DEF ProcessTimeout
  <2> QED
    BY <1>4, <2>1 DEF Expire, TypeOK, NoRun
<1>5. CASE EndBatch
  <2>1. NextWatermark \in Nat
    BY DEF NextWatermark, TypeOK, Later
  <2> QED
    BY <1>5, <2>1 DEF EndBatch, TypeOK, history
<1>6. CASE Tick
  BY <1>6 DEF Tick, TypeOK, history
<1>7. CASE UNCHANGED vars
  BY <1>7 DEF vars, TypeOK
<1> QED
  BY <1>1, <1>2, <1>3, <1>4, <1>5, <1>6, <1>7 DEF Next

\* Type correctness of the tracking query (the domains its code assumes).
THEOREM TypeCorrect == Spec => []TypeOK
BY InitType, NextType, PTL DEF Spec

-----------------------------------------------------------------------------
(* The debounce.                                                           *)

\* One report keeps candidate and run of reports in step.
LEMMA DebounceStep ==
  ASSUME NEW st \in VesselStates, NEW o \in Observations(EventTimes),
         NEW rn \in [raw: RawStates \cup {None}, since: Nat \cup {None}],
         st.current_state = "UNKNOWN" \/ RunMatches(st, rn)
  PROVE  RunMatches(ProcessObservation(st, o), NextRun(rn, o))
<1> DEFINE raw == ClassifyRawState(o)
           n == ProcessObservation(st, o)
<1>1. raw \in RawStates /\ o.time \in Nat
  BY ClassifyType, ObservationType
<1>2. /\ NextRun(rn, o).raw = raw
      /\ n.current_state = StateAfter(st, o)
      /\ n.candidate_state = CandidateAfter(st, o)
      /\ n.candidate_since = CandidateSinceAfter(st, o)
      /\ n.last_position_time = o.time
  BY DEF NextRun, ProcessObservation
<1>3. CASE Moves(st, o) \/ raw = st.current_state
  <2>1. n.current_state = raw
    BY <1>2, <1>3 DEF StateAfter
  <2>2. n.candidate_state = None /\ n.candidate_since = None
    BY <1>2, <1>3 DEF CandidateAfter, CandidateSinceAfter
  <2> QED
    BY <1>2, <2>1, <2>2 DEF RunMatches
<1>4. CASE ~(Moves(st, o) \/ raw = st.current_state)
  <2>1. /\ n.current_state = st.current_state
        /\ n.candidate_state = raw
        /\ raw # st.current_state
        /\ st.current_state # "UNKNOWN"
    BY <1>2, <1>4 DEF StateAfter, CandidateAfter, Moves
  <2>2. RunMatches(st, rn)
    BY <2>1
  <2>3. CASE st.candidate_state = raw
    <3>1. rn.raw # st.current_state
      BY <1>1, <2>2, <2>3 DEF RunMatches
    <3>2. rn.raw = raw /\ st.candidate_since = rn.since /\ rn.since \in Nat
      BY <2>2, <2>3, <3>1 DEF RunMatches
    <3>3. NextRun(rn, o) = rn
      BY <3>2 DEF NextRun
    <3>4. n.candidate_since = st.candidate_since
      BY <1>1, <1>2, <2>1, <2>3 DEF CandidateSinceAfter
    <3>5. o.time - st.candidate_since < DEBOUNCE
      BY <1>1, <1>4, <2>1, <2>3, <3>2 DEF Moves, DebounceElapsed
    <3> QED
      BY <1>1, <1>2, <2>1, <3>2, <3>3, <3>4, <3>5 DEF RunMatches
  <2>4. CASE st.candidate_state # raw
    <3>1. rn.raw # raw
      BY <1>1, <2>1, <2>2, <2>4 DEF RunMatches
    <3>2. NextRun(rn, o) = [raw |-> raw, since |-> o.time]
      BY <3>1 DEF NextRun
    <3>3. n.candidate_since = o.time
      BY <1>1, <1>2, <2>1, <2>4 DEF CandidateSinceAfter
    <3> QED
      BY <1>1, <1>2, <2>1, <3>2, <3>3 DEF RunMatches
  <2> QED
    BY <2>3, <2>4
<1> QED
  BY <1>3, <1>4

LEMMA NextDebounce == TypeOK /\ DebounceExact /\ [Next]_vars => DebounceExact'
<1> SUFFICES ASSUME TypeOK, DebounceExact, [Next]_vars PROVE DebounceExact'
  OBVIOUS
<1>1. ASSUME NEW v \in Vessels, NEW o \in Observations(EventTimes), Observe(v, o)
      PROVE  DebounceExact'
  <2>1. StateOf(v) \in VesselStates
    BY StateOfType
  <2>2. run[v] \in [raw: RawStates \cup {None}, since: Nat \cup {None}]
    BY DEF TypeOK
  <2>3. StateOf(v).current_state = "UNKNOWN" \/ RunMatches(StateOf(v), run[v])
    BY DEF StateOf, DebounceExact, NewVesselState
  <2>4. RunMatches(ProcessObservation(StateOf(v), o), NextRun(run[v], o))
    BY <2>1, <2>2, <2>3, DebounceStep
  <2>5. /\ store' = [store EXCEPT ![v] = ProcessObservation(StateOf(v), o)]
        /\ run' = [run EXCEPT ![v] = NextRun(run[v], o)]
    BY <1>1 DEF Observe, RecordHistory
  <2>6. ASSUME NEW w \in Vessels, store'[w] # None PROVE RunMatches(store'[w], run'[w])
    <3>1. CASE w = v
      BY <2>4, <2>5, <3>1 DEF TypeOK
    <3>2. CASE w # v
      BY <2>5, <2>6, <3>2 DEF TypeOK, DebounceExact
    <3> QED
      BY <3>1, <3>2
  <2> QED
    BY <2>6 DEF DebounceExact, RunMatches
<1>2. ASSUME NEW v \in Vessels, Expire(v) PROVE DebounceExact'
  <2>1. ASSUME NEW w \in Vessels, store'[w] # None
        PROVE  store'[w] = store[w] /\ run'[w] = run[w]
    BY <1>2, <2>1 DEF Expire, TypeOK
  <2> QED
    BY <2>1 DEF DebounceExact, RunMatches
<1>3. CASE UNCHANGED <<store, run>>
  BY <1>3 DEF DebounceExact, RunMatches
<1> QED
  BY <1>1, <1>2, <1>3
  DEF Next, vars, history, FleetReport, RowsDone, EndBatch, Tick

\* The debounce is exact in arrival order (VesselLogic's Moves).
THEOREM DebounceIsExact == Spec => []DebounceExact
<1>1. Init => DebounceExact
  BY DEF Init, DebounceExact
<1> QED
  BY <1>1, NextDebounce, TypeCorrect, PTL DEF Spec

-----------------------------------------------------------------------------
(* The order of event times, and what an expiry says about silence.        *)

\* A step that leaves the store and the watermarks alone, and only moves from
\* the rows to the timeouts.
LEMMA OrderMonotone ==
  ASSUME EventOrder, ClockOrder', UNCHANGED <<store, newest, watermark, lateMark>>,
         phase' = phase \/ phase' = "timeouts"
  PROVE  EventOrder'
<1> SUFFICES ASSUME NEW v \in Vessels, NEW r \in RawStates, newest[v][r] # None
             PROVE  ReportOrder(v, newest[v][r])'
  BY DEF EventOrder
<1>1. ReportOrder(v, newest[v][r])
  BY DEF EventOrder
<1> QED
  BY <1>1 DEF ReportOrder

LEMMA ObserveOrder ==
  ASSUME TypeOK, TypeOK', EventOrder,
         NEW v \in Vessels, NEW o \in Observations(EventTimes), Observe(v, o)
  PROVE  EventOrder'
<1> DEFINE raw == ClassifyRawState(o)
<1>1. /\ o.time \in Nat
      /\ raw \in RawStates
      /\ MaxAhead \in Nat /\ MaxLate \in Nat
  BY ClassifyType, ObservationType
<1>2. /\ maxEvent \in Nat /\ maxEvent' \in Nat /\ now \in Nat
      /\ maxEvent' = Later(maxEvent, o.time)
      /\ UNCHANGED <<phase, watermark, lateMark, now>>
      /\ o.time <= now + MaxAhead
      /\ \A r \in RawStates : newest[v][r] # None => newest[v][r] <= o.time + MaxLate
  BY DEF TypeOK, Observe, Deliverable
<1>3. maxEvent <= maxEvent' /\ (maxEvent' = maxEvent \/ maxEvent' = o.time)
  BY <1>1, <1>2 DEF Later
<1>4. ClockOrder'
  <2>1. ClockOrder /\ watermark \in Nat /\ WATERMARK \in Nat
    BY DEF EventOrder, TypeOK
  <2> QED
    BY <1>1, <1>2, <1>3, <2>1 DEF ClockOrder
<1>5. /\ store' = [store EXCEPT ![v] = ProcessObservation(StateOf(v), o)]
      /\ newest' = [newest EXCEPT ![v][raw] = Later(newest[v][raw], o.time)]
  BY DEF Observe, RecordHistory
<1>6. store'[v] # None /\ store'[v].last_position_time = o.time
  <2>1. StateOf(v) \in VesselStates
    BY StateOfType
  <2>2. ProcessObservation(StateOf(v), o) # None
    BY <2>1, ProcessType, NoneAssumption
  <2> QED
    BY <1>5, <2>1, <2>2, ProcessType DEF TypeOK
<1>7. ASSUME NEW w \in Vessels, NEW r \in RawStates, newest'[w][r] # None
      PROVE  ReportOrder(w, newest[w][r])'
  <2>1. newest[w] \in [RawStates -> Nat \cup {None}]
    BY DEF TypeOK
  <2>2. CASE w # v
    <3>1. newest'[w][r] = newest[w][r] /\ store'[w] = store[w]
      BY <1>5, <2>2 DEF TypeOK
    <3>2. ReportOrder(w, newest[w][r])
      BY <1>7, <3>1 DEF EventOrder
    <3> QED
      BY <1>2, <3>1, <3>2 DEF ReportOrder
  <2>3. CASE w = v
    <3>1. newest'[v][r] = o.time \/ (newest[v][r] # None /\ newest'[v][r] = newest[v][r])
      BY <1>1, <1>5, <1>7, <2>1, <2>3 DEF Later, TypeOK
    <3>2. newest'[v][r] <= o.time + MaxLate
      BY <1>1, <1>2, <3>1
    <3> QED
      BY <1>6, <2>3, <3>2 DEF ReportOrder
  <2> QED
    BY <2>2, <2>3
<1> QED
  BY <1>4, <1>7 DEF EventOrder

\* An expired vessel's last report is TIMEOUT_AFTER behind the watermark, and
\* the newest one at most MaxLate ahead of the last.
LEMMA ExpireOrder ==
  ASSUME MaxLate <= WATERMARK, TypeOK, EventOrder, NEW v \in Vessels, Expire(v)
  PROVE  EventOrder'
<1>1. ClockOrder'
  BY DEF Expire, EventOrder, ClockOrder
<1>2. ASSUME NEW w \in Vessels, NEW r \in RawStates, newest'[w][r] # None
      PROVE  ReportOrder(w, newest[w][r])'
  <2>1. newest'[w][r] = newest[w][r] /\ ReportOrder(w, newest[w][r])
    BY <1>2 DEF Expire, EventOrder
  <2>2. CASE w # v
    <3>1. store'[w] = store[w]
      BY <2>2 DEF Expire, TypeOK
    <3> QED
      BY <2>1, <3>1 DEF Expire, ReportOrder
  <2>3. CASE w = v
    <3>1. store'[v] = None /\ store[v] # None
      BY DEF Expire, TimedOut, TypeOK
    <3>2. /\ store[v].last_position_time \in Nat
          /\ store[v].last_position_time + TIMEOUT_AFTER < watermark
      BY <3>1 DEF Expire, TimedOut, TypeOK, VesselStates
    <3>3. newest[v] \in [RawStates -> Nat \cup {None}] /\ watermark \in Nat
      BY DEF TypeOK
    <3>4. newest[v][r] \in Nat /\ newest[v][r] <= store[v].last_position_time + MaxLate
      BY <1>2, <2>1, <2>3, <3>1, <3>3 DEF ReportOrder
    <3>5. newest[v][r] < watermark
      BY <3>2, <3>3, <3>4
    <3> QED
      BY <2>1, <2>3, <3>1, <3>5 DEF Expire, ReportOrder
  <2> QED
    BY <2>2, <2>3
<1> QED
  BY <1>1, <1>2 DEF EventOrder

LEMMA EndBatchOrder ==
  ASSUME TypeOK, EventOrder, EndBatch
  PROVE  EventOrder'
<1> DEFINE w == NextWatermark
<1>1. /\ watermark \in Nat /\ maxEvent \in Nat /\ WATERMARK \in Nat
      /\ watermark' = w /\ lateMark' = watermark
      /\ UNCHANGED <<store, newest, maxEvent, now>>
  BY DEF TypeOK, EndBatch, history
<1>2. /\ w \in Nat
      /\ watermark <= w
      /\ w = watermark \/ w + WATERMARK = maxEvent
  BY <1>1 DEF NextWatermark, Later
<1> HIDE DEF w
<1>3. ClockOrder'
  BY <1>1, <1>2 DEF EventOrder, ClockOrder
<1>4. ASSUME NEW v \in Vessels, NEW r \in RawStates, newest[v][r] # None
      PROVE  ReportOrder(v, newest[v][r])'
  <2>1. newest[v] \in [RawStates -> Nat \cup {None}]
    BY DEF TypeOK
  <2>2. newest[v][r] \in Nat
    BY <1>4, <2>1
  <2>3. ReportOrder(v, newest[v][r])
    BY <1>4 DEF EventOrder
  <2>4. store[v] = None => newest[v][r] < watermark /\ newest[v][r] < w
    BY <1>1, <1>2, <2>2, <2>3 DEF ReportOrder
  <2> QED
    BY <1>1, <2>3, <2>4 DEF ReportOrder
<1> QED
  BY <1>1, <1>3, <1>4 DEF EventOrder

LEMMA NextOrder ==
  ASSUME MaxLate <= WATERMARK
  PROVE  TypeOK /\ TypeOK' /\ EventOrder /\ [Next]_vars => EventOrder'
<1> SUFFICES ASSUME TypeOK, TypeOK', EventOrder, [Next]_vars PROVE EventOrder'
  OBVIOUS
<1>1. ASSUME NEW t \in EventTimes, FleetReport(t) PROVE EventOrder'
  <2>1. /\ maxEvent \in Nat /\ watermark \in Nat /\ t \in Nat
        /\ maxEvent <= t /\ maxEvent' = t
        /\ UNCHANGED <<store, newest, watermark, lateMark, phase>>
    BY <1>1 DEF FleetReport, TypeOK, EventTimes, history
  <2>2. ClockOrder'
    BY <1>1, <2>1 DEF FleetReport, EventOrder, ClockOrder
  <2> QED
    BY <2>1, <2>2, OrderMonotone
<1>2. CASE RowsDone \/ Tick \/ UNCHANGED vars
  <2>1. /\ UNCHANGED <<store, newest, maxEvent, watermark, lateMark>>
        /\ phase' = phase \/ phase' = "timeouts"
        /\ now' = now \/ now' = now + 1
        /\ maxEvent \in Nat /\ watermark \in Nat /\ now \in Nat
    BY <1>2 DEF RowsDone, Tick, vars, history, TypeOK
  <2>2. ClockOrder'
    BY <2>1 DEF EventOrder, ClockOrder, TypeOK
  <2> QED
    BY <2>1, <2>2, OrderMonotone
<1> QED
  BY <1>1, <1>2, ObserveOrder, ExpireOrder, EndBatchOrder DEF Next

\* Event times stay ordered around the two watermarks, as long as no report
\* comes more than WATERMARK after a newer one of its vessel.
THEOREM EventTimesOrdered == MaxLate <= WATERMARK => (Spec => []EventOrder)
<1> SUFFICES ASSUME MaxLate <= WATERMARK PROVE Spec => []EventOrder
  OBVIOUS
<1>1. Init => EventOrder
  BY DEF Init, EventOrder, ClockOrder
<1>2. TypeOK /\ TypeOK' /\ EventOrder /\ [Next]_vars => EventOrder'
  BY NextOrder
<1> QED
  BY <1>1, <1>2, TypeCorrect, PTL DEF Spec

\* A vessel leaves the store only through Expire.
LEMMA OnlyExpireRemoves ==
  ASSUME TypeOK, [Next]_vars, NEW v \in Vessels, Expires(v)
  PROVE  Expire(v) /\ UNCHANGED <<watermark, maxEvent, now, newest>>
<1>1. ASSUME NEW w \in Vessels, NEW o \in Observations(EventTimes), Observe(w, o)
      PROVE  FALSE
  <2>1. ProcessObservation(StateOf(w), o) # None
    BY StateOfType, ProcessType, NoneAssumption
  <2> QED
    BY <1>1, <2>1 DEF Observe, Expires, TypeOK
<1>2. ASSUME NEW w \in Vessels, Expire(w)
      PROVE  w = v
  BY <1>2 DEF Expire, Expires, TypeOK
<1> QED
  BY <1>1, <1>2
  DEF Next, vars, history, FleetReport, RowsDone, EndBatch, Tick, Expires, Expire

LEMMA ExpiryStep ==
  ASSUME MaxLate <= WATERMARK, TypeOK, EventOrder, [Next]_vars, NEW v \in Vessels, Expires(v),
         NEW r \in RawStates, newest[v][r] # None
  PROVE  newest[v][r] + TIMEOUT_AFTER < now + MaxAhead
<1>1. Expire(v)
  BY OnlyExpireRemoves
<1>2. /\ store[v].last_position_time \in Nat
      /\ store[v].last_position_time + TIMEOUT_AFTER < watermark
  BY <1>1 DEF Expire, TimedOut, TypeOK, VesselStates
<1>3. newest[v] \in [RawStates -> Nat \cup {None}]
  BY DEF TypeOK
<1>4. /\ newest[v][r] \in Nat
      /\ watermark \in Nat /\ maxEvent \in Nat /\ now \in Nat
      /\ MaxAhead \in Nat /\ MaxLate \in Nat /\ WATERMARK \in Nat /\ TIMEOUT_AFTER \in Nat
  BY <1>3 DEF TypeOK
<1>5. ReportOrder(v, newest[v][r]) /\ ClockOrder
  BY DEF EventOrder
<1>6. /\ watermark + WATERMARK <= now + MaxAhead
      /\ newest[v][r] <= store[v].last_position_time + MaxLate
  BY <1>2, <1>4, <1>5 DEF ReportOrder, ClockOrder, Expires
<1> QED
  BY <1>2, <1>4, <1>6

\* A vessel is expired only when it has been silent for more than
\* TIMEOUT_AFTER on the wall clock (vessel_state_logic.py:39-41), wherever
\* batches end and though late reports move its last report back, as long as
\* they are at most WATERMARK late; a feed that stamps reports MaxAhead early
\* takes just that much off.
THEOREM ExpiryIsSilence == MaxLate <= WATERMARK => (Spec => ExpiryNeedsSilence)
<1> SUFFICES ASSUME MaxLate <= WATERMARK PROVE Spec => ExpiryNeedsSilence
  OBVIOUS
<1>1. TypeOK /\ EventOrder /\ [Next]_vars =>
        \A v \in Vessels : Expires(v) =>
          \A r \in RawStates : newest[v][r] # None =>
            newest[v][r] + TIMEOUT_AFTER < now + MaxAhead
  BY ExpiryStep
<1> QED
  BY <1>1, TypeCorrect, EventTimesOrdered, PTL DEF Spec, ExpiryNeedsSilence

LEMMA EnterStep ==
  ASSUME TypeOK, EventOrder, [Next]_vars, NEW v \in Vessels, Enters(v),
         NEW r \in RawStates, newest[v][r] # None
  PROVE  newest[v][r] < store'[v].last_position_time
<1>1. ASSUME NEW w \in Vessels, Expire(w) PROVE FALSE
  BY <1>1 DEF Expire, Enters, TypeOK
<1>2. PICK w \in Vessels, o \in Observations(EventTimes) : Observe(w, o)
  BY <1>1 DEF Next, vars, history, FleetReport, RowsDone, EndBatch, Tick, Enters
<1>3. w = v
  BY <1>2 DEF Observe, Enters, TypeOK
<1>4. store'[v] = ProcessObservation(StateOf(v), o)
  BY <1>2, <1>3 DEF Observe, TypeOK
<1>5. store'[v].last_position_time = o.time /\ o.time > lateMark /\ o.time \in Nat
  BY <1>2, <1>4, StateOfType, ProcessType, ObservationType DEF Observe, NotLate
<1>6. newest[v] \in [RawStates -> Nat \cup {None}] /\ lateMark \in Nat /\ phase = "rows"
  BY <1>2 DEF TypeOK, Observe
<1>7. newest[v][r] \in Nat /\ newest[v][r] < lateMark
  BY <1>6 DEF EventOrder, ReportOrder, Enters
<1> QED
  BY <1>5, <1>6, <1>7

\* Successive lives of a vessel are ordered by event time, so the sessions of
\* a vessel can be ordered across an expiry (int_vessel_sessions.sql:29), as
\* long as no report comes more than WATERMARK after a newer one.
THEOREM LivesAreOrdered == MaxLate <= WATERMARK => (Spec => LivesDoNotOverlap)
<1> SUFFICES ASSUME MaxLate <= WATERMARK PROVE Spec => LivesDoNotOverlap
  OBVIOUS
<1>1. TypeOK /\ EventOrder /\ [Next]_vars =>
        \A v \in Vessels : Enters(v) =>
          \A r \in RawStates : newest[v][r] # None =>
            newest[v][r] < store'[v].last_position_time
  BY EnterStep
<1> QED
  BY <1>1, TypeCorrect, EventTimesOrdered, PTL DEF Spec, LivesDoNotOverlap

-----------------------------------------------------------------------------
(* A feed without late reports.                                            *)

\* What one report does when it is the newest: facts for one vessel.
LEMMA InOrderReport ==
  ASSUME TypeOK, ArrivalOrder, MaxLate = 0,
         NEW v \in Vessels, NEW o \in Observations(EventTimes), Observe(v, o)
  PROVE  /\ \A r \in RawStates : newest[v][r] # None => newest[v][r] <= o.time
         /\ newest'[v] = [newest[v] EXCEPT ![ClassifyRawState(o)] = o.time]
         /\ agreed[v] # None => agreed[v] <= o.time
         /\ agreed'[v] = IF Agrees(StateOf(v), o) THEN o.time ELSE agreed[v]
<1>1. newest[v] \in [RawStates -> Nat \cup {None}] /\ o.time \in Nat
  BY ObservationType DEF TypeOK
<1>2. ASSUME NEW r \in RawStates, newest[v][r] # None
      PROVE  newest[v][r] \in Nat /\ newest[v][r] <= o.time
  BY <1>1, <1>2 DEF Observe, Deliverable
<1>3. newest'[v] = [newest[v] EXCEPT ![ClassifyRawState(o)] = o.time]
  <2>1. Later(newest[v][ClassifyRawState(o)], o.time) = o.time
    BY <1>1, <1>2, ClassifyType DEF Later
  <2> QED
    BY <2>1 DEF Observe, RecordHistory, TypeOK
<1>4. ASSUME agreed[v] # None PROVE agreed[v] \in Nat /\ agreed[v] <= o.time
  <2>1. store[v] # None /\ agreed[v] \in Nat
    BY <1>4 DEF ArrivalOrder, TypeOK
  <2>2. store[v].last_position_time \in Nat
    BY <2>1 DEF TypeOK, VesselStates
  <2>3. PICK r \in RawStates : newest[v][r] = store[v].last_position_time
    BY <2>1 DEF ArrivalOrder
  <2>4. agreed[v] <= store[v].last_position_time
    BY <1>4, <2>1 DEF ArrivalOrder
  <2>5. store[v].last_position_time <= o.time
    BY <1>2, <2>2, <2>3
  <2> QED
    BY <1>1, <2>1, <2>2, <2>4, <2>5
<1>5. agreed'[v] = IF Agrees(StateOf(v), o) THEN o.time ELSE agreed[v]
  <2>1. Later(agreed[v], o.time) = o.time
    BY <1>1, <1>4 DEF Later
  <2> QED
    BY <2>1 DEF Observe, RecordHistory, TypeOK
<1> QED
  BY <1>2, <1>3, <1>4, <1>5

LEMMA ObserveArrival ==
  ASSUME TypeOK, TypeOK', ArrivalOrder, MaxLate = 0,
         NEW v \in Vessels, NEW o \in Observations(EventTimes), Observe(v, o)
  PROVE  ArrivalOrder'
<1> DEFINE st == StateOf(v)
           raw == ClassifyRawState(o)
           n == ProcessObservation(st, o)
<1>1. /\ store' = [store EXCEPT ![v] = n]
      /\ o.time \in Nat /\ raw \in RawStates
      /\ st \in VesselStates /\ n # None
      /\ n.last_position_time = o.time
      /\ n.candidate_state = CandidateAfter(st, o)
      /\ n.candidate_since = CandidateSinceAfter(st, o)
      /\ n.discrepancy_since = DiscrepancySinceAfter(st, o)
  BY ClassifyType, ObservationType, StateOfType, ProcessType, NoneAssumption
  DEF Observe, ProcessObservation
<1>2. newest[v] \in [RawStates -> Nat \cup {None}]
  BY DEF TypeOK
<1>3. ASSUME NEW w \in Vessels, w # v
      PROVE  store'[w] = store[w] /\ newest'[w] = newest[w] /\ agreed'[w] = agreed[w]
  BY <1>3 DEF Observe, RecordHistory, TypeOK
<1>4. store'[v] = n
  BY <1>1 DEF TypeOK
<1>5. /\ \A r \in RawStates : newest[v][r] # None => newest[v][r] <= o.time
      /\ newest'[v] = [newest[v] EXCEPT ![raw] = o.time]
      /\ newest'[v][raw] = o.time
  <2>1. newest'[v] = [newest[v] EXCEPT ![raw] = o.time]
    BY InOrderReport
  <2> QED
    BY <1>1, <1>2, <2>1, InOrderReport
<1>6. ASSUME NEW r \in RawStates, newest'[v][r] # None
      PROVE  /\ newest'[v][r] <= o.time
             /\ n.candidate_state \notin {None, r} => newest'[v][r] <= n.candidate_since
  <2>1. CASE r = raw
    BY <1>1, <1>5, <2>1 DEF CandidateAfter
  <2>2. CASE r # raw
    <3>1. newest'[v][r] = newest[v][r] /\ newest[v][r] <= o.time /\ newest[v][r] # None
      BY <1>1, <1>2, <1>5, <1>6, <2>2
    <3>2. ASSUME n.candidate_state \notin {None, r} PROVE newest[v][r] <= n.candidate_since
      <4>1. n.candidate_state = raw /\ ~Moves(st, o) /\ raw # None
        BY <1>1, <3>2 DEF CandidateAfter
      <4>2. CASE st.candidate_state # raw
        BY <1>1, <3>1, <4>1, <4>2 DEF CandidateSinceAfter
      <4>3. CASE st.candidate_state = raw
        <5>1. n.candidate_since = st.candidate_since
          BY <1>1, <4>1, <4>3 DEF CandidateSinceAfter
        <5>2. store[v] # None /\ st = store[v]
          BY <4>1, <4>3 DEF StateOf, NewVesselState
        <5>3. newest[v][r] <= store[v].candidate_since
          BY <2>2, <3>1, <4>1, <4>3, <5>2 DEF ArrivalOrder
        <5> QED
          BY <5>1, <5>2, <5>3
      <4> QED
        BY <4>2, <4>3
    <3> QED
      BY <3>1, <3>2
  <2> QED
    BY <2>1, <2>2
<1>7. ASSUME agreed'[v] # None
      PROVE  /\ agreed'[v] <= o.time
             /\ n.discrepancy_since # None => agreed'[v] <= n.discrepancy_since
  <2>0. /\ agreed'[v] = IF Agrees(st, o) THEN o.time ELSE agreed[v]
        /\ agreed[v] # None => agreed[v] <= o.time
    BY InOrderReport
  <2>1. CASE Agrees(st, o)
    <3>1. agreed'[v] = o.time
      BY <2>0, <2>1
    <3>2. n.discrepancy_since = None
      BY <1>1, <2>1 DEF DiscrepancySinceAfter
    <3> QED
      BY <1>1, <3>1, <3>2
  <2>2. CASE ~Agrees(st, o)
    <3>1. agreed'[v] = agreed[v] /\ agreed[v] # None /\ agreed[v] <= o.time
      BY <1>7, <2>0, <2>2
    <3>2. store[v] # None /\ st = store[v]
      BY <3>1 DEF ArrivalOrder, StateOf
    <3>3. st.discrepancy_since # None => agreed[v] <= st.discrepancy_since
      BY <3>1, <3>2 DEF ArrivalOrder
    <3> QED
      BY <1>1, <2>2, <3>1, <3>3 DEF DiscrepancySinceAfter
  <2> QED
    BY <2>1, <2>2
<1>8. ASSUME NEW w \in Vessels
      PROVE  IF store'[w] = None THEN agreed'[w] = None
             ELSE /\ \E r \in RawStates : newest'[w][r] = store'[w].last_position_time
                  /\ \A r \in RawStates : newest'[w][r] # None =>
                       /\ newest'[w][r] <= store'[w].last_position_time
                       /\ store'[w].candidate_state \notin {None, r} =>
                            newest'[w][r] <= store'[w].candidate_since
                  /\ agreed'[w] # None =>
                       /\ agreed'[w] <= store'[w].last_position_time
                       /\ store'[w].discrepancy_since # None =>
                            agreed'[w] <= store'[w].discrepancy_since
  <2>1. CASE w = v
    BY <1>1, <1>4, <1>5, <1>6, <1>7, <2>1
  <2>2. CASE w # v
    BY <1>3, <2>2 DEF ArrivalOrder
  <2> QED
    BY <2>1, <2>2
<1> QED
  BY <1>8 DEF ArrivalOrder

LEMMA NextArrival ==
  MaxLate = 0 /\ TypeOK /\ TypeOK' /\ ArrivalOrder /\ [Next]_vars => ArrivalOrder'
<1> SUFFICES ASSUME MaxLate = 0, TypeOK, TypeOK', ArrivalOrder, [Next]_vars
             PROVE  ArrivalOrder'
  OBVIOUS
<1>1. ASSUME NEW v \in Vessels, Expire(v) PROVE ArrivalOrder'
  <2>1. /\ store' = [store EXCEPT ![v] = None]
        /\ agreed' = [agreed EXCEPT ![v] = None]
        /\ newest' = newest
    BY <1>1 DEF Expire
  <2> QED
    BY <2>1 DEF ArrivalOrder, TypeOK
<1>2. CASE UNCHANGED <<store, newest, agreed>>
  BY <1>2 DEF ArrivalOrder
<1> QED
  BY <1>1, <1>2, ObserveArrival
  DEF Next, vars, history, FleetReport, RowsDone, EndBatch, Tick

\* Without late reports the arrival order is the event-time order.
THEOREM ArrivalsOrdered == MaxLate = 0 => (Spec => []ArrivalOrder)
<1> SUFFICES ASSUME MaxLate = 0 PROVE Spec => []ArrivalOrder
  OBVIOUS
<1>1. Init => ArrivalOrder
  BY DEF Init, ArrivalOrder
<1>2. TypeOK /\ TypeOK' /\ ArrivalOrder /\ [Next]_vars => ArrivalOrder'
  BY NextArrival
<1> QED
  BY <1>1, <1>2, TypeCorrect, PTL DEF Spec

\* A tracked vessel's state in the store changes only through Observe.
LEMMA OnlyObserveChanges ==
  ASSUME TypeOK, [Next]_vars, NEW v \in Vessels,
         store[v] # None, store'[v] # None, store'[v] # store[v]
  PROVE  \E o \in Observations(EventTimes) :
           /\ Observe(v, o)
           /\ store'[v] = ProcessObservation(store[v], o)
<1>1. ASSUME NEW w \in Vessels, NEW o \in Observations(EventTimes), Observe(w, o)
      PROVE  /\ w = v
             /\ store'[v] = ProcessObservation(store[v], o)
  BY <1>1 DEF Observe, TypeOK, StateOf
<1>2. ASSUME NEW w \in Vessels, Expire(w) PROVE FALSE
  BY <1>2 DEF Expire, TypeOK
<1> QED
  BY <1>1, <1>2 DEF Next, vars, history, FleetReport, RowsDone, EndBatch, Tick

LEMMA HeldStep ==
  ASSUME TypeOK, DebounceExact, ArrivalOrder, [Next]_vars, NEW v \in Vessels, Changes(v),
         NEW r \in RawStates \ {store'[v].current_state}, newest[v][r] # None
  PROVE  newest[v][r] + DEBOUNCE <= store'[v].last_position_time
<1>1. PICK o \in Observations(EventTimes) :
        Observe(v, o) /\ store'[v] = ProcessObservation(store[v], o)
  BY OnlyObserveChanges DEF Changes
<1>2. /\ store[v] \in VesselStates /\ store[v].current_state # "UNKNOWN"
      /\ newest[v] \in [RawStates -> Nat \cup {None}]
  BY DEF TypeOK, Changes
<1>3. /\ o.time \in Nat
      /\ store'[v].last_position_time = o.time
      /\ store'[v].current_state = StateAfter(store[v], o)
  BY <1>1, ObservationType DEF ProcessObservation
<1>4. Moves(store[v], o) /\ store'[v].current_state = ClassifyRawState(o)
  BY <1>3 DEF StateAfter, Changes
<1>5. /\ store[v].candidate_state = ClassifyRawState(o)
      /\ DebounceElapsed(store[v], o.time)
      /\ ClassifyRawState(o) \in RawStates
  BY <1>2, <1>4, ClassifyType DEF Moves
<1>6. newest[v][r] <= store[v].candidate_since
  BY <1>4, <1>5 DEF ArrivalOrder, Changes
<1>7. store[v].candidate_since \in Int \/ store[v].candidate_since = None
  BY <1>2 DEF VesselStates
<1>8. store[v].candidate_since # None
  BY <1>5 DEF Changes, DebounceExact, RunMatches
<1>9. newest[v][r] \in Nat
  BY <1>2
<1> QED
  BY <1>3, <1>5, <1>6, <1>7, <1>8, <1>9 DEF DebounceElapsed

\* A transition means the new raw state has held for DEBOUNCE of event time,
\* when no report arrives late (README.md:99-101, vessel_state_job.py:152).
THEOREM DebounceHeldInOrder == MaxLate = 0 => (Spec => HeldContinuously)
<1> SUFFICES ASSUME MaxLate = 0 PROVE Spec => HeldContinuously
  OBVIOUS
<1>1. TypeOK /\ DebounceExact /\ ArrivalOrder /\ [Next]_vars =>
        \A v \in Vessels : Changes(v) =>
          \A r \in RawStates \ {store'[v].current_state} :
            newest[v][r] # None => newest[v][r] + DEBOUNCE <= store'[v].last_position_time
  BY HeldStep
<1> QED
  BY <1>1, TypeCorrect, DebounceIsExact, ArrivalsOrdered, PTL DEF Spec, HeldContinuously

LEMMA SustainedStep ==
  ASSUME TypeOK, ArrivalOrder, [Next]_vars, NEW v \in Vessels, Raises(v), agreed[v] # None
  PROVE  agreed[v] + DISCREPANCY_THRESHOLD <= store'[v].last_position_time
<1>1. store'[v] # store[v]
  BY DEF Raises
<1>2. PICK o \in Observations(EventTimes) :
        Observe(v, o) /\ store'[v] = ProcessObservation(store[v], o)
  BY <1>1, OnlyObserveChanges DEF Raises
<1>3. /\ store[v] \in VesselStates
      /\ agreed[v] \in Nat
      /\ o.time \in Nat
      /\ store'[v].last_position_time = o.time
      /\ store'[v].discrepancy_flagged = DiscrepancyFlaggedAfter(store[v], o)
  BY <1>2, ObservationType DEF TypeOK, Raises, ProcessObservation
<1>4. Flags(store[v], o)
  BY <1>3 DEF DiscrepancyFlaggedAfter, Raises
<1>5. /\ store[v].discrepancy_since \in Nat
      /\ o.time - store[v].discrepancy_since >= DISCREPANCY_THRESHOLD
  BY <1>3, <1>4 DEF Flags, VesselStates
<1>6. agreed[v] <= store[v].discrepancy_since
  BY <1>5 DEF ArrivalOrder, Raises
<1> QED
  BY <1>3, <1>5, <1>6

\* A discrepancy is raised only after a disagreement that was sustained for
\* DISCREPANCY_THRESHOLD, when no report arrives late.
THEOREM DiscrepancySustainedInOrder == MaxLate = 0 => (Spec => DisagreementSustained)
<1> SUFFICES ASSUME MaxLate = 0 PROVE Spec => DisagreementSustained
  OBVIOUS
<1>1. TypeOK /\ ArrivalOrder /\ [Next]_vars =>
        \A v \in Vessels : Raises(v) /\ agreed[v] # None =>
          agreed[v] + DISCREPANCY_THRESHOLD <= store'[v].last_position_time
  BY SustainedStep
<1> QED
  BY <1>1, TypeCorrect, ArrivalsOrdered, PTL DEF Spec, DisagreementSustained

-----------------------------------------------------------------------------
(* The journey that the events tell of.                                    *)

DisputeOf(st) == [since |-> st.discrepancy_since, flagged |-> st.discrepancy_flagged]
PlaceOf(st) == [state |-> st.current_state, zone |-> st.current_zone_id]

\* A tracked vessel is in a place, and what is flagged has begun.
InPlace ==
  \A v \in Vessels : store[v] # None =>
    /\ PlaceOf(store[v]) \in Journey!Places
    /\ store[v].discrepancy_since = None => ~store[v].discrepancy_flagged

LEMMA ReportFields ==
  ASSUME NEW st, NEW o, NEW n, n = ProcessObservation(st, o)
  PROVE  /\ n.current_state = StateAfter(st, o)
         /\ n.current_zone_id = IF Moves(st, o) THEN EntryZone(o) ELSE st.current_zone_id
         /\ n.candidate_state = CandidateAfter(st, o)
         /\ n.candidate_since = CandidateSinceAfter(st, o)
         /\ n.last_position_time = o.time
         /\ n.discrepancy_since = DiscrepancySinceAfter(st, o)
         /\ n.discrepancy_flagged = DiscrepancyFlaggedAfter(st, o)
BY DEF ProcessObservation

\* What a report makes of a dispute is one of the journey's choices, and it
\* says so.
LEMMA ReportDisputes ==
  ASSUME NEW st \in VesselStates, NEW o \in Observations(EventTimes),
         st.discrepancy_since = None => ~st.discrepancy_flagged,
         NEW n, n = ProcessObservation(st, o), NEW v \in Vessels
  PROVE  /\ DisputeOf(n) \in Journey!Disputes(DisputeOf(st), o.time)
         /\ n.discrepancy_since = None => ~n.discrepancy_flagged
         /\ DiscrepancyEvents(v, st, o)
              = Journey!DisputeEvents(v, DisputeOf(st), DisputeOf(n), StateAfter(st, o), o.time)
<1> DEFINE before == DisputeOf(st)
           after == DisputeOf(n)
<1>1. /\ before.since = st.discrepancy_since /\ before.flagged = st.discrepancy_flagged
      /\ after.since = DiscrepancySinceAfter(st, o)
      /\ after.flagged = DiscrepancyFlaggedAfter(st, o)
      /\ before = [since |-> st.discrepancy_since, flagged |-> st.discrepancy_flagged]
      /\ after = [since |-> DiscrepancySinceAfter(st, o), flagged |-> DiscrepancyFlaggedAfter(st, o)]
      /\ n.discrepancy_since = DiscrepancySinceAfter(st, o)
      /\ n.discrepancy_flagged = DiscrepancyFlaggedAfter(st, o)
  BY ReportFields DEF DisputeOf
<1>2. /\ st.discrepancy_flagged \in BOOLEAN /\ st.discrepancy_since \in Nat \cup {None}
      /\ o.time \in Nat
  BY ObservationType DEF VesselStates
<1>3. ~(Agrees(st, o) /\ Disagrees(st, o))
  BY DEF Agrees, Disagrees
<1> HIDE DEF before, after
<1>4. after \in Journey!Disputes(before, o.time)
  <2>1. CASE Agrees(st, o)
    <3>1. after = [since |-> None, flagged |-> FALSE]
      BY <1>1, <1>3, <2>1 DEF DiscrepancySinceAfter, DiscrepancyFlaggedAfter, Flags
    <3> QED
      BY <3>1 DEF Journey!Disputes, Journey!NoDispute
  <2>2. CASE ~Agrees(st, o) /\ ~Disagrees(st, o)
    <3>1. after = before
      BY <1>1, <1>2, <2>2 DEF DiscrepancySinceAfter, DiscrepancyFlaggedAfter, Flags
    <3> QED
      BY <3>1 DEF Journey!Disputes
  <2>3. CASE Disagrees(st, o) /\ st.discrepancy_since = None
    <3>1. after = [since |-> o.time, flagged |-> FALSE]
      BY <1>1, <1>2, <1>3, <2>3 DEF DiscrepancySinceAfter, DiscrepancyFlaggedAfter, Flags
    <3>2. before.since = None
      BY <1>1, <2>3
    <3> QED
      BY <3>1, <3>2 DEF Journey!Disputes
  <2>4. CASE Disagrees(st, o) /\ st.discrepancy_since # None
    <3>1. after = [since |-> st.discrepancy_since, flagged |-> Flags(st, o) \/ st.discrepancy_flagged]
      BY <1>1, <1>3, <2>4 DEF DiscrepancySinceAfter, DiscrepancyFlaggedAfter
    <3>2. CASE Flags(st, o)
      <4>1. before.since # None /\ o.time - before.since >= DISCREPANCY_THRESHOLD
        BY <1>1, <3>2 DEF Flags
      <4>2. after = [since |-> before.since, flagged |-> TRUE]
        BY <1>1, <3>1, <3>2
      <4> QED
        BY <4>1, <4>2 DEF Journey!Disputes
    <3>3. CASE ~Flags(st, o)
      <4>1. after = before
        BY <1>1, <1>2, <3>1, <3>3
      <4> QED
        BY <4>1 DEF Journey!Disputes
    <3> QED
      BY <3>2, <3>3
  <2> QED
    BY <2>1, <2>2, <2>3, <2>4
<1>5. n.discrepancy_since = None => ~n.discrepancy_flagged
  BY <1>1, <1>2, <1>3 DEF DiscrepancySinceAfter, DiscrepancyFlaggedAfter, Flags
<1>6. DiscrepancyEvents(v, st, o)
        = Journey!DisputeEvents(v, before, after, StateAfter(st, o), o.time)
  <2> DEFINE flagged == DiscrepancyEvent(v, "discrepancy_flagged", StateAfter(st, o), o.time)
             cleared == DiscrepancyEvent(v, "discrepancy_cleared", StateAfter(st, o), o.time)
  <2>1. /\ <<flagged>> \o <<>> = <<flagged>> /\ <<>> \o <<cleared>> = <<cleared>>
        /\ <<>> \o <<>> = <<>>
    OBVIOUS
  <2>2. CASE Flags(st, o)
    <3>1. ~Clears(st, o) /\ after.flagged = TRUE /\ before.flagged = FALSE
      BY <1>1, <1>2, <1>3, <2>2 DEF Flags, Clears, DiscrepancyFlaggedAfter
    <3> QED
      BY <2>1, <2>2, <3>1 DEF DiscrepancyEvents, Journey!DisputeEvents, Journey!DiscrepancyEvent,
                              DiscrepancyEvent
  <2>3. CASE Clears(st, o)
    <3>1. ~Flags(st, o) /\ after.flagged = FALSE /\ before.flagged = TRUE
      BY <1>1, <1>2, <1>3, <2>3 DEF Flags, Clears, DiscrepancyFlaggedAfter
    <3> QED
      BY <2>1, <2>3, <3>1 DEF DiscrepancyEvents, Journey!DisputeEvents, Journey!DiscrepancyEvent,
                              DiscrepancyEvent
  <2>4. CASE ~Flags(st, o) /\ ~Clears(st, o)
    <3>1. after.flagged = before.flagged
      BY <1>1, <1>2, <2>4 DEF Clears, DiscrepancyFlaggedAfter
    <3> QED
      BY <2>1, <2>4, <3>1 DEF DiscrepancyEvents, Journey!DisputeEvents
  <2> QED
    BY <2>2, <2>3, <2>4
<1> QED
  BY <1>4, <1>5, <1>6 DEF before, after

LEMMA ReportPlace ==
  ASSUME NEW st \in VesselStates, NEW o \in Observations(EventTimes)
  PROVE  [state |-> ClassifyRawState(o), zone |-> EntryZone(o)] \in Journey!Places
BY ObservationType DEF ClassifyRawState, EntryZone, Journey!Places

\* The newest of a vessel's reports, when it is known to be the newest.
LEMMA NewestIs ==
  ASSUME NEW nw \in [RawStates -> Nat \cup {None}], NEW t \in Nat,
         \E r \in RawStates : nw[r] = t,
         \A r \in RawStates : nw[r] # None => nw[r] <= t
  PROVE  NewestOf(nw) = t
<1> DEFINE times == {nw[r] : r \in RawStates} \ {None}
<1>1. t \in times /\ times \subseteq Nat /\ \A u \in times : u <= t
  OBVIOUS
<1>2. \A x \in times : (\A u \in times : u <= x) => x = t
  BY <1>1
<1> HIDE DEF times
<1>3. (CHOOSE x \in times : \A u \in times : u <= x) = t
  BY <1>1, <1>2
<1> QED
  BY <1>1, <1>3 DEF NewestOf, times

\* There is one among them.
LEMMA NewestAmong ==
  ASSUME NEW nw \in [RawStates -> Nat \cup {None}], NewestOf(nw) # None
  PROVE  \E r \in RawStates : nw[r] # None /\ NewestOf(nw) = nw[r]
<1> DEFINE times == {nw[r] : r \in RawStates} \ {None}
           a == nw["UNDERWAY"]
           b == nw["AT_ANCHOR"]
           c == nw["MOORED"]
<1>1. times \subseteq Nat /\ times = {a, b, c} \ {None} /\ times # {}
  BY DEF NewestOf
<1>2. \E x \in times : \A u \in times : u <= x
  <2> HIDE DEF a, b, c, times
  <2>1. a \in times \/ b \in times \/ c \in times
    BY <1>1
  <2>2. \A u \in times : u \in {a, b, c} /\ u \in Nat
    BY <1>1
  <2> QED
    BY <2>1, <2>2
<1>3. NewestOf(nw) = CHOOSE x \in times : \A u \in times : u <= x
  BY <1>1 DEF NewestOf
<1>4. NewestOf(nw) \in times
  <2> HIDE DEF times
  <2> QED
    BY <1>2, <1>3
<1> QED
  BY <1>4

JourneyInv == TypeOK /\ DebounceExact /\ EventOrder /\ ArrivalOrder /\ InPlace

\* Whom a step that is no report concerns.
LEMMA OtherSteps ==
  ASSUME TypeOK, [Next]_vars, \A w \in Vessels, o \in Observations(EventTimes) : ~Observe(w, o)
  PROVE  \/ \E v \in Vessels : Expire(v)
         \/ UNCHANGED <<store, newest>> /\ (out' = <<>> \/ UNCHANGED out)
BY DEF Next, vars, history, FleetReport, RowsDone, EndBatch, Tick

LEMMA StoreKinds ==
  ASSUME TypeOK, NEW v \in Vessels
  PROVE  /\ StateOf(v) \in VesselStates
         /\ store[v] # None => /\ StateOf(v) = store[v] /\ store[v] \in VesselStates
                               /\ store[v].current_state \in RawStates
                               /\ store[v].last_position_time \in Nat
         /\ store[v] = None => StateOf(v) = NewVesselState
         /\ newest[v] \in [RawStates -> Nat \cup {None}]
<1>1. StateOf(v) \in VesselStates
  BY StateOfType
<1>2. store[v] # None => store[v] \in VesselStates /\ store[v].current_state # "UNKNOWN"
                         /\ store[v].last_position_time # None
  BY DEF TypeOK
<1> QED
  BY <1>1, <1>2 DEF StateOf, TypeOK, VesselStates

LEMMA NextInPlace ==
  ASSUME TypeOK, InPlace, [Next]_vars
  PROVE  InPlace'
<1>1. ASSUME NEW v \in Vessels, NEW o \in Observations(EventTimes), Observe(v, o)
      PROVE  InPlace'
  <2> DEFINE st == StateOf(v)
             n == ProcessObservation(st, o)
  <2>1. store' = [store EXCEPT ![v] = n] /\ store'[v] = n
    BY <1>1 DEF Observe, TypeOK
  <2>2. st.discrepancy_since = None => ~st.discrepancy_flagged
    BY StoreKinds DEF InPlace, NewVesselState
  <2>3. n.discrepancy_since = None => ~n.discrepancy_flagged
    BY <2>2, ReportDisputes, StoreKinds
  <2>4. PlaceOf(n) \in Journey!Places
    <3>1. PlaceOf(n) = [state |-> StateAfter(st, o),
                        zone |-> IF Moves(st, o) THEN EntryZone(o) ELSE st.current_zone_id]
      BY DEF ProcessObservation, PlaceOf
    <3>2. CASE Moves(st, o)
      BY <3>1, <3>2, ReportPlace, StoreKinds DEF StateAfter
    <3>3. CASE ~Moves(st, o)
      <4>1. store[v] # None
        BY <3>3, StoreKinds DEF Moves, NewVesselState
      <4>2. PlaceOf(n) = PlaceOf(store[v])
        BY <3>1, <3>3, <4>1, StoreKinds DEF StateAfter, PlaceOf
      <4> QED
        BY <4>1, <4>2 DEF InPlace
    <3> QED
      BY <3>2, <3>3
  <2>5. \A w \in Vessels : w # v => store'[w] = store[w]
    BY <2>1 DEF TypeOK
  <2> HIDE DEF n
  <2> QED
    BY <2>1, <2>3, <2>4, <2>5 DEF InPlace
<1>2. ASSUME NEW v \in Vessels, Expire(v) PROVE InPlace'
  BY <1>2 DEF Expire, InPlace, TypeOK
<1>3. CASE UNCHANGED store
  BY <1>3 DEF InPlace
<1> QED
  BY <1>1, <1>2, <1>3, OtherSteps

LEMMA JourneyInvariance == MaxLate = 0 => (Spec => []JourneyInv)
<1> SUFFICES ASSUME MaxLate = 0 PROVE Spec => []JourneyInv
  OBVIOUS
<1>1. MaxLate <= WATERMARK
  OBVIOUS
<1>2. Init => InPlace
  BY DEF Init, InPlace
<1>3. TypeOK /\ InPlace /\ [Next]_vars => InPlace'
  BY NextInPlace
<1>4. Spec => []TypeOK /\ []DebounceExact /\ []EventOrder /\ []ArrivalOrder
  BY <1>1, TypeCorrect, DebounceIsExact, EventTimesOrdered, ArrivalsOrdered
<1>5. Spec => []InPlace
  BY <1>2, <1>3, TypeCorrect, PTL DEF Spec
<1> QED
  BY <1>4, <1>5, PTL DEF JourneyInv

-----------------------------------------------------------------------------
(* Every step is a step of the journey.                                    *)

LEMMA JourneyFields ==
  ASSUME NEW st \in VesselStates, st.current_state # "UNKNOWN"
  PROVE  /\ JourneyOf(st) = [place |-> PlaceOf(st), elsewhere |-> st.candidate_since,
                             dispute |-> DisputeOf(st)]
         /\ JourneyOf(st) # None
<1>1. JourneyOf(st) = [place |-> PlaceOf(st), elsewhere |-> st.candidate_since,
                       dispute |-> DisputeOf(st)]
  BY NoneAssumption DEF JourneyOf, PlaceOf, DisputeOf
<1>2. JourneyOf(st) \in Journeys
  BY <1>1 DEF Journeys, PlaceOf, DisputeOf, VesselStates
<1> QED
  BY <1>1, <1>2, JourneyAssumption

JourneyMap == [v \in Vessels |-> JourneyOf(store[v])]
SeenMap == [v \in Vessels |-> NewestOf(newest[v])]

LEMMA SeenIsLast ==
  ASSUME JourneyInv, NEW v \in Vessels, store[v] # None
  PROVE  NewestOf(newest[v]) = store[v].last_position_time
<1>1. /\ newest[v] \in [RawStates -> Nat \cup {None}] /\ store[v].last_position_time \in Nat
  BY StoreKinds DEF JourneyInv
<1>2. /\ \E r \in RawStates : newest[v][r] = store[v].last_position_time
      /\ \A r \in RawStates : newest[v][r] # None => newest[v][r] <= store[v].last_position_time
  BY DEF JourneyInv, ArrivalOrder
<1> QED
  BY <1>1, <1>2, NewestIs

\* A report makes its vessel's place, candidate and dispute what the state
\* machine makes of them, and is the newest.
LEMMA ObserveMaps ==
  ASSUME JourneyInv, MaxLate = 0,
         NEW v \in Vessels, NEW o \in Observations(EventTimes), Observe(v, o),
         NEW st, st = StateOf(v), NEW n, n = ProcessObservation(st, o)
  PROVE  /\ SeenMap' = [SeenMap EXCEPT ![v] = o.time]
         /\ JourneyMap' = [JourneyMap EXCEPT ![v] =
              [place |-> PlaceOf(n), elsewhere |-> n.candidate_since, dispute |-> DisputeOf(n)]]
         /\ out' = TransitionEvents(v, st, o)
                     \o Journey!DisputeEvents(v, DisputeOf(st), DisputeOf(n), n.current_state, o.time)
         /\ DisputeOf(n) \in Journey!Disputes(DisputeOf(st), o.time)
<1>1. /\ st \in VesselStates /\ n \in VesselStates /\ o.time \in Nat
      /\ newest[v] \in [RawStates -> Nat \cup {None}] /\ n.current_state # "UNKNOWN"
  BY StoreKinds, ProcessType, ObservationType DEF JourneyInv
<1>2. st.discrepancy_since = None => ~st.discrepancy_flagged
  BY StoreKinds DEF JourneyInv, InPlace, NewVesselState
<1>3. NewestOf(newest'[v]) = o.time
  <2>1. /\ \A r \in RawStates : newest[v][r] # None => newest[v][r] <= o.time
        /\ newest'[v] = [newest[v] EXCEPT ![ClassifyRawState(o)] = o.time]
    BY InOrderReport DEF JourneyInv
  <2>2. newest'[v] \in [RawStates -> Nat \cup {None}]
    BY <1>1, <2>1
  <2>3. newest'[v][ClassifyRawState(o)] = o.time /\ ClassifyRawState(o) \in RawStates
    BY <1>1, <2>1, ClassifyType
  <2>4. \A r \in RawStates : newest'[v][r] # None => newest'[v][r] <= o.time
    BY <1>1, <2>1
  <2> QED
    BY <1>1, <2>2, <2>3, <2>4, NewestIs
<1>4. SeenMap' = [SeenMap EXCEPT ![v] = o.time]
  <2>1. \A w \in Vessels : w # v => newest'[w] = newest[w]
    BY DEF Observe, RecordHistory, JourneyInv, TypeOK
  <2> QED
    BY <1>3, <2>1 DEF SeenMap
<1>5. JourneyMap' = [JourneyMap EXCEPT ![v] = JourneyOf(n)]
  <2>1. store'[v] = n /\ \A w \in Vessels : w # v => store'[w] = store[w]
    BY DEF Observe, JourneyInv, TypeOK
  <2> QED
    BY <2>1 DEF JourneyMap
<1>6. n.current_state = StateAfter(st, o)
  BY ReportFields
<1>7. out' = TransitionEvents(v, st, o) \o DiscrepancyEvents(v, st, o)
  BY DEF Observe, ObservationEvents
<1> QED
  BY <1>1, <1>2, <1>4, <1>5, <1>6, <1>7, JourneyFields, ReportDisputes

LEMMA ObserveRefines ==
  ASSUME JourneyInv, MaxLate = 0,
         NEW v \in Vessels, NEW o \in Observations(EventTimes), Observe(v, o)
  PROVE  Journey!Next
<1> DEFINE st == StateOf(v)
           n == ProcessObservation(st, o)
           t == o.time
           raw == ClassifyRawState(o)
           p == [state |-> raw, zone |-> EntryZone(o)]
<1>1. /\ SeenMap' = [SeenMap EXCEPT ![v] = t]
      /\ JourneyMap' = [JourneyMap EXCEPT ![v] =
           [place |-> PlaceOf(n), elsewhere |-> n.candidate_since, dispute |-> DisputeOf(n)]]
      /\ out' = TransitionEvents(v, st, o)
                  \o Journey!DisputeEvents(v, DisputeOf(st), DisputeOf(n), n.current_state, t)
      /\ DisputeOf(n) \in Journey!Disputes(DisputeOf(st), t)
  BY ObserveMaps
<1>2. /\ st \in VesselStates /\ n \in VesselStates /\ t \in Nat /\ t \in EventTimes
      /\ raw \in RawStates /\ p \in Journey!Places
      /\ newest[v] \in [RawStates -> Nat \cup {None}]
  BY StoreKinds, ProcessType, ObservationType, ClassifyType, ReportPlace
  DEF JourneyInv, Observations
<1>3. /\ n.current_state = StateAfter(st, o)
      /\ n.current_zone_id = IF Moves(st, o) THEN EntryZone(o) ELSE st.current_zone_id
      /\ n.candidate_since = CandidateSinceAfter(st, o)
  BY ReportFields
<1>4. ASSUME Moves(st, o)
      PROVE  /\ PlaceOf(n) = p /\ n.candidate_since = None /\ n.current_state = raw
             /\ TransitionEvents(v, st, o)
                  = <<TransitionEvent(v, st.current_state, p.state, p.zone, t)>>
  BY <1>3, <1>4 DEF PlaceOf, StateAfter, CandidateSinceAfter, CandidateAfter, TransitionEvents
<1>5. SeenMap[v] = NewestOf(newest[v]) /\ JourneyMap[v] = JourneyOf(store[v])
  BY DEF SeenMap, JourneyMap
<1>6. CASE store[v] = None
  <2>1. st = NewVesselState
    BY <1>6, StoreKinds DEF JourneyInv
  <2>2. Moves(st, o) /\ st.current_state = "UNKNOWN" /\ DisputeOf(st) = Journey!NoDispute
    BY <2>1 DEF NewVesselState, Moves, DisputeOf, Journey!NoDispute
  <2>3. JourneyMap[v] = None
    BY <1>5, <1>6 DEF JourneyOf
  <2>4. SeenMap[v] # None => t > SeenMap[v]
    <3> SUFFICES ASSUME SeenMap[v] # None PROVE t > SeenMap[v]
      OBVIOUS
    <3>1. PICK r \in RawStates : newest[v][r] # None /\ SeenMap[v] = newest[v][r]
      BY <1>2, <1>5, NewestAmong
    <3>2. newest[v][r] < lateMark /\ t > lateMark /\ lateMark \in Nat /\ newest[v][r] \in Nat
      BY <1>2, <1>6, <3>1 DEF JourneyInv, EventOrder, ReportOrder, Observe, NotLate, TypeOK
    <3> QED
      BY <1>2, <3>1, <3>2
  <2>5. Journey!DisputeEvents(v, DisputeOf(st), DisputeOf(n), n.current_state, t) = <<>>
    <3>1. ~DisputeOf(n).flagged /\ ~DisputeOf(st).flagged
      <4>1. st.discrepancy_since = None /\ ~st.discrepancy_flagged
        BY <2>1 DEF NewVesselState
      <4>2. n.discrepancy_flagged = DiscrepancyFlaggedAfter(st, o)
        BY ReportFields
      <4> QED
        BY <4>1, <4>2 DEF DisputeOf, DiscrepancyFlaggedAfter, Flags
    <3>2. DisputeOf(n).flagged \in BOOLEAN /\ DisputeOf(st).flagged \in BOOLEAN
      BY <1>2 DEF DisputeOf, VesselStates
    <3> QED
      BY <3>1, <3>2 DEF Journey!DisputeEvents
  <2>6. out' = <<TransitionEvent(v, "UNKNOWN", p.state, p.zone, t)>>
    BY <1>1, <1>4, <2>2, <2>5
  <2> HIDE DEF st, n, t, p, raw
  <2>7. Journey!Begin(v, p, t)
    BY <1>1, <1>4, <2>2, <2>3, <2>4, <2>6
    DEF Journey!Begin, JourneyMap, SeenMap, TransitionEvent, Journey!TransitionEvent
  <2> QED
    BY <1>2, <2>7 DEF Journey!Next
<1>7. ASSUME store[v] # None
      PROVE  /\ JourneyMap[v] # None /\ st = store[v] /\ st.current_state \in RawStates
             /\ JourneyMap[v] = [place |-> PlaceOf(st), elsewhere |-> st.candidate_since,
                                 dispute |-> DisputeOf(st)]
             /\ t >= SeenMap[v]
  <2>1. st = store[v] /\ st.current_state \in RawStates /\ st.current_state # "UNKNOWN"
    BY <1>7, StoreKinds DEF JourneyInv
  <2>2. JourneyMap[v] # None
        /\ JourneyMap[v] = [place |-> PlaceOf(st), elsewhere |-> st.candidate_since,
                            dispute |-> DisputeOf(st)]
    BY <1>2, <1>5, <2>1, JourneyFields
  <2>3. SeenMap[v] = store[v].last_position_time
    BY <1>5, <1>7, SeenIsLast
  <2>4. PICK r \in RawStates : newest[v][r] = store[v].last_position_time
    BY <1>7 DEF JourneyInv, ArrivalOrder
  <2>5. newest[v][r] # None /\ newest[v][r] <= t
    <3>1. newest[v][r] # None
      BY <1>7, <2>4, StoreKinds DEF JourneyInv
    <3>2. \A q \in RawStates : newest[v][q] # None => newest[v][q] <= t
      BY InOrderReport DEF JourneyInv
    <3> QED
      BY <3>1, <3>2
  <2> QED
    BY <2>1, <2>2, <2>3, <2>4, <2>5
<1>8. ASSUME store[v] # None PROVE RunMatches(st, run[v])
  BY <1>7, <1>8 DEF JourneyInv, DebounceExact
<1>9. CASE store[v] # None /\ Moves(st, o)
  <2>1. /\ raw # st.current_state /\ st.candidate_state = raw /\ DebounceElapsed(st, t)
    BY <1>7, <1>9 DEF Moves
  <2>2. st.candidate_since # None /\ t - st.candidate_since >= DEBOUNCE
    BY <1>2, <1>8, <1>9, <2>1 DEF RunMatches, DebounceElapsed
  <2>3. p.state = raw /\ p.zone = EntryZone(o) /\ PlaceOf(st).state = st.current_state
        /\ PlaceOf(n) = p /\ n.candidate_since = None /\ n.current_state = p.state
    BY <1>4, <1>9 DEF PlaceOf
  <2>4. TransitionEvents(v, st, o) = <<TransitionEvent(v, st.current_state, p.state, p.zone, t)>>
    BY <1>4, <1>9
  <2>5. /\ JourneyMap[v] # None /\ t >= SeenMap[v]
        /\ JourneyMap[v].place = PlaceOf(st) /\ JourneyMap[v].elsewhere = st.candidate_since
        /\ JourneyMap[v].dispute = DisputeOf(st)
    BY <1>7, <1>9
  <2>6. JourneyMap' = [JourneyMap EXCEPT ![v] = [place |-> p, elsewhere |-> None, dispute |-> DisputeOf(n)]]
    BY <1>1, <2>3
  <2>7. out' = <<TransitionEvent(v, JourneyMap[v].place.state, p.state, p.zone, t)>>
               \o Journey!DisputeEvents(v, JourneyMap[v].dispute, DisputeOf(n), p.state, t)
    BY <1>1, <2>3, <2>4, <2>5
  <2> HIDE DEF st, n, t, p, raw
  <2>8. Journey!HeldElsewhere(JourneyMap[v], t)
    BY <2>2, <2>5 DEF Journey!HeldElsewhere
  <2>9. Journey!Move(v, p, t)
    BY <1>1, <2>1, <2>3, <2>5, <2>6, <2>7, <2>8
    DEF Journey!Move, JourneyMap, SeenMap, TransitionEvent, Journey!TransitionEvent
  <2> QED
    BY <1>2, <2>9 DEF Journey!Next
<1>10. CASE store[v] # None /\ ~Moves(st, o)
  <2>1. TransitionEvents(v, st, o) = <<>> /\ PlaceOf(n) = PlaceOf(st)
        /\ n.current_state = st.current_state
    BY <1>3, <1>10 DEF TransitionEvents, PlaceOf, StateAfter
  <2>2. /\ n.candidate_since \in {None, st.candidate_since, t}
        /\ n.candidate_since # None => t - n.candidate_since < DEBOUNCE
    <3>1. CASE raw = st.current_state
      BY <1>3, <3>1 DEF CandidateSinceAfter, CandidateAfter
    <3>2. CASE raw # st.current_state
      <4>1. n.candidate_since = IF st.candidate_state = raw THEN st.candidate_since ELSE t
        BY <1>2, <1>3, <1>10, <3>2 DEF CandidateSinceAfter, CandidateAfter
      <4>2. CASE st.candidate_state = raw
        <5>1. ~DebounceElapsed(st, t)
          BY <1>10, <3>2, <4>2 DEF Moves
        <5>2. st.candidate_since \in Nat \cup {None}
          BY <1>2 DEF VesselStates
        <5> QED
          BY <1>2, <4>1, <4>2, <5>1, <5>2 DEF DebounceElapsed
      <4>3. CASE st.candidate_state # raw
        BY <1>2, <4>1, <4>3
      <4> QED
        BY <4>2, <4>3
    <3> QED
      BY <3>1, <3>2
  <2>3. /\ JourneyMap[v] # None /\ t >= SeenMap[v]
        /\ JourneyMap[v].place = PlaceOf(st) /\ JourneyMap[v].elsewhere = st.candidate_since
        /\ JourneyMap[v].dispute = DisputeOf(st) /\ PlaceOf(st).state = st.current_state
    BY <1>7, <1>10 DEF PlaceOf
  <2>4. JourneyMap' = [JourneyMap EXCEPT ![v].elsewhere = n.candidate_since, ![v].dispute = DisputeOf(n)]
    <3>1. JourneyMap[v] = [place |-> PlaceOf(st), elsewhere |-> st.candidate_since,
                           dispute |-> DisputeOf(st)]
      BY <1>7, <1>10
    <3> DEFINE e == n.candidate_since
               d == DisputeOf(n)
               first == [JourneyMap EXCEPT ![v].elsewhere = e]
    <3>2. JourneyMap' = [JourneyMap EXCEPT ![v] = [place |-> PlaceOf(st), elsewhere |-> e, dispute |-> d]]
      BY <1>1, <2>1
    <3> HIDE DEF st, n, t, p, raw, e, d
    <3>3. JourneyMap = [w \in Vessels |-> JourneyMap[w]]
      BY DEF JourneyMap
    <3>4. first[v] = [JourneyMap[v] EXCEPT !.elsewhere = e]
      BY <3>3
    <3>5. first[v] = [place |-> PlaceOf(st), elsewhere |-> e, dispute |-> DisputeOf(st)]
          /\ first = [w \in Vessels |-> IF w = v THEN first[v] ELSE JourneyMap[w]]
      BY <3>1, <3>3, <3>4
    <3> HIDE DEF first
    <3>6. [first EXCEPT ![v].dispute = d]
            = [JourneyMap EXCEPT ![v] = [place |-> PlaceOf(st), elsewhere |-> e, dispute |-> d]]
      <4> DEFINE last == [place |-> PlaceOf(st), elsewhere |-> e, dispute |-> d]
      <4>1. [first[v] EXCEPT !.dispute = d] = last
        BY <3>5
      <4>2. [first EXCEPT ![v].dispute = d] = [first EXCEPT ![v] = last]
        BY <4>1
      <4> HIDE DEF last
      <4>3. [first EXCEPT ![v] = last] = [JourneyMap EXCEPT ![v] = last]
        BY <3>5 DEF JourneyMap
      <4> QED
        BY <4>2, <4>3 DEF last
    <3> QED
      BY <3>2, <3>6 DEF first, e, d
  <2>5. out' = Journey!DisputeEvents(v, JourneyMap[v].dispute, DisputeOf(n),
                                     JourneyMap[v].place.state, t)
    <3> DEFINE said == Journey!DisputeEvents(v, DisputeOf(st), DisputeOf(n), st.current_state, t)
    <3>1. said = <<>> \/ \E e : said = <<e>>
      BY DEF Journey!DisputeEvents
    <3> HIDE DEF said
    <3>2. <<>> \o said = said
      BY <3>1
    <3> QED
      BY <1>1, <2>1, <2>3, <3>2 DEF said
  <2> HIDE DEF st, n, t, p, raw
  <2>6. Journey!Stay(v, t)
    BY <1>1, <2>2, <2>3, <2>4, <2>5 DEF Journey!Stay, JourneyMap, SeenMap
  <2> QED
    BY <1>2, <2>6 DEF Journey!Next
<1> QED
  BY <1>6, <1>9, <1>10

LEMMA ExpireRefines ==
  ASSUME JourneyInv, NEW v \in Vessels, Expire(v)
  PROVE  Journey!Next
<1>1. /\ store[v] # None /\ store' = [store EXCEPT ![v] = None] /\ newest' = newest
      /\ out' = ProcessTimeout(v, store[v])
  BY DEF Expire, TimedOut
<1>2. /\ store[v] \in VesselStates /\ store[v].current_state \in RawStates
      /\ store[v].current_state # "UNKNOWN"
  BY <1>1, StoreKinds DEF JourneyInv
<1>3. JourneyMap' = [JourneyMap EXCEPT ![v] = None] /\ SeenMap' = SeenMap
  BY <1>1 DEF JourneyMap, SeenMap, JourneyOf, JourneyInv, TypeOK
<1>4. JourneyMap[v] = JourneyOf(store[v]) /\ SeenMap[v] = store[v].last_position_time
  BY <1>1, SeenIsLast DEF JourneyMap, SeenMap
<1>5. JourneyMap[v] # None /\ JourneyMap[v].place.state = store[v].current_state
  BY <1>2, <1>4, JourneyFields DEF PlaceOf
<1>6. out' = <<TransitionEvent(v, JourneyMap[v].place.state, "EXPIRED", None, SeenMap[v])>>
  BY <1>1, <1>2, <1>4, <1>5 DEF ProcessTimeout
<1>7. Journey!End(v)
  BY <1>3, <1>5, <1>6
  DEF Journey!End, JourneyMap, SeenMap, TransitionEvent, Journey!TransitionEvent
<1> QED
  BY <1>7 DEF Journey!Next

LEMMA JourneyStep == MaxLate = 0 /\ JourneyInv /\ [Next]_vars => [Journey!Next]_(Journey!vars)
<1> SUFFICES ASSUME MaxLate = 0, JourneyInv, [Next]_vars
             PROVE  Journey!Next \/ UNCHANGED Journey!vars
  OBVIOUS
<1>1. CASE UNCHANGED <<store, newest>> /\ (out' = <<>> \/ UNCHANGED out)
  <2>1. JourneyMap' = JourneyMap /\ SeenMap' = SeenMap
    BY <1>1 DEF JourneyMap, SeenMap
  <2> QED
    BY <1>1, <2>1 DEF Journey!Next, Journey!Quiet, Journey!vars, JourneyMap, SeenMap
<1> QED
  BY <1>1, ObserveRefines, ExpireRefines, OtherSteps DEF JourneyInv

LEMMA JourneyInit == Init => Journey!Init
BY DEF Init, Journey!Init, JourneyOf, NewestOf

\* When no report arrives late, the events of the query are those of a journey:
\* every batch, expiry and watermark of the job is hidden from its readers
\* (vessel_state_logic.py:87-160, vessel_state_job.py:128-174).
THEOREM ImplementsJourney == MaxLate = 0 => (Spec => RefinesJourney)
<1> SUFFICES ASSUME MaxLate = 0 PROVE Spec => RefinesJourney
  OBVIOUS
<1>1. JourneyInv /\ [Next]_vars => [Journey!Next]_(Journey!vars)
  BY JourneyStep
<1> QED
  BY <1>1, JourneyInit, JourneyInvariance, PTL DEF Spec, RefinesJourney, Journey!Spec
=============================================================================
