---------------------------- MODULE VesselLogic ----------------------------
(***************************************************************************)
(* The per-vessel berth/anchor/underway state machine of                   *)
(* processing/streaming/vessel_state_logic.py as pure operators: what one  *)
(* position report (process_observation) or one timeout (process_timeout)  *)
(* makes of a vessel's state, and the events it emits.                     *)
(*                                                                         *)
(* An observation is [time, zone, slow, nav]: its event time, the zone it  *)
(* was joined to (or None), whether its speed over ground is known and     *)
(* below SOG_THRESHOLD_KN, and its AIS NavigationalStatus code (or None).  *)
(* Fields of VesselState that the code writes and never reads (position,   *)
(* speed, state_entry_time, candidate_zone_id, reported_status) are left   *)
(* out.                                                                    *)
(***************************************************************************)
EXTENDS StateChanges

CONSTANTS
  DEBOUNCE,                \* how long a new raw state must hold (5 minutes)
  DISCREPANCY_THRESHOLD,   \* how long a disagreement must last (15 minutes)
  TIMEOUT_AFTER,           \* silence after which a vessel expires (30 minutes)
  NavCodes                 \* the NavigationalStatus codes that are reported

ASSUME LogicAssumption ==
  /\ DEBOUNCE \in Nat \ {0}
  /\ DISCREPANCY_THRESHOLD \in Nat \ {0}
  /\ TIMEOUT_AFTER \in Nat \ {0}
  /\ NavCodes \subseteq 0..15
  /\ None \notin Int
  /\ None \notin Zones
  /\ None \notin RawStates \cup {"UNKNOWN"}

-----------------------------------------------------------------------------
(* Observations and how they are classified.                               *)

Observations(Times) ==
  [time: Times, zone: Zones \cup {None}, slow: BOOLEAN, nav: NavCodes \cup {None}]

ClassifyRawState(o) ==
  IF o.slow /\ o.zone # None /\ ZoneType[o.zone] = "berth" THEN "MOORED"
  ELSE IF o.slow /\ o.zone # None /\ ZoneType[o.zone] = "anchorage" THEN "AT_ANCHOR"
  ELSE "UNDERWAY"

BucketReportedStatus(nav) ==
  IF nav \in {0, 8} THEN "UNDERWAY"
  ELSE IF nav = 1 THEN "AT_ANCHOR"
  ELSE IF nav = 5 THEN "MOORED"
  ELSE "OTHER"

\* The zone recorded with a transition: none while under way.
EntryZone(o) == IF ClassifyRawState(o) = "UNDERWAY" THEN None ELSE o.zone

-----------------------------------------------------------------------------
(* The state kept per vessel.                                              *)

VesselStates ==
  [current_state: RawStates \cup {"UNKNOWN"}, current_zone_id: Zones \cup {None},
   candidate_state: RawStates \cup {None}, candidate_since: Nat \cup {None},
   last_position_time: Nat \cup {None},
   discrepancy_since: Nat \cup {None}, discrepancy_flagged: BOOLEAN]

ASSUME NoneAssumption == None \notin VesselStates

NewVesselState ==
  [current_state |-> "UNKNOWN", current_zone_id |-> None,
   candidate_state |-> None, candidate_since |-> None,
   last_position_time |-> None,
   discrepancy_since |-> None, discrepancy_flagged |-> FALSE]

-----------------------------------------------------------------------------
(* Debounce: when the observation moves the vessel to its raw state.       *)

\* Variants, each a slip the properties must notice: a debounce one unit too
\* long; a candidate that survives a report of the current state; a disagreement
\* not forgotten when it ends.
DebounceExceeded(st, t) == t - st.candidate_since > DEBOUNCE
StickyCandidate(st, o) ==
  LET raw == ClassifyRawState(o)
  IN  IF st.current_state = "UNKNOWN" THEN None
      ELSE IF raw = st.current_state THEN st.candidate_state
      ELSE IF st.candidate_state = raw /\ o.time - st.candidate_since >= DEBOUNCE THEN None
      ELSE raw
StickyDiscrepancySince(st, o) ==
  IF BucketReportedStatus(o.nav) # "OTHER" /\ st.discrepancy_since = None
  THEN o.time ELSE st.discrepancy_since

DebounceElapsed(st, t) == t - st.candidate_since >= DEBOUNCE

Moves(st, o) ==
  LET raw == ClassifyRawState(o)
  IN  \/ st.current_state = "UNKNOWN"
      \/ /\ raw # st.current_state
         /\ st.candidate_state = raw
         /\ DebounceElapsed(st, o.time)

StateAfter(st, o) == IF Moves(st, o) THEN ClassifyRawState(o) ELSE st.current_state

CandidateAfter(st, o) ==
  IF Moves(st, o) \/ ClassifyRawState(o) = st.current_state THEN None
  ELSE ClassifyRawState(o)

CandidateSinceAfter(st, o) ==
  IF CandidateAfter(st, o) = None THEN None
  ELSE IF st.candidate_state = CandidateAfter(st, o) THEN st.candidate_since
  ELSE o.time

-----------------------------------------------------------------------------
(* Discrepancy between the derived state and the crew-reported status.     *)

Disagrees(st, o) ==
  BucketReportedStatus(o.nav) \notin {"OTHER", StateAfter(st, o)}

Agrees(st, o) == BucketReportedStatus(o.nav) = StateAfter(st, o)

Flags(st, o) ==
  /\ Disagrees(st, o)
  /\ st.discrepancy_since # None
  /\ ~st.discrepancy_flagged
  /\ o.time - st.discrepancy_since >= DISCREPANCY_THRESHOLD

Clears(st, o) == Agrees(st, o) /\ st.discrepancy_flagged

DiscrepancySinceAfter(st, o) ==
  IF Agrees(st, o) THEN None
  ELSE IF Disagrees(st, o) /\ st.discrepancy_since = None THEN o.time
  ELSE st.discrepancy_since

DiscrepancyFlaggedAfter(st, o) ==
  Flags(st, o) \/ (st.discrepancy_flagged /\ ~Agrees(st, o))

-----------------------------------------------------------------------------
(* The state after a report, and the events of a report or a timeout.      *)

ProcessObservation(st, o) ==
  [current_state       |-> StateAfter(st, o),
   current_zone_id     |-> IF Moves(st, o) THEN EntryZone(o) ELSE st.current_zone_id,
   candidate_state     |-> CandidateAfter(st, o),
   candidate_since     |-> CandidateSinceAfter(st, o),
   last_position_time  |-> o.time,
   discrepancy_since   |-> DiscrepancySinceAfter(st, o),
   discrepancy_flagged |-> DiscrepancyFlaggedAfter(st, o)]

\* Variant: from_state read after current_state was assigned.
TransitionReadLate(v, st, o) ==
  IF Moves(st, o)
  THEN <<TransitionEvent(v, StateAfter(st, o), ClassifyRawState(o), EntryZone(o), o.time)>>
  ELSE <<>>

TransitionEvents(v, st, o) ==
  IF Moves(st, o)
  THEN <<TransitionEvent(v, st.current_state, ClassifyRawState(o), EntryZone(o), o.time)>>
  ELSE <<>>

DiscrepancyEvents(v, st, o) ==
  (IF Flags(st, o)
   THEN <<DiscrepancyEvent(v, "discrepancy_flagged", StateAfter(st, o), o.time)>>
   ELSE <<>>)
  \o (IF Clears(st, o)
      THEN <<DiscrepancyEvent(v, "discrepancy_cleared", StateAfter(st, o), o.time)>>
      ELSE <<>>)

ObservationEvents(v, st, o) ==
  TransitionEvents(v, st, o) \o DiscrepancyEvents(v, st, o)

ProcessTimeout(v, st) ==
  IF st.current_state = "UNKNOWN" THEN <<>>
  ELSE <<TransitionEvent(v, st.current_state, "EXPIRED", None, st.last_position_time)>>
=============================================================================
