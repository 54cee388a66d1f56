------------------------- MODULE TrackingRefinement -------------------------
(***************************************************************************)
(* VesselTracking implements VesselJourney when no report arrives late     *)
(* (MaxLate = 0).  The place is the state machine's current state and      *)
(* zone, "may be elsewhere since" its candidate_since, the dispute its     *)
(* discrepancy_since and discrepancy_flagged.                              *)
(***************************************************************************)
EXTENDS VesselTracking

JourneyOf(st) ==
  IF st = None THEN None
  ELSE [place |-> [state |-> st.current_state, zone |-> st.current_zone_id],
        elsewhere |-> st.candidate_since,
        dispute |-> [since |-> st.discrepancy_since, flagged |-> st.discrepancy_flagged]]

Journeys ==
  [place: [state: RawStates, zone: Zones \cup {None}], elsewhere: Nat \cup {None},
   dispute: [since: Nat \cup {None}, flagged: BOOLEAN]]

ASSUME JourneyAssumption == None \notin Journeys

\* The newest of a vessel's reports, None before the first.
NewestOf(nw) ==
  LET times == {nw[r] : r \in RawStates} \ {None}
  IN  IF times = {} THEN None
      ELSE CHOOSE t \in times : \A u \in times : u <= t

Journey == INSTANCE VesselJourney WITH
  journey <- [v \in Vessels |-> JourneyOf(store[v])],
  seen <- [v \in Vessels |-> NewestOf(newest[v])],
  Times <- EventTimes

\* Whatever the batches, the watermark and the timeouts do, the events of a
\* vessel are those of a journey: lives that do not overlap, debounced moves,
\* sustained disputes flagged and cleared in turn, nothing skipped, doubled or
\* out of order (vessel_state_logic.py:87-160, vessel_state_job.py:128-174).
RefinesJourney == Journey!Spec
=============================================================================
