---------------------------- MODULE StateChanges ----------------------------
(***************************************************************************)
(* The events of the topic and table vessel_state_changes (OUTPUT_SCHEMA   *)
(* of processing/streaming/vessel_state_job.py), which the state machine   *)
(* writes and the session, dwell and discrepancy marts read.  derived is   *)
(* the state an event carries as derived_state and, for a transition, as   *)
(* to_state.                                                               *)
(***************************************************************************)
EXTENDS Integers, Sequences

CONSTANTS
  Zones,      \* zone ids
  ZoneType,   \* the zone_type property of each zone
  None        \* Python's None / SQL NULL

RawStates == {"UNDERWAY", "AT_ANCHOR", "MOORED"}

TransitionEvent(v, from, to, zone, t) ==
  [mmsi |-> v, type |-> "state_transition", from |-> from, derived |-> to,
   zone |-> zone, time |-> t]

DiscrepancyEvent(v, type, derived, t) ==
  [mmsi |-> v, type |-> type, from |-> None, derived |-> derived,
   zone |-> None, time |-> t]
=============================================================================
