---------------------------- MODULE QualityChecks ----------------------------
(***************************************************************************)
(* processing/streaming/quality_checks.py: which position reports pass.    *)
(* A report is [mmsi, event_time, ingested_at, place, sog]; None is a      *)
(* value that is missing or did not parse.                                 *)
(***************************************************************************)
EXTENDS Integers

CONSTANTS
  NineDigits,   \* the mmsi values of nine digits
  Box,          \* the places within LAT_MIN..LAT_MAX and LON_MIN..LON_MAX
  SOG_MAX,      \* knots
  MAX_SKEW,     \* between the report's time and its ingestion
  None

InSchema(r) ==
  /\ r.mmsi \in NineDigits
  /\ r.place \in Box
  /\ r.sog # None /\ r.sog >= 0 /\ r.sog <= SOG_MAX

\* A comparison with a missing time is false: such a report is not skewed.
Skewed(r) ==
  /\ r.event_time # None /\ r.ingested_at # None
  /\ \/ r.ingested_at - r.event_time > MAX_SKEW
     \/ r.event_time - r.ingested_at > MAX_SKEW

QualityOk(r) == InSchema(r) /\ ~Skewed(r)
=============================================================================
