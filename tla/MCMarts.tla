------------------------------- MODULE MCMarts -------------------------------
(***************************************************************************)
(* JourneyMarts for TLC: an anchorage and a berth.  The events of the last *)
(* step are the end of the log.                                            *)
(***************************************************************************)
EXTENDS JourneyMarts

CONSTANTS A1, B1

MCZoneType == [z \in Zones |-> IF z = B1 THEN "berth" ELSE "anchorage"]
MartView == <<journey, seen, log, int_zones, held>>
=============================================================================
