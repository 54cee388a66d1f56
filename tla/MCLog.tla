-------------------------------- MODULE MCLog --------------------------------
(* StateChangeLog for TLC: an anchorage and a berth. *)
EXTENDS StateChangeLog

CONSTANTS A1, B1

MCZoneType == [z \in Zones |-> IF z = B1 THEN "berth" ELSE "anchorage"]
NoCodes == {}
=============================================================================
