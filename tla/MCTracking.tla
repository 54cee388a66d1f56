---------------------------- MODULE MCTracking ----------------------------
(***************************************************************************)
(* Instances of VesselTracking for TLC.  One anchorage and one berth are   *)
(* enough to tell all raw states apart; the codes below give one report    *)
(* status that can agree with each derived state and one that is OTHER.    *)
(***************************************************************************)
EXTENDS TrackingRefinement

CONSTANTS A1, B1

MCZoneType == [z \in Zones |-> IF z = B1 THEN "berth" ELSE "anchorage"]

\* Reports without a status.
NoCodes == {}
\* At anchor, and (None) a status that is not compared.
OneCode == {1}

\* The events of a step are not part of what the next one depends on.
StateView == <<store, rowTime, phase, watermark, lateMark, maxEvent, now, history>>
=============================================================================
