------------------------------- MODULE MCSink -------------------------------
(* StateChangeSink for TLC.                                                *)
EXTENDS StateChangeSink
EventOrQuiet == {"event", "quiet"}
=============================================================================
