--------------------------- MODULE StateChangeLog ---------------------------
(***************************************************************************)
(* VesselTracking composed with the readers of its events: what the marts  *)
(* of SessionMarts show of the query as it is.  (What they show of every   *)
(* journey is checked in JourneyMarts.)                                    *)
(***************************************************************************)
EXTENDS VesselTracking, SessionMarts

logVars == <<vars, log>>

LogInit == Init /\ log = <<>>
LogNext == Next /\ log' = log \o out'
LogSpec == LogInit /\ [][LogNext]_logVars

-----------------------------------------------------------------------------
\* What int_vessel_sessions.sql:47-54 says: a vessel whose tracking stopped has
\* no session that looks ongoing.
ExpiredIsClosed == \A v \in Vessels : store[v] = None => Ongoing(v) = {}

\* What fct_anchorage_dwell.sql:1-5 says of proceeded_to_berth, with every zone
\* named: a vessel that after its dwell, and a passage under way, moored at a
\* berth in the same life went on to berth.
BerthAfterDwell ==
  \A v \in Vessels : LET rows == StateTransitions(v) IN
    \A s \in {r \in rows : IsAnchorageDwell(Zones, r)} :
      LET stops == {r \in After(rows, s) : r.state # "UNDERWAY"}
      IN  stops # {} /\ (\A r \in stops : r.session_start = Min(Starts(stops)) => r.state = "MOORED")
            => ProceededToBerth(rows, Zones, s) = {TRUE}
=============================================================================
