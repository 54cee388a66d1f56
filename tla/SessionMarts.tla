---------------------------- MODULE SessionMarts ----------------------------
(***************************************************************************)
(* The readers of vessel_state_changes, as operators over the table:       *)
(*   - dbt's int_vessel_sessions.sql, fct_berth_visits.sql,                *)
(*     fct_anchorage_dwell.sql and fct_discrepancy_events.sql;             *)
(*   - the as-of join of validate_state_accuracy.py.                       *)
(* The readers select distinct rows, so an event appended twice by a re-run*)
(* batch (StateChangeSink) reads as one: the log has each event once.      *)
(* Where SQL leaves an order open, an operator gives the set of outcomes.  *)
(***************************************************************************)
EXTENDS StateChanges, FiniteSetsExt

VARIABLE log   \* vessel_state_changes, in emission order

\* Rows of one vessel and some event types, by position in the log.
RowsOf(v, types) == {i \in DOMAIN log : log[i].mmsi = v /\ log[i].type \in types}

\* state_transitions: select distinct mmsi, to_state, zone_id, transition_time.
StateTransitions(v) ==
  {[state |-> log[i].derived, zone |-> log[i].zone, session_start |-> log[i].time] :
     i \in RowsOf(v, {"state_transition"})}

Real(rows) == {r \in rows : r.state # "EXPIRED"}
Starts(rows) == {r.session_start : r \in rows}
After(rows, r) == {x \in rows : x.session_start > r.session_start}

\* Variant: lead() over the sessions without their EXPIRED rows.
EndsUnexpired(rows, r) ==
  LET later == Starts(After(Real(rows), r)) IN {IF later = {} THEN None ELSE Min(later)}

\* lead(session_start) over (order by session_start): rows with equal starts
\* come in any order, so a row may lead to its equal or to the next start.
SessionEnds(rows, r) ==
  LET later == Starts(After(rows, r))
      equal == {x \in rows : x # r /\ x.session_start = r.session_start}
  IN  {IF later = {} THEN None ELSE Min(later)} \cup Starts(equal)

\* int_vessel_sessions; the EXPIRED rows are filtered out after lead().
Sessions(v) ==
  LET rows == StateTransitions(v)
  IN  UNION {{[state |-> r.state, zone |-> r.zone, session_start |-> r.session_start,
               session_end |-> t] : t \in SessionEnds(rows, r)} : r \in Real(rows)}

Ongoing(v) == {s \in Sessions(v) : s.session_end = None}

-----------------------------------------------------------------------------
\* The marts join a zone's type from int_zones, the zones that some row of
\* positions_silver names: a session of another zone has no zone_type.
TypeIn(int_zones, zone) == IF zone \in int_zones THEN ZoneType[zone] ELSE None

\* The sessions that fct_berth_visits and fct_anchorage_dwell select.
IsBerthVisit(int_zones, s) == s.state = "MOORED" /\ TypeIn(int_zones, s.zone) = "berth"
IsAnchorageDwell(int_zones, s) == s.state = "AT_ANCHOR" /\ TypeIn(int_zones, s.zone) = "anchorage"

\* lead() over int_vessel_sessions, that is, without the EXPIRED rows.
NextSessions(rows, s) ==
  LET later == After(Real(rows), s)
  IN  {r \in later : r.session_start = Min(Starts(later))}

\* proceeded_to_berth of a dwell, in SQL's three values.
ProceededToBerth(rows, int_zones, s) ==
  LET next == NextSessions(rows, s)
      AtBerth(n) == IF n.state # "MOORED" THEN FALSE
                    ELSE IF n.zone \in int_zones THEN ZoneType[n.zone] = "berth" ELSE None
  IN  IF next = {} THEN {None} ELSE {AtBerth(n) : n \in next}

-----------------------------------------------------------------------------
\* Variant: the last clear after each flag.
LastClear(v, flagged_at) ==
  LET after == {t \in {log[i].time : i \in RowsOf(v, {"discrepancy_cleared"})} : t > flagged_at}
  IN  IF after = {} THEN None ELSE Max(after)

\* fct_discrepancy_events: the first clear after each flag, None while ongoing.
ClearedAt(v, flagged_at) ==
  LET after == {t \in {log[i].time : i \in RowsOf(v, {"discrepancy_cleared"})} : t > flagged_at}
  IN  IF after = {} THEN None ELSE Min(after)

\* Variant: transitions strictly before the position.
DerivedBefore(v, t) ==
  LET before == {i \in RowsOf(v, {"state_transition"}) : log[i].time < t}
  IN  {log[i].derived : i \in {j \in before : \A k \in before : log[k].time <= log[j].time}}

\* compute_derived_state_at_positions: to_state of the latest transition at or
\* before the position; among equal times row_number() takes any.
DerivedAsOf(v, t) ==
  LET before == {i \in RowsOf(v, {"state_transition"}) : log[i].time <= t}
  IN  {log[i].derived : i \in {j \in before : \A k \in before : log[k].time <= log[j].time}}
=============================================================================
