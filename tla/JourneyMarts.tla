---------------------------- MODULE JourneyMarts ----------------------------
(***************************************************************************)
(* The marts over what VesselJourney emits: whatever a journey is, what    *)
(* the readers derive from its events is what happened.  TrackingRefinement*)
(* says that the events of the query, with reports in order, are those of  *)
(* a journey.                                                              *)
(*                                                                         *)
(* held is a history variable: the place in which the state machine held   *)
(* the vessel after its newest report of each time.                        *)
(***************************************************************************)
EXTENDS VesselJourney, SessionMarts

VARIABLES
  int_zones,   \* the zones that positions_silver, written by another job, names
  held         \* history: place held per vessel and event time

martVars == <<vars, log, int_zones, held>>

MartInit ==
  /\ Init
  /\ log = <<>>
  /\ int_zones = {}
  /\ held = [v \in Vessels |-> [t \in Times |-> None]]

\* write_state_change_batch appends what the query yields.
EmitNext ==
  /\ Next
  /\ log' = log \o out'
  /\ held' = [v \in Vessels |->
                IF journey'[v] = None THEN held[v]
                ELSE [held[v] EXCEPT ![seen'[v]] = journey'[v].place]]
  /\ UNCHANGED int_zones

\* A valid report in a zone reaches positions_silver for the first time.
NameZone(z) ==
  /\ z \notin int_zones
  /\ int_zones' = int_zones \cup {z}
  /\ UNCHANGED <<vars, log, held>>

MartNext == EmitNext \/ \E z \in Zones : NameZone(z)
MartSpec == MartInit /\ [][MartNext]_martVars

-----------------------------------------------------------------------------
ExpiredAt(v, t) ==
  \E i \in RowsOf(v, {"state_transition"}) : log[i].derived = "EXPIRED" /\ log[i].time = t

\* A vessel that is followed has one ongoing session, that of its place; one
\* that is not can keep a session ongoing only if that began with its last
\* report, when the EXPIRED row ties with it (int_vessel_sessions.sql:29,55).
OngoingIsCurrent ==
  \A v \in Vessels :
    IF journey[v] # None
    THEN /\ Cardinality(Ongoing(v)) = 1
         /\ \A s \in Ongoing(v) : s.state = journey[v].place.state /\ s.zone = journey[v].place.zone
    ELSE \A s \in Ongoing(v) : ExpiredAt(v, s.session_start)

\* session_id and discrepancy_event_id hash mmsi and a time; both are unique
\* (_intermediate.yml:16-17, _gold.yml), over flaps and successive lives.
IdsUnique ==
  \A v \in Vessels :
    \A i, j \in DOMAIN log :
      /\ log[i].mmsi = v /\ log[j].mmsi = v
      /\ log[i].type = log[j].type /\ log[i].time = log[j].time
      /\ log[i].type # "discrepancy_cleared"
      /\ "EXPIRED" \notin {log[i].derived, log[j].derived}
      => i = j

\* Every report is in one session of the mart, that of the place the state
\* machine held for it.  Exception: the last report of a life that expired is
\* at the end of its session, hence in none, or in one that began with it.
SessionsCoverReports ==
  \A v \in Vessels : LET sessions == Sessions(v) IN
    \A t \in Times : held[v][t] # None =>
      LET covering == {s \in sessions : /\ s.session_start <= t
                                        /\ s.session_end # None => t < s.session_end}
      IN  IF ExpiredAt(v, t) THEN \A s \in covering : s.session_start = t
          ELSE /\ Cardinality(covering) = 1
               /\ \A s \in covering : [state |-> s.state, zone |-> s.zone] = held[v][t]

\* The as-of join gives every report, also long after, the state derived for
\* the last one of its time (validate_state_accuracy.py:18-22 "exact").
\* Exception: the last report of a life reads EXPIRED too, or instead.
AsOfIsExact ==
  \A v \in Vessels, t \in Times : held[v][t] # None =>
    IF ExpiredAt(v, t) THEN "EXPIRED" \in DerivedAsOf(v, t)
    ELSE DerivedAsOf(v, t) = {held[v][t].state}

\* fct_discrepancy_events pairs a flag with the clear that ended it, and leaves
\* it open as long as nothing did.  Exceptions, where the pairing is wrong: a
\* flag left open by a life that expired, and one cleared by a report of the
\* same time (cleared_at > flagged_at, fct_discrepancy_events.sql:25-28).
FlagsPairUp ==
  \A v \in Vessels : \A i \in RowsOf(v, {"discrepancy_flagged"}) :
    LET ends == {j \in RowsOf(v, {"discrepancy_cleared", "state_transition"}) :
                   /\ j > i
                   /\ log[j].type = "discrepancy_cleared" \/ log[j].derived = "EXPIRED"}
        last == log[Min(ends)]
    IN  IF ends = {}
        THEN journey[v].dispute.flagged /\ ClearedAt(v, log[i].time) = None
        ELSE last.type = "discrepancy_cleared" /\ last.time > log[i].time
               => ClearedAt(v, log[i].time) = last.time

\* What a build publishes of every session, by its state, zone and start.
Published(v) ==
  LET rows == StateTransitions(v)
  IN  {[session |-> s,
        ends |-> SessionEnds(rows, s),
        visit |-> IsBerthVisit(int_zones, s),
        dwell |-> IsAnchorageDwell(int_zones, s),
        outcome |-> ProceededToBerth(rows, int_zones, s)] : s \in Real(rows)}

\* What a build published about the past stands: a session that cannot show as
\* ongoing any more keeps its end, a berth visit or a dwell stays one, and a
\* dwell that has an outcome keeps it, whatever the vessel does later, in other
\* lives, and whenever the zones get their names.
HistoryIsFinal ==
  [][<<log, int_zones>>' # <<log, int_zones>> =>
       \A v \in Vessels :
         LET before == Published(v)
             after == Published(v)'
         IN  \A p \in before : None \notin p.ends =>
               \E q \in after :
                 /\ q.session = p.session
                 /\ q.ends = p.ends
                 /\ p.visit => q.visit
                 /\ p.dwell => q.dwell
                 /\ None \in p.outcome \/ q.outcome = p.outcome]_martVars
=============================================================================
