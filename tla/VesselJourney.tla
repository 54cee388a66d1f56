--------------------------- MODULE VesselJourney ---------------------------
(***************************************************************************)
(* What the vessel-state query promises to those who read its events, when *)
(* every vessel's reports come in event-time order: abstract of batches,   *)
(* watermark and timeout, of raw states and reported statuses.             *)
(*                                                                         *)
(* A vessel is followed through lives.  A life begins in the place of its  *)
(* first report, and moves to another only when for DEBOUNCE it may have   *)
(* been elsewhere; a dispute with the crew's status is flagged only after  *)
(* DISCREPANCY_THRESHOLD, and cleared before it is flagged again; the life *)
(* ends at the event time of its last report, and the next one begins      *)
(* later than that.  Every one of these steps is an event, in that order.  *)
(***************************************************************************)
EXTENDS StateChanges

CONSTANTS
  Vessels,                \* mmsi of the vessels followed
  Times,                  \* event times
  DEBOUNCE,               \* how long a vessel must be elsewhere to have moved
  DISCREPANCY_THRESHOLD   \* how long a dispute lasts before it is flagged

VARIABLES
  journey,   \* per vessel None, or its place, since when it may be elsewhere,
             \* and its dispute
  seen,      \* event time of the vessel's newest report
  out        \* the events of the last step

vars == <<journey, seen, out>>

\* Where a vessel can be: a state, and the zone recorded with it.
Places ==
  {[state |-> "UNDERWAY", zone |-> None]}
  \cup {[state |-> "AT_ANCHOR", zone |-> z] : z \in {y \in Zones : ZoneType[y] = "anchorage"}}
  \cup {[state |-> "MOORED", zone |-> z] : z \in {y \in Zones : ZoneType[y] = "berth"}}

NoDispute == [since |-> None, flagged |-> FALSE]

Journeys ==
  [place: Places, elsewhere: Times \cup {None},
   dispute: [since: Times \cup {None}, flagged: BOOLEAN]]

\* The thresholds are positive (5 and 15 minutes), None is no time,
\* journey or zone type.
ASSUME VesselJourneyAssumption ==
  /\ Times \subseteq Nat
  /\ DEBOUNCE \in Nat \ {0}
  /\ DISCREPANCY_THRESHOLD \in Nat \ {0}
  /\ None \notin Int
  /\ None \notin Journeys
  /\ None \notin {"anchorage", "berth"}

Init ==
  /\ journey = [v \in Vessels |-> None]
  /\ seen = [v \in Vessels |-> None]
  /\ out = <<>>

-----------------------------------------------------------------------------
\* What a report at t can make of a dispute: it agrees; it is not compared, or
\* disagrees for longer; it is the first to disagree; it is one too many.
Disputes(d, t) ==
  {NoDispute, d}
  \cup (IF d.since = None THEN {[since |-> t, flagged |-> FALSE]} ELSE {})
  \cup (IF d.since # None /\ t - d.since >= DISCREPANCY_THRESHOLD
        THEN {[since |-> d.since, flagged |-> TRUE]} ELSE {})

DisputeEvents(v, before, after, state, t) ==
  IF after.flagged = before.flagged THEN <<>>
  ELSE <<DiscrepancyEvent(v, IF after.flagged THEN "discrepancy_flagged"
                             ELSE "discrepancy_cleared", state, t)>>

\* Variant: a new life may begin before the end of the last one.
BeginAnytime(v, p, t) ==
  /\ journey[v] = None
  /\ seen' = [seen EXCEPT ![v] = t]
  /\ \E d \in Disputes(NoDispute, t) :
       journey' = [journey EXCEPT ![v] = [place |-> p, elsewhere |-> None, dispute |-> d]]
  /\ out' = <<TransitionEvent(v, "UNKNOWN", p.state, p.zone, t)>>

\* A life begins with its first report.
Begin(v, p, t) ==
  /\ journey[v] = None
  /\ seen[v] # None => t > seen[v]
  /\ seen' = [seen EXCEPT ![v] = t]
  /\ \E d \in Disputes(NoDispute, t) :
       journey' = [journey EXCEPT ![v] = [place |-> p, elsewhere |-> None, dispute |-> d]]
  /\ out' = <<TransitionEvent(v, "UNKNOWN", p.state, p.zone, t)>>

\* A report that leaves the vessel where it is.  It may be elsewhere from now
\* on, still, or no longer, but not for DEBOUNCE.
Stay(v, t) ==
  /\ journey[v] # None
  /\ t >= seen[v]
  /\ seen' = [seen EXCEPT ![v] = t]
  /\ \E e \in {None, journey[v].elsewhere, t}, d \in Disputes(journey[v].dispute, t) :
       /\ e # None => t - e < DEBOUNCE
       /\ journey' = [journey EXCEPT ![v].elsewhere = e, ![v].dispute = d]
       /\ out' = DisputeEvents(v, journey[v].dispute, d, journey[v].place.state, t)

\* Variant: two reports from elsewhere are enough, whatever their times.
ElsewhereByCount(j, t) == j.elsewhere # None

HeldElsewhere(j, t) == j.elsewhere # None /\ t - j.elsewhere >= DEBOUNCE

\* Variant: the move is stamped with the time at which it was first suspected.
MoveBackdated(v, p, t) ==
  /\ journey[v] # None
  /\ t >= seen[v]
  /\ seen' = [seen EXCEPT ![v] = t]
  /\ HeldElsewhere(journey[v], t)
  /\ p.state # journey[v].place.state
  /\ \E d \in Disputes(journey[v].dispute, t) :
       /\ journey' = [journey EXCEPT ![v] = [place |-> p, elsewhere |-> None, dispute |-> d]]
       /\ out' = <<TransitionEvent(v, journey[v].place.state, p.state, p.zone,
                                   journey[v].elsewhere)>>
                 \o DisputeEvents(v, journey[v].dispute, d, p.state, t)

\* A report that moves the vessel to a place of another state.
Move(v, p, t) ==
  /\ journey[v] # None
  /\ t >= seen[v]
  /\ seen' = [seen EXCEPT ![v] = t]
  /\ HeldElsewhere(journey[v], t)
  /\ p.state # journey[v].place.state
  /\ \E d \in Disputes(journey[v].dispute, t) :
       /\ journey' = [journey EXCEPT ![v] = [place |-> p, elsewhere |-> None, dispute |-> d]]
       /\ out' = <<TransitionEvent(v, journey[v].place.state, p.state, p.zone, t)>>
                 \o DisputeEvents(v, journey[v].dispute, d, p.state, t)

\* The life ends with its last report; a dispute is dropped without a word.
End(v) ==
  /\ journey[v] # None
  /\ journey' = [journey EXCEPT ![v] = None]
  /\ out' = <<TransitionEvent(v, journey[v].place.state, "EXPIRED", None, seen[v])>>
  /\ UNCHANGED seen

\* Nothing that a reader could see.
Quiet == out' = <<>> /\ UNCHANGED <<journey, seen>>

Next ==
  \/ Quiet
  \/ \E v \in Vessels, t \in Times :
       \/ Stay(v, t)
       \/ \E p \in Places : Begin(v, p, t) \/ Move(v, p, t)
  \/ \E v \in Vessels : End(v)

Spec == Init /\ [][Next]_vars
=============================================================================
