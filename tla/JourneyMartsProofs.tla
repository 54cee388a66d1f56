------------------------- MODULE JourneyMartsProofs -------------------------
(***************************************************************************)
(* Proofs about JourneyMarts: what the readers derive from the events of   *)
(* any journeys, for any vessels, zones, times and thresholds.             *)
(*                                                                         *)
(* A step is seen from one vessel: it is about another (Idle), a report of *)
(* the vessel (Reported) or the end of its life (Ended); StepCases says so *)
(* once, and everything else is proved from these three.                   *)
(***************************************************************************)
EXTENDS JourneyMarts, SequenceTheorems, FiniteSetTheorems, WellFoundedInduction,
        NaturalsInduction, TLAPS

Events ==
  [mmsi: Vessels,
   type: {"state_transition", "discrepancy_flagged", "discrepancy_cleared"},
   from: RawStates \cup {"UNKNOWN", None}, derived: RawStates \cup {"EXPIRED"},
   zone: Zones \cup {None}, time: Times]

TypeInv ==
  /\ journey \in [Vessels -> Journeys \cup {None}]
  /\ seen \in [Vessels -> Times \cup {None}]
  /\ \A v \in Vessels : journey[v] # None => seen[v] # None
  /\ log \in Seq(Events)
  /\ held \in [Vessels -> [Times -> Places \cup {None}]]
  /\ int_zones \subseteq Zones

-----------------------------------------------------------------------------
(* A step as one vessel sees it.                                           *)

\* The rows that the step adds for the vessel.
New(v) == {i \in Len(log) + 1 .. Len(log') : log'[i].mmsi = v}

\* The log only grows, at its end.
Grows ==
  /\ log \in Seq(Events) /\ log' \in Seq(Events)
  /\ Len(log) <= Len(log')
  /\ \A i \in 1 .. Len(log) : log'[i] = log[i]

HoldsPlace(v, t) == held'[v] = [held[v] EXCEPT ![t] = journey'[v].place]

Idle(v) ==
  /\ journey'[v] = journey[v] /\ seen'[v] = seen[v]
  /\ New(v) = {}
  /\ held'[v] = held[v] \/ (journey[v] # None /\ HoldsPlace(v, seen[v]))

\* A report that leaves the vessel's place as it was.
Stayed(v, t) ==
  /\ journey[v] # None
  /\ journey'[v].place = journey[v].place
  /\ journey'[v].elsewhere \in {None, journey[v].elsewhere, t}
  /\ \A i \in New(v) : log'[i].type # "state_transition"

\* A report that brings the vessel to a place: the first row is a transition.
Came(v, t) ==
  /\ IF journey[v] = None THEN seen[v] # None => seen[v] < t
     ELSE journey[v].elsewhere # None /\ t - journey[v].elsewhere >= DEBOUNCE
  /\ journey'[v].elsewhere = None
  /\ Len(log) + 1 \in New(v)
  /\ log'[Len(log) + 1].type = "state_transition"
  /\ log'[Len(log) + 1].zone = journey'[v].place.zone
  /\ \A i \in New(v) : log'[i].type = "state_transition" => i = Len(log) + 1

DisputeOf(v) == IF journey[v] = None THEN NoDispute ELSE journey[v].dispute

Disputed(v, t) ==
  /\ journey'[v].dispute \in Disputes(DisputeOf(v), t)
  /\ \A i \in New(v) : log'[i].type = "discrepancy_flagged" =>
       i = Len(log') /\ ~DisputeOf(v).flagged /\ journey'[v].dispute.flagged
  /\ DisputeOf(v).flagged /\ ~journey'[v].dispute.flagged =>
       Len(log') \in New(v) /\ log'[Len(log')].type = "discrepancy_cleared"

Reported(v, t) ==
  /\ journey'[v] # None
  /\ seen'[v] = t /\ (seen[v] # None => seen[v] <= t)
  /\ HoldsPlace(v, t)
  /\ \A i \in New(v) : log'[i].time = t /\ log'[i].derived = journey'[v].place.state
  /\ Stayed(v, t) \/ Came(v, t)
  /\ Disputed(v, t)

Ended(v) ==
  /\ journey[v] # None /\ journey'[v] = None
  /\ seen'[v] = seen[v] /\ held'[v] = held[v]
  /\ New(v) = {Len(log')}
  /\ Len(log') = Len(log) + 1
  /\ log'[Len(log')].type = "state_transition"
  /\ log'[Len(log')].derived = "EXPIRED"
  /\ log'[Len(log')].time = seen[v]

-----------------------------------------------------------------------------
LEMMA Growth ==
  ASSUME TypeInv, out' \in Seq(Events), log' = log \o out'
  PROVE  /\ Grows
         /\ Len(log) \in Nat /\ Len(out') \in Nat
         /\ Len(log') = Len(log) + Len(out')
         /\ \A j \in 1 .. Len(out') : log'[Len(log) + j] = out'[j]
<1> DEFINE S == Events
<1>1. log \in Seq(S) /\ out' \in Seq(S)
  BY DEF TypeInv
<1> HIDE DEF S
<1>2. /\ log' \in Seq(S)
      /\ Len(log') = Len(log) + Len(out')
      /\ \A i \in 1 .. Len(log) + Len(out') :
           log'[i] = IF i <= Len(log) THEN log[i] ELSE out'[i - Len(log)]
  BY <1>1, ConcatProperties
<1>3. Len(log) \in Nat /\ Len(out') \in Nat
  BY <1>1, LenProperties
<1>4. ASSUME NEW j \in 1 .. Len(out') PROVE log'[Len(log) + j] = out'[j]
  <2>1. /\ Len(log) + j \in 1 .. Len(log) + Len(out')
        /\ ~(Len(log) + j <= Len(log)) /\ (Len(log) + j) - Len(log) = j
    BY <1>3
  <2> QED
    BY <1>2, <2>1
<1>5. Len(log) <= Len(log') /\ \A i \in 1 .. Len(log) : log'[i] = log[i]
  BY <1>2, <1>3
<1> QED
  BY <1>1, <1>2, <1>3, <1>4, <1>5 DEF Grows, S

\* The rows of a step: none, one or two.
LEMMA Growth0 ==
  ASSUME TypeInv, out' = <<>>, log' = log \o out'
  PROVE  Grows /\ Len(log') = Len(log) /\ \A v : New(v) = {}
<1>1. out' \in Seq(Events) /\ Len(out') = 0
  OBVIOUS
<1> QED
  BY <1>1, Growth DEF New

LEMMA Growth1 ==
  ASSUME TypeInv, NEW a \in Events, out' = <<a>>, log' = log \o out'
  PROVE  /\ Grows
         /\ Len(log) \in Nat /\ Len(log') = Len(log) + 1 /\ log'[Len(log')] = a
         /\ \A v : New(v) = IF v = a.mmsi THEN {Len(log')} ELSE {}
<1>1. out' \in Seq(Events) /\ Len(out') = 1 /\ out'[1] = a /\ 1 \in 1 .. Len(out')
  OBVIOUS
<1>2. /\ Grows
      /\ Len(log) \in Nat /\ Len(log') = Len(log) + 1 /\ log'[Len(log) + 1] = a
  BY <1>1, Growth
<1>3. Len(log) + 1 .. Len(log') = {Len(log')}
  BY <1>2
<1> QED
  BY <1>2, <1>3 DEF New

LEMMA Growth2 ==
  ASSUME TypeInv, NEW a \in Events, NEW b \in Events, a.mmsi = b.mmsi,
         out' = <<a, b>>, log' = log \o out'
  PROVE  /\ Grows
         /\ Len(log) \in Nat /\ Len(log') = Len(log) + 2
         /\ log'[Len(log) + 1] = a /\ log'[Len(log')] = b
         /\ \A v : New(v) = IF v = a.mmsi THEN {Len(log) + 1, Len(log')} ELSE {}
<1>1. /\ out' \in Seq(Events) /\ Len(out') = 2 /\ out'[1] = a /\ out'[2] = b
      /\ 1 \in 1 .. Len(out') /\ 2 \in 1 .. Len(out')
  OBVIOUS
<1>2. /\ Grows
      /\ Len(log) \in Nat /\ Len(log') = Len(log) + 2
      /\ log'[Len(log) + 1] = a /\ log'[Len(log) + 2] = b
  BY <1>1, Growth
<1>3. Len(log) + 1 .. Len(log') = {Len(log) + 1, Len(log')}
  BY <1>2
<1> QED
  BY <1>2, <1>3 DEF New

-----------------------------------------------------------------------------
(* Every step, seen from every vessel.                                     *)

LifeDisputes == [since: Times \cup {None}, flagged: BOOLEAN]

LEMMA TimeFacts == Times \subseteq Nat /\ None \notin Nat /\ None \notin Times
<1>1. Times \subseteq Nat /\ None \notin Int
  BY VesselJourneyAssumption
<1>2. Nat \subseteq Int
  OBVIOUS
<1> QED
  BY <1>1, <1>2, Zenon

LEMMA PlaceType == \A p \in Places : p.state \in RawStates /\ p.zone \in Zones \cup {None}
BY DEF Places, RawStates

LEMMA DisputeType ==
  ASSUME NEW d \in LifeDisputes, NEW t \in Times, NEW e \in Disputes(d, t)
  PROVE  e \in LifeDisputes
<1>1. \/ e = NoDispute \/ e = d \/ e = [since |-> t, flagged |-> FALSE]
      \/ e = [since |-> d.since, flagged |-> TRUE]
  BY DEF Disputes
<1>2. d.since \in Times \cup {None}
  BY DEF LifeDisputes
<1>3. CASE e = d
  BY <1>3
<1>4. CASE e = NoDispute
  BY <1>4 DEF LifeDisputes, NoDispute
<1>5. \A u \in Times \cup {None}, b \in BOOLEAN : [since |-> u, flagged |-> b] \in LifeDisputes
  BY DEF LifeDisputes
<1> QED
  BY <1>1, <1>2, <1>3, <1>4, <1>5

LEMMA JourneyType ==
  ASSUME TypeInv, NEW v \in Vessels, journey[v] # None
  PROVE  /\ journey[v] \in Journeys
         /\ journey[v].place \in Places /\ journey[v].elsewhere \in Times \cup {None}
         /\ journey[v].dispute \in LifeDisputes
         /\ seen[v] \in Times
BY DEF TypeInv, Journeys, LifeDisputes

\* What EmitNext does besides the step of the journeys.
Emits ==
  /\ log' = log \o out'
  /\ held' = [v \in Vessels |->
                IF journey'[v] = None THEN held[v]
                ELSE [held[v] EXCEPT ![seen'[v]] = journey'[v].place]]
  /\ UNCHANGED int_zones

LEMMA EmitHeld ==
  ASSUME TypeInv, Emits, NEW v \in Vessels
  PROVE  held'[v] = IF journey'[v] = None THEN held[v]
                    ELSE [held[v] EXCEPT ![seen'[v]] = journey'[v].place]
BY DEF Emits

LEMMA EmitType ==
  ASSUME TypeInv, Emits, Grows,
         journey' \in [Vessels -> Journeys \cup {None}],
         seen' \in [Vessels -> Times \cup {None}],
         \A v \in Vessels : journey'[v] # None => seen'[v] # None
  PROVE  TypeInv'
<1>1. ASSUME NEW v \in Vessels, journey'[v] # None
      PROVE  [held[v] EXCEPT ![seen'[v]] = journey'[v].place] \in [Times -> Places \cup {None}]
  <2>1. journey'[v].place \in Places
    BY <1>1 DEF Journeys
  <2>2. held[v] \in [Times -> Places \cup {None}]
    BY DEF TypeInv
  <2> QED
    BY <2>1, <2>2
<1>2. held' \in [Vessels -> [Times -> Places \cup {None}]]
  BY <1>1 DEF TypeInv, Emits
<1> QED
  BY <1>2 DEF TypeInv, Emits, Grows

\* A report of v: what it makes of the vessel, and nothing of the others.
LEMMA ReportOfOne ==
  ASSUME TypeInv, Emits, Grows, NEW v \in Vessels, NEW t \in Times, NEW j \in Journeys,
         seen' = [seen EXCEPT ![v] = t], journey' = [journey EXCEPT ![v] = j],
         \A w : w # v => New(w) = {}
  PROVE  /\ TypeInv'
         /\ journey'[v] = j /\ journey'[v] # None /\ seen'[v] = t /\ HoldsPlace(v, t)
         /\ \A w \in Vessels \ {v} : Idle(w)
<1>1. journey'[v] = j /\ seen'[v] = t /\ j # None
  BY VesselJourneyAssumption DEF TypeInv
<1>2. \A w \in Vessels \ {v} : journey'[w] = journey[w] /\ seen'[w] = seen[w]
  BY DEF TypeInv
<1>3. TypeInv'
  <2>1. /\ journey' \in [Vessels -> Journeys \cup {None}]
        /\ seen' \in [Vessels -> Times \cup {None}]
    BY DEF TypeInv
  <2>2. None \notin Times
    BY TimeFacts
  <2>3. \A w \in Vessels : journey'[w] # None => seen'[w] # None
    BY <1>1, <1>2, <2>2 DEF TypeInv
  <2> QED
    BY <2>1, <2>3, EmitType
<1>4. HoldsPlace(v, t)
  BY <1>1, EmitHeld DEF HoldsPlace
<1>5. ASSUME NEW w \in Vessels \ {v} PROVE Idle(w)
  BY <1>2, EmitHeld DEF Idle, HoldsPlace
<1> QED
  BY <1>1, <1>3, <1>4, <1>5

LEMMA BeginCase ==
  ASSUME TypeInv, Emits, NEW v \in Vessels, NEW t \in Times, NEW p \in Places, Begin(v, p, t)
  PROVE  TypeInv' /\ Grows /\ Reported(v, t) /\ \A w \in Vessels \ {v} : Idle(w)
<1>1. PICK d \in Disputes(NoDispute, t) :
        journey' = [journey EXCEPT ![v] = [place |-> p, elsewhere |-> None, dispute |-> d]]
  BY DEF Begin
<1> DEFINE j == [place |-> p, elsewhere |-> None, dispute |-> d]
           a == TransitionEvent(v, "UNKNOWN", p.state, p.zone, t)
<1>2. d \in LifeDisputes /\ NoDispute.flagged = FALSE /\ d.flagged = FALSE
  <2>1. NoDispute \in LifeDisputes /\ NoDispute.flagged = FALSE /\ NoDispute.since = None
    BY DEF NoDispute, LifeDisputes
  <2>2. d \in LifeDisputes
    BY <2>1, <1>1, DisputeType
  <2>3. d = NoDispute \/ d = [since |-> t, flagged |-> FALSE]
    BY <1>1, <2>1 DEF Disputes
  <2> QED
    BY <2>1, <2>2, <2>3
<1>3. j \in Journeys
  BY <1>2 DEF Journeys, LifeDisputes
<1>4. a \in Events
  BY PlaceType DEF Events, TransitionEvent
<1>5. /\ a.mmsi = v /\ a.type = "state_transition" /\ a.derived = p.state
      /\ a.zone = p.zone /\ a.time = t
  BY DEF TransitionEvent
<1>6. out' = <<a>> /\ log' = log \o out' /\ journey[v] = None
      /\ (seen[v] # None => t > seen[v]) /\ seen' = [seen EXCEPT ![v] = t]
  BY DEF Begin, Emits
<1>7. j.place = p /\ j.elsewhere = None /\ j.dispute = d
  OBVIOUS
<1>8. journey' = [journey EXCEPT ![v] = j]
  BY <1>1
<1> HIDE DEF a, j
<1>9. /\ Grows
      /\ Len(log) \in Nat /\ Len(log') = Len(log) + 1 /\ log'[Len(log')] = a
      /\ \A w : New(w) = IF w = v THEN {Len(log')} ELSE {}
  BY <1>4, <1>5, <1>6, Growth1
<1>10. /\ TypeInv'
       /\ journey'[v] = j /\ journey'[v] # None /\ seen'[v] = t /\ HoldsPlace(v, t)
       /\ \A w \in Vessels \ {v} : Idle(w)
  BY <1>3, <1>6, <1>8, <1>9, ReportOfOne
<1>11. Came(v, t)
  BY <1>5, <1>6, <1>7, <1>9, <1>10, VesselJourneyAssumption DEF Came, TypeInv
<1>12. Disputed(v, t)
  BY <1>1, <1>2, <1>5, <1>6, <1>7, <1>9, <1>10 DEF Disputed, DisputeOf
<1>13. seen[v] # None => seen[v] <= t
  <2>1. seen[v] # None => seen[v] \in Nat
    BY TimeFacts DEF TypeInv
  <2>2. t \in Nat
    BY TimeFacts
  <2> QED
    BY <1>6, <2>1, <2>2
<1>14. \A i \in New(v) : log'[i].time = t /\ log'[i].derived = journey'[v].place.state
  BY <1>5, <1>7, <1>9, <1>10
<1> QED
  BY <1>9, <1>10, <1>11, <1>12, <1>13, <1>14 DEF Reported

LEMMA TwoRows ==
  ASSUME NEW a, NEW b
  PROVE  <<a>> \o <<b>> = <<a, b>> /\ <<a>> \o <<>> = <<a>>
<1> DEFINE S == {a, b}
<1>1. /\ <<a>> \in Seq(S) /\ Len(<<a>>) = 1 /\ <<a>>[1] = a
      /\ <<b>> \in Seq(S) /\ Len(<<b>>) = 1 /\ <<b>>[1] = b
  OBVIOUS
<1>2. <<a, b>> \in Seq(S) /\ Len(<<a, b>>) = 2 /\ <<a, b>>[1] = a /\ <<a, b>>[2] = b
  OBVIOUS
<1>3. /\ <<a>> \o <<b>> \in Seq(S) /\ Len(<<a>> \o <<b>>) = Len(<<a>>) + Len(<<b>>)
      /\ \A i \in 1 .. Len(<<a>>) + Len(<<b>>) :
           (<<a>> \o <<b>>)[i] = IF i <= Len(<<a>>) THEN <<a>>[i] ELSE <<b>>[i - Len(<<a>>)]
  BY <1>1, ConcatProperties
<1>4. Len(<<a>> \o <<b>>) = 2 /\ (<<a>> \o <<b>>)[1] = a /\ (<<a>> \o <<b>>)[2] = b
  BY <1>1, <1>3
<1>5. \A i \in 1 .. 2 : (<<a>> \o <<b>>)[i] = <<a, b>>[i]
  BY <1>2, <1>4
<1>6. <<a>> \o <<b>> = <<a, b>>
  BY <1>2, <1>3, <1>4, <1>5, SeqEqual
<1>7. <<a>> \o <<>> = <<a>>
  BY <1>1, ConcatEmptySeq
<1> QED
  BY <1>6, <1>7

LEMMA StayCase ==
  ASSUME TypeInv, Emits, NEW v \in Vessels, NEW t \in Times, Stay(v, t)
  PROVE  TypeInv' /\ Grows /\ Reported(v, t) /\ \A w \in Vessels \ {v} : Idle(w)
<1>1. PICK e \in {None, journey[v].elsewhere, t}, d \in Disputes(journey[v].dispute, t) :
        /\ journey' = [journey EXCEPT ![v].elsewhere = e, ![v].dispute = d]
        /\ out' = DisputeEvents(v, journey[v].dispute, d, journey[v].place.state, t)
  BY DEF Stay
<1> DEFINE j == [place |-> journey[v].place, elsewhere |-> e, dispute |-> d]
           before == journey[v].dispute
           b == DiscrepancyEvent(v, IF d.flagged THEN "discrepancy_flagged"
                                    ELSE "discrepancy_cleared", journey[v].place.state, t)
<1>2. /\ log' = log \o out' /\ journey[v] # None /\ seen' = [seen EXCEPT ![v] = t]
      /\ t >= seen[v]
  BY DEF Stay, Emits
<1>3. /\ journey[v] \in Journeys
      /\ journey[v].place \in Places /\ journey[v].elsewhere \in Times \cup {None}
      /\ before \in LifeDisputes /\ seen[v] \in Times
  BY <1>2, JourneyType
<1>4. d \in LifeDisputes /\ d.flagged \in BOOLEAN
  BY <1>1, <1>3, DisputeType DEF LifeDisputes
<1>5. j \in Journeys
  BY <1>1, <1>3, <1>4 DEF Journeys, LifeDisputes
<1>6. journey' = [journey EXCEPT ![v] = j]
  <2>1. journey[v] = [place |-> journey[v].place, elsewhere |-> journey[v].elsewhere,
                      dispute |-> before]
    BY <1>3 DEF Journeys
  <2>2. journey = [w \in Vessels |-> journey[w]]
    BY DEF TypeInv
  <2> DEFINE place == journey[v].place
             elsewhere == journey[v].elsewhere
  <2>3. journey[v] = [place |-> place, elsewhere |-> elsewhere, dispute |-> before]
    BY <2>1
  <2> HIDE DEF before, place, elsewhere
  <2> DEFINE first == [journey EXCEPT ![v].elsewhere = e]
             last == [place |-> place, elsewhere |-> e, dispute |-> d]
  <2>4. first[v] = [journey[v] EXCEPT !.elsewhere = e]
    BY <2>2
  <2>5. first[v] = [place |-> place, elsewhere |-> e, dispute |-> before]
    BY <2>3, <2>4
  <2>6. first = [w \in Vessels |-> IF w = v THEN first[v] ELSE journey[w]]
    BY <2>2, <2>4
  <2> HIDE DEF first
  <2>7. [first[v] EXCEPT !.dispute = d] = last
    BY <2>5
  <2>8. [first EXCEPT ![v].dispute = d] = [first EXCEPT ![v] = last]
    BY <2>7
  <2>9. journey' = [first EXCEPT ![v].dispute = d]
    BY <1>1 DEF first
  <2> HIDE DEF last
  <2>10. [first EXCEPT ![v] = last] = [journey EXCEPT ![v] = last]
    BY <2>2, <2>6
  <2> QED
    BY <2>8, <2>9, <2>10 DEF last, place
<1>7. b \in Events
  BY <1>3, PlaceType DEF Events, DiscrepancyEvent
<1>8. /\ b.mmsi = v /\ b.derived = journey[v].place.state /\ b.time = t
      /\ b.type = IF d.flagged THEN "discrepancy_flagged" ELSE "discrepancy_cleared"
  BY DEF DiscrepancyEvent
<1>9. j.place = journey[v].place /\ j.elsewhere = e /\ j.dispute = d
  OBVIOUS
<1>10. out' = IF d.flagged = before.flagged THEN <<>> ELSE <<b>>
  BY <1>1 DEF DisputeEvents
<1>11. before.flagged \in BOOLEAN /\ DisputeOf(v) = before
  BY <1>2, <1>3 DEF LifeDisputes, DisputeOf
<1> HIDE DEF b, j, before
<1>12. /\ Grows
       /\ \A w : w # v => New(w) = {}
       /\ d.flagged = before.flagged => New(v) = {}
       /\ d.flagged # before.flagged => New(v) = {Len(log')} /\ log'[Len(log')] = b
  <2>1. CASE d.flagged = before.flagged
    BY <1>2, <1>10, <2>1, Growth0
  <2>2. CASE d.flagged # before.flagged
    BY <1>2, <1>7, <1>8, <1>10, <2>2, Growth1
  <2> QED
    BY <2>1, <2>2
<1>13. /\ TypeInv'
       /\ journey'[v] = j /\ journey'[v] # None /\ seen'[v] = t /\ HoldsPlace(v, t)
       /\ \A w \in Vessels \ {v} : Idle(w)
  BY <1>2, <1>5, <1>6, <1>12, ReportOfOne
<1>14. \A i \in New(v) : /\ log'[i] = b /\ i = Len(log')
                          /\ d.flagged # before.flagged
  BY <1>12
<1>15. Stayed(v, t)
  BY <1>1, <1>2, <1>8, <1>9, <1>13, <1>14 DEF Stayed
<1>16. Disputed(v, t)
  <2>1. journey'[v].dispute = d /\ d \in Disputes(DisputeOf(v), t)
    BY <1>1, <1>9, <1>11, <1>13 DEF before
  <2>2. \A i \in New(v) : log'[i].type = "discrepancy_flagged" =>
          i = Len(log') /\ ~before.flagged /\ d.flagged
    BY <1>4, <1>8, <1>11, <1>14
  <2>3. before.flagged /\ ~d.flagged =>
          Len(log') \in New(v) /\ log'[Len(log')].type = "discrepancy_cleared"
    BY <1>8, <1>12
  <2> QED
    BY <1>11, <2>1, <2>2, <2>3 DEF Disputed
<1>17. seen[v] # None => seen[v] <= t
  <2>1. seen[v] \in Nat /\ t \in Nat
    BY <1>3, TimeFacts
  <2> QED
    BY <1>2, <2>1
<1>18. \A i \in New(v) : log'[i].time = t /\ log'[i].derived = journey'[v].place.state
  BY <1>8, <1>9, <1>13, <1>14
<1> QED
  BY <1>12, <1>13, <1>15, <1>16, <1>17, <1>18 DEF Reported

LEMMA MoveCase ==
  ASSUME TypeInv, Emits, NEW v \in Vessels, NEW t \in Times, NEW p \in Places, Move(v, p, t)
  PROVE  TypeInv' /\ Grows /\ Reported(v, t) /\ \A w \in Vessels \ {v} : Idle(w)
<1>1. PICK d \in Disputes(journey[v].dispute, t) :
        /\ journey' = [journey EXCEPT ![v] = [place |-> p, elsewhere |-> None, dispute |-> d]]
        /\ out' = <<TransitionEvent(v, journey[v].place.state, p.state, p.zone, t)>>
                  \o DisputeEvents(v, journey[v].dispute, d, p.state, t)
  BY DEF Move
<1> DEFINE j == [place |-> p, elsewhere |-> None, dispute |-> d]
           before == journey[v].dispute
           a == TransitionEvent(v, journey[v].place.state, p.state, p.zone, t)
           b == DiscrepancyEvent(v, IF d.flagged THEN "discrepancy_flagged"
                                    ELSE "discrepancy_cleared", p.state, t)
<1>2. /\ log' = log \o out' /\ journey[v] # None /\ seen' = [seen EXCEPT ![v] = t]
      /\ t >= seen[v] /\ HeldElsewhere(journey[v], t)
  BY DEF Move, Emits
<1>3. /\ journey[v] \in Journeys
      /\ journey[v].place \in Places /\ journey[v].elsewhere \in Times \cup {None}
      /\ before \in LifeDisputes /\ seen[v] \in Times
  BY <1>2, JourneyType
<1>4. d \in LifeDisputes /\ d.flagged \in BOOLEAN
  BY <1>1, <1>3, DisputeType DEF LifeDisputes
<1>5. j \in Journeys
  BY <1>4 DEF Journeys, LifeDisputes
<1>6. journey' = [journey EXCEPT ![v] = j]
  BY <1>1
<1>7. a \in Events /\ b \in Events
  BY <1>3, PlaceType DEF Events, DiscrepancyEvent, TransitionEvent
<1>8. /\ a.mmsi = v /\ a.derived = p.state /\ a.time = t /\ a.zone = p.zone
      /\ a.type = "state_transition"
      /\ b.mmsi = v /\ b.derived = p.state /\ b.time = t
      /\ b.type = IF d.flagged THEN "discrepancy_flagged" ELSE "discrepancy_cleared"
  BY DEF DiscrepancyEvent, TransitionEvent
<1>9. j.place = p /\ j.elsewhere = None /\ j.dispute = d
  OBVIOUS
<1>10. out' = IF d.flagged = before.flagged THEN <<a>> ELSE <<a, b>>
  <2>1. DisputeEvents(v, before, d, p.state, t) =
          IF d.flagged = before.flagged THEN <<>> ELSE <<b>>
    BY DEF DisputeEvents
  <2>2. <<a>> \o <<>> = <<a>> /\ <<a>> \o <<b>> = <<a, b>>
    BY TwoRows
  <2> QED
    BY <1>1, <2>1, <2>2
<1>11. before.flagged \in BOOLEAN /\ DisputeOf(v) = before
  BY <1>2, <1>3 DEF LifeDisputes, DisputeOf
<1> HIDE DEF a, b, j, before
<1>12. /\ Grows /\ Len(log) \in Nat
       /\ \A w : w # v => New(w) = {}
       /\ Len(log) + 1 \in New(v) /\ log'[Len(log) + 1] = a
       /\ d.flagged = before.flagged => New(v) = {Len(log) + 1}
       /\ d.flagged # before.flagged =>
            /\ New(v) = {Len(log) + 1, Len(log')} /\ log'[Len(log')] = b
            /\ Len(log') # Len(log) + 1
  <2>1. CASE d.flagged = before.flagged
    BY <1>2, <1>7, <1>8, <1>10, <2>1, Growth1
  <2>2. CASE d.flagged # before.flagged
    BY <1>2, <1>7, <1>8, <1>10, <2>2, Growth2
  <2> QED
    BY <2>1, <2>2
<1>13. /\ TypeInv'
       /\ journey'[v] = j /\ journey'[v] # None /\ seen'[v] = t /\ HoldsPlace(v, t)
       /\ \A w \in Vessels \ {v} : Idle(w)
  BY <1>2, <1>5, <1>6, <1>12, ReportOfOne
<1>14. \A i \in New(v) :
         \/ i = Len(log) + 1 /\ log'[i] = a
         \/ i = Len(log') /\ log'[i] = b /\ d.flagged # before.flagged
  BY <1>12
<1>15. Came(v, t)
  BY <1>2, <1>8, <1>9, <1>12, <1>13, <1>14 DEF Came, HeldElsewhere
<1>16. Disputed(v, t)
  <2>1. journey'[v].dispute = d /\ d \in Disputes(DisputeOf(v), t)
    BY <1>1, <1>9, <1>11, <1>13 DEF before
  <2>2. \A i \in New(v) : log'[i].type = "discrepancy_flagged" =>
          i = Len(log') /\ ~before.flagged /\ d.flagged
    BY <1>4, <1>8, <1>11, <1>14
  <2>3. before.flagged /\ ~d.flagged =>
          Len(log') \in New(v) /\ log'[Len(log')].type = "discrepancy_cleared"
    BY <1>8, <1>12
  <2> QED
    BY <1>11, <2>1, <2>2, <2>3 DEF Disputed
<1>17. seen[v] # None => seen[v] <= t
  <2>1. seen[v] \in Nat /\ t \in Nat
    BY <1>3, TimeFacts
  <2> QED
    BY <1>2, <2>1
<1>18. \A i \in New(v) : log'[i].time = t /\ log'[i].derived = journey'[v].place.state
  BY <1>8, <1>9, <1>13, <1>14
<1> QED
  BY <1>12, <1>13, <1>15, <1>16, <1>17, <1>18 DEF Reported

LEMMA EndCase ==
  ASSUME TypeInv, Emits, NEW v \in Vessels, End(v)
  PROVE  TypeInv' /\ Grows /\ Ended(v) /\ \A w \in Vessels \ {v} : Idle(w)
<1> DEFINE a == TransitionEvent(v, journey[v].place.state, "EXPIRED", None, seen[v])
<1>1. /\ log' = log \o out' /\ out' = <<a>> /\ journey[v] # None /\ seen' = seen
      /\ journey' = [journey EXCEPT ![v] = None]
  BY DEF End, Emits
<1>2. journey[v].place \in Places /\ seen[v] \in Times
  BY <1>1, JourneyType
<1>3. a \in Events
  BY <1>2, PlaceType DEF Events, TransitionEvent
<1>4. /\ a.mmsi = v /\ a.type = "state_transition" /\ a.derived = "EXPIRED"
      /\ a.time = seen[v]
  BY DEF TransitionEvent
<1> HIDE DEF a
<1>5. /\ Grows
      /\ Len(log) \in Nat /\ Len(log') = Len(log) + 1 /\ log'[Len(log')] = a
      /\ \A w : New(w) = IF w = v THEN {Len(log')} ELSE {}
  BY <1>1, <1>3, <1>4, Growth1
<1>6. journey'[v] = None /\ \A w \in Vessels \ {v} : journey'[w] = journey[w]
  BY <1>1 DEF TypeInv
<1>7. TypeInv'
  <2>1. journey' \in [Vessels -> Journeys \cup {None}] /\ seen' \in [Vessels -> Times \cup {None}]
    BY <1>1 DEF TypeInv
  <2>2. \A w \in Vessels : journey'[w] # None => seen'[w] # None
    BY <1>1, <1>6 DEF TypeInv
  <2> QED
    BY <1>5, <2>1, <2>2, EmitType
<1>8. Ended(v)
  BY <1>1, <1>4, <1>5, <1>6, EmitHeld DEF Ended
<1>9. ASSUME NEW w \in Vessels \ {v} PROVE Idle(w)
  BY <1>1, <1>5, <1>6, EmitHeld DEF Idle, HoldsPlace
<1> QED
  BY <1>5, <1>7, <1>8, <1>9

LEMMA OtherCases ==
  ASSUME TypeInv, \/ Emits /\ Quiet
                  \/ \E z \in Zones : NameZone(z)
                  \/ UNCHANGED martVars
  PROVE  TypeInv' /\ Grows /\ \A w \in Vessels : Idle(w)
<1>1. CASE Emits /\ Quiet
  <2>1. out' = <<>> /\ log' = log \o out' /\ journey' = journey /\ seen' = seen
    BY <1>1 DEF Quiet, Emits
  <2>2. Grows /\ \A w : New(w) = {}
    BY <2>1, Growth0
  <2>3. TypeInv'
    BY <1>1, <2>1, <2>2, EmitType DEF TypeInv
  <2>4. ASSUME NEW w \in Vessels PROVE Idle(w)
    BY <1>1, <2>1, <2>2, EmitHeld DEF Idle, HoldsPlace
  <2> QED
    BY <2>2, <2>3, <2>4
<1>2. CASE (\E z \in Zones : NameZone(z)) \/ UNCHANGED martVars
  <2>1. /\ log' = log /\ journey' = journey /\ seen' = seen /\ held' = held
        /\ int_zones' \subseteq Zones
    BY <1>2 DEF NameZone, martVars, vars, TypeInv
  <2>2. TypeInv'
    BY <2>1 DEF TypeInv
  <2>3. Len(log) \in Nat
    BY LenProperties DEF TypeInv
  <2>4. Grows /\ \A w : New(w) = {}
    BY <2>1, <2>3 DEF Grows, New, TypeInv
  <2> QED
    BY <2>1, <2>2, <2>4 DEF Idle
<1> QED
  BY <1>1, <1>2

LEMMA StepCases ==
  ASSUME TypeInv, [MartNext]_martVars
  PROVE  /\ TypeInv' /\ Grows
         /\ \A v \in Vessels : Idle(v) \/ (\E t \in Times : Reported(v, t)) \/ Ended(v)
<1>1. CASE EmitNext
  <2>1. Emits
    BY <1>1 DEF EmitNext, Emits
  <2>2. CASE Quiet
    BY <2>1, <2>2, OtherCases
  <2>3. ASSUME NEW w \in Vessels, NEW t \in Times,
               Stay(w, t) \/ \E p \in Places : Begin(w, p, t) \/ Move(w, p, t)
        PROVE  TypeInv' /\ Grows /\ Reported(w, t) /\ \A u \in Vessels \ {w} : Idle(u)
    BY <2>1, <2>3, StayCase, BeginCase, MoveCase
  <2>4. ASSUME NEW w \in Vessels, End(w)
        PROVE  TypeInv' /\ Grows /\ Ended(w) /\ \A u \in Vessels \ {w} : Idle(u)
    BY <2>1, <2>4, EndCase
  <2> QED
    BY <1>1, <2>2, <2>3, <2>4 DEF EmitNext, Next
<1>2. CASE (\E z \in Zones : NameZone(z)) \/ UNCHANGED martVars
  BY <1>2, OtherCases
<1> QED
  BY <1>1, <1>2 DEF MartNext

-----------------------------------------------------------------------------
(* The inductive invariant: what the log says of a vessel, against its     *)
(* journey.                                                                *)

Of(v) == {i \in DOMAIN log : log[i].mmsi = v}
Transitions(v) == {i \in Of(v) : log[i].type = "state_transition"}
Flags(v) == {i \in Of(v) : log[i].type = "discrepancy_flagged"}
PlaceAt(i) == [state |-> log[i].derived, zone |-> log[i].zone]
Last(v, i) == i \in Transitions(v) /\ \A k \in Transitions(v) : k <= i

\* The rows of a vessel are in event-time order, up to its newest report.
LogOrder ==
  \A v \in Vessels :
    /\ \A i \in Of(v) : seen[v] # None /\ log[i].time <= seen[v]
    /\ \A i, j \in Of(v) : i < j => log[i].time <= log[j].time

\* Only an EXPIRED row can share its time with the transition before it.
StartsIncrease ==
  \A v \in Vessels : \A i, j \in Transitions(v) :
    i < j /\ log[j].derived # "EXPIRED" => log[i].time < log[j].time

\* The last transition is where the vessel is, and older than any suspicion
\* that it is elsewhere; or it ended the last life, at its last report.
LastIsCurrent ==
  \A v \in Vessels :
    /\ journey[v] # None =>
         \E i \in Transitions(v) :
           /\ Last(v, i) /\ PlaceAt(i) = journey[v].place
           /\ journey[v].elsewhere # None => log[i].time <= journey[v].elsewhere
    /\ journey[v] = None /\ seen[v] # None =>
         \E i \in Transitions(v) :
           Last(v, i) /\ log[i].derived = "EXPIRED" /\ log[i].time = seen[v]

\* A dispute that can still be flagged began after every earlier flag.
FlagOrder ==
  \A v \in Vessels :
    /\ journey[v] # None /\ journey[v].dispute.since # None /\ ~journey[v].dispute.flagged =>
         \A i \in Flags(v) : log[i].time <= journey[v].dispute.since
    /\ \A i, j \in Flags(v) : i < j => log[i].time < log[j].time

\* What ends a flag: the vessel's dispute is cleared, or its life ends.
EndsFlag(i) ==
  \/ log[i].type = "discrepancy_cleared"
  \/ log[i].type = "state_transition" /\ log[i].derived = "EXPIRED"

\* A flag that nothing has ended is the vessel's dispute.
OpenFlag ==
  \A v \in Vessels : \A i \in Flags(v) :
    (\A k \in Of(v) : k > i => ~EndsFlag(k)) => journey[v] # None /\ journey[v].dispute.flagged

\* Transition i is the one that a position of time t is in.
Governs(v, t, i) ==
  /\ i \in Transitions(v) /\ log[i].time <= t
  /\ \A k \in Transitions(v) : k > i =>
       t < log[k].time \/ (log[k].derived = "EXPIRED" /\ log[k].time = t)

HeldIsLogged ==
  \A v \in Vessels : \A t \in Times : held[v][t] # None =>
    /\ seen[v] # None /\ t <= seen[v]
    /\ \E i \in Transitions(v) : Governs(v, t, i) /\ PlaceAt(i) = held[v][t]

Inv ==
  /\ TypeInv /\ LogOrder /\ StartsIncrease /\ LastIsCurrent
  /\ FlagOrder /\ OpenFlag /\ HeldIsLogged

LEMMA RowType ==
  ASSUME TypeInv, NEW v \in Vessels
  PROVE  /\ Of(v) \subseteq Nat
         /\ \A i \in Of(v) : log[i] \in Events /\ log[i].time \in Nat
         /\ seen[v] # None => seen[v] \in Nat
         /\ journey[v] # None =>
              /\ seen[v] # None
              /\ journey[v].elsewhere # None => journey[v].elsewhere \in Nat
              /\ journey[v].dispute.since # None => journey[v].dispute.since \in Nat
<1>1. Len(log) \in Nat /\ \A i \in 1 .. Len(log) : log[i] \in Events
  <2> DEFINE S == Events
  <2>1. log \in Seq(S)
    BY DEF TypeInv
  <2> HIDE DEF S
  <2>2. Len(log) \in Nat /\ \A i \in 1 .. Len(log) : log[i] \in S
    BY <2>1, LenProperties, ElementOfSeq
  <2> QED
    BY <2>2 DEF S
<1>2. DOMAIN log = 1 .. Len(log)
  BY DEF TypeInv
<1>3. \A i \in Of(v) : i \in 1 .. Len(log)
  BY <1>2 DEF Of
<1>4. \A e \in Events : e.time \in Times
  BY DEF Events
<1>5. journey[v] # None => /\ journey[v].elsewhere \in Times \cup {None}
                          /\ journey[v].dispute.since \in Times \cup {None}
  BY JourneyType DEF LifeDisputes
<1>6. ASSUME NEW i \in Of(v) PROVE i \in Nat /\ log[i] \in Events /\ log[i].time \in Nat
  <2>1. i \in Nat
    BY <1>1, <1>3
  <2>2. log[i] \in Events
    BY <1>1, <1>3
  <2> QED
    BY <1>4, <2>1, <2>2, TimeFacts
<1>7. /\ seen[v] # None => seen[v] \in Nat
      /\ journey[v] # None => seen[v] # None
  BY TimeFacts DEF TypeInv
<1>8. Times \subseteq Nat
  BY TimeFacts
<1> QED
  BY <1>5, <1>6, <1>7, <1>8

\* The rows after a step: the old ones, unchanged, and then the new ones.
LEMMA Rows ==
  ASSUME TypeInv, Grows, NEW v \in Vessels
  PROVE  /\ Of(v)' = Of(v) \cup New(v)
         /\ New(v) \subseteq Nat
         /\ \A i \in Of(v) : log'[i] = log[i] /\ \A k \in New(v) : i < k
         /\ \A k \in New(v) : Len(log) + 1 <= k /\ k <= Len(log')
<1>1. Len(log) \in Nat /\ Len(log') \in Nat
      /\ DOMAIN log = 1 .. Len(log) /\ DOMAIN log' = 1 .. Len(log')
  BY DEF Grows
<1>2. 1 .. Len(log') = (1 .. Len(log)) \cup (Len(log) + 1 .. Len(log'))
  BY <1>1 DEF Grows
<1>3. Of(v)' = {i \in DOMAIN log' : log'[i].mmsi = v}
  BY DEF Of
<1>4. \A i \in Of(v) : i \in 1 .. Len(log) /\ log'[i] = log[i]
  BY <1>1 DEF Of, Grows
<1>5. Of(v)' = Of(v) \cup New(v)
  BY <1>1, <1>2, <1>3 DEF Of, New, Grows
<1>6. \A k \in New(v) : k \in Nat /\ Len(log) + 1 <= k /\ k <= Len(log')
  BY <1>1 DEF New
<1>7. \A i \in Of(v), k \in New(v) : i < k
  BY <1>1, <1>4, <1>6
<1> QED
  BY <1>4, <1>5, <1>6, <1>7

LEMMA RowKinds ==
  /\ \A v, i : i \in Transitions(v) <=> i \in Of(v) /\ log[i].type = "state_transition"
  /\ \A v, i : i \in Flags(v) <=> i \in Of(v) /\ log[i].type = "discrepancy_flagged"
BY DEF Transitions, Flags

LEMMA RowKindsAfter ==
  /\ \A v, i : i \in Transitions(v)' <=> i \in Of(v)' /\ log'[i].type = "state_transition"
  /\ \A v, i : i \in Flags(v)' <=> i \in Of(v)' /\ log'[i].type = "discrepancy_flagged"
BY DEF Transitions, Flags

-----------------------------------------------------------------------------
LEMMA LogOrderStep ==
  ASSUME Inv, [MartNext]_martVars
  PROVE  LogOrder'
<1> SUFFICES ASSUME NEW v \in Vessels
             PROVE  /\ \A i \in Of(v)' : seen'[v] # None /\ log'[i].time <= seen'[v]
                    /\ \A i, j \in Of(v)' : i < j => log'[i].time <= log'[j].time
  BY DEF LogOrder
<1>1. TypeInv /\ TypeInv' /\ Grows
      /\ (Idle(v) \/ (\E t \in Times : Reported(v, t)) \/ Ended(v))
  BY StepCases DEF Inv
<1>2. /\ Of(v)' = Of(v) \cup New(v) /\ Of(v) \subseteq Nat /\ New(v) \subseteq Nat
      /\ \A i \in Of(v) : log'[i] = log[i] /\ log[i].time \in Nat /\ \A k \in New(v) : i < k
      /\ seen[v] # None => seen[v] \in Nat
  BY <1>1, Rows, RowType
<1>3. /\ \A i \in Of(v) : seen[v] # None /\ log[i].time <= seen[v]
      /\ \A i, j \in Of(v) : i < j => log[i].time <= log[j].time
  BY DEF Inv, LogOrder
<1>4. CASE Idle(v)
  BY <1>2, <1>3, <1>4 DEF Idle
<1>5. ASSUME NEW t \in Nat, t # None, seen'[v] = t, \A i \in New(v) : log'[i].time = t,
             seen[v] # None => seen[v] <= t
      PROVE  /\ \A i \in Of(v)' : seen'[v] # None /\ log'[i].time <= seen'[v]
             /\ \A i, j \in Of(v)' : i < j => log'[i].time <= log'[j].time
  <2>1. \A i \in Of(v) : log'[i].time <= t
    BY <1>2, <1>3, <1>5
  <2>2. \A i \in New(v) : log'[i].time <= t
    BY <1>5
  <2>3. \A i \in Of(v), j \in New(v) : i < j /\ ~(j < i)
    BY <1>2
  <2>4. \A i, j \in Of(v)' : i < j => log'[i].time <= log'[j].time
    <3>1. ASSUME NEW i \in Of(v), NEW j \in Of(v), i < j PROVE log'[i].time <= log'[j].time
      BY <1>2, <1>3, <3>1
    <3>2. ASSUME NEW i \in Of(v)', NEW j \in New(v) PROVE log'[i].time <= log'[j].time
      BY <1>2, <1>5, <2>1, <2>2
    <3> QED
      BY <1>2, <2>3, <3>1, <3>2
  <2> QED
    BY <1>2, <1>5, <2>1, <2>2, <2>4
<1>6. ASSUME NEW t \in Times, Reported(v, t)
      PROVE  /\ \A i \in Of(v)' : seen'[v] # None /\ log'[i].time <= seen'[v]
             /\ \A i, j \in Of(v)' : i < j => log'[i].time <= log'[j].time
  BY <1>5, <1>6, TimeFacts DEF Reported
<1>7. CASE Ended(v)
  <2>1. seen[v] \in Nat /\ seen[v] # None /\ seen'[v] = seen[v]
        /\ \A i \in New(v) : log'[i].time = seen[v]
    BY <1>1, <1>2, <1>7 DEF Ended, TypeInv
  <2>2. seen[v] <= seen[v]
    BY <2>1
  <2> QED
    BY <1>5, <2>1, <2>2
<1> QED
  BY <1>1, <1>4, <1>6, <1>7

\* A report that brings the vessel to a place is newer than its transitions.
LEMMA CameAfter ==
  ASSUME Inv, NEW v \in Vessels, NEW t \in Times, Came(v, t), NEW i \in Transitions(v)
  PROVE  log[i].time < t
<1>1. /\ i \in Of(v) /\ log[i].time \in Nat /\ t \in Nat
      /\ seen[v] # None /\ seen[v] \in Nat /\ log[i].time <= seen[v]
  BY RowType, RowKinds, TimeFacts DEF Inv, LogOrder
<1>2. CASE journey[v] = None
  BY <1>1, <1>2 DEF Came
<1>3. CASE journey[v] # None
  <2>1. PICK m \in Transitions(v) :
          Last(v, m) /\ (journey[v].elsewhere # None => log[m].time <= journey[v].elsewhere)
    BY <1>3 DEF Inv, LastIsCurrent
  <2>2. /\ m \in Of(v) /\ m \in Nat /\ i \in Nat /\ log[m].time \in Nat
        /\ journey[v].elsewhere # None /\ journey[v].elsewhere \in Nat
        /\ t - journey[v].elsewhere >= DEBOUNCE
    <3>1. m \in Of(v) /\ TypeInv
      BY RowKinds DEF Inv
    <3>2. m \in Nat /\ i \in Nat /\ log[m].time \in Nat
          /\ (journey[v].elsewhere # None => journey[v].elsewhere \in Nat)
      BY <1>1, <1>3, <3>1, RowType
    <3> QED
      BY <1>3, <3>1, <3>2 DEF Came
  <2>3. i <= m
    BY <2>1 DEF Last
  <2>4. log[i].time <= log[m].time
    <3>1. i < m \/ i = m
      BY <2>2, <2>3
    <3>2. i < m => log[i].time <= log[m].time
      BY <1>1, <2>2 DEF Inv, LogOrder
    <3> QED
      BY <1>1, <3>1, <3>2
  <2>5. \A a, b, c, d \in Nat : a <= b /\ b <= c /\ d - c >= DEBOUNCE => a < d
    BY VesselJourneyAssumption
  <2> QED
    BY <1>1, <2>1, <2>2, <2>4, <2>5
<1> QED
  BY <1>2, <1>3

LEMMA StartsIncreaseStep ==
  ASSUME Inv, [MartNext]_martVars
  PROVE  StartsIncrease'
<1> SUFFICES ASSUME NEW v \in Vessels, NEW i \in Transitions(v)', NEW j \in Transitions(v)',
                    i < j, log'[j].derived # "EXPIRED"
             PROVE  log'[i].time < log'[j].time
  BY DEF StartsIncrease
<1>1. TypeInv /\ TypeInv' /\ Grows
      /\ (Idle(v) \/ (\E t \in Times : Reported(v, t)) \/ Ended(v))
  BY StepCases DEF Inv
<1>2. /\ Of(v)' = Of(v) \cup New(v) /\ Of(v) \subseteq Nat /\ New(v) \subseteq Nat
      /\ \A k \in Of(v) : log'[k] = log[k] /\ \A n \in New(v) : k < n
  BY <1>1, Rows, RowType
<1>3. /\ i \in Of(v)' /\ j \in Of(v)'
      /\ log'[i].type = "state_transition" /\ log'[j].type = "state_transition"
  BY RowKindsAfter
<1>4. CASE j \in Of(v)
  <2>1. i \in Of(v)
    BY <1>2, <1>3, <1>4
  <2>2. i \in Transitions(v) /\ j \in Transitions(v)
    BY <1>2, <1>3, <1>4, <2>1, RowKinds
  <2> QED
    BY <1>2, <1>4, <2>1, <2>2 DEF Inv, StartsIncrease
<1>5. CASE j \in New(v)
  <2>1. PICK t \in Times : Reported(v, t)
    BY <1>1, <1>5 DEF Idle, Ended
  <2>2. Came(v, t) /\ j = Len(log) + 1 /\ log'[j].time = t
    BY <1>3, <1>5, <2>1 DEF Reported, Stayed, Came
  <2>3. i \in Of(v)
    BY <1>2, <1>3, <2>2 DEF Came
  <2>4. i \in Transitions(v) /\ log'[i] = log[i]
    BY <1>2, <1>3, <2>3, RowKinds
  <2> QED
    BY <2>2, <2>4, CameAfter
<1> QED
  BY <1>2, <1>3, <1>4, <1>5

LEMMA LastIsCurrentStep ==
  ASSUME Inv, [MartNext]_martVars
  PROVE  LastIsCurrent'
<1> SUFFICES ASSUME NEW v \in Vessels
             PROVE  /\ journey'[v] # None =>
                         \E i \in Transitions(v)' :
                           /\ Last(v, i)' /\ PlaceAt(i)' = journey'[v].place
                           /\ journey'[v].elsewhere # None => log'[i].time <= journey'[v].elsewhere
                    /\ journey'[v] = None /\ seen'[v] # None =>
                         \E i \in Transitions(v)' :
                           Last(v, i)' /\ log'[i].derived = "EXPIRED" /\ log'[i].time = seen'[v]
  BY DEF LastIsCurrent
<1>1. TypeInv /\ TypeInv' /\ Grows
      /\ (Idle(v) \/ (\E t \in Times : Reported(v, t)) \/ Ended(v))
  BY StepCases DEF Inv
<1>2. /\ Of(v)' = Of(v) \cup New(v) /\ Of(v) \subseteq Nat /\ New(v) \subseteq Nat
      /\ \A k \in Of(v) : log'[k] = log[k] /\ log[k].time \in Nat /\ \A n \in New(v) : k < n
      /\ \A n \in New(v) : Len(log) + 1 <= n /\ n <= Len(log')
  BY <1>1, Rows, RowType
<1>3. /\ journey[v] # None =>
           \E i \in Transitions(v) :
             /\ Last(v, i) /\ PlaceAt(i) = journey[v].place
             /\ journey[v].elsewhere # None => log[i].time <= journey[v].elsewhere
      /\ journey[v] = None /\ seen[v] # None =>
           \E i \in Transitions(v) :
             Last(v, i) /\ log[i].derived = "EXPIRED" /\ log[i].time = seen[v]
  BY DEF Inv, LastIsCurrent
\* Without a new transition the last one is the last one still.
<1>4. ASSUME \A n \in New(v) : log'[n].type # "state_transition", NEW i \in Transitions(v), Last(v, i)
      PROVE  i \in Transitions(v)' /\ Last(v, i)' /\ log'[i] = log[i] /\ PlaceAt(i)' = PlaceAt(i)
  <2>1. i \in Of(v) /\ log[i].type = "state_transition" /\ log'[i] = log[i]
    BY <1>2, RowKinds
  <2>2. i \in Transitions(v)'
    BY <1>2, <2>1, RowKindsAfter
  <2>3. ASSUME NEW k \in Transitions(v)' PROVE k <= i
    <3>1. k \in Of(v)' /\ log'[k].type = "state_transition"
      BY RowKindsAfter
    <3>2. k \in Of(v) /\ log[k].type = "state_transition"
      BY <1>2, <1>4, <3>1
    <3> QED
      BY <1>4, <3>2, RowKinds DEF Last
  <2> QED
    BY <2>1, <2>2, <2>3 DEF Last, PlaceAt
<1>5. CASE Idle(v)
  BY <1>3, <1>4, <1>5 DEF Idle
<1>6. ASSUME NEW t \in Times, Reported(v, t), Stayed(v, t)
      PROVE  journey'[v] # None /\
                  \E i \in Transitions(v)' :
                    /\ Last(v, i)' /\ PlaceAt(i)' = journey'[v].place
                    /\ journey'[v].elsewhere # None => log'[i].time <= journey'[v].elsewhere
  <2>1. PICK i \in Transitions(v) :
             /\ Last(v, i) /\ PlaceAt(i) = journey[v].place
             /\ journey[v].elsewhere # None => log[i].time <= journey[v].elsewhere
    BY <1>3, <1>6 DEF Stayed
  <2>2. i \in Transitions(v)' /\ Last(v, i)' /\ log'[i] = log[i] /\ PlaceAt(i)' = PlaceAt(i)
    BY <1>4, <1>6, <2>1 DEF Stayed
  <2>3. log[i].time <= t
    <3>1. i \in Of(v) /\ seen[v] # None /\ log[i].time <= seen[v] /\ seen[v] <= t
      BY <1>6, RowKinds DEF Reported, Inv, LogOrder
    <3>2. log[i].time \in Nat /\ seen[v] \in Nat /\ t \in Nat
      BY <1>1, <1>2, <3>1, RowType, TimeFacts
    <3> QED
      BY <3>1, <3>2
  <2> QED
    BY <1>6, <2>1, <2>2, <2>3 DEF Reported, Stayed
<1>7. ASSUME NEW t \in Times, Reported(v, t), Came(v, t)
      PROVE  journey'[v] # None /\
                  \E i \in Transitions(v)' :
                    /\ Last(v, i)' /\ PlaceAt(i)' = journey'[v].place
                    /\ journey'[v].elsewhere # None => log'[i].time <= journey'[v].elsewhere
  <2>0. PICK i \in New(v) : i = Len(log) + 1
    BY <1>7 DEF Came
  <2>1. /\ i \in New(v) /\ log'[i].type = "state_transition"
        /\ log'[i].zone = journey'[v].place.zone /\ log'[i].derived = journey'[v].place.state
        /\ journey'[v].elsewhere = None /\ journey'[v] # None
    BY <1>7, <2>0 DEF Reported, Came
  <2>2. i \in Transitions(v)'
    BY <1>2, <2>1, RowKindsAfter
  <2>3. ASSUME NEW k \in Transitions(v)' PROVE k <= i
    <3>1. k \in Of(v)' /\ log'[k].type = "state_transition" /\ i \in Nat
      BY <1>2, <2>1, RowKindsAfter
    <3>2. k \in New(v) => k = i
      BY <1>7, <2>0, <3>1 DEF Came
    <3>3. k \in Of(v) => k < i
      BY <1>2, <2>1
    <3> QED
      BY <1>2, <3>1, <3>2, <3>3
  <2>4. PlaceAt(i)' = journey'[v].place
    <3>1. journey'[v].place \in Places
      BY <1>1, <2>1 DEF TypeInv, Journeys
    <3>2. \A p \in Places : p = [state |-> p.state, zone |-> p.zone]
      BY DEF Places
    <3> QED
      BY <2>1, <3>1, <3>2 DEF PlaceAt
  <2> QED
    BY <2>1, <2>2, <2>3, <2>4 DEF Last
<1>8. ASSUME Ended(v)
      PROVE  journey'[v] = None /\
                  \E i \in Transitions(v)' :
                    Last(v, i)' /\ log'[i].derived = "EXPIRED" /\ log'[i].time = seen'[v]
  <2>0. PICK i \in New(v) : i = Len(log')
    BY <1>8 DEF Ended
  <2>1. /\ New(v) = {i} /\ log'[i].type = "state_transition" /\ log'[i].derived = "EXPIRED"
        /\ log'[i].time = seen'[v] /\ journey'[v] = None
    BY <1>8, <2>0 DEF Ended
  <2>2. i \in Transitions(v)'
    BY <1>2, <2>1, RowKindsAfter
  <2>3. \A k \in Transitions(v)' : k <= i
    BY <1>2, <2>1, RowKindsAfter
  <2> QED
    BY <2>1, <2>2, <2>3 DEF Last
<1> QED
  BY <1>1, <1>5, <1>6, <1>7, <1>8 DEF Reported

-----------------------------------------------------------------------------
LEMMA DisputeFacts ==
  ASSUME NEW d, NEW t, NEW e \in Disputes(d, t)
  PROVE  /\ e.since # None /\ ~e.flagged =>
              e.since = t \/ (d.since # None /\ ~d.flagged /\ e.since = d.since)
         /\ e.flagged /\ ~d.flagged => d.since # None /\ t - d.since >= DISCREPANCY_THRESHOLD
<1>1. \/ e = NoDispute \/ e = d \/ e = [since |-> t, flagged |-> FALSE]
      \/ /\ e = [since |-> d.since, flagged |-> TRUE]
         /\ d.since # None /\ t - d.since >= DISCREPANCY_THRESHOLD
  BY DEF Disputes
<1> QED
  BY <1>1 DEF NoDispute

LEMMA FlagOrderStep ==
  ASSUME Inv, [MartNext]_martVars
  PROVE  FlagOrder'
<1> SUFFICES ASSUME NEW v \in Vessels
             PROVE  /\ journey'[v] # None /\ journey'[v].dispute.since # None
                         /\ ~journey'[v].dispute.flagged =>
                         \A i \in Flags(v)' : log'[i].time <= journey'[v].dispute.since
                    /\ \A i, j \in Flags(v)' : i < j => log'[i].time < log'[j].time
  BY DEF FlagOrder
<1>1. TypeInv /\ TypeInv' /\ Grows
      /\ (Idle(v) \/ (\E t \in Times : Reported(v, t)) \/ Ended(v))
  BY StepCases DEF Inv
<1>2. /\ Of(v)' = Of(v) \cup New(v) /\ Of(v) \subseteq Nat /\ New(v) \subseteq Nat
      /\ \A k \in Of(v) : log'[k] = log[k] /\ log[k].time \in Nat /\ \A n \in New(v) : k < n
  BY <1>1, Rows, RowType
<1>3. /\ journey[v] # None /\ journey[v].dispute.since # None /\ ~journey[v].dispute.flagged =>
           \A i \in Flags(v) : log[i].time <= journey[v].dispute.since
      /\ \A i, j \in Flags(v) : i < j => log[i].time < log[j].time
  BY DEF Inv, FlagOrder
<1>4. ASSUME \A n \in New(v) : log'[n].type # "discrepancy_flagged"
      PROVE  /\ \A i \in Flags(v)' : i \in Flags(v) /\ log'[i] = log[i]
             /\ \A i, j \in Flags(v)' : i < j => log'[i].time < log'[j].time
  <2>1. \A i \in Flags(v)' : i \in Flags(v) /\ log'[i] = log[i]
    BY <1>2, <1>4, RowKinds, RowKindsAfter
  <2> QED
    BY <1>3, <2>1
<1>5. CASE Idle(v)
  BY <1>3, <1>4, <1>5 DEF Idle
<1>6. CASE Ended(v)
  BY <1>4, <1>6 DEF Ended
<1>7. ASSUME NEW t \in Times, Reported(v, t)
      PROVE  /\ journey'[v].dispute.since # None /\ ~journey'[v].dispute.flagged =>
                  \A i \in Flags(v)' : log'[i].time <= journey'[v].dispute.since
             /\ \A i, j \in Flags(v)' : i < j => log'[i].time < log'[j].time
  <2> DEFINE d == DisputeOf(v)
             e == journey'[v].dispute
  <2>1. /\ e.since # None /\ ~e.flagged =>
             e.since = t \/ (d.since # None /\ ~d.flagged /\ e.since = d.since)
        /\ e.flagged /\ ~d.flagged => d.since # None /\ t - d.since >= DISCREPANCY_THRESHOLD
    BY <1>7, DisputeFacts DEF Reported, Disputed
  <2>2. \A i \in New(v) : log'[i].type = "discrepancy_flagged" =>
          i = Len(log') /\ ~d.flagged /\ e.flagged /\ log'[i].time = t
    BY <1>7 DEF Reported, Disputed
  <2>3. \A i \in Flags(v) : log[i].time <= t /\ log[i].time \in Nat
    <3>1. ASSUME NEW i \in Flags(v) PROVE log[i].time <= t
      <4>1. i \in Of(v) /\ seen[v] # None /\ log[i].time <= seen[v] /\ seen[v] <= t
        BY <1>7, RowKinds DEF Reported, Inv, LogOrder
      <4>2. log[i].time \in Nat /\ seen[v] \in Nat /\ t \in Nat
        BY <1>1, <1>2, <4>1, RowType, TimeFacts
      <4> QED
        BY <4>1, <4>2
    <3> QED
      BY <1>2, <3>1, RowKinds
  <2>4. d.since # None =>
          /\ d.since \in Nat
          /\ ~d.flagged => \A i \in Flags(v) : log[i].time <= d.since
    <3>1. d.since # None => journey[v] # None /\ d = journey[v].dispute
      BY DEF DisputeOf, NoDispute
    <3> QED
      BY <1>1, <1>3, <3>1, RowType
  <2>5. ASSUME e.flagged, ~d.flagged, NEW i \in Flags(v) PROVE log[i].time < t
    <3>1. log[i].time <= d.since /\ d.since \in Nat /\ t - d.since >= DISCREPANCY_THRESHOLD
      BY <2>1, <2>4, <2>5
    <3>2. \A a, b, c \in Nat : a <= b /\ c - b >= DISCREPANCY_THRESHOLD => a < c
      BY VesselJourneyAssumption
    <3>3. t \in Nat /\ log[i].time \in Nat
      BY <2>3, TimeFacts
    <3> QED
      BY <3>1, <3>2, <3>3
  <2> HIDE DEF d, e
  <2>6. \A i \in Flags(v)' :
          \/ i \in Flags(v) /\ log'[i] = log[i]
          \/ i \in New(v) /\ i = Len(log') /\ ~d.flagged /\ e.flagged /\ log'[i].time = t
    BY <1>2, <2>2, RowKinds, RowKindsAfter
  <2>7. e.since # None /\ ~e.flagged => \A i \in Flags(v)' : log'[i].time <= e.since
    BY <2>1, <2>3, <2>4, <2>6
  <2>8. ASSUME NEW i \in Flags(v)', NEW j \in Flags(v)', i < j PROVE log'[i].time < log'[j].time
    <3>1. CASE i \in Flags(v) /\ log'[i] = log[i] /\ j \in Flags(v) /\ log'[j] = log[j]
      BY <1>3, <2>8, <3>1
    <3>2. CASE i \in Flags(v) /\ log'[i] = log[i] /\ j \in New(v)
      BY <2>5, <2>6, <3>2, <1>2, RowKinds
    <3>3. CASE i \in New(v) /\ i = Len(log')
      <4>1. j \in Of(v) \/ j = Len(log')
        BY <2>6, RowKinds
      <4> QED
        BY <1>2, <2>8, <3>3, <4>1
    <3> QED
      BY <2>6, <3>1, <3>2, <3>3
  <2> QED
    BY <2>7, <2>8 DEF e
<1> QED
  BY <1>1, <1>5, <1>6, <1>7

LEMMA OpenFlagStep ==
  ASSUME Inv, [MartNext]_martVars
  PROVE  OpenFlag'
<1> SUFFICES ASSUME NEW v \in Vessels, NEW i \in Flags(v)',
                    \A k \in Of(v)' : k > i => ~EndsFlag(k)'
             PROVE  journey'[v] # None /\ journey'[v].dispute.flagged
  BY DEF OpenFlag
<1>1. TypeInv /\ TypeInv' /\ Grows
      /\ (Idle(v) \/ (\E t \in Times : Reported(v, t)) \/ Ended(v))
  BY StepCases DEF Inv
<1>2. /\ Of(v)' = Of(v) \cup New(v) /\ Of(v) \subseteq Nat /\ New(v) \subseteq Nat
      /\ \A k \in Of(v) : log'[k] = log[k] /\ \A n \in New(v) : k < n
  BY <1>1, Rows, RowType
<1>3. i \in Of(v)' /\ log'[i].type = "discrepancy_flagged"
  BY RowKindsAfter
<1>4. i \in Of(v) => journey[v] # None /\ journey[v].dispute.flagged
  <2>1. ASSUME i \in Of(v) PROVE i \in Flags(v) /\ \A k \in Of(v) : k > i => ~EndsFlag(k)
    BY <1>2, <1>3, <2>1, RowKinds DEF EndsFlag
  <2> QED
    BY <2>1 DEF Inv, OpenFlag
<1>5. ASSUME NEW n \in New(v), i \in Of(v) PROVE ~EndsFlag(n)'
  BY <1>2, <1>5
<1>6. CASE Idle(v)
  BY <1>2, <1>3, <1>4, <1>6 DEF Idle
<1>7. CASE Ended(v)
  <2>1. /\ New(v) = {Len(log')} /\ log'[Len(log')].type = "state_transition"
        /\ log'[Len(log')].derived = "EXPIRED"
    BY <1>7 DEF Ended
  <2>2. i \in Of(v)
    BY <1>2, <1>3, <2>1
  <2> QED
    BY <1>5, <2>1, <2>2 DEF EndsFlag
<1>8. ASSUME NEW t \in Times, Reported(v, t)
      PROVE  journey'[v] # None /\ journey'[v].dispute.flagged
  <2>1. /\ journey'[v] # None
        /\ i \in New(v) => journey'[v].dispute.flagged
        /\ DisputeOf(v).flagged /\ ~journey'[v].dispute.flagged =>
             Len(log') \in New(v) /\ log'[Len(log')].type = "discrepancy_cleared"
    BY <1>3, <1>8 DEF Reported, Disputed
  <2>2. i \in Of(v) => DisputeOf(v).flagged
    BY <1>4 DEF DisputeOf
  <2>3. i \in Of(v) => journey'[v].dispute.flagged
    BY <1>5, <2>1, <2>2 DEF EndsFlag
  <2> QED
    BY <1>2, <1>3, <2>1, <2>3
<1> QED
  BY <1>1, <1>6, <1>7, <1>8

LEMMA HeldIsLoggedStep ==
  ASSUME Inv, [MartNext]_martVars
  PROVE  HeldIsLogged'
<1> SUFFICES ASSUME NEW v \in Vessels, NEW u \in Times, held'[v][u] # None
             PROVE  /\ seen'[v] # None /\ u <= seen'[v]
                    /\ \E i \in Transitions(v)' : Governs(v, u, i)' /\ PlaceAt(i)' = held'[v][u]
  BY DEF HeldIsLogged
<1>1. TypeInv /\ TypeInv' /\ Grows
      /\ (Idle(v) \/ (\E t \in Times : Reported(v, t)) \/ Ended(v))
  BY StepCases DEF Inv
<1>2. /\ Of(v)' = Of(v) \cup New(v) /\ Of(v) \subseteq Nat /\ New(v) \subseteq Nat
      /\ \A k \in Of(v) : log'[k] = log[k] /\ log[k].time \in Nat /\ \A n \in New(v) : k < n
  BY <1>1, Rows, RowType
<1>3. LogOrder' /\ LastIsCurrent'
  BY LogOrderStep, LastIsCurrentStep
<1>4. u \in Nat /\ held[v] = [x \in Times |-> held[v][x]]
  BY TimeFacts DEF Inv, TypeInv
\* The place of the newest report is that of the last transition.
<1>5. ASSUME journey'[v] # None, u = seen'[v], held'[v][u] = journey'[v].place
      PROVE  /\ seen'[v] # None /\ u <= seen'[v]
             /\ \E i \in Transitions(v)' : Governs(v, u, i)' /\ PlaceAt(i)' = held'[v][u]
  <2>1. PICK i \in Transitions(v)' : Last(v, i)' /\ PlaceAt(i)' = journey'[v].place
    BY <1>3, <1>5 DEF LastIsCurrent
  <2>2. i \in Of(v)' /\ seen'[v] # None /\ log'[i].time <= seen'[v]
    BY <1>3, RowKindsAfter DEF LogOrder
  <2>3. \A k \in Transitions(v)' : k \in Nat /\ k <= i
    BY <1>2, <2>1, RowKindsAfter DEF Last
  <2>4. i \in Nat /\ \A k \in Transitions(v)' : ~(k > i)
    BY <1>2, <2>2, <2>3
  <2> QED
    BY <1>4, <1>5, <2>1, <2>2, <2>4 DEF Governs
\* An older one keeps its transition, if the new ones are not too early.
<1>6. ASSUME held'[v][u] = held[v][u], seen'[v] # None, seen[v] # None => seen[v] <= seen'[v],
             seen'[v] \in Nat,
             \A k \in New(v) : log'[k].type = "state_transition" =>
               u < log'[k].time \/ (log'[k].derived = "EXPIRED" /\ log'[k].time = u)
      PROVE  /\ seen'[v] # None /\ u <= seen'[v]
             /\ \E i \in Transitions(v)' : Governs(v, u, i)' /\ PlaceAt(i)' = held'[v][u]
  <2>1. /\ seen[v] # None /\ u <= seen[v]
        /\ \E i \in Transitions(v) : Governs(v, u, i) /\ PlaceAt(i) = held[v][u]
    BY <1>6 DEF Inv, HeldIsLogged
  <2>2. PICK i \in Transitions(v) : Governs(v, u, i) /\ PlaceAt(i) = held[v][u]
    BY <2>1
  <2>3. i \in Of(v) /\ log'[i] = log[i] /\ i \in Transitions(v)'
    BY <1>2, RowKinds, RowKindsAfter
  <2>4. ASSUME NEW k \in Transitions(v)', k > i
        PROVE  u < log'[k].time \/ (log'[k].derived = "EXPIRED" /\ log'[k].time = u)
    <3>1. k \in Of(v) => k \in Transitions(v) /\ log'[k] = log[k]
      BY <1>2, RowKinds, RowKindsAfter
    <3>2. k \in New(v) \/ k \in Of(v)
      BY <1>2, RowKindsAfter
    <3> QED
      BY <1>6, <2>2, <2>4, <3>1, <3>2, RowKindsAfter DEF Governs
  <2>5. u <= seen'[v]
    <3>1. seen[v] \in Nat
      BY <1>1, <2>1, RowType
    <3> QED
      BY <1>4, <1>6, <2>1, <3>1
  <2> QED
    BY <1>6, <2>2, <2>3, <2>4, <2>5 DEF Governs, PlaceAt
<1>7. CASE Idle(v)
  <2>1. CASE held'[v] = held[v]
    <3>1. seen[v] # None /\ seen[v] \in Nat
      BY <1>1, <2>1, RowType DEF Inv, HeldIsLogged
    <3> QED
      BY <1>6, <1>7, <2>1, <3>1 DEF Idle
  <2>2. CASE journey[v] # None /\ HoldsPlace(v, seen[v])
    <3>1. seen[v] \in Nat /\ seen[v] # None /\ seen[v] \in Times
      BY <1>1, <2>2, RowType, JourneyType
    <3>2. CASE u = seen[v]
      BY <1>4, <1>5, <1>7, <2>2, <3>1, <3>2 DEF Idle, HoldsPlace
    <3>3. CASE u # seen[v]
      <4>1. held'[v][u] = held[v][u]
        BY <1>4, <2>2, <3>3 DEF HoldsPlace
      <4> QED
        BY <1>6, <1>7, <3>1, <4>1 DEF Idle
    <3> QED
      BY <3>2, <3>3
  <2> QED
    BY <1>7, <2>1, <2>2 DEF Idle
<1>8. ASSUME NEW t \in Times, Reported(v, t)
      PROVE  /\ seen'[v] # None /\ u <= seen'[v]
             /\ \E i \in Transitions(v)' : Governs(v, u, i)' /\ PlaceAt(i)' = held'[v][u]
  <2>1. /\ HoldsPlace(v, t) /\ seen'[v] = t /\ journey'[v] # None
        /\ seen[v] # None => seen[v] <= t
        /\ \A k \in New(v) : log'[k].time = t
    BY <1>8 DEF Reported
  <2>2. t \in Nat /\ t # None
    BY TimeFacts
  <2>3. CASE u = t
    BY <1>4, <1>5, <2>1, <2>3 DEF HoldsPlace
  <2>4. CASE u # t
    <3>1. held'[v][u] = held[v][u]
      BY <1>4, <2>1, <2>4 DEF HoldsPlace
    <3>2. seen[v] # None /\ u <= seen[v] /\ seen[v] \in Nat
      BY <1>1, <3>1, RowType DEF Inv, HeldIsLogged
    <3>3. u < t
      BY <1>4, <2>1, <2>2, <2>4, <3>2
    <3> QED
      BY <1>6, <2>1, <2>2, <3>1, <3>3
  <2> QED
    BY <2>3, <2>4
<1>9. CASE Ended(v)
  <2>1. /\ held'[v] = held[v] /\ seen'[v] = seen[v] /\ New(v) = {Len(log')}
        /\ log'[Len(log')].derived = "EXPIRED" /\ log'[Len(log')].time = seen[v]
    BY <1>9 DEF Ended
  <2>2. seen[v] # None /\ u <= seen[v] /\ seen[v] \in Nat
    BY <1>1, <2>1, RowType DEF Inv, HeldIsLogged
  <2>3. u < seen[v] \/ seen[v] = u
    BY <1>4, <2>2
  <2> QED
    BY <1>6, <2>1, <2>2, <2>3
<1> QED
  BY <1>1, <1>7, <1>8, <1>9

LEMMA InitInv == MartInit => Inv
<1> SUFFICES ASSUME MartInit PROVE Inv
  OBVIOUS
<1>1. /\ journey = [v \in Vessels |-> None] /\ seen = [v \in Vessels |-> None]
      /\ log = <<>> /\ int_zones = {} /\ held = [v \in Vessels |-> [t \in Times |-> None]]
  BY DEF MartInit, Init
<1>2. \A v : Of(v) = {} /\ Transitions(v) = {} /\ Flags(v) = {}
  BY <1>1 DEF Of, Transitions, Flags
<1>3. TypeInv
  BY <1>1 DEF TypeInv
<1> QED
  BY <1>1, <1>2, <1>3
  DEF Inv, LogOrder, StartsIncrease, LastIsCurrent, FlagOrder, OpenFlag, HeldIsLogged

\* The inductive invariant holds in every state.
LEMMA Invariance == MartSpec => []Inv
<1>1. Inv /\ [MartNext]_martVars => Inv'
  <2> SUFFICES ASSUME Inv, [MartNext]_martVars PROVE Inv'
    OBVIOUS
  <2>1. TypeInv'
    BY StepCases DEF Inv
  <2> QED
    BY <2>1, LogOrderStep, StartsIncreaseStep, LastIsCurrentStep, FlagOrderStep,
       OpenFlagStep, HeldIsLoggedStep DEF Inv
<1> QED
  BY <1>1, InitInv, PTL DEF MartSpec

-----------------------------------------------------------------------------
(* What the invariant says of the readers.                                 *)

LEMMA RowsByType ==
  ASSUME NEW v
  PROVE  /\ RowsOf(v, {"state_transition"}) = Transitions(v)
         /\ RowsOf(v, {"discrepancy_flagged"}) = Flags(v)
         /\ \A types : \A i : i \in RowsOf(v, types) <=> i \in Of(v) /\ log[i].type \in types
BY DEF RowsOf, Transitions, Flags, Of

\* The ids of sessions and of discrepancy events are unique
\* (int_vessel_sessions.sql, fct_discrepancy_events.sql hash mmsi and a time).
THEOREM IdsAreUnique == MartSpec => []IdsUnique
<1>1. ASSUME Inv PROVE IdsUnique
  <2> SUFFICES ASSUME NEW v \in Vessels, NEW i \in DOMAIN log, NEW j \in DOMAIN log,
                      log[i].mmsi = v, log[j].mmsi = v,
                      log[i].type = log[j].type, log[i].time = log[j].time,
                      log[i].type # "discrepancy_cleared",
                      "EXPIRED" \notin {log[i].derived, log[j].derived}
               PROVE  i = j
    BY DEF IdsUnique
  <2>1. i \in Of(v) /\ j \in Of(v)
    BY DEF Of
  <2>2. /\ log[i] \in Events /\ log[i].time \in Nat /\ i \in Nat /\ j \in Nat
        /\ ~(log[i].time < log[j].time) /\ ~(log[j].time < log[i].time)
    BY <1>1, <2>1, RowType DEF Inv
  <2>3. \/ i \in Transitions(v) /\ j \in Transitions(v)
        \/ i \in Flags(v) /\ j \in Flags(v)
    BY <2>1, <2>2 DEF Events, Transitions, Flags
  <2>4. ~(i < j) /\ ~(j < i)
    BY <1>1, <2>2, <2>3 DEF Inv, StartsIncrease, FlagOrder
  <2> QED
    BY <2>2, <2>4
<1> QED
  BY <1>1, Invariance, PTL

LEMMA MinOf ==
  ASSUME NEW S \in SUBSET Nat, S # {}
  PROVE  Min(S) \in S /\ \A y \in S : Min(S) <= y
<1> DEFINE R == OpToRel(<, Nat)
<1>1. IsWellFoundedOn(R, Nat)
  BY NatLessThanWellFounded, Zenon
<1>2. R = {p \in Nat \X Nat : p[1] < p[2]}
  BY DEF OpToRel
<1>3. PICK m \in S : \A k \in S : <<k, m>> \notin R
  <2> HIDE DEF R
  <2> QED
    BY <1>1, WFMin
<1>4. ASSUME NEW k \in S PROVE m <= k
  <2>1. m \in Nat /\ k \in Nat /\ <<k, m>> \notin R
    BY <1>3
  <2>2. ~(k < m)
    BY <1>2, <2>1
  <2> HIDE DEF R
  <2> QED
    BY <2>1, <2>2
<1> QED
  BY <1>4 DEF Min

\* The transition that governs a time is the newest one before it.
LEMMA Governed ==
  ASSUME Inv, NEW v \in Vessels, NEW t \in Times, held[v][t] # None
  PROVE  \E i \in Transitions(v) :
           /\ PlaceAt(i) = held[v][t] /\ log[i].derived # "EXPIRED" /\ log[i].time <= t
           /\ \A k \in Transitions(v) : k < i => log[k].time < log[i].time
           /\ ~ExpiredAt(v, t) => \A k \in Transitions(v) : k > i => t < log[k].time
<1>1. PICK i \in Transitions(v) : Governs(v, t, i) /\ PlaceAt(i) = held[v][t]
  BY DEF Inv, HeldIsLogged
<1>2. log[i].derived # "EXPIRED"
  <2>1. held[v][t] \in Places
    BY DEF Inv, TypeInv
  <2>2. held[v][t].state \in RawStates
    BY <2>1, PlaceType
  <2> QED
    BY <1>1, <2>2 DEF PlaceAt, RawStates
<1>3. \A k \in Transitions(v) : k < i => log[k].time < log[i].time
  BY <1>2 DEF Inv, StartsIncrease
<1>4. ~ExpiredAt(v, t) => \A k \in Transitions(v) : ~(log[k].derived = "EXPIRED" /\ log[k].time = t)
  BY RowsByType DEF ExpiredAt
<1> QED
  BY <1>1, <1>2, <1>3, <1>4 DEF Governs

\* The as-of join derives the state that was held for a report
\* (validate_state_accuracy.py:18-22).
THEOREM AsOfExact == MartSpec => []AsOfIsExact
<1>1. ASSUME Inv PROVE AsOfIsExact
  <2> SUFFICES ASSUME NEW v \in Vessels, NEW t \in Times, held[v][t] # None
               PROVE  IF ExpiredAt(v, t) THEN "EXPIRED" \in DerivedAsOf(v, t)
                      ELSE DerivedAsOf(v, t) = {held[v][t].state}
    BY DEF AsOfIsExact
  <2> DEFINE before == {i \in Transitions(v) : log[i].time <= t}
  <2>1. DerivedAsOf(v, t) =
          {log[i].derived : i \in {j \in before : \A k \in before : log[k].time <= log[j].time}}
    BY RowsByType DEF DerivedAsOf
  <2>2. t \in Nat /\ \A k \in Transitions(v) : k \in Nat /\ log[k].time \in Nat
    BY <1>1, RowType, RowKinds, TimeFacts DEF Inv
  <2>3. CASE ExpiredAt(v, t)
    <3>1. PICK e \in Transitions(v) : log[e].derived = "EXPIRED" /\ log[e].time = t
      BY <2>3, RowsByType DEF ExpiredAt
    <3>2. e \in before /\ \A k \in before : log[k].time <= log[e].time
      BY <2>2, <3>1
    <3> QED
      BY <2>1, <2>3, <3>1, <3>2
  <2>4. CASE ~ExpiredAt(v, t)
    <3>1. PICK i \in Transitions(v) :
            /\ PlaceAt(i) = held[v][t] /\ log[i].time <= t
            /\ \A k \in Transitions(v) : k < i => log[k].time < log[i].time
            /\ \A k \in Transitions(v) : k > i => t < log[k].time
      BY <1>1, <2>4, Governed
    <3>2. \A k \in before : k = i \/ log[k].time < log[i].time
      BY <2>2, <3>1
    <3>3. i \in before /\ \A k \in before : log[k].time <= log[i].time
      BY <2>2, <3>1, <3>2
    <3>4. {j \in before : \A k \in before : log[k].time <= log[j].time} = {i}
      BY <2>2, <3>2, <3>3
    <3>5. log[i].derived = held[v][t].state
      BY <3>1 DEF PlaceAt
    <3> QED
      BY <2>1, <2>4, <3>4, <3>5
  <2> QED
    BY <2>3, <2>4
<1> QED
  BY <1>1, Invariance, PTL

\* The discrepancy mart pairs every flag with what ended it
\* (fct_discrepancy_events.sql:21-34), with the two exceptions FlagsPairUp names.
THEOREM FlagsArePaired == MartSpec => []FlagsPairUp
<1>1. ASSUME Inv PROVE FlagsPairUp
  <2> DEFINE Ends(v, i) ==
               {j \in RowsOf(v, {"discrepancy_cleared", "state_transition"}) :
                  j > i /\ (log[j].type = "discrepancy_cleared" \/ log[j].derived = "EXPIRED")}
             Cleared(v, i) ==
               {t \in {log[k].time : k \in RowsOf(v, {"discrepancy_cleared"})} : t > log[i].time}
  <2> SUFFICES ASSUME NEW v \in Vessels, NEW i \in Flags(v)
               PROVE  IF Ends(v, i) = {}
                      THEN journey[v].dispute.flagged /\ ClearedAt(v, log[i].time) = None
                      ELSE log[Min(Ends(v, i))].type = "discrepancy_cleared"
                           /\ log[Min(Ends(v, i))].time > log[i].time
                           => ClearedAt(v, log[i].time) = log[Min(Ends(v, i))].time
    BY RowsByType DEF FlagsPairUp
  <2>1. /\ i \in Of(v) /\ i \in Nat /\ log[i].time \in Nat
        /\ \A k \in Of(v) : k \in Nat /\ log[k].time \in Nat /\ log[k] \in Events
    BY <1>1, RowType, RowKinds DEF Inv
  <2>2. \A j : j \in Ends(v, i) <=> j \in Of(v) /\ j > i /\ EndsFlag(j)
    <3>1. \A j : log[j].type = "discrepancy_cleared" => log[j].type # "state_transition"
      OBVIOUS
    <3> QED
      BY RowsByType DEF EndsFlag
  <2>3. ClearedAt(v, log[i].time) = IF Cleared(v, i) = {} THEN None ELSE Min(Cleared(v, i))
    BY DEF ClearedAt
  <2>4. \A t : t \in Cleared(v, i) <=>
          t > log[i].time /\ \E k \in Of(v) : log[k].type = "discrepancy_cleared" /\ log[k].time = t
    BY RowsByType
  <2> HIDE DEF Ends, Cleared
  \* A clear that is later than the flag follows it in the log.
  <2>5. ASSUME NEW k \in Of(v), log[k].type = "discrepancy_cleared", log[k].time > log[i].time
        PROVE  k \in Ends(v, i)
    <3>1. k < i => log[k].time <= log[i].time
      BY <1>1, <2>1 DEF Inv, LogOrder
    <3>2. log[k].time \in Nat /\ k \in Nat /\ k # i
      BY <2>1, <2>5, RowKinds
    <3>3. ~(log[k].time <= log[i].time)
      BY <2>1, <2>5, <3>2
    <3>4. k > i
      BY <2>1, <3>1, <3>2, <3>3
    <3>5. EndsFlag(k)
      BY <2>5 DEF EndsFlag
    <3> QED
      BY <2>2, <3>4, <3>5
  <2>6. CASE Ends(v, i) = {}
    <3>1. journey[v].dispute.flagged
      BY <1>1, <2>2, <2>6 DEF Inv, OpenFlag
    <3>2. Cleared(v, i) = {}
      BY <2>4, <2>5, <2>6
    <3> QED
      BY <2>3, <2>6, <3>1, <3>2
  <2>7. ASSUME Ends(v, i) # {}, log[Min(Ends(v, i))].type = "discrepancy_cleared",
               log[Min(Ends(v, i))].time > log[i].time
        PROVE  ClearedAt(v, log[i].time) = log[Min(Ends(v, i))].time
    <3> DEFINE first == Min(Ends(v, i))
               C == Cleared(v, i)
    <3>1. Ends(v, i) \in SUBSET Nat
      BY <2>1, <2>2
    <3>2. first \in Ends(v, i) /\ \A k \in Ends(v, i) : first <= k
      BY <2>7, <3>1, MinOf
    <3>3. first \in Of(v) /\ log[first].time \in Nat /\ log[first].time \in C
      BY <2>1, <2>2, <2>4, <2>7, <3>2
    <3> HIDE DEF first
    <3>4. ASSUME NEW t \in C PROVE t \in Nat /\ log[first].time <= t
      <4>1. PICK k \in Of(v) : log[k].type = "discrepancy_cleared" /\ log[k].time = t
        BY <2>4
      <4>2. t > log[i].time
        BY <2>4
      <4>3. k \in Ends(v, i)
        BY <2>5, <4>1, <4>2
      <4>4. first <= k /\ first \in Nat /\ k \in Nat
        BY <2>1, <3>2, <3>3, <4>3
      <4>5. first < k \/ first = k
        BY <4>4
      <4>6. first < k => log[first].time <= log[k].time
        BY <1>1, <3>3 DEF Inv, LogOrder
      <4>7. log[k].time \in Nat
        BY <2>1, <4>1
      <4>8. first = k => log[first].time <= log[k].time
        BY <4>7
      <4> QED
        BY <4>1, <4>5, <4>6, <4>7, <4>8
    <3> HIDE DEF C
    <3>5. C # {} /\ C \in SUBSET Nat
      BY <3>3, <3>4
    <3>6. Min(C) \in C /\ \A y \in C : Min(C) <= y
      BY <3>5, MinOf
    <3>7. Min(C) = log[first].time
      BY <3>3, <3>4, <3>6
    <3> QED
      BY <2>3, <3>5, <3>7 DEF first, C
  <2> QED
    BY <2>6, <2>7
<1> QED
  BY <1>1, Invariance, PTL

-----------------------------------------------------------------------------
(* Sessions, in terms of the log.                                          *)

Session(i) == [state |-> log[i].derived, zone |-> log[i].zone, session_start |-> log[i].time]

SessionTo(i, e) ==
  [state |-> log[i].derived, zone |-> log[i].zone, session_start |-> log[i].time, session_end |-> e]

\* The starts after that of transition i, and whether another session has its start.
Later(v, i) == {log[k].time : k \in {m \in Transitions(v) : log[m].time > log[i].time}}
Tied(v, i) == \E k \in Transitions(v) : Session(k) # Session(i) /\ log[k].time = log[i].time

LEMMA EndsInLog ==
  ASSUME NEW v, NEW i \in Transitions(v)
  PROVE  \A e : e \in SessionEnds(StateTransitions(v), Session(i)) <=>
           \/ Later(v, i) = {} /\ e = None
           \/ Later(v, i) # {} /\ e = Min(Later(v, i))
           \/ Tied(v, i) /\ e = log[i].time
<1> DEFINE rows == StateTransitions(v)
           r == Session(i)
           equal == {x \in rows : x # r /\ x.session_start = r.session_start}
<1>1. rows = {Session(k) : k \in Transitions(v)}
  BY RowsByType DEF StateTransitions, Session
<1>2. \A k : Session(k).session_start = log[k].time
  BY DEF Session
<1>3. Starts(After(rows, r)) = Later(v, i)
  <2>1. \A t : t \in Starts(After(rows, r)) <=>
               \E x \in rows : x.session_start > r.session_start /\ t = x.session_start
    BY DEF Starts, After
  <2>2. \A t : t \in Later(v, i) <=>
               \E k \in Transitions(v) : log[k].time > log[i].time /\ t = log[k].time
    BY DEF Later
  <2> HIDE DEF rows, r
  <2>3. \A t : t \in Starts(After(rows, r)) <=> t \in Later(v, i)
    BY <1>1, <1>2, <2>1, <2>2 DEF r
  <2> QED
    BY <2>3
<1>4. \A e : e \in Starts(equal) <=> Tied(v, i) /\ e = log[i].time
  <2>1. \A e : e \in Starts(equal) <=>
               \E x \in rows : x # r /\ x.session_start = r.session_start /\ e = x.session_start
    BY DEF Starts
  <2> HIDE DEF rows, r
  <2> QED
    BY <1>1, <1>2, <2>1 DEF Tied, r
<1>5. SessionEnds(rows, r) =
        {IF Later(v, i) = {} THEN None ELSE Min(Later(v, i))} \cup Starts(equal)
  BY <1>3 DEF SessionEnds
<1> HIDE DEF rows, r, equal
<1> QED
  BY <1>4, <1>5 DEF rows, r

LEMMA SessionsInLog ==
  ASSUME NEW v
  PROVE  /\ \A s : s \in Sessions(v) <=>
              \E i \in Transitions(v) :
                /\ log[i].derived # "EXPIRED"
                /\ \E e \in SessionEnds(StateTransitions(v), Session(i)) : s = SessionTo(i, e)
         /\ \A i, e : /\ SessionTo(i, e).state = log[i].derived /\ SessionTo(i, e).zone = log[i].zone
                      /\ SessionTo(i, e).session_start = log[i].time
                      /\ SessionTo(i, e).session_end = e
<1> DEFINE rows == StateTransitions(v)
           Full(r, t) == [state |-> r.state, zone |-> r.zone, session_start |-> r.session_start,
                          session_end |-> t]
<1>1. rows = {Session(k) : k \in Transitions(v)}
  BY RowsByType DEF StateTransitions, Session
<1>2. \A k, e : Full(Session(k), e) = SessionTo(k, e) /\ Session(k).state = log[k].derived
  BY DEF Session, SessionTo
<1>3. \A s : s \in Sessions(v) <=> \E r \in rows : r.state # "EXPIRED" /\ \E e \in SessionEnds(rows, r) : s = Full(r, e)
  <2>1. Sessions(v) = UNION {{Full(r, t) : t \in SessionEnds(rows, r)} : r \in Real(rows)}
    BY DEF Sessions
  <2> HIDE DEF Full, rows
  <2> QED
    BY <2>1 DEF Real
<1>4. \A i, e : /\ SessionTo(i, e).state = log[i].derived /\ SessionTo(i, e).zone = log[i].zone
               /\ SessionTo(i, e).session_start = log[i].time
               /\ SessionTo(i, e).session_end = e
  BY DEF SessionTo
<1> HIDE DEF rows, Full
<1>5. \A s : s \in Sessions(v) <=>
        \E i \in Transitions(v) :
          log[i].derived # "EXPIRED" /\ \E e \in SessionEnds(rows, Session(i)) : s = SessionTo(i, e)
  <2>1. ASSUME NEW s \in Sessions(v)
        PROVE  \E i \in Transitions(v) :
                 /\ log[i].derived # "EXPIRED"
                 /\ \E e \in SessionEnds(rows, Session(i)) : s = SessionTo(i, e)
    <3>1. PICK r \in rows : r.state # "EXPIRED" /\ \E e \in SessionEnds(rows, r) : s = Full(r, e)
      BY <1>3
    <3>2. PICK i \in Transitions(v) : r = Session(i)
      BY <1>1
    <3> QED
      BY <1>2, <3>1, <3>2
  <2>2. ASSUME NEW i \in Transitions(v), log[i].derived # "EXPIRED",
               NEW e \in SessionEnds(rows, Session(i))
        PROVE  SessionTo(i, e) \in Sessions(v)
    <3>1. Session(i) \in rows /\ Session(i).state # "EXPIRED" /\ SessionTo(i, e) = Full(Session(i), e)
      BY <1>1, <1>2, <2>2
    <3> QED
      BY <1>3, <3>1
  <2> QED
    BY <2>1, <2>2
<1> QED
  BY <1>4, <1>5 DEF rows

\* No session of a vessel ends later than the next transition starts.
LEMMA EndsBounded ==
  ASSUME Inv, NEW v \in Vessels, NEW i \in Transitions(v), NEW k \in Transitions(v),
         log[i].time < log[k].time,
         NEW e \in SessionEnds(StateTransitions(v), Session(i))
  PROVE  e \in Nat /\ e # None /\ e <= log[k].time
<1>1. log[i].time \in Nat /\ log[k].time \in Nat /\ \A m \in Transitions(v) : log[m].time \in Nat
  BY RowType, RowKinds DEF Inv
<1>2. log[k].time \in Later(v, i) /\ Later(v, i) \in SUBSET Nat
  BY <1>1 DEF Later
<1>3. Min(Later(v, i)) \in Nat /\ Min(Later(v, i)) <= log[k].time
  BY <1>2, MinOf
<1>4. e = Min(Later(v, i)) \/ e = log[i].time
  BY <1>2, EndsInLog
<1>5. log[i].time <= log[k].time
  BY <1>1
<1>6. None \notin Nat
  BY TimeFacts
<1> QED
  BY <1>1, <1>3, <1>4, <1>5, <1>6

\* The session of the last transition, and no other, is ongoing
\* (int_vessel_sessions.sql:29,47-55).
THEOREM OngoingCurrent == MartSpec => []OngoingIsCurrent
<1>1. ASSUME Inv PROVE OngoingIsCurrent
  <2> SUFFICES ASSUME NEW v \in Vessels
               PROVE  IF journey[v] # None
                      THEN /\ Cardinality(Ongoing(v)) = 1
                           /\ \A s \in Ongoing(v) : /\ s.state = journey[v].place.state
                                                     /\ s.zone = journey[v].place.zone
                      ELSE \A s \in Ongoing(v) : ExpiredAt(v, s.session_start)
    BY DEF OngoingIsCurrent
  <2>1. \A k \in Transitions(v) : /\ k \in Nat /\ log[k].time \in Nat /\ log[k].time # None
                                  /\ seen[v] # None /\ seen[v] \in Nat /\ log[k].time <= seen[v]
    BY <1>1, RowType, RowKinds, TimeFacts DEF Inv, LogOrder
  <2>2. \A i \in Transitions(v), k \in Transitions(v) : i < k => log[i].time <= log[k].time
    BY <1>1, RowKinds DEF Inv, LogOrder
  \* An ongoing session has no later start.
  <2>3. ASSUME NEW s \in Ongoing(v)
        PROVE  \E i \in Transitions(v) :
                 /\ log[i].derived # "EXPIRED" /\ s = SessionTo(i, None)
                 /\ \A k \in Transitions(v) : ~(log[i].time < log[k].time)
    <3>1. s \in Sessions(v) /\ s.session_end = None
      BY DEF Ongoing
    <3>2. PICK i \in Transitions(v) :
            /\ log[i].derived # "EXPIRED"
            /\ \E e \in SessionEnds(StateTransitions(v), Session(i)) : s = SessionTo(i, e)
      BY <3>1, SessionsInLog
    <3>3. None \in SessionEnds(StateTransitions(v), Session(i)) /\ s = SessionTo(i, None)
      BY <3>1, <3>2, SessionsInLog
    <3> QED
      BY <1>1, <3>2, <3>3, EndsBounded
  <2>4. CASE journey[v] # None
    <3>1. PICK i \in Transitions(v) : Last(v, i) /\ PlaceAt(i) = journey[v].place
      BY <1>1, <2>4 DEF Inv, LastIsCurrent
    <3>2. log[i].derived = journey[v].place.state /\ log[i].zone = journey[v].place.zone
      BY <3>1 DEF PlaceAt
    <3>3. log[i].derived # "EXPIRED"
      BY <1>1, <2>4, <3>2, JourneyType, PlaceType DEF Inv, RawStates
    <3>4. \A k \in Transitions(v) : k # i => k < i /\ log[k].time < log[i].time
      <4>1. \A k \in Transitions(v) : k # i => k < i
        BY <2>1, <3>1 DEF Last
      <4> QED
        BY <1>1, <3>3, <4>1 DEF Inv, StartsIncrease
    <3>5. ~Tied(v, i) /\ Later(v, i) = {}
      BY <2>1, <3>4 DEF Tied, Later
    <3>6. SessionTo(i, None) \in Ongoing(v)
      <4>1. None \in SessionEnds(StateTransitions(v), Session(i))
        BY <3>5, EndsInLog
      <4> QED
        BY <3>3, <4>1, SessionsInLog DEF Ongoing
    <3>7. \A s \in Ongoing(v) : s = SessionTo(i, None)
      BY <2>3, <3>4
    <3>8. Ongoing(v) = {SessionTo(i, None)}
      BY <3>6, <3>7
    <3>9. Cardinality(Ongoing(v)) = 1
      BY <3>8, FS_Singleton
    <3> QED
      BY <2>4, <3>2, <3>7, <3>9, SessionsInLog
  <2>5. CASE journey[v] = None
    <3>1. ASSUME NEW s \in Ongoing(v) PROVE ExpiredAt(v, s.session_start)
      <4>1. PICK i \in Transitions(v) :
                 /\ log[i].derived # "EXPIRED" /\ s = SessionTo(i, None)
                 /\ \A k \in Transitions(v) : ~(log[i].time < log[k].time)
        BY <2>3
      <4>2. PICK l \in Transitions(v) :
              Last(v, l) /\ log[l].derived = "EXPIRED" /\ log[l].time = seen[v]
        BY <1>1, <2>1, <2>5 DEF Inv, LastIsCurrent
      <4>3. log[i].time = log[l].time
        BY <2>1, <4>1, <4>2
      <4>4. s.session_start = log[i].time
        BY <4>1, SessionsInLog
      <4> QED
        BY <4>2, <4>3, <4>4, RowsByType DEF ExpiredAt
    <3> QED
      BY <2>5, <3>1
  <2> QED
    BY <2>4, <2>5
<1> QED
  BY <1>1, Invariance, PTL

\* Every report is in one session, that of the place held for it
\* (int_vessel_sessions.sql:29), with the exception SessionsCoverReports names.
THEOREM SessionsCover == MartSpec => []SessionsCoverReports
<1>1. ASSUME Inv PROVE SessionsCoverReports
  <2> DEFINE Covering(v, t) ==
               {s \in Sessions(v) : s.session_start <= t /\ (s.session_end # None => t < s.session_end)}
  <2> SUFFICES ASSUME NEW v \in Vessels, NEW t \in Times, held[v][t] # None
               PROVE  IF ExpiredAt(v, t) THEN \A s \in Covering(v, t) : s.session_start = t
                      ELSE /\ Cardinality(Covering(v, t)) = 1
                           /\ \A s \in Covering(v, t) : [state |-> s.state, zone |-> s.zone] = held[v][t]
    BY DEF SessionsCoverReports
  <2>1. t \in Nat /\ \A k \in Transitions(v) : k \in Nat /\ log[k].time \in Nat /\ log[k].time # None
    BY <1>1, RowType, RowKinds, TimeFacts DEF Inv
  \* A session that covers t started by then, and nothing else did since.
  <2>2. ASSUME NEW s \in Covering(v, t)
        PROVE  \E i \in Transitions(v) :
                 /\ log[i].derived # "EXPIRED" /\ log[i].time <= t
                 /\ \E e \in SessionEnds(StateTransitions(v), Session(i)) : s = SessionTo(i, e)
                 /\ \A k \in Transitions(v) : log[i].time < log[k].time => t < log[k].time
    <3>1. PICK i \in Transitions(v) :
            /\ log[i].derived # "EXPIRED"
            /\ \E e \in SessionEnds(StateTransitions(v), Session(i)) : s = SessionTo(i, e)
      BY SessionsInLog
    <3>2. PICK e \in SessionEnds(StateTransitions(v), Session(i)) : s = SessionTo(i, e)
      BY <3>1
    <3>3. log[i].time <= t /\ (e # None => t < e)
      <4>1. s.session_start = log[i].time /\ s.session_end = e
        BY <3>2, SessionsInLog
      <4> QED
        BY <4>1
    <3>4. ASSUME NEW k \in Transitions(v), log[i].time < log[k].time PROVE t < log[k].time
      <4>1. e \in Nat /\ e # None /\ e <= log[k].time
        BY <1>1, <3>4, EndsBounded
      <4> QED
        BY <2>1, <3>3, <4>1
    <3> QED
      BY <3>1, <3>2, <3>3, <3>4
  <2>3. CASE ExpiredAt(v, t)
    <3>1. PICK k \in Transitions(v) : log[k].derived = "EXPIRED" /\ log[k].time = t
      BY <2>3, RowsByType DEF ExpiredAt
    <3>2. ASSUME NEW s \in Covering(v, t) PROVE s.session_start = t
      <4>1. PICK i \in Transitions(v) :
                 /\ log[i].time <= t
                 /\ \E e \in SessionEnds(StateTransitions(v), Session(i)) : s = SessionTo(i, e)
                 /\ log[i].time < log[k].time => t < log[k].time
        BY <2>2
      <4>2. log[i].time = t
        BY <2>1, <3>1, <4>1
      <4> QED
        BY <4>1, <4>2, SessionsInLog
    <3> HIDE DEF Covering
    <3> QED
      BY <2>3, <3>2
  <2>4. CASE ~ExpiredAt(v, t)
    <3>1. PICK i \in Transitions(v) :
           /\ PlaceAt(i) = held[v][t] /\ log[i].derived # "EXPIRED" /\ log[i].time <= t
           /\ \A k \in Transitions(v) : k < i => log[k].time < log[i].time
           /\ \A k \in Transitions(v) : k > i => t < log[k].time
      BY <1>1, <2>4, Governed
    <3>2. \A k \in Transitions(v) : k = i \/ log[k].time < log[i].time \/ t < log[k].time
      BY <2>1, <3>1
    <3>3. ~Tied(v, i)
      BY <2>1, <3>1, <3>2 DEF Tied
    <3>4. PICK e : /\ \A x : x \in SessionEnds(StateTransitions(v), Session(i)) <=> x = e
                   /\ e # None => t < e
      <4>1. CASE Later(v, i) = {}
        BY <3>3, <4>1, EndsInLog
      <4>2. CASE Later(v, i) # {}
        <5>1. Later(v, i) \in SUBSET Nat
          BY <2>1 DEF Later
        <5>2. Min(Later(v, i)) \in Later(v, i)
          BY <4>2, <5>1, MinOf
        <5>3. t < Min(Later(v, i))
          <6>1. PICK k \in Transitions(v) : log[k].time > log[i].time /\ log[k].time = Min(Later(v, i))
            BY <5>2 DEF Later
          <6> QED
            BY <2>1, <3>2, <6>1
        <5> QED
          BY <3>3, <4>2, <5>3, EndsInLog
      <4> QED
        BY <4>1, <4>2
    <3>5. SessionTo(i, e) \in Covering(v, t)
      BY <3>1, <3>4, SessionsInLog
    <3>6. ASSUME NEW s \in Covering(v, t) PROVE s = SessionTo(i, e)
      <4>1. PICK m \in Transitions(v) :
                 /\ log[m].time <= t
                 /\ \E x \in SessionEnds(StateTransitions(v), Session(m)) : s = SessionTo(m, x)
                 /\ log[m].time < log[i].time => t < log[i].time
        BY <2>2
      <4>2. m = i
        BY <2>1, <3>1, <3>2, <4>1
      <4> QED
        BY <3>4, <4>1, <4>2
    <3> HIDE DEF Covering
    <3>7. Covering(v, t) = {SessionTo(i, e)}
      BY <3>5, <3>6
    <3>8. Cardinality(Covering(v, t)) = 1
      BY <3>7, FS_Singleton
    <3>9. [state |-> SessionTo(i, e).state, zone |-> SessionTo(i, e).zone] = held[v][t]
      BY <3>1 DEF PlaceAt, SessionTo
    <3> QED
      BY <2>4, <3>6, <3>8, <3>9
  <2> QED
    BY <2>3, <2>4
<1> QED
  BY <1>1, Invariance, PTL

-----------------------------------------------------------------------------
(* What was published about the past stands.                               *)

\* The starts of the sessions (without EXPIRED rows) after transition i.
RealLater(v, i) ==
  {log[k].time : k \in {m \in Transitions(v) : log[m].derived # "EXPIRED" /\ log[m].time > log[i].time}}

\* The readers' operators in terms of the log, as formulas of one state each,
\* to be used before and after a step.
EndsAreLogged ==
  \A v \in Vessels : \A i \in Transitions(v) :
    \A e : e \in SessionEnds(StateTransitions(v), Session(i)) <=>
      \/ Later(v, i) = {} /\ e = None
      \/ Later(v, i) # {} /\ e = Min(Later(v, i))
      \/ Tied(v, i) /\ e = log[i].time

NextIsLogged ==
  \A v \in Vessels : \A i \in Transitions(v) :
    \A x : x \in NextSessions(StateTransitions(v), Session(i)) <=>
      \E k \in Transitions(v) :
        /\ log[k].derived # "EXPIRED" /\ log[k].time > log[i].time
        /\ log[k].time = Min(RealLater(v, i)) /\ x = Session(k)

RealIsLogged ==
  \A v \in Vessels : \A s : s \in Real(StateTransitions(v)) <=>
    \E i \in Transitions(v) : log[i].derived # "EXPIRED" /\ s = Session(i)

LEMMA RealInLog == RealIsLogged
<1> SUFFICES ASSUME NEW v
             PROVE  \A s : s \in Real(StateTransitions(v)) <=>
                      \E i \in Transitions(v) : log[i].derived # "EXPIRED" /\ s = Session(i)
  BY DEF RealIsLogged
<1>1. StateTransitions(v) = {Session(k) : k \in Transitions(v)}
  BY RowsByType DEF StateTransitions, Session
<1>2. \A k : Session(k).state = log[k].derived
  BY DEF Session
<1> QED
  BY <1>1, <1>2 DEF Real

LEMMA NextInLog == NextIsLogged
<1> SUFFICES ASSUME NEW v \in Vessels, NEW i \in Transitions(v)
             PROVE  \A x : x \in NextSessions(StateTransitions(v), Session(i)) <=>
                      \E k \in Transitions(v) :
                        /\ log[k].derived # "EXPIRED" /\ log[k].time > log[i].time
                        /\ log[k].time = Min(RealLater(v, i)) /\ x = Session(k)
  BY DEF NextIsLogged
<1> DEFINE later == After(Real(StateTransitions(v)), Session(i))
<1>1. \A k : Session(k).session_start = log[k].time
  BY DEF Session
<1>2. \A x : x \in later <=>
        \E k \in Transitions(v) :
          log[k].derived # "EXPIRED" /\ log[k].time > log[i].time /\ x = Session(k)
  <2>1. \A x : x \in later <=>
          x \in Real(StateTransitions(v)) /\ x.session_start > Session(i).session_start
    BY DEF After
  <2> HIDE DEF later
  <2> QED
    BY <1>1, <2>1, RealInLog DEF RealIsLogged
<1> HIDE DEF later
<1>3. Starts(later) = RealLater(v, i)
  <2>1. \A t : t \in Starts(later) <=> \E x \in later : t = x.session_start
    BY DEF Starts
  <2>2. \A t : t \in RealLater(v, i) <=>
          \E k \in Transitions(v) :
            log[k].derived # "EXPIRED" /\ log[k].time > log[i].time /\ t = log[k].time
    BY DEF RealLater
  <2>3. \A t : t \in Starts(later) <=> t \in RealLater(v, i)
    BY <1>1, <1>2, <2>1, <2>2
  <2> QED
    BY <2>3
<1>4. NextSessions(StateTransitions(v), Session(i)) =
        {r \in later : r.session_start = Min(RealLater(v, i))}
  BY <1>3 DEF NextSessions, later
<1> QED
  BY <1>1, <1>2, <1>4

LEMMA EndsInLogAlways == EndsAreLogged
BY EndsInLog DEF EndsAreLogged

\* The same facts of the state after a step.
LEMMA LoggedAfter == EndsAreLogged' /\ NextIsLogged' /\ RealIsLogged'
BY EndsInLogAlways, NextInLog, RealInLog, PTL

LEMMA OutcomeStands ==
  ASSUME NEW rows, NEW after, NEW s, NEW z1, NEW z2, z1 \subseteq z2,
         NextSessions(after, s) = NextSessions(rows, s),
         None \notin ProceededToBerth(rows, z1, s)
  PROVE  ProceededToBerth(after, z2, s) = ProceededToBerth(rows, z1, s)
<1> DEFINE AtBerth(z, n) == IF n.state # "MOORED" THEN FALSE
                            ELSE IF n.zone \in z THEN ZoneType[n.zone] = "berth" ELSE None
           next == NextSessions(rows, s)
<1>1. /\ ProceededToBerth(rows, z1, s) = IF next = {} THEN {None} ELSE {AtBerth(z1, n) : n \in next}
      /\ ProceededToBerth(after, z2, s) = IF next = {} THEN {None} ELSE {AtBerth(z2, n) : n \in next}
  BY DEF ProceededToBerth
<1>2. next # {} /\ \A n \in next : n.state # "MOORED" \/ n.zone \in z1
  <2> HIDE DEF next
  <2> QED
    BY <1>1
<1>3. \A n \in next : AtBerth(z2, n) = AtBerth(z1, n)
  BY <1>2
<1> HIDE DEF AtBerth, next
<1> QED
  BY <1>1, <1>2, <1>3

LEMMA VisitStands ==
  ASSUME NEW s, NEW z1, NEW z2, z1 \subseteq z2
  PROVE  /\ IsBerthVisit(z1, s) => IsBerthVisit(z2, s)
         /\ IsAnchorageDwell(z1, s) => IsAnchorageDwell(z2, s)
<1>1. None # "berth" /\ None # "anchorage"
  BY VesselJourneyAssumption
<1> QED
  BY <1>1 DEF IsBerthVisit, IsAnchorageDwell, TypeIn

LEMMA MinStands ==
  ASSUME NEW S, NEW T \in SUBSET Nat, S \subseteq T, S # {},
         \A y \in T : y \in S \/ \A x \in S : x <= y
  PROVE  Min(T) = Min(S)
<1>1. Min(S) \in S /\ \A y \in S : Min(S) <= y
  BY MinOf
<1>2. Min(T) \in T /\ \A y \in T : Min(T) <= y
  BY MinOf
<1>3. Min(S) \in Nat /\ Min(T) \in Nat /\ Min(T) <= Min(S) /\ Min(S) <= Min(T)
  BY <1>1, <1>2
<1> QED
  BY <1>3

\* The transitions of a step are not before those that were there, and the
\* real ones after them.
LEMMA TransitionsAfter ==
  ASSUME Inv, [MartNext]_martVars, NEW v \in Vessels
  PROVE  /\ \A i \in Transitions(v) : /\ i \in Transitions(v)' /\ log'[i] = log[i]
                                      /\ Session(i)' = Session(i) /\ log[i].time \in Nat
         /\ \A k \in Transitions(v)' :
              /\ log'[k].time \in Nat
              /\ \/ k \in Transitions(v)
                 \/ \A i \in Transitions(v) :
                      /\ log[i].time <= log'[k].time
                      /\ log'[k].derived # "EXPIRED" => log[i].time < log'[k].time
<1>1. TypeInv /\ TypeInv' /\ Grows
  BY StepCases DEF Inv
<1>2. /\ Of(v)' = Of(v) \cup New(v) /\ Of(v) \subseteq Nat /\ New(v) \subseteq Nat
      /\ \A k \in Of(v) : log'[k] = log[k] /\ log[k].time \in Nat /\ \A n \in New(v) : k < n
  BY <1>1, Rows, RowType
<1>3. LogOrder' /\ StartsIncrease'
  BY LogOrderStep, StartsIncreaseStep
<1>4. ASSUME NEW i \in Transitions(v)
      PROVE  /\ i \in Transitions(v)' /\ log'[i] = log[i]
             /\ Session(i)' = Session(i) /\ log[i].time \in Nat
  BY <1>2, RowKinds, RowKindsAfter DEF Session
<1>5. ASSUME NEW k \in Transitions(v)' PROVE log'[k].time \in Nat
  <2>1. \A i \in New(v) : i \in DOMAIN log' /\ log' \in Seq(Events)
    BY <1>1, <1>2 DEF Grows, Of
  <2>2. \A i \in New(v) : log'[i] \in Events
    <3> DEFINE S == Events
    <3>1. log' \in Seq(S)
      BY <1>1 DEF Grows
    <3> HIDE DEF S
    <3>2. \A i \in DOMAIN log' : log'[i] \in S
      BY <3>1
    <3> QED
      BY <2>1, <3>2 DEF S
  <2>3. \A e \in Events : e.time \in Nat
    BY TimeFacts DEF Events
  <2> QED
    BY <1>2, <2>2, <2>3, RowKindsAfter
<1>6. ASSUME NEW k \in Transitions(v)', k \notin Transitions(v), NEW i \in Transitions(v)
      PROVE  /\ log[i].time <= log'[k].time
             /\ log'[k].derived # "EXPIRED" => log[i].time < log'[k].time
  <2>1. k \in Of(v)' /\ k \notin Of(v) /\ i \in Of(v)
    BY <1>2, <1>6, RowKinds, RowKindsAfter
  <2>2. i < k /\ i \in Of(v)'
    BY <1>2, <2>1
  <2> QED
    BY <1>3, <1>4, <2>1, <2>2 DEF LogOrder, StartsIncrease
<1> QED
  BY <1>4, <1>5, <1>6

LEMMA EndsStand ==
  ASSUME Inv, [MartNext]_martVars, NEW v \in Vessels, NEW i \in Transitions(v),
         None \notin SessionEnds(StateTransitions(v), Session(i))
  PROVE  SessionEnds(StateTransitions(v), Session(i))' = SessionEnds(StateTransitions(v), Session(i))
<1>1. /\ i \in Transitions(v)'
      /\ \A k \in Transitions(v) : /\ k \in Transitions(v)' /\ log'[k] = log[k]
                                   /\ Session(k)' = Session(k) /\ log[k].time \in Nat
      /\ \A k \in Transitions(v)' :
           /\ log'[k].time \in Nat
           /\ k \in Transitions(v) \/ \A j \in Transitions(v) : log[j].time <= log'[k].time
  BY TransitionsAfter
<1>2. Later(v, i) # {}
  BY EndsInLog
<1>3. \A t : t \in Later(v, i) <=> \E k \in Transitions(v) : log[k].time > log[i].time /\ t = log[k].time
  BY DEF Later
<1>4. \A t : t \in Later(v, i)' <=>
        \E k \in Transitions(v)' : log'[k].time > log[i].time /\ t = log'[k].time
  BY <1>1 DEF Later
<1>5. /\ Later(v, i) \subseteq Later(v, i)' /\ Later(v, i)' \in SUBSET Nat
      /\ \A y \in Later(v, i)' : y \in Later(v, i) \/ \A x \in Later(v, i) : x <= y
  BY <1>1, <1>3, <1>4
<1>6. Min(Later(v, i)') = Min(Later(v, i)) /\ Later(v, i)' # {}
  BY <1>2, <1>5, MinStands
<1>7. Tied(v, i)' <=> Tied(v, i)
  <2>1. Tied(v, i)' <=>
          \E k \in Transitions(v)' : Session(k)' # Session(i) /\ log'[k].time = log[i].time
    BY <1>1 DEF Tied
  <2>2. ASSUME NEW k \in Transitions(v)', log'[k].time = log[i].time PROVE k \in Transitions(v)
    <3>1. PICK m \in Transitions(v) : log[m].time > log[i].time
      BY <1>2, <1>3
    <3> QED
      BY <1>1, <2>2, <3>1
  <2> QED
    BY <1>1, <2>1, <2>2 DEF Tied
<1>8. \A e : e \in SessionEnds(StateTransitions(v), Session(i))' <=>
        \/ Later(v, i)' = {} /\ e = None
        \/ Later(v, i)' # {} /\ e = Min(Later(v, i)')
        \/ Tied(v, i)' /\ e = log[i].time
  BY <1>1, LoggedAfter DEF EndsAreLogged
<1>9. \A e : e \in SessionEnds(StateTransitions(v), Session(i))' <=>
             e \in SessionEnds(StateTransitions(v), Session(i))
  BY <1>2, <1>6, <1>7, <1>8, EndsInLog
<1>10. \A S, T : /\ S = SessionEnds(StateTransitions(v), Session(i))'
                 /\ T = SessionEnds(StateTransitions(v), Session(i))
                 => S = T
  BY <1>9 DEF SessionEnds
<1> QED
  BY <1>10

LEMMA NextStands ==
  ASSUME Inv, [MartNext]_martVars, NEW v \in Vessels, NEW i \in Transitions(v),
         NextSessions(StateTransitions(v), Session(i)) # {}
  PROVE  NextSessions(StateTransitions(v), Session(i))' = NextSessions(StateTransitions(v), Session(i))
<1>1. /\ i \in Transitions(v)'
      /\ \A k \in Transitions(v) : /\ k \in Transitions(v)' /\ log'[k] = log[k]
                                   /\ Session(k)' = Session(k) /\ log[k].time \in Nat
      /\ \A k \in Transitions(v)' :
           /\ log'[k].time \in Nat
           /\ \/ k \in Transitions(v)
              \/ \A j \in Transitions(v) : log'[k].derived # "EXPIRED" => log[j].time < log'[k].time
  BY TransitionsAfter
<1>2. \A x : x \in NextSessions(StateTransitions(v), Session(i)) <=>
         \E k \in Transitions(v) :
           /\ log[k].derived # "EXPIRED" /\ log[k].time > log[i].time
           /\ log[k].time = Min(RealLater(v, i)) /\ x = Session(k)
  BY NextInLog DEF NextIsLogged
<1>3. \A x : x \in NextSessions(StateTransitions(v), Session(i))' <=>
         \E k \in Transitions(v)' :
           /\ log'[k].derived # "EXPIRED" /\ log'[k].time > log[i].time
           /\ log'[k].time = Min(RealLater(v, i)') /\ x = Session(k)'
  BY <1>1, LoggedAfter DEF NextIsLogged
<1>4. \A t : t \in RealLater(v, i) <=>
        \E k \in Transitions(v) :
          log[k].derived # "EXPIRED" /\ log[k].time > log[i].time /\ t = log[k].time
  BY DEF RealLater
<1>5. \A t : t \in RealLater(v, i)' <=>
        \E k \in Transitions(v)' :
          log'[k].derived # "EXPIRED" /\ log'[k].time > log[i].time /\ t = log'[k].time
  BY <1>1 DEF RealLater
<1>6. RealLater(v, i) # {}
  BY <1>2, <1>4
<1>7. /\ RealLater(v, i) \subseteq RealLater(v, i)' /\ RealLater(v, i)' \in SUBSET Nat
      /\ \A y \in RealLater(v, i)' : y \in RealLater(v, i) \/ \A x \in RealLater(v, i) : x <= y
  BY <1>1, <1>4, <1>5
<1>8. Min(RealLater(v, i)') = Min(RealLater(v, i))
  BY <1>6, <1>7, MinStands
<1>9. PICK m \in Transitions(v) : log[m].time = Min(RealLater(v, i))
  BY <1>2
<1>10. \A k \in Transitions(v)' :
         log'[k].derived # "EXPIRED" /\ log'[k].time = Min(RealLater(v, i)) => k \in Transitions(v)
  BY <1>1, <1>9
<1>11. \A x : x \in NextSessions(StateTransitions(v), Session(i))' <=>
              x \in NextSessions(StateTransitions(v), Session(i))
  BY <1>1, <1>2, <1>3, <1>8, <1>10
<1> QED
  BY <1>11 DEF NextSessions

\* What a build published of a session that has ended stands, whatever the
\* vessel does later and whenever a zone gets its name
\* (int_vessel_sessions.sql, fct_berth_visits.sql, fct_anchorage_dwell.sql).
THEOREM PublishedStands == MartSpec => HistoryIsFinal
<1> DEFINE Stands(p, q) ==
             /\ q.session = p.session /\ q.ends = p.ends
             /\ p.visit => q.visit
             /\ p.dwell => q.dwell
             /\ None \in p.outcome \/ q.outcome = p.outcome
           Row(v, s) ==
             [session |-> s,
              ends |-> SessionEnds(StateTransitions(v), s),
              visit |-> IsBerthVisit(int_zones, s),
              dwell |-> IsAnchorageDwell(int_zones, s),
              outcome |-> ProceededToBerth(StateTransitions(v), int_zones, s)]
<1>1. ASSUME Inv, [MartNext]_martVars, NEW v \in Vessels, NEW p \in Published(v), None \notin p.ends
      PROVE  \E q \in Published(v)' : Stands(p, q)
  <2>1. PICK s \in Real(StateTransitions(v)) : p = Row(v, s)
    BY DEF Published
  <2>2. PICK i \in Transitions(v) : log[i].derived # "EXPIRED" /\ s = Session(i)
    BY RealInLog DEF RealIsLogged
  <2>3. i \in Transitions(v)' /\ log'[i] = log[i] /\ Session(i)' = Session(i)
    BY <1>1, TransitionsAfter
  <2>4. s \in Real(StateTransitions(v))'
    BY <2>2, <2>3, LoggedAfter DEF RealIsLogged
  <2>5. Row(v, s)' \in Published(v)'
    BY <2>4 DEF Published
  <2>6. int_zones \subseteq int_zones'
    BY <1>1 DEF MartNext, EmitNext, NameZone, martVars
  <2>7. /\ SessionEnds(StateTransitions(v), s)' = SessionEnds(StateTransitions(v)', s)
        /\ NextSessions(StateTransitions(v), s)' = NextSessions(StateTransitions(v)', s)
    OBVIOUS
  <2>8. SessionEnds(StateTransitions(v)', s) = SessionEnds(StateTransitions(v), s)
    <3>1. None \notin SessionEnds(StateTransitions(v), Session(i))
      BY <1>1, <2>1, <2>2
    <3> QED
      BY <1>1, <2>2, <2>3, <2>7, <3>1, EndsStand
  <2>9. None \in p.outcome \/
          ProceededToBerth(StateTransitions(v)', int_zones', s)
            = ProceededToBerth(StateTransitions(v), int_zones, s)
    <3>1. SUFFICES ASSUME None \notin ProceededToBerth(StateTransitions(v), int_zones, s)
                   PROVE  ProceededToBerth(StateTransitions(v)', int_zones', s)
                            = ProceededToBerth(StateTransitions(v), int_zones, s)
      BY <2>1
    <3>2. NextSessions(StateTransitions(v), s) # {}
      BY <3>1 DEF ProceededToBerth
    <3>3. NextSessions(StateTransitions(v)', s) = NextSessions(StateTransitions(v), s)
      BY <1>1, <2>2, <2>3, <2>7, <3>2, NextStands
    <3> QED
      BY <2>6, <3>1, <3>3, OutcomeStands
  <2>10. /\ IsBerthVisit(int_zones, s) => IsBerthVisit(int_zones', s)
         /\ IsAnchorageDwell(int_zones, s) => IsAnchorageDwell(int_zones', s)
    BY <2>6, VisitStands
  <2>11. Stands(p, Row(v, s)')
    BY <2>1, <2>8, <2>9, <2>10
  <2> QED
    BY <2>5, <2>11
<1>2. Inv /\ [MartNext]_martVars =>
        (<<log, int_zones>>' # <<log, int_zones>> =>
           \A v \in Vessels : LET before == Published(v)
                                after == Published(v)'
                            IN  \A p \in before : None \notin p.ends =>
                                  \E q \in after :
                                    /\ q.session = p.session
                                    /\ q.ends = p.ends
                                    /\ p.visit => q.visit
                                    /\ p.dwell => q.dwell
                                    /\ None \in p.outcome \/ q.outcome = p.outcome)
  BY <1>1
<1> QED
  BY <1>2, Invariance, PTL DEF MartSpec, HistoryIsFinal
=============================================================================
