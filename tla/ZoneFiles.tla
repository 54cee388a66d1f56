----------------------------- MODULE ZoneFiles -----------------------------
(***************************************************************************)
(* zones.geojson, from its sources to its use:                             *)
(*   - processing/geofences/build_anchorages.py, build_berths.py and       *)
(*     build_harbor_boundary.py make the features, merge_zones.py and      *)
(*     validate_zones.py decide which file is released;                    *)
(*   - processing/streaming/spatial_join.py, and vessel_state_job.py after *)
(*     it, pick the zone of a position.                                    *)
(*                                                                         *)
(* A geometry is a set of cells, its area their number.  A feature is      *)
(* [zone_id, zone_type, authority, source_ref, name, cells, valid].        *)
(***************************************************************************)
EXTENDS Naturals, Sequences, FiniteSets, TLC

CONSTANTS
  EXCLUDE_NAMES,      \* elements that are not a single terminal
  ALLOWED_OVERLAPS,   \* pairs of zone ids that overlap by regulation
  None                \* a missing value

-----------------------------------------------------------------------------
(* build_anchorages.py: an area of the regulation is [id, cells, valid].   *)

AnchorageOf(a) ==
  [zone_id |-> <<"cfr", a.id>>, zone_type |-> "anchorage", authority |-> "CFR",
   source_ref |-> "33 CFR 110.214", name |-> a.id, cells |-> a.cells, valid |-> a.valid]

BuildAnchorages(areas) == {AnchorageOf(a) : a \in areas}

-----------------------------------------------------------------------------
(* build_berths.py: an OpenStreetMap element is [type, id, name, clusters] *)
(* with the closed, valid rings its lines form, those that share an edge   *)
(* in one cluster: none for an open way.                                   *)

\* unary_union joins the rings of a cluster; the largest polygon is kept.
PolygonOf(el) ==
  LET polygons == {UNION rings : rings \in el.clusters}
  IN  IF polygons = {} THEN {}
      ELSE CHOOSE p \in polygons : \A q \in polygons : Cardinality(q) <= Cardinality(p)

\* The zone id is the element's id, the name whatever its tag says today.
BerthOf(el) ==
  [zone_id |-> <<"osm", el.type, el.id>>, zone_type |-> "berth", authority |-> "OSM",
   source_ref |-> <<el.type, el.id>>, name |-> el.name, cells |-> PolygonOf(el), valid |-> TRUE]

BuildBerths(elements) ==
  {BerthOf(el) : el \in {e \in elements : /\ e.name \notin EXCLUDE_NAMES
                                         /\ e.type \in {"way", "relation"}
                                         /\ PolygonOf(e) # {}}}

-----------------------------------------------------------------------------
(* build_harbor_boundary.py: the breakwaters [name, cells, valid] of the   *)
(* chart.  Those without a name are numbered in the chart's order.         *)

BreakwaterAt(lines, i) ==
  LET number == Cardinality({j \in 1 .. i : lines[j].name = None})
      name == IF lines[i].name # None THEN lines[i].name
              ELSE "Unnamed Breakwater " \o ToString(number)
  IN  [zone_id |-> <<"noaa", name>>, zone_type |-> "harbor", authority |-> "NOAA",
       source_ref |-> "NOAA ENC", name |-> name, cells |-> lines[i].cells,
       valid |-> lines[i].valid]

BuildHarbor(lines) == {BreakwaterAt(lines, i) : i \in DOMAIN lines}

-----------------------------------------------------------------------------
(* merge_zones.py.                                                         *)

ValidFeature(f) ==
  /\ f.zone_id # None /\ f.source_ref # None
  /\ f.zone_type \in {"anchorage", "berth", "channel", "harbor"}
  /\ f.authority \in {"CFR", "OSM", "NOAA"}

Merges(features) ==
  /\ \A f \in features : ValidFeature(f)
  /\ \A f, g \in features : f.zone_id = g.zone_id => f = g

-----------------------------------------------------------------------------
(* validate_zones.py.                                                      *)

Overlap(f, g) ==
  /\ f.cells \cap g.cells # {}
  /\ {f.zone_id, g.zone_id} \notin ALLOWED_OVERLAPS

\* Variant: every overlap is a warning.
NoErrors(features) == {}

\* An overlap of two types is a warning, of one type an error.
OverlapErrors(features) ==
  {{p[1], p[2]} : p \in {q \in features \X features :
                           /\ q[1] # q[2]
                           /\ q[1].zone_type = q[2].zone_type
                           /\ Overlap(q[1], q[2])}}

Validates(features) ==
  /\ \A f \in features : f.valid
  /\ OverlapErrors(features) = {}

\* The file of a survey [areas, elements, breakwaters]; the builders assert that
\* what they make is valid, and stop otherwise.
MergedZones(s) ==
  BuildAnchorages(s.areas) \cup BuildBerths(s.elements) \cup BuildHarbor(s.breakwaters)
ReleasedFiles(surveys) ==
  {MergedZones(s) : s \in {x \in surveys : Merges(MergedZones(x)) /\ Validates(MergedZones(x))}}

-----------------------------------------------------------------------------
(* spatial_join.py.                                                        *)

\* enrich_positions: one row for each zone that contains the position.
Containing(features, place) == {f \in features : place \in f.cells}

ZonePriority(f) ==
  IF f.zone_type = "berth" THEN 0
  ELSE IF f.zone_type = "anchorage" THEN 1
  ELSE IF f.zone_type = "harbor" THEN 2 ELSE 3

Precedes(f, g) ==
  \/ ZonePriority(f) < ZonePriority(g)
  \/ ZonePriority(f) = ZonePriority(g) /\ Cardinality(f.cells) < Cardinality(g.cells)

\* pick_best_zone, and the sort in update_vessel_state: the zones that can come
\* first.  Both take any one of several; {None} for a position in no zone.
BestZones(features, place) ==
  LET found == Containing(features, place)
  IN  IF found = {} THEN {None}
      ELSE {f \in found : \A g \in found : ~Precedes(g, f)}
=============================================================================
