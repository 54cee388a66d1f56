---------------------------- MODULE MCPositions ----------------------------
(***************************************************************************)
(* PositionsSink for TLC.  The bay has three cells; the regulation nests   *)
(* anchorage B7 in B, whose rim leaves one cell.                           *)
(***************************************************************************)
EXTENDS PositionsSink

Area(id, cells) == [id |-> id, cells |-> cells, valid |-> TRUE]
B == Area("b", {1, 2})
B7 == Area("b-7", {1})
NestedPairs == {{<<"cfr", "b">>, <<"cfr", "b-7">>}}

Element(type, id, name, clusters) ==
  [type |-> type, id |-> id, name |-> name, clusters |-> clusters]
Terminal(name) == Element("way", 1, name, {{{3}}})
TwoPiers == Element("relation", 4, "Pier T", {{{2}, {3}}})
Port == Element("relation", 2, "Port of Long Beach", {{{1, 2, 3}}})
Street == Element("way", 3, "Pier B Street", {})
Breakwater(name, cells) == [name |-> name, cells |-> cells, valid |-> TRUE]

\* A survey, one after a terminal was renamed and breakwaters built, and five
\* that must not be released: two anchorages share water, two terminals do, an
\* id is taken twice, a name is, a shape crosses itself.
Survey(areas, elements, breakwaters) ==
  [areas |-> areas, elements |-> elements, breakwaters |-> breakwaters]
BaySurveys ==
  {Survey({B, B7}, {Terminal("Pier 400"), Port, Street}, <<>>),
   Survey({B, B7}, {Terminal("Pier 500")},
          <<Breakwater(None, {2}), Breakwater(None, {3})>>),
   Survey({B, B7, Area("c", {2, 3})}, {}, <<>>),
   Survey({B}, {Terminal("Pier 400"), TwoPiers}, <<>>),
   Survey({B, Area("b", {3})}, {}, <<>>),
   Survey({B}, {}, <<Breakwater("middle", {2}), Breakwater("middle", {3})>>),
   Survey({[B EXCEPT !.valid = FALSE]}, {}, <<>>)}

\* A report, a relay of it that came too late, a report from the overlap of two
\* anchorages, one without a time, one from outside.
Report(time, ingested, place) ==
  [mmsi |-> "v1", event_time |-> time, ingested_at |-> ingested, place |-> place, sog |-> 1]
FiveReports ==
  {Report(1, 1, 1), Report(1, 2, 1), Report(1, 3, 1), Report(None, 2, 3), Report(2, 2, 2)}
=============================================================================
