---------------------------- MODULE MCShipStatic ----------------------------
(* ShipStaticSink for TLC: plain JSON and two versions of the schema, the  *)
(* second with a field the first does not know.                            *)
EXTENDS ShipStaticSink
JsonAndTwoVersions == 0 .. 2
FieldAdded == {<<1, 1>>, <<2, 2>>, <<2, 1>>}
=============================================================================
