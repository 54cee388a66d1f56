----------------------------- MODULE MCProducer -----------------------------
(***************************************************************************)
(* Instances of Producer for TLC: a frame that is routed to a topic of its *)
(* own, one for the dead letter topic, and one that its schema refuses.    *)
(***************************************************************************)
EXTENDS Producer

ThreeKinds == {"PositionReport", "NotJSON", "Misfit"}
=============================================================================
