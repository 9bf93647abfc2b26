---------------------- MODULE MCTrafficLightPublisher ------------------------
(***************************************************************************)
(* A junction of four lights, with short phases.                           *)
(***************************************************************************)
EXTENDS TrafficLightPublisher
=============================================================================
