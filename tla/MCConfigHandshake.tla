------------------------- MODULE MCConfigHandshake ---------------------------
(***************************************************************************)
(* Scenarios of two vehicles over a topic that holds one configuration     *)
(* (ten in the code, for scenarios of up to a few dozen vehicles).         *)
(***************************************************************************)
EXTENDS ConfigHandshake

CONSTANTS a, b, c

\* The third entry repeats the first one's name, as an override can.
MCFour == <<a, b, a, c>>
=============================================================================
