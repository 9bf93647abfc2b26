--------------------------- MODULE MCLocalPlanner ----------------------------
(***************************************************************************)
(* Short routes on a line whose unit is 2.5 m: the radii of 5 m, 5 m and   *)
(* 1 m become "at most 2", "less than 2" and "less than 1".  The first     *)
(* route turns round and passes places it has passed before.               *)
(***************************************************************************)
EXTENDS LocalPlanner

\* The goal lies off the end of the first route; the second one is short.
MCRoutes == << <<2, 4, 6, 8, 6, 4>>, <<5, 7, 9>> >>

\* For the lookups of a ManualDriver, which has one route.
MCOneRoute == << <<2, 4, 6, 4>> >>

\* One and two steps back, none to three ahead.
MCSteps == {-2, -1, 0, 1, 3}
=============================================================================
