----------------------------- MODULE FleetLaunch -----------------------------
(***************************************************************************)
(* What scenario executor and driver model manager together promise: a     *)
(* fleet is announced once, its vehicles get one driver each, and when all *)
(* have one the whole fleet begins to move.                                *)
(***************************************************************************)
CONSTANT Vehicles

VARIABLES announced,  \* has the fleet been fixed?
          fleet,      \* the vehicles that take part
          driven,     \* the vehicles that have a driver
          moving      \* do the drivers drive?

Init ==
    /\ announced = FALSE
    /\ fleet = {}
    /\ driven = {}
    /\ moving = FALSE

Announce ==
    /\ ~announced
    /\ announced' = TRUE
    /\ fleet' \in SUBSET Vehicles
    /\ UNCHANGED <<driven, moving>>

Equip(v) ==
    /\ ~moving
    /\ v \in fleet \ driven
    /\ driven' = driven \cup {v}
    /\ UNCHANGED <<announced, fleet, moving>>

Go ==
    /\ driven = fleet
    /\ fleet # {}
    /\ moving' = TRUE
    /\ UNCHANGED <<announced, fleet, driven>>

Next == Announce \/ Go \/ \E v \in Vehicles : Equip(v)

Spec == Init /\ [][Next]_<<announced, fleet, driven, moving>>
=============================================================================
