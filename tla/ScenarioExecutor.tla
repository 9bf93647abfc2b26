--------------------------- MODULE ScenarioExecutor --------------------------
(***************************************************************************)
(* The node that spawns the vehicles of a scenario and hands their         *)
(* configurations to the driver model manager, in its static mode:         *)
(* src/scenario_library/scripts/scenario_executor.py.                      *)
(*                                                                         *)
(* spawn_vehicles_from_vehicles runs in the main thread; resend_unacked in *)
(* the thread of a rospy.Timer; _on_ack and check_vehicle_status in        *)
(* subscriber threads.  The interpreter lock makes single operations on    *)
(* the set unacked_roles atomic, and nothing else orders the threads.      *)
(*                                                                         *)
(* What is published is not part of this module: PublishInitial(r) and     *)
(* Resend(r) publish Message(r).                                           *)
(***************************************************************************)
EXTENDS Integers, FiniteSets

CONSTANTS N,          \* the number of entries in the scenario's `vehicles`
          Roles,      \* the role names
          RoleName,   \* RoleName[i]: the role of entry i (an override may repeat one)
          NoPoint     \* the entries whose spawn_point cannot be used

VARIABLES phase,    \* "spawning", "publishing", "running", or "aborted"
          next,     \* the entry spawn_vehicles_from_vehicles is at
          actors,   \* the vehicles alive in CARLA (entry i has actor id i)
          configs,  \* vehicle_configs: the actor id of a role, 0 if it has none
          total,    \* the total_vehicles written to the configurations
          toSend,   \* the roles the first publishing loop has not reached
          unacked,  \* unacked_roles
          resend    \* the copy of unacked_roles a timer callback is working off

vars == <<phase, next, actors, configs, total, toSend, unacked, resend>>

Configured == {r \in Roles : configs[r] # 0}

\* The configuration of role r as it is published.
Message(r) == [role |-> r, id |-> configs[r], total |-> total]

Init ==
    /\ phase = "spawning"
    /\ next = 1
    /\ actors = {}
    /\ configs = [r \in Roles |-> 0]
    /\ total = 0
    /\ toSend = {}
    /\ unacked = {}
    /\ resend = {}

\* Mutant: a vehicle that was refused is expected to be acknowledged.
RefusedIsUnacked ==
    /\ phase = "spawning"
    /\ next <= N
    /\ next' = next + 1
    /\ unacked' = unacked \cup {RoleName[next]}
    /\ UNCHANGED <<phase, actors, configs, total, toSend, resend>>

\* /carla/spawn_object answers -1: the entry is skipped with a warning.
SpawnRefused ==
    /\ phase = "spawning"
    /\ next <= N
    /\ next' = next + 1
    /\ UNCHANGED <<phase, actors, configs, total, toSend, unacked, resend>>

\* The vehicle exists and its configuration is complete.  An entry with the
\* role of an earlier one replaces that one's configuration.
SpawnAccepted ==
    /\ phase = "spawning"
    /\ next \in (1..N) \ NoPoint
    /\ actors' = actors \cup {next}
    /\ configs' = [configs EXCEPT ![RoleName[next]] = next]
    /\ unacked' = unacked \cup {RoleName[next]}
    /\ next' = next + 1
    /\ UNCHANGED <<phase, total, toSend, resend>>

\* No spawn_point could be read, so CARLA chose one; then the lookup of
\* "_selected_spawn_point" raises a KeyError, which main catches: it shuts the
\* node down.
SpawnAborts ==
    /\ phase = "spawning"
    /\ next \in NoPoint
    /\ actors' = actors \cup {next}
    /\ phase' = "aborted"
    /\ UNCHANGED <<next, configs, total, toSend, unacked, resend>>

\* Mutant: the number of actors is announced.
AnnounceActors ==
    /\ phase = "spawning"
    /\ next > N
    /\ phase' = "publishing"
    /\ total' = Cardinality(actors)
    /\ toSend' = Configured
    /\ UNCHANGED <<next, actors, configs, unacked, resend>>

\* All entries were tried: total_vehicles is the number of configurations.
Announce ==
    /\ phase = "spawning"
    /\ next > N
    /\ phase' = "publishing"
    /\ total' = Cardinality(Configured)
    /\ toSend' = Configured
    /\ UNCHANGED <<next, actors, configs, unacked, resend>>

PublishInitial(r) ==
    /\ phase = "publishing"
    /\ r \in toSend
    /\ toSend' = toSend \ {r}
    /\ UNCHANGED <<phase, next, actors, configs, total, unacked, resend>>

\* Everything was published once: the 0.2 s timer is created.
StartTimer ==
    /\ phase = "publishing"
    /\ toSend = {}
    /\ phase' = "running"
    /\ UNCHANGED <<next, actors, configs, total, toSend, unacked, resend>>

\* resend_unacked begins: list(self.unacked_roles).  The timer does not fire
\* again before its callback has returned.
TimerFires ==
    /\ phase = "running"
    /\ resend = {}
    /\ unacked # {}
    /\ resend' = unacked
    /\ UNCHANGED <<phase, next, actors, configs, total, toSend, unacked>>

\* ... and publishes one of them, acknowledged in the meantime or not.
Resend(r) ==
    /\ phase = "running"
    /\ r \in resend
    /\ resend' = resend \ {r}
    /\ UNCHANGED <<phase, next, actors, configs, total, toSend, unacked>>

\* Mutant: an ACK empties the list.
OnAckClears(r) ==
    /\ phase # "aborted"
    /\ unacked' = {}
    /\ UNCHANGED <<phase, next, actors, configs, total, toSend, resend>>

\* Mutant: the ACK is looked up but the role stays in the list.
OnAckForgets(r) ==
    /\ phase # "aborted"
    /\ r \in unacked
    /\ UNCHANGED vars

\* _on_ack
OnAck(r) ==
    /\ phase # "aborted"
    /\ unacked' = unacked \ {r}
    /\ UNCHANGED <<phase, next, actors, configs, total, toSend, resend>>

\* check_vehicle_status for a vehicle that reached its goal: the actor is
\* destroyed; its configuration and counters stay.
CheckVehicleStatus(i) ==
    /\ phase # "aborted"
    /\ i \in actors
    /\ actors' = actors \ {i}
    /\ UNCHANGED <<phase, next, configs, total, toSend, unacked, resend>>

Spawn == SpawnRefused \/ SpawnAccepted \/ SpawnAborts

-----------------------------------------------------------------------------
TypeOK ==
    /\ phase \in {"spawning", "publishing", "running", "aborted"}
    /\ next \in 1..(N + 1)
    /\ actors \subseteq 1..N
    /\ configs \in [Roles -> 0..N]
    /\ total \in Nat
    /\ toSend \subseteq Roles
    /\ unacked \subseteq Roles
    /\ resend \subseteq Roles

\* Role r is being published.
Leaves(r) == (r \in toSend /\ r \notin toSend') \/ (r \in resend /\ r \notin resend')
=============================================================================
