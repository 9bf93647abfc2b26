--------------------------- MODULE ConfigHandshake ---------------------------
(***************************************************************************)
(* The start of a scenario: the scenario executor and the driver model     *)
(* manager, joined by the topic /carla/vehicle_config, on which messages   *)
(* overflow and are lost, and by /driver_model_manager/ack, on which a     *)
(* message can be lost as long as the executor's subscription is not yet   *)
(* connected.  Configurations are sent again every 0.2 s until their ACK   *)
(* has arrived; an ACK is sent once.                                       *)
(***************************************************************************)
EXTENDS Integers, Sequences, FiniteSets

CONSTANTS N, Roles, RoleName, NoPoint,      \* see ScenarioExecutor
          Unknown, MayThrow, NoConfig,      \* see DriverModelManager
          Depth,                            \* the queue of the configuration topic
          AckLoss                           \* can an ACK be lost?

\* The executor.
VARIABLES phase, next, actors, configs, total, toSend, unacked, resend

\* The manager.
VARIABLES expected, totalReceived, received, pending, callback, builder, current,
          tasks, created, started, acked, failed, ok, dtor

\* The topics.
VARIABLES cfgTopic,   \* /carla/vehicle_config: a FIFO queue that drops its oldest
          ackTopic,   \* /driver_model_manager/ack: the ACKs on their way
          lost        \* history: the roles whose ACK was lost

executorVars == <<phase, next, actors, configs, total, toSend, unacked, resend>>
managerVars == <<expected, totalReceived, received, pending, callback, builder, current,
                 tasks, created, started, acked, failed, ok, dtor>>
topics == <<cfgTopic, ackTopic, lost>>
vars == <<executorVars, managerVars, topics>>

Executor == INSTANCE ScenarioExecutor
Manager == INSTANCE DriverModelManager
               WITH Ids <- 1..N, Totals <- 0..N

ASSUME HandshakeAssumption ==
    /\ N \in Nat
    /\ IsFiniteSet(Roles)
    /\ RoleName \in [1..N -> Roles]
    /\ NoPoint \subseteq 1..N
    /\ Unknown \subseteq Roles /\ MayThrow \subseteq Roles
    /\ Depth \in Nat \ {0}
    /\ AckLoss \in BOOLEAN
    /\ NoConfig \notin [role : Roles, id : 0..N, total : Nat]

\* publish() on a topic whose queue is full drops the oldest message.
Publish(m) ==
    cfgTopic' = LET q == Append(cfgTopic, m)
                IN  IF Len(q) > Depth THEN Tail(q) ELSE q
-----------------------------------------------------------------------------
Init ==
    /\ Executor!Init
    /\ Manager!Init
    /\ cfgTopic = << >>
    /\ ackTopic = {}
    /\ lost = {}

\* Steps of the executor that publish nothing.
ExecutorStep ==
    /\ Executor!Spawn \/ Executor!Announce \/ Executor!StartTimer \/ Executor!TimerFires
    /\ UNCHANGED <<managerVars, topics>>

PublishOf(r) ==
    /\ Executor!PublishInitial(r) \/ Executor!Resend(r)
    /\ Publish(Executor!Message(r))
    /\ UNCHANGED <<managerVars, ackTopic, lost>>

ExecutorPublishes == \E r \in Roles : PublishOf(r)

Deliver ==
    /\ cfgTopic # << >>
    /\ Manager!VehicleConfigCallback(Head(cfgTopic))
    /\ cfgTopic' = Tail(cfgTopic)
    /\ UNCHANGED <<executorVars, ackTopic, lost>>

DeliverOf(r) == cfgTopic # << >> /\ Head(cfgTopic).role = r /\ Deliver

\* The manager's step that publishes an ACK, and all its others while ROS runs.
ManagerAcks ==
    /\ Manager!Report
    /\ \/ ackTopic' = ackTopic \cup {current.role} /\ lost' = lost
       \/ AckLoss /\ lost' = lost \cup {current.role} /\ UNCHANGED ackTopic
    /\ UNCHANGED <<executorVars, cfgTopic>>

ManagerNotifies ==
    /\ Manager!NotifyBuilder
    /\ UNCHANGED <<executorVars, topics>>

ManagerWorks ==
    /\ \/ Manager!Check
       \/ Manager!Doze
       \/ Manager!Block
       \/ \E c \in pending : Manager!Pick(c)
       \/ Manager!GiveUp
       \/ Manager!Construct
       \/ Manager!AddPlanTask
       \/ Manager!AddControlTask
       \/ Manager!Launch
    /\ UNCHANGED <<executorVars, topics>>

ManagerWakes ==
    /\ Manager!SpuriousWakeup
    /\ UNCHANGED <<executorVars, topics>>

DeliverAck ==
    /\ \E r \in ackTopic :
          /\ Executor!OnAck(r)
          /\ ackTopic' = ackTopic \ {r}
    /\ UNCHANGED <<managerVars, cfgTopic, lost>>

\* A vehicle that is being driven arrives, and the executor destroys it.
Arrive ==
    /\ started
    /\ \E i \in 1..N :
          /\ \E r \in acked : <<r, i, "plan">> \in tasks
          /\ Executor!CheckVehicleStatus(i)
    /\ UNCHANGED <<managerVars, topics>>

Next ==
    \/ ExecutorStep
    \/ ExecutorPublishes
    \/ Deliver
    \/ ManagerAcks
    \/ ManagerNotifies
    \/ ManagerWorks
    \/ ManagerWakes
    \/ DeliverAck
    \/ Arrive

Spec == Init /\ [][Next]_vars

\* Both nodes keep running, the topics deliver what they hold, the timer fires.
\* The callback is strongly fair because it has to take cfg_mtx_, which the
\* builder holds from time to time but never keeps.  The topic is a fair lossy channel: the
\* repetitions come every 0.2 s, a callback takes microseconds, so what is
\* published again and again is not always what the full queue drops.
Fairness ==
    /\ WF_vars(ExecutorStep)
    /\ WF_vars(ExecutorPublishes)
    /\ SF_vars(Deliver)
    /\ \A r \in Roles : []<><<PublishOf(r)>>_vars => []<><<DeliverOf(r)>>_vars
    /\ WF_vars(ManagerAcks)
    /\ WF_vars(ManagerNotifies)
    /\ WF_vars(ManagerWorks)
    /\ WF_vars(DeliverAck)

FairSpec == Spec /\ Fairness
-----------------------------------------------------------------------------
TypeOK ==
    /\ Executor!TypeOK
    /\ Manager!TypeOK
    /\ cfgTopic \in Seq(Manager!Config)
    /\ Len(cfgTopic) <= Depth
    /\ ackTopic \subseteq Roles
    /\ lost \subseteq Roles

\* The vehicles start together: when the scheduler starts, every vehicle that
\* was configured has a driver with both tasks, for the actor its
\* configuration names, however often configurations were lost and repeated.
StartTogether ==
    started =>
        \A r \in Executor!Configured : \A kind \in Manager!Kinds :
            <<r, configs[r], kind>> \in tasks

\* Only vehicles that were spawned and announced are driven, each under the
\* actor id that was announced.
OnlyConfigured ==
    \A t \in tasks : t[1] \in Executor!Configured /\ t[2] = configs[t[1]]

\* The executor stops sending a configuration only if it will never be needed
\* again: the vehicle has its driver.
SilentOnlyWhenServed ==
    \A r \in Executor!Configured : r \notin unacked => r \in acked

\* What waits for an ACK, or for being sent, has a configuration: the lookup
\* of resend_unacked never raises a KeyError, which would end the repetitions.
ResendsAreKnown == unacked \cup resend \cup toSend \subseteq Executor!Configured

\* Every configuration that leaves the executor names an actor and carries the
\* number of configurations of the scenario, although entries may be refused
\* and may repeat a role, and although vehicles disappear: the manager's count
\* of drivers can reach the number, and not before the last one.
NumberIsReachable ==
    [][\A r \in Roles :
          Executor!Leaves(r) => configs[r] # 0 /\ total = Cardinality(Executor!Configured)]_vars

\* The scenario gets going: every configured vehicle gets its driver and the
\* scheduler starts, although the topic loses configurations, unless a vehicle
\* cannot be driven.
ScenarioStarts ==
    (phase = "running" /\ Executor!Configured # {}) ~> (started \/ failed # {})

\* ... and the executor falls silent about every vehicle that has its driver,
\* in the end, unless the one ACK for it is lost.
RepetitionEnds ==
    (phase = "running") ~> [](unacked \cup resend \subseteq failed \cup lost)
-----------------------------------------------------------------------------
\* What FleetLaunch sees: the fleet once it is announced, the vehicles with a
\* complete driver, and whether they move.
Launch == INSTANCE FleetLaunch
              WITH Vehicles <- Roles,
                   fleet <- IF phase \in {"publishing", "running"}
                            THEN Executor!Configured ELSE {},
                   announced <- phase \in {"publishing", "running"},
                   driven <- Manager!Tasked("control"),
                   moving <- started

\* Through losses, repetitions and failures the two nodes implement a launch.
ImplementsFleetLaunch == Launch!Spec
=============================================================================
