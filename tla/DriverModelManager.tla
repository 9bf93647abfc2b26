-------------------------- MODULE DriverModelManager -------------------------
(***************************************************************************)
(* The node that turns vehicle configurations into drivers and starts the  *)
(* task scheduler: src/driver_models/src/driver_model_manager.cpp.         *)
(*                                                                         *)
(* Three threads share the manager.  A spinner thread runs                 *)
(* VehicleConfigCallback (roscpp never runs two callbacks of one           *)
(* subscription at once), the builder thread runs builderLoop, and main    *)
(* runs the destructor after ROS was shut down.  The mutex cfg_mtx_        *)
(* protects received_roles_ and pending_cfgs_; the builder's thread is at  *)
(*                                                                         *)
(*   "check"     the condition of `while (ros::ok() && !stop_builder_)`    *)
(*   "acquire"   about to take cfg_mtx_ and evaluate the wait predicate    *)
(*   "blocking"  the predicate was false; it still holds cfg_mtx_          *)
(*   "waiting"   blocked in cfg_cv_.wait, the mutex is free                *)
(*   "construct" in spawnDriver, constructing the driver                   *)
(*   "plan", "control", "report", "launch"  the later steps of spawnDriver *)
(*   "done"      returned from builderLoop                                 *)
(***************************************************************************)
EXTENDS Integers, FiniteSets

CONSTANTS Roles,      \* the role names vehicles may have
          Ids,        \* the CARLA actor ids
          Totals,     \* the values of the field total_vehicles
          Unknown,    \* the roles configured with a driver_model nobody knows
          MayThrow,   \* the roles whose driver's constructor may throw
          NoConfig    \* what the builder holds when it builds nothing

Config == [role : Roles, id : Ids, total : Totals]

ASSUME ManagerAssumption ==
    /\ Totals \subseteq Nat \cup {-1}
    /\ Unknown \subseteq Roles
    /\ MayThrow \subseteq Roles
    /\ NoConfig \notin Config

VARIABLES expected,       \* expected_total_vehicles_ (-1: the size_t it becomes)
          totalReceived,  \* total_vehicle_count_received_
          received,       \* received_roles_
          pending,        \* pending_cfgs_
          callback,       \* VehicleConfigCallback: "idle" or about to "notify"
          builder,        \* where the builder thread is
          current,        \* the configuration the builder holds
          tasks,          \* the tasks given to scheduler_.addTask
          created,        \* created_vehicles_
          started,        \* scheduler_started_
          acked,          \* history: the roles an ACK was published for
          failed,         \* history: the roles spawnDriver gave up
          ok,             \* ros::ok()
          dtor            \* the destructor: "alive", "stopping", "notified", "joined"

vars == <<expected, totalReceived, received, pending, callback, builder, current,
          tasks, created, started, acked, failed, ok, dtor>>

\* What only the callback writes, only the builder writes, and only main writes.
intake == <<expected, totalReceived, received>>
build == <<tasks, created, started, acked, failed>>
exit == <<ok, dtor>>

stop == dtor # "alive"

Kinds == {"plan", "control"}
PendingRoles == {c.role : c \in pending}

\* The configuration the builder is working on, as a set.
InHand == IF current = NoConfig THEN {} ELSE {current.role}

\* cfg_cv_.notify_one() and notify_all(): the builder is the only waiter.
Notified == IF builder = "waiting" THEN "acquire" ELSE builder
-----------------------------------------------------------------------------
Init ==
    /\ expected = 0
    /\ totalReceived = FALSE
    /\ received = {}
    /\ pending = {}
    /\ callback = "idle"
    /\ builder = "check"
    /\ current = NoConfig
    /\ tasks = {}
    /\ created = 0
    /\ started = FALSE
    /\ acked = {}
    /\ failed = {}
    /\ ok = TRUE
    /\ dtor = "alive"

\* The critical section of VehicleConfigCallback: the first message fixes the
\* number of vehicles; a role that was received before is ignored.
CanReceive == ok /\ callback = "idle" /\ builder # "blocking"

TakeTotal(m) ==
    /\ expected' = IF totalReceived THEN expected ELSE m.total
    /\ totalReceived' = TRUE

IgnoreDuplicate(m) ==
    /\ CanReceive
    /\ m.role \in received
    /\ TakeTotal(m)
    /\ UNCHANGED <<received, pending, callback, builder, current, build, exit>>

\* Mutant: the role is not remembered as received, only as pending.
AcceptAgain(m) ==
    /\ CanReceive
    /\ m.role \notin PendingRoles
    /\ TakeTotal(m)
    /\ pending' = pending \cup {m}
    /\ callback' = "notify"
    /\ UNCHANGED <<received, builder, current, build, exit>>

Accept(m) ==
    /\ CanReceive
    /\ m.role \notin received
    /\ TakeTotal(m)
    /\ received' = received \cup {m.role}
    /\ pending' = pending \cup {m}
    /\ callback' = "notify"
    /\ UNCHANGED <<builder, current, build, exit>>

VehicleConfigCallback(m) == IgnoreDuplicate(m) \/ Accept(m)

\* Mutant: nobody is notified of the new configuration.
NotifyNobody ==
    /\ callback = "notify"
    /\ callback' = "idle"
    /\ UNCHANGED <<intake, pending, builder, current, build, exit>>

\* cfg_cv_.notify_one(), after the mutex was released.
NotifyBuilder ==
    /\ callback = "notify"
    /\ callback' = "idle"
    /\ builder' = Notified
    /\ UNCHANGED <<intake, pending, current, build, exit>>

-----------------------------------------------------------------------------
\* builderLoop

Check ==
    /\ builder = "check"
    /\ builder' = IF ok /\ ~stop THEN "acquire" ELSE "done"
    /\ UNCHANGED <<intake, pending, callback, current, build, exit>>

\* The wait predicate is false: the builder holds the mutex until it blocks.
Doze ==
    /\ builder = "acquire"
    /\ ~stop
    /\ pending = {}
    /\ builder' = "blocking"
    /\ UNCHANGED <<intake, pending, callback, current, build, exit>>

Block ==
    /\ builder = "blocking"
    /\ builder' = "waiting"
    /\ UNCHANGED <<intake, pending, callback, current, build, exit>>

SpuriousWakeup ==
    /\ builder = "waiting"
    /\ builder' = "acquire"
    /\ UNCHANGED <<intake, pending, callback, current, build, exit>>

Quit ==
    /\ builder = "acquire"
    /\ stop
    /\ pending = {}
    /\ builder' = "done"
    /\ UNCHANGED <<intake, pending, callback, current, build, exit>>

\* pending_cfgs_ is an unordered_map: its first element is any of them.
Pick(c) ==
    /\ builder = "acquire"
    /\ c \in pending
    /\ pending' = pending \ {c}
    /\ current' = c
    /\ builder' = "construct"
    /\ UNCHANGED <<intake, callback, build, exit>>

-----------------------------------------------------------------------------
\* spawnDriver

\* The driver model is unknown or the constructor throws: no task, no ACK.
GiveUp ==
    /\ builder = "construct"
    /\ current.role \in Unknown \cup MayThrow
    /\ failed' = failed \cup {current.role}
    /\ current' = NoConfig
    /\ builder' = "check"
    /\ UNCHANGED <<intake, pending, callback, tasks, created, started, acked, exit>>

Construct ==
    /\ builder = "construct"
    /\ current.role \notin Unknown
    /\ builder' = "plan"
    /\ UNCHANGED <<intake, pending, callback, current, build, exit>>

AddTask(kind, from, to) ==
    /\ builder = from
    /\ tasks' = tasks \cup {<<current.role, current.id, kind>>}
    /\ builder' = to
    /\ UNCHANGED <<intake, pending, callback, current, created, started, acked, failed, exit>>

AddPlanTask == AddTask("plan", "plan", "control")
AddControlTask == AddTask("control", "control", "report")

\* ++created_vehicles_, then the ACK is published, once.
Report ==
    /\ builder = "report"
    /\ created' = created + 1
    /\ acked' = acked \cup {current.role}
    /\ builder' = "launch"
    /\ UNCHANGED <<intake, pending, callback, current, tasks, started, failed, exit>>

\* All expected drivers exist, or nobody waits for a number of them.
Complete == expected = -1 \/ (expected > 0 /\ created >= expected)

\* Mutant: one driver too few is enough.
LaunchEarly ==
    /\ builder = "launch"
    /\ started' = (started \/ expected = -1 \/ (expected > 0 /\ created + 1 >= expected))
    /\ current' = NoConfig
    /\ builder' = "check"
    /\ UNCHANGED <<intake, pending, callback, tasks, created, acked, failed, exit>>

\* scheduler_.start() is called at most once: the flag is taken by a CAS.
Launch ==
    /\ builder = "launch"
    /\ started' = (started \/ Complete)
    /\ current' = NoConfig
    /\ builder' = "check"
    /\ UNCHANGED <<intake, pending, callback, tasks, created, acked, failed, exit>>

-----------------------------------------------------------------------------
\* The end of the node: ros::shutdown(), then the destructor in main, after
\* the spinner's threads were joined.  stop_builder_ is set and the condition
\* variable is notified without cfg_mtx_.

Shutdown ==
    /\ ok
    /\ ok' = FALSE
    /\ UNCHANGED <<intake, pending, callback, builder, current, build, dtor>>

DestroyStop ==
    /\ ~ok
    /\ callback = "idle"
    /\ dtor = "alive"
    /\ dtor' = "stopping"
    /\ UNCHANGED <<intake, pending, callback, builder, current, build, ok>>

DestroyNotify ==
    /\ dtor = "stopping"
    /\ dtor' = "notified"
    /\ builder' = Notified
    /\ UNCHANGED <<intake, pending, callback, current, build, ok>>

DestroyJoin ==
    /\ dtor = "notified"
    /\ builder = "done"
    /\ dtor' = "joined"
    /\ UNCHANGED <<intake, pending, callback, builder, current, build, ok>>

Builder ==
    \/ Check
    \/ Doze
    \/ Block
    \/ Quit
    \/ \E c \in pending : Pick(c)
    \/ GiveUp
    \/ Construct
    \/ AddPlanTask
    \/ AddControlTask
    \/ Report
    \/ Launch

Destroy == DestroyStop \/ DestroyNotify \/ DestroyJoin

\* What the manager does by itself.
Internal ==
    \/ NotifyBuilder
    \/ Builder
    \/ SpuriousWakeup
    \/ Destroy

\* The manager in an environment that sends any configuration at any time and
\* may shut ROS down.
Done == dtor = "joined" /\ UNCHANGED vars

Next ==
    \/ \E m \in Config : VehicleConfigCallback(m)
    \/ Internal
    \/ Shutdown
    \/ Done

Spec == Init /\ [][Next]_vars

\* Threads that can run are run; constructors return (they give up after their
\* own time limits).  A spurious wakeup is never counted on.
Fairness ==
    /\ WF_vars(NotifyBuilder)
    /\ WF_vars(Builder)
    /\ WF_vars(Destroy)

FairSpec == Spec /\ Fairness
-----------------------------------------------------------------------------
Points == {"check", "acquire", "blocking", "waiting", "construct", "plan", "control",
           "report", "launch", "done"}

TypeOK ==
    /\ expected \in Nat \cup {-1}
    /\ totalReceived \in BOOLEAN
    /\ received \subseteq Roles
    /\ pending \subseteq Config
    /\ callback \in {"idle", "notify"}
    /\ builder \in Points
    /\ current \in Config \cup {NoConfig}
    /\ tasks \subseteq Roles \X Ids \X Kinds
    /\ created \in Nat
    /\ started \in BOOLEAN
    /\ acked \subseteq Roles
    /\ failed \subseteq Roles
    /\ ok \in BOOLEAN
    /\ dtor \in {"alive", "stopping", "notified", "joined"}

\* The roles that have a task of a kind in the scheduler.
Tasked(kind) == {t[1] : t \in {u \in tasks : u[3] = kind}}

\* Every role the manager has received is at exactly one station of its way:
\* waiting, in the builder's hands, driven, or given up.  So however often a
\* configuration is sent again, and whatever the repetitions say, a vehicle
\* gets at most one driver.
Stations ==
    /\ received = PendingRoles \cup InHand \cup acked \cup failed
    /\ \A c, d \in pending : c.role = d.role => c = d
    /\ PendingRoles \cap (InHand \cup acked \cup failed) = {}
    /\ acked \cap failed = {}
    /\ builder \notin {"launch"} => InHand \cap (acked \cup failed) = {}

\* A vehicle is driven by one driver with one planning and one control task,
\* and an ACK promises that both are scheduled.
OneDriverPerRole ==
    /\ \A t, u \in tasks : t[1] = u[1] /\ t[3] = u[3] => t = u
    /\ \A kind \in Kinds : acked \subseteq Tasked(kind)
    /\ Tasked("control") \subseteq Tasked("plan")
    /\ Tasked("plan") \subseteq acked \cup InHand

\* The drivers are counted once each: the count that decides about the start
\* is the number of acknowledged vehicles.
CountIsExact == created = Cardinality(acked)

\* The scheduler starts only when the number of drivers fixed by the first
\* message exists (or a first message that asks for no number was received and
\* a driver exists), and the builder never forgets to start it: it is complete
\* exactly from the moment the builder has looked at the count.
StartsWhenComplete ==
    /\ started => Complete /\ created > 0
    /\ created > 0 /\ Complete /\ builder # "launch" => started

\* A pending configuration never waits for a builder that sleeps without a
\* wakeup on its way.
PendingIsLookedAfter ==
    pending # {} /\ builder = "waiting" => callback = "notify" \/ dtor = "stopping"

\* What the builder's place in spawnDriver says about the role in its hands.
InSpawnDriver == {"construct", "plan", "control", "report", "launch"}

BuilderIsConsistent ==
    /\ current # NoConfig <=> builder \in InSpawnDriver
    /\ builder \in {"construct", "plan"} => \A t \in tasks : t[1] # current.role
    /\ builder = "control" => \A t \in tasks : t[1] = current.role => t[3] = "plan"
    /\ builder \in {"control", "report", "launch"} => current.role \in Tasked("plan")
    /\ builder \in {"report", "launch"} => current.role \in Tasked("control")
    /\ builder = "launch" => current.role \in acked
    /\ builder = "blocking" => pending = {}

\* The inductive invariant behind the safety properties.
IInv ==
    /\ TypeOK
    /\ BuilderIsConsistent
    /\ ~totalReceived => received = {}
    /\ Stations
    /\ OneDriverPerRole
    /\ IsFiniteSet(acked) /\ CountIsExact
    /\ StartsWhenComplete
    /\ PendingIsLookedAfter

\* Every accepted configuration is worked on until it has a driver or is given
\* up, unless the node is shut down.
AcceptedIsServed ==
    \A r \in Roles : r \in received ~> (r \in acked \cup failed \/ ~ok)

\* The destructor ends: the builder notices stop_builder_ and is joined.
ShutdownCompletes == ~ok ~> dtor = "joined"
=============================================================================
