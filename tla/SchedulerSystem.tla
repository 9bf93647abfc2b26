--------------------------- MODULE SchedulerSystem ---------------------------
(***************************************************************************)
(* The roadside node's register of the vehicles under way and their paths, *)
(* src/road_side_system/src/scheduler_system.cpp.                          *)
(*                                                                         *)
(* The spinning thread queues every configuration it receives, repetitions *)
(* included; worker threads take them out one by one, ask the waypoint     *)
(* publisher for the path, unlocked, and enter the vehicle; the spinning   *)
(* thread strikes a vehicle off when it has reached its goal.  A           *)
(* configuration is its carla_id: repetitions differ in nothing.           *)
(***************************************************************************)
EXTENDS Integers, Sequences, Functions

CONSTANTS Vehicles,      \* carla ids
          Workers,       \* the worker threads (one in the code)
          None,          \* no vehicle
          MaxReceived    \* bound: the configurations received

ASSUME SystemAssumption ==
    /\ None \notin Vehicles
    /\ Workers # {}
    /\ MaxReceived \in Nat

VARIABLES ok,                   \* ros::ok()
          callback,             \* the spinning thread: "idle" or about to "notify"
          task_queue,
          worker,               \* where each worker is
          hand,                 \* the configuration it computes the path of
          stop_threads,
          dtor,                 \* "alive", "notify", "join", "done"
          vehicle_config_map,   \* the ids entered
          vehicle_path_map,     \* the path of each, "full" or "empty"; "none" if not entered
          received,             \* how many configurations came
          arrived,              \* history: who has reached the goal
          late                  \* history: ... and may be entered after that

spinVars == <<received, arrived, late>>
maps == <<vehicle_config_map, vehicle_path_map>>
vars == <<ok, callback, task_queue, worker, hand, stop_threads, dtor, maps, spinVars>>

Stations == {"loop", "locking", "waiting", "computing", "exited"}

Init ==
    /\ ok = TRUE
    /\ callback = "idle"
    /\ task_queue = << >>
    /\ worker = [w \in Workers |-> "loop"]
    /\ hand = [w \in Workers |-> None]
    /\ stop_threads = FALSE
    /\ dtor = "alive"
    /\ vehicle_config_map = {}
    /\ vehicle_path_map = [v \in Vehicles |-> "none"]
    /\ received = 0
    /\ arrived = {}
    /\ late = {}

Listed == {v \in Vehicles : vehicle_path_map[v] # "none"}
Queued == Range(task_queue)
InHand == {hand[w] : w \in Workers} \ {None}
-----------------------------------------------------------------------------
\* The spinning thread.

VehicleConfigCallback(v) ==
    /\ ok /\ callback = "idle"
    /\ received < MaxReceived
    /\ task_queue' = Append(task_queue, v)
    /\ callback' = "notify"
    /\ received' = received + 1
    /\ late' = late \cup ({v} \cap arrived)
    /\ UNCHANGED <<ok, worker, hand, stop_threads, dtor, maps, arrived>>

\* Mutant: nobody is notified.
NotifyNobody ==
    /\ callback = "notify"
    /\ callback' = "idle"
    /\ UNCHANGED <<ok, task_queue, worker, hand, stop_threads, dtor, maps, spinVars>>

NotifyOne ==
    /\ callback = "notify"
    /\ callback' = "idle"
    /\ \/ \E w \in Workers : worker[w] = "waiting" /\ worker' = [worker EXCEPT ![w] = "locking"]
       \/ (\A w \in Workers : worker[w] # "waiting") /\ UNCHANGED worker
    /\ UNCHANGED <<ok, task_queue, hand, stop_threads, dtor, maps, spinVars>>

\* Mutant: the path stays.
EraseConfigOnly(v) ==
    /\ ok /\ callback = "idle"
    /\ v \notin arrived
    /\ vehicle_config_map' = vehicle_config_map \ {v}
    /\ arrived' = arrived \cup {v}
    /\ late' = late \cup ({v} \cap (Queued \cup InHand))
    /\ UNCHANGED <<ok, callback, task_queue, worker, hand, stop_threads, dtor,
                   vehicle_path_map, received>>

\* A vehicle reports its goal once (ReportedOnce of LocalPlanner).
GoalStatusCallback(v) ==
    /\ ok /\ callback = "idle"
    /\ v \notin arrived
    /\ vehicle_config_map' = vehicle_config_map \ {v}
    /\ vehicle_path_map' = [vehicle_path_map EXCEPT ![v] = "none"]
    /\ arrived' = arrived \cup {v}
    /\ late' = late \cup ({v} \cap (Queued \cup InHand))
    /\ UNCHANGED <<ok, callback, task_queue, worker, hand, stop_threads, dtor, received>>
-----------------------------------------------------------------------------
\* The worker threads.

At(w, station) == worker[w] = station
Goto(w, station) == worker' = [worker EXCEPT ![w] = station]

Loop(w) ==
    /\ At(w, "loop")
    /\ Goto(w, IF ok /\ ~stop_threads THEN "locking" ELSE "exited")
    /\ UNCHANGED <<ok, callback, task_queue, hand, stop_threads, dtor, maps, spinVars>>

Exit(w) ==
    /\ At(w, "locking") /\ stop_threads
    /\ Goto(w, "exited")
    /\ UNCHANGED <<ok, callback, task_queue, hand, stop_threads, dtor, maps, spinVars>>

Wait(w) ==
    /\ At(w, "locking") /\ ~stop_threads /\ task_queue = << >>
    /\ Goto(w, "waiting")
    /\ UNCHANGED <<ok, callback, task_queue, hand, stop_threads, dtor, maps, spinVars>>

SpuriousWakeup(w) ==
    /\ At(w, "waiting")
    /\ Goto(w, "locking")
    /\ UNCHANGED <<ok, callback, task_queue, hand, stop_threads, dtor, maps, spinVars>>

Take(w) ==
    /\ At(w, "locking") /\ ~stop_threads /\ task_queue # << >>
    /\ hand' = [hand EXCEPT ![w] = Head(task_queue)]
    /\ task_queue' = Tail(task_queue)
    /\ Goto(w, "computing")
    /\ UNCHANGED <<ok, callback, stop_threads, dtor, maps, spinVars>>

\* Mutant: a vehicle without a path is not entered.
StoreIfFound(w, path) ==
    /\ At(w, "computing")
    /\ vehicle_config_map' = IF path = "full" THEN vehicle_config_map \cup {hand[w]}
                             ELSE vehicle_config_map
    /\ vehicle_path_map' = IF path = "full" THEN [vehicle_path_map EXCEPT ![hand[w]] = path]
                           ELSE vehicle_path_map
    /\ hand' = [hand EXCEPT ![w] = None]
    /\ Goto(w, "loop")
    /\ UNCHANGED <<ok, callback, task_queue, stop_threads, dtor, spinVars>>

\* GetPath has returned; a path that was not found is entered as an empty one,
\* also in the place of one that was found before.
Store(w, path) ==
    /\ At(w, "computing")
    /\ vehicle_config_map' = vehicle_config_map \cup {hand[w]}
    /\ vehicle_path_map' = [vehicle_path_map EXCEPT ![hand[w]] = path]
    /\ hand' = [hand EXCEPT ![w] = None]
    /\ Goto(w, "loop")
    /\ UNCHANGED <<ok, callback, task_queue, stop_threads, dtor, spinVars>>

WorkerThread(w) ==
    Loop(w) \/ Exit(w) \/ Wait(w) \/ Take(w) \/ \E path \in {"full", "empty"} : Store(w, path)
-----------------------------------------------------------------------------
\* The end of the node: ros::spin returns, main destroys the system.

Shutdown ==
    /\ ok
    /\ ok' = FALSE
    /\ UNCHANGED <<callback, task_queue, worker, hand, stop_threads, dtor, maps, spinVars>>

DestroyStop ==
    /\ ~ok /\ callback = "idle" /\ dtor = "alive"
    /\ stop_threads' = TRUE
    /\ dtor' = "notify"
    /\ UNCHANGED <<ok, callback, task_queue, worker, hand, maps, spinVars>>

\* Mutant: notify_one.
DestroyNotifyOne ==
    /\ dtor = "notify"
    /\ dtor' = "join"
    /\ \/ \E w \in Workers : worker[w] = "waiting" /\ worker' = [worker EXCEPT ![w] = "locking"]
       \/ (\A w \in Workers : worker[w] # "waiting") /\ UNCHANGED worker
    /\ UNCHANGED <<ok, callback, task_queue, hand, stop_threads, maps, spinVars>>

DestroyNotify ==
    /\ dtor = "notify"
    /\ dtor' = "join"
    /\ worker' = [w \in Workers |-> IF worker[w] = "waiting" THEN "locking" ELSE worker[w]]
    /\ UNCHANGED <<ok, callback, task_queue, hand, stop_threads, maps, spinVars>>

DestroyJoin ==
    /\ dtor = "join"
    /\ \A w \in Workers : worker[w] = "exited"
    /\ dtor' = "done"
    /\ UNCHANGED <<ok, callback, task_queue, worker, hand, stop_threads, maps, spinVars>>

Done == dtor = "done" /\ UNCHANGED vars

Next ==
    \/ \E v \in Vehicles : VehicleConfigCallback(v) \/ GoalStatusCallback(v)
    \/ NotifyOne
    \/ \E w \in Workers : WorkerThread(w) \/ SpuriousWakeup(w)
    \/ Shutdown
    \/ DestroyStop
    \/ DestroyNotify
    \/ DestroyJoin
    \/ Done

Spec == Init /\ [][Next]_vars

\* Threads run, and a service call returns; nothing has to arrive, and the node
\* need not be shut down.
FairSpec ==
    /\ Spec
    /\ WF_vars(NotifyOne)
    /\ \A w \in Workers : WF_vars(WorkerThread(w))
    /\ WF_vars(DestroyStop) /\ WF_vars(DestroyNotify) /\ WF_vars(DestroyJoin)
-----------------------------------------------------------------------------
TypeOK ==
    /\ ok \in BOOLEAN
    /\ callback \in {"idle", "notify"}
    /\ task_queue \in Seq(Vehicles)
    /\ worker \in [Workers -> Stations]
    /\ hand \in [Workers -> Vehicles \cup {None}]
    /\ \A w \in Workers : hand[w] # None <=> worker[w] = "computing"
    /\ stop_threads \in BOOLEAN
    /\ dtor \in {"alive", "notify", "join", "done"}
    /\ vehicle_config_map \subseteq Vehicles
    /\ vehicle_path_map \in [Vehicles -> {"none", "empty", "full"}]
    /\ received \in 0..MaxReceived
    /\ arrived \subseteq Vehicles
    /\ late \subseteq Vehicles

\* A vehicle has its entry in both maps or in none, whichever worker enters it
\* while the spinning thread strikes it off.
MapsAgree == vehicle_config_map = Listed

\* An entry outlives its vehicle only if the configuration was still on its way
\* through the queue when the vehicle arrived, or was repeated after that.
OnlyLateStays == arrived \cap Listed \subseteq late

\* The workers never all sleep while a configuration is queued, unless one is
\* about to be notified or the system is being destroyed.
QueueIsLookedAfter ==
    task_queue # << >> /\ ok =>
        callback = "notify" \/ \E w \in Workers : worker[w] \in {"loop", "locking", "computing"}

\* What the proofs need besides: a worker leaves and the system is stopped only
\* after ROS has been; an arrived vehicle that is still on its way through the
\* queue is late.
EndIsOver == ~ok \/ (~stop_threads /\ \A w \in Workers : worker[w] # "exited")
OnTheWayIsLate == arrived \cap (Queued \cup InHand) \subseteq late

IInv ==
    /\ TypeOK
    /\ EndIsOver
    /\ OnTheWayIsLate
    /\ MapsAgree
    /\ OnlyLateStays
    /\ QueueIsLookedAfter

\* Every vehicle that is configured is entered, though its path may not be found.
EveryVehicleIsEntered == \A v \in Vehicles : v \in Queued ~> (v \in Listed \/ ~ok)

\* The destructor returns, whatever the workers are at.
DestructorReturns == ~ok ~> dtor = "done"
=============================================================================
