# Driving-recklessly: a verification project

The repository drives scripted vehicles through a CARLA simulation over ROS 1.
Some of them are made to drive recklessly (a sudden lane change, an abnormal
speed, a cut-in, running a red light), and an identification node has to name
them. This directory holds TLA+ models of the parts in which threads, nodes and
messages meet, the TLC configurations that check them, and proofs of their
safety properties that TLAPS checks for all parameters.

Paths below are relative to `src/src/` of the repository unless they begin with
`src/`. Chinese messages of the code are quoted where a property rests on them.

    tlc -workers 2 -config TaskScheduler.cfg MCTaskScheduler.tla
    tlapm TaskScheduler_proofs.tla

`PROJECT.json` lists, for a reader who wants to look things up: the components,
the runs with their properties, one mutant for every property (a plausible slip
in the code that the run notices), the source lines each definition translates,
the hazards and the theorems.


## 1. The system

### 1.1 Parts and how they interact

    run_all_scenarios.py -> run_scenario.py        starts and kills the nodes
            |
    scenario_executor.py --/carla/vehicle_config--> driver_model_manager
       ^   |    ^  ^       <--/driver_model_manager/ack--   |  builds
       |   |    |  |                                        v
       |   |    |  +--/<role>/VehicleGoalStatus--    AutoDriver, ManualDriver
       |   |    |                                     |  two tasks each
       |   |    +-- waypoint publisher <--paths------ |
       |   v                                          v
       |  CARLA <--control commands-- LocalPlanner <-- TaskScheduler
       |    |                                             (thread pool)
       |    +--lights, objects, odometry--> drivers, road_side_system,
       |                                    behavior_identification
       +-- passive_sync_stepper.py ticks the world

    AutoDriver --/reckless_detection/result--> reckless_detection_listener.py
    behavior_identification --markers--> the simulator's display
    road_side_system --/traffic_light/phases, schedules--> drivers

| Part | State | Operations | What makes it hard |
|---|---|---|---|
| **TaskScheduler** `driver_models/src/task_scheduler.cpp` | a priority queue of periodic tasks, `started_`, `stop_`, the worker threads | `addTask`, `start`, `workerLoop`, the destructor | one condition variable for three kinds of waits and `notify_one`; the lock is dropped while a task runs; a task is outside the queue meanwhile; deadlines of an overloaded pool lag |
| **DriverModelManager** `driver_models/src/driver_model_manager.cpp` | `received_roles_`, `pending_cfgs_`, the expected and the created number of vehicles, `scheduler_started_` | `VehicleConfigCallback`, `builderLoop`, `spawnDriver`, the destructor | three threads; building takes seconds and holds no lock; repeated and contradicting configurations; shutdown without the mutex |
| **ScenarioExecutor** `scenario_library/scripts/scenario_executor.py` | the entries of the scenario, `vehicle_configs`, `unacked_roles`, spawned actors | `spawn_vehicles_from_vehicles`, `resend_unacked` (timer), `_on_ack`, `check_vehicle_status`; the dynamic mode's timers | subscriber and timer threads share a dictionary and a set; queues of ten messages drop the oldest; spawns are refused, names repeat |
| **LocalPlanner** `local_planner/src/local_planner.cpp` | the route in four deques, goal and its flags, pose, target speed, local trajectory | `run_step`, `set_global_plan`, `set_goal_point`, lookups, callbacks | called by two tasks and the spinner; some lookups hold no lock; two deques purged by different radii; early returns that publish nothing |
| **AutoDriver** `driver_models/src/auto_driver.cpp` | paths, flags of the behaviour to be performed, speeds, the verdict | `Initialize` (with retries for 5 s), `run_step` and the manoeuvres in it | a manoeuvre extends over many steps and is latched by several flags; sampled trigger areas; paths that were refused |
| **ManualDriver** `driver_models/src/manual_driver.cpp` | obstacles, lights, `driver_state_` | `run_step`: perception, `handle_trafficlight`, `PlanSpeed` | geometry; its own state machine (`state_transition_tl`, `handle_state`) and `lane_change` are called from nowhere |
| **SchedulerSystem** `road_side_system/src/scheduler_system.cpp` | a queue of configurations, the maps `vehicle_config_map` and `vehicle_path_map` | callbacks, `workerThread`, the destructor | the path is asked for without the lock while vehicles arrive and are struck off |
| **TrafficLightPublisher** `road_side_system/src/traffic_light_utils.cpp` | none of its own: it questions CARLA | `SetTrafficLightPhases`, `GetActiveLight`, `EstimateRemainingTime` | the questions are asked one after the other while the simulation ticks |
| **behavior_identification**, first node `behavior_identification/src/car_state_classify.cpp` | the trajectory of every vehicle | `objectArrayCallback`, `scenarioStatusCallback` | a trajectory outlives its vehicle; the node is reset apart from the other one |
| **behavior_identification**, second node `behavior_identification/src/identification.cpp` | some thirty globals: caches of lights, latches, stamps, a panel with a history | `vehStateSeqCallback`, `trafficLightCallback`, the three identification channels, `IdentificationOutput`, `scenarioStatusCallback` | the order of messages; five caches of one topic, cleared in different combinations; a reset must reach every global; gating by scene type |
| **RandomBehaviorInjector** `driver_models/src/random_behavior_injector.cpp` | windows and states of injected events | `Update` | no driver uses it at this commit |
| **passive_sync_stepper** `scenario_library/scripts/passive_sync_stepper.py` | the settings of the world, the tick thread | the tick loop, `destroy` | a join of two seconds, then the settings are restored under a thread that may still run |
| run_all_scenarios, run_scenario, reckless_detection_listener, tool | processes, CSV files | | sequences of commands; no shared state |
| speed_planner, driver/planner, pid_controller, common | | | real-valued optimisation, geometry and control laws |
| ros-bridge, third_party, libcarla | | | vendored |

### 1.2 What makes each part correct

* **TaskScheduler**: a registered task is never lost, queued twice or executed
  by two workers; none runs early, and an execution does not postpone the next
  deadline by more than a period; a task that is due is executed in the end;
  the destructor returns.
* **DriverModelManager**: one driver per vehicle, whatever is repeated; the
  count of drivers is exact, and the fleet starts when and only when it is
  complete; no configuration is slept over; the destructor returns (it may not).
* **Executor and manager together**: through lost configurations and lost ACKs,
  all vehicles get their drivers, start together, and the repetitions end.
* **LocalPlanner**: no waypoint of a route is skipped, doubled or mixed with an
  older route's; what is steered by and what is looked up stay together; the
  goal is reported once; after it nobody moves the vehicle.
* **AutoDriver**: a vehicle is reported at most once, as what it is; a trigger
  is not missed; the manoeuvre's speed ends with the manoeuvre; a lane change
  leads to the other lane.
* **SchedulerSystem**: the register keeps its two maps together, forgets the
  vehicles that arrived, and its workers sleep over nothing.
* **TrafficLightPublisher**: the remaining time published is the true one, and
  never more than that when the lights change between its questions.
* **behavior_identification**: no verdict is repeated within a scene, whatever
  overflows or fails in between; a vehicle is called slow only if it was, without
  a gap, and had no reason to be; a verdict on a red light rests on a fresh
  message that said red; vehicles of a former scene are forgotten once both nodes
  know of the change, and a reset reaches everything that is remembered of them.


## 2. The modules

| Module | Models | Composes / refines |
|---|---|---|
| `TaskScheduler` | the thread pool | refines `PeriodicTasks` |
| `PeriodicTasks` | what the pool promises: periodic tasks, earliest deadline first, at most so many at once | abstract |
| `DriverModelManager` | the manager in an environment that sends anything | instantiated by `ConfigHandshake` |
| `ScenarioExecutor` | the executor's static mode | instantiated by `ConfigHandshake` |
| `ConfigHandshake` | executor, manager and the two topics between them | refines `FleetLaunch` |
| `FleetLaunch` | what the two nodes promise: a fleet is announced, equipped and started | abstract |
| `LocalPlanner` | the planner under its driver's two tasks | |
| `AutoDriver` | initialisation, manoeuvres and verdict of one vehicle | |
| `SchedulerSystem` | the roadside register | |
| `TrafficLightPublisher` | the remaining time of a group of lights | |
| `CarStateClassify` | the node that strings observations to trajectories | instantiated by `IdentificationSystem` |
| `BehaviorIdentification` | the node that judges them | extended by `IdentificationSystem` |
| `IdentificationSystem` | both nodes, the simulated vehicles, the lights, the changes of scenario | |
| `MC...` | the constants of the runs | |
| `..._proofs` | the theorems | |

Mutants stand next to the definition they are a slip of, and are used by no
specification.

### 2.1 TaskScheduler

`mtx_` protects everything, so an action is a critical section: from taking the
mutex to releasing it or to waiting. `pc[w]` says where a worker is between two
of them. `workerLoop` leaves its critical section in five ways: it exits
(`Exit`), the queue is empty (`Sleep`), nothing is due (`SleepUntil`), it takes a
task (`Take`), and it returns one with the next deadline (`Requeue`).
`notify_one` wakes any waiting worker or none; waits end spuriously. `held` is
the local variable `task`: the task that is neither queued nor forgotten.
Deadlines advance from the old deadline, not from the current time, as in
line 69. What a task does is opaque here.

### 2.2 DriverModelManager

The callback's critical section and its notification, which follows after the
mutex was released, are two actions. The builder's wait is three: `Doze` (the
predicate is false; it holds the mutex), `Block`, and a wakeup; this is what
exposes the destructor, which sets `stop_builder_` and notifies without the
mutex. `spawnDriver` is one action per step another thread can see: the
constructor, the two `addTask`s, the count with the ACK, the start. A
constructor succeeds or throws; a configuration may name an unknown driver
model. `Next` admits every configuration at every time.

### 2.3 ScenarioExecutor, ConfigHandshake, FleetLaunch

`ScenarioExecutor` is the static mode: entry by entry a spawn is refused,
accepted, or fails for want of a readable spawn point (`SpawnAborts`: the node
ends with a KeyError); then the number of configurations is fixed, all are
published once, and a timer repeats those in `unacked_roles`, of which it works
on a copy (`TimerFires`, `Resend`) while ACKs arrive.

`ConfigHandshake` joins it with `DriverModelManager`. `/carla/vehicle_config`
is a FIFO queue that drops its oldest message when it is full. An ACK is
published once, and can be lost while the executor's subscription is not yet
connected; `lost` remembers for which role.

`FleetLaunch` sees the fleet, the vehicles with both tasks, and whether they
move. The refinement mapping takes the fleet from `vehicle_configs` once it is
announced, and a vehicle as equipped when its control task is scheduled.

### 2.4 LocalPlanner

Places are points of a line; a waypoint is the i-th of the k-th route. The
methods that hold `data_mutex_` are one action each;
`get_incoming_waypoint_and_direction`, which holds none, is two (the sizes are
read, then the waypoint is fetched). `RunStep(c)` is the disjunction of the ways
through `run_step`: goal known, goal reached now, nothing to follow, follow. The
control task of either driver calls it; a `ManualDriver`'s planning task does
too and publishes the result later (`Publish`). A lane change of an
`AutoDriver` replaces the route, then the goal. Odometry may report any pose at
any time, so every order of approaching and leaving waypoints happens.

Left out: the control law, the local trajectory, `get_plan`.

### 2.5 AutoDriver

The position is the distance driven; between two steps the vehicle moves by at
most `MaxStep`. `Initialize` repeats its requests: the route, the other lane's
path if it is to change lanes, the actor; each attempt appends to
`global_paths_`, as in the code. `run_step` is one action with one disjunct for
each way through the manoeuvres (lines 768-1061); `Report` is the verdict at
its begin or with the manoeuvre, `DynamicRouting` the end of the step that may
find the lane change finished and restores the speed.

Left out: perception, obstacles from lights and schedules, the planners: they
decide the motion, which is arbitrary here.

### 2.6 SchedulerSystem, TrafficLightPublisher

`SchedulerSystem`: a configuration is its `carla_id`, because the repetitions of
one differ in nothing. The service call of a worker lies between `Take` and
`Store`; its answer is a path or an empty one. `late` remembers the vehicles for
which a configuration was on its way, or came, after their arrival.

`TrafficLightPublisher`: the lights of a group have their turns one after the
other, which is what CARLA's groups do; the publisher reads the clock of the
group (`GetActiveLight`), the simulation may tick, and it reads the colours
(`EstimateRemainingTime`). `TrueRemaining` is the reference: it lets the group
run forward and counts. `GetActiveLight` and `EstimateRemainingTime` put several
questions to the simulator each; each of the two is one step here, so that
the simulation ticks between the two and not within one.

### 2.7 CarStateClassify, BehaviorIdentification, IdentificationSystem

The road is a line of places in the direction of travel, a stop line is a place,
a speed is Standing, Slow or Normal. Both nodes have one spinning thread, so
every callback is one action. A time stamp is modelled by its age, which stops
one past the limit it is compared with; a map of the code is a function whose
domain are its keys, because what is erased, and when, is what matters.

`CarStateClassify` keeps for each vehicle what the other node looks at: the
number of poses (up to the limits it is compared with), the first and the last
place, whether it moved, and the last speeds, filtered as the low-pass filter
does it. A vehicle that is gone keeps its trajectory until the reset.

`BehaviorIdentification` has the four ways through `trafficLightCallback` (no
signalized scene, empty message, lights without evidence that they work, lights
that work), and `VehStateSeqCallback`, which is the whole of a cycle:
`STChannelIdentify` (red and yellow lights), the left turns, `ATChannelIdentify`
(slow driving; it looks at the stop lines that the former has left), and the
panel. The configuration is a record (`useScene`, `enableRed`, `enableSlow`,
`enableLty`, `shapes`). The code selects a crossing by its lateral distance;
these are left out, and any candidate may be selected. The verdicts that rest on
the shape of a trajectory alone (failing to yield, lane changes, acceleration,
overspeed) are opaque choices, which the latches and the panel then handle.

`IdentificationSystem` has vehicles appear, drive and disappear, lights change,
and the scenario change, of which the two nodes learn one after the other in
either order. `topic` is the subscription to the trajectories: `Publish` appends
a message (`Enqueue` drops the oldest when there are `Depth`, as the queue of 10
does), `Observe` handles one, and anything may happen in between, a reset
included. Each message repeats all of a trajectory, so a lost one is a longer step
in the next. `said`, `contrary` and `heard` are histories the properties compare
with: the last phase published for a line, how long ago a vehicle was last seen not to
be slow, and of whom there was a message since the reset. The light messages are
handled when they are published; those of the scenario's change wait, as
`statusC` and `statusI`, for either node.

`FindRawStopLineIndex` takes two phases within 1.2 m for one line, the second of
which overwrites the first. A place of the model is one line, and
`BoundsAssumption` has a message name a place once: the publisher sends one phase
per light, each with its own stop line.

Left out: markers, plots, the panel's layout, the stop line's width.


## 3. The runs

A property that holds is the normal result; the four runs that end with a
violation show a disagreement of the code with what its own messages say.

| Run | Question | Instance | Distinct states |
|---|---|---|---|
| `scheduler` | Is the pool a periodic executor? | 2 workers, 3 tasks with periods 1, 2, 2, time up to 4 | 159 550 |
| `manager` | Is the manager right under any traffic? | 3 roles (one with an unknown model, one that may throw), 2 actor ids, announced totals -1, 1, 2 | 104 057 |
| `manager_shutdown` | Does the destructor return? No | as above, one id | violation |
| `handshake` | Do the two nodes launch a fleet? | 4 entries: one repeats a name, one has no readable spawn point, one driver may throw; a queue of 1; ACKs are lost | 21 646 |
| `planner` | Does the route stay whole? | routes of 6 and 3 points, 6 poses, a buffer of 3, both driver types | 102 558 |
| `planner_lookup` | Are lookups defined? No | one route of 4 points | violation |
| `auto_driver` | Are manoeuvre and verdict right? | 14 m, trigger at 5 ± 2, recovery at 10 ± 1, steps of up to 4 | 94 482 |
| `auto_driver_lane` | Can an initialised vehicle change lanes? Not always | as above | violation |
| `lights` | Is the remaining time true? | 4 lights, phases 5, 2, 2, up to 4 ticks between the questions | 28 404 |
| `roadside` | Is the register consistent? | 2 vehicles, 2 workers, 3 configurations | 30 183 |
| `identification` | Are the verdicts justified? | 5 configurations, 2 vehicles, 5 places with up to 4 stop lines, a panel of 1, a message on its way | 1 392 851 |
| `identification_entry` | Is a vehicle judged at its entry line only? No | as above | violation |

### 3.1 What the passing runs show

**scheduler.** `ExactlyOnePlace`: a task that was added is in the queue once or
in the hands of one worker. `Punctual`: nothing runs before its deadline, and
the next deadline is at most one period ahead of the clock. `LookedAfter`: if
the queue is not empty there is always a worker that is awake or executing, or
one whose timed wait ends no later than the first deadline; so a wakeup taken by
the wrong worker does no harm. `ImplementsPeriodicTasks`: the
pool is a periodic executor without threads. `DueTaskRuns`, `DestructorReturns`
are liveness.
*Bounds*: two workers are needed for a wakeup to go to the wrong one, three
tasks for one to be due while both workers are busy; by time 4 every task has
had two periods and the pool can have fallen behind.

**manager.** `Stations`: every received role is at exactly one station of its
way: pending, in the builder's hands, acknowledged, failed. `OneDriverPerRole`:
at most one planning and one control task for a role, of one actor.
`StartsWhenComplete`: the scheduler starts exactly when the count says so; that the
count is the number of vehicles with a driver (`CountIsExact`) is proved, and
shows in the handshake as `StartTogether`. `PendingIsLookedAfter`: the builder never sleeps over a pending
configuration without a notification on its way. `AcceptedIsServed` is its
liveness form. *Bounds*: one role of each fate, two ids so that repetitions
contradict; totals with the special value and one below the number of roles.

**handshake.** `StartTogether`: when the scheduler starts, every configured
vehicle has both its tasks.
`SilentOnlyWhenServed`: the executor stops repeating a configuration only if the
vehicle has its driver. `ResendsAreKnown`: the timer never looks up a role that
has no configuration. `NumberIsReachable`: every published configuration carries
the number of configurations, although entries are refused and repeat names.
`ImplementsFleetLaunch` is the summary, and has it that nobody else is driven; that this
is so under the announced actor (`OnlyConfigured`) is proved. `ScenarioStarts`, `RepetitionEnds` are
liveness: the fleet starts unless a driver fails, and the repetitions end except
for a role whose only ACK was lost. *Bounds*: the queue of one message drops as
the queue of ten does with a fleet of eleven.

**planner.** `RouteIsWhole`, `BufferIsUnderWay`, `BehindIsInOrder` describe the
four deques together; `ReportedOnce`, `NoNewCommandAtGoal` the goal under two
tasks; `LookupNeverLooksBack` what the unlocked lookup still guarantees. *Bounds*: the
first route turns round and passes its places twice, which is where purging
"up to the last near waypoint" by two radii could tear the deques apart; the
second one replaces it at any moment.

**auto_driver.** `OneVerdict`, `TriggerIsNotMissed`, `SpeedFitsManoeuvre`,
`LaneChangeIsReal`; `SpeedComesBack` is liveness: a vehicle that braked to a
halt and is to recover by time does recover. *Bounds*: the trigger area is
exactly as long as the longest step, the tightest case (4 m, 40 m/s at 10 Hz); the recovery
area is shorter than a step, so it can be jumped over, as in the code.

**lights.** `RemainingIsExact` compares what is published with the reference for
every light at every tick of every turn, with the lag between the questions. It
leaves out two cases that section 5 describes: no clock runs in the first tick of a
phase, and the lights change between the questions. `NeverTooLong` covers both: clock
and colour may belong to different phases, and what is published may be too
little, but nobody is promised more time than the light has. *Bounds*: with a lag of
4 the group can change twice between the questions, from the end of green
through yellow to red, and from yellow through red to the green of the next light.

**roadside.** `OnlyLateStays`: an entry outlives its vehicle only for a
configuration that was under way, or came, after the arrival.
`QueueIsLookedAfter`, `EveryVehicleIsEntered`, `DestructorReturns`. *Bounds*: the code starts one worker but is
written for several; two are checked.

**identification.** `OncePerScene`: an item that was on the panel is not entered
again before the scenario changes, neither after the panel overflowed nor after
the verdicts on red lights were struck off because the lights had failed (only
the latch of the crossing prevents it then). `SlowIsContinuous`: for the whole
duration required the vehicle was seen slow, free ahead and away from stop
lines; each of the nine exits of the check has to forget when it began to be
slow. `RedIsTrue`: the vehicle crossed a line for which the last message of this
scene, still fresh, said red; and where the scene type is not used, lights were
being heard of and that light had let somebody pass shortly before. `OldSceneFades`:
when both nodes have handled the change, nothing is on its way, and somebody has been
observed long enough, no trajectory of a former vehicle is in use; this is the
classifier's reset. `RemembersThisScene` is the identification's own: of whomever one of its
nine maps and sets, the panel or the dedup set knows, there was a message since the reset, so
the reset forgets nothing, and a message sent before it that is handled
after it is entered everywhere like any other. *Bounds*: one configuration
for each way of gating (by scene type, by evidence, slow driving with lights and
with traffic, shapes); four lines make the exchange of the lights 1 and 3
possible, all limits are 1 or 2 so that each is exceeded, and a panel of one
overflows with the second verdict. In the configuration by evidence the lights
fail and recover while the vehicle stands before, on and behind its line, so
that a verdict on red is struck off and the line is there to be crossed again. In the
configurations of the red lights and of shapes everything may happen
while a message is on its way (`delays` in `MCBounds`); the two of slow
driving, with the largest state spaces, deliver at once, and `SlowWithoutAGap` proves
`SlowIsContinuous` for messages under way too. A queue of one overflows as one of ten does;
the theorems hold for any depth.

### 3.2 What the violations show

* `manager_shutdown` / `ShutdownCompletes`: `stop_builder_` is stored and
  `cfg_cv_` notified without `cfg_mtx_` (`driver_model_manager.cpp:11-12`). If
  both fall between the builder's evaluation of the predicate and its blocking,
  the builder sleeps for ever and `join` never returns.
* `planner_lookup` / `LookupIsDefined`: sizes read without the lock are used as
  indices after the control task has shortened the deque.
* `auto_driver_lane` / `LaneChangeIsDefined`: the refused path of the other lane is
  only logged; at the trigger `global_paths_[1]` does not exist or is null.
* `identification_entry` / `JudgedAtEntry`: a comment (`identification.cpp:2138`) has
  each vehicle judged at its first, entry line only, so that the line on leaving is
  not misjudged. The latch is set by the first crossing that is *judged*: who
  enters in the grace time, or over a line whose light is unknown, is judged, and
  reported, at the exit line.

### 3.3 Fairness

Weak fairness is assumed of what a running thread does by itself: a worker that
can take a step takes it, a task function returns, a service call returns, a
constructor returns (`Initialize` gives up after 5 s), the builder proceeds, the
clock ticks. Nothing is assumed of the environment: no configuration has to
arrive, no vehicle to move, no wakeup to be spurious, ROS need not be shut down.

`ConfigHandshake` assumes more of the topic, because a queue that is always
overrun delivers nothing: delivery is strongly fair, and a role whose
configuration is published again and again is delivered again and again. The
code justifies it by its rates: repetitions come every 0.2 s, a callback takes
microseconds. ACKs have no such fairness, since they are sent once.

`IdentificationSystem` states safety only and assumes no fairness: neither a
message nor a vehicle has to come. The pool is fair to each worker. Fairness to each task is not assumed: it
follows from the deadlines, and `DueTaskRuns` checks that.


## 4. The proofs

Each `..._proofs` module proves an inductive invariant of its component (`IInv` or
`Inv`: it holds initially, every step keeps it, in one lemma per conjunct or per
group of actions) and derives the properties of the runs from it, for every
value of the constants that satisfies the module's assumption. TLC has checked
each invariant on the run's instance.

| Module | Theorems | Obligations |
|---|---|---|
| `TaskScheduler_proofs` | `TypeCorrect`, `TasksAreInOnePlace`, `TasksArePunctual`, `QueueIsLookedAfter`, `PoolIsPeriodic`, `NobodySleepsThroughTheEnd`, `WorkersFinish` | 632 |
| `DriverModelManager_proofs` | `TypeCorrect`, `RolesAreAtOneStation`, `VehiclesHaveOneDriver`, `DriversAreCountedOnce`, `StartIsDecidedOnce`, `NoConfigurationIsSleptOver`, `SchedulerIsUsedAsAssumed` | 426 |
| `ConfigHandshake_proofs` | `TypeCorrect`, `VehiclesStartTogether`, `DrivenIsConfigured`, `SilenceIsSafe`, `ResendFindsItsConfiguration`, `NumberIsFinal`, `FleetIsLaunched`, `ManagerRunsAsAlone`, `ManagerIsReliable`, `ActorsHaveOneRole`, `SilenceIsFinal`, `AcksAreNotRepeated` | 1147 |
| `LocalPlanner_proofs` | `TypeCorrect`, `NoWaypointIsLost`, `LookupsSeeTheBuffer`, `PastIsInOrder`, `GoalIsReportedOnce`, `GoalIsFinal`, `LookupsLookAhead` | 1146 |
| `AutoDriver_proofs` | `TypeCorrect`, `ReportedOnce`, `NoTriggerIsMissed`, `SpeedFits`, `LaneIsChanged` | 665 |
| `SchedulerSystem_proofs` | `TypeCorrect`, `EntriesArePaired`, `LeftoversAreLate`, `NoWakeupIsLost`, `NobodySleepsThroughTheEnd`, `WorkersFinish` | 215 |
| `IdentificationSystem_proofs` | `FormerSceneFades`, `ResetReachesAll`, `NothingTwice`, `SlowWithoutAGap`, `RedWasRed`, `JudgedForOneLight` | 1461 |
| `TrafficLightPublisher_proofs` | `TypeCorrect`, `RemainingTimeIsTrue`, `FallbackIsShort`, `NobodyIsPromisedTooMuch` | 1559 |

**TaskScheduler** (assumes: there are workers, finitely many, and periods are positive). `IInv` adds
`Threads` to the properties of the run: a worker has a thread from `start` on, leaves its
loop only when stopped, and holds a task exactly while it executes one.
`LookedAfter` is the hard one: a pop notifies nobody, so it rests on the popping
worker itself, and an `addTask` whose notification wakes the only worker in a
timed wait, or none, must leave one that will look. The lemmas `NotifyOne` and `NotifyAll` say what a
notification leaves of the waiting workers. `PoolIsPeriodic` is the refinement: the abstract
set of running tasks is what the workers hold, so a `Take` begins the task with
the earliest deadline (`Deadlines`, `TakeImplements`) and finds room for one more
(`RoomToBegin`: the workers that execute are fewer than all), a `Requeue` ends it
with a deadline one period later, and everything else is a stutter.
`NobodySleepsThroughTheEnd` and `WorkersFinish` are what the destructor's joins
rest on: `notify_all` leaves nobody waiting, although it comes after the mutex was
released, and from then on a worker's steps to its exit (`ToGo`: two while it executes a
task, one in its loop) only become fewer. With weak fairness of the workers the
joins return; that last inference is TLC's (`DestructorReturns`).

**DriverModelManager** (assumes next to nothing: totals are naturals or -1).
`BuilderIsConsistent` ties the builder's place in `spawnDriver` to the tasks the
role in its hands has already: without it neither `OneDriverPerRole` nor
`Stations` is inductive. `CountIsExact` needs that `acked` is finite, and that
the role that is counted is not yet in it, which is `Stations` again.
`SchedulerIsUsedAsAssumed` discharges what `TaskScheduler` takes for granted of its
caller: no task is added twice, and after the builder was joined neither `addTask`
nor `start` is called, so that the pool can be destroyed.

**ConfigHandshake** (assumes what the scenario file gives: finitely many roles,
one for each of `N` entries, and those with an unknown model or a constructor that
may throw are among them; the topic holds at least one message). The
invariant follows a configuration: `Messages` (everything on the topic, at the
manager or in the builder's hands was sent, and is what the executor would send
now, since `configs` and `total` no longer change), `Building`, `Apart` (a role is
never both pending and in the builder's hands, nor acknowledged), `Served` (an
acknowledged role has both tasks under its actor), `Counted` (the manager's
counters are the numbers of those sets). `VehiclesStartTogether` is a counting
argument: as many distinct acknowledged roles as there are configured ones, all
of them configured, are all of them. `FleetIsLaunched` is the refinement of
`FleetLaunch` under the mapping of section 2.3.

`ManagerRunsAsAlone` is a second refinement: the manager in the composition takes
only steps of `DriverModelManager`, with actors 1..N and totals 0..N. The executor
has to be shown to send nothing else (`Bounded`: its types, and `OneRolePerActor`,
proved as `ActorsHaveOneRole`). The theorems of `DriverModelManager_proofs` then hold
of the manager in the composition without a proof of their own: the module is
instantiated, and `ManagerIsReliable` cites them. `SilenceIsFinal` and
`AcksAreNotRepeated` are the safety part of `RepetitionEnds`: the roles still waited
for only become fewer, and an ACK that was lost is never made up for, which is why
`RepetitionEnds` has to except its role.

**LocalPlanner** (assumes: routes are not empty, because `set_global_plan` reads
`waypoints.back()`; `TouchRadius <= PassRadius`, as 1 m and 5 m are; `Steps` are
integers). `InPlace` says, position by
position, which waypoint of the route lies where: the remembered ones, the
processed ones and the queue are consecutive parts of one route, and the buffer
looked up is a suffix of what is steered by, because the smaller radius purges
less (`BufferLosesMore`). `Deques` bounds the deques, `Mission` ties the goal's flag
to the report, `Looking` bounds what a lookup read by what there is left when it
goes on. The lemmas
`FirstOfIs`, `RestOfIs`, `ReverseIs`, `LastWithinIs` say what the operators on
deques return.

**AutoDriver** (assumes nothing of the vehicle's speed, except in
`NoTriggerIsMissed`: its hypothesis `StepsAreShort`, `MaxStep <= 2 * TriggerRadius`,
says that the vehicle covers at most the length of the trigger area between two
steps, 40 m/s for the code's radius of 2 m and period of 100 ms; section 5 names
the scenes that exceed it). `TriggerIsAhead`, proved beside `IInv` under that
hypothesis, strengthens `TriggerIsNotMissed`: as long as the behaviour has not begun, the vehicle is
before the area after a step, and not beyond it before one. `FlagsFit` ties the
flags to the configured behaviour, `VerdictIsOpen` the verdict to the behaviour
that has not begun, `OtherIsSecond` the retries of `Initialize` to the position
of the other lane's path.

**SchedulerSystem** (assumes a worker exists). `OnTheWayIsLate` carries a late
configuration from the queue through a worker's hand to the register.
`QueueIsLookedAfter` needs `EndIsOver`: no worker has left while ROS runs.
`NobodySleepsThroughTheEnd` and `WorkersFinish` are proved as for the pool; here a
worker has the service call and its own step still to go.

**IdentificationSystem** (assumes: grace times and the duration of slow driving
are positive, a message of the lights names each line once, and the verdicts by
shape have names of their own). Six arguments: `Known` (the trajectories, those on
their way included, are of vehicles that are or were there, and after the
classifier's reset its own are not of former ones) with `Newest` (the last message on its way is
what the classifier has, unless it was reset) carries `FormerSceneFades`;
`RemembersThisScene` is inductive with the observation that each map gains only
vehicles of the message at hand (`CrossingRemembers`, `SlowRemembers`,
`PanelRemembers`), which is `ResetReachesAll`; `Panel` (what was shown is in the dedup set,
except verdicts on red lights, whose vehicles are latched in `checked`) carries
`NothingTwice`; `SlowSince` (the code's stamp is never older than the observed
stretch of slow driving) `SlowWithoutAGap`, together with `Unbroken`: a vehicle that is
in two of the messages on their way, or in use and in one of them, is in all
between, so that its stamp cannot outlast a message without it; `LightsHeard` (each cached line agrees
with what was last said of it, and an open gate with what was heard at all)
`RedWasRed`, which needs most of the lemmas, one for each way in which the
caches are refreshed, cleared, and grow older; and `LightVerdictIsLatched` (whoever was
reported for a red or yellow light is in `checked`, and is so until the scene changes)
`JudgedForOneLight`: nobody is reported both for a red and for a yellow light in one
scene, whichever lines are crossed in whichever phase.

**TrafficLightPublisher** (assumes: there is a light, and each phase lasts). The
reference `TrueRemaining` runs the group forward tick by tick, by the recursive
function `Later`. The proof gives it a closed form: `Cycle(n)` is the group n ticks after
`Init`, by division with remainder; one tick leads from `Cycle(n)` to `Cycle(n + 1)`
(`CycleRuns`), hence `Later[k]` is `Cycle(Place + k)` (`LaterIs`). The induction
this takes is by a least counterexample (`LeastElement`, from the
library's theorem that `<` on naturals is well founded). From the closed form the first
change of each light is read off (`Distance`, `BrightIs`, `RedIs`, `TrueIs`) and compared with the
code's `Estimate`. The invariant `Asked` relates the clock read to the group's clock:
they differ by the lag unless the group has changed colour. `RemainingTimeIsTrue`
is the run's property; `FallbackIsShort` settles one of the cases it leaves out: in the first
tick of a phase what is published is short by exactly that phase, down to zero.
`NobodyIsPromisedTooMuch` holds whatever the lag. `ClockRead` keeps the place of the
group at which the clock was read; from there the group has run on by the lag, perhaps
over several changes and turns. The begin of the turn that is waited for lies ahead
of the group or is the turn it is in (`TurnIsAhead`), and what is subtracted although it belongs to another
phase is made up for by the change that has passed (`WaitIsShort`).

Only model-checked is liveness, which rests on fairness: `DueTaskRuns`,
`DestructorReturns` (of pool and roadside node), `AcceptedIsServed`, `ScenarioStarts`,
`RepetitionEnds`, `SpeedComesBack`, `EveryVehicleIsEntered`. Of `DestructorReturns` and
`RepetitionEnds` the safety part is proved, as described above.


## 5. Observations without a run

Met while reading the code for the models; none of these contradicts a
statement of the code strongly enough for a run of its own, or the statement is
outside the models.

* `local_planner.h:92` says the last five waypoints are remembered;
  `local_planner.cpp:415` keeps ten. The model's `History` is a parameter.
* The manager dismisses a repeated configuration as still pending, also when its
  driver was built long ago, or failed (`driver_model_manager.cpp`). The ACK is
  not repeated: `RepetitionEnds` has to except the roles whose ACK was lost.
* `auto_driver.cpp` speaks of a trigger range of one metre (lines 827, 900, 962);
  the code uses 2.0. With one metre, `TriggerIsNotMissed` would fail above 20 m/s.
* The scenes `late_lane_change_at_highway_exit` and `highway_normal_driving` draw
  speeds of 35 to 45 m/s (`35 + rand() % (35 - 25 + 1)`, lines 136 and 151). Above
  40 m/s a step is longer than the trigger area, `StepsAreShort` does not hold, and
  the trigger can be missed.
* The scene `tl_intersection_cut_in` draws index 3 or 4 at 13 m/s (`auto_driver.cpp:209-211`)
  and uses it unchecked (line 229); its scenario `scenarios_more/.../多车道_加塞.json` lists four
  points, so index 4 is out of range.
* The recovery area does have one metre (line 1025), and scenarios of sudden
  acceleration drive at 28 to 40 m/s: the point can be passed unnoticed, and
  the vehicle then never recovers its speed.
* `scheduler_system.cpp:173-175` logs that an empty path is skipped after having
  pushed it. A repeated configuration whose path service fails replaces a path
  that was found by an empty one (line 115).
* In the first tick of a phase no clock of a group runs; the fallback of
  `traffic_light_utils.cpp:115` takes the whole phase for elapsed, and while all
  lights are red it finds no active light: 30 s are published.
* The clock of a group is read before the colour of its active light
  (line 61, then line 136). If the light changes in
  between, the clock of the old phase is subtracted from the time of the new one, and too
  little is published: `NobodyIsPromisedTooMuch` proves that it is never too much.
* `road_side_system_node.cpp:23` waits 20 s for the world, line 26 says 10. The
  thread that would publish the register is commented out (lines 55-63).
* `emergency_stop` fills in a message and publishes nothing
  (`local_planner.cpp:430-434`): without waypoints the last command stays in force.
* For a vehicle without a readable spawn point the log announces a random one
  (`scenario_executor.py:383`); line 413 then reads a key that only the other branch
  sets, and the node ends with a KeyError, the vehicle being in the world already.
* `scenario_executor.py:949` tests `spawn_timer`, an attribute that is never set: the
  exception ends `destroy` before anything is released, and line 970 closes the
  spawn client where the destroy client is meant. In the dynamic mode the
  counters of a direction only grow, so the maximum counts destroyed vehicles.
* `passive_sync_stepper.py:192` joins its thread for two seconds and restores the
  settings whether or not it ended.
* The identification node reads its parameters from the global namespace
  (`LoadConfig`), the launch file loads them into the private one: the defaults of
  the code are in force.
* A status message that names no scene and finds no file leaves `g_scene_type` as it was.
* Within one cycle the slow check uses the stop lines the red-light check may have
  just cleared: the vehicle waiting at such a line is no longer "before a stop line".
* While the gate of the red-light check is closed `g_last_vehicle_pos` stands still: the
  first step after it opens reaches from the old place to the new one.
* The windows of the slow check are counted in samples of `lty_dt` (0.02 s);
  samples come at the 20 Hz of the stepper, so that they are longer than configured.
* The lights 1 and 3 are exchanged only if the light they are exchanged with is
  known; with fewer lines a crossing of 1 or 3 is never judged.
* `manual_driver.cpp:622-674`, who goes first at a crossing: two vehicles that stand
  at the same positive distance both go; two that stand on the entry both
  yield, for ever. The branch `s_ego >= 5.0` stands inside `s_ego < 5.0` and is
  unreachable; the comment above says 10 m, the code 5 and 20.
* `manual_driver.cpp:942` logs a stop line that is not on the path and dereferences the
  empty result in line 945.
* The service `/carla/vehicle/destroy` (`base_driver.cpp:33`) is offered by no node.
* `scenarios/2_tl_intersection_cut_in.json` does not set `abnormal`: the driver
  reports its cut-in as normal driving when it is late.
* `reckless_detection_listener.py` expects eight fields; its message says seven.
* An injected event with the default end of +inf is never within its window
  (`random_behavior_injector.cpp`); nothing uses the injector.


## 6. What is not modelled, and the plan

Modelled first: the scheduler and the manager, on which every vehicle depends,
then the nodes' handshake, then what a single vehicle does, the roadside node,
and the identification. What is left, and why it is behind:

1. **ManualDriver**: `handle_trafficlight`, the decision at crossings and `PlanSpeed`.
   Their state of a step is a list of obstacles on an interpolated path, and what
   they decide rests on distances and estimated times along it; a model over a line
   of places would decide by its own geometry. What reading them showed is in section 5.
2. **AutoDriver**: the constructor's draws for each type of scene (lines 130-673),
   the obstacles of lights and schedules (`create_traffic_light_obstacle`,
   `create_schedule_obstacles`, `schedulerCallback`), and the local trajectory, which
   the planner follows without a lock.
3. **Executor, dynamic mode** (`scenario_executor.py:178-312`): two timers spawn up to a
   maximum per direction; each configuration is published once, with the total -1,
   and ACKs are ignored. The manager's side of it is part of `DriverModelManager`;
   on the executor's side counters that only grow are left.
4. **passive_sync_stepper**: one thread that ticks, and one join with a limit of two
   seconds; what can go wrong depends on how long CARLA's `tick()` lasts, which
   nothing in the repository bounds.
5. **DriverRuntime**: manager, pool and planner composed: the tasks of a vehicle
   that arrived stay in the pool and do nothing. What the manager and the pool assume of
   each other is proved (`SchedulerIsUsedAsAssumed`).
6. **Proofs**: every safety property of the passing runs is proved. A refinement of
   the roadside register and of the panel to abstract specifications would sum up
   theirs.

Not to be modelled: the planners, speed optimisation, control law and geometry
(`driver/planner`, `speed_planner`, `pid_controller`, `common`), whose state is
real-valued; scripts that start and kill processes; the experiments in `tool`;
vendored code. Of CARLA and ROS, only what the code relies on appears: queues
that drop their oldest message, services that fail, clocks that tick, actors
that move.
