----------------------------- MODULE LocalPlanner -----------------------------
(***************************************************************************)
(* A vehicle's local planner, src/local_planner/src/local_planner.cpp, as   *)
(* the two periodic tasks of its driver use it: the control task calls      *)
(* run_step every 20 ms; the planning task of a ManualDriver looks up the   *)
(* waypoints ahead and then calls run_step too, that of an AutoDriver may   *)
(* replace the route (a lane change).                                       *)
(*                                                                          *)
(* run_step, set_global_plan, set_goal_point and the odometry callback hold *)
(* data_mutex_ and are one action each; get_incoming_waypoint_and_direction *)
(* holds no lock and is two.  Places are points of a line.  What the        *)
(* controller computes is abstracted to "drive"; the latch                  *)
(* goal_reached_once_ is left out because run_step never asks is_reached_-  *)
(* goal again once it has answered yes.                                     *)
(***************************************************************************)
EXTENDS Integers, SequencesExt

CONSTANTS Path,         \* Path[k]: the places of the k-th route of the driver
          FirstGoal,    \* the place of vehicle_config_.goal_point
          Poses,        \* the places odometry can report
          Steps,        \* the arguments of get_incoming_waypoint_and_direction
          GoalRadius,   \* min_distance_reach_goal (5 m)
          PassRadius,   \* min_distance_reach_wp (5 m)
          TouchRadius,  \* min_distance_reach_wp_processed (1 m)
          BufferSize,   \* buffer_size_ (5)
          History,      \* the longest last_deleted_waypoints_ (10)
          Drivers,      \* the driver types: "auto", "manual"
          None,         \* the null pointer
          Undefined     \* what an access beyond the end of a deque returns

\* A waypoint is the i-th of the k-th route.
Waypoint == UNION {{k} \X DOMAIN Path[k] : k \in DOMAIN Path}

ASSUME PlannerAssumption ==
    /\ Path \in Seq(Seq(Int) \ {<< >>})
    /\ FirstGoal \in Int
    /\ Poses \subseteq Int
    /\ Steps \subseteq Int
    /\ GoalRadius \in Nat /\ PassRadius \in Nat /\ TouchRadius \in Nat
    /\ TouchRadius <= PassRadius
    /\ BufferSize \in Nat \ {0}
    /\ History \in Nat
    /\ Drivers \subseteq {"auto", "manual"}
    /\ None \notin Waypoint /\ Undefined \notin Waypoint

VARIABLES driver,     \* the type of the vehicle's driver
          plan,       \* which route was set last; 0: none
          queue,      \* waypoints_queue_
          buffer,     \* waypoint_buffer_
          processed,  \* processed_waypoints_
          deleted,    \* last_deleted_waypoints_, the latest first
          pose,       \* current_pose_
          odom,       \* odom_received_flag_
          goal,       \* vehicle_config_.goal_point
          reached,    \* goal_reached_flag_
          reports,    \* how many VehicleGoalStatus were published
          command,    \* the last control command published for the vehicle
          task,       \* where the planning task is
          local,      \* its local variables in get_incoming_waypoint_...
          found,      \* what its last lookup returned
          decision    \* what its call of run_step returned

route == <<plan, queue, buffer, processed, deleted>>
mission == <<goal, reached, reports>>
planning == <<task, local, found, decision>>
vars == <<driver, route, pose, odom, mission, command, planning>>

Route(k) == IF k = 0 THEN << >> ELSE [i \in DOMAIN Path[k] |-> <<k, i>>]
Place(w) == Path[w[1]][w[2]]
Gap(x, y) == IF x < y THEN y - x ELSE x - y

\* The last position in s of a waypoint nearer than r, 0 if there is none.
LastWithin(s, r) == Max({0} \cup {i \in DOMAIN s : Gap(Place(s[i]), pose) < r})

FirstOf(s, n) == SubSeq(s, 1, n)
RestOf(s, n) == SubSeq(s, n + 1, Len(s))
Smaller(m, n) == IF m < n THEN m ELSE n

-----------------------------------------------------------------------------
\* The constructors; the default pose is the origin.
Init ==
    /\ driver \in Drivers
    /\ plan = 0
    /\ queue = << >>
    /\ buffer = << >>
    /\ processed = << >>
    /\ deleted = << >>
    /\ pose = 0
    /\ odom = FALSE
    /\ goal = FirstGoal
    /\ reached = FALSE
    /\ reports = 0
    /\ command = "none"
    /\ task = "idle"
    /\ local = << >>
    /\ found = None
    /\ decision = "none"

OdometryCallback(p) ==
    /\ pose' = p
    /\ odom' = TRUE
    /\ UNCHANGED <<route, mission, command, planning>>

\* Mutant: the waypoints under way of the old route are kept.
SetGlobalPlanKeeps(k) ==
    /\ plan' = k
    /\ queue' = Route(k)
    /\ buffer' = << >>
    /\ UNCHANGED <<processed, deleted>>

\* set_global_plan: last_deleted_waypoints_ is not cleared.
SetGlobalPlan(k) ==
    /\ plan' = k
    /\ queue' = Route(k)
    /\ buffer' = << >>
    /\ processed' = << >>
    /\ UNCHANGED deleted

\* Initialize of the driver, before any task exists: it has a route, or gives
\* up after 5 s.
Ready == plan # 0 \/ reached

Initialize ==
    /\ ~Ready
    /\ \/ /\ Path # << >>
          /\ SetGlobalPlan(1)
          /\ UNCHANGED mission
       \/ /\ reached' = TRUE
          /\ UNCHANGED <<route, goal, reports>>
    /\ UNCHANGED <<pose, odom, command, planning>>

-----------------------------------------------------------------------------
\* run_step: RunStep(c) for the cases in which it returns c.

GoalKnown ==
    /\ reached
    /\ UNCHANGED <<route, mission, command>>

\* Mutant: the flag is not set.
ReachGoalForgets ==
    /\ ~reached
    /\ Gap(goal, pose) <= GoalRadius
    /\ reports' = Smaller(reports + 1, 2)
    /\ UNCHANGED <<route, goal, reached, command>>

\* The goal is reached: report it, and publish no command.
ReachGoal ==
    /\ ~reached
    /\ Gap(goal, pose) <= GoalRadius
    /\ reached' = TRUE
    /\ reports' = reports + 1
    /\ UNCHANGED <<route, goal, command>>

\* Mutant: goal_reached_flag_ is not looked at.
UnderwayAnyhow == Gap(goal, pose) > GoalRadius

Underway == ~reached /\ Gap(goal, pose) > GoalRadius

\* emergency_stop() fills in a message and publishes nothing.
NothingToFollow ==
    /\ Underway
    /\ ~odom \/ (queue = << >> /\ buffer = << >>)
    /\ UNCHANGED <<route, mission, command>>

\* The buffer is filled from the queue, as far as it can be.
Fill == Smaller(BufferSize - Len(buffer), Len(queue))
AheadNow == buffer \o FirstOf(queue, Fill)

\* Mutant: waypoints enter the buffer only.
UnderWayForgets == processed

UnderWayNow == processed \o FirstOf(queue, Fill)

\* Mutant: the waypoints left behind are stored oldest first.
RememberInOrder(s) == LET d == s \o deleted IN FirstOf(d, Smaller(History, Len(d)))

Remember(s) == LET d == Reverse(s) \o deleted IN FirstOf(d, Smaller(History, Len(d)))

\* A command is computed and published; the waypoints up to the last one nearer
\* than `pass` leave the buffer, those up to the last one nearer than `touch`
\* are left behind.
FollowWith(pass, touch) ==
    LET gone == LastWithin(UnderWayNow, touch)
    IN  /\ Underway
        /\ odom
        /\ queue # << >> \/ buffer # << >>
        /\ queue' = RestOf(queue, Fill)
        /\ buffer' = RestOf(AheadNow, LastWithin(AheadNow, pass))
        /\ processed' = RestOf(UnderWayNow, gone)
        /\ deleted' = Remember(FirstOf(UnderWayNow, gone))
        /\ command' = "drive"
        /\ UNCHANGED <<plan, mission>>

\* Mutant: the radii of the two purges are swapped.
FollowSwapsRadii == FollowWith(TouchRadius, PassRadius)

Follow == FollowWith(PassRadius, TouchRadius)

RunStep(c) ==
    \/ c = "brake" /\ (GoalKnown \/ ReachGoal \/ NothingToFollow)
    \/ c = "drive" /\ Follow

\* The control task; what run_step returns is dropped.
ControlTask ==
    /\ Ready
    /\ \E c \in {"brake", "drive"} : RunStep(c)
    /\ UNCHANGED <<pose, odom, planning>>

-----------------------------------------------------------------------------
\* The planning task: run_step of the driver.

BeginPlanning ==
    /\ task = "idle"
    /\ plan # 0
    /\ odom
    /\ ~reached
    /\ task' = "planning"
    /\ UNCHANGED <<route, pose, odom, mission, command, local, found, decision>>

\* The sizes are read ...
BeginLookup(s) ==
    /\ driver = "manual"
    /\ task = "planning"
    /\ task' = "sized"
    /\ local' = <<s, Len(processed), Len(queue)>>
    /\ UNCHANGED <<route, pose, odom, mission, command, found, decision>>

At(s, i) == IF i \in DOMAIN s THEN s[i] ELSE Undefined

\* Behind: the -steps-th waypoint left behind, or the oldest known.
Behind(s) ==
    LET i == -s
    IN  IF i <= Len(deleted) THEN deleted[i]
        ELSE IF deleted # << >> THEN Last(deleted)
        ELSE IF processed # << >> THEN Head(processed)
        ELSE None

\* Mutant: deques are indexed from 1.
AheadFromOne(s, inProcessed, inQueue) ==
    IF s < inProcessed THEN At(processed, s)
    ELSE IF s - inProcessed < inQueue THEN At(queue, s - inProcessed)
    ELSE IF queue # << >> THEN Last(queue)
    ELSE IF processed # << >> THEN Last(processed)
    ELSE None

\* Ahead: by the sizes read before; deques are indexed from 0.
Ahead(s, inProcessed, inQueue) ==
    IF s < inProcessed THEN At(processed, s + 1)
    ELSE IF s - inProcessed < inQueue THEN At(queue, s - inProcessed + 1)
    ELSE IF queue # << >> THEN Last(queue)
    ELSE IF processed # << >> THEN Last(processed)
    ELSE None

\* ... and the waypoint is fetched.
EndLookup ==
    /\ task = "sized"
    /\ task' = "planning"
    /\ found' = IF local[1] < 0 THEN Behind(local[1])
                ELSE Ahead(local[1], local[2], local[3])
    /\ local' = << >>
    /\ UNCHANGED <<route, pose, odom, mission, command, decision>>

\* ManualDriver::run_step ends with a run_step of the local planner, and
\* publishes what that returned.
ManualStep ==
    /\ driver = "manual"
    /\ task = "planning"
    /\ \E c \in {"brake", "drive"} : RunStep(c) /\ decision' = c
    /\ task' = "publish"
    /\ UNCHANGED <<pose, odom, local, found>>

Publish ==
    /\ task = "publish"
    /\ command' = decision
    /\ decision' = "none"
    /\ task' = "idle"
    /\ UNCHANGED <<route, pose, odom, mission, local, found>>

\* The lane change of AutoDriver::run_step: the next route, then its end as the
\* goal, in two critical sections.
ChangeLane ==
    /\ driver = "auto"
    /\ task = "planning"
    /\ plan = 1 /\ Len(Path) > 1
    /\ SetGlobalPlan(plan + 1)
    /\ task' = "goal"
    /\ UNCHANGED <<pose, odom, mission, command, local, found, decision>>

SetGoalPoint ==
    /\ task = "goal"
    /\ goal' = Last(Path[plan])
    /\ task' = "idle"
    /\ UNCHANGED <<route, pose, odom, reached, reports, command, local, found, decision>>

\* A planning step of an AutoDriver that replaces no route.
AutoStep ==
    /\ driver = "auto"
    /\ task = "planning"
    /\ task' = "idle"
    /\ UNCHANGED <<route, pose, odom, mission, command, local, found, decision>>

Next ==
    /\ UNCHANGED driver
    /\ \/ \E p \in Poses : OdometryCallback(p)
       \/ Initialize
       \/ ControlTask
       \/ BeginPlanning
       \/ \E s \in Steps : BeginLookup(s)
       \/ EndLookup
       \/ ManualStep
       \/ Publish
       \/ ChangeLane
       \/ SetGoalPoint
       \/ AutoStep

Spec == Init /\ [][Next]_vars
-----------------------------------------------------------------------------
TypeOK ==
    /\ driver \in Drivers
    /\ plan \in 0..Len(Path)
    /\ queue \in Seq(Waypoint)
    /\ buffer \in Seq(Waypoint) /\ Len(buffer) <= BufferSize
    /\ processed \in Seq(Waypoint)
    /\ deleted \in Seq(Waypoint) /\ Len(deleted) <= History
    /\ pose \in Int
    /\ odom \in BOOLEAN
    /\ goal \in Int
    /\ reached \in BOOLEAN
    /\ reports \in Nat
    /\ command \in {"none", "brake", "drive"}
    /\ task \in {"idle", "planning", "sized", "publish", "goal"}
    /\ local \in {<< >>} \cup (Int \X Nat \X Nat)
    /\ found \in Waypoint \cup {None, Undefined}
    /\ decision \in {"none", "brake", "drive"}

\* The waypoints not left behind, split over two deques, are always an
\* unbroken end of the current route: no waypoint is skipped, doubled or of an
\* older route, whatever route replaces another one and when.
Remaining == processed \o queue

RouteIsWhole == IsSuffix(Remaining, Route(plan))

\* The buffer, which decides where the vehicle steers, is an end of the
\* waypoints under way, which the lookups use, although the two are purged by
\* different radii: lookups never miss a waypoint that is still steered for.
BufferIsUnderWay == IsSuffix(buffer, processed)

\* What a lookup finds behind the vehicle is what it left behind, in order,
\* before any waypoint of an older route.
Passed == Len(Route(plan)) - Len(Remaining)

BehindIsInOrder ==
    \A i \in 1..Len(deleted) :
        IF i <= Passed THEN deleted[i] = <<plan, Passed + 1 - i>>
        ELSE deleted[i][1] # plan

\* The goal is reported exactly once, by whichever task notices it, unless the
\* driver never had a route; then it is never reported.
ReportedOnce == reached <=> (reports = 1 \/ (plan = 0 /\ Ready))

\* Once the goal is reached no run_step, of either task, moves the vehicle or
\* consumes its route any more: at most a command decided before is still
\* published, and a lane change under way still finished.
NoNewCommandAtGoal ==
    [][reached =>
          /\ command' \in {command, decision}
          /\ decision' \in {decision, "none", "brake"}
          /\ plan' = plan => processed' = processed /\ queue' = queue]_vars

\* However many waypoints are consumed between the reading of the sizes and the
\* access, a lookup ahead never returns a waypoint behind the one that was asked
\* for (it may return a later one).
AskedFor == Len(Route(plan)) - local[2] - local[3] + local[1] + 1

LookupNeverLooksBack ==
    [][task = "sized" /\ local[1] >= 0 /\ found' \in Waypoint /\ found' # found
          => found'[2] >= Smaller(AskedFor, Len(Route(plan)))]_vars

\* A lookup with nothing left returns the null pointer, any other one a
\* waypoint of the route.
LookupIsDefined == found # Undefined
=============================================================================
