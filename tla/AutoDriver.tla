------------------------------ MODULE AutoDriver ------------------------------
(***************************************************************************)
(* The driver of one vehicle and the reckless behaviour it performs:       *)
(* AutoDriver::Initialize and AutoDriver::run_step of                      *)
(* src/driver_models/src/auto_driver.cpp.                                  *)
(*                                                                         *)
(* The vehicle moves along its route; the position is the distance driven, *)
(* in metres.  run_step is executed once per planning period: between two  *)
(* executions the vehicle moves by at most MaxStep.  What the planner      *)
(* computes is left out; that it is called, and the speed it is to plan    *)
(* for, is not.  A scenario gives a vehicle one behaviour or none.         *)
(***************************************************************************)
EXTENDS Integers, Sequences, FiniteSetsExt

CONSTANTS Length,          \* of the route
          Trigger,         \* where lane_change_point or change_speed_point is
          TriggerRadius,
          Recovery,        \* where recovery_speed_point is
          RecoveryRadius,
          MaxStep,         \* the longest way between two steps
          WaitTime,        \* recovery_wait_time, in planning periods
          Late,            \* when it is too late for reckless behaviour, in periods
          Noise,           \* ... the random number added to that
          MaxTries         \* bound: the attempts that fit into the 5 s of Initialize

ASSUME DriverAssumption ==
    /\ Length \in Nat /\ Trigger \in 0..Length /\ Recovery \in 0..Length
    /\ TriggerRadius \in Nat /\ RecoveryRadius \in Nat
    /\ MaxStep \in Nat
    /\ WaitTime \in Nat /\ Late \in Nat /\ Noise \in 0..Late
    /\ MaxTries \in Nat \ {0}

Behaviours == {"none", "lane_change", "speed_abnormal", "sudden_speed_change"}

VARIABLES config,         \* the parameters that stay as the constructor sets them
          phase,          \* "init", "driving", "failed", "arrived", "undefined"
          tries,          \* the attempts of Initialize that have failed
          paths,          \* global_paths_
          route,          \* global_path_
          refused,        \* history: a request for a path has failed
          pos, clock,     \* where the vehicle is, and the time of ROS (up to Late)
          waited,         \* how long ago recovery_start_time is (up to WaitTime)
          due,            \* the next run_step is due
          lane_change, speed_abnormal, sudden_speed_change,  \* what is still to be done
          lanesChanged,   \* current_lane_change_index_
          changingLane,   \* IsChangeLanePath: the new lane is not reached yet
          change_speed,   \* the sudden speed is in force
          speed,          \* the speed planned for: "usual", "manoeuvre", "last"
          elapsed_time,   \* the normal behaviour was reported
          verdicts        \* history: the messages on /reckless_detection/result

initVars == <<tries, paths, route, refused>>
moveVars == <<pos, clock, waited>>
laneVars == <<lane_change, lanesChanged>>
speedVars == <<speed_abnormal, sudden_speed_change, change_speed>>
vars == <<config, phase, initVars, moveVars, due, laneVars, speedVars, changingLane, speed,
          elapsed_time, verdicts>>

\* What the constructor can make of a configuration: `abnormal` is forced to
\* FALSE for the scene types of normal driving, `random` tells the vehicles
\* with a random_behavior, recovery is by point or by time.
Configs == [abnormal : BOOLEAN, behaviour : Behaviours, byPoint : BOOLEAN, random : BOOLEAN]

Init ==
    /\ config \in Configs
    /\ config.behaviour # "none" => config.random
    /\ phase = "init"
    /\ tries = 0
    /\ paths = << >>
    /\ route = "null"
    /\ refused = FALSE
    /\ pos = 0 /\ clock \in 0..Late /\ waited = 0
    /\ due = FALSE
    /\ lane_change = (config.behaviour = "lane_change")
    /\ speed_abnormal = (config.behaviour = "speed_abnormal")
    /\ sudden_speed_change = (config.behaviour = "sudden_speed_change")
    /\ lanesChanged = 0
    /\ changingLane = FALSE
    /\ change_speed = FALSE
    /\ speed = "usual"
    /\ elapsed_time = FALSE
    /\ verdicts = << >>
-----------------------------------------------------------------------------
\* Mutant: the other lane is asked for first.
FoundOtherFirst(main, other) ==
    IF lane_change /\ other # "null" THEN <<other, main>> ELSE <<main>>

\* What one attempt adds to global_paths_: the route, null if the service
\* refused it, and that of the other lane, unless that was refused.
Found(main, other) ==
    IF lane_change /\ other # "null" THEN <<main, other>> ELSE <<main>>

\* One attempt to get the paths and the actor.  It ends the loop if the route
\* and the actor are there, or after 5 s.  The vehicle stands until the first
\* run_step.
Initialize ==
    /\ phase = "init"
    /\ \E main \in {"main", "null"}, other \in {"other", "null"}, actor \in BOOLEAN :
          /\ paths' = paths \o Found(main, other)
          /\ route' = main
          /\ refused' = (refused \/ main = "null" \/ (lane_change /\ other = "null"))
          /\ \/ main # "null" /\ actor /\ phase' = "driving" /\ tries' = tries /\ due' = TRUE
             \/ /\ main = "null" \/ ~actor
                /\ tries' = tries + 1
                /\ phase' = IF tries' = MaxTries THEN "failed" ELSE "init"
                /\ due' = due
    /\ UNCHANGED <<config, moveVars, laneVars, speedVars, changingLane, speed,
                   elapsed_time, verdicts>>

\* A planning period passes.
Move ==
    /\ phase = "driving"
    /\ ~due
    /\ due' = TRUE
    /\ \E d \in 0..MaxStep : pos' = Min({pos + d, Length})
    /\ clock' = Min({clock + 1, Late})
    /\ waited' = Min({waited + 1, WaitTime})
    /\ UNCHANGED <<config, phase, initVars, laneVars, speedVars, changingLane, speed,
                   elapsed_time, verdicts>>

\* The local planner reports the goal; run_step does nothing any more.
Arrive ==
    /\ phase = "driving"
    /\ pos = Length
    /\ phase' = "arrived"
    /\ UNCHANGED <<config, initVars, moveVars, due, laneVars, speedVars, changingLane, speed,
                   elapsed_time, verdicts>>
-----------------------------------------------------------------------------
\* The parts of run_step.
AtTriggerPoint == pos = Trigger  \* mutant: no area
AtTrigger == pos \in Trigger - TriggerRadius .. Trigger + TriggerRadius
AtRecovery == pos \in Recovery - RecoveryRadius .. Recovery + RecoveryRadius

\* A vehicle that drives normally is reported once, when it is late; an abnormal
\* one in the step that begins its behaviour.
Normal == ~config.abnormal /\ config.random /\ ~elapsed_time

Report(begins) ==
    \/ /\ Normal /\ clock + Noise >= Late
       /\ elapsed_time' = TRUE
       /\ verdicts' = Append(verdicts, "normal")
    \/ /\ ~(Normal /\ clock = Late)
       /\ elapsed_time' = elapsed_time
       /\ verdicts' = IF begins /\ config.abnormal THEN Append(verdicts, "reckless")
                      ELSE verdicts

\* The end of run_step, with IsChangeLanePath and the speed as left so far:
\* perhaps the vehicle is in the middle of the new lane.
DynamicRouting(changing, v) ==
    \/ changing /\ changingLane' = FALSE /\ speed' = "last"
    \/ changingLane' = changing /\ speed' = v

\* The lane was changed in an earlier step: the flag is cleared, and nothing is
\* planned in this step.
EndLaneChange ==
    /\ lane_change /\ lanesChanged >= 1
    /\ lane_change' = FALSE
    /\ Report(FALSE)
    /\ UNCHANGED <<phase, route, lanesChanged, speedVars, waited, changingLane, speed>>

HasOther == Len(paths) > 1 /\ paths[2] # "null"

ChangeLane ==
    /\ lane_change /\ lanesChanged = 0 /\ AtTrigger
    /\ HasOther
    /\ route' = paths[2]
    /\ lanesChanged' = lanesChanged + 1
    /\ Report(TRUE)
    /\ DynamicRouting(TRUE, "manoeuvre")
    /\ UNCHANGED <<phase, lane_change, speedVars, waited>>

\* global_paths_[1] does not exist, or is null and dereferenced.
ChangeLaneNowhere ==
    /\ lane_change /\ lanesChanged = 0 /\ AtTrigger
    /\ ~HasOther
    /\ phase' = "undefined"
    /\ Report(TRUE)
    /\ UNCHANGED <<route, laneVars, speedVars, waited, changingLane, speed>>

\* The speed changes for the rest of the trip.
BecomeAbnormal ==
    /\ speed_abnormal /\ AtTrigger
    /\ speed_abnormal' = FALSE
    /\ Report(TRUE)
    /\ DynamicRouting(changingLane, "manoeuvre")
    /\ UNCHANGED <<phase, route, laneVars, sudden_speed_change, change_speed, waited>>

ChangeSpeed ==
    /\ sudden_speed_change /\ ~change_speed /\ AtTrigger
    /\ change_speed' = TRUE
    /\ waited' = IF config.byPoint THEN waited ELSE 0
    /\ Report(TRUE)
    /\ DynamicRouting(changingLane, "manoeuvre")
    /\ UNCHANGED <<phase, route, laneVars, speed_abnormal, sudden_speed_change>>

Recovers == IF config.byPoint THEN AtRecovery ELSE waited >= WaitTime

\* Mutant: another change of speed may follow.
RecoverForgets ==
    /\ sudden_speed_change /\ change_speed /\ Recovers
    /\ change_speed' = FALSE
    /\ Report(FALSE)
    /\ DynamicRouting(changingLane, "last")
    /\ UNCHANGED <<phase, route, laneVars, speed_abnormal, sudden_speed_change, waited>>

\* Mutant: the speed stays.
RecoverKeepsSpeed ==
    /\ sudden_speed_change /\ change_speed /\ Recovers
    /\ change_speed' = FALSE
    /\ sudden_speed_change' = FALSE
    /\ Report(FALSE)
    /\ DynamicRouting(changingLane, speed)
    /\ UNCHANGED <<phase, route, laneVars, speed_abnormal, waited>>

RecoverSpeed ==
    /\ sudden_speed_change /\ change_speed /\ Recovers
    /\ change_speed' = FALSE
    /\ sudden_speed_change' = FALSE
    /\ Report(FALSE)
    /\ DynamicRouting(changingLane, "last")
    /\ UNCHANGED <<phase, route, laneVars, speed_abnormal, waited>>

\* Mutant: the wait begins anew in every step.
JustDriveRestarts ==
    /\ ~(lane_change /\ (lanesChanged >= 1 \/ AtTrigger))
    /\ ~(speed_abnormal /\ AtTrigger)
    /\ ~(sudden_speed_change /\ (IF change_speed THEN Recovers ELSE AtTrigger))
    /\ Report(FALSE)
    /\ DynamicRouting(changingLane, speed)
    /\ waited' = 0
    /\ UNCHANGED <<phase, route, laneVars, speedVars>>

\* Nothing begins and nothing ends.
JustDrive ==
    /\ ~(lane_change /\ (lanesChanged >= 1 \/ AtTrigger))
    /\ ~(speed_abnormal /\ AtTrigger)
    /\ ~(sudden_speed_change /\ (IF change_speed THEN Recovers ELSE AtTrigger))
    /\ Report(FALSE)
    /\ DynamicRouting(changingLane, speed)
    /\ UNCHANGED <<phase, route, laneVars, speedVars, waited>>

run_step ==
    /\ phase = "driving"
    /\ due
    /\ due' = FALSE
    /\ \/ EndLaneChange
       \/ ChangeLane
       \/ ChangeLaneNowhere
       \/ BecomeAbnormal
       \/ ChangeSpeed
       \/ RecoverSpeed
       \/ JustDrive
    /\ UNCHANGED <<config, tries, paths, refused, pos, clock>>

Done == phase \in {"failed", "arrived", "undefined"} /\ UNCHANGED vars

Next == Initialize \/ Move \/ Arrive \/ run_step \/ Done

Spec == Init /\ [][Next]_vars

\* The planning task is executed again and again (DueTaskRuns of TaskScheduler),
\* and time passes in between.
FairSpec == Spec /\ WF_vars(Initialize) /\ WF_vars(Move) /\ WF_vars(run_step)
-----------------------------------------------------------------------------
TypeOK ==
    /\ config \in Configs
    /\ phase \in {"init", "driving", "failed", "arrived", "undefined"}
    /\ tries \in 0..MaxTries
    /\ phase = "init" => tries < MaxTries
    /\ paths \in Seq({"main", "other", "null"})
    /\ route \in {"main", "other", "null"}
    /\ refused \in BOOLEAN
    /\ pos \in 0..Length /\ clock \in 0..Late /\ waited \in 0..WaitTime
    /\ due \in BOOLEAN
    /\ lane_change \in BOOLEAN /\ speed_abnormal \in BOOLEAN
    /\ sudden_speed_change \in BOOLEAN
    /\ lanesChanged \in 0..1
    /\ changingLane \in BOOLEAN /\ change_speed \in BOOLEAN
    /\ speed \in {"usual", "manoeuvre", "last"}
    /\ elapsed_time \in BOOLEAN
    /\ verdicts \in Seq({"normal", "reckless"})

\* A vehicle is reported at most once, as what it is: also if it stays in the
\* trigger area for many steps, or recovers its speed in there.
OneVerdict ==
    /\ Len(verdicts) <= 1
    /\ verdicts # << >> => verdicts[1] = IF config.abnormal THEN "reckless" ELSE "normal"

\* The trigger area is as long as the longest way between two steps: at a period of
\* 100 ms and a radius of 2 m, a speed of at most 40 m/s.
StepsAreShort == MaxStep <= 2 * TriggerRadius

\* No vehicle drives past the trigger area without beginning its behaviour
\* (run_step at the trigger), as long as StepsAreShort.
TriggerIsNotMissed ==
    phase = "driving" /\ ~due /\ pos > Trigger + TriggerRadius =>
        /\ lane_change => lanesChanged = 1
        /\ ~speed_abnormal
        /\ sudden_speed_change => change_speed

\* The manoeuvre's speed is in force while, and only while, the lane or the
\* speed is changed; after it the speed is last_cruise_speed.
SpeedFitsManoeuvre ==
    config.behaviour # "speed_abnormal" =>
        /\ (speed = "manoeuvre") = (changingLane \/ change_speed)
        /\ (speed = "usual") = (lanesChanged = 0 /\ ~change_speed
                                /\ (config.behaviour = "sudden_speed_change"
                                       => sudden_speed_change))

\* A vehicle that changed its lane is on the other lane's route, even if
\* Initialize needed several attempts for want of the actor: unless a request
\* for a path was refused.
LaneChangeIsReal == lanesChanged = 1 /\ ~refused => route = "other"

\* A vehicle that is to brake to a halt, in the trigger area, and to drive on
\* after a time does not stand for ever.  (If it is to drive on at a point, it
\* may stand before it, or jump over it: its area is shorter than a step.)
SpeedComesBack ==
    (phase = "driving" /\ change_speed /\ ~config.byPoint) ~> (~change_speed \/ phase # "driving")

\* What the proofs need besides.  A behaviour that has not begun:
ToBegin ==
    \/ lane_change /\ lanesChanged = 0
    \/ speed_abnormal
    \/ sudden_speed_change /\ ~change_speed

\* The flags are those of the configured behaviour; before the drive they are as
\* the constructor left them.
FlagsFit ==
    /\ lane_change \/ lanesChanged = 1 => config.behaviour = "lane_change"
    /\ changingLane => lanesChanged = 1
    /\ speed_abnormal => config.behaviour = "speed_abnormal"
    /\ sudden_speed_change \/ change_speed => config.behaviour = "sudden_speed_change"
    /\ change_speed => sudden_speed_change
    /\ phase = "init" => (lane_change <=> config.behaviour = "lane_change") /\ lanesChanged = 0

\* Nothing was reported before the behaviour begins, or before it is late.
VerdictIsOpen ==
    /\ config.abnormal => ~elapsed_time /\ (ToBegin /\ phase # "undefined" => verdicts = << >>)
    /\ ~config.abnormal /\ ~elapsed_time => verdicts = << >>

\* With short steps, the trigger area is ahead, or the vehicle has not left it yet.
TriggerIsAhead ==
    /\ phase = "init" => pos = 0
    /\ phase = "driving" /\ ToBegin =>
           IF due THEN pos <= Trigger + TriggerRadius ELSE pos < Trigger - TriggerRadius

\* The second path is the other lane's.
OtherIsSecond ==
    ~refused /\ config.behaviour = "lane_change" =>
        paths = << >> \/ (Len(paths) >= 2 /\ paths[2] = "other")

IInv ==
    /\ TypeOK /\ FlagsFit
    /\ OneVerdict /\ VerdictIsOpen
    /\ SpeedFitsManoeuvre
    /\ OtherIsSecond /\ LaneChangeIsReal

\* A vehicle whose initialisation is reported as complete can be steered to the
\* other lane when the trigger is reached.
LaneChangeIsDefined == phase # "undefined"
===============================================================================
