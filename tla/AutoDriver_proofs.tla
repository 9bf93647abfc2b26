-------------------------- MODULE AutoDriver_proofs --------------------------
(***************************************************************************)
(* The safety properties of AutoDriver, for every route, trigger point,    *)
(* radius and waiting time, and any motion of at most MaxStep per period.  *)
(***************************************************************************)
EXTENDS AutoDriver, TLAPS

\* The smaller of two numbers.
LEMMA MinOfTwo ==
    ASSUME NEW i \in Nat, NEW j \in Nat
    PROVE  Min({i, j}) \in {i, j} /\ Min({i, j}) <= i /\ Min({i, j}) <= j
<1>1. PICK k \in {i, j} : \A l \in {i, j} : k <= l
  OBVIOUS
<1> QED
  BY <1>1 DEF Min

\* A step of the motion.
LEMMA MoveBounds ==
    ASSUME TypeOK, Move
    PROVE  /\ pos' \in 0..Length /\ pos' <= pos + MaxStep
           /\ clock' \in 0..Late
           /\ waited' \in 0..WaitTime
<1> USE DriverAssumption DEF TypeOK
<1>1. PICK d \in 0..MaxStep : pos' = Min({pos + d, Length})
  BY DEF Move
<1>2. pos' \in {pos + d, Length} /\ pos' <= pos + d /\ pos' <= Length
  BY <1>1, MinOfTwo
<1>3. clock' \in {clock + 1, Late} /\ clock' <= Late
  BY MinOfTwo DEF Move
<1>4. waited' \in {waited + 1, WaitTime} /\ waited' <= WaitTime
  BY MinOfTwo DEF Move
<1> QED
  BY <1>1, <1>2, <1>3, <1>4

LEMMA InitIInv == Init => IInv
<1> SUFFICES ASSUME Init PROVE IInv
  OBVIOUS
<1>1. /\ lane_change \in BOOLEAN /\ (lane_change <=> config.behaviour = "lane_change")
      /\ speed_abnormal \in BOOLEAN
      /\ (speed_abnormal <=> config.behaviour = "speed_abnormal")
      /\ sudden_speed_change \in BOOLEAN
      /\ (sudden_speed_change <=> config.behaviour = "sudden_speed_change")
  BY Zenon DEF Init
<1>2. TypeOK
  <2>1. /\ config \in Configs /\ phase = "init" /\ tries = 0 /\ paths = << >>
        /\ route = "null" /\ pos = 0 /\ clock \in 0..Late /\ waited = 0
        /\ lanesChanged = 0 /\ speed = "usual" /\ verdicts = << >>
    BY DEF Init
  <2>2. /\ refused \in BOOLEAN /\ due \in BOOLEAN /\ changingLane \in BOOLEAN
        /\ change_speed \in BOOLEAN /\ elapsed_time \in BOOLEAN
    BY Zenon DEF Init
  <2> QED
    BY <1>1, <2>1, <2>2, DriverAssumption DEF TypeOK
<1>3. FlagsFit
  BY <1>1 DEF Init, FlagsFit
<1>4. OneVerdict /\ VerdictIsOpen
  BY DEF Init, OneVerdict, VerdictIsOpen
<1>5. SpeedFitsManoeuvre
  BY <1>1 DEF Init, SpeedFitsManoeuvre
<1>6. OtherIsSecond /\ LaneChangeIsReal
  BY DEF Init, OtherIsSecond, LaneChangeIsReal
<1> QED
  BY <1>2, <1>3, <1>4, <1>5, <1>6 DEF IInv

\* What is reported, and when: the facts about Report that every case needs.
LEMMA ReportFacts ==
    ASSUME TypeOK, OneVerdict, VerdictIsOpen, NEW begins \in BOOLEAN,
           begins => ToBegin /\ phase # "undefined", Report(begins)
    PROVE  /\ elapsed_time' \in BOOLEAN
           /\ verdicts' \in Seq({"normal", "reckless"})
           /\ config' = config => OneVerdict'
           /\ config.abnormal => ~elapsed_time' /\ (~begins => verdicts' = verdicts)
           /\ ~config.abnormal /\ ~elapsed_time' => verdicts' = << >>
<1> USE DEF TypeOK, Configs
<1>1. CASE Normal /\ elapsed_time' = TRUE /\ verdicts' = Append(verdicts, "normal")
  <2>1. ~config.abnormal /\ verdicts = << >>
    BY <1>1 DEF Normal, VerdictIsOpen
  <2>2. verdicts' = <<"normal">>
    BY <1>1, <2>1
  <2> QED
    BY <1>1, <2>1, <2>2 DEF OneVerdict
<1>2. CASE /\ elapsed_time' = elapsed_time
           /\ verdicts' = IF begins /\ config.abnormal THEN Append(verdicts, "reckless")
                          ELSE verdicts
  <2>1. CASE begins /\ config.abnormal
    <3>1. verdicts = << >>
      BY <2>1 DEF VerdictIsOpen
    <3>2. verdicts' = <<"reckless">>
      BY <1>2, <2>1, <3>1
    <3> QED
      BY <1>2, <2>1, <3>2 DEF OneVerdict, VerdictIsOpen
  <2>2. CASE ~(begins /\ config.abnormal)
    BY <1>2, <2>2 DEF OneVerdict, VerdictIsOpen
  <2> QED
    BY <2>1, <2>2
<1> QED
  BY <1>1, <1>2 DEF Report

\* The end of run_step leaves the lane change and the speed as they are, or ends
\* a lane change and restores the speed.
LEMMA RoutingFacts ==
    ASSUME NEW changing \in BOOLEAN, NEW v, DynamicRouting(changing, v)
    PROVE  /\ changingLane' \in BOOLEAN
           /\ changingLane' => changing
           /\ \/ changingLane' = changing /\ speed' = v
              \/ changing /\ ~changingLane' /\ speed' = "last"
<1>1. CASE changing /\ changingLane' = FALSE /\ speed' = "last"
  BY <1>1, Zenon
<1>2. CASE changingLane' = changing /\ speed' = v
  BY <1>2, Zenon
<1> QED
  BY <1>1, <1>2, Zenon DEF DynamicRouting

\* What an attempt of Initialize does to the paths.
LEMMA TwoMore ==
    ASSUME NEW S, NEW q \in Seq(S), NEW x \in S, NEW y \in S
    PROVE  /\ q \o <<x>> \in Seq(S) /\ q \o <<x, y>> \in Seq(S)
           /\ q = << >> => Len(q \o <<x, y>>) = 2 /\ (q \o <<x, y>>)[2] = y
           /\ Len(q) >= 2 => /\ Len(q \o <<x, y>>) >= 2
                             /\ (q \o <<x, y>>)[2] = q[2]
  OBVIOUS

\* The parts of run_step change what they say they change, and nothing else.
LEMMA StepTypeOK == IInv /\ [Next]_vars => TypeOK'
<1> SUFFICES ASSUME IInv, [Next]_vars PROVE TypeOK'
  OBVIOUS
<1> USE DriverAssumption DEF initVars, moveVars, laneVars, speedVars
<1>0. TypeOK /\ FlagsFit /\ OneVerdict /\ VerdictIsOpen
  BY DEF IInv
<1>1. CASE Initialize
  <2>1. PICK main \in {"main", "null"}, other \in {"other", "null"} :
            paths' = paths \o Found(main, other) /\ route' = main
    BY <1>1 DEF Initialize
  <2>2. Found(main, other) = <<main>> \/ Found(main, other) = <<main, other>>
    BY DEF Found
  <2>3. paths' \in Seq({"main", "other", "null"})
    <3>1. /\ main \in {"main", "other", "null"} /\ other \in {"main", "other", "null"}
          /\ paths \in Seq({"main", "other", "null"})
      BY <1>0, <2>1 DEF TypeOK
    <3> QED
      BY <2>1, <2>2, <3>1, TwoMore
  <2>4. refused' \in BOOLEAN
    BY <1>0, <1>1, Zenon DEF Initialize, TypeOK
  <2>5. due' \in BOOLEAN
    BY <1>0, <1>1, Zenon DEF Initialize, TypeOK
  <2>6. /\ phase' \in {"driving", "failed", "init"} /\ tries' \in 0..MaxTries
        /\ phase' = "init" => tries' < MaxTries
    BY <1>0, <1>1 DEF Initialize, TypeOK
  <2> QED
    BY <1>0, <1>1, <2>1, <2>3, <2>4, <2>5, <2>6 DEF Initialize, TypeOK
<1>2. CASE Move
  <2>1. pos' \in 0..Length /\ clock' \in 0..Late /\ waited' \in 0..WaitTime
    BY <1>0, <1>2, MoveBounds
  <2>2. due' \in BOOLEAN
    BY <1>2 DEF Move
  <2> QED
    BY <1>0, <1>2, <2>1, <2>2 DEF Move, TypeOK
<1>3. CASE Arrive
  BY <1>0, <1>3 DEF Arrive, TypeOK
<1>4. CASE run_step
  <2>1. /\ config' = config /\ tries' = tries /\ paths' = paths /\ refused' = refused
        /\ pos' = pos /\ clock' = clock /\ due' \in BOOLEAN /\ phase = "driving"
    BY <1>4, Zenon DEF run_step
  <2>2. ASSUME NEW begins \in BOOLEAN, begins => ToBegin, Report(begins)
        PROVE  elapsed_time' \in BOOLEAN /\ verdicts' \in Seq({"normal", "reckless"})
    BY <1>0, <2>1, <2>2, ReportFacts
  <2>3. CASE EndLaneChange
    BY <1>0, <2>1, <2>2, <2>3 DEF EndLaneChange, TypeOK
  <2>4. CASE ChangeLane
    <3>1. route' \in {"main", "other", "null"}
      BY <1>0, <2>4 DEF ChangeLane, HasOther, TypeOK
    <3>2. elapsed_time' \in BOOLEAN /\ verdicts' \in Seq({"normal", "reckless"})
      BY <2>2, <2>4 DEF ChangeLane, ToBegin
    <3>3. changingLane' \in BOOLEAN /\ speed' \in {"manoeuvre", "last"}
      BY <2>4, RoutingFacts DEF ChangeLane
    <3> QED
      BY <1>0, <2>1, <2>4, <3>1, <3>2, <3>3 DEF ChangeLane, TypeOK
  <2>5. CASE ChangeLaneNowhere
    BY <1>0, <2>1, <2>2, <2>5 DEF ChangeLaneNowhere, ToBegin, TypeOK
  <2>6. CASE BecomeAbnormal
    <3>1. changingLane' \in BOOLEAN /\ speed' \in {"manoeuvre", "last"}
      BY <1>0, <2>6, RoutingFacts DEF BecomeAbnormal, TypeOK
    <3> QED
      BY <1>0, <2>1, <2>2, <2>6, <3>1 DEF BecomeAbnormal, ToBegin, TypeOK
  <2>7. CASE ChangeSpeed
    <3>1. changingLane' \in BOOLEAN /\ speed' \in {"manoeuvre", "last"}
      BY <1>0, <2>7, RoutingFacts DEF ChangeSpeed, TypeOK
    <3>2. waited' \in 0..WaitTime
      BY <1>0, <2>7 DEF ChangeSpeed, TypeOK
    <3> QED
      BY <1>0, <2>1, <2>2, <2>7, <3>1, <3>2 DEF ChangeSpeed, ToBegin, TypeOK
  <2>8. CASE RecoverSpeed
    <3>1. changingLane' \in BOOLEAN /\ speed' = "last"
      BY <1>0, <2>8, RoutingFacts DEF RecoverSpeed, TypeOK
    <3> QED
      BY <1>0, <2>1, <2>2, <2>8, <3>1 DEF RecoverSpeed, TypeOK
  <2>9. CASE JustDrive
    <3>1. changingLane' \in BOOLEAN /\ speed' \in {speed, "last"}
      BY <1>0, <2>9, RoutingFacts DEF JustDrive, TypeOK
    <3> QED
      BY <1>0, <2>1, <2>2, <2>9, <3>1 DEF JustDrive, TypeOK
  <2> QED
    BY <1>4, <2>3, <2>4, <2>5, <2>6, <2>7, <2>8, <2>9 DEF run_step
<1>5. CASE UNCHANGED vars
  BY <1>0, <1>5 DEF vars, TypeOK
<1> QED
  BY <1>1, <1>2, <1>3, <1>4, <1>5 DEF Next, Done

\* Flags are only ever taken back, and only the configured behaviour has any.
LEMMA StepFlags == IInv /\ [Next]_vars => FlagsFit'
<1> SUFFICES ASSUME IInv, [Next]_vars PROVE FlagsFit'
  OBVIOUS
<1> USE DEF initVars, moveVars, laneVars, speedVars, FlagsFit
<1>0. TypeOK /\ FlagsFit
  BY DEF IInv
<1>1. CASE Initialize
  BY <1>0, <1>1 DEF Initialize
<1>2. CASE Move \/ Arrive
  BY <1>0, <1>2 DEF Move, Arrive
<1>3. CASE run_step
  <2>1. config' = config /\ phase' # "init"
    BY <1>3 DEF run_step, EndLaneChange, ChangeLane, ChangeLaneNowhere, BecomeAbnormal,
                ChangeSpeed, RecoverSpeed, JustDrive
  <2>2. CASE EndLaneChange
    <3>1. /\ lane_change /\ ~lane_change' /\ lanesChanged' = lanesChanged
          /\ changingLane' = changingLane /\ speed_abnormal' = speed_abnormal
          /\ sudden_speed_change' = sudden_speed_change /\ change_speed' = change_speed
      BY <2>2, Zenon DEF EndLaneChange
    <3> QED
      BY <1>0, <2>1, <3>1, Zenon
  <2>9. CASE ChangeLaneNowhere
    <3>1. /\ lane_change' = lane_change /\ lanesChanged' = lanesChanged
          /\ changingLane' = changingLane /\ speed_abnormal' = speed_abnormal
          /\ sudden_speed_change' = sudden_speed_change /\ change_speed' = change_speed
      BY <2>9, Zenon DEF ChangeLaneNowhere
    <3> QED
      BY <1>0, <2>1, <3>1, Zenon
  <2>3. CASE ChangeLane
    <3>1. lane_change /\ lanesChanged = 0 /\ lanesChanged' = 1
      BY <2>3 DEF ChangeLane
    <3>2. /\ lane_change' = lane_change /\ speed_abnormal' = speed_abnormal
          /\ sudden_speed_change' = sudden_speed_change /\ change_speed' = change_speed
      BY <2>3 DEF ChangeLane
    <3> QED
      BY <1>0, <2>1, <3>1, <3>2, Zenon
  <2>4. ASSUME NEW v, DynamicRouting(changingLane, v)
        PROVE  changingLane' => changingLane
    BY <1>0, <2>4, RoutingFacts DEF TypeOK
  <2>5. CASE BecomeAbnormal
    BY <1>0, <2>1, <2>4, <2>5 DEF BecomeAbnormal
  <2>6. CASE ChangeSpeed
    BY <1>0, <2>1, <2>4, <2>6 DEF ChangeSpeed
  <2>7. CASE RecoverSpeed
    BY <1>0, <2>1, <2>4, <2>7 DEF RecoverSpeed
  <2>8. CASE JustDrive
    BY <1>0, <2>1, <2>4, <2>8 DEF JustDrive
  <2> QED
    BY <1>3, <2>2, <2>3, <2>5, <2>6, <2>7, <2>8, <2>9 DEF run_step
<1>4. CASE UNCHANGED vars
  BY <1>0, <1>4 DEF vars
<1> QED
  BY <1>1, <1>2, <1>3, <1>4 DEF Next, Done

\* A behaviour begins in the step that reports it; no behaviour begins anew.
LEMMA StepVerdict == IInv /\ [Next]_vars => OneVerdict' /\ VerdictIsOpen'
<1> SUFFICES ASSUME IInv, [Next]_vars PROVE OneVerdict' /\ VerdictIsOpen'
  OBVIOUS
<1> USE DEF initVars, moveVars, laneVars, speedVars
<1>0. TypeOK /\ FlagsFit /\ OneVerdict /\ VerdictIsOpen
  BY DEF IInv
<1>1. CASE Initialize \/ Move \/ Arrive
  <2>1. /\ config' = config /\ verdicts' = verdicts /\ elapsed_time' = elapsed_time
        /\ ToBegin' = ToBegin /\ phase # "undefined"
    BY <1>1 DEF Initialize, Move, Arrive, ToBegin
  <2> QED
    BY <1>0, <2>1 DEF OneVerdict, VerdictIsOpen
<1>2. CASE run_step
  <2>1. config' = config /\ phase = "driving"
    BY <1>2 DEF run_step
  <2>2. ASSUME Report(FALSE), ToBegin' => ToBegin
        PROVE  OneVerdict' /\ VerdictIsOpen'
    <3>1. OneVerdict' /\ (config.abnormal => ~elapsed_time' /\ verdicts' = verdicts)
          /\ (~config.abnormal /\ ~elapsed_time' => verdicts' = << >>)
      BY <1>0, <2>1, <2>2, ReportFacts
    <3> QED
      BY <1>0, <2>1, <2>2, <3>1 DEF VerdictIsOpen
  <2>3. ASSUME Report(TRUE), ToBegin, ~ToBegin' \/ phase' = "undefined"
        PROVE  OneVerdict' /\ VerdictIsOpen'
    <3>1. OneVerdict' /\ (config.abnormal => ~elapsed_time')
          /\ (~config.abnormal /\ ~elapsed_time' => verdicts' = << >>)
      BY <1>0, <2>1, <2>3, ReportFacts
    <3> QED
      BY <1>0, <2>1, <2>3, <3>1 DEF VerdictIsOpen
  <2>4. CASE EndLaneChange \/ RecoverSpeed \/ JustDrive
    BY <2>2, <2>4 DEF EndLaneChange, RecoverSpeed, JustDrive, ToBegin
  <2>5. CASE ChangeLane
    <3>1. Report(TRUE) /\ ToBegin
      BY <2>5 DEF ChangeLane, ToBegin
    <3>2. ~speed_abnormal' /\ ~sudden_speed_change'
      BY <1>0, <2>5 DEF ChangeLane, FlagsFit
    <3>3. lanesChanged' = 1
      BY <2>5 DEF ChangeLane
    <3> QED
      BY <2>3, <3>1, <3>2, <3>3 DEF ToBegin
  <2>6. CASE ChangeLaneNowhere
    BY <2>3, <2>6 DEF ChangeLaneNowhere, ToBegin
  <2>7. CASE BecomeAbnormal \/ ChangeSpeed
    BY <1>0, <2>3, <2>7 DEF BecomeAbnormal, ChangeSpeed, ToBegin, FlagsFit
  <2> QED
    BY <1>2, <2>4, <2>5, <2>6, <2>7 DEF run_step
<1>3. CASE UNCHANGED vars
  BY <1>0, <1>3 DEF vars, OneVerdict, VerdictIsOpen, ToBegin
<1> QED
  BY <1>1, <1>2, <1>3 DEF Next, Done


\* Between two steps the vehicle covers at most the length of the trigger area: it
\* cannot be before it at one step and beyond it at the next.
LEMMA StepTrigger ==
    ASSUME StepsAreShort, IInv, TriggerIsAhead, [Next]_vars
    PROVE  TriggerIsAhead'
<1> USE DriverAssumption DEF initVars, moveVars, laneVars, speedVars, StepsAreShort
<1>0. TypeOK /\ FlagsFit /\ TriggerIsAhead
  BY DEF IInv
<1>1. CASE Initialize
  <2>1. pos' = 0 /\ (phase' = "driving" => due')
    BY <1>0, <1>1, Zenon DEF Initialize, TriggerIsAhead
  <2> QED
    BY <2>1 DEF TriggerIsAhead
<1>2. CASE Move
  <2>1. phase = "driving" /\ phase' = phase /\ ~due /\ due' /\ ToBegin' = ToBegin
    BY <1>2 DEF Move, ToBegin
  <2>2. pos' \in 0..Length /\ pos' <= pos + MaxStep
    BY <1>0, <1>2, MoveBounds
  <2>3. ToBegin => pos < Trigger - TriggerRadius
    BY <1>0, <2>1 DEF TriggerIsAhead
  <2>4. ToBegin => pos' <= Trigger + TriggerRadius
    BY <1>0, <2>2, <2>3 DEF TypeOK
  <2> QED
    BY <2>1, <2>4 DEF TriggerIsAhead
<1>3. CASE Arrive
  BY <1>3 DEF Arrive, TriggerIsAhead
<1>4. CASE run_step
  <2>1. phase = "driving" /\ due /\ ~due' /\ pos' = pos
    BY <1>4 DEF run_step
  <2>2. ToBegin => pos <= Trigger + TriggerRadius
    BY <1>0, <2>1 DEF TriggerIsAhead
  <2>3. ToBegin /\ ~AtTrigger => pos < Trigger - TriggerRadius
    BY <1>0, <2>2 DEF AtTrigger, TypeOK
  <2>0. phase' # "init"
    BY <1>4 DEF run_step, EndLaneChange, ChangeLane, ChangeLaneNowhere, BecomeAbnormal,
                ChangeSpeed, RecoverSpeed, JustDrive
  <2>4. SUFFICES ASSUME phase' = "driving", ToBegin' PROVE ToBegin /\ ~AtTrigger
    BY <2>0, <2>1, <2>3 DEF TriggerIsAhead
  <2>5. CASE EndLaneChange
    BY <1>0, <2>4, <2>5 DEF EndLaneChange, ToBegin, FlagsFit
  <2>6. CASE ChangeLane
    <3>1. ~speed_abnormal' /\ ~sudden_speed_change' /\ lanesChanged' = 1
      BY <1>0, <2>6 DEF ChangeLane, FlagsFit
    <3> QED
      BY <2>4, <3>1 DEF ToBegin
  <2>7. CASE ChangeLaneNowhere
    BY <2>4, <2>7 DEF ChangeLaneNowhere
  <2>8. CASE BecomeAbnormal \/ ChangeSpeed
    BY <1>0, <2>4, <2>8 DEF BecomeAbnormal, ChangeSpeed, ToBegin, FlagsFit
  <2>9. CASE RecoverSpeed
    BY <1>0, <2>4, <2>9 DEF RecoverSpeed, ToBegin, FlagsFit
  <2>10. CASE JustDrive
    BY <1>0, <2>4, <2>10 DEF JustDrive, ToBegin, TypeOK
  <2> QED
    BY <1>4, <2>5, <2>6, <2>7, <2>8, <2>9, <2>10 DEF run_step
<1>5. CASE UNCHANGED vars
  BY <1>0, <1>5 DEF vars, TriggerIsAhead, ToBegin
<1> QED
  BY <1>1, <1>2, <1>3, <1>4, <1>5 DEF Next, Done

\* The speed is the manoeuvre's exactly while the lane or the speed is changed.
LEMMA StepSpeed == IInv /\ [Next]_vars => SpeedFitsManoeuvre'
<1> SUFFICES ASSUME IInv, [Next]_vars PROVE SpeedFitsManoeuvre'
  OBVIOUS
<1> USE DEF initVars, moveVars, laneVars, speedVars
<1>0. TypeOK /\ FlagsFit /\ SpeedFitsManoeuvre
  BY DEF IInv
<1>1. CASE Initialize \/ Move \/ Arrive
  BY <1>0, <1>1 DEF Initialize, Move, Arrive, SpeedFitsManoeuvre
<1>2. CASE run_step
  <2>1. config' = config
    BY <1>2 DEF run_step
  <2>2. SUFFICES ASSUME config.behaviour # "speed_abnormal"
        PROVE  /\ (speed' = "manoeuvre") <=> (changingLane' \/ change_speed')
               /\ (speed' = "usual") <=> (lanesChanged' = 0 /\ ~change_speed'
                                          /\ (config.behaviour = "sudden_speed_change"
                                                 => sudden_speed_change'))
    BY <2>1 DEF SpeedFitsManoeuvre
  <2>3. /\ (speed = "manoeuvre") <=> (changingLane \/ change_speed)
        /\ (speed = "usual") <=> (lanesChanged = 0 /\ ~change_speed
                                  /\ (config.behaviour = "sudden_speed_change"
                                         => sudden_speed_change))
    BY <1>0, <2>2 DEF SpeedFitsManoeuvre
  <2>4. CASE EndLaneChange \/ ChangeLaneNowhere
    <3>1. /\ speed' = speed /\ changingLane' = changingLane /\ lanesChanged' = lanesChanged
          /\ change_speed' = change_speed /\ sudden_speed_change' = sudden_speed_change
      BY <2>4 DEF EndLaneChange, ChangeLaneNowhere
    <3> QED
      BY <2>3, <3>1, Zenon
  <2>5. CASE ChangeLane
    <3>1. lanesChanged' = 1 /\ ~change_speed'
      BY <1>0, <2>5 DEF ChangeLane, FlagsFit
    <3>2. (changingLane' /\ speed' = "manoeuvre") \/ (~changingLane' /\ speed' = "last")
      BY <2>5, Zenon DEF ChangeLane, DynamicRouting
    <3>3. lanesChanged' # 0 /\ "manoeuvre" # "last" /\ "manoeuvre" # "usual" /\ "last" # "usual"
      BY <3>1
    <3> QED
      BY <3>1, <3>2, <3>3, Zenon
  <2>6. CASE BecomeAbnormal
    BY <1>0, <2>2, <2>6 DEF BecomeAbnormal, FlagsFit
  <2>7. CASE ChangeSpeed
    <3>1. /\ change_speed' /\ config.behaviour = "sudden_speed_change"
          /\ lanesChanged' = lanesChanged
      BY <1>0, <2>7 DEF ChangeSpeed, FlagsFit
    <3>2. lanesChanged = 0 /\ ~changingLane
      BY <1>0, <3>1 DEF FlagsFit, TypeOK
    <3>3. speed' = "manoeuvre"
      BY <2>7, <3>2 DEF ChangeSpeed, DynamicRouting
    <3> QED
      BY <3>1, <3>3
  <2>8. CASE RecoverSpeed
    <3>1. /\ ~change_speed' /\ ~sudden_speed_change'
          /\ config.behaviour = "sudden_speed_change" /\ lanesChanged' = lanesChanged
      BY <1>0, <2>8 DEF RecoverSpeed, FlagsFit
    <3>2. ~changingLane
      BY <1>0, <3>1 DEF FlagsFit
    <3>3. speed' = "last" /\ ~changingLane'
      BY <2>8, <3>2 DEF RecoverSpeed, DynamicRouting
    <3> QED
      BY <3>1, <3>3
  <2>9. CASE JustDrive
    <3>1. /\ lanesChanged' = lanesChanged /\ change_speed' = change_speed
          /\ sudden_speed_change' = sudden_speed_change
      BY <2>9, Zenon DEF JustDrive
    <3>2. CASE changingLane /\ ~changingLane' /\ speed' = "last"
      <4>1. lanesChanged = 1 /\ config.behaviour = "lane_change" /\ ~change_speed
        BY <1>0, <3>2 DEF FlagsFit
      <4>2. lanesChanged' # 0 /\ "manoeuvre" # "last" /\ "last" # "usual"
        BY <3>1, <4>1
      <4> QED
        BY <3>1, <3>2, <4>1, <4>2, Zenon
    <3>3. CASE changingLane' = changingLane /\ speed' = speed
      BY <2>3, <3>1, <3>3, Zenon
    <3> QED
      BY <2>9, <3>2, <3>3, Zenon DEF JustDrive, DynamicRouting
  <2> QED
    BY <1>2, <2>4, <2>5, <2>6, <2>7, <2>8, <2>9 DEF run_step
<1>3. CASE UNCHANGED vars
  BY <1>0, <1>3 DEF vars, SpeedFitsManoeuvre
<1> QED
  BY <1>1, <1>2, <1>3 DEF Next, Done

\* The attempts of Initialize keep the other lane's path second, unless a path was
\* refused: the lane is changed to it.
LEMMA StepLane == IInv /\ [Next]_vars => OtherIsSecond' /\ LaneChangeIsReal'
<1> SUFFICES ASSUME IInv, [Next]_vars PROVE OtherIsSecond' /\ LaneChangeIsReal'
  OBVIOUS
<1> USE DEF initVars, moveVars, laneVars, speedVars
<1>0. TypeOK /\ FlagsFit /\ OtherIsSecond /\ LaneChangeIsReal
  BY DEF IInv
<1>1. CASE Initialize
  <2>1. PICK main \in {"main", "null"}, other \in {"other", "null"} :
            /\ paths' = paths \o Found(main, other)
            /\ refused' = (refused \/ main = "null" \/ (lane_change /\ other = "null"))
    BY <1>1 DEF Initialize
  <2>2. config' = config /\ lanesChanged' = lanesChanged /\ lanesChanged = 0 /\ phase = "init"
    BY <1>0, <1>1 DEF Initialize, FlagsFit
  <2>3. ASSUME ~refused', config.behaviour = "lane_change"
        PROVE  Len(paths') >= 2 /\ paths'[2] = "other"
    <3>1. lane_change
      BY <1>0, <2>2, <2>3 DEF FlagsFit
    <3>2. ~refused /\ main = "main" /\ other = "other"
      BY <2>1, <2>3, <3>1
    <3>3. paths' = paths \o <<"main", "other">>
      BY <2>1, <3>1, <3>2 DEF Found
    <3>4. paths = << >> \/ (Len(paths) >= 2 /\ paths[2] = "other")
      BY <1>0, <2>3, <3>2 DEF OtherIsSecond
    <3>5. /\ paths \in Seq({"main", "other", "null"})
          /\ "main" \in {"main", "other", "null"} /\ "other" \in {"main", "other", "null"}
      BY <1>0 DEF TypeOK
    <3> QED
      BY <3>3, <3>4, <3>5, TwoMore
  <2> QED
    BY <2>2, <2>3 DEF OtherIsSecond, LaneChangeIsReal
<1>2. CASE Move \/ Arrive
  BY <1>0, <1>2 DEF Move, Arrive, OtherIsSecond, LaneChangeIsReal
<1>3. CASE run_step
  <2>1. config' = config /\ paths' = paths /\ refused' = refused
    BY <1>3 DEF run_step
  <2>2. OtherIsSecond'
    BY <1>0, <2>1 DEF OtherIsSecond
  <2>3. CASE ChangeLane
    <3>1. config.behaviour = "lane_change" /\ route' = paths[2] /\ Len(paths) > 1
      BY <1>0, <2>3 DEF ChangeLane, HasOther, FlagsFit
    <3>2. ~refused => paths[2] = "other"
      BY <1>0, <3>1 DEF OtherIsSecond
    <3> QED
      BY <2>1, <2>2, <3>1, <3>2 DEF LaneChangeIsReal
  <2>4. CASE ~ChangeLane
    <3>1. route' = route /\ lanesChanged' = lanesChanged
      BY <1>3, <2>4 DEF run_step, EndLaneChange, ChangeLaneNowhere, BecomeAbnormal,
                        ChangeSpeed, RecoverSpeed, JustDrive
    <3> QED
      BY <1>0, <2>1, <2>2, <3>1 DEF LaneChangeIsReal
  <2> QED
    BY <2>3, <2>4
<1>4. CASE UNCHANGED vars
  BY <1>0, <1>4 DEF vars, OtherIsSecond, LaneChangeIsReal
<1> QED
  BY <1>1, <1>2, <1>3, <1>4 DEF Next, Done

THEOREM SpecIInv == Spec => []IInv
<1>1. IInv /\ [Next]_vars => IInv'
  BY StepTypeOK, StepFlags, StepVerdict, StepSpeed, StepLane DEF IInv
<1> QED
  BY InitIInv, <1>1, PTL DEF Spec

\* The values that a vehicle's state takes.
THEOREM TypeCorrect == Spec => []TypeOK
<1>1. IInv => TypeOK
  BY DEF IInv
<1> QED
  BY SpecIInv, <1>1, PTL

\* Each vehicle is reported at most once, as what it was configured to be.
THEOREM ReportedOnce == Spec => []OneVerdict
<1>1. IInv => OneVerdict
  BY DEF IInv
<1> QED
  BY SpecIInv, <1>1, PTL

\* A trigger area that is at least as long as the longest way between two steps is
\* not missed.
THEOREM NoTriggerIsMissed == StepsAreShort => (Spec => []TriggerIsNotMissed)
<1> SUFFICES ASSUME StepsAreShort PROVE Spec => []TriggerIsNotMissed
  OBVIOUS
<1>1. Init => TriggerIsAhead
  BY DEF Init, TriggerIsAhead
<1>2. IInv /\ TriggerIsAhead /\ [Next]_vars => TriggerIsAhead'
  BY StepTrigger
<1>3. IInv /\ TriggerIsAhead => TriggerIsNotMissed
  <2>1. SUFFICES ASSUME IInv, TriggerIsAhead,
                        phase = "driving", ~due, pos > Trigger + TriggerRadius
                 PROVE  ~ToBegin /\ (lanesChanged = 0 \/ lanesChanged = 1)
    BY DEF TriggerIsNotMissed, ToBegin
  <2>2. TypeOK
    BY <2>1 DEF IInv
  <2>3. ToBegin => pos < Trigger - TriggerRadius
    BY <2>1 DEF TriggerIsAhead
  <2> QED
    BY <2>1, <2>2, <2>3, DriverAssumption DEF TypeOK
<1> QED
  BY SpecIInv, <1>1, <1>2, <1>3, PTL DEF Spec

\* The speed of the manoeuvre ends with the manoeuvre.
THEOREM SpeedFits == Spec => []SpeedFitsManoeuvre
<1>1. IInv => SpeedFitsManoeuvre
  BY DEF IInv
<1> QED
  BY SpecIInv, <1>1, PTL

\* A lane change leads to the other lane, however often the actor was waited for.
THEOREM LaneIsChanged == Spec => []LaneChangeIsReal
<1>1. IInv => LaneChangeIsReal
  BY DEF IInv
<1> QED
  BY SpecIInv, <1>1, PTL
=============================================================================
