----------------------- MODULE BehaviorIdentification -----------------------
(***************************************************************************)
(* The node that names what the vehicles do wrong,                         *)
(* src/behavior_identification/src/identification.cpp.                     *)
(*                                                                         *)
(* One thread handles the vehicles' trajectories, the phases of the        *)
(* traffic lights and the changes of the scenario, in the order in which   *)
(* they come.  Every trajectory message ends in IdentificationOutput,      *)
(* which runs the channels and enters what they find on a panel.           *)
(*                                                                         *)
(* The road is a line of places in the direction of travel; a stop line is *)
(* a place; a speed is Standing, Slow or Normal.  A time stamp is modelled *)
(* by its age, which stops at the first one past the limit it is compared  *)
(* with; a zero stamp is as old as can be.  A map of the code is a         *)
(* function whose domain are its keys.                                     *)
(***************************************************************************)
EXTENDS Integers, Sequences, FiniteSets, SequencesExt

CONSTANTS Vehicles,            \* ids of vehicles
          Configs,             \* the configurations to consider
          QueueSize,           \* abnormal_history_max_size
          Grace,               \* global_startup_grace_time
          Gap,                 \* strict_traffic_light_msg_timeout
          MinCount,            \* min_continuous_light_msg_count
          EvidenceTimeout,     \* signal_evidence_timeout
          CacheTimeout,        \* light_state_cache_timeout
          SlowDuration,        \* slow_speed_duration
          SlowStartup,         \* slow_startup_grace_time
          HoldTime,            \* slow_red_light_braking_hold_time
          ValidPoses,          \* 5: more than so many make a trajectory valid
          SlowPoses,           \* slow_min_pose_count
          LowWindow,           \* samples in slow_speed_duration
          BrakeWindow,         \* samples in slow_red_light_braking_window
          FrontDistance,       \* slow_front_check_distance
          WaitDistance,        \* slow_red_light_wait_stop_line_distance
          BrakeDistance,       \* slow_red_light_braking_stop_line_distance
          Margin               \* spawn_intersection_bbox_margin


Standing == 0
Slow == 1
Normal == 2

RedLight == "Running Red Light"
YellowLight == "Running Yellow Light"
AbnormallySlow == "Abnormally Slow Driving"
FailToYield == "Left Turn Fail To Yield Straight"
Red == {<<v, RedLight>> : v \in Vehicles}

ASSUME IdentificationAssumption ==
    /\ {Gap, EvidenceTimeout, CacheTimeout, HoldTime, QueueSize} \subseteq Nat
    /\ {Grace, SlowStartup, SlowDuration, MinCount} \subseteq Nat \ {0}
    /\ \A c \in Configs : c.shapes \cap {RedLight, YellowLight, AbnormallySlow, FailToYield} = {}

VARIABLES config,        \* g_config: useScene, enableRed, enableSlow, enableLty, and
                         \* shapes, the verdicts that rest on a trajectory's shape alone
          scene_type,    \* g_scene_type
          \* g_fixed_stop_lines, the index is the id:
          stop_lines,    \* [at, state, stateAge, passAge, control]
          active,        \* g_signalized_intersection_active
          evidenceAge,   \* of g_last_signal_evidence_stamp
          lightAge,      \* of g_last_light_msg_stamp
          lightCount,    \* g_continuous_light_msg_count, up to MinCount
          startAge,      \* of g_identification_start_time; -1 if not initialized
          last_valid_states,   \* trajectories: [poses, birth, at, speeds, moved]
          birth_pos, last_pos, spawned_inside, checked,    \* maps and sets of vehicles
          slow_ready, first_seen, slow_begin, suppression, \* ... ages of their stamps
          lty_reported_pairs,
          history_queue, history_dedup,
          shown          \* history: what was put on the panel since the reset

lightVars == <<stop_lines, active, evidenceAge, lightAge, lightCount>>
crossingVars == <<last_pos, spawned_inside, checked>>
slowVars == <<slow_ready, first_seen, slow_begin, suppression>>
panelVars == <<history_queue, history_dedup, shown>>
channelVars == <<crossingVars, slowVars, lty_reported_pairs>>
vars == <<config, scene_type, lightVars, startAge, last_valid_states, birth_pos,
          channelVars, panelVars>>

NoMap == [v \in {} |-> 0]
Never(timeout) == timeout + 1

Init ==
    /\ config \in Configs
    /\ scene_type \in {"tl_intersection", "other"}
    /\ stop_lines = << >> /\ active = FALSE /\ evidenceAge = Never(EvidenceTimeout)
    /\ lightAge = Never(Gap) /\ lightCount = 0
    /\ startAge = -1
    /\ last_valid_states = NoMap
    /\ birth_pos = NoMap /\ last_pos = NoMap /\ spawned_inside = {} /\ checked = {}
    /\ slow_ready = {} /\ first_seen = NoMap /\ slow_begin = NoMap /\ suppression = NoMap
    /\ lty_reported_pairs = {}
    /\ history_queue = {} /\ history_dedup = {} /\ shown = {}

Allowed == config.useScene => scene_type = "tl_intersection"
-----------------------------------------------------------------------------
(***************************************************************************)
(* The panel.  An item that was entered once is not entered again; when    *)
(* the queue overflows the oldest items leave it (which these are is left  *)
(* open here), but are still remembered in history_dedup.                  *)
(***************************************************************************)

WithoutRed(S) == S \ Red

\* Mutant: only what is still on the panel is remembered.
AddAbnormalHistoryOfQueue(found, queue, dedup) ==
    LET new == found \ queue
    IN  /\ history_dedup' = dedup \cup found
        /\ history_queue' \in
              IF Cardinality(queue \cup new) <= QueueSize THEN {queue \cup new}
              ELSE {q \in SUBSET (queue \cup new) : Cardinality(q) = QueueSize}
        /\ shown' = shown \cup new

AddAbnormalHistory(found, queue, dedup) ==
    LET new == found \ dedup
    IN  /\ history_dedup' = dedup \cup found
        /\ history_queue' \in
              IF Cardinality(queue \cup new) <= QueueSize THEN {queue \cup new}
              ELSE {q \in SUBSET (queue \cup new) : Cardinality(q) = QueueSize}
        /\ shown' = shown \cup new

RemoveRed ==
    /\ history_queue' = WithoutRed(history_queue)
    /\ history_dedup' = WithoutRed(history_dedup)
    /\ UNCHANGED shown
-----------------------------------------------------------------------------
(***************************************************************************)
(* Traffic lights.  A message is a sequence of phases [at, state].         *)
(***************************************************************************)

PassStates == {"green", "yellow"}
KnownStates == PassStates \cup {"red"}
LightStates == KnownStates \cup {"unknown"}

\* ShouldTreatLineAsSignalControlled, at the time of a message.
SignalControlled(state, passAge) ==
    /\ state \in KnownStates
    /\ IF config.useScene THEN Allowed ELSE passAge <= EvidenceTimeout

Line(phase, oldPassAge) ==
    LET passAge == IF phase.state \in PassStates THEN 0 ELSE oldPassAge
    IN  [at |-> phase.at, state |-> phase.state, stateAge |-> 0, passAge |-> passAge,
         control |-> SignalControlled(phase.state, passAge)]

\* The phases of lines that are not known yet, in the order of the message.
NewPhases(msg) == {j \in DOMAIN msg : \A i \in DOMAIN stop_lines : stop_lines[i].at # msg[j].at}
InOrder(phases) == {order \in [1..Cardinality(phases) -> phases] :
                       \A j, k \in 1..Cardinality(phases) : j < k => order[j] < order[k]}

StopLinesWith(msg, order) ==
    LET phaseAt(p) == CHOOSE i \in DOMAIN msg : msg[i].at = p
        listed(p) == \E i \in DOMAIN msg : msg[i].at = p
        refreshed == [i \in DOMAIN stop_lines |->
            IF listed(stop_lines[i].at)
            THEN Line(msg[phaseAt(stop_lines[i].at)], stop_lines[i].passAge)
            ELSE stop_lines[i]]
    IN  refreshed \o [i \in DOMAIN order |-> Line(msg[order[i]], Never(EvidenceTimeout))]

ClearSignalCache ==
    /\ stop_lines' = << >>
    /\ active' = FALSE
    /\ evidenceAge' = Never(EvidenceTimeout)

LightsOfNoSignalizedScene ==
    /\ ~Allowed
    /\ ClearSignalCache
    /\ lightAge' = Never(Gap) /\ lightCount' = 0
    /\ RemoveRed

EmptyLights(msg) ==
    /\ Allowed /\ msg = << >>
    /\ ClearSignalCache
    /\ lightAge' = 0 /\ lightCount' = 0
    /\ RemoveRed

CountAfter == IF lightAge > Gap THEN 1
              ELSE IF lightCount < MinCount THEN lightCount + 1 ELSE MinCount

HasPass(msg) == \E i \in DOMAIN msg : msg[i].state \in PassStates

\* HasRecentPassEvidenceInCachedStopLines
RecentPass == \E i \in DOMAIN stop_lines : stop_lines[i].passAge <= EvidenceTimeout

NotWorking(msg) == ~config.useScene /\ ~HasPass(msg) /\ ~RecentPass

LightsNotWorking(msg) ==
    /\ Allowed /\ msg # << >> /\ NotWorking(msg)
    /\ ClearSignalCache
    /\ lightAge' = 0 /\ lightCount' = CountAfter
    /\ RemoveRed

LightsWork(msg) ==
    /\ Allowed /\ msg # << >> /\ ~NotWorking(msg)
    /\ \E order \in InOrder(NewPhases(msg)) : stop_lines' = StopLinesWith(msg, order)
    /\ active' = IF config.useScene THEN \E i \in DOMAIN msg : msg[i].state \in KnownStates
                 ELSE HasPass(msg) \/ (active /\ evidenceAge <= EvidenceTimeout)
    /\ evidenceAge' = IF (config.useScene /\ active') \/ (~config.useScene /\ HasPass(msg))
                      THEN 0 ELSE evidenceAge
    /\ lightAge' = 0 /\ lightCount' = CountAfter
    /\ UNCHANGED panelVars

TrafficLightCallback(msg) ==
    /\ \/ LightsOfNoSignalizedScene
       \/ EmptyLights(msg)
       \/ LightsNotWorking(msg)
       \/ LightsWork(msg)
    /\ UNCHANGED <<config, scene_type, startAge, last_valid_states, birth_pos, channelVars>>
-----------------------------------------------------------------------------
(***************************************************************************)
(* STChannelIdentify: running a red or a yellow light.                     *)
(***************************************************************************)

\* Mutant: lights of which nothing is heard any more are believed.
GateOpenInSilence ==
    /\ Allowed
    /\ config.useScene \/ (lightCount >= MinCount /\ active)

\* Scene mode trusts the scene; otherwise the messages have to be continuous
\* and one of their lights has to have passed somebody.
GateOpen ==
    /\ Allowed
    /\ config.useScene \/ (lightAge <= Gap /\ lightCount >= MinCount /\ active)

STClosed == config.enableRed /\ ~GateOpen

\* The simulator's lights 1 and 3 stand for each other.
Source(i) == IF i = 2 THEN 4 ELSE IF i = 4 THEN 2 ELSE i

InsideIntersection(p) ==
    /\ Len(stop_lines) >= 2
    /\ \E i \in DOMAIN stop_lines : p >= stop_lines[i].at - Margin
    /\ \E i \in DOMAIN stop_lines : p <= stop_lines[i].at + Margin

\* The places of birth are those known after the message's were entered.
Inside(states) ==
    spawned_inside \cup
    {v \in DOMAIN states : v \in DOMAIN birth_pos' /\ InsideIntersection(birth_pos'[v])}

\* The lines v has crossed since it was last looked at, whose light is known.
CrossCandidates(v, states) ==
    {i \in DOMAIN stop_lines :
        /\ last_pos[v] < states[v].at
        /\ last_pos[v] <= stop_lines[i].at /\ stop_lines[i].at <= states[v].at
        /\ Source(i) \in DOMAIN stop_lines
        /\ stop_lines[Source(i)].control
        /\ stop_lines[Source(i)].state \in KnownStates
        /\ stop_lines[Source(i)].stateAge <= CacheTimeout}

Crossing(states) ==
    {v \in (DOMAIN states \cap DOMAIN last_pos) \ (Inside(states) \cup checked) :
        CrossCandidates(v, states) # {}}

\* The best score decides, or a light that lets pass and scores nearly as well.
\* The scores are lateral distances, which are left out: any candidate may be it.
Selections(states) ==
    {selected \in [Crossing(states) -> DOMAIN stop_lines] :
        \A v \in Crossing(states) : selected[v] \in CrossCandidates(v, states)}

CrossedAt(state, selected) ==
    {v \in DOMAIN selected : stop_lines[Source(selected[v])].state = state}

Judging(states) ==
    config.enableRed /\ GateOpen /\ stop_lines # << >> /\ DOMAIN states # {}

LightVerdicts(states, selected) ==
    IF Judging(states)
    THEN {<<v, RedLight>> : v \in CrossedAt("red", selected)}
         \cup {<<v, YellowLight>> : v \in CrossedAt("yellow", selected)}
    ELSE {}

STSkips(states) ==
    /\ ~STClosed /\ ~Judging(states)
    /\ UNCHANGED <<lightVars, crossingVars>>

STCloses ==
    /\ STClosed
    /\ ClearSignalCache
    /\ lightAge' = IF Allowed THEN lightAge ELSE Never(Gap)
    /\ lightCount' = IF Allowed /\ lightAge > Gap THEN lightCount ELSE 0
    /\ UNCHANGED crossingVars

STJudges(states) ==
    /\ Judging(states)
    /\ spawned_inside' = Inside(states)
    /\ checked' = checked \cup Crossing(states)
    /\ last_pos' = [v \in DOMAIN last_pos \cup DOMAIN states |->
                       IF v \in DOMAIN states THEN states[v].at ELSE last_pos[v]]
    /\ UNCHANGED lightVars

STChannelIdentify(states) == STSkips(states) \/ STCloses \/ STJudges(states)
-----------------------------------------------------------------------------
(***************************************************************************)
(* ATChannelIdentify: driving abnormally slowly.  It looks at the stop     *)
(* lines that STChannelIdentify has left.                                  *)
(***************************************************************************)

Speed(v, states) == Last(states[v].speeds)
Recent(v, states, n) ==
    LET s == states[v].speeds IN {s[i] : i \in {j \in DOMAIN s : j > Len(s) - n}}

\* HasVehicleAheadForSlowCheck
VehicleAhead(v, states) ==
    \E u \in DOMAIN states :
        states[u].at > states[v].at /\ states[u].at - states[v].at < FrontDistance

\* IsBeforeStopLineForSlowCheck
BeforeStopLine(v, states, lines, distance) ==
    \E i \in DOMAIN lines :
        lines[i].at >= states[v].at /\ lines[i].at - states[v].at <= distance

\* HasContinuousLowSpeedInRecentWindow, HasSustainedZeroSpeedInRecentWindow
LowForLong(v, states) ==
    Len(states[v].speeds) >= LowWindow /\ Normal \notin Recent(v, states, LowWindow)
StandingForLong(v, states) ==
    Len(states[v].speeds) >= LowWindow /\ Recent(v, states, LowWindow) = {Standing}

AtNormalSpeed(states) == {v \in DOMAIN states : Speed(v, states) = Normal}
Considered(states) == (DOMAIN states \cap slow_ready) \ AtNormalSpeed(states)

\* HasEnoughObservationForSlowCheck
Observed(states) ==
    {v \in Considered(states) :
        /\ v \in DOMAIN first_seen /\ first_seen[v] >= SlowStartup
        /\ states[v].poses >= SlowPoses
        /\ states[v].moved}

\* HasRecentBrakingForSlowSuppression before a stop line.  Whether a vehicle
\* that is Slow after having been Normal has lost enough speed is open.
Braking(states, lines, lost) ==
    {v \in Observed(states) :
        /\ BeforeStopLine(v, states, lines, BrakeDistance)
        /\ Normal \in Recent(v, states, BrakeWindow)
        /\ Speed(v, states) = Standing \/ v \in lost}

Held(states, lines, lost) ==
    {v \in Observed(states) \ Braking(states, lines, lost) :
        /\ v \in DOMAIN suppression /\ suppression[v] <= HoldTime
        /\ BeforeStopLine(v, states, lines, BrakeDistance)}

SlowNow(states, lines, lost) ==
    {v \in Observed(states) \ (Braking(states, lines, lost) \cup Held(states, lines, lost)) :
        /\ LowForLong(v, states) /\ ~StandingForLong(v, states)
        /\ ~VehicleAhead(v, states)
        /\ ~BeforeStopLine(v, states, lines, WaitDistance)}

SlowVerdicts(states, lines, lost) ==
    IF ~config.enableSlow THEN {}
    ELSE {<<v, AbnormallySlow>> : v \in
            {u \in SlowNow(states, lines, lost) \cap DOMAIN slow_begin :
                slow_begin[u] >= SlowDuration}}

\* Mutant: since when a vehicle has been slow is forgotten only at normal speed.
ATKeepsBegin(states, lines, lost) ==
    /\ slow_ready' = slow_ready \cup AtNormalSpeed(states)
    /\ first_seen' = [v \in DOMAIN first_seen \cup Considered(states) |->
                         IF v \in DOMAIN first_seen THEN first_seen[v] ELSE 0]
    /\ suppression' = [v \in DOMAIN suppression \cup Braking(states, lines, lost) |->
                         IF v \in Braking(states, lines, lost) THEN 0 ELSE suppression[v]]
    /\ slow_begin' =
          [v \in (DOMAIN slow_begin \ AtNormalSpeed(states)) \cup SlowNow(states, lines, lost) |->
             IF v \in DOMAIN slow_begin THEN slow_begin[v] ELSE 0]

ATChannelIdentify(states, lines, lost) ==
    IF config.enableSlow
    THEN /\ slow_ready' = slow_ready \cup AtNormalSpeed(states)
         /\ first_seen' = [v \in DOMAIN first_seen \cup Considered(states) |->
                              IF v \in DOMAIN first_seen THEN first_seen[v] ELSE 0]
         /\ suppression' =
               [v \in (DOMAIN suppression \ Observed(states))
                      \cup Braking(states, lines, lost) \cup Held(states, lines, lost) |->
                  IF v \in Braking(states, lines, lost) THEN 0 ELSE suppression[v]]
         /\ slow_begin' =
               [v \in (DOMAIN slow_begin \ DOMAIN states) \cup SlowNow(states, lines, lost) |->
                  IF v \in DOMAIN slow_begin THEN slow_begin[v] ELSE 0]
    ELSE /\ slow_begin' = [v \in DOMAIN slow_begin \ DOMAIN states |-> slow_begin[v]]
         /\ UNCHANGED <<slow_ready, first_seen, suppression>>
-----------------------------------------------------------------------------
(***************************************************************************)
(* LeftTurnYieldIdentifyImpl, SLChannelIdentify and the rest of            *)
(* ATChannelIdentify decide by the shape of trajectories, which is opaque  *)
(* here: failed is a set of pairs of vehicles, shapes a set of verdicts.   *)
(***************************************************************************)
NewPairs(failed) == failed \ lty_reported_pairs

Conflicts(states) ==
    IF config.enableLty
    THEN {p \in (DOMAIN states) \X (DOMAIN states) : p[1] # p[2]} ELSE {}

IdentificationOutput(states) ==
    \E selected \in Selections(states), lost \in SUBSET Observed(states),
       failed \in SUBSET Conflicts(states), shapes \in SUBSET ((DOMAIN states) \X config.shapes) :
        /\ STChannelIdentify(states)
        /\ lty_reported_pairs' = lty_reported_pairs \cup NewPairs(failed)
        /\ ATChannelIdentify(states, stop_lines', lost)
        /\ AddAbnormalHistory(
              LightVerdicts(states, selected) \cup shapes
                \cup {<<p[1], FailToYield>> : p \in NewPairs(failed)}
                \cup SlowVerdicts(states, stop_lines', lost),
              IF STClosed THEN WithoutRed(history_queue) ELSE history_queue,
              IF STClosed THEN WithoutRed(history_dedup) ELSE history_dedup)

VehStateSeqCallback(msg) ==
    /\ startAge' = IF startAge = -1 /\ DOMAIN msg # {} THEN 0 ELSE startAge
    /\ birth_pos' = [v \in DOMAIN birth_pos \cup DOMAIN msg |->
                        IF v \in DOMAIN birth_pos THEN birth_pos[v] ELSE msg[v].birth]
    /\ last_valid_states' = IF \E v \in DOMAIN msg : msg[v].poses > ValidPoses
                            THEN msg ELSE last_valid_states
    /\ UNCHANGED <<config, scene_type>>
    \* ShouldSkipIdentificationDuringStartup
    /\ IF startAge' < Grace
       THEN UNCHANGED <<lightVars, channelVars, panelVars>>
       ELSE IdentificationOutput(last_valid_states')
-----------------------------------------------------------------------------
\* Mutant: what the slow check remembers of the vehicles is not reset.
ScenarioStatusKeepsSlow(type) ==
    /\ scene_type' = IF type = "keep" THEN scene_type ELSE type
    /\ ClearSignalCache
    /\ lightAge' = Never(Gap) /\ lightCount' = 0
    /\ startAge' = -1
    /\ last_valid_states' = NoMap
    /\ birth_pos' = NoMap /\ last_pos' = NoMap /\ spawned_inside' = {} /\ checked' = {}
    /\ lty_reported_pairs' = {}
    /\ history_queue' = {} /\ history_dedup' = {} /\ shown' = {}
    /\ UNCHANGED <<config, slowVars>>

\* type is "keep" when the message names no scene and no file gives one.
ScenarioStatusCallback(type) ==
    /\ scene_type' = IF type = "keep" THEN scene_type ELSE type
    /\ ClearSignalCache
    /\ lightAge' = Never(Gap) /\ lightCount' = 0
    /\ startAge' = -1
    /\ last_valid_states' = NoMap
    /\ birth_pos' = NoMap /\ last_pos' = NoMap /\ spawned_inside' = {} /\ checked' = {}
    /\ slow_ready' = {} /\ first_seen' = NoMap /\ slow_begin' = NoMap /\ suppression' = NoMap
    /\ lty_reported_pairs' = {}
    /\ history_queue' = {} /\ history_dedup' = {} /\ shown' = {}
    /\ UNCHANGED config

Older(age, timeout) == IF age <= timeout THEN age + 1 ELSE age
AllOlder(ages, timeout) == [v \in DOMAIN ages |-> Older(ages[v], timeout)]

OlderLine(line) == [line EXCEPT !.stateAge = Older(line.stateAge, CacheTimeout),
                                !.passAge = Older(line.passAge, EvidenceTimeout)]

\* The clock: ros::Time advances by one unit.
Tick ==
    /\ evidenceAge' = Older(evidenceAge, EvidenceTimeout)
    /\ lightAge' = Older(lightAge, Gap)
    /\ startAge' = IF startAge = -1 THEN -1 ELSE Older(startAge, Grace - 1)
    /\ stop_lines' = [i \in DOMAIN stop_lines |-> OlderLine(stop_lines[i])]
    /\ first_seen' = AllOlder(first_seen, SlowStartup - 1)
    /\ slow_begin' = AllOlder(slow_begin, SlowDuration - 1)
    /\ suppression' = AllOlder(suppression, HoldTime)
    /\ UNCHANGED <<config, scene_type, active, lightCount, last_valid_states, birth_pos,
                   crossingVars, slow_ready, lty_reported_pairs, panelVars>>
-----------------------------------------------------------------------------
\* No verdict is put on the panel twice between two changes of the scenario:
\* neither after the overflowing queue dropped it, nor after the verdicts on
\* red lights were removed because the lights had failed.
OncePerScene == [][(history_queue' \ history_queue) \cap shown = {}]_vars
=============================================================================
