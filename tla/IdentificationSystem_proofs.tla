-------------------- MODULE IdentificationSystem_proofs ---------------------
(***************************************************************************)
(* The properties of IdentificationSystem, for all vehicles, all places,   *)
(* all configurations of the nodes and whatever the lights show.           *)
(***************************************************************************)
EXTENDS IdentificationSystem, FiniteSetTheorems, TLAPS

(***************************************************************************)
(* The messages on their way.                                              *)
(***************************************************************************)
Queue(t) == t \in Seq({t[i] : i \in DOMAIN t})

LEMMA QueueOf == ASSUME NEW S, NEW t \in Seq(S) PROVE Queue(t)
<1>1. DOMAIN t = 1..Len(t) /\ Len(t) \in Nat /\ t = [i \in 1..Len(t) |-> t[i]]
  OBVIOUS
<1>2. \A i \in 1..Len(t) : t[i] \in {t[j] : j \in DOMAIN t}
  BY <1>1
<1> QED
  BY <1>1, <1>2 DEF Queue

LEMMA TailIs ==
    ASSUME NEW t, Queue(t), t # << >>
    PROVE  /\ Queue(Tail(t)) /\ Len(t) \in Nat \ {0} /\ Len(Tail(t)) = Len(t) - 1
           /\ Head(t) = t[1] /\ DOMAIN t = 1..Len(t) /\ DOMAIN Tail(t) = 1..Len(t) - 1
           /\ \A i \in 1..Len(t) - 1 : Tail(t)[i] = t[i + 1]
<1> DEFINE S == {t[i] : i \in DOMAIN t}
<1>1. t \in Seq(S)
  BY DEF Queue
<1> HIDE DEF S
<1>2. Tail(t) \in Seq(S)
  BY <1>1
<1>3. Queue(Tail(t))
  BY <1>2, QueueOf
<1> QED
  BY <1>1, <1>2, <1>3

LEMMA AppendIs ==
    ASSUME NEW t, Queue(t), NEW m
    PROVE  /\ Queue(Append(t, m)) /\ Len(t) \in Nat /\ Len(Append(t, m)) = Len(t) + 1
           /\ Append(t, m) # << >> /\ DOMAIN t = 1..Len(t)
           /\ \A i \in 1..Len(t) : Append(t, m)[i] = t[i]
           /\ Append(t, m)[Len(t) + 1] = m
<1> DEFINE S == {t[i] : i \in DOMAIN t} \cup {m}
<1>1. t \in Seq(S) /\ m \in S
  BY DEF Queue
<1> HIDE DEF S
<1>2. Append(t, m) \in Seq(S)
  BY <1>1
<1>3. Queue(Append(t, m))
  BY <1>2, QueueOf
<1> QED
  BY <1>1, <1>2, <1>3

\* The oldest message may be dropped, the one that is published is the last.
LEMMA EnqueueIs ==
    ASSUME Queue(topic), NEW m, Enqueue(m)
    PROVE  /\ Queue(topic') /\ topic' # << >> /\ Len(topic) \in Nat /\ DOMAIN topic = 1..Len(topic)
           /\ \E d \in {0, 1} :
                 /\ d <= Len(topic) /\ Len(topic') = (Len(topic) + 1) - d
                 /\ DOMAIN topic' = 1..Len(topic')
                 /\ \A i \in 1..Len(topic) - d : topic'[i] = topic[i + d]
                 /\ topic'[Len(topic')] = m
<1> DEFINE queue == Append(topic, m)
<1>1. /\ Queue(queue) /\ Len(topic) \in Nat /\ Len(queue) = Len(topic) + 1
      /\ queue # << >> /\ DOMAIN topic = 1..Len(topic)
      /\ \A i \in 1..Len(topic) : queue[i] = topic[i]
      /\ queue[Len(topic) + 1] = m
  BY AppendIs
<1>2. topic' = IF Len(queue) > Depth THEN Tail(queue) ELSE queue
  BY DEF Enqueue
<1> HIDE DEF queue
<1>3. /\ Queue(Tail(queue)) /\ Len(Tail(queue)) = Len(queue) - 1
      /\ DOMAIN Tail(queue) = 1..Len(queue) - 1 /\ DOMAIN queue = 1..Len(queue)
      /\ \A i \in 1..Len(queue) - 1 : Tail(queue)[i] = queue[i + 1]
  BY <1>1, TailIs
<1>4. CASE Len(queue) > Depth
  <2>1. Len(topic) >= 1 /\ topic' = Tail(queue) /\ Len(topic') = Len(topic)
    BY <1>1, <1>2, <1>3, <1>4, BoundsAssumption
  <2>2. topic' # << >>
    BY <2>1
  <2>3. \A i \in 1..Len(topic) - 1 : topic'[i] = topic[i + 1]
    BY <1>1, <1>3, <2>1
  <2>4. topic'[Len(topic)] = m
    BY <1>1, <1>3, <2>1
  <2> QED
    BY <1>1, <1>3, <2>1, <2>2, <2>3, <2>4
<1>5. CASE ~(Len(queue) > Depth)
  BY <1>1, <1>2, <1>3, <1>5
<1> QED
  BY <1>4, <1>5

(***************************************************************************)
(* Which vehicles the nodes know.                                          *)
(***************************************************************************)

\* A vehicle is in the simulation or was, and the trajectories are of vehicles
\* that are or were there; those of former scenes go with the classifier's
\* reset.
Known ==
    /\ config \in Configs
    /\ present \cup gone \subseteq Vehicles /\ present \cap gone = {} /\ former \subseteq gone
    /\ DOMAIN veh_state_sequences \cup DOMAIN last_valid_states \subseteq present \cup gone
    /\ Queue(topic)
    /\ \A i \in DOMAIN topic : DOMAIN topic[i] \subseteq present \cup gone
    /\ statusC \in BOOLEAN
    /\ ~statusC => DOMAIN veh_state_sequences \cap former = {}

\* The trajectories grow by those of the vehicles that are present.
LEMMA Trajectories ==
    ASSUME NEW objects, DOMAIN objects = present, C!ObjectArrayCallback(objects)
    PROVE  DOMAIN veh_state_sequences' = DOMAIN veh_state_sequences \cup present
BY DEF C!ObjectArrayCallback, C!SequencesAfter

LEMMA PublishIs ==
    ASSUME Publish
    PROVE  /\ DOMAIN veh_state_sequences' = DOMAIN veh_state_sequences \cup present
           /\ Enqueue(veh_state_sequences')
           /\ UNCHANGED <<vars, worldVars, statusC, statusI, historyVars>>
<1>1. PICK objects \in [present -> [at : 0..Road, speed : 0..2]] :
          /\ C!ObjectArrayCallback(objects)
          /\ Enqueue(veh_state_sequences')
          /\ UNCHANGED <<vars, worldVars, statusC, statusI, historyVars>>
  BY DEF Publish
<1>2. DOMAIN objects = present
  OBVIOUS
<1> QED
  BY <1>1, <1>2, Trajectories

LEMMA ObserveTrajectories ==
    ASSUME Known, Observe
    PROVE  /\ last_valid_states' = topic[1] \/ last_valid_states' = last_valid_states
           /\ (\E v \in DOMAIN topic[1] : topic[1][v].poses > ValidPoses)
                 => last_valid_states' = topic[1]
           /\ Queue(topic') /\ Len(topic) \in Nat \ {0} /\ Len(topic') = Len(topic) - 1
           /\ DOMAIN topic = 1..Len(topic) /\ DOMAIN topic' = 1..Len(topic')
           /\ \A i \in 1..Len(topic') : topic'[i] = topic[i + 1]
           /\ UNCHANGED <<veh_state_sequences, worldVars, statusC, statusI, said, config>>
<1>1. /\ topic # << >> /\ topic' = Tail(topic) /\ VehStateSeqCallback(Head(topic))
      /\ UNCHANGED <<veh_state_sequences, worldVars, statusC, statusI, said>>
  BY DEF Observe
<1>2. /\ Queue(Tail(topic)) /\ Len(topic) \in Nat \ {0} /\ Len(Tail(topic)) = Len(topic) - 1
      /\ Head(topic) = topic[1] /\ DOMAIN topic = 1..Len(topic)
      /\ DOMAIN Tail(topic) = 1..Len(topic) - 1
      /\ \A i \in 1..Len(topic) - 1 : Tail(topic)[i] = topic[i + 1]
  BY <1>1, TailIs DEF Known
<1>3. /\ last_valid_states' = IF \E v \in DOMAIN topic[1] : topic[1][v].poses > ValidPoses
                              THEN topic[1] ELSE last_valid_states
      /\ config' = config
  BY <1>1, <1>2 DEF VehStateSeqCallback
<1> QED
  BY <1>1, <1>2, <1>3

LEMMA InitKnown == SysInit => Known
<1>1. Queue(<< >>) /\ DOMAIN << >> = {}
  BY DEF Queue
<1> QED
  BY <1>1 DEF SysInit, Init, C!Init, Known, NoMap

LEMMA StepKnown == Known /\ [SysNext]_sysVars => Known'
<1> SUFFICES ASSUME Known, [SysNext]_sysVars PROVE Known'
  OBVIOUS
<1> USE DEF Known
<1>1. ASSUME NEW v \in Vehicles, Spawn(v) PROVE Known'
  BY <1>1 DEF Spawn, vars, classifierVars, historyVars, Queue
<1>2. ASSUME NEW v \in Vehicles, Destroy(v) PROVE Known'
  BY <1>2 DEF Destroy, vars, classifierVars, historyVars, Queue
<1>3. CASE Publish
  <2>1. /\ DOMAIN veh_state_sequences' = DOMAIN veh_state_sequences \cup present
        /\ UNCHANGED <<config, last_valid_states, present, gone, former, statusC>>
    BY <1>3, PublishIs DEF vars, worldVars
  <2>2. /\ Queue(topic)' /\ Len(topic) \in Nat /\ DOMAIN topic = 1..Len(topic)
        /\ \E d \in {0, 1} :
              /\ d <= Len(topic) /\ Len(topic') = (Len(topic) + 1) - d
              /\ DOMAIN topic' = 1..Len(topic')
              /\ \A i \in 1..Len(topic) - d : topic'[i] = topic[i + d]
              /\ topic'[Len(topic')] = veh_state_sequences'
    BY <1>3, PublishIs, EnqueueIs DEF Queue
  <2>3. ASSUME NEW i \in DOMAIN topic' PROVE DOMAIN topic'[i] \subseteq present \cup gone
    <3>1. PICK d \in {0, 1} :
              /\ d <= Len(topic) /\ Len(topic') = (Len(topic) + 1) - d
              /\ DOMAIN topic' = 1..Len(topic')
              /\ \A j \in 1..Len(topic) - d : topic'[j] = topic[j + d]
              /\ topic'[Len(topic')] = veh_state_sequences'
      BY <2>2
    <3>2. i = Len(topic') \/ (i \in 1..Len(topic) - d /\ i + d \in DOMAIN topic)
      BY <2>2, <3>1
    <3> QED
      BY <2>1, <3>1, <3>2
  <2> QED
    BY <2>1, <2>2, <2>3
<1>4. CASE Observe
  <2>1. \A i \in DOMAIN topic' : DOMAIN topic'[i] \subseteq present \cup gone
    BY <1>4, ObserveTrajectories
  <2>2. DOMAIN last_valid_states' \subseteq present \cup gone
    BY <1>4, ObserveTrajectories
  <2> QED
    BY <1>4, <2>1, <2>2, ObserveTrajectories DEF worldVars, Queue
<1>5. CASE Lights
  BY <1>5 DEF Lights, TrafficLightCallback, worldVars, classifierVars, Queue
<1>6. CASE ScenarioChanges
  BY <1>6 DEF ScenarioChanges, vars, classifierVars, Queue
<1>7. CASE ClassifierResets
  BY <1>7 DEF ClassifierResets, C!ScenarioStatusCallback, vars, worldVars, Queue
<1>8. CASE IdentificationResets
  BY <1>8 DEF IdentificationResets, ScenarioStatusCallback, worldVars, classifierVars, NoMap, Queue
<1>9. CASE TimePasses
  BY <1>9 DEF TimePasses, Tick, worldVars, classifierVars, Queue
<1>10. CASE UNCHANGED sysVars
  BY <1>10 DEF sysVars, vars, worldVars, classifierVars, Queue
<1> QED
  BY <1>1, <1>2, <1>3, <1>4, <1>5, <1>6, <1>7, <1>8, <1>9, <1>10 DEF SysNext, Meanwhile

-----------------------------------------------------------------------------
(***************************************************************************)
(* OldSceneFades: the trajectories that are in use are replaced as soon as *)
(* one is long enough; and as long as the classifier has some, the last    *)
(* message on its way says the same.                                       *)
(***************************************************************************)
Newest ==
    topic # << >> /\ DOMAIN veh_state_sequences # {} => topic[Len(topic)] = veh_state_sequences

LEMMA InitFades == SysInit => OldSceneFades /\ Newest
BY DEF SysInit, Init, C!Init, OldSceneFades, Newest, NoMap

LEMMA StepNewest == Known /\ Newest /\ [SysNext]_sysVars => Newest'
<1> SUFFICES ASSUME Known, Newest, [SysNext]_sysVars PROVE Newest'
  OBVIOUS
<1> USE DEF Newest
<1>1. CASE Publish
  BY <1>1, PublishIs, EnqueueIs DEF Known
<1>2. CASE Observe
  <2> SUFFICES ASSUME topic' # << >>, DOMAIN veh_state_sequences # {}
               PROVE  topic'[Len(topic')] = veh_state_sequences
    BY <1>2, ObserveTrajectories
  <2>1. Len(topic') \in Nat \ {0} /\ Len(topic') + 1 = Len(topic)
    <3>1. Queue(topic') /\ Len(topic') = Len(topic) - 1 /\ Len(topic) \in Nat \ {0}
      BY <1>2, ObserveTrajectories
    <3>2. Len(topic') # 0
      BY <3>1 DEF Queue
    <3> QED
      BY <3>1, <3>2
  <2>2. topic'[Len(topic')] = topic[Len(topic)]
    BY <1>2, <2>1, ObserveTrajectories
  <2>3. topic # << >>
    BY <1>2 DEF Observe
  <2> QED
    BY <2>2, <2>3
<1>3. CASE ClassifierResets
  BY <1>3 DEF ClassifierResets, C!ScenarioStatusCallback
<1>4. ASSUME UNCHANGED classifierVars PROVE Newest'
  BY <1>4 DEF classifierVars
<1> QED
  BY <1>1, <1>2, <1>3, <1>4 DEF SysNext, Meanwhile, Spawn, Destroy, Lights, ScenarioChanges,
     IdentificationResets, TimePasses, sysVars

LEMMA StepFades == Known /\ Newest /\ OldSceneFades /\ [SysNext]_sysVars => OldSceneFades'
<1> SUFFICES ASSUME Known, Newest, OldSceneFades, [SysNext]_sysVars PROVE OldSceneFades'
  OBVIOUS
<1> USE DEF OldSceneFades
<1>1. ASSUME NEW v \in Vehicles, Spawn(v) \/ Destroy(v) PROVE OldSceneFades'
  BY <1>1 DEF Spawn, Destroy, vars, classifierVars
<1>2. CASE Publish
  BY <1>2, PublishIs, EnqueueIs DEF Known
<1>3. CASE Observe
  <2> SUFFICES ASSUME ~statusC, topic' = << >>,
                      \E v \in DOMAIN veh_state_sequences : veh_state_sequences[v].poses > ValidPoses
               PROVE  DOMAIN last_valid_states' \cap former = {}
    BY <1>3, ObserveTrajectories DEF worldVars
  <2>1. Len(topic) = 1 /\ topic # << >>
    BY <1>3, ObserveTrajectories DEF Observe
  <2>2. topic[1] = veh_state_sequences
    BY <2>1 DEF Newest
  <2>3. last_valid_states' = veh_state_sequences
    BY <1>3, <2>2, ObserveTrajectories
  <2> QED
    BY <2>3 DEF Known
<1>4. CASE Lights
  BY <1>4 DEF Lights, TrafficLightCallback, worldVars, classifierVars
<1>5. CASE ScenarioChanges
  BY <1>5 DEF ScenarioChanges
<1>6. CASE ClassifierResets
  BY <1>6 DEF ClassifierResets, C!ScenarioStatusCallback
<1>7. CASE IdentificationResets
  BY <1>7 DEF IdentificationResets, ScenarioStatusCallback, worldVars, NoMap
<1>8. CASE TimePasses
  BY <1>8 DEF TimePasses, Tick, worldVars, classifierVars
<1>9. CASE UNCHANGED sysVars
  BY <1>9 DEF sysVars, vars, worldVars, classifierVars
<1> QED
  BY <1>1, <1>2, <1>3, <1>4, <1>5, <1>6, <1>7, <1>8, <1>9 DEF SysNext, Meanwhile

\* Once both nodes have handled a change of the scenario, in whichever order,
\* and what was sent before is handled or lost, the first message with a
\* trajectory that is long enough drives out all the vehicles of former scenes
\* (scenarioStatusCallback of both nodes).
THEOREM FormerSceneFades == SysSpec => []OldSceneFades
<1> QED
  BY InitKnown, StepKnown, InitFades, StepNewest, StepFades, PTL DEF SysSpec
-----------------------------------------------------------------------------
(***************************************************************************)
(* What a trajectory message can put on the panel.                         *)
(***************************************************************************)

\* The verdict that a message ends in, and what it does to the panel.
Enters(found) ==
    \/ AddAbnormalHistory(found, history_queue, history_dedup)
    \/ STClosed /\ AddAbnormalHistory(found, WithoutRed(history_queue), WithoutRed(history_dedup))

\* Every verdict that is entered comes from one of the channels.
Sources(states, found) ==
    /\ \E selected \in Selections(states) : \A v : \A light \in {RedLight, YellowLight} :
          <<v, light>> \in found => <<v, light>> \in LightVerdicts(states, selected)
    /\ \A v : <<v, AbnormallySlow>> \in found =>
          \E lost \in SUBSET Observed(states) :
             /\ <<v, AbnormallySlow>> \in SlowVerdicts(states, stop_lines', lost)
             /\ ATChannelIdentify(states, stop_lines', lost)

LEMMA OutputEnters ==
    ASSUME Known, NEW states, IdentificationOutput(states)
    PROVE  /\ STChannelIdentify(states)
           /\ \E lost \in SUBSET Observed(states) : ATChannelIdentify(states, stop_lines', lost)
           /\ \E found : Enters(found) /\ Sources(states, found)
<1>1. PICK selected \in Selections(states), lost \in SUBSET Observed(states), failed \in SUBSET Conflicts(states),
           shapes \in SUBSET ((DOMAIN states) \X config.shapes) :
        /\ STChannelIdentify(states)
        /\ ATChannelIdentify(states, stop_lines', lost)
        /\ AddAbnormalHistory(
              LightVerdicts(states, selected) \cup shapes
                \cup {<<p[1], FailToYield>> : p \in NewPairs(failed)}
                \cup SlowVerdicts(states, stop_lines', lost),
              IF STClosed THEN WithoutRed(history_queue) ELSE history_queue,
              IF STClosed THEN WithoutRed(history_dedup) ELSE history_dedup)
  BY DEF IdentificationOutput
<1> DEFINE found == LightVerdicts(states, selected) \cup shapes
                \cup {<<p[1], FailToYield>> : p \in NewPairs(failed)}
                \cup SlowVerdicts(states, stop_lines', lost)
<1>2. Enters(found)
  BY <1>1 DEF Enters
<1>3. \A x \in shapes : x[2] \notin {RedLight, YellowLight, AbnormallySlow, FailToYield}
  BY IdentificationAssumption DEF Known
<1>4. \A x \in SlowVerdicts(states, stop_lines', lost) : x[2] = AbnormallySlow
  BY DEF SlowVerdicts
<1>5. \A x \in LightVerdicts(states, selected) : x[2] \in {RedLight, YellowLight}
  BY DEF LightVerdicts
<1>6. /\ RedLight # YellowLight /\ RedLight # AbnormallySlow /\ RedLight # FailToYield
      /\ YellowLight # AbnormallySlow /\ YellowLight # FailToYield /\ AbnormallySlow # FailToYield
  BY DEF RedLight, YellowLight, AbnormallySlow, FailToYield
<1>7. ASSUME NEW x \in found PROVE \/ x \in LightVerdicts(states, selected)
                                   \/ x[2] = FailToYield
                                   \/ x \in SlowVerdicts(states, stop_lines', lost)
                                   \/ x \in shapes
  OBVIOUS
<1>8. \A v : \A light \in {RedLight, YellowLight} :
          <<v, light>> \in found => <<v, light>> \in LightVerdicts(states, selected)
  <2> SUFFICES ASSUME NEW v, NEW light \in {RedLight, YellowLight}, <<v, light>> \in found
               PROVE  <<v, light>> \in LightVerdicts(states, selected)
    OBVIOUS
  <2>1. <<v, light>>[2] = light
    OBVIOUS
  <2> HIDE DEF found
  <2> QED
    BY <2>1, <1>3, <1>4, <1>6, <1>7
<1>9. \A v : <<v, AbnormallySlow>> \in found
                => <<v, AbnormallySlow>> \in SlowVerdicts(states, stop_lines', lost)
  <2> SUFFICES ASSUME NEW v, <<v, AbnormallySlow>> \in found
               PROVE  <<v, AbnormallySlow>> \in SlowVerdicts(states, stop_lines', lost)
    OBVIOUS
  <2>1. <<v, AbnormallySlow>>[2] = AbnormallySlow
    OBVIOUS
  <2> HIDE DEF found
  <2> QED
    BY <2>1, <1>3, <1>5, <1>6, <1>7
<1> HIDE DEF found
<1>10. Sources(states, found)
  BY <1>1, <1>8, <1>9 DEF Sources
<1> QED
  BY <1>1, <1>2, <1>10

\* What is new on the panel was found, and was not remembered.
LEMMA PanelAfter ==
    ASSUME NEW found, Enters(found)
    PROVE  /\ history_queue' \ history_queue \subseteq found
           /\ \E queue, dedup :
                 /\ \/ queue = history_queue /\ dedup = history_dedup
                    \/ /\ STClosed
                       /\ queue = WithoutRed(history_queue) /\ dedup = WithoutRed(history_dedup)
                 /\ history_queue' \subseteq queue \cup (found \ dedup)
                 /\ history_dedup' = dedup \cup found
                 /\ shown' = shown \cup (found \ dedup)
<1>1. ASSUME NEW queue, NEW dedup, AddAbnormalHistory(found, queue, dedup)
      PROVE  /\ history_queue' \subseteq queue \cup (found \ dedup)
             /\ history_dedup' = dedup \cup found
             /\ shown' = shown \cup (found \ dedup)
  <2> DEFINE new == found \ dedup
  <2>1. history_queue' \in {queue \cup new} \cup SUBSET (queue \cup new)
    BY <1>1 DEF AddAbnormalHistory
  <2> QED
    BY <1>1, <2>1 DEF AddAbnormalHistory
<1>2. CASE AddAbnormalHistory(found, history_queue, history_dedup)
  BY <1>1, <1>2
<1>3. CASE /\ STClosed
           /\ AddAbnormalHistory(found, WithoutRed(history_queue), WithoutRed(history_dedup))
  <2>1. /\ history_queue' \subseteq WithoutRed(history_queue) \cup (found \ WithoutRed(history_dedup))
        /\ history_dedup' = WithoutRed(history_dedup) \cup found
        /\ shown' = shown \cup (found \ WithoutRed(history_dedup))
    BY <1>1, <1>3
  <2>2. WithoutRed(history_queue) \subseteq history_queue
    BY DEF WithoutRed
  <2> QED
    BY <1>3, <2>1, <2>2
<1> QED
  BY <1>2, <1>3 DEF Enters

\* A step does not touch the panel, forgets the verdicts on red lights, forgets
\* everything, or handles a message.
LEMMA PanelSteps ==
    ASSUME [SysNext]_sysVars
    PROVE  \/ UNCHANGED <<panelVars, checked>>
           \/ RemoveRed /\ UNCHANGED checked
           \/ history_queue' = {} /\ history_dedup' = {} /\ shown' = {} /\ checked' = {}
           \/ Observe /\ IdentificationOutput(last_valid_states')
<1>1. ASSUME UNCHANGED vars PROVE UNCHANGED <<panelVars, checked>>
  BY <1>1 DEF vars, channelVars, crossingVars
<1>2. CASE Observe
  BY <1>2 DEF Observe, VehStateSeqCallback, channelVars, crossingVars
<1>3. CASE Lights
  BY <1>3 DEF Lights, TrafficLightCallback, LightsOfNoSignalizedScene, EmptyLights,
              LightsNotWorking, LightsWork, channelVars, crossingVars
<1>4. CASE IdentificationResets
  BY <1>4 DEF IdentificationResets, ScenarioStatusCallback
<1>5. CASE TimePasses
  BY <1>5 DEF TimePasses, Tick, crossingVars
<1> QED
  BY <1>1, <1>2, <1>3, <1>4, <1>5, PublishIs DEF SysNext, Meanwhile, sysVars, Spawn, Destroy,
     ScenarioChanges, ClassifierResets

\* A verdict on a light is given only while the gates are open, and about a
\* vehicle whose crossing is judged in this very step.
LEMMA LightIsNew ==
    ASSUME NEW states, STChannelIdentify(states), NEW selected \in Selections(states),
           NEW v, NEW light \in {RedLight, YellowLight},
           <<v, light>> \in LightVerdicts(states, selected)
    PROVE  /\ Judging(states) /\ STJudges(states) /\ ~STClosed
           /\ selected[v] \in CrossCandidates(v, states)
           /\ stop_lines[Source(selected[v])].state = IF light = RedLight THEN "red" ELSE "yellow"
           /\ v \in DOMAIN states /\ v \notin checked /\ v \in checked'
<1>1. Judging(states) /\ ~STClosed
  BY DEF LightVerdicts, Judging, STClosed
<1>2. STJudges(states)
  BY <1>1 DEF STChannelIdentify, STSkips, STCloses
<1>3. v \in CrossedAt(IF light = RedLight THEN "red" ELSE "yellow", selected)
  BY <1>1 DEF LightVerdicts, RedLight, YellowLight
<1>4. /\ v \in Crossing(states) /\ selected[v] \in CrossCandidates(v, states)
      /\ stop_lines[Source(selected[v])].state = IF light = RedLight THEN "red" ELSE "yellow"
  BY <1>3 DEF CrossedAt, Selections
<1> QED
  BY <1>1, <1>2, <1>4 DEF Crossing, STJudges

\* The same of red lights only.
LEMMA RedIsNew ==
    ASSUME NEW states, STChannelIdentify(states), NEW selected \in Selections(states),
           NEW v, <<v, RedLight>> \in LightVerdicts(states, selected)
    PROVE  /\ Judging(states) /\ STJudges(states) /\ ~STClosed
           /\ selected[v] \in CrossCandidates(v, states)
           /\ stop_lines[Source(selected[v])].state = "red"
           /\ v \in DOMAIN states /\ v \notin checked /\ v \in checked'
BY LightIsNew

LEMMA CheckedGrows ==
    ASSUME NEW states, STChannelIdentify(states) PROVE checked \subseteq checked'
BY DEF STChannelIdentify, STSkips, STCloses, STJudges, crossingVars
-----------------------------------------------------------------------------
(***************************************************************************)
(* RemembersThisScene.  Whatever the channels enter, they enter of the     *)
(* vehicles of the trajectories in use.                                    *)
(***************************************************************************)
LEMMA SlowNowIsSlow ==
    ASSUME NEW states, NEW lines, NEW lost, NEW v \in SlowNow(states, lines, lost)
    PROVE  v \in DOMAIN states /\ SlowAndFree(v, states, lines)
BY DEF SlowNow, Observed, Considered, AtNormalSpeed, SlowAndFree

LEMMA CrossingRemembers ==
    ASSUME NEW states, STChannelIdentify(states)
    PROVE  /\ DOMAIN last_pos' \subseteq DOMAIN last_pos \cup DOMAIN states
           /\ spawned_inside' \subseteq spawned_inside \cup DOMAIN states
           /\ checked' \subseteq checked \cup DOMAIN states
<1>1. Crossing(states) \subseteq DOMAIN states
  BY DEF Crossing
<1>2. Inside(states) \subseteq spawned_inside \cup DOMAIN states
  BY DEF Inside
<1>3. CASE UNCHANGED crossingVars
  BY <1>3 DEF crossingVars
<1>4. CASE STJudges(states)
  BY <1>1, <1>2, <1>4 DEF STJudges
<1> QED
  BY <1>3, <1>4 DEF STChannelIdentify, STSkips, STCloses

LEMMA SlowRemembers ==
    ASSUME NEW states, NEW lines, NEW lost, ATChannelIdentify(states, lines, lost)
    PROVE  /\ slow_ready' \subseteq slow_ready \cup DOMAIN states
           /\ DOMAIN first_seen' \subseteq DOMAIN first_seen \cup DOMAIN states
           /\ DOMAIN slow_begin' \subseteq DOMAIN slow_begin \cup DOMAIN states
           /\ DOMAIN suppression' \subseteq DOMAIN suppression \cup DOMAIN states
<1>1. /\ AtNormalSpeed(states) \subseteq DOMAIN states /\ Considered(states) \subseteq DOMAIN states
      /\ Observed(states) \subseteq DOMAIN states
  BY DEF AtNormalSpeed, Considered, Observed
<1>2. /\ Braking(states, lines, lost) \subseteq DOMAIN states
      /\ Held(states, lines, lost) \subseteq DOMAIN states
      /\ SlowNow(states, lines, lost) \subseteq DOMAIN states
  BY <1>1 DEF Braking, Held, SlowNow
<1>3. CASE config.enableSlow
  BY <1>1, <1>2, <1>3 DEF ATChannelIdentify
<1>4. CASE ~config.enableSlow
  BY <1>4 DEF ATChannelIdentify
<1> QED
  BY <1>3, <1>4

LEMMA PanelRemembers ==
    ASSUME NEW states, IdentificationOutput(states)
    PROVE  /\ lty_reported_pairs' \subseteq
                 lty_reported_pairs \cup ((DOMAIN states) \X (DOMAIN states))
           /\ \A x \in history_queue' \cup history_dedup' :
                 x \in history_queue \cup history_dedup \/ x[1] \in DOMAIN states
<1>1. PICK selected \in Selections(states), lost \in SUBSET Observed(states), failed \in SUBSET Conflicts(states),
           shapes \in SUBSET ((DOMAIN states) \X config.shapes) :
        /\ lty_reported_pairs' = lty_reported_pairs \cup NewPairs(failed)
        /\ AddAbnormalHistory(
              LightVerdicts(states, selected) \cup shapes
                \cup {<<p[1], FailToYield>> : p \in NewPairs(failed)}
                \cup SlowVerdicts(states, stop_lines', lost),
              IF STClosed THEN WithoutRed(history_queue) ELSE history_queue,
              IF STClosed THEN WithoutRed(history_dedup) ELSE history_dedup)
  BY DEF IdentificationOutput
<1> DEFINE found == LightVerdicts(states, selected) \cup shapes
                \cup {<<p[1], FailToYield>> : p \in NewPairs(failed)}
                \cup SlowVerdicts(states, stop_lines', lost)
<1>2. Enters(found)
  BY <1>1 DEF Enters
<1>3. NewPairs(failed) \subseteq (DOMAIN states) \X (DOMAIN states)
  BY DEF NewPairs, Conflicts
<1>4. ASSUME NEW x \in LightVerdicts(states, selected) PROVE x[1] \in DOMAIN states
  <2>1. DOMAIN selected = Crossing(states)
    BY DEF Selections
  <2>2. PICK v \in DOMAIN selected, light \in {RedLight, YellowLight} : x = <<v, light>>
    BY <1>4 DEF LightVerdicts, CrossedAt
  <2> QED
    BY <2>1, <2>2 DEF Crossing
<1>5. ASSUME NEW x \in SlowVerdicts(states, stop_lines', lost) PROVE x[1] \in DOMAIN states
  <2>1. PICK v \in SlowNow(states, stop_lines', lost) : x = <<v, AbnormallySlow>>
    BY <1>5 DEF SlowVerdicts
  <2> QED
    BY <2>1, SlowNowIsSlow
<1>6. ASSUME NEW x \in {<<p[1], FailToYield>> : p \in NewPairs(failed)} PROVE x[1] \in DOMAIN states
  BY <1>3, <1>6
<1>7. \A x \in found : x[1] \in DOMAIN states
  BY <1>4, <1>5, <1>6
<1> HIDE DEF found
<1>8. /\ history_queue' \subseteq history_queue \cup found
      /\ history_dedup' \subseteq history_dedup \cup found
  BY <1>2, PanelAfter DEF WithoutRed
<1> QED
  BY <1>1, <1>3, <1>7, <1>8

\* Item by item, what Remembered is the union of.
LEMMA RememberedIs ==
    \A S : Remembered \subseteq S <=>
        /\ DOMAIN last_valid_states \cup DOMAIN birth_pos \cup DOMAIN last_pos \subseteq S
        /\ spawned_inside \cup checked \cup slow_ready \subseteq S
        /\ DOMAIN first_seen \cup DOMAIN slow_begin \cup DOMAIN suppression \subseteq S
        /\ \A pair \in lty_reported_pairs : pair[1] \in S /\ pair[2] \in S
        /\ \A item \in history_queue \cup history_dedup : item[1] \in S
BY DEF Remembered

LEMMA ObserveRemembers ==
    ASSUME Known, RemembersThisScene, Observe
    PROVE  RemembersThisScene'
<1> DEFINE states == last_valid_states'
<1>1. /\ topic # << >> /\ VehStateSeqCallback(Head(topic))
      /\ heard' = heard \cup DOMAIN Head(topic)
  BY DEF Observe
<1>2. /\ states = Head(topic) \/ states = last_valid_states
      /\ DOMAIN birth_pos' = DOMAIN birth_pos \cup DOMAIN Head(topic)
      /\ UNCHANGED <<channelVars, panelVars>> \/ IdentificationOutput(states)
  BY <1>1 DEF VehStateSeqCallback
<1>3. /\ DOMAIN last_valid_states \cup DOMAIN birth_pos \cup DOMAIN last_pos \subseteq heard
      /\ spawned_inside \cup checked \cup slow_ready \subseteq heard
      /\ DOMAIN first_seen \cup DOMAIN slow_begin \cup DOMAIN suppression \subseteq heard
      /\ \A pair \in lty_reported_pairs : pair[1] \in heard /\ pair[2] \in heard
      /\ \A item \in history_queue \cup history_dedup : item[1] \in heard
  BY RememberedIs DEF RemembersThisScene
<1>4. heard \subseteq heard' /\ DOMAIN states \subseteq heard' /\ DOMAIN birth_pos' \subseteq heard'
  BY <1>1, <1>2, <1>3
<1>5. /\ (DOMAIN last_pos \cup spawned_inside \cup checked \cup slow_ready)' \subseteq heard'
      /\ (DOMAIN first_seen \cup DOMAIN slow_begin \cup DOMAIN suppression)' \subseteq heard'
      /\ \A pair \in lty_reported_pairs' : pair[1] \in heard' /\ pair[2] \in heard'
      /\ \A item \in history_queue' \cup history_dedup' : item[1] \in heard'
  <2>1. CASE UNCHANGED <<channelVars, panelVars>>
    BY <1>3, <1>4, <2>1 DEF channelVars, crossingVars, slowVars, panelVars
  <2>2. CASE IdentificationOutput(states)
    <3>1. /\ STChannelIdentify(states)
          /\ \E lost : ATChannelIdentify(states, stop_lines', lost)
      BY <2>2 DEF IdentificationOutput
    <3>2. /\ DOMAIN last_pos' \subseteq DOMAIN last_pos \cup DOMAIN states
          /\ spawned_inside' \subseteq spawned_inside \cup DOMAIN states
          /\ checked' \subseteq checked \cup DOMAIN states
      BY <3>1, CrossingRemembers
    <3>3. /\ slow_ready' \subseteq slow_ready \cup DOMAIN states
          /\ DOMAIN first_seen' \subseteq DOMAIN first_seen \cup DOMAIN states
          /\ DOMAIN slow_begin' \subseteq DOMAIN slow_begin \cup DOMAIN states
          /\ DOMAIN suppression' \subseteq DOMAIN suppression \cup DOMAIN states
      BY <3>1, SlowRemembers
    <3>4. /\ lty_reported_pairs' \subseteq
                lty_reported_pairs \cup ((DOMAIN states) \X (DOMAIN states))
          /\ \A x \in history_queue' \cup history_dedup' :
                x \in history_queue \cup history_dedup \/ x[1] \in DOMAIN states
      BY <2>2, PanelRemembers
    <3> HIDE DEF states
    <3> QED
      BY <1>3, <1>4, <3>2, <3>3, <3>4
  <2> QED
    BY <1>2, <2>1, <2>2
<1>6. (Remembered \subseteq heard)'
  BY <1>4, <1>5 DEF Remembered
<1> QED
  BY <1>6 DEF RemembersThisScene

LEMMA StepRemembers ==
    Known /\ RemembersThisScene /\ [SysNext]_sysVars => RemembersThisScene'
<1> SUFFICES ASSUME Known, RemembersThisScene, [SysNext]_sysVars PROVE RemembersThisScene'
  OBVIOUS
<1>1. ASSUME UNCHANGED <<vars, heard>> PROVE RemembersThisScene'
  BY <1>1 DEF RemembersThisScene, Remembered, vars, channelVars, crossingVars, slowVars, panelVars
<1>2. CASE Observe
  BY <1>2, ObserveRemembers
<1>3. CASE Lights
  <2>1. /\ UNCHANGED <<last_valid_states, birth_pos, channelVars, heard>>
        /\ history_queue' \subseteq history_queue /\ history_dedup' \subseteq history_dedup
    BY <1>3 DEF Lights, TrafficLightCallback, LightsOfNoSignalizedScene, EmptyLights,
                LightsNotWorking, LightsWork, RemoveRed, WithoutRed, panelVars
  <2> QED
    BY <2>1 DEF RemembersThisScene, Remembered, channelVars, crossingVars, slowVars
<1>4. CASE IdentificationResets
  <2>1. (Remembered = {})'
    BY <1>4 DEF IdentificationResets, ScenarioStatusCallback, NoMap, Remembered
  <2> QED
    BY <2>1 DEF RemembersThisScene
<1>5. CASE TimePasses
  BY <1>5 DEF TimePasses, Tick, AllOlder, RemembersThisScene, Remembered, crossingVars, panelVars
<1> QED
  BY <1>1, <1>2, <1>3, <1>4, <1>5, PublishIs DEF SysNext, Meanwhile, sysVars, historyVars, Spawn,
     Destroy, ScenarioChanges, ClassifierResets

\* Whatever is on its way when the scenario changes, and in whichever order the
\* nodes learn of it: the identification remembers nothing of a vehicle of which
\* it was not told after its last reset (scenarioStatusCallback).
THEOREM ResetReachesAll == SysSpec => []RemembersThisScene
<1>1. SysInit => RemembersThisScene
  BY DEF SysInit, Init, NoMap, RemembersThisScene, Remembered
<1> QED
  BY <1>1, InitKnown, StepKnown, StepRemembers, PTL DEF SysSpec
-----------------------------------------------------------------------------
(***************************************************************************)
(* OncePerScene.  The queue is remembered in history_dedup, from which     *)
(* only verdicts on red lights were ever removed; of these the crossing's  *)
(* latch knows.                                                            *)
(***************************************************************************)
Panel ==
    /\ history_queue \subseteq history_dedup
    /\ history_dedup \subseteq shown
    /\ shown \ history_dedup \subseteq Red
    /\ \A v \in Vehicles : <<v, RedLight>> \in shown => v \in checked

LEMMA InitPanel == SysInit => Panel
BY DEF SysInit, Init, Panel

LEMMA OutputPanel ==
    ASSUME Known, Panel, NEW states, IdentificationOutput(states)
    PROVE  Panel' /\ (history_queue' \ history_queue) \cap shown = {}
<1>1. STChannelIdentify(states)
  BY OutputEnters
<1>2. PICK found : Enters(found) /\ Sources(states, found)
  BY OutputEnters
<1>3. PICK queue, dedup :
          /\ \/ queue = history_queue /\ dedup = history_dedup
             \/ /\ STClosed
                /\ queue = WithoutRed(history_queue) /\ dedup = WithoutRed(history_dedup)
          /\ history_queue' \subseteq queue \cup (found \ dedup)
          /\ history_dedup' = dedup \cup found
          /\ shown' = shown \cup (found \ dedup)
  BY <1>2, PanelAfter
<1>4. ASSUME NEW v, <<v, RedLight>> \in found
      PROVE  ~STClosed /\ v \notin checked /\ v \in checked'
  BY <1>1, <1>2, <1>4, RedIsNew DEF Sources
<1>5. checked \subseteq checked'
  BY <1>1, CheckedGrows
<1>6. /\ queue \subseteq dedup /\ queue \subseteq history_queue
      /\ dedup \subseteq history_dedup /\ shown \ dedup \subseteq Red
      /\ ~STClosed => dedup = history_dedup
  BY <1>3 DEF WithoutRed, Panel
<1>7. Panel'
  <2>1. (shown \ history_dedup)' \subseteq Red
    BY <1>3, <1>6
  <2>2. \A v \in Vehicles : <<v, RedLight>> \in shown' => v \in checked'
    BY <1>3, <1>4, <1>5 DEF Panel
  <2> QED
    BY <1>3, <1>6, <2>1, <2>2 DEF Panel
<1>8. (history_queue' \ history_queue) \cap shown = {}
  <2> SUFFICES ASSUME NEW x \in history_queue' \ history_queue, x \in shown PROVE FALSE
    OBVIOUS
  <2>1. x \in found /\ x \in shown \ dedup
    BY <1>3, <1>6
  <2>2. PICK v \in Vehicles : x = <<v, RedLight>>
    BY <2>1, <1>6 DEF Red
  <2> QED
    BY <1>4, <2>1, <2>2 DEF Panel
<1> QED
  BY <1>7, <1>8

LEMMA StepPanel ==
    ASSUME Known, Panel, [SysNext]_sysVars
    PROVE  Panel' /\ (history_queue' \ history_queue) \cap shown = {}
<1>1. CASE UNCHANGED <<panelVars, checked>>
  BY <1>1 DEF Panel, panelVars
<1>2. CASE RemoveRed /\ UNCHANGED checked
  BY <1>2 DEF Panel, RemoveRed, WithoutRed
<1>3. CASE history_queue' = {} /\ history_dedup' = {} /\ shown' = {} /\ checked' = {}
  BY <1>3 DEF Panel
<1>4. CASE Observe /\ IdentificationOutput(last_valid_states')
  BY <1>4, OutputPanel
<1> QED
  BY <1>1, <1>2, <1>3, <1>4, PanelSteps

\* Between two changes of the scenario no verdict is entered twice, whatever the
\* queue dropped and however often the verdicts on red lights were removed
\* (AddAbnormalHistory, RemoveAbnormalHistoryByBehavior).
THEOREM NothingTwice == SysSpec => OncePerScene
<1>1. Known /\ Panel /\ [SysNext]_sysVars
         => (Known /\ Panel)' /\ [(history_queue' \ history_queue) \cap shown = {}]_vars
  BY StepKnown, StepPanel
<1> QED
  BY <1>1, InitKnown, InitPanel, PTL DEF SysSpec, OncePerScene
-----------------------------------------------------------------------------
(***************************************************************************)
(* One verdict for a crossing.  A vehicle's crossing is latched when it is *)
(* judged, also at a light that lets it pass, and the latch outlives the   *)
(* removal of the verdicts on red lights.                                  *)
(***************************************************************************)
LightVerdictIsLatched ==
    \A v \in Vehicles, light \in {RedLight, YellowLight} : <<v, light>> \in shown => v \in checked

\* Between two changes of the scenario no vehicle is put on the panel both for
\* a red and for a yellow light.
OneLightVerdict ==
    \A v \in Vehicles : ~(<<v, RedLight>> \in shown /\ <<v, YellowLight>> \in shown)

LEMMA InitLatched == SysInit => LightVerdictIsLatched /\ OneLightVerdict
BY DEF SysInit, Init, LightVerdictIsLatched, OneLightVerdict

LEMMA OutputLatched ==
    ASSUME Known, LightVerdictIsLatched, OneLightVerdict,
           NEW states, IdentificationOutput(states)
    PROVE  LightVerdictIsLatched' /\ OneLightVerdict'
<1>1. STChannelIdentify(states) /\ checked \subseteq checked'
  BY OutputEnters, CheckedGrows
<1>2. PICK found : Enters(found) /\ Sources(states, found)
  BY OutputEnters
<1>3. shown' \subseteq shown \cup found
  BY <1>2, PanelAfter
<1>4. PICK selected \in Selections(states) : \A v : \A light \in {RedLight, YellowLight} :
          <<v, light>> \in found => <<v, light>> \in LightVerdicts(states, selected)
  BY <1>2 DEF Sources
<1>5. ASSUME NEW v, NEW light \in {RedLight, YellowLight}, <<v, light>> \in found
      PROVE  /\ v \notin checked /\ v \in checked'
             /\ stop_lines[Source(selected[v])].state = IF light = RedLight THEN "red" ELSE "yellow"
  BY <1>1, <1>4, <1>5, LightIsNew
<1>6. LightVerdictIsLatched'
  BY <1>1, <1>3, <1>5 DEF LightVerdictIsLatched
<1>7. ASSUME NEW v \in Vehicles, <<v, RedLight>> \in shown', <<v, YellowLight>> \in shown'
      PROVE  FALSE
  <2>1. CASE <<v, RedLight>> \in found /\ <<v, YellowLight>> \in found
    <3>1. RedLight # YellowLight
      BY DEF RedLight, YellowLight
    <3>2. stop_lines[Source(selected[v])].state = "red"
      BY <1>5, <2>1
    <3>3. stop_lines[Source(selected[v])].state = "yellow"
      BY <1>5, <2>1, <3>1
    <3> QED
      BY <3>2, <3>3
  <2>2. CASE <<v, RedLight>> \in shown \/ <<v, YellowLight>> \in shown
    <3>1. v \in checked
      BY <2>2 DEF LightVerdictIsLatched
    <3>2. <<v, RedLight>> \notin found /\ <<v, YellowLight>> \notin found
      BY <1>5, <3>1
    <3> QED
      BY <1>3, <1>7, <3>2 DEF OneLightVerdict
  <2> QED
    BY <1>3, <1>7, <2>1, <2>2
<1> QED
  BY <1>6, <1>7 DEF OneLightVerdict

LEMMA StepLatched ==
    ASSUME Known, LightVerdictIsLatched, OneLightVerdict, [SysNext]_sysVars
    PROVE  LightVerdictIsLatched' /\ OneLightVerdict'
<1>1. CASE UNCHANGED <<panelVars, checked>> \/ (RemoveRed /\ UNCHANGED checked)
  BY <1>1 DEF LightVerdictIsLatched, OneLightVerdict, panelVars, RemoveRed
<1>2. CASE history_queue' = {} /\ history_dedup' = {} /\ shown' = {} /\ checked' = {}
  BY <1>2 DEF LightVerdictIsLatched, OneLightVerdict
<1>3. CASE Observe /\ IdentificationOutput(last_valid_states')
  BY <1>3, OutputLatched
<1> QED
  BY <1>1, <1>2, <1>3, PanelSteps

\* A vehicle is judged once for running a light, though the lights change, fail
\* and recover, and though there are several lines to cross (STChannelIdentify:
\* g_checked_vehicle_ids).
THEOREM JudgedForOneLight == SysSpec => []OneLightVerdict
<1> QED
  BY InitKnown, StepKnown, InitLatched, StepLatched, PTL DEF SysSpec
-----------------------------------------------------------------------------
(***************************************************************************)
(* SlowIsContinuous.  For a vehicle that is still observed, the time since *)
(* when it is taken to be slow is no longer than the time since when it    *)
(* has been; the others can never come back.  What is handled, what is on  *)
(* its way and what will be published next is a chain, in which no vehicle *)
(* is missing between two of its appearances.                              *)
(***************************************************************************)
Upcoming == DOMAIN veh_state_sequences \cup present

Unbroken ==
    \A j \in DOMAIN topic :
        /\ DOMAIN last_valid_states \cap Upcoming \subseteq DOMAIN topic[j]
        /\ \A i \in 1..j - 1 : DOMAIN topic[i] \cap Upcoming \subseteq DOMAIN topic[j]
        /\ \A k \in DOMAIN topic : k > j =>
              /\ DOMAIN last_valid_states \cap DOMAIN topic[k] \subseteq DOMAIN topic[j]
              /\ \A i \in 1..j - 1 : DOMAIN topic[i] \cap DOMAIN topic[k] \subseteq DOMAIN topic[j]

Observable == Upcoming \cup DOMAIN last_valid_states \cup UNION {DOMAIN topic[i] : i \in DOMAIN topic}

SlowSince ==
    /\ startAge \in Int
    /\ contrary \in [Vehicles -> Nat]
    /\ DOMAIN slow_begin \subseteq present \cup gone
    /\ \A v \in DOMAIN slow_begin : slow_begin[v] \in Nat
    /\ startAge < Grace => DOMAIN slow_begin = {}
    /\ \A v \in DOMAIN slow_begin \cap Observable :
          v \in DOMAIN last_valid_states /\ slow_begin[v] <= contrary[v]

LEMMA InitSlow == SysInit => SlowSince
BY IdentificationAssumption DEF SysInit, Init, SlowSince, NoMap, Unobserved

\* What ATChannelIdentify leaves of slow_begin.
LEMMA SlowBeginAfter ==
    ASSUME NEW states, NEW lines, NEW lost, ATChannelIdentify(states, lines, lost)
    PROVE  /\ DOMAIN slow_begin' \subseteq
                  (DOMAIN slow_begin \ DOMAIN states) \cup SlowNow(states, lines, lost)
           /\ \A v \in DOMAIN slow_begin' :
                  slow_begin'[v] = IF v \in DOMAIN slow_begin THEN slow_begin[v] ELSE 0
<1>1. CASE config.enableSlow
  BY <1>1 DEF ATChannelIdentify
<1>2. CASE ~config.enableSlow
  BY <1>2 DEF ATChannelIdentify
<1> QED
  BY <1>1, <1>2

LEMMA ObserveContrary ==
    ASSUME Observe
    PROVE  contrary' = [v \in Vehicles |->
              IF /\ v \in DOMAIN last_valid_states'
                 /\ SlowAndFree(v, last_valid_states', stop_lines')
              THEN contrary[v] ELSE 0]
BY DEF Observe

\* After the grace time; before it nothing is remembered of the vehicles.
LEMMA ObserveSlow ==
    ASSUME Observe
    PROVE  /\ startAge' = startAge \/ (startAge = -1 /\ startAge' = 0)
           /\ \/ startAge' < Grace /\ UNCHANGED <<slow_begin, panelVars>>
              \/ startAge' >= Grace /\ IdentificationOutput(last_valid_states')
BY IdentificationAssumption DEF Observe, VehStateSeqCallback, channelVars, slowVars

LEMMA InitUnbroken == SysInit => Unbroken
BY DEF SysInit, Unbroken

LEMMA PublishUnbroken == ASSUME Known, Unbroken, Publish PROVE Unbroken' /\ Observable' \subseteq Observable
<1>1. /\ DOMAIN veh_state_sequences' = Upcoming /\ Upcoming' = Upcoming
      /\ UNCHANGED last_valid_states
  BY PublishIs DEF Upcoming, vars, worldVars
<1>2. PICK d \in {0, 1} :
         /\ d <= Len(topic) /\ Len(topic') = (Len(topic) + 1) - d
         /\ DOMAIN topic' = 1..Len(topic')
         /\ \A i \in 1..Len(topic) - d : topic'[i] = topic[i + d]
         /\ topic'[Len(topic')] = veh_state_sequences'
  BY PublishIs, EnqueueIs DEF Known
<1>3. Len(topic) \in Nat /\ DOMAIN topic = 1..Len(topic)
  BY PublishIs, EnqueueIs DEF Known
<1> DEFINE n == Len(topic')
<1>4. n \in Nat /\ DOMAIN topic'[n] = Upcoming /\ n \in DOMAIN topic'
  BY <1>1, <1>2, <1>3
<1>5. ASSUME NEW i \in DOMAIN topic', i # n
      PROVE  i \in 1..n - 1 /\ i + d \in DOMAIN topic /\ topic'[i] = topic[i + d]
  <2>1. d \in 0..1 /\ n = (Len(topic) + 1) - d /\ n \in Nat /\ i \in 1..n
    BY <1>2, <1>4
  <2> HIDE DEF n
  <2>2. i \in 1..n - 1 /\ i \in 1..Len(topic) - d /\ i + d \in 1..Len(topic)
    BY <1>3, <1>5, <2>1
  <2> QED
    BY <1>2, <1>3, <2>2
<1> HIDE DEF n
<1>6. ASSUME NEW j \in DOMAIN topic'
      PROVE  /\ DOMAIN last_valid_states \cap Upcoming \subseteq DOMAIN topic'[j]
             /\ \A i \in 1..j - 1 : DOMAIN topic'[i] \cap Upcoming \subseteq DOMAIN topic'[j]
             /\ \A k \in DOMAIN topic' : k > j =>
                   /\ DOMAIN last_valid_states \cap DOMAIN topic'[k] \subseteq DOMAIN topic'[j]
                   /\ \A i \in 1..j - 1 :
                         DOMAIN topic'[i] \cap DOMAIN topic'[k] \subseteq DOMAIN topic'[j]
  <2>1. CASE j = n
    <3>1. \A k \in DOMAIN topic' : ~(k > j)
      BY <1>2, <1>4, <2>1 DEF n
    <3> QED
      BY <1>4, <2>1, <3>1
  <2>2. CASE j # n
    <3>1. j + d \in DOMAIN topic /\ topic'[j] = topic[j + d] /\ j \in 1..n - 1
      BY <1>5, <2>2
    <3>2. ASSUME NEW i \in 1..j - 1
          PROVE  topic'[i] = topic[i + d] /\ i + d \in 1..(j + d) - 1
      <4>1. i \in DOMAIN topic' /\ i # n
        BY <1>2, <1>3, <1>4, <3>1, <3>2 DEF n
      <4> QED
        BY <1>3, <1>5, <3>1, <3>2, <4>1
    <3>3. ASSUME NEW k \in DOMAIN topic', k > j
          PROVE  \/ DOMAIN topic'[k] = Upcoming
                 \/ k + d \in DOMAIN topic /\ k + d > j + d /\ topic'[k] = topic[k + d]
      <4>1. CASE k = n
        BY <1>4, <4>1
      <4>2. CASE k # n
        <5>1. k + d \in DOMAIN topic /\ topic'[k] = topic[k + d] /\ k \in 1..n - 1
          BY <1>5, <4>2
        <5> QED
          BY <1>2, <1>4, <3>1, <3>3, <5>1
      <4> QED
        BY <4>1, <4>2
    <3>4. /\ DOMAIN last_valid_states \cap Upcoming \subseteq DOMAIN topic[j + d]
          /\ \A i \in 1..(j + d) - 1 : DOMAIN topic[i] \cap Upcoming \subseteq DOMAIN topic[j + d]
          /\ \A k \in DOMAIN topic : k > j + d =>
              /\ DOMAIN last_valid_states \cap DOMAIN topic[k] \subseteq DOMAIN topic[j + d]
              /\ \A i \in 1..(j + d) - 1 :
                    DOMAIN topic[i] \cap DOMAIN topic[k] \subseteq DOMAIN topic[j + d]
      BY <3>1 DEF Unbroken
    <3> QED
      BY <3>1, <3>2, <3>3, <3>4
  <2> QED
    BY <2>1, <2>2
<1>7. Unbroken'
  BY <1>1, <1>6 DEF Unbroken
<1>8. Observable' \subseteq Observable
  <2> SUFFICES ASSUME NEW i \in DOMAIN topic' PROVE DOMAIN topic'[i] \subseteq Observable
    BY <1>1 DEF Observable
  <2> QED
    BY <1>4, <1>5 DEF Observable
<1> QED
  BY <1>7, <1>8
LEMMA ObserveUnbroken ==
    ASSUME Known, Unbroken, Observe
    PROVE  /\ Unbroken' /\ Observable' \subseteq Observable
           /\ DOMAIN last_valid_states \cap Observable' \subseteq DOMAIN last_valid_states'
<1>1. /\ last_valid_states' = topic[1] \/ last_valid_states' = last_valid_states
      /\ Len(topic) \in Nat \ {0} /\ Len(topic') = Len(topic) - 1
      /\ DOMAIN topic = 1..Len(topic) /\ DOMAIN topic' = 1..Len(topic')
      /\ \A i \in 1..Len(topic') : topic'[i] = topic[i + 1]
      /\ Upcoming' = Upcoming
  BY ObserveTrajectories DEF worldVars, Upcoming
<1>2. ASSUME NEW i \in DOMAIN topic'
      PROVE  i + 1 \in DOMAIN topic /\ topic'[i] = topic[i + 1] /\ i \in Nat \ {0}
  BY <1>1
<1>3. 1 \in DOMAIN topic
  BY <1>1
<1>4. ASSUME NEW j \in DOMAIN topic'
      PROVE  /\ DOMAIN last_valid_states' \cap Upcoming \subseteq DOMAIN topic'[j]
             /\ \A i \in 1..j - 1 : DOMAIN topic'[i] \cap Upcoming \subseteq DOMAIN topic'[j]
             /\ \A k \in DOMAIN topic' : k > j =>
                   /\ DOMAIN last_valid_states' \cap DOMAIN topic'[k] \subseteq DOMAIN topic'[j]
                   /\ \A i \in 1..j - 1 :
                         DOMAIN topic'[i] \cap DOMAIN topic'[k] \subseteq DOMAIN topic'[j]
  <2>1. j + 1 \in DOMAIN topic /\ topic'[j] = topic[j + 1] /\ 1 \in 1..(j + 1) - 1
    BY <1>2
  <2>2. \A i \in 1..j - 1 : topic'[i] = topic[i + 1] /\ i + 1 \in 1..(j + 1) - 1
    BY <1>1, <1>2
  <2>3. ASSUME NEW k \in DOMAIN topic', k > j
        PROVE  k + 1 \in DOMAIN topic /\ k + 1 > j + 1 /\ topic'[k] = topic[k + 1]
    BY <1>2, <2>3
  <2>4. /\ DOMAIN last_valid_states \cap Upcoming \subseteq DOMAIN topic[j + 1]
        /\ \A i \in 1..(j + 1) - 1 : DOMAIN topic[i] \cap Upcoming \subseteq DOMAIN topic[j + 1]
        /\ \A k \in DOMAIN topic : k > j + 1 =>
            /\ DOMAIN last_valid_states \cap DOMAIN topic[k] \subseteq DOMAIN topic[j + 1]
            /\ \A i \in 1..(j + 1) - 1 :
                  DOMAIN topic[i] \cap DOMAIN topic[k] \subseteq DOMAIN topic[j + 1]
    BY <2>1 DEF Unbroken
  <2> QED
    BY <1>1, <2>1, <2>2, <2>3, <2>4
<1>5. Unbroken'
  BY <1>1, <1>4 DEF Unbroken
<1>6. \A i \in DOMAIN topic' : DOMAIN topic'[i] \subseteq UNION {DOMAIN topic[j] : j \in DOMAIN topic}
  BY <1>2
<1>7. Observable' \subseteq Observable
  BY <1>1, <1>3, <1>6 DEF Observable
<1>8. ASSUME NEW v \in DOMAIN last_valid_states \cap Observable', last_valid_states' = topic[1]
      PROVE  v \in DOMAIN topic[1]
  <2>1. CASE v \in Upcoming
    BY <1>3, <2>1 DEF Unbroken
  <2>2. ASSUME NEW i \in DOMAIN topic', v \in DOMAIN topic'[i] PROVE v \in DOMAIN topic[1]
    <3>1. i + 1 \in DOMAIN topic /\ i + 1 > 1 /\ v \in DOMAIN topic[i + 1]
      BY <1>2, <2>2
    <3> QED
      BY <1>3, <3>1 DEF Unbroken
  <2> QED
    BY <1>1, <1>8, <2>1, <2>2 DEF Observable
<1> QED
  BY <1>1, <1>5, <1>7, <1>8

LEMMA StepUnbroken == Known /\ Unbroken /\ [SysNext]_sysVars => Unbroken'
<1> SUFFICES ASSUME Known, Unbroken, [SysNext]_sysVars PROVE Unbroken'
  OBVIOUS
<1>1. ASSUME NEW v \in Vehicles, Spawn(v) PROVE Unbroken'
  <2>1. /\ UNCHANGED <<topic, last_valid_states>> /\ Upcoming' = Upcoming \cup {v}
        /\ v \notin present \cup gone
    BY <1>1 DEF Spawn, vars, classifierVars, Upcoming
  <2>2. v \notin DOMAIN last_valid_states /\ \A i \in DOMAIN topic : v \notin DOMAIN topic[i]
    BY <2>1 DEF Known
  <2>3. DOMAIN topic = 1..Len(topic) /\ Len(topic) \in Nat
    BY DEF Known, Queue
  <2> QED
    BY <2>1, <2>2, <2>3 DEF Unbroken
<1>2. ASSUME UNCHANGED topic, DOMAIN last_valid_states' \subseteq DOMAIN last_valid_states,
             Upcoming' \subseteq Upcoming
      PROVE  Unbroken'
  BY <1>2 DEF Unbroken
<1>3. ASSUME NEW v \in Vehicles, Destroy(v) PROVE Unbroken'
  BY <1>2, <1>3 DEF Destroy, vars, classifierVars, Upcoming
<1>4. CASE Publish
  BY <1>4, PublishUnbroken
<1>5. CASE Observe
  BY <1>5, ObserveUnbroken
<1>6. CASE Lights
  BY <1>2, <1>6 DEF Lights, TrafficLightCallback, classifierVars, worldVars, Upcoming
<1>7. CASE ScenarioChanges
  BY <1>2, <1>7 DEF ScenarioChanges, vars, classifierVars, Upcoming
<1>8. CASE ClassifierResets
  BY <1>2, <1>8 DEF ClassifierResets, C!ScenarioStatusCallback, vars, worldVars, Upcoming
<1>9. CASE IdentificationResets
  BY <1>2, <1>9 DEF IdentificationResets, ScenarioStatusCallback, NoMap, classifierVars, worldVars,
                    Upcoming
<1>10. CASE TimePasses
  BY <1>2, <1>10 DEF TimePasses, Tick, classifierVars, worldVars, Upcoming
<1>11. CASE UNCHANGED sysVars
  BY <1>2, <1>11 DEF sysVars, vars, classifierVars, worldVars, Upcoming
<1> QED
  BY <1>1, <1>3, <1>4, <1>5, <1>6, <1>7, <1>8, <1>9, <1>10, <1>11 DEF SysNext, Meanwhile

LEMMA StepSlow == Known /\ Unbroken /\ SlowSince /\ [SysNext]_sysVars => SlowSince'
<1> SUFFICES ASSUME Known, Unbroken, SlowSince, [SysNext]_sysVars PROVE SlowSince'
  OBVIOUS
<1> USE DEF SlowSince
<1>1. ASSUME NEW v \in Vehicles, Spawn(v) \/ Destroy(v) PROVE SlowSince'
  <2>1. /\ UNCHANGED <<startAge, slow_begin, contrary, last_valid_states>>
        /\ present \cup gone \subseteq present' \cup gone'
        /\ Observable' \subseteq Observable \cup ({v} \ (present \cup gone))
    BY <1>1 DEF Spawn, Destroy, vars, channelVars, slowVars, classifierVars, historyVars, Observable,
                Upcoming
  <2>2. DOMAIN slow_begin \cap Observable' \subseteq Observable
    BY <2>1
  <2> QED
    BY <2>1, <2>2
<1>10. ASSUME UNCHANGED <<startAge, slow_begin, contrary, last_valid_states, present, gone>>,
              Observable' \subseteq Observable
       PROVE  SlowSince'
  BY <1>10
<1>9. CASE Publish
  BY <1>9, <1>10, PublishIs, PublishUnbroken DEF vars, channelVars, slowVars, worldVars, historyVars
<1>2. CASE Observe
  <2> DEFINE states == last_valid_states'
  <2>1. /\ states = topic[1] \/ states = last_valid_states
        /\ 1 \in DOMAIN topic
        /\ present' = present /\ gone' = gone
        /\ Observable' \subseteq Observable
        /\ DOMAIN last_valid_states \cap Observable' \subseteq DOMAIN states
    BY <1>2, ObserveTrajectories, ObserveUnbroken DEF worldVars
  <2>5. DOMAIN states \subseteq Observable /\ DOMAIN states \subseteq present \cup gone
    BY <2>1 DEF Observable, Known
  <2>2. contrary' \in [Vehicles -> Nat]
    BY <1>2, ObserveContrary
  <2>3. CASE startAge' < Grace /\ UNCHANGED <<slow_begin, panelVars>>
    <3>1. DOMAIN slow_begin' = {} /\ startAge' \in Int
      BY <1>2, <2>3, ObserveSlow, IdentificationAssumption
    <3> QED
      BY <2>2, <3>1
  <2>4. CASE startAge' >= Grace /\ IdentificationOutput(states)
    <3>1. PICK lost : ATChannelIdentify(states, stop_lines', lost)
      BY <2>4, OutputEnters
    <3>2. /\ DOMAIN slow_begin' \subseteq
                  (DOMAIN slow_begin \ DOMAIN states) \cup SlowNow(states, stop_lines', lost)
          /\ \A v \in DOMAIN slow_begin' :
                  slow_begin'[v] = IF v \in DOMAIN slow_begin THEN slow_begin[v] ELSE 0
      BY <3>1, SlowBeginAfter
    <3>3. \A v \in SlowNow(states, stop_lines', lost) :
              v \in DOMAIN states /\ SlowAndFree(v, states, stop_lines')
      BY SlowNowIsSlow
    <3>4. startAge' \in Int /\ DOMAIN slow_begin' \subseteq present' \cup gone'
      BY <1>2, <2>1, <2>5, <3>2, <3>3, ObserveSlow
    <3>5. \A v \in DOMAIN slow_begin' : slow_begin'[v] \in Nat
      BY <3>2
    <3>6. ASSUME NEW v \in DOMAIN slow_begin' \cap Observable'
          PROVE  v \in DOMAIN states /\ slow_begin'[v] <= contrary'[v]
      <4>1. CASE v \in DOMAIN slow_begin \ DOMAIN states
        BY <2>1, <4>1, <3>6
      <4>2. CASE v \in SlowNow(states, stop_lines', lost)
        <5>1. v \in DOMAIN states /\ SlowAndFree(v, states, stop_lines')
          BY <3>3, <4>2
        <5>2. v \in Vehicles /\ v \in Observable
          BY <2>5, <5>1 DEF Known
        <5>3. contrary'[v] = contrary[v]
          BY <1>2, <5>1, <5>2, ObserveContrary
        <5>4. slow_begin'[v] <= contrary[v]
          BY <3>2, <3>6, <5>2
        <5> QED
          BY <5>1, <5>3, <5>4
      <4> QED
        BY <3>2, <3>6, <4>1, <4>2
    <3> QED
      BY <2>2, <2>4, <3>4, <3>5, <3>6, IdentificationAssumption
  <2> QED
    BY <1>2, <2>3, <2>4, ObserveSlow
<1>3. CASE Lights
  BY <1>3, <1>10 DEF Lights, TrafficLightCallback, channelVars, slowVars, worldVars, classifierVars,
                     Observable, Upcoming
<1>4. CASE ScenarioChanges
  BY <1>4, <1>10 DEF ScenarioChanges, vars, channelVars, slowVars, historyVars, classifierVars,
                     Observable, Upcoming
<1>5. CASE ClassifierResets
  BY <1>5, <1>10 DEF ClassifierResets, C!ScenarioStatusCallback, vars, channelVars, slowVars,
                     worldVars, historyVars, Observable, Upcoming
<1>6. CASE IdentificationResets
  BY <1>6 DEF IdentificationResets, ScenarioStatusCallback, NoMap, Unobserved
<1>7. CASE TimePasses
  <2>1. /\ slow_begin' = [v \in DOMAIN slow_begin |-> Older(slow_begin[v], SlowDuration - 1)]
        /\ contrary' = [v \in Vehicles |-> Older(contrary[v], SlowDuration - 1)]
        /\ startAge' = IF startAge = -1 THEN -1 ELSE Older(startAge, Grace - 1)
        /\ UNCHANGED <<last_valid_states, veh_state_sequences, topic, present, gone>>
    BY <1>7 DEF TimePasses, Tick, worldVars, classifierVars, AllOlder
  <2>2. \A m, n \in Nat : m <= n => Older(m, SlowDuration - 1) <= Older(n, SlowDuration - 1)
    BY IdentificationAssumption DEF Older
  <2>3. \A n \in Nat : Older(n, SlowDuration - 1) \in Nat
    BY DEF Older
  <2>4. startAge' \in Int /\ (startAge' < Grace => startAge < Grace)
    BY <2>1, IdentificationAssumption DEF Older
  <2>5. DOMAIN slow_begin' = DOMAIN slow_begin /\ Observable' = Observable
    BY <2>1 DEF Observable, Upcoming
  <2>6. \A v \in DOMAIN slow_begin' : v \in Vehicles
    BY <2>5 DEF Known
  <2>7. \A v \in DOMAIN slow_begin' \cap Observable' :
            v \in DOMAIN last_valid_states' /\ slow_begin'[v] <= contrary'[v]
    BY <2>1, <2>2, <2>5, <2>6
  <2> QED
    BY <2>1, <2>3, <2>4, <2>5, <2>7
<1>8. CASE UNCHANGED sysVars
  BY <1>8, <1>10 DEF sysVars, vars, channelVars, slowVars, worldVars, historyVars, classifierVars,
                     Observable, Upcoming
<1> QED
  BY <1>1, <1>2, <1>3, <1>4, <1>5, <1>6, <1>7, <1>8, <1>9 DEF SysNext, Meanwhile

LEMMA SlowIsTrue ==
    ASSUME Known, SlowSince, [SysNext]_sysVars,
           NEW v \in Vehicles, <<v, AbnormallySlow>> \in NewItems
    PROVE  contrary[v] >= SlowDuration
<1> DEFINE states == last_valid_states'
<1>1. Observe /\ IdentificationOutput(states)
  BY PanelSteps DEF NewItems, panelVars, RemoveRed, WithoutRed
<1>2. PICK found : Enters(found) /\ Sources(states, found)
  BY <1>1, OutputEnters
<1>3. <<v, AbnormallySlow>> \in found
  BY <1>2, PanelAfter DEF NewItems
<1>4. PICK lost : <<v, AbnormallySlow>> \in SlowVerdicts(states, stop_lines', lost)
  BY <1>2, <1>3 DEF Sources
<1>5. /\ v \in SlowNow(states, stop_lines', lost) \cap DOMAIN slow_begin
      /\ slow_begin[v] >= SlowDuration
  BY <1>4 DEF SlowVerdicts
<1>6. v \in DOMAIN states
  BY <1>5, SlowNowIsSlow
<1>7. v \in Observable
  <2>1. states = topic[1] \/ states = last_valid_states
    BY <1>1, ObserveTrajectories
  <2>2. 1 \in DOMAIN topic
    BY <1>1, ObserveTrajectories
  <2> QED
    BY <1>6, <2>1, <2>2 DEF Observable
<1>8. slow_begin[v] \in Nat /\ contrary[v] \in Nat /\ slow_begin[v] <= contrary[v]
  BY <1>5, <1>7 DEF SlowSince
<1> QED
  BY <1>5, <1>8, IdentificationAssumption

\* A vehicle is called abnormally slow only if it was observed to be slow, with
\* a free road ahead, for the whole of SlowDuration, in every order of messages
\* and changes of the scenario (ATChannelIdentify).
THEOREM SlowWithoutAGap == SysSpec => SlowIsContinuous
<1>1. Known /\ Unbroken /\ SlowSince /\ [SysNext]_sysVars
         => /\ (Known /\ Unbroken /\ SlowSince)'
            /\ [\A v \in Vehicles :
                   <<v, AbnormallySlow>> \in NewItems => contrary[v] >= SlowDuration]_sysVars
  BY StepKnown, StepUnbroken, StepSlow, SlowIsTrue
<1> QED
  BY <1>1, InitKnown, InitUnbroken, InitSlow, PTL DEF SysSpec, SlowIsContinuous
-----------------------------------------------------------------------------
(***************************************************************************)
(* RedIsTrue.  What is cached of a line is what was last said of it, and   *)
(* no younger.                                                             *)
(***************************************************************************)
LineType == [at : 0..Road, state : LightStates, stateAge : Nat, passAge : Nat, control : BOOLEAN]
SaidType == [0..Road -> [state : LightStates, age : Nat, passAge : Nat]]

\* line was cached from what light says.
Heard(line, light) ==
    /\ line.state = light.state
    /\ line.stateAge <= CacheTimeout => light.age <= line.stateAge
    /\ line.passAge <= EvidenceTimeout => light.passAge <= line.passAge
    /\ (~config.useScene /\ line.control /\ light.age <= CacheTimeout)
          => light.passAge <= light.age + EvidenceTimeout

LightsHeard ==
    /\ stop_lines \in Seq(LineType)
    /\ said \in SaidType
    /\ lightAge \in Nat /\ lightCount \in Nat
    /\ \A i \in DOMAIN stop_lines : Heard(stop_lines[i], said[stop_lines[i].at])
    /\ (lightAge <= Gap /\ lightCount > 0) => \E p \in 0..Road : said[p].age <= lightAge

LEMMA EmptyHeard ==
    stop_lines = << >> /\ lightAge = Gap + 1 /\ lightCount = 0 /\ said = Silence => LightsHeard
<1> SUFFICES ASSUME stop_lines = << >>, lightAge = Gap + 1, lightCount = 0, said = Silence
             PROVE  LightsHeard
  OBVIOUS
<1>1. Silence \in SaidType
  <2>1. Never(CacheTimeout) \in Nat /\ Never(EvidenceTimeout + CacheTimeout) \in Nat
    BY IdentificationAssumption DEF Never
  <2> QED
    BY <2>1 DEF Silence, SaidType, LightStates
<1>2. stop_lines \in Seq(LineType) /\ DOMAIN stop_lines = {}
  OBVIOUS
<1>3. lightAge \in Nat /\ ~(lightAge <= Gap)
  BY IdentificationAssumption
<1> QED
  BY <1>1, <1>2, <1>3 DEF LightsHeard

LEMMA InitHeard == SysInit => LightsHeard
BY EmptyHeard DEF SysInit, Init, Never

LEMMA LineTyped ==
    ASSUME NEW phase \in [at : 0..Road, state : LightStates], NEW age \in Nat
    PROVE  Line(phase, age) \in LineType
<1>1. SignalControlled(phase.state, IF phase.state \in PassStates THEN 0 ELSE age) \in BOOLEAN
  BY DEF SignalControlled
<1> QED
  BY <1>1 DEF Line, LineType

LEMMA InSeq == ASSUME NEW S, NEW s \in Seq(S) PROVE \A j \in DOMAIN s : s[j] \in S
OBVIOUS

LEMMA ConcatInSeq ==
    ASSUME NEW S, NEW s \in Seq(S), NEW t \in Seq(S)
    PROVE  s \o t \in Seq(S) /\ Len(s \o t) = Len(s) + Len(t)
OBVIOUS

\* The lines after a message, one by one.
LEMMA LinesAfter ==
    ASSUME LightsHeard, Known,
           NEW msg \in Seq([at : 0..Road, state : LightStates]),
           \A i, j \in DOMAIN msg : msg[i].at = msg[j].at => i = j,
           NEW order \in InOrder(NewPhases(msg)),
           NEW lines, lines = StopLinesWith(msg, order)
    PROVE  /\ lines \in Seq(LineType)
           /\ \A i \in DOMAIN lines :
                 \/ /\ i \in DOMAIN stop_lines /\ lines[i] = stop_lines[i]
                    /\ \A j \in DOMAIN msg : msg[j].at # lines[i].at
                 \/ \E j \in DOMAIN msg, age \in Nat :
                       /\ lines[i] = Line(msg[j], age)
                       /\ age <= EvidenceTimeout => said[msg[j].at].passAge <= age
<1> DEFINE phaseAt(p) == CHOOSE i \in DOMAIN msg : msg[i].at = p
           listed(p) == \E i \in DOMAIN msg : msg[i].at = p
           refreshed == [i \in DOMAIN stop_lines |->
               IF listed(stop_lines[i].at)
               THEN Line(msg[phaseAt(stop_lines[i].at)], stop_lines[i].passAge)
               ELSE stop_lines[i]]
           new == [i \in DOMAIN order |-> Line(msg[order[i]], Never(EvidenceTimeout))]
<1>1. lines = refreshed \o new
  BY DEF StopLinesWith
<1>2. /\ stop_lines \in Seq(LineType)
      /\ \A i \in DOMAIN stop_lines : stop_lines[i] \in LineType
      /\ DOMAIN stop_lines = 1..Len(stop_lines) /\ Len(stop_lines) \in Nat
  BY DEF LightsHeard
<1>3. \A j \in DOMAIN msg : msg[j] \in [at : 0..Road, state : LightStates]
  BY InSeq
<1>4. \A p : listed(p) => phaseAt(p) \in DOMAIN msg /\ msg[phaseAt(p)].at = p
  OBVIOUS
<1> DEFINE n == Cardinality(NewPhases(msg))
<1>5. n \in Nat /\ DOMAIN order = 1..n /\ \A i \in 1..n : order[i] \in NewPhases(msg)
  <2>1. IsFiniteSet(DOMAIN msg)
    BY FS_Interval
  <2>2. n \in Nat
    BY <2>1, FS_Subset, FS_CardinalityType DEF NewPhases
  <2> QED
    BY <2>2 DEF InOrder
<1>6. /\ refreshed \in Seq(LineType) /\ Len(refreshed) = Len(stop_lines)
  <2>1. \A i \in DOMAIN stop_lines : refreshed[i] \in LineType
    BY <1>2, <1>3, <1>4, LineTyped DEF LineType
  <2> QED
    BY <1>2, <2>1
<1>7. new \in Seq(LineType) /\ Len(new) = n
  <2>1. Never(EvidenceTimeout) \in Nat
    BY IdentificationAssumption DEF Never
  <2>2. \A i \in 1..n : new[i] \in LineType
    BY <1>3, <1>5, <2>1, LineTyped DEF NewPhases
  <2> QED
    BY <1>5, <2>2
<1> HIDE DEF refreshed, new, n
<1>8. lines \in Seq(LineType) /\ DOMAIN lines = 1..Len(stop_lines) + n
  <2>1. lines \in Seq(LineType)
    BY <1>1, <1>6, <1>7, ConcatInSeq
  <2>2. Len(lines) = Len(refreshed) + Len(new)
    BY <1>1, <1>6, <1>7, ConcatInSeq
  <2> QED
    BY <1>6, <1>7, <2>1, <2>2
<1>9. ASSUME NEW i \in DOMAIN stop_lines
      PROVE  /\ lines[i] = refreshed[i] /\ i \in DOMAIN lines
             /\ \/ /\ lines[i] = stop_lines[i]
                   /\ \A j \in DOMAIN msg : msg[j].at # lines[i].at
                \/ \E j \in DOMAIN msg, age \in Nat :
                       /\ lines[i] = Line(msg[j], age)
                       /\ age <= EvidenceTimeout => said[msg[j].at].passAge <= age
  <2>1. lines[i] = refreshed[i] /\ i \in DOMAIN lines
    BY <1>1, <1>2, <1>5, <1>6, <1>7, <1>8
  <2>2. CASE listed(stop_lines[i].at)
    <3>1. PICK j \in DOMAIN msg : msg[j].at = stop_lines[i].at /\ j = phaseAt(stop_lines[i].at)
      BY <1>4, <2>2
    <3>2. refreshed[i] = Line(msg[j], stop_lines[i].passAge)
      BY <2>2, <3>1 DEF refreshed
    <3>3. stop_lines[i].passAge \in Nat
      BY <1>2 DEF LineType
    <3>4. stop_lines[i].passAge <= EvidenceTimeout
             => said[msg[j].at].passAge <= stop_lines[i].passAge
      BY <3>1 DEF LightsHeard, Heard
    <3> QED
      BY <2>1, <3>2, <3>3, <3>4
  <2>3. CASE ~listed(stop_lines[i].at)
    BY <2>1, <2>3 DEF refreshed
  <2> QED
    BY <2>1, <2>2, <2>3
<1>10. ASSUME NEW i \in DOMAIN lines, i \notin DOMAIN stop_lines
       PROVE  \E j \in DOMAIN msg, age \in Nat :
                 /\ lines[i] = Line(msg[j], age)
                 /\ age <= EvidenceTimeout => said[msg[j].at].passAge <= age
  <2>1. i - Len(stop_lines) \in 1..n
    BY <1>2, <1>5, <1>8, <1>10
  <2>2. lines[i] = new[i - Len(stop_lines)]
    BY <1>1, <1>2, <1>5, <1>6, <1>7, <1>8, <1>10
  <2>3. PICK j \in DOMAIN msg : new[i - Len(stop_lines)] = Line(msg[j], Never(EvidenceTimeout))
    BY <1>5, <2>1 DEF new, NewPhases
  <2>4. Never(EvidenceTimeout) \in Nat /\ ~(Never(EvidenceTimeout) <= EvidenceTimeout)
    BY IdentificationAssumption DEF Never
  <2> QED
    BY <2>2, <2>3, <2>4
<1> QED
  BY <1>8, <1>9, <1>10

\* What is said of each light after a message.
LEMMA SaidAfter ==
    ASSUME LightsHeard, NEW msg \in Seq([at : 0..Road, state : LightStates]),
           \A i, j \in DOMAIN msg : msg[i].at = msg[j].at => i = j,
           said' = [p \in 0..Road |->
              IF \E i \in DOMAIN msg : msg[i].at = p
              THEN LET s == msg[CHOOSE i \in DOMAIN msg : msg[i].at = p].state
                   IN  [state |-> s, age |-> 0,
                        passAge |-> IF s \in PassStates THEN 0 ELSE said[p].passAge]
              ELSE said[p]]
    PROVE  /\ said' \in SaidType
           /\ \A j \in DOMAIN msg : msg[j].at \in 0..Road /\ said'[msg[j].at] =
                 [state |-> msg[j].state, age |-> 0,
                  passAge |-> IF msg[j].state \in PassStates THEN 0 ELSE said[msg[j].at].passAge]
           /\ \A p \in 0..Road : (\A j \in DOMAIN msg : msg[j].at # p) => said'[p] = said[p]
<1>1. \A j \in DOMAIN msg : msg[j] \in [at : 0..Road, state : LightStates]
  BY InSeq
<1>2. \A j \in DOMAIN msg : (CHOOSE i \in DOMAIN msg : msg[i].at = msg[j].at) = j
  OBVIOUS
<1>3. ASSUME NEW j \in DOMAIN msg
      PROVE  msg[j].at \in 0..Road /\ said'[msg[j].at] =
                 [state |-> msg[j].state, age |-> 0,
                  passAge |-> IF msg[j].state \in PassStates THEN 0 ELSE said[msg[j].at].passAge]
  <2>1. msg[j].at \in 0..Road
    BY <1>1
  <2> QED
    BY <2>1, <1>2
<1>4. \A p \in 0..Road : (\A j \in DOMAIN msg : msg[j].at # p) => said'[p] = said[p]
  OBVIOUS
<1>5. ASSUME NEW p \in 0..Road
      PROVE  said'[p] \in [state : LightStates, age : Nat, passAge : Nat]
  <2>1. said[p] \in [state : LightStates, age : Nat, passAge : Nat]
    BY DEF LightsHeard, SaidType
  <2>2. CASE \E j \in DOMAIN msg : msg[j].at = p
    <3>1. PICK j \in DOMAIN msg : msg[j].at = p
      BY <2>2
    <3> QED
      BY <1>1, <1>3, <2>1, <3>1
  <2>3. CASE \A j \in DOMAIN msg : msg[j].at # p
    BY <1>4, <2>1, <2>3
  <2> QED
    BY <2>2, <2>3
<1> QED
  BY <1>3, <1>4, <1>5 DEF SaidType

LEMMA HeardOfAMessage ==
    ASSUME NEW phase \in [at : 0..Road, state : LightStates], NEW age \in Nat,
           NEW light \in [state : LightStates, age : Nat, passAge : Nat],
           age <= EvidenceTimeout => light.passAge <= age
    PROVE  Heard(Line(phase, age),
                 [state |-> phase.state, age |-> 0,
                  passAge |-> IF phase.state \in PassStates THEN 0 ELSE light.passAge])
<1>1. {EvidenceTimeout, CacheTimeout} \subseteq Nat
  BY IdentificationAssumption
<1>2. CASE phase.state \in PassStates
  BY <1>1, <1>2 DEF Heard, Line, SignalControlled
<1>3. CASE phase.state \notin PassStates
  BY <1>1, <1>3 DEF Heard, Line, SignalControlled
<1> QED
  BY <1>2, <1>3

LEMMA HeardAfterLights == ASSUME LightsHeard, Known, Lights PROVE LightsHeard'
<1>1. PICK msg \in Bounds[config].lights :
        /\ TrafficLightCallback(msg)
        /\ said' = [p \in 0..Road |->
              IF \E i \in DOMAIN msg : msg[i].at = p
              THEN LET s == msg[CHOOSE i \in DOMAIN msg : msg[i].at = p].state
                   IN  [state |-> s, age |-> 0,
                        passAge |-> IF s \in PassStates THEN 0 ELSE said[p].passAge]
              ELSE said[p]]
  BY DEF Lights
<1>2. /\ msg \in Seq([at : 0..Road, state : LightStates])
      /\ \A i, j \in DOMAIN msg : msg[i].at = msg[j].at => i = j
  BY BoundsAssumption DEF Known
<1>3. \A j \in DOMAIN msg : msg[j] \in [at : 0..Road, state : LightStates]
  BY <1>2, InSeq
<1>4. /\ said' \in SaidType
      /\ \A j \in DOMAIN msg : msg[j].at \in 0..Road /\ said'[msg[j].at] =
                 [state |-> msg[j].state, age |-> 0,
                  passAge |-> IF msg[j].state \in PassStates THEN 0 ELSE said[msg[j].at].passAge]
      /\ \A p \in 0..Road : (\A j \in DOMAIN msg : msg[j].at # p) => said'[p] = said[p]
  BY <1>1, <1>2, SaidAfter
<1>5. config' = config
  BY <1>1 DEF TrafficLightCallback
<1>6. msg # << >> => 1 \in DOMAIN msg
  BY <1>2
<1>7. /\ Gap \in Nat /\ MinCount \in Nat /\ EvidenceTimeout \in Nat
      /\ lightCount \in Nat /\ Never(Gap) \in Nat
  BY IdentificationAssumption DEF LightsHeard, Never
<1>8. CountAfter \in Nat
  BY <1>7 DEF CountAfter
<1>12. msg # << >> => \E p \in 0..Road : said'[p].age <= 0
  <2> SUFFICES ASSUME msg # << >> PROVE msg[1].at \in 0..Road /\ said'[msg[1].at].age <= 0
    OBVIOUS
  <2>1. 1 \in DOMAIN msg
    BY <1>6
  <2>2. msg[1].at \in 0..Road /\ said'[msg[1].at] =
           [state |-> msg[1].state, age |-> 0,
            passAge |-> IF msg[1].state \in PassStates THEN 0 ELSE said[msg[1].at].passAge]
    BY <1>4, <2>1
  <2>3. said'[msg[1].at].age = 0
    BY <2>2
  <2> QED
    BY <2>2, <2>3
<1>9. CASE stop_lines' = << >>
  <2>1. stop_lines' \in Seq(LineType) /\ DOMAIN stop_lines' = {}
    BY <1>9
  <2>2. /\ lightAge' \in Nat /\ lightCount' \in Nat
        /\ (lightCount' > 0 => lightAge' = 0 /\ msg # << >>)
    <3>1. CASE LightsOfNoSignalizedScene
      BY <1>7, <3>1 DEF LightsOfNoSignalizedScene
    <3>2. CASE EmptyLights(msg)
      BY <3>2 DEF EmptyLights
    <3>3. CASE LightsNotWorking(msg)
      BY <1>8, <3>3 DEF LightsNotWorking
    <3>4. CASE LightsWork(msg)
      BY <1>8, <3>4 DEF LightsWork
    <3> QED
      BY <1>1, <3>1, <3>2, <3>3, <3>4 DEF TrafficLightCallback
  <2>3. msg # << >> => \E p \in 0..Road : said'[p].age <= 0
    BY <1>12
  <2> QED
    BY <1>4, <2>1, <2>2, <2>3 DEF LightsHeard
<1>10. CASE LightsWork(msg)
  <2>1. PICK order \in InOrder(NewPhases(msg)) : stop_lines' = StopLinesWith(msg, order)
    BY <1>10 DEF LightsWork
  <2>2. /\ stop_lines' \in Seq(LineType)
        /\ \A i \in DOMAIN stop_lines' :
              \/ /\ i \in DOMAIN stop_lines /\ stop_lines'[i] = stop_lines[i]
                 /\ \A j \in DOMAIN msg : msg[j].at # stop_lines'[i].at
              \/ \E j \in DOMAIN msg, age \in Nat :
                    /\ stop_lines'[i] = Line(msg[j], age)
                    /\ age <= EvidenceTimeout => said[msg[j].at].passAge <= age
    <3>1. \A lines : lines = StopLinesWith(msg, order) =>
        /\ lines \in Seq(LineType)
        /\ \A i \in DOMAIN lines :
              \/ /\ i \in DOMAIN stop_lines /\ lines[i] = stop_lines[i]
                 /\ \A j \in DOMAIN msg : msg[j].at # lines[i].at
              \/ \E j \in DOMAIN msg, age \in Nat :
                    /\ lines[i] = Line(msg[j], age)
                    /\ age <= EvidenceTimeout => said[msg[j].at].passAge <= age
      BY <1>2, LinesAfter
    <3> QED
      BY <2>1, <3>1
  <2>3. ASSUME NEW i \in DOMAIN stop_lines'
        PROVE  Heard(stop_lines'[i], said'[stop_lines'[i].at])
    <3>1. CASE /\ i \in DOMAIN stop_lines /\ stop_lines'[i] = stop_lines[i]
               /\ \A j \in DOMAIN msg : msg[j].at # stop_lines'[i].at
      <4>1. stop_lines'[i].at \in 0..Road
        <5>1. stop_lines'[i] \in LineType
          BY <2>2, InSeq
        <5> QED
          BY <5>1 DEF LineType
      <4>2. said'[stop_lines'[i].at] = said[stop_lines[i].at]
        BY <1>4, <3>1, <4>1
      <4> QED
        BY <3>1, <4>2 DEF LightsHeard
    <3>2. ASSUME NEW j \in DOMAIN msg, NEW age \in Nat, stop_lines'[i] = Line(msg[j], age),
                 age <= EvidenceTimeout => said[msg[j].at].passAge <= age
          PROVE  Heard(stop_lines'[i], said'[stop_lines'[i].at])
      <4>1. said[msg[j].at] \in [state : LightStates, age : Nat, passAge : Nat]
        BY <1>4 DEF LightsHeard, SaidType
      <4>2. stop_lines'[i].at = msg[j].at
        BY <3>2 DEF Line
      <4>3. Heard(Line(msg[j], age),
                  [state |-> msg[j].state, age |-> 0,
                   passAge |-> IF msg[j].state \in PassStates THEN 0 ELSE said[msg[j].at].passAge])
        BY <1>3, <3>2, <4>1, HeardOfAMessage
      <4>4. said'[msg[j].at] =
              [state |-> msg[j].state, age |-> 0,
               passAge |-> IF msg[j].state \in PassStates THEN 0 ELSE said[msg[j].at].passAge]
        BY <1>4
      <4> QED
        BY <3>2, <4>2, <4>3, <4>4
    <3> QED
      BY <2>2, <3>1, <3>2
  <2>4. \A i \in DOMAIN stop_lines' : Heard(stop_lines[i], said[stop_lines[i].at])'
    BY <1>5, <2>3 DEF Heard
  <2>5. lightAge' = 0 /\ lightCount' \in Nat
    BY <1>8, <1>10 DEF LightsWork
  <2>6. \E p \in 0..Road : said'[p].age <= 0
    BY <1>10, <1>12 DEF LightsWork
  <2> QED
    BY <1>4, <2>2, <2>4, <2>5, <2>6 DEF LightsHeard
<1> QED
  BY <1>1, <1>9, <1>10 DEF TrafficLightCallback, LightsOfNoSignalizedScene, EmptyLights,
     LightsNotWorking, ClearSignalCache

\* Observing forgets the lines or leaves them as they are.
LEMMA HeardAfterObserve == ASSUME LightsHeard, Known, Observe PROVE LightsHeard'
<1>1. said' = said /\ config' = config
  BY ObserveTrajectories
<1>2. UNCHANGED lightVars \/ \E states : STChannelIdentify(states)
  BY DEF Observe, VehStateSeqCallback, IdentificationOutput
<1>3. CASE UNCHANGED lightVars
  BY <1>1, <1>3 DEF lightVars, LightsHeard, Heard
<1>4. CASE STCloses
  <2>1. stop_lines' = << >>
    BY <1>4 DEF STCloses, ClearSignalCache
  <2>2. stop_lines' \in Seq(LineType) /\ DOMAIN stop_lines' = {}
    BY <2>1
  <2>3. /\ lightAge \in Nat /\ lightCount \in Nat /\ Never(Gap) \in Nat /\ Gap \in Nat
        /\ ~(Never(Gap) <= Gap)
    BY IdentificationAssumption DEF LightsHeard, Never
  <2>4. /\ lightAge' \in {lightAge, Never(Gap)} /\ lightCount' \in {lightCount, 0}
        /\ lightCount' # 0 => lightAge' = lightAge /\ lightAge > Gap
    BY <1>4 DEF STCloses
  <2>5. lightAge' \in Nat /\ lightCount' \in Nat /\ ~(lightAge' <= Gap /\ lightCount' > 0)
    BY <2>3, <2>4
  <2> QED
    BY <1>1, <2>2, <2>5 DEF LightsHeard
<1> QED
  BY <1>2, <1>3, <1>4 DEF STChannelIdentify, STSkips, STJudges

LEMMA OlderLightIs ==
    ASSUME NEW light \in [state : LightStates, age : Nat, passAge : Nat]
    PROVE  OlderLight(light) =
              [state |-> light.state, age |-> Older(light.age, CacheTimeout),
               passAge |-> Older(light.passAge, EvidenceTimeout + CacheTimeout)]
<1> DEFINE a == Older(light.age, CacheTimeout)
           b == Older(light.passAge, EvidenceTimeout + CacheTimeout)
           m == [light EXCEPT !.age = a]
<1>1. OlderLight(light) = [m EXCEPT !.passAge = b]
  BY DEF OlderLight
<1> HIDE DEF a, b
<1>2. m = [state |-> light.state, age |-> a, passAge |-> light.passAge]
  OBVIOUS
<1> HIDE DEF m
<1>3. OlderLight(light) = [state |-> light.state, age |-> a, passAge |-> b]
  BY <1>1, <1>2
<1> QED
  BY <1>3 DEF a, b

LEMMA OlderHeard ==
    ASSUME NEW line \in LineType,
           NEW light \in [state : LightStates, age : Nat, passAge : Nat],
           Heard(line, light)
    PROVE  /\ OlderLine(line) \in LineType /\ OlderLine(line).at = line.at
           /\ OlderLight(light) \in [state : LightStates, age : Nat, passAge : Nat]
           /\ Heard(OlderLine(line), OlderLight(light))
<1>1. /\ EvidenceTimeout \in Nat /\ CacheTimeout \in Nat /\ line.stateAge \in Nat
      /\ line.passAge \in Nat /\ light.age \in Nat /\ light.passAge \in Nat
      /\ line.control \in BOOLEAN /\ line.at \in 0..Road /\ line.state \in LightStates
      /\ light.state \in LightStates
  BY IdentificationAssumption DEF LineType
<1> DEFINE l == OlderLine(line)
           s == OlderLight(light)
<1>2. /\ l = [at |-> line.at, state |-> line.state,
              stateAge |-> Older(line.stateAge, CacheTimeout),
              passAge |-> Older(line.passAge, EvidenceTimeout), control |-> line.control]
  <2> DEFINE a == Older(line.stateAge, CacheTimeout)
             b == Older(line.passAge, EvidenceTimeout)
             m == [line EXCEPT !.stateAge = a]
  <2>1. l = [m EXCEPT !.passAge = b]
    BY DEF OlderLine
  <2> HIDE DEF a, b
  <2>2. m = [at |-> line.at, state |-> line.state, stateAge |-> a,
             passAge |-> line.passAge, control |-> line.control]
    BY DEF LineType
  <2> HIDE DEF m
  <2>3. l = [at |-> line.at, state |-> line.state, stateAge |-> a, passAge |-> b,
             control |-> line.control]
    BY <2>1, <2>2
  <2> QED
    BY <2>3 DEF a, b
<1>3. s = [state |-> light.state, age |-> Older(light.age, CacheTimeout),
           passAge |-> Older(light.passAge, EvidenceTimeout + CacheTimeout)]
  BY OlderLightIs
<1> HIDE DEF l, s
<1>4. /\ Older(line.stateAge, CacheTimeout) \in Nat /\ Older(line.passAge, EvidenceTimeout) \in Nat
      /\ Older(light.age, CacheTimeout) \in Nat
      /\ Older(light.passAge, EvidenceTimeout + CacheTimeout) \in Nat
  BY <1>1 DEF Older
<1>5. l \in LineType /\ l.at = line.at
  BY <1>1, <1>2, <1>4 DEF LineType
<1>6. s \in [state : LightStates, age : Nat, passAge : Nat]
  BY <1>1, <1>3, <1>4
<1>7. l.state = s.state
  BY <1>2, <1>3 DEF Heard
<1>8. l.stateAge <= CacheTimeout => s.age <= l.stateAge
  BY <1>1, <1>2, <1>3 DEF Heard, Older
<1>9. l.passAge <= EvidenceTimeout => s.passAge <= l.passAge
  BY <1>1, <1>2, <1>3 DEF Heard, Older
<1>10. (~config.useScene /\ l.control /\ s.age <= CacheTimeout)
          => s.passAge <= s.age + EvidenceTimeout
  BY <1>1, <1>2, <1>3 DEF Heard, Older
<1> QED
  BY <1>5, <1>6, <1>7, <1>8, <1>9, <1>10 DEF Heard, l, s

LEMMA HeardAfterTime == ASSUME LightsHeard, TimePasses PROVE LightsHeard'
<1>1. /\ stop_lines' = [i \in DOMAIN stop_lines |-> OlderLine(stop_lines[i])]
      /\ said' = [p \in 0..Road |-> OlderLight(said[p])]
      /\ lightAge' = Older(lightAge, Gap) /\ lightCount' = lightCount /\ config' = config
  BY DEF TimePasses, Tick
<1>2. \A i \in DOMAIN stop_lines : stop_lines[i] \in LineType /\ stop_lines[i].at \in 0..Road
  <2>1. \A i \in DOMAIN stop_lines : stop_lines[i] \in LineType
    BY InSeq DEF LightsHeard
  <2> QED
    BY <2>1 DEF LineType
<1>3. \A p \in 0..Road : said[p] \in [state : LightStates, age : Nat, passAge : Nat]
  BY DEF LightsHeard, SaidType
<1>4. ASSUME NEW i \in DOMAIN stop_lines
      PROVE  /\ stop_lines'[i] \in LineType
             /\ Heard(stop_lines'[i], said'[stop_lines'[i].at])
  <2>1. /\ stop_lines[i] \in LineType /\ stop_lines[i].at \in 0..Road
        /\ said[stop_lines[i].at] \in [state : LightStates, age : Nat, passAge : Nat]
        /\ Heard(stop_lines[i], said[stop_lines[i].at])
    BY <1>2, <1>3 DEF LightsHeard
  <2>2. /\ OlderLine(stop_lines[i]) \in LineType
        /\ OlderLine(stop_lines[i]).at = stop_lines[i].at
        /\ Heard(OlderLine(stop_lines[i]), OlderLight(said[stop_lines[i].at]))
    BY <2>1, OlderHeard
  <2> QED
    BY <1>1, <2>1, <2>2
<1>5. stop_lines' \in Seq(LineType) /\ DOMAIN stop_lines' = DOMAIN stop_lines
  <2>1. DOMAIN stop_lines = 1..Len(stop_lines) /\ Len(stop_lines) \in Nat
    BY DEF LightsHeard
  <2> QED
    BY <1>1, <1>4, <2>1
<1>6. \A i \in DOMAIN stop_lines' : Heard(stop_lines[i], said[stop_lines[i].at])'
  BY <1>1, <1>4, <1>5 DEF Heard
<1>7. ASSUME NEW p \in 0..Road
      PROVE  /\ said'[p] \in [state : LightStates, age : Nat, passAge : Nat]
             /\ said'[p].age <= said[p].age + 1
  <2>1. said'[p] = [state |-> said[p].state, age |-> Older(said[p].age, CacheTimeout),
                    passAge |-> Older(said[p].passAge, EvidenceTimeout + CacheTimeout)]
    BY <1>1, <1>3, OlderLightIs
  <2>2. /\ said[p].state \in LightStates /\ said[p].age \in Nat /\ said[p].passAge \in Nat
        /\ EvidenceTimeout \in Nat /\ CacheTimeout \in Nat
    BY <1>3, IdentificationAssumption
  <2> QED
    BY <2>1, <2>2 DEF Older
<1>8. said' \in SaidType
  BY <1>1, <1>7 DEF SaidType
<1>9. lightAge' \in Nat /\ lightCount' \in Nat
  BY <1>1, IdentificationAssumption DEF LightsHeard, Older
<1>10. (lightAge' <= Gap /\ lightCount' > 0) => \E p \in 0..Road : said'[p].age <= lightAge'
  <2> SUFFICES ASSUME lightAge' <= Gap, lightCount' > 0
               PROVE  \E p \in 0..Road : said'[p].age <= lightAge'
    OBVIOUS
  <2>1. lightAge <= Gap /\ lightAge' = lightAge + 1 /\ lightCount > 0 /\ lightAge \in Nat
    BY <1>1, IdentificationAssumption DEF LightsHeard, Older
  <2>2. PICK p \in 0..Road : said[p].age <= lightAge
    BY <2>1 DEF LightsHeard
  <2>3. said'[p].age <= said[p].age + 1 /\ said'[p].age \in Nat /\ said[p].age \in Nat
    BY <1>3, <1>7
  <2> QED
    BY <2>1, <2>2, <2>3
<1> QED
  BY <1>5, <1>6, <1>8, <1>9, <1>10 DEF LightsHeard

LEMMA StepHeard == LightsHeard /\ Known /\ [SysNext]_sysVars => LightsHeard'
<1> SUFFICES ASSUME LightsHeard, Known, [SysNext]_sysVars PROVE LightsHeard'
  OBVIOUS
<1>1. ASSUME UNCHANGED <<lightVars, config, said>> PROVE LightsHeard'
  BY <1>1 DEF LightsHeard, Heard, lightVars
<1>2. ASSUME NEW v \in Vehicles, Spawn(v) \/ Destroy(v) PROVE LightsHeard'
  BY <1>1, <1>2 DEF Spawn, Destroy, vars, historyVars
<1>10. CASE Publish
  BY <1>1, <1>10, PublishIs DEF vars, historyVars
<1>3. CASE Observe
  BY <1>3, HeardAfterObserve
<1>4. CASE Lights
  BY <1>4, HeardAfterLights
<1>5. CASE ScenarioChanges
  BY <1>1, <1>5 DEF ScenarioChanges, vars, historyVars
<1>6. CASE ClassifierResets
  BY <1>1, <1>6 DEF ClassifierResets, vars, historyVars
<1>7. CASE IdentificationResets
  <2>1. (stop_lines = << >> /\ lightAge = Gap + 1 /\ lightCount = 0 /\ said = Silence)'
    BY <1>7 DEF Silence, IdentificationResets, ScenarioStatusCallback, ClearSignalCache, Never
  <2> QED
    BY <2>1, EmptyHeard, PTL
<1>8. CASE TimePasses
  BY <1>8, HeardAfterTime
<1>9. CASE UNCHANGED sysVars
  BY <1>1, <1>9 DEF sysVars, vars, historyVars
<1> QED
  BY <1>2, <1>3, <1>4, <1>5, <1>6, <1>7, <1>8, <1>9, <1>10 DEF SysNext, Meanwhile

LEMMA RedIsHeard ==
    ASSUME Known, LightsHeard, [SysNext]_sysVars,
           NEW v \in Vehicles, <<v, RedLight>> \in NewItems
    PROVE  /\ \E i \in DOMAIN stop_lines :
                LET light == said[stop_lines[Source(i)].at]
                IN  /\ last_pos[v] <= stop_lines[i].at /\ stop_lines[i].at <= last_pos'[v]
                    /\ light.state = "red" /\ light.age <= CacheTimeout
                    /\ ~config.useScene => light.passAge <= light.age + EvidenceTimeout
           /\ ~config.useScene => \E p \in 0..Road : said[p].age <= Gap
<1> DEFINE states == last_valid_states'
<1>1. Observe /\ IdentificationOutput(states)
  BY PanelSteps DEF NewItems, panelVars, RemoveRed, WithoutRed
<1>2. STChannelIdentify(states)
  BY <1>1, OutputEnters
<1>3. PICK found : Enters(found) /\ Sources(states, found)
  BY <1>1, OutputEnters
<1>4. PICK selected \in Selections(states) : <<v, RedLight>> \in LightVerdicts(states, selected)
  <2>1. <<v, RedLight>> \in found
    BY <1>3, PanelAfter DEF NewItems
  <2> QED
    BY <1>3, <2>1 DEF Sources
<1>5. /\ Judging(states) /\ STJudges(states) /\ v \in DOMAIN states
      /\ selected[v] \in CrossCandidates(v, states)
      /\ stop_lines[Source(selected[v])].state = "red"
  BY <1>2, <1>4, RedIsNew
<1> HIDE DEF states
<1>6. last_pos'[v] = states[v].at
  BY <1>5 DEF STJudges
<1>7. PICK i \in CrossCandidates(v, states) : stop_lines[Source(i)].state = "red"
  BY <1>5
<1> DEFINE source == stop_lines[Source(i)]
           light == said[source.at]
<1>8. /\ i \in DOMAIN stop_lines
      /\ last_pos[v] <= stop_lines[i].at /\ stop_lines[i].at <= states[v].at
      /\ Source(i) \in DOMAIN stop_lines
      /\ source.control /\ source.stateAge <= CacheTimeout /\ source.state = "red"
  BY <1>7 DEF CrossCandidates
<1>9. source \in LineType /\ Heard(source, light)
  BY <1>8, InSeq DEF LightsHeard
<1>10. light.age \in Nat /\ source.stateAge \in Nat /\ CacheTimeout \in Nat
  BY <1>9, IdentificationAssumption DEF LightsHeard, LineType, SaidType
<1> HIDE DEF light, source
<1>11. light.state = "red" /\ light.age <= CacheTimeout
  BY <1>8, <1>9, <1>10 DEF Heard
<1>12. ~config.useScene => light.passAge <= light.age + EvidenceTimeout
  BY <1>8, <1>9, <1>11 DEF Heard
<1>13. ~config.useScene => \E p \in 0..Road : said[p].age <= Gap
  <2> SUFFICES ASSUME ~config.useScene PROVE \E p \in 0..Road : said[p].age <= Gap
    OBVIOUS
  <2>1. lightAge <= Gap /\ lightCount >= MinCount
    BY <1>5 DEF Judging, GateOpen
  <2>2. PICK p \in 0..Road : said[p].age <= lightAge
    BY <2>1, IdentificationAssumption DEF LightsHeard
  <2>3. said[p].age \in Nat /\ lightAge \in Nat /\ Gap \in Nat
    BY <2>2, IdentificationAssumption DEF LightsHeard, SaidType
  <2> QED
    BY <2>1, <2>2, <2>3
<1> QED
  BY <1>6, <1>8, <1>11, <1>12, <1>13 DEF light, source

\* In every order of vehicle states, messages of the lights, changes of the
\* scenario and passing of time, a verdict on a red light rests on what was last
\* said of that light, recently (STChannelIdentify).
THEOREM RedWasRed == SysSpec => RedIsTrue
<1>1. Known /\ LightsHeard /\ [SysNext]_sysVars
         => /\ (Known /\ LightsHeard)'
            /\ [\A v \in Vehicles : <<v, RedLight>> \in NewItems =>
                  /\ \E i \in DOMAIN stop_lines :
                        LET light == said[stop_lines[Source(i)].at]
                        IN  /\ last_pos[v] <= stop_lines[i].at /\ stop_lines[i].at <= last_pos'[v]
                            /\ light.state = "red" /\ light.age <= CacheTimeout
                            /\ ~config.useScene => light.passAge <= light.age + EvidenceTimeout
                  /\ ~config.useScene => \E p \in 0..Road : said[p].age <= Gap]_sysVars
  BY StepKnown, StepHeard, RedIsHeard
<1> QED
  BY <1>1, InitKnown, InitHeard, PTL DEF SysSpec, RedIsTrue
=============================================================================
