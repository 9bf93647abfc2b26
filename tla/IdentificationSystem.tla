------------------------ MODULE IdentificationSystem ------------------------
(***************************************************************************)
(* The two nodes of src/behavior_identification between the simulation,    *)
(* the publisher of the traffic lights and whoever announces that the      *)
(* scenario has changed (no node of the repository does).                  *)
(*                                                                         *)
(* The trajectories are on their way for a while, and are dropped when the *)
(* subscription's queue is full; each message repeats all of them.  The    *)
(* nodes learn of a change independently of each other, so that one may    *)
(* still work on the old scenario, or be sent to, when the other has       *)
(* forgotten it.                                                           *)
(***************************************************************************)
EXTENDS BehaviorIdentification

CONSTANTS Road,            \* the last place of the road
          Depth,           \* of the subscription to the trajectories
          MaxStep,         \* how far a vehicle drives between two messages
          Bounds           \* by configuration: the places where vehicles appear, their
                           \* speeds, the messages of the lights, the types of scenes,
                           \* and whether anything happens while a message is on its way

ASSUME BoundsAssumption ==
    /\ Road \in Nat
    /\ Depth \in Nat \ {0}
    /\ \A c \in Configs : \A msg \in Bounds[c].lights :
          /\ msg \in Seq([at : 0..Road, state : LightStates])
          /\ \A i, j \in DOMAIN msg : msg[i].at = msg[j].at => i = j

VARIABLES veh_state_sequences,
          topic,           \* /veh_state_sequences: what is published and not yet handled
          present,         \* the vehicles in the simulation
          gone,            \* those that were
          former,          \* ... before the last change of the scenario
          statusC, statusI,    \* whether CarStateClassify, the identification still
                               \* have to handle the change
          said,            \* history: the last phase published for each stop line
          contrary,        \* history: how long ago v was last observed not to be slow
          heard            \* history: of whom there was a message since the reset

C == INSTANCE CarStateClassify WITH MaxPoses <- SlowPoses, Window <- BrakeWindow

worldVars == <<present, gone, former>>
historyVars == <<said, contrary, heard>>
classifierVars == <<veh_state_sequences, topic>>
sysVars == <<vars, classifierVars, worldVars, statusC, statusI, historyVars>>

Silence == [p \in 0..Road |-> [state |-> "unknown", age |-> Never(CacheTimeout),
                                passAge |-> Never(EvidenceTimeout + CacheTimeout)]]
Unobserved == [v \in Vehicles |-> 0]

SysInit ==
    /\ Init /\ C!Init /\ topic = << >>
    /\ scene_type \in Bounds[config].types
    /\ present = {} /\ gone = {} /\ former = {}
    /\ statusC = FALSE /\ statusI = FALSE
    /\ said = Silence /\ contrary = Unobserved /\ heard = {}

\* An id is not used again.
Spawn(v) ==
    /\ v \notin present \cup gone /\ Bounds[config].births[v] # {}
    /\ present' = present \cup {v}
    /\ UNCHANGED <<vars, classifierVars, gone, former, statusC, statusI, historyVars>>

Destroy(v) ==
    /\ v \in present
    /\ present' = present \ {v}
    /\ gone' = gone \cup {v}
    /\ UNCHANGED <<vars, classifierVars, former, statusC, statusI, historyVars>>

SlowAndFree(v, states, lines) ==
    /\ Speed(v, states) # Normal
    /\ ~VehicleAhead(v, states)
    /\ ~BeforeStopLine(v, states, lines, WaitDistance)

Reachable(v, speed) ==
    IF v \in DOMAIN veh_state_sequences
    THEN LET at == veh_state_sequences[v].at
         IN  IF speed = Standing THEN {at} ELSE {p \in 0..Road : p - at \in 0..MaxStep}
    ELSE Bounds[config].births[v]

\* A queue that is full drops its oldest message.
Enqueue(msg) ==
    topic' = LET queue == Append(topic, msg)
             IN  IF Len(queue) > Depth THEN Tail(queue) ELSE queue

\* The vehicles drive on, the simulator publishes them, and CarStateClassify
\* publishes the trajectories.
Publish ==
    \E objects \in [present -> [at : 0..Road, speed : 0..2]] :
        /\ \A v \in present : /\ objects[v].speed \in Bounds[config].speeds[v]
                              /\ objects[v].at \in Reachable(v, objects[v].speed)
        /\ C!ObjectArrayCallback(objects)
        /\ Enqueue(veh_state_sequences')
        /\ UNCHANGED <<vars, worldVars, statusC, statusI, historyVars>>

\* The trajectories are identified.
Observe ==
    /\ topic # << >> /\ topic' = Tail(topic)
    /\ VehStateSeqCallback(Head(topic))
    /\ contrary' = [v \in Vehicles |->
          IF /\ v \in DOMAIN last_valid_states'
             /\ SlowAndFree(v, last_valid_states', stop_lines')
          THEN contrary[v] ELSE 0]
    /\ heard' = heard \cup DOMAIN Head(topic)
    /\ UNCHANGED <<veh_state_sequences, worldVars, statusC, statusI, said>>

Lights ==
    \E msg \in Bounds[config].lights :
        /\ TrafficLightCallback(msg)
        /\ said' = [p \in 0..Road |->
              IF \E i \in DOMAIN msg : msg[i].at = p
              THEN LET s == msg[CHOOSE i \in DOMAIN msg : msg[i].at = p].state
                   IN  [state |-> s, age |-> 0,
                        passAge |-> IF s \in PassStates THEN 0 ELSE said[p].passAge]
              ELSE said[p]]
        /\ UNCHANGED <<classifierVars, worldVars, statusC, statusI, contrary, heard>>

ScenarioChanges ==
    /\ present = {} /\ ~statusC /\ ~statusI
    /\ statusC' = TRUE /\ statusI' = TRUE
    /\ former' = gone
    /\ UNCHANGED <<vars, classifierVars, present, gone, historyVars>>

ClassifierResets ==
    /\ statusC /\ statusC' = FALSE
    /\ C!ScenarioStatusCallback
    /\ UNCHANGED <<vars, topic, worldVars, statusI, historyVars>>

IdentificationResets ==
    /\ statusI /\ statusI' = FALSE
    /\ \E type \in Bounds[config].types \cup {"keep"} : ScenarioStatusCallback(type)
    /\ said' = Silence /\ contrary' = Unobserved /\ heard' = {}
    /\ UNCHANGED <<classifierVars, worldVars, statusC>>

OlderLight(light) ==
    [light EXCEPT !.age = Older(light.age, CacheTimeout),
                  !.passAge = Older(light.passAge, EvidenceTimeout + CacheTimeout)]

TimePasses ==
    /\ Tick
    /\ said' = [p \in 0..Road |-> OlderLight(said[p])]
    /\ contrary' = [v \in Vehicles |-> Older(contrary[v], SlowDuration - 1)]
    /\ UNCHANGED <<classifierVars, worldVars, statusC, statusI, heard>>

Meanwhile ==
    \/ \E v \in Vehicles : Spawn(v) \/ Destroy(v)
    \/ Publish
    \/ Lights
    \/ ScenarioChanges
    \/ ClassifierResets
    \/ IdentificationResets
    \/ TimePasses

SysNext ==
    \/ Observe
    \/ (topic = << >> \/ Bounds[config].delays) /\ Meanwhile

SysSpec == SysInit /\ [][SysNext]_sysVars
-----------------------------------------------------------------------------
NewItems == history_queue' \ history_queue

\* A vehicle is called abnormally slow only if all that was observed of it in
\* the last SlowDuration was slow, with no vehicle ahead and no stop line near:
\* every exit of the check forgets since when the vehicle has been slow.
SlowIsContinuous ==
    [][\A v \in Vehicles : <<v, AbnormallySlow>> \in NewItems => contrary[v] >= SlowDuration]_sysVars

\* Who is said to have run a red light crossed a line for which the last
\* message of this scene, no older than the cache may be, said red; and where
\* the scene is not known to be signalized, lights were being heard of, and
\* that light had recently let somebody pass when it said red.
RedIsTrue ==
    [][\A v \in Vehicles : <<v, RedLight>> \in NewItems =>
          /\ \E i \in DOMAIN stop_lines :
                LET light == said[stop_lines[Source(i)].at]
                IN  /\ last_pos[v] <= stop_lines[i].at /\ stop_lines[i].at <= last_pos'[v]
                    /\ light.state = "red" /\ light.age <= CacheTimeout
                    /\ ~config.useScene => light.passAge <= light.age + EvidenceTimeout
          /\ ~config.useScene => \E p \in 0..Road : said[p].age <= Gap
      ]_sysVars

\* Once both nodes have handled a change, in whichever order, nothing is on its
\* way between them, and a vehicle has been observed long enough, no trajectory
\* in use is that of a vehicle of a former scene.
OldSceneFades ==
    (~statusC /\ ~statusI /\ topic = << >> /\ \E v \in DOMAIN veh_state_sequences :
        veh_state_sequences[v].poses > ValidPoses)
    => DOMAIN last_valid_states \cap former = {}

\* Whatever the identification remembers of a vehicle, in its nine maps and
\* sets, on the panel and in what keeps verdicts from being repeated, it was
\* told of that vehicle in this scene: a reset reaches all of them, and what
\* arrives after it, though it was sent before, is entered in all of them.
Remembered ==
    DOMAIN last_valid_states \cup DOMAIN birth_pos \cup DOMAIN last_pos
    \cup spawned_inside \cup checked \cup slow_ready
    \cup DOMAIN first_seen \cup DOMAIN slow_begin \cup DOMAIN suppression
    \cup {pair[1] : pair \in lty_reported_pairs} \cup {pair[2] : pair \in lty_reported_pairs}
    \cup {item[1] : item \in history_queue \cup history_dedup}

RemembersThisScene == Remembered \subseteq heard

\* Each vehicle is judged at the first line it crosses (identification.cpp:2137:
\* only the entry line counts, so that the exit line is not taken for it).
JudgedAtEntry ==
    [][\A v \in Vehicles : <<v, RedLight>> \in NewItems =>
          \A i \in DOMAIN stop_lines :
              ~(birth_pos[v] <= stop_lines[i].at /\ stop_lines[i].at < last_pos[v])]_sysVars
=============================================================================
