-------------------------- MODULE CarStateClassify --------------------------
(***************************************************************************)
(* The node that strings the simulator's object messages together to one   *)
(* trajectory per vehicle, and publishes all of them after each message,   *)
(* src/behavior_identification/src/car_state_classify.cpp.                 *)
(*                                                                         *)
(* A trajectory only ever grows: a vehicle that is no longer among the     *)
(* objects keeps the one it had until the scenario changes.  What the      *)
(* identification looks at is kept of it: whether it is long enough, where *)
(* it began and ended, whether it moved, and its last speeds.              *)
(***************************************************************************)
EXTENDS Integers, Sequences, SequencesExt

CONSTANTS MaxPoses,     \* the length above which trajectories are alike
          Window        \* how many of the last speeds are kept

VARIABLE veh_state_sequences   \* the map of the trajectories by id

Init == veh_state_sequences = [v \in {} |-> 0]

\* The low-pass filter takes a twentieth of the new speed: at the speeds of
\* vehicles it does not leave the class of the old one by more than one.
LowPassFilter(old, new) ==
    IF new > old THEN {old, old + 1} ELSE IF new < old THEN {old, old - 1} ELSE {old}

NewSequence(obj) ==
    [poses |-> 1, birth |-> obj.at, at |-> obj.at, speeds |-> <<obj.speed>>,
     moved |-> obj.speed > 0]

Extended(seq, obj, speed) ==
    LET all == Append(seq.speeds, speed)
        excess == IF Len(all) > Window THEN Len(all) - Window ELSE 0
    IN  [seq EXCEPT !.poses = IF @ < MaxPoses THEN @ + 1 ELSE @,
                    !.at = obj.at,
                    !.speeds = SubSeq(all, excess + 1, Len(all)),
                    !.moved = @ \/ obj.at # seq.at \/ speed > 0]

\* The trajectories after a message, whatever the filter makes of its speeds.
SequencesAfter(objects) ==
    LET known == DOMAIN veh_state_sequences
        old == DOMAIN objects \cap known
        filtered == {out \in [old -> 0..2] :
            \A v \in old : out[v] \in LowPassFilter(Last(veh_state_sequences[v].speeds),
                                                    objects[v].speed)}
    IN  {[v \in known \cup DOMAIN objects |->
            IF v \in old THEN Extended(veh_state_sequences[v], objects[v], out[v])
            ELSE IF v \in known THEN veh_state_sequences[v]
            ELSE NewSequence(objects[v])] : out \in filtered}

\* The message that is published is the new value of veh_state_sequences.
ObjectArrayCallback(objects) == veh_state_sequences' \in SequencesAfter(objects)

\* Mutant: a change of the scenario only begins new trajectories.
ScenarioStatusKeeps == UNCHANGED veh_state_sequences

ScenarioStatusCallback == veh_state_sequences' = [v \in {} |-> 0]
=============================================================================
