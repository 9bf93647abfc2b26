CONSTANTS
    Length = 14
    Trigger = 5
    TriggerRadius = 2
    Recovery = 10
    RecoveryRadius = 1
    MaxStep = 4
    WaitTime = 2
    Late = 5
    Noise = 2
    MaxTries = 3
SPECIFICATION FairSpec
INVARIANTS
    OneVerdict
    TriggerIsNotMissed
    SpeedFitsManoeuvre
    LaneChangeIsReal
PROPERTIES
    SpeedComesBack
