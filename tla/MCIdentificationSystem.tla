----------------------- MODULE MCIdentificationSystem -----------------------
EXTENDS IdentificationSystem, TLC

Config(useScene, red, slow, lty, shapes) ==
    [useScene |-> useScene, enableRed |-> red, enableSlow |-> slow, enableLty |-> lty,
     shapes |-> shapes]
BySceneType == Config(TRUE, TRUE, FALSE, FALSE, {})
ByEvidence == Config(FALSE, TRUE, FALSE, FALSE, {})
SlowCheck == Config(TRUE, FALSE, TRUE, FALSE, {})
SlowTraffic == Config(FALSE, FALSE, TRUE, FALSE, {})
Shapes == Config(FALSE, FALSE, FALSE, TRUE, {"Overspeed"})
MCConfigs == {BySceneType, ByEvidence, SlowCheck, SlowTraffic, Shapes}

CONSTANTS a, b
Phase(p, s) == [at |-> p, state |-> s]
Four(s, t) == <<Phase(1, s), Phase(2, t), Phase(3, s), Phase(4, t)>>

\* What may be observed: vehicle a drives; b stands ahead of it, or succeeds it.
Bound(births, speeds, birthsOfB, lights, types, delays) ==
    [births |-> (a :> births @@ b :> birthsOfB), speeds |-> (a :> speeds @@ b :> {Standing}),
     lights |-> lights, types |-> types, delays |-> delays]
MCBounds ==
    (BySceneType :> Bound({0, 2}, {Normal}, {},
        {Four("yellow", "red"), Four("red", "unknown")}, {"tl_intersection", "other"}, TRUE))
    @@ (ByEvidence :> Bound({2}, {Normal}, {},
        {<< >>, <<Phase(3, "red")>>, <<Phase(3, "green")>>}, {"other"}, TRUE))
    @@ (SlowCheck :> Bound({2}, 0..2, {}, {<<Phase(4, "red")>>}, {"tl_intersection"}, FALSE))
    @@ (SlowTraffic :> Bound({3}, 1..2, {4}, {}, {"other"}, FALSE))
    @@ (Shapes :> Bound({4}, {Normal}, {4}, {}, {"other"}, TRUE))
=============================================================================
