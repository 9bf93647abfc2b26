------------------------ MODULE TrafficLightPublisher ------------------------
(***************************************************************************)
(* The roadside node's estimate of the remaining times of the lights of    *)
(* one junction, src/road_side_system/src/traffic_light_utils.cpp.         *)
(*                                                                         *)
(* The lights of a group are CARLA's: they have their turns one after the  *)
(* other, each green, yellow, then red together with all others; one clock *)
(* per group runs since the last change and is shown by the light whose    *)
(* turn it is.  The publisher asks CARLA for the clock first and for the   *)
(* colours later (GetActiveLight, EstimateRemainingTime); the simulation   *)
(* may tick in between.  Times are in ticks.                               *)
(***************************************************************************)
EXTENDS Integers, FiniteSetsExt

CONSTANTS N,           \* the lights of the group are 1..N, in the order of their turns
          GreenTime,   \* the arguments of SetTrafficLightPhases
          YellowTime,
          RedTime,
          Unknown,     \* what is published if no active light is found (30 s)
          MaxLag       \* how many ticks may pass between the two questions

ASSUME LightsAssumption ==
    /\ N \in Nat \ {0}
    /\ GreenTime \in Nat \ {0} /\ YellowTime \in Nat \ {0} /\ RedTime \in Nat \ {0}
    /\ Unknown \in Nat
    /\ MaxLag \in Nat

VARIABLES turn,       \* the light whose turn it is
          colour,     \* its colour; all others are red
          elapsed,    \* the clock of the group
          step,       \* the publisher is about to "find" the active light or to "estimate"
          light,      \* the light it builds the message for
          active,     \* the active light it has found, 0: none
          clock,      \* ... and how long it has its colour
          lag,        \* how many ticks ago that was
          straddled,  \* history: the group has changed colour since
          remaining   \* msg.remaining_time of the last message built

group == <<turn, colour, elapsed>>
vars == <<group, step, light, active, clock, lag, straddled, remaining>>

Lights == 1..N
Colours == {"Green", "Yellow", "Red"}
Duration(c) == CASE c = "Green" -> GreenTime
                 [] c = "Yellow" -> YellowTime
                 [] c = "Red" -> RedTime
Turn == GreenTime + YellowTime + RedTime

\* One tick of the simulation, as a function of the group's state.
Following(i) == IF i = N THEN 1 ELSE i + 1

After(g) ==
    IF g.elapsed + 1 < Duration(g.colour) THEN [g EXCEPT !.elapsed = @ + 1]
    ELSE CASE g.colour = "Green" -> [g EXCEPT !.colour = "Yellow", !.elapsed = 0]
           [] g.colour = "Yellow" -> [g EXCEPT !.colour = "Red", !.elapsed = 0]
           [] g.colour = "Red" -> [turn |-> Following(g.turn), colour |-> "Green", elapsed |-> 0]

Now == [turn |-> turn, colour |-> colour, elapsed |-> elapsed]
-----------------------------------------------------------------------------
\* SetTrafficLightPhases sets the times of all lights and resets their group.
Init ==
    /\ turn = 1
    /\ colour = "Green"
    /\ elapsed = 0
    /\ step = "find"
    /\ light = 1
    /\ active = 0
    /\ clock = 0
    /\ lag = 0
    /\ straddled = FALSE
    /\ remaining = 0

Tick ==
    /\ step = "estimate" => lag < MaxLag
    /\ turn' = After(Now).turn
    /\ colour' = After(Now).colour
    /\ elapsed' = After(Now).elapsed
    /\ lag' = IF step = "estimate" THEN lag + 1 ELSE 0
    /\ straddled' = (straddled \/ (step = "estimate" /\ elapsed' = 0))
    /\ UNCHANGED <<step, light, active, clock, remaining>>

\* The light whose clock runs; if there is none, one that is not red, with its
\* full time; if all are red, none.
GetActiveLight ==
    /\ step = "find"
    /\ \/ elapsed > 0 /\ active' = turn /\ clock' = elapsed
       \/ elapsed = 0 /\ colour # "Red" /\ active' = turn /\ clock' = Duration(colour)
       \/ elapsed = 0 /\ colour = "Red" /\ active' = 0 /\ clock' = 0
    /\ step' = "estimate"
    /\ lag' = 0
    /\ straddled' = FALSE
    /\ UNCHANGED <<group, light, remaining>>

\* Mutant: the light itself is waited for, too.
BetweenAndItself(a, i) == ((i - a - 1) % N) + 1

\* The lights that have their turns after light a and before light i.
Between(a, i) == (i - a - 1) % N

\* Mutant: the whole turn is waited for, whatever of it is over.
RestOfTurnFromGreen(c) == Turn

\* What light a, with the colour c, still has to do before the next turn.
RestOfTurn(c) ==
    CASE c = "Green" -> GreenTime + YellowTime + RedTime
      [] c = "Yellow" -> YellowTime + RedTime
      [] c = "Red" -> RedTime

ColourOf(i) == IF i = turn THEN colour ELSE "Red"

\* A light that is not red: how long it keeps its colour; a red one: how long
\* until its turn.
Estimate(i) ==
    LET c == ColourOf(active)
        rest == IF i = active /\ c # "Red" THEN Duration(c)
                ELSE RestOfTurn(c) + Between(active, i) * Turn
    IN  IF active = 0 THEN Unknown ELSE Max({0, rest - clock})

EstimateRemainingTime ==
    /\ step = "estimate"
    /\ remaining' = Estimate(light)
    /\ light' = Following(light)
    /\ step' = "find"
    /\ lag' = 0
    /\ straddled' = FALSE
    /\ UNCHANGED <<group, active, clock>>

Next == Tick \/ GetActiveLight \/ EstimateRemainingTime

Spec == Init /\ [][Next]_vars
-----------------------------------------------------------------------------
TypeOK ==
    /\ turn \in Lights
    /\ colour \in Colours
    /\ elapsed \in 0..Duration(colour) - 1
    /\ step \in {"find", "estimate"}
    /\ light \in Lights
    /\ active \in Lights \cup {0}
    /\ clock \in 0..Max({GreenTime, YellowTime, RedTime})
    /\ lag \in 0..MaxLag
    /\ straddled \in BOOLEAN
    /\ remaining \in 0..Max({Unknown, N * Turn})

\* The reference: the group k ticks from now, and when a light that is not red
\* changes its colour and a red one becomes green.
Later[k \in Nat] == IF k = 0 THEN Now ELSE After(Later[k - 1])

Shown(g, i) == IF i = g.turn THEN g.colour ELSE "Red"

TrueRemaining(i) ==
    Min({k \in 1..N * Turn :
            LET c == Shown(Later[k], i)
            IN  IF ColourOf(i) = "Red" THEN c = "Green" ELSE c # ColourOf(i)})

\* The remaining time that is published is the true one, for any light at any
\* point of anybody's turn, later by what the simulation has ticked meanwhile:
\* if the clock was running when it was read, and no light changed between the
\* two questions to CARLA.  (If no clock runs, in the first tick of a phase, a
\* whole phase is taken for elapsed.)
RemainingIsExact ==
    [][EstimateRemainingTime /\ active # 0 /\ clock < Duration(colour) /\ ~straddled
          => remaining' = TrueRemaining(light) + lag]_vars

\* However the two questions fall, in the first tick of a phase or with changes
\* of the lights between them, so that the clock of one phase is subtracted from
\* the time of another: nobody is promised more time than the light has left,
\* counted from the moment the clock was read.
NeverTooLong ==
    [][EstimateRemainingTime /\ active # 0 => remaining' <= TrueRemaining(light) + lag]_vars
=============================================================================
