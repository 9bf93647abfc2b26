--------------------- MODULE TrafficLightPublisher_proofs ---------------------
(***************************************************************************)
(* What is published holds for every number of lights and every length of  *)
(* the phases: the reference runs a group forward tick by tick; here its   *)
(* state after any number of ticks is computed in closed form, from which  *)
(* the first change of a light can be read off.                            *)
(***************************************************************************)
EXTENDS TrafficLightPublisher, WellFoundedInduction, TLAPS

-----------------------------------------------------------------------------
\* A set of numbers has a least one: the induction of the proofs below.
LEMMA LeastElement ==
    ASSUME NEW T \in SUBSET Nat, T # {}
    PROVE  \E x \in T : \A y \in T : x <= y
<1>1. PICK x \in T : \A y \in T : ~(<<y, x>> \in OpToRel(<, Nat))
  BY NatLessThanWellFounded, WFMin
<1>2. \A y \in T : ~(y < x)
  BY <1>1 DEF OpToRel
<1>3. \A y \in T : x <= y
  <2> SUFFICES ASSUME NEW y \in T PROVE x <= y
    OBVIOUS
  <2>1. x \in Nat /\ y \in Nat
    BY <1>1
  <2> QED
    BY <1>2, <2>1
<1> QED
  BY <1>1, <1>3

(***************************************************************************)
(* Division by a divisor that is not a constant number.                    *)
(***************************************************************************)

LEMMA DivisionIs ==
    ASSUME NEW n \in Int, NEW d \in Nat \ {0}
    PROVE  /\ n \div d \in Int /\ n % d \in 0..d - 1
           /\ n = (n \div d) * d + (n % d)
OBVIOUS

LEMMA MultipleIsMore ==
    ASSUME NEW d \in Nat, NEW a \in Int, NEW b \in Int, a < b
    PROVE  a * d + d <= b * d
<1>1. ASSUME NEW c \in Nat \ {0} PROVE c * d >= d
  OBVIOUS
<1>2. b - a \in Nat \ {0}
  OBVIOUS
<1>3. (b - a) * d >= d
  BY <1>1, <1>2
<1>4. (b - a) * d = b * d - a * d
  OBVIOUS
<1> QED
  BY <1>3, <1>4

LEMMA DivisionIsUnique ==
    ASSUME NEW d \in Nat \ {0}, NEW q \in Int, NEW r \in 0..d - 1
    PROVE  (q * d + r) \div d = q /\ (q * d + r) % d = r
<1> DEFINE n == q * d + r
           p == n \div d
           s == n % d
<1>1. p \in Int /\ s \in 0..d - 1 /\ q * d + r = p * d + s
  BY DivisionIs
<1> HIDE DEF p, s
<1>2. ~(p < q)
  BY <1>1, MultipleIsMore
<1>3. ~(q < p)
  BY <1>1, MultipleIsMore
<1>4. p = q /\ s = r
  BY <1>1, <1>2, <1>3
<1> QED
  BY <1>4 DEF p, s

LEMMA RemainderIs ==
    ASSUME NEW n \in Nat, NEW d \in Nat \ {0}
    PROVE  /\ n < d => n % d = n
           /\ (n + 1) % d = IF (n % d) + 1 = d THEN 0 ELSE (n % d) + 1
<1> DEFINE q == n \div d
           r == n % d
<1>1. q \in Int /\ r \in 0..d - 1 /\ n = q * d + r
  BY DivisionIs
<1> HIDE DEF q, r
<1>2. ASSUME n < d PROVE n % d = n
  <2>1. n = 0 * d + n /\ n \in 0..d - 1
    BY <1>2
  <2> QED
    BY <2>1, DivisionIsUnique
<1>3. CASE r + 1 = d
  <2>1. n + 1 = (q + 1) * d + 0 /\ 0 \in 0..d - 1 /\ q + 1 \in Int
    BY <1>1, <1>3
  <2>2. (n + 1) % d = 0
    BY <2>1, DivisionIsUnique
  <2> QED
    BY <1>2, <1>3, <2>2 DEF r
<1>4. CASE r + 1 # d
  <2>1. n + 1 = q * d + (r + 1) /\ r + 1 \in 0..d - 1
    BY <1>1, <1>4
  <2>2. (n + 1) % d = r + 1
    BY <1>1, <2>1, DivisionIsUnique
  <2> QED
    BY <1>2, <1>4, <2>2 DEF r
<1> QED
  BY <1>3, <1>4
-----------------------------------------------------------------------------
(***************************************************************************)
(* The endless cycle of the group.  Every tick has a place in it; at q     *)
(* turns and o ticks from its begin it is the turn of light q % N + 1, and *)
(* o says which colour it has.                                             *)
(***************************************************************************)
PhaseAt(o) ==
    IF o < GreenTime THEN "Green" ELSE IF o < GreenTime + YellowTime THEN "Yellow" ELSE "Red"

Begin(c) == IF c = "Green" THEN 0 ELSE IF c = "Yellow" THEN GreenTime ELSE GreenTime + YellowTime

State(t, c, e) == [turn |-> t, colour |-> c, elapsed |-> e]
Stage(q, o) == State((q % N) + 1, PhaseAt(o), o - Begin(PhaseAt(o)))

Cycle(p) == Stage(p \div Turn, p % Turn)

GroupOK == turn \in Lights /\ colour \in Colours /\ elapsed \in 0..Duration(colour) - 1

\* How many ticks of its turn are over, and the place of the present tick.
Over == Begin(colour) + elapsed
Place == (turn - 1) * Turn + Over

LEMMA TurnIs == Turn \in Nat \ {0} /\ Turn = GreenTime + YellowTime + RedTime
BY LightsAssumption DEF Turn

LEMMA CycleIs ==
    ASSUME NEW q \in Int, NEW o \in 0..Turn - 1
    PROVE  Cycle(q * Turn + o) = Stage(q, o)
BY TurnIs, DivisionIsUnique DEF Cycle

LEMMA NextTurn ==
    ASSUME NEW q \in Nat
    PROVE  (q % N) + 1 \in Lights /\ ((q + 1) % N) + 1 = Following((q % N) + 1)
<1>1. N \in Nat \ {0}
  BY LightsAssumption
<1>2. q % N \in 0..N - 1
  BY <1>1
<1>3. (q + 1) % N = IF (q % N) + 1 = N THEN 0 ELSE (q % N) + 1
  BY <1>1, RemainderIs
<1> QED
  BY <1>1, <1>2, <1>3 DEF Following, Lights

LEMMA AfterIs ==
    ASSUME NEW t, NEW c \in Colours, NEW e \in Nat
    PROVE  After(State(t, c, e)) =
              IF e + 1 < Duration(c) THEN State(t, c, e + 1)
              ELSE IF c = "Green" THEN State(t, "Yellow", 0)
              ELSE IF c = "Yellow" THEN State(t, "Red", 0)
              ELSE State(Following(t), "Green", 0)
<1> DEFINE g == State(t, c, e)
<1>1. g.turn = t /\ g.colour = c /\ g.elapsed = e
  BY DEF State
<1>2. CASE e + 1 < Duration(c)
  <2>1. After(g) = [g EXCEPT !.elapsed = e + 1]
    BY <1>1, <1>2 DEF After
  <2> QED
    BY <1>2, <2>1 DEF State
<1>3. CASE ~(e + 1 < Duration(c)) /\ c = "Green"
  <2>1. After(g) = [g EXCEPT !.colour = "Yellow", !.elapsed = 0]
    BY <1>1, <1>3 DEF After
  <2> QED
    BY <1>3, <2>1 DEF State
<1>4. CASE ~(e + 1 < Duration(c)) /\ c = "Yellow"
  <2>1. After(g) = [g EXCEPT !.colour = "Red", !.elapsed = 0]
    BY <1>1, <1>4 DEF After
  <2> QED
    BY <1>4, <2>1 DEF State
<1>5. CASE ~(e + 1 < Duration(c)) /\ c = "Red"
  <2>1. After(g) = [turn |-> Following(t), colour |-> "Green", elapsed |-> 0]
    BY <1>1, <1>5 DEF After
  <2> QED
    BY <1>5, <2>1 DEF State
<1> QED
  BY <1>2, <1>3, <1>4, <1>5 DEF Colours

\* The tick after the o-th of a turn, by what is left of its phase.
LEMMA PhaseIs ==
    ASSUME NEW o \in 0..Turn - 1, NEW c, NEW e, c = PhaseAt(o), e = o - Begin(c)
    PROVE  /\ c \in Colours /\ e \in Nat /\ Duration(c) \in Nat
           /\ e + 1 < Duration(c) =>
                 o + 1 < Turn /\ PhaseAt(o + 1) = c /\ (o + 1) - Begin(c) = e + 1
           /\ e + 1 >= Duration(c) /\ c = "Green" =>
                 o + 1 < Turn /\ PhaseAt(o + 1) = "Yellow" /\ (o + 1) - Begin("Yellow") = 0
           /\ e + 1 >= Duration(c) /\ c = "Yellow" =>
                 o + 1 < Turn /\ PhaseAt(o + 1) = "Red" /\ (o + 1) - Begin("Red") = 0
           /\ e + 1 >= Duration(c) /\ c = "Red" <=> o + 1 = Turn
<1>1. CASE o < GreenTime
  BY <1>1, LightsAssumption, TurnIs DEF PhaseAt, Begin, Duration, Colours
<1>2. CASE o >= GreenTime /\ o < GreenTime + YellowTime
  BY <1>2, LightsAssumption, TurnIs DEF PhaseAt, Begin, Duration, Colours
<1>3. CASE o >= GreenTime + YellowTime
  BY <1>3, LightsAssumption, TurnIs DEF PhaseAt, Begin, Duration, Colours
<1> QED
  BY <1>1, <1>2, <1>3, LightsAssumption

\* A tick of the simulation leads to the next place.
LEMMA CycleRuns ==
    ASSUME NEW p \in Nat
    PROVE  After(Cycle(p)) = Cycle(p + 1)
<1> DEFINE q == p \div Turn
           o == p % Turn
<1>1. q \in Int /\ o \in 0..Turn - 1 /\ p = q * Turn + o
  BY TurnIs
<1> HIDE DEF q, o
<1>2. q \in Nat
  <2>1. ~(q < 0)
    BY <1>1, TurnIs, MultipleIsMore
  <2> QED
    BY <1>1, <2>1
<1> DEFINE t == (q % N) + 1
           c == PhaseAt(o)
           e == o - Begin(c)
<1>3. Cycle(p) = State(t, c, e)
  BY <1>1, CycleIs DEF Stage
<1>4. c = PhaseAt(o) /\ e = o - Begin(c)
  OBVIOUS
<1>5. t = (q % N) + 1
  OBVIOUS
<1> HIDE DEF t, c, e
<1>6. c \in Colours /\ e \in Nat /\ Duration(c) \in Nat
  BY <1>1, <1>4, PhaseIs
<1>7. CASE o + 1 < Turn
  <2>1. Cycle(p + 1) = State(t, PhaseAt(o + 1), (o + 1) - Begin(PhaseAt(o + 1)))
    <3>1. p + 1 = q * Turn + (o + 1) /\ o + 1 \in 0..Turn - 1
      BY <1>1, <1>7, TurnIs
    <3>2. Cycle(p + 1) = Stage(q, o + 1)
      BY <1>1, <3>1, CycleIs
    <3> QED
      BY <1>5, <3>2 DEF Stage
  <2>2. CASE e + 1 < Duration(c)
    BY <1>1, <1>3, <1>4, <1>6, <2>1, <2>2, PhaseIs, AfterIs
  <2>3. CASE e + 1 >= Duration(c) /\ c = "Green"
    <3>1. PhaseAt(o + 1) = "Yellow" /\ (o + 1) - Begin("Yellow") = 0
      BY <1>1, <1>4, <2>3, PhaseIs
    <3>2. ~(e + 1 < Duration(c))
      BY <1>6, <2>3
    <3>3. After(State(t, c, e)) = State(t, "Yellow", 0)
      BY <1>6, <2>3, <3>2, AfterIs
    <3> QED
      BY <1>3, <2>1, <3>1, <3>3
  <2>4. CASE e + 1 >= Duration(c) /\ c = "Yellow"
    <3>1. PhaseAt(o + 1) = "Red" /\ (o + 1) - Begin("Red") = 0
      BY <1>1, <1>4, <2>4, PhaseIs
    <3>2. ~(e + 1 < Duration(c))
      BY <1>6, <2>4
    <3>3. After(State(t, c, e)) = State(t, "Red", 0)
      BY <1>6, <2>4, <3>2, AfterIs
    <3> QED
      BY <1>3, <2>1, <3>1, <3>3
  <2>5. ~(e + 1 >= Duration(c) /\ c = "Red")
    BY <1>1, <1>4, <1>7, PhaseIs, TurnIs
  <2> QED
    BY <1>6, <2>2, <2>3, <2>4, <2>5 DEF Colours
<1>8. CASE o + 1 = Turn
  <2>1. Cycle(p + 1) = Stage(q + 1, 0)
    <3>1. p + 1 = (q + 1) * Turn + 0 /\ 0 \in 0..Turn - 1 /\ q + 1 \in Int
      BY <1>1, <1>8, TurnIs
    <3> QED
      BY <3>1, CycleIs
  <2>2. Stage(q + 1, 0) = State(Following(t), "Green", 0)
    <3>1. PhaseAt(0) = "Green" /\ 0 - Begin("Green") = 0
      BY LightsAssumption DEF PhaseAt, Begin
    <3> QED
      BY <1>2, <1>5, <3>1, NextTurn DEF Stage
  <2>3. e + 1 >= Duration(c) /\ c = "Red"
    BY <1>1, <1>4, <1>8, PhaseIs
  <2> QED
    BY <1>3, <1>6, <2>1, <2>2, <2>3, AfterIs
<1> QED
  BY <1>1, <1>7, <1>8, TurnIs

LEMMA OverIs ==
    ASSUME GroupOK
    PROVE  /\ Over \in 0..Turn - 1 /\ PhaseAt(Over) = colour
           /\ turn - 1 \in Nat /\ Place \in Nat
<1>1. Over \in 0..Turn - 1 /\ PhaseAt(Over) = colour
  BY LightsAssumption, TurnIs DEF GroupOK, Over, PhaseAt, Begin, Duration, Colours
<1>2. turn - 1 \in Nat
  BY LightsAssumption DEF GroupOK, Lights
<1>3. (turn - 1) * Turn \in Nat
  BY <1>2, TurnIs
<1> QED
  BY <1>1, <1>2, <1>3 DEF Place

LEMMA PresentTurn == GroupOK => ((turn - 1) % N) + 1 = turn
<1> SUFFICES ASSUME GroupOK PROVE ((turn - 1) % N) + 1 = turn
  OBVIOUS
<1>1. turn - 1 \in Nat /\ N \in Nat \ {0} /\ turn - 1 < N /\ turn \in Int
  BY OverIs, LightsAssumption DEF GroupOK, Lights
<1>2. (turn - 1) % N = turn - 1
  BY <1>1, RemainderIs
<1> QED
  BY <1>1, <1>2

LEMMA NowIs == GroupOK => Cycle(Place) = Now
<1> SUFFICES ASSUME GroupOK PROVE Cycle(Place) = Now
  OBVIOUS
<1>1. Cycle(Place) = Stage(turn - 1, Over)
  BY OverIs, CycleIs DEF Place
<1>2. Over - Begin(colour) = elapsed
  BY LightsAssumption DEF Over, GroupOK, Begin, Duration, Colours
<1> QED
  BY <1>1, <1>2, OverIs, PresentTurn DEF Stage, State, Now
-----------------------------------------------------------------------------
(***************************************************************************)
(* The reference is this cycle.                                            *)
(***************************************************************************)

\* Later is the function that its recursive definition describes.
LEMMA LaterRuns ==
    ASSUME GroupOK
    PROVE  Later = [k \in Nat |-> IF k = 0 THEN Now ELSE After(Later[k - 1])]
<1> DEFINE Runs(f) == f = [k \in Nat |-> IF k = 0 THEN Now ELSE After(f[k - 1])]
           g == [k \in Nat |-> Cycle(Place + k)]
<1>1. Runs(g)
  <2> SUFFICES ASSUME NEW k \in Nat
               PROVE  Cycle(Place + k) = IF k = 0 THEN Now ELSE After(g[k - 1])
    OBVIOUS
  <2>1. CASE k = 0
    BY <2>1, OverIs, NowIs
  <2>2. CASE k # 0
    <3>1. k - 1 \in Nat /\ Place + (k - 1) \in Nat /\ (Place + (k - 1)) + 1 = Place + k
      BY <2>2, OverIs
    <3>2. After(Cycle(Place + (k - 1))) = Cycle((Place + (k - 1)) + 1)
      BY <3>1, CycleRuns
    <3>3. g[k - 1] = Cycle(Place + (k - 1))
      BY <3>1
    <3> QED
      BY <2>2, <3>1, <3>2, <3>3
  <2> QED
    BY <2>1, <2>2
<1> HIDE DEF g
<1>2. \E f : Runs(f)
  BY <1>1
<1>3. Later = CHOOSE f : Runs(f)
  BY DEF Later
<1>4. Runs(CHOOSE f : Runs(f))
  BY <1>2
<1> QED
  BY <1>3, <1>4

LEMMA LaterIs ==
    ASSUME GroupOK
    PROVE  \A k \in Nat : Later[k] = Cycle(Place + k)
<1> DEFINE Wrong == {k \in Nat : Later[k] # Cycle(Place + k)}
<1>1. Later[0] = Now /\ \A k \in Nat \ {0} : Later[k] = After(Later[k - 1])
  BY LaterRuns
<1>2. ASSUME Wrong # {} PROVE FALSE
  <2>1. PICK x \in Wrong : \A y \in Wrong : x <= y
    BY <1>2, LeastElement
  <2>2. x \in Nat /\ Later[x] # Cycle(Place + x)
    BY <2>1
  <2>3. x # 0
    <3>1. Place + 0 = Place
      BY OverIs
    <3> QED
      BY <1>1, <2>2, <3>1, NowIs
  <2>4. x - 1 \in Nat /\ x - 1 \notin Wrong
    <3>1. x - 1 \in Nat /\ ~(x <= x - 1)
      BY <2>2, <2>3
    <3> QED
      BY <2>1, <3>1
  <2>5. Later[x - 1] = Cycle(Place + (x - 1))
    BY <2>4
  <2>6. Place + (x - 1) \in Nat /\ (Place + (x - 1)) + 1 = Place + x
    BY <2>2, <2>4, OverIs
  <2>7. Later[x] = Cycle(Place + x)
    BY <1>1, <2>2, <2>3, <2>5, <2>6, CycleRuns
  <2> QED
    BY <2>2, <2>7
<1> QED
  BY <1>2
-----------------------------------------------------------------------------
(***************************************************************************)
(* When a light changes.  Distance is what the publisher computes, if what *)
(* it was told is the present state of the group.                          *)
(***************************************************************************)
Distance(i) ==
    IF ColourOf(i) # "Red" THEN Duration(colour) - elapsed
    ELSE (RestOfTurn(colour) - elapsed) + Between(turn, i) * Turn

LEMMA MinimumIs ==
    ASSUME NEW S \in SUBSET Int, NEW m \in S, \A x \in S : m <= x
    PROVE  Min(S) = m
<1>1. Min(S) \in S /\ \A y \in S : Min(S) <= y
  BY DEF Min
<1>2. Min(S) \in Int /\ m \in Int /\ Min(S) <= m /\ m <= Min(S)
  BY <1>1
<1> QED
  BY <1>2

\* Which light it is that shows a colour.
LEMMA ShownIs ==
    ASSUME NEW q \in Int, NEW o \in 0..Turn - 1, NEW i
    PROVE  Shown(Cycle(q * Turn + o), i) = IF i = (q % N) + 1 THEN PhaseAt(o) ELSE "Red"
<1>1. Cycle(q * Turn + o) = Stage(q, o)
  BY CycleIs
<1> QED
  BY <1>1 DEF Stage, State, Shown

\* Between(turn, i) turns after the present one it is the turn of i, and no
\* sooner.
LEMMA BetweenIs ==
    ASSUME NEW t \in Lights, NEW i \in Lights
    PROVE  /\ Between(t, i) \in 0..N - 1
           /\ (t + Between(t, i)) % N = i - 1
           /\ \A q \in t..(t + Between(t, i)) - 1 : (q % N) + 1 # i
<1> DEFINE n == (i - t) - 1
           m == n \div N
           b == Between(t, i)
<1>1. N \in Nat \ {0} /\ t \in Int /\ i - 1 \in 0..N - 1 /\ n \in Int
  BY LightsAssumption DEF Lights
<1>2. b = n % N
  BY DEF Between
<1> HIDE DEF b
<1>3. m \in Int /\ b \in 0..N - 1 /\ n = m * N + b
  BY <1>1, <1>2, DivisionIs
<1> DEFINE r == -m
<1>4. r \in Int /\ t + b = r * N + (i - 1)
  <2>1. r * N = -(m * N) /\ r \in Int
    BY <1>1, <1>3
  <2> QED
    BY <1>1, <1>3, <2>1
<1> HIDE DEF m, r
<1>5. (t + b) % N = i - 1
  BY <1>1, <1>4, DivisionIsUnique
<1>6. ASSUME NEW q \in t..(t + b) - 1, (q % N) + 1 = i PROVE FALSE
  <2> DEFINE s == q \div N
  <2>1. q \in Int /\ q % N = i - 1
    BY <1>1, <1>3, <1>6, DivisionIs DEF Lights
  <2>2. s \in Int /\ q = s * N + (i - 1)
    BY <1>1, <2>1, DivisionIs
  <2> HIDE DEF s
  <2>3. s * N \in Int /\ r * N \in Int /\ s * N < r * N /\ r * N < s * N + N
    BY <1>1, <1>3, <1>4, <1>6, <2>2
  <2>4. ~(r < s)
    <3>1. ASSUME r < s PROVE r * N + N <= s * N
      BY <1>1, <1>4, <2>2, <3>1, MultipleIsMore
    <3> QED
      BY <1>1, <2>3, <3>1
  <2>5. ~(s < r)
    <3>1. ASSUME s < r PROVE s * N + N <= r * N
      BY <1>1, <1>4, <2>2, <3>1, MultipleIsMore
    <3> QED
      BY <1>1, <2>3, <3>1
  <2>6. s = r
    BY <1>4, <2>2, <2>4, <2>5
  <2> QED
    BY <2>3, <2>6
<1> QED
  BY <1>3, <1>5, <1>6 DEF b

\* A light that is not red keeps its colour to the end of its phase.
LEMMA BrightIs ==
    ASSUME GroupOK, NEW i \in Lights, ColourOf(i) # "Red"
    PROVE  /\ Distance(i) \in 1..Turn
           /\ \A k \in 1..Distance(i) :
                 Shown(Later[k], i) # ColourOf(i) <=> k = Distance(i)
<1>1. i = turn /\ colour \in {"Green", "Yellow"} /\ ColourOf(i) = colour
  BY DEF ColourOf, GroupOK, Colours
<1> DEFINE m == Distance(i)
<1>2. m = Duration(colour) - elapsed
  BY <1>1 DEF Distance
<1> HIDE DEF m
<1>3. m \in 1..Turn /\ m \in Int
  BY <1>1, <1>2, TurnIs, LightsAssumption DEF GroupOK, Duration
<1>4. ASSUME NEW k \in 1..m PROVE Shown(Later[k], i) # colour <=> k = m
  <2>1. k \in Nat /\ Over + k \in 0..Turn - 1
    BY <1>1, <1>2, <1>3, TurnIs, LightsAssumption DEF GroupOK, Over, Begin, Duration
  <2>2. Later[k] = Cycle((turn - 1) * Turn + (Over + k))
    <3>1. Place + k = (turn - 1) * Turn + (Over + k)
      BY <2>1, OverIs, TurnIs DEF Place
    <3> QED
      BY <2>1, <3>1, LaterIs
  <2>3. ((turn - 1) % N) + 1 = turn
    BY PresentTurn
  <2>4. Shown(Later[k], i) = PhaseAt(Over + k)
    BY <1>1, <2>1, <2>2, <2>3, OverIs, ShownIs
  <2>5. PhaseAt(Over + k) = colour <=> k < m
    BY <1>1, <1>2, <1>3, <2>1, LightsAssumption DEF GroupOK, Over, Begin, Duration, PhaseAt
  <2> QED
    BY <1>3, <2>4, <2>5
<1> QED
  BY <1>1, <1>3, <1>4 DEF m

\* A red light waits for the rest of the turn and for those between.
LEMMA RedIs ==
    ASSUME GroupOK, NEW i \in Lights, ColourOf(i) = "Red"
    PROVE  /\ Distance(i) \in 1..N * Turn
           /\ \A k \in 1..Distance(i) :
                 Shown(Later[k], i) = "Green" <=> k = Distance(i)
<1> DEFINE m == Distance(i)
           b == Between(turn, i)
<1>1. /\ turn \in Lights /\ turn \in Nat /\ N \in Nat \ {0}
      /\ Over \in 0..Turn - 1 /\ Turn \in Nat \ {0}
  BY OverIs, TurnIs, LightsAssumption DEF GroupOK, Lights
<1>2. /\ b \in 0..N - 1 /\ (turn + b) % N = i - 1
      /\ \A q \in turn..(turn + b) - 1 : (q % N) + 1 # i
  BY <1>1, BetweenIs
<1>3. m = (Turn - Over) + b * Turn
  <2>1. RestOfTurn(colour) - elapsed = Turn - Over
    BY TurnIs, LightsAssumption DEF GroupOK, Colours, RestOfTurn, Over, Begin, Duration
  <2> QED
    BY <2>1 DEF Distance
<1> HIDE DEF m, b
<1>4. b * Turn \in Nat /\ b * Turn + Turn <= N * Turn /\ N * Turn \in Nat
  BY <1>1, <1>2, MultipleIsMore
<1>5. m \in 1..N * Turn /\ m \in Nat
  BY <1>1, <1>3, <1>4
<1>6. Place + m = (turn + b) * Turn + 0
  BY <1>1, <1>2, <1>3 DEF Place
<1>7. Shown(Later[m], i) = "Green"
  <2>1. Later[m] = Cycle((turn + b) * Turn + 0)
    BY <1>5, <1>6, LaterIs
  <2>2. i = ((turn + b) % N) + 1
    BY <1>2 DEF Lights
  <2>3. PhaseAt(0) = "Green"
    BY LightsAssumption DEF PhaseAt
  <2> QED
    <3>1. turn + b \in Int /\ 0 \in 0..Turn - 1
      BY <1>1, <1>2
    <3> QED
      BY <2>1, <2>2, <2>3, <3>1, ShownIs
<1>8. ASSUME NEW k \in 1..m - 1 PROVE Shown(Later[k], i) # "Green"
  <2> DEFINE q == (Place + k) \div Turn
             o == (Place + k) % Turn
  <2>1. k \in Nat /\ Place \in Nat /\ Place + k \in Int /\ Place + k < Place + m
    BY <1>5, OverIs
  <2>2. q \in Int /\ o \in 0..Turn - 1 /\ Place + k = q * Turn + o
    BY <1>1, <2>1, DivisionIs
  <2> HIDE DEF q, o
  <2>3. Shown(Later[k], i) = IF i = (q % N) + 1 THEN PhaseAt(o) ELSE "Red"
    <3>1. Later[k] = Cycle(q * Turn + o)
      BY <2>1, <2>2, LaterIs
    <3> QED
      BY <2>2, <3>1, ShownIs
  <2>4. q < turn + b
    <3>1. q * Turn + o < (turn + b) * Turn
      BY <1>1, <1>2, <1>6, <2>1, <2>2
    <3>2. ~(turn + b < q) /\ q # turn + b
      BY <1>1, <1>2, <2>2, <3>1, MultipleIsMore
    <3> QED
      BY <1>1, <1>2, <2>2, <3>2
  <2>5. turn - 1 <= q
    <3>1. q * Turn + o > (turn - 1) * Turn
      BY <1>1, <1>8, <2>1, <2>2 DEF Place
    <3>2. ~(q < turn - 1)
      BY <1>1, <2>2, <3>1, MultipleIsMore
    <3> QED
      BY <1>1, <2>2, <3>2
  <2>6. CASE q = turn - 1
    <3>1. o = Over + k
      BY <1>1, <2>1, <2>2, <2>6 DEF Place
    <3>2. (q % N) + 1 = turn
      BY <2>6, PresentTurn
    <3>3. ASSUME i = turn PROVE PhaseAt(o) # "Green"
      <4>1. colour = "Red" /\ Over >= GreenTime
        BY <3>3, LightsAssumption DEF ColourOf, Over, Begin, GroupOK, Duration
      <4> QED
        BY <1>1, <1>8, <2>1, <3>1, <4>1, LightsAssumption DEF PhaseAt
    <3> QED
      BY <2>3, <3>2, <3>3
  <2>7. CASE q # turn - 1
    <3>1. q \in turn..(turn + b) - 1
      BY <1>1, <1>2, <2>2, <2>4, <2>5, <2>7
    <3> QED
      BY <1>2, <2>3, <3>1
  <2> QED
    BY <2>6, <2>7
<1>9. \A k \in 1..m : k = m \/ k \in 1..m - 1
  BY <1>5
<1> QED
  BY <1>5, <1>7, <1>8, <1>9 DEF m

LEMMA TrueIs ==
    ASSUME GroupOK, NEW i \in Lights
    PROVE  TrueRemaining(i) = Distance(i)
<1> DEFINE S == {k \in 1..N * Turn :
                    LET c == Shown(Later[k], i)
                    IN  IF ColourOf(i) = "Red" THEN c = "Green" ELSE c # ColourOf(i)}
<1>1. N * Turn \in Nat /\ Turn <= N * Turn /\ Turn \in Nat
  BY TurnIs, LightsAssumption, MultipleIsMore
<1>2. Distance(i) \in S /\ \A k \in S : Distance(i) <= k
  <2>1. CASE ColourOf(i) = "Red"
    <3>1. Distance(i) \in S
      BY <2>1, RedIs
    <3>2. ASSUME NEW k \in S PROVE Distance(i) <= k
      <4>1. k \in 1..N * Turn /\ Shown(Later[k], i) = "Green" /\ Distance(i) \in 1..N * Turn
        BY <2>1, RedIs
      <4>2. ~(k < Distance(i))
        BY <1>1, <2>1, <4>1, RedIs
      <4> QED
        BY <1>1, <4>1, <4>2
    <3> QED
      BY <3>1, <3>2
  <2>2. CASE ColourOf(i) # "Red"
    <3>1. Distance(i) \in S /\ Distance(i) \in 1..Turn
      BY <1>1, <2>2, BrightIs
    <3>2. ASSUME NEW k \in S PROVE Distance(i) <= k
      <4>1. k \in 1..N * Turn /\ Shown(Later[k], i) # ColourOf(i)
        BY <2>2
      <4>2. ~(k < Distance(i))
        BY <1>1, <2>2, <3>1, <4>1, BrightIs
      <4> QED
        BY <1>1, <3>1, <4>1, <4>2
    <3> QED
      BY <3>1, <3>2
  <2> QED
    BY <2>1, <2>2
<1>3. S \in SUBSET Int
  OBVIOUS
<1>4. TrueRemaining(i) = Min(S)
  BY DEF TrueRemaining
<1> HIDE DEF S
<1> QED
  BY <1>2, <1>3, <1>4, MinimumIs
-----------------------------------------------------------------------------
(***************************************************************************)
(* The publisher.  As long as no light changes after the first question,   *)
(* the light that was found has its turn, and its clock has gone on by     *)
(* what the simulation has ticked meanwhile.                               *)
(***************************************************************************)
Asked ==
    step = "estimate" /\ ~straddled /\ active # 0 =>
        /\ active = turn
        /\ elapsed = clock + lag \/ (clock = Duration(colour) /\ elapsed = lag)

LEMMA MaximumIs ==
    ASSUME NEW a \in Int, NEW b \in Int
    PROVE  /\ Max({a, b}) \in {a, b} /\ Max({a, b}) >= a /\ Max({a, b}) >= b
           /\ b >= a => Max({a, b}) = b
<1>1. \E x \in {a, b} : \A y \in {a, b} : x >= y
  <2>1. CASE a >= b
    BY <2>1
  <2>2. CASE b >= a
    BY <2>2
  <2> QED
    BY <2>1, <2>2
<1>2. Max({a, b}) \in {a, b} /\ \A y \in {a, b} : Max({a, b}) >= y
  BY <1>1 DEF Max
<1> QED
  BY <1>2

Longest == Max({GreenTime, YellowTime, RedTime})

LEMMA LongestIs == Longest \in Nat /\ \A c \in Colours : Duration(c) <= Longest
<1> DEFINE S == {GreenTime, YellowTime, RedTime}
<1>1. \A x \in S : x \in Nat
  BY LightsAssumption
<1>2. \E x \in S : \A y \in S : x >= y
  <2>1. CASE GreenTime >= YellowTime /\ GreenTime >= RedTime
    BY <2>1, LightsAssumption
  <2>2. CASE YellowTime >= GreenTime /\ YellowTime >= RedTime
    BY <2>2, LightsAssumption
  <2>3. CASE RedTime >= GreenTime /\ RedTime >= YellowTime
    BY <2>3, LightsAssumption
  <2> QED
    BY <2>1, <2>2, <2>3, LightsAssumption
<1>3. Max(S) \in S /\ \A y \in S : Max(S) >= y
  BY <1>2 DEF Max
<1>4. \A c \in Colours : Duration(c) \in S
  BY DEF Duration, Colours
<1> HIDE DEF S
<1>5. Max(S) \in Nat /\ \A c \in Colours : Duration(c) <= Max(S)
  BY <1>1, <1>3, <1>4
<1> QED
  BY <1>5 DEF S, Longest

LEMMA DurationIs == \A c \in Colours : Duration(c) \in Nat \ {0}
BY LightsAssumption DEF Duration, Colours

\* A tick keeps the group in order, and a clock that is not reset goes on.
LEMMA TickIs ==
    ASSUME GroupOK, Tick
    PROVE  /\ GroupOK'
           /\ elapsed' # 0 => turn' = turn /\ colour' = colour /\ elapsed' = elapsed + 1
<1>1. Now = State(turn, colour, elapsed) /\ colour \in Colours /\ elapsed \in Nat
  BY DurationIs DEF Now, State, GroupOK
<1>2. Following(turn) \in Lights
  BY LightsAssumption DEF GroupOK, Following, Lights
<1>3. turn' = After(Now).turn /\ colour' = After(Now).colour /\ elapsed' = After(Now).elapsed
  BY DEF Tick
<1>4. CASE elapsed + 1 < Duration(colour)
  <2>1. After(Now) = State(turn, colour, elapsed + 1)
    BY <1>1, <1>4, AfterIs
  <2>2. turn' = turn /\ colour' = colour /\ elapsed' = elapsed + 1
    BY <1>3, <2>1 DEF State
  <2> QED
    BY <1>1, <1>4, <2>2, DurationIs DEF GroupOK
<1>5. CASE ~(elapsed + 1 < Duration(colour))
  <2>1. After(Now) \in {State(turn, "Yellow", 0), State(turn, "Red", 0),
                        State(Following(turn), "Green", 0)}
    BY <1>1, <1>5, AfterIs
  <2>2. turn' \in Lights /\ colour' \in Colours /\ elapsed' = 0
    BY <1>2, <1>3, <2>1 DEF State, GroupOK, Colours
  <2>3. Duration(colour') \in Nat \ {0}
    BY <2>2, DurationIs
  <2>4. GroupOK'
    BY <2>2, <2>3 DEF GroupOK
  <2> QED
    BY <2>2, <2>4
<1> QED
  BY <1>4, <1>5

\* What is published is no longer than the whole cycle.
LEMMA EstimateIs ==
    ASSUME TypeOK, NEW i \in Lights
    PROVE  Estimate(i) \in 0..Max({Unknown, N * Turn})
<1> DEFINE whole == N * Turn
           M == Max({Unknown, whole})
<1>1. N \in Nat \ {0} /\ Turn \in Nat /\ Unknown \in Nat
  BY TurnIs, LightsAssumption
<1>2. whole \in Nat
  BY <1>1
<1> HIDE DEF whole
<1>3. M \in Nat /\ Unknown <= M /\ whole <= M
  BY <1>1, <1>2, MaximumIs
<1> HIDE DEF M
<1>4. CASE active = 0
  <2>1. Estimate(i) = Unknown
    BY <1>4 DEF Estimate
  <2>2. Unknown \in 0..M
    BY <1>1, <1>3
  <2> QED
    BY <2>1, <2>2 DEF M, whole
<1>5. CASE active # 0
  <2> DEFINE c == ColourOf(active)
             between == Between(active, i) * Turn
             rest == IF i = active /\ c # "Red" THEN Duration(c)
                     ELSE RestOfTurn(c) + between
             left == rest - clock
  <2>1. c \in Colours /\ active \in Lights
    BY <1>5 DEF TypeOK, ColourOf, Colours
  <2>2. Duration(c) \in 0..Turn /\ RestOfTurn(c) \in 0..Turn
    BY <2>1, TurnIs, LightsAssumption DEF Colours, Duration, RestOfTurn
  <2>3. Between(active, i) \in 0..N - 1
    BY <2>1, BetweenIs
  <2>4. between \in Nat /\ between + Turn <= whole
    <3> DEFINE b == Between(active, i)
    <3>1. b \in Nat /\ b < N
      BY <1>1, <2>3
    <3> HIDE DEF b
    <3>2. b * Turn + Turn <= N * Turn
      BY <1>1, <3>1, MultipleIsMore
    <3>3. b * Turn \in Nat
      BY <1>1, <3>1
    <3> QED
      BY <3>2, <3>3 DEF b, whole
  <2> HIDE DEF between, c
  <2>5. rest \in 0..whole
    BY <1>1, <1>2, <2>2, <2>4
  <2>6. Estimate(i) = Max({0, left})
    BY <1>5 DEF Estimate, between, c
  <2> HIDE DEF rest
  <2>7. clock \in Nat
    BY LongestIs DEF TypeOK
  <2>8. left \in Int /\ left <= whole
    BY <1>2, <2>5, <2>7
  <2> HIDE DEF left
  <2>9. Max({0, left}) \in {0, left} /\ Max({0, left}) >= 0
    BY <2>8, MaximumIs
  <2>10. Max({0, left}) \in 0..M
    BY <1>2, <1>3, <2>8, <2>9
  <2> QED
    BY <2>6, <2>10 DEF M, whole
<1> QED
  BY <1>4, <1>5

LEMMA InitInv == Init => TypeOK /\ Asked
<1> SUFFICES ASSUME Init PROVE TypeOK /\ Asked
  OBVIOUS
<1>1. 1 \in Lights /\ N * Turn \in Int /\ Unknown \in Nat
  BY LightsAssumption, TurnIs DEF Lights
<1> DEFINE M == Max({Unknown, N * Turn})
<1>2. M \in Int /\ M >= Unknown
  BY <1>1, MaximumIs
<1>3. 0 \in 0..M
  BY <1>1, <1>2
<1>4. 0 \in 0..Longest /\ 0 \in 0..MaxLag
  BY LongestIs, LightsAssumption
<1> HIDE DEF M
<1>5. 0 \in 0..Duration("Green") - 1
  BY DurationIs DEF Colours
<1>6. turn \in Lights /\ colour \in Colours /\ elapsed \in 0..Duration(colour) - 1
  BY <1>1, <1>5 DEF Init, Colours
<1>7. TypeOK
  BY <1>1, <1>3, <1>4, <1>6 DEF Init, TypeOK, M, Longest
<1> QED
  BY <1>7 DEF Init, Asked

LEMMA StepInv == TypeOK /\ Asked /\ [Next]_vars => TypeOK' /\ Asked'
<1> SUFFICES ASSUME TypeOK, Asked, [Next]_vars PROVE TypeOK' /\ Asked'
  OBVIOUS
<1>1. GroupOK
  BY DEF TypeOK, GroupOK
<1>2. colour \in Colours /\ Duration(colour) \in Nat \ {0} /\ elapsed \in Nat
  BY DurationIs DEF TypeOK
<1>3. CASE Tick
  <2>1. GroupOK' /\ (elapsed' # 0 => turn' = turn /\ colour' = colour /\ elapsed' = elapsed + 1)
    BY <1>1, <1>3, TickIs
  <2>2. lag' \in 0..MaxLag /\ straddled' \in BOOLEAN
    BY <1>3, LightsAssumption DEF Tick, TypeOK
  <2>3. TypeOK'
    BY <1>3, <2>1, <2>2 DEF Tick, TypeOK, GroupOK
  <2>4. Asked'
    <3> SUFFICES ASSUME step' = "estimate", ~straddled', active' # 0
                 PROVE  /\ active' = turn'
                        /\ \/ elapsed' = clock' + lag'
                           \/ clock' = Duration(colour') /\ elapsed' = lag'
      BY DEF Asked, Duration
    <3>1. /\ step = "estimate" /\ ~straddled /\ active # 0 /\ elapsed' # 0
          /\ lag' = lag + 1 /\ active' = active /\ clock' = clock
      BY <1>3 DEF Tick, TypeOK
    <3>2. turn' = turn /\ colour' = colour /\ elapsed' = elapsed + 1
      BY <2>1, <3>1
    <3>3. active = turn /\ (elapsed = clock + lag \/ (clock = Duration(colour) /\ elapsed = lag))
      BY <3>1 DEF Asked
    <3> QED
      BY <3>1, <3>2, <3>3 DEF TypeOK
  <2> QED
    BY <2>3, <2>4
<1>4. CASE GetActiveLight
  <2>1. Duration(colour) <= Longest
    BY <1>2, LongestIs
  <2>2. Longest \in Nat /\ 0 \in 0..Longest /\ 0 \in 0..MaxLag
    BY LongestIs, LightsAssumption
  <2>3. step' = "estimate" /\ lag' = 0 /\ ~straddled' /\ straddled' \in BOOLEAN
    BY <1>4 DEF GetActiveLight
  <2>4. /\ turn' = turn /\ colour' = colour /\ elapsed' = elapsed
        /\ light' = light /\ remaining' = remaining
    BY <1>4 DEF GetActiveLight, group
  <2>5. /\ active' \in {turn, 0} /\ clock' \in 0..Longest
        /\ active' # 0 => active' = turn /\ (clock' = elapsed \/ (clock' = Duration(colour) /\ elapsed = 0))
    <3>1. CASE elapsed > 0 /\ active' = turn /\ clock' = elapsed
      <4>1. elapsed \in 0..Longest
        BY <1>2, <2>1, <2>2 DEF TypeOK
      <4> QED
        BY <3>1, <4>1
    <3>2. CASE elapsed = 0 /\ colour # "Red" /\ active' = turn /\ clock' = Duration(colour)
      <4>1. Duration(colour) \in 0..Longest
        BY <1>2, <2>1, <2>2
      <4> QED
        BY <3>2, <4>1
    <3>3. CASE elapsed = 0 /\ colour = "Red" /\ active' = 0 /\ clock' = 0
      BY <2>2, <3>3
    <3> QED
      BY <1>4, <3>1, <3>2, <3>3 DEF GetActiveLight
  <2>6. TypeOK'
    BY <2>2, <2>3, <2>4, <2>5 DEF TypeOK, Duration, Longest
  <2>7. Asked'
    <3> SUFFICES ASSUME active' # 0
                 PROVE  /\ active' = turn'
                        /\ \/ elapsed' = clock' + lag'
                           \/ clock' = Duration(colour') /\ elapsed' = lag'
      BY DEF Asked, Duration
    <3>1. active' = turn /\ (clock' = elapsed \/ (clock' = Duration(colour) /\ elapsed = 0))
      BY <2>5
    <3> QED
      BY <1>2, <2>3, <2>4, <3>1
  <2> QED
    BY <2>6, <2>7
<1>5. CASE EstimateRemainingTime
  <2>1. remaining' \in 0..Max({Unknown, N * Turn})
    BY <1>5, EstimateIs DEF EstimateRemainingTime, TypeOK
  <2>2. Following(light) \in Lights
    BY LightsAssumption DEF TypeOK, Following, Lights
  <2>3. 0 \in 0..MaxLag
    BY LightsAssumption
  <2>4. TypeOK'
    BY <1>5, <2>1, <2>2, <2>3 DEF EstimateRemainingTime, TypeOK, group, Duration
  <2>5. Asked'
    BY <1>5 DEF EstimateRemainingTime, Asked
  <2> QED
    BY <2>4, <2>5
<1>6. CASE UNCHANGED vars
  BY <1>6 DEF vars, group, TypeOK, Asked, Duration
<1> QED
  BY <1>3, <1>4, <1>5, <1>6 DEF Next

\* What is published is the way to go, as it was when the clock was read.
LEMMA EstimateOfTurn ==
    ASSUME TypeOK, Asked, EstimateRemainingTime, active # 0, ~straddled
    PROVE  /\ TrueRemaining(light) \in Nat
           /\ remaining' = Max({0, (TrueRemaining(light) + elapsed) - clock})
<1>1. GroupOK /\ light \in Lights /\ Turn \in Nat /\ elapsed \in Nat
  BY TurnIs, DurationIs DEF TypeOK, GroupOK
<1>2. clock \in Nat /\ Duration(colour) \in Nat
  BY DurationIs DEF TypeOK
<1>3. active = turn
  BY DEF Asked, EstimateRemainingTime
<1>4. Distance(light) \in Nat /\ TrueRemaining(light) = Distance(light)
  <2>1. N * Turn \in Nat
    BY <1>1, LightsAssumption
  <2> QED
    BY <1>1, <2>1, BrightIs, RedIs, TrueIs
<1> DEFINE c == ColourOf(active)
           rest == IF light = active /\ c # "Red" THEN Duration(c)
                   ELSE RestOfTurn(c) + Between(active, light) * Turn
<1>5. Estimate(light) = Max({0, rest - clock})
  BY DEF Estimate
<1>6. c = colour
  BY <1>3 DEF ColourOf
<1>7. ColourOf(light) # "Red" <=> light = active /\ c # "Red"
  BY <1>3 DEF ColourOf
<1>8. rest = Distance(light) + elapsed
  <2>1. RestOfTurn(c) \in Nat
    BY <1>1, <1>6, LightsAssumption DEF GroupOK, Colours, RestOfTurn
  <2>2. Between(active, light) * Turn \in Nat
    <3>1. Between(active, light) \in Nat
      BY <1>1, <1>3, BetweenIs, LightsAssumption DEF GroupOK
    <3> QED
      BY <1>1, <3>1
  <2> QED
    BY <1>1, <1>2, <1>3, <1>6, <1>7, <2>1, <2>2 DEF Distance
<1> HIDE DEF rest
<1> QED
  BY <1>4, <1>5, <1>8 DEF EstimateRemainingTime

LEMMA EstimateIsExact ==
    ASSUME TypeOK, Asked, EstimateRemainingTime, active # 0, clock < Duration(colour), ~straddled
    PROVE  remaining' = TrueRemaining(light) + lag
<1>1. clock \in Nat /\ lag \in Nat /\ Duration(colour) \in Nat
  BY DurationIs, LongestIs DEF TypeOK
<1>2. elapsed = clock + lag
  BY <1>1 DEF Asked, EstimateRemainingTime
<1> DEFINE t == TrueRemaining(light)
<1>3. t \in Nat /\ remaining' = Max({0, (t + elapsed) - clock})
  BY EstimateOfTurn
<1> HIDE DEF t
<1>4. (t + elapsed) - clock = t + lag /\ t + lag \in Nat
  BY <1>1, <1>2, <1>3
<1>5. Max({0, t + lag}) = t + lag
  <2> DEFINE d == t + lag
  <2>1. d \in Int /\ d >= 0
    BY <1>4
  <2> HIDE DEF d
  <2>2. Max({0, d}) = d
    BY <2>1, MaximumIs
  <2> QED
    BY <2>2 DEF d
<1> QED
  BY <1>3, <1>4, <1>5 DEF t

LEMMA EstimateIsShort ==
    ASSUME TypeOK, Asked, EstimateRemainingTime, active # 0, clock >= Duration(colour), ~straddled
    PROVE  remaining' = Max({0, (TrueRemaining(light) + lag) - Duration(colour)})
<1>1. /\ clock \in Nat /\ lag \in Nat /\ Duration(colour) \in Nat
      /\ elapsed < Duration(colour) /\ elapsed \in Nat
  BY DurationIs, LongestIs DEF TypeOK
<1>2. clock = Duration(colour) /\ elapsed = lag
  BY <1>1 DEF Asked, EstimateRemainingTime
<1> QED
  BY <1>2, EstimateOfTurn

\* Every variable keeps its type: what is published is a time between zero and
\* the time of a whole cycle, or the one that stands for "unknown".
THEOREM TypeCorrect == Spec => []TypeOK
<1>1. TypeOK /\ Asked => TypeOK
  OBVIOUS
<1> QED
  BY <1>1, InitInv, StepInv, PTL DEF Spec

\* Whatever the number of lights and the length of their phases: the remaining
\* time that the roadside node publishes is the time until the light changes,
\* counted from the moment the clock was read.
THEOREM RemainingTimeIsTrue == Spec => RemainingIsExact
<1>1. TypeOK /\ Asked /\ [Next]_vars =>
        [EstimateRemainingTime /\ active # 0 /\ clock < Duration(colour) /\ ~straddled
            => remaining' = TrueRemaining(light) + lag]_vars
  BY EstimateIsExact
<1> QED
  BY <1>1, InitInv, StepInv, PTL DEF Spec, RemainingIsExact

\* If the clock is read in the first tick of a phase, when none is running, the
\* whole phase is taken for elapsed (GetActiveLight's fallback to a light that
\* is not red): what is published is short by exactly that phase, down to zero.
FirstTickIsShort ==
    [][EstimateRemainingTime /\ active # 0 /\ clock >= Duration(colour) /\ ~straddled
          => remaining' = Max({0, (TrueRemaining(light) + lag) - Duration(colour)})]_vars

\* So the error of the fallback is known for every number of lights and all
\* phases (GetActiveLight, EstimateRemainingTime).
THEOREM FallbackIsShort == Spec => FirstTickIsShort
<1>1. TypeOK /\ Asked /\ [Next]_vars =>
        [EstimateRemainingTime /\ active # 0 /\ clock >= Duration(colour) /\ ~straddled
            => remaining' = Max({0, (TrueRemaining(light) + lag) - Duration(colour)})]_vars
  BY EstimateIsShort
<1> QED
  BY <1>1, InitInv, StepInv, PTL DEF Spec, FirstTickIsShort
-----------------------------------------------------------------------------
(***************************************************************************)
(* NeverTooLong: the two questions may fall into different phases and      *)
(* turns.  Where the group was when the clock was read is kept, so that    *)
(* what it has done since can be compared with what was computed.          *)
(***************************************************************************)
ClockRead ==
    step = "estimate" /\ active # 0 =>
        /\ elapsed <= clock + lag
        /\ \E q \in Nat, o \in 0..Turn - 1 :
              /\ active = (q % N) + 1
              /\ o - Begin(PhaseAt(o)) <= clock
              /\ Now = Cycle((q * Turn + o) + lag)

LEMMA TickRuns == GroupOK /\ Tick => Now' = After(Now)
<1> SUFFICES ASSUME GroupOK, Tick PROVE Now' = After(Now)
  OBVIOUS
<1>1. Now = State(turn, colour, elapsed) /\ colour \in Colours /\ elapsed \in Nat
  BY DurationIs DEF Now, State, GroupOK
<1>2. After(Now) \in {State(turn, colour, elapsed + 1), State(turn, "Yellow", 0),
                      State(turn, "Red", 0), State(Following(turn), "Green", 0)}
  BY <1>1, AfterIs
<1>3. After(Now) = State(After(Now).turn, After(Now).colour, After(Now).elapsed)
  BY <1>2 DEF State
<1>4. turn' = After(Now).turn /\ colour' = After(Now).colour /\ elapsed' = After(Now).elapsed
  BY DEF Tick
<1> QED
  BY <1>3, <1>4 DEF Now, State

LEMMA StepClockRead == TypeOK /\ ClockRead /\ [Next]_vars => ClockRead'
<1> SUFFICES ASSUME TypeOK, ClockRead, [Next]_vars PROVE ClockRead'
  OBVIOUS
<1>1. GroupOK /\ elapsed \in Nat /\ clock \in Nat /\ lag \in Nat
  BY DurationIs, LongestIs DEF TypeOK, GroupOK
<1>2. Turn \in Nat \ {0}
  BY TurnIs
<1>3. CASE Tick
  <2> SUFFICES ASSUME step = "estimate", active # 0
               PROVE  /\ elapsed' <= clock' + lag'
                      /\ \E q \in Nat, o \in 0..Turn - 1 :
                            /\ active' = (q % N) + 1
                            /\ o - Begin(PhaseAt(o)) <= clock'
                            /\ Now' = Cycle((q * Turn + o) + lag')
    BY <1>3 DEF Tick, ClockRead, Turn, Cycle, Stage, State, PhaseAt, Begin
  <2>1. lag' = lag + 1 /\ active' = active /\ clock' = clock
    BY <1>3 DEF Tick
  <2>2. elapsed' <= clock' + lag'
    <3>1. elapsed <= clock + lag
      BY DEF ClockRead
    <3>2. elapsed' = 0 \/ elapsed' = elapsed + 1
      BY <1>1, <1>3, TickIs
    <3> QED
      BY <1>1, <2>1, <3>1, <3>2
  <2>3. PICK q \in Nat, o \in 0..Turn - 1 :
           /\ active = (q % N) + 1
           /\ o - Begin(PhaseAt(o)) <= clock
           /\ Now = Cycle((q * Turn + o) + lag)
    BY DEF ClockRead
  <2>4. Now' = Cycle((q * Turn + o) + lag')
    <3> DEFINE p == (q * Turn + o) + lag
    <3>1. p \in Nat /\ (q * Turn + o) + lag' = p + 1
      <4>1. q * Turn \in Nat
        BY <1>2
      <4> QED
        BY <1>1, <1>2, <2>1, <4>1
    <3>2. Now = Cycle(p)
      BY <2>3
    <3> HIDE DEF p
    <3>3. After(Cycle(p)) = Cycle(p + 1)
      BY <3>1, CycleRuns
    <3> QED
      BY <1>1, <1>3, <3>1, <3>2, <3>3, TickRuns
  <2> QED
    BY <2>1, <2>2, <2>3, <2>4
<1>4. CASE GetActiveLight
  <2> SUFFICES ASSUME active' # 0
               PROVE  /\ elapsed' <= clock' + lag'
                      /\ \E q \in Nat, o \in 0..Turn - 1 :
                            /\ active' = (q % N) + 1
                            /\ o - Begin(PhaseAt(o)) <= clock'
                            /\ Now' = Cycle((q * Turn + o) + lag')
    BY DEF ClockRead
  <2>1. /\ lag' = 0 /\ elapsed' = elapsed /\ active' = turn
        /\ clock' \in Nat /\ elapsed <= clock'
    <3>1. Duration(colour) \in Nat
      BY <1>1, DurationIs DEF GroupOK
    <3> QED
      BY <1>1, <1>4, <3>1 DEF GetActiveLight, group
  <2>2. Over \in 0..Turn - 1 /\ PhaseAt(Over) = colour /\ turn - 1 \in Nat /\ Place \in Nat
    BY <1>1, OverIs
  <2>3. active' = ((turn - 1) % N) + 1
    BY <1>1, <2>1, PresentTurn
  <2>4. Over - Begin(PhaseAt(Over)) = elapsed
    BY <1>1, <2>2, LightsAssumption DEF Over, Begin
  <2>5. Now' = Cycle(((turn - 1) * Turn + Over) + lag')
    <3>1. ((turn - 1) * Turn + Over) + lag' = Place
      BY <2>1, <2>2 DEF Place
    <3> QED
      BY <1>1, <1>4, <3>1, NowIs DEF GetActiveLight, Now, group
  <2>6. Over - Begin(PhaseAt(Over)) <= clock'
    BY <2>1, <2>4
  <2>7. elapsed' <= clock' + lag'
    <3>1. ASSUME NEW x \in Nat PROVE x + 0 = x
      OBVIOUS
    <3>2. clock' + 0 = clock'
      BY <2>1, <3>1
    <3>3. lag' = 0 /\ elapsed' = elapsed /\ elapsed <= clock'
      BY <2>1
    <3> QED
      BY <3>2, <3>3
  <2>8. \E q \in Nat, o \in 0..Turn - 1 :
           /\ active' = (q % N) + 1
           /\ o - Begin(PhaseAt(o)) <= clock'
           /\ Now' = Cycle((q * Turn + o) + lag')
    <3> turn - 1 \in Nat /\ Over \in 0..Turn - 1
      BY <2>2
    <3> WITNESS turn - 1 \in Nat, Over \in 0..Turn - 1
    <3> QED
      BY <2>3, <2>5, <2>6
  <2> QED
    BY <2>7, <2>8
<1>5. CASE EstimateRemainingTime
  BY <1>5 DEF EstimateRemainingTime, ClockRead
<1>6. CASE UNCHANGED vars
  <2>1. Now' = Now
    BY <1>6 DEF vars, group, Now
  <2> QED
    BY <1>6, <2>1 DEF vars, group, ClockRead
<1> QED
  BY <1>3, <1>4, <1>5, <1>6 DEF Next

\* The q-th turn is one of that light in the (q \div N)-th round of all lights.
LEMMA IndexIs ==
    ASSUME NEW q \in Nat
    PROVE  (q \div N) \in Int /\ q = (q \div N) * N + (((q % N) + 1) - 1)
<1>1. q \in Int /\ N \in Nat \ {0}
  BY LightsAssumption
<1>2. (q \div N) \in Int /\ q % N \in 0..N - 1 /\ q = (q \div N) * N + (q % N)
  BY <1>1, DivisionIs
<1>3. ((q % N) + 1) - 1 = q % N
  BY <1>1, <1>2
<1> QED
  BY <1>2, <1>3

\* After the q-th turn, which is that of light t, light i has its turn
\* Between(t, i) turns after the next, and no sooner.
LEMMA NextTurnOf ==
    ASSUME NEW q \in Nat, NEW t \in Lights, t = (q % N) + 1, NEW i \in Lights
    PROVE  /\ (((q + 1) + Between(t, i)) % N) + 1 = i
           /\ \A r \in Nat : r > q /\ (r % N) + 1 = i => r >= (q + 1) + Between(t, i)
<1> DEFINE b == Between(t, i)
           s == q \div N
           u == (t + b) \div N
<1>1. N \in Nat \ {0} /\ t \in Int /\ i - 1 \in 0..N - 1 /\ i \in Int
  BY LightsAssumption DEF Lights
<1>2. b \in 0..N - 1 /\ (t + b) % N = i - 1 /\ \A x \in t..(t + b) - 1 : (x % N) + 1 # i
  BY BetweenIs
<1> HIDE DEF b
<1>3. s \in Int /\ q = s * N + (t - 1)
  <2>1. (q \div N) \in Int /\ q = (q \div N) * N + (((q % N) + 1) - 1)
    BY IndexIs
  <2> QED
    BY <2>1
<1>4. u \in Int /\ t + b = u * N + (i - 1)
  BY <1>1, <1>2, DivisionIs
<1> HIDE DEF s, u
<1>5. ((q + 1) + b) % N = i - 1
  <2>1. (q + 1) + b = (s + u) * N + (i - 1) /\ s + u \in Int
    BY <1>1, <1>2, <1>3, <1>4
  <2> QED
    BY <1>1, <2>1, DivisionIsUnique
<1>6. ASSUME NEW r \in Nat, r > q, (r % N) + 1 = i PROVE r >= (q + 1) + b
  <2> DEFINE v == r \div N
             x == r - s * N
  <2>1. v \in Int /\ r = v * N + (i - 1)
    <3>1. r % N = i - 1
      BY <1>1, <1>6
    <3> QED
      BY <1>1, <3>1, DivisionIs
  <2> HIDE DEF v
  <2>2. s * N \in Int /\ x \in Int
    BY <1>1, <1>3
  <2>3. x % N = i - 1
    <3>1. x = (v - s) * N + (i - 1) /\ v - s \in Int
      BY <1>1, <1>3, <2>1
    <3> QED
      BY <1>1, <3>1, DivisionIsUnique
  <2>4. r = x + s * N
    BY <2>2
  <2> HIDE DEF x
  <2>5. (x % N) + 1 = i
    BY <1>1, <2>3
  <2>6. x >= t
    BY <1>1, <1>3, <1>6, <2>2, <2>4
  <2>7. x >= t + b
    BY <1>1, <1>2, <2>2, <2>5, <2>6
  <2> QED
    BY <1>1, <1>2, <1>3, <2>2, <2>4, <2>7
<1> QED
  BY <1>1, <1>2, <1>5, <1>6 DEF b

\* A light comes round again after a whole round.
LEMMA WholeRound == \A t \in Lights : Between(t, t) = N - 1
<1> SUFFICES ASSUME NEW t \in Lights PROVE Between(t, t) = N - 1
  OBVIOUS
<1>1. N \in Nat \ {0} /\ N - 1 \in 0..N - 1 /\ (t - t) - 1 = (-1) * N + (N - 1)
  BY LightsAssumption DEF Lights
<1>2. ((-1) * N + (N - 1)) % N = N - 1
  BY <1>1, DivisionIsUnique
<1> QED
  BY <1>1, <1>2 DEF Between

\* What is left of a turn, in its o-th tick; and it only becomes less.
LEMMA RestIs ==
    ASSUME NEW o \in 0..Turn - 1
    PROVE  /\ PhaseAt(o) \in Colours
           /\ RestOfTurn(PhaseAt(o)) - (o - Begin(PhaseAt(o))) = Turn - o
           /\ \A x \in 0..Turn - 1 : o <= x => RestOfTurn(PhaseAt(x)) <= RestOfTurn(PhaseAt(o))
BY TurnIs, LightsAssumption DEF PhaseAt, RestOfTurn, Begin, Colours


\* Where the group has come to, in ticks of its present turn.
LEMMA SinceIs ==
    ASSUME NEW q \in Nat, NEW o \in 0..Turn - 1, NEW l \in Nat, Now = Cycle((q * Turn + o) + l)
    PROVE  \E r \in Nat, x \in 0..Turn - 1 :
              /\ (q * Turn + o) + l = r * Turn + x
              /\ r >= q /\ (r = q => x >= o)
              /\ turn = (r % N) + 1 /\ colour = PhaseAt(x) /\ elapsed = x - Begin(colour)
<1> DEFINE p == (q * Turn + o) + l
           r == p \div Turn
           x == p % Turn
<1>1. Turn \in Nat \ {0} /\ q * Turn \in Nat
  BY TurnIs
<1>2. p \in Nat /\ r \in Int /\ x \in 0..Turn - 1 /\ p = r * Turn + x
  <2>1. p \in Nat
    BY <1>1
  <2> HIDE DEF p
  <2>2. p \in Int
    BY <2>1
  <2> QED
    BY <1>1, <2>1, <2>2, DivisionIs
<1>3. Now = Cycle(p) /\ p >= q * Turn + o
  BY <1>1
<1> HIDE DEF r, x
<1>4. Now = Stage(r, x)
  BY <1>2, <1>3, CycleIs
<1>5. turn = (r % N) + 1 /\ colour = PhaseAt(x) /\ elapsed = x - Begin(colour)
  BY <1>4 DEF Stage, State, Now
<1>6. ~(r < q)
  BY <1>1, <1>2, <1>3, MultipleIsMore
<1>7. r \in Nat /\ r >= q
  BY <1>2, <1>6
<1>8. r = q => x >= o
  BY <1>1, <1>2, <1>3
<1> QED
  BY <1>2, <1>5, <1>7, <1>8

\* A light that is waited for, from the turn in which the clock was read on:
\* the change that it still has to go to is the begin of that turn of its own,
\* or of a later one, or it is in such a turn by now.
LEMMA TurnIsAhead ==
    ASSUME GroupOK, NEW q \in Nat, NEW r \in Nat, NEW x \in 0..Turn - 1, r >= q,
           turn = (r % N) + 1, colour = PhaseAt(x), elapsed = x - Begin(colour),
           NEW a \in Lights, a = (q % N) + 1, NEW i \in Lights,
           i = a => ColourOf(a) = "Red"
    PROVE  ((q + 1) + Between(a, i)) * Turn <= (r * Turn + x) + Distance(i)
<1> DEFINE s == (q + 1) + Between(a, i)
<1>1. Turn \in Nat \ {0} /\ turn \in Lights
  BY TurnIs DEF GroupOK
<1>2. s \in Nat /\ \A y \in Nat : y > q /\ (y % N) + 1 = i => y >= s
  <2>1. Between(a, i) \in Nat
    BY LightsAssumption, BetweenIs
  <2> QED
    BY <2>1, NextTurnOf
<1> HIDE DEF s
<1>3. CASE ColourOf(i) = "Red"
  <2> DEFINE b == Between(turn, i)
             y == (r + 1) + b
  <2>1. b \in Nat
    BY <1>1, LightsAssumption, BetweenIs
  <2>2. (y % N) + 1 = i
    BY <1>1, NextTurnOf
  <2>3. Distance(i) = (Turn - x) + b * Turn
    <3>1. RestOfTurn(colour) - elapsed = Turn - x
      BY RestIs
    <3> QED
      BY <1>3, <3>1 DEF Distance
  <2> HIDE DEF b
  <2>4. y \in Nat /\ y >= s
    BY <1>2, <2>1, <2>2
  <2>5. (r * Turn + x) + Distance(i) = y * Turn
    BY <1>1, <2>1, <2>3
  <2> HIDE DEF y
  <2>6. y = s \/ (s < y /\ s * Turn + Turn <= y * Turn)
    BY <1>1, <1>2, <2>4, MultipleIsMore
  <2>7. s * Turn \in Nat /\ y * Turn \in Nat
    BY <1>1, <1>2, <2>4
  <2> QED
    BY <1>1, <2>5, <2>6, <2>7 DEF s
<1>4. CASE ColourOf(i) # "Red"
  <2>1. i = turn /\ r # q
    BY <1>4 DEF ColourOf
  <2>2. r >= s
    BY <1>2, <2>1
  <2>3. r = s \/ (s < r /\ s * Turn + Turn <= r * Turn)
    BY <1>1, <1>2, <2>2, MultipleIsMore
  <2>4. s * Turn \in Nat /\ r * Turn \in Nat
    BY <1>1, <1>2
  <2>5. Distance(i) \in 1..Turn
    BY <1>4, BrightIs
  <2> QED
    BY <1>1, <2>3, <2>4, <2>5 DEF s
<1> QED
  BY <1>3, <1>4


\* What is subtracted may belong to another phase than what it is subtracted
\* from; but then a change has passed that makes up for it.
LEMMA WaitIsShort ==
    ASSUME GroupOK, NEW q \in Nat, NEW o \in 0..Turn - 1, NEW l \in Nat, NEW k \in Nat,
           Now = Cycle((q * Turn + o) + l), o - Begin(PhaseAt(o)) <= k,
           NEW a \in Lights, a = (q % N) + 1, NEW i \in Lights,
           i = a => ColourOf(a) = "Red"
    PROVE  (RestOfTurn(ColourOf(a)) + Between(a, i) * Turn) - k <= Distance(i) + l
<1> DEFINE b == Between(a, i)
           c == ColourOf(a)
<1>1. PICK r \in Nat, x \in 0..Turn - 1 :
         /\ (q * Turn + o) + l = r * Turn + x
         /\ r >= q /\ (r = q => x >= o)
         /\ turn = (r % N) + 1 /\ colour = PhaseAt(x) /\ elapsed = x - Begin(colour)
  BY SinceIs
<1>2. ((q + 1) + b) * Turn <= (r * Turn + x) + Distance(i)
  BY <1>1, TurnIsAhead
<1>3. /\ Turn \in Nat \ {0} /\ N \in Nat \ {0} /\ b \in 0..N - 1
      /\ Distance(i) \in Int /\ q * Turn \in Nat /\ b * Turn \in Nat
  <2>1. b \in 0..N - 1
    BY BetweenIs
  <2>2. Turn \in Nat \ {0} /\ N \in Nat \ {0}
    BY TurnIs, LightsAssumption
  <2>3. Distance(i) \in Int
    <3>1. Distance(i) \in 1..Turn \/ Distance(i) \in 1..N * Turn
      BY BrightIs, RedIs
    <3> QED
      BY <3>1
  <2>4. q * Turn \in Nat /\ b * Turn \in Nat
    BY <2>1, <2>2, LightsAssumption
  <2> QED
    BY <2>1, <2>2, <2>3, <2>4
<1>4. ((q + 1) + b) * Turn = (q * Turn + Turn) + b * Turn
  BY <1>3
<1>5. c \in Colours /\ RestOfTurn(c) \in RedTime..Turn
  BY TurnIs, LightsAssumption DEF ColourOf, GroupOK, Colours, RestOfTurn
<1> DEFINE d == Distance(i)
           qt == q * Turn
           bt == b * Turn
           rest == RestOfTurn(c)
           old == RestOfTurn(PhaseAt(o))
<1>6. old - k <= Turn - o /\ old \in Int /\ PhaseAt(o) \in Colours
  <2>1. old \in Int /\ Begin(PhaseAt(o)) \in Int /\ PhaseAt(o) \in Colours
    BY LightsAssumption DEF RestOfTurn, PhaseAt, Begin, Colours
  <2>2. old - (o - Begin(PhaseAt(o))) = Turn - o
    BY RestIs
  <2> HIDE DEF old
  <2> QED
    BY <1>3, <2>1, <2>2
<1>7. (qt + Turn) + bt <= ((qt + o) + l) + d
  BY <1>1, <1>2, <1>4
<1>8. CASE rest <= old
  <2> HIDE DEF d, qt, bt, rest, old
  <2>1. rest \in Int /\ old \in Int /\ d \in Int /\ qt \in Nat /\ bt \in Nat
    BY <1>3, <1>5, <1>6 DEF d, qt, bt, rest
  <2>2. (rest + bt) - k <= d + l
    BY <1>3, <1>6, <1>7, <1>8, <2>1
  <2> QED
    BY <2>2 DEF d, bt, rest
<1>9. CASE ~(rest <= old)
  <2>1. c # "Red" /\ a = turn
    <3>1. RestOfTurn(PhaseAt(o)) >= RedTime
      BY LightsAssumption, <1>6 DEF RestOfTurn, Colours
    <3>2. c # "Red"
      BY <1>9, <3>1, LightsAssumption DEF RestOfTurn
    <3> QED
      BY <3>2 DEF ColourOf
  <2>2. i # a /\ c = colour
    BY <2>1 DEF ColourOf
  <2>3. r # q
    <3>1. ASSUME r = q PROVE FALSE
      <4>1. RestOfTurn(PhaseAt(x)) <= RestOfTurn(PhaseAt(o))
        BY <1>1, <3>1, RestIs
      <4> QED
        BY <1>1, <1>9, <2>2, <4>1
    <3> QED
      BY <3>1
  <2>4. r >= q + N
    <3>1. Between(a, a) = N - 1
      BY WholeRound
    <3>2. r >= (q + 1) + Between(a, a)
      BY <1>1, <2>1, <2>3, NextTurnOf
    <3> QED
      BY <1>1, <1>3, <3>1, <3>2
  <2>5. b # N - 1
    <3>1. Between(a, a) = N - 1
      BY WholeRound
    <3>2. (((q + 1) + Between(a, a)) % N) + 1 = a /\ (((q + 1) + b) % N) + 1 = i
      BY NextTurnOf
    <3> QED
      BY <2>2, <3>1, <3>2
  <2>6. bt + Turn <= (N - 1) * Turn /\ (N - 1) * Turn + Turn = N * Turn
    <3>1. b < N - 1 /\ b \in Int /\ N - 1 \in Int /\ Turn \in Nat
      BY <1>3, <2>5
    <3> HIDE DEF b
    <3>2. b * Turn + Turn <= (N - 1) * Turn
      BY <3>1, MultipleIsMore
    <3>3. (N - 1) * Turn + Turn = N * Turn
      BY <1>3
    <3> QED
      BY <3>2, <3>3 DEF bt
  <2>7. qt + N * Turn <= r * Turn
    <3>1. (q + N) * Turn = qt + N * Turn
      BY <1>3
    <3>2. r = q + N \/ (q + N) * Turn + Turn <= r * Turn
      BY <1>1, <1>3, <2>4, MultipleIsMore
    <3> QED
      BY <1>1, <1>3, <3>1, <3>2
  <2> DEFINE nt == N * Turn
             rt == r * Turn
  <2>8. d >= 1
    BY BrightIs, RedIs
  <2>9. bt + Turn <= nt - Turn /\ qt + nt <= rt /\ (qt + o) + l = rt + x
    <3>1. (N - 1) * Turn \in Int /\ N * Turn \in Int
      BY <1>3
    <3> QED
      BY <1>1, <1>3, <2>6, <2>7, <3>1
  <2>10. rest \in Int /\ rest <= Turn /\ d \in Int /\ qt \in Nat /\ bt \in Nat /\ nt \in Nat /\ rt \in Nat
    BY <1>1, <1>3, <1>5
  <2> HIDE DEF d, qt, bt, rest, old, nt, rt
  <2>11. (rest + bt) - k <= d + l
    BY <1>1, <1>3, <2>8, <2>9, <2>10
  <2> QED
    BY <2>11 DEF d, bt, rest
<1> QED
  BY <1>8, <1>9

LEMMA EstimateIsSafe ==
    ASSUME TypeOK, ClockRead, EstimateRemainingTime, active # 0
    PROVE  remaining' <= TrueRemaining(light) + lag
<1>1. /\ GroupOK /\ light \in Lights /\ active \in Lights /\ elapsed \in Nat
      /\ clock \in Nat /\ lag \in Nat
  BY DurationIs, LongestIs DEF TypeOK, GroupOK
<1>2. Distance(light) \in Nat /\ TrueRemaining(light) = Distance(light)
  <2>1. Distance(light) \in 1..Turn \/ Distance(light) \in 1..N * Turn
    BY <1>1, BrightIs, RedIs
  <2>2. Turn \in Nat /\ N * Turn \in Nat
    BY TurnIs, LightsAssumption
  <2> QED
    BY <1>1, <2>1, <2>2, TrueIs
<1> DEFINE c == ColourOf(active)
           rest == IF light = active /\ c # "Red" THEN Duration(c)
                   ELSE RestOfTurn(c) + Between(active, light) * Turn
           d == Distance(light)
<1>3. remaining' = Max({0, rest - clock})
  BY DEF EstimateRemainingTime, Estimate
<1>4. c \in Colours
  BY <1>1 DEF ColourOf, GroupOK, Colours
<1>5. rest \in Int
  <2>1. Duration(c) \in Int /\ RestOfTurn(c) \in Int
    BY <1>4, LightsAssumption DEF Duration, RestOfTurn, Colours
  <2>2. Between(active, light) * Turn \in Int
    <3>1. Between(active, light) \in Int /\ Turn \in Int
      BY <1>1, BetweenIs, TurnIs
    <3> QED
      BY <3>1
  <2> QED
    BY <2>1, <2>2
<1>6. rest - clock <= d + lag
  <2>1. CASE light = active /\ c # "Red"
    <3>1. active = turn /\ c = colour /\ elapsed <= clock + lag
      BY <2>1 DEF ColourOf, ClockRead, EstimateRemainingTime
    <3>2. d = Duration(colour) - elapsed /\ rest = Duration(colour)
      BY <2>1, <3>1 DEF Distance
    <3>3. Duration(colour) \in Int
      BY <1>1, DurationIs DEF GroupOK
    <3> HIDE DEF d, rest
    <3> QED
      BY <1>1, <3>1, <3>2, <3>3
  <2>2. CASE ~(light = active /\ c # "Red")
    <3>1. PICK q \in Nat, o \in 0..Turn - 1 :
             /\ active = (q % N) + 1
             /\ o - Begin(PhaseAt(o)) <= clock
             /\ Now = Cycle((q * Turn + o) + lag)
      BY DEF ClockRead, EstimateRemainingTime
    <3>2. light = active => ColourOf(active) = "Red"
      BY <2>2
    <3>3. rest = RestOfTurn(c) + Between(active, light) * Turn
      BY <2>2
    <3> QED
      BY <1>1, <3>1, <3>2, <3>3, WaitIsShort
  <2> QED
    BY <2>1, <2>2
<1> HIDE DEF rest, d
<1>7. Max({0, rest - clock}) <= d + lag
  <2> DEFINE e == rest - clock
  <2>1. e \in Int /\ e <= d + lag /\ 0 <= d + lag
    BY <1>1, <1>2, <1>5, <1>6 DEF d
  <2> HIDE DEF e
  <2>2. Max({0, e}) \in {0, e}
    <3>1. 0 \in Int /\ e \in Int
      BY <2>1
    <3> QED
      BY <3>1, MaximumIs
  <2>3. Max({0, e}) <= d + lag
    BY <2>1, <2>2
  <2> QED
    BY <2>3 DEF e
<1> QED
  BY <1>2, <1>3, <1>7 DEF d

\* Whatever the number of lights and the length of their phases, and however
\* long the simulation takes between the publisher's questions: no vehicle is
\* promised more time than the light still has.
THEOREM NobodyIsPromisedTooMuch == Spec => NeverTooLong
<1>1. Init => ClockRead
  BY DEF Init, ClockRead
<1>2. TypeOK /\ ClockRead /\ [Next]_vars =>
        [EstimateRemainingTime /\ active # 0 => remaining' <= TrueRemaining(light) + lag]_vars
  BY EstimateIsSafe
<1> QED
  BY <1>1, <1>2, TypeCorrect, StepClockRead, PTL DEF Spec, NeverTooLong
=============================================================================
