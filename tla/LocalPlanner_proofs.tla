-------------------------- MODULE LocalPlanner_proofs --------------------------
(***************************************************************************)
(* What holds of the local planner for every set of routes, radii and      *)
(* buffer sizes, and for every interleaving of the two tasks.              *)
(***************************************************************************)
EXTENDS LocalPlanner, SequenceTheorems, WellFoundedInduction, TLAPS

-----------------------------------------------------------------------------
(***************************************************************************)
(* The operators on deques.                                                *)
(***************************************************************************)

LEMMA FirstOfIs ==
    ASSUME NEW S, NEW s \in Seq(S), NEW n \in 0..Len(s)
    PROVE  /\ FirstOf(s, n) \in Seq(S) /\ Len(FirstOf(s, n)) = n
           /\ \A i \in 1..n : FirstOf(s, n)[i] = s[i]
<1>1. \A i \in 1..n : s[i] \in S
  BY ElementOfSeq
<1>2. /\ SubSeq(s, 1, n) \in Seq(S)
      /\ Len(SubSeq(s, 1, n)) = IF 1 <= n THEN n - 1 + 1 ELSE 0
      /\ \A i \in 1 .. n - 1 + 1 : SubSeq(s, 1, n)[i] = s[1 + i - 1]
  BY <1>1, SubSeqProperties
<1> QED
  BY <1>2 DEF FirstOf

LEMMA RestOfIs ==
    ASSUME NEW S, NEW s \in Seq(S), NEW n \in 0..Len(s)
    PROVE  /\ RestOf(s, n) \in Seq(S) /\ Len(RestOf(s, n)) = Len(s) - n
           /\ \A i \in 1..(Len(s) - n) : RestOf(s, n)[i] = s[n + i]
<1>1. Len(s) \in Nat
  OBVIOUS
<1>2. \A i \in (n + 1)..Len(s) : s[i] \in S
  BY ElementOfSeq
<1>3. /\ SubSeq(s, n + 1, Len(s)) \in Seq(S)
      /\ Len(SubSeq(s, n + 1, Len(s))) = IF n + 1 <= Len(s) THEN Len(s) - (n + 1) + 1 ELSE 0
      /\ \A i \in 1 .. Len(s) - (n + 1) + 1 : SubSeq(s, n + 1, Len(s))[i] = s[n + 1 + i - 1]
  BY <1>1, <1>2, SubSeqProperties
<1> QED
  BY <1>1, <1>3 DEF RestOf

LEMMA ReverseIs ==
    ASSUME NEW S, NEW s \in Seq(S)
    PROVE  /\ Reverse(s) \in Seq(S) /\ Len(Reverse(s)) = Len(s)
           /\ \A i \in 1..Len(s) : Reverse(s)[i] = s[Len(s) + 1 - i]
<1>1. Len(s) \in Nat
  OBVIOUS
<1>2. \A i \in 1..Len(s) : s[Len(s) - i + 1] \in S
  BY <1>1, ElementOfSeq
<1> QED
  BY <1>1, <1>2 DEF Reverse

\* A set of positions has a last one.
LEMMA LastPosition ==
    ASSUME NEW n \in Nat, NEW T \in SUBSET (0..n), T # {}
    PROVE  /\ Max(T) \in T
           /\ \A i \in T : i <= Max(T)
<1> DEFINE U == {u \in 0..n : n - u \in T}
<1>1. U \subseteq Nat /\ U # {}
  <2>1. PICK i \in T : i \in 0..n
    OBVIOUS
  <2>2. n - i \in 0..n /\ n - (n - i) = i
    BY <2>1
  <2>3. n - i \in U
    BY <2>1, <2>2
  <2> QED
    BY <2>3
<1>2. PICK x \in U : \A y \in U : ~(<<y, x>> \in OpToRel(<, Nat))
  BY <1>1, NatLessThanWellFounded, WFMin
<1>3. \A y \in U : ~(y < x)
  BY <1>1, <1>2 DEF OpToRel
<1>4. n - x \in T /\ \A i \in T : n - x >= i
  <2>1. x \in 0..n /\ n - x \in T
    OBVIOUS
  <2>2. ASSUME NEW i \in T PROVE n - x >= i
    <3>1. i \in 0..n /\ n - i \in 0..n /\ n - (n - i) = i
      OBVIOUS
    <3>2. n - i \in U
      BY <3>1
    <3> QED
      BY <1>3, <2>1, <3>1, <3>2
  <2> QED
    BY <2>1, <2>2
<1>5. \E m \in T : \A i \in T : m >= i
  BY <1>4
<1>6. Max(T) \in T /\ \A i \in T : Max(T) >= i
  BY <1>5 DEF Max
<1> QED
  BY <1>6

LEMMA LastWithinIs ==
    ASSUME NEW S, NEW s \in Seq(S), NEW r
    PROVE  /\ LastWithin(s, r) \in 0..Len(s)
           /\ LastWithin(s, r) # 0 => Gap(Place(s[LastWithin(s, r)]), pose) < r
           /\ \A i \in 1..Len(s) : Gap(Place(s[i]), pose) < r => i <= LastWithin(s, r)
<1> DEFINE T == {0} \cup {i \in DOMAIN s : Gap(Place(s[i]), pose) < r}
<1>1. Len(s) \in Nat /\ DOMAIN s = 1..Len(s)
  OBVIOUS
<1>2. T \in SUBSET (0..Len(s)) /\ T # {}
  BY <1>1
<1>3. Max(T) \in T /\ \A i \in T : i <= Max(T)
  BY <1>1, <1>2, LastPosition
<1> QED
  BY <1>1, <1>2, <1>3 DEF LastWithin
-----------------------------------------------------------------------------
(***************************************************************************)
(* The inductive invariant.  It says, position by position, which waypoint *)
(* of the route lies where: Left many waypoints have been left behind.     *)
(***************************************************************************)
Left == Len(Route(plan)) - Len(processed) - Len(queue)

Deques ==
    /\ plan \in 0..Len(Path)
    /\ queue \in Seq(Waypoint) /\ processed \in Seq(Waypoint)
    /\ buffer \in Seq(Waypoint) /\ Len(buffer) <= BufferSize
    /\ deleted \in Seq(Waypoint) /\ Len(deleted) <= History
    /\ pose \in Int

InPlace ==
    /\ Left \in Nat
    /\ \A i \in 1..Len(processed) : processed[i] = <<plan, Left + i>>
    /\ \A i \in 1..Len(queue) : queue[i] = <<plan, Left + Len(processed) + i>>
    /\ Len(buffer) <= Len(processed)
    /\ \A i \in 1..Len(buffer) : buffer[i] = processed[Len(processed) - Len(buffer) + i]
    /\ \A i \in 1..Len(deleted) :
          IF i <= Left THEN deleted[i] = <<plan, Left + 1 - i>> ELSE deleted[i][1] < plan

Mission ==
    /\ reached \in BOOLEAN /\ reports \in {0, 1}
    /\ ReportedOnce

\* What a lookup read before is no less than what there is.
Looking ==
    /\ task # "idle" => plan # 0
    /\ task = "sized" =>
          /\ driver = "manual"
          /\ local \in Int \X Nat \X Nat
          /\ Len(processed) + Len(queue) <= local[2] + local[3]
          /\ local[2] + local[3] <= Len(Route(plan))
          /\ Len(queue) <= local[3]

Inv == Deques /\ InPlace /\ Mission /\ Looking

LEMMA RouteIs ==
    ASSUME NEW k \in 0..Len(Path)
    PROVE  /\ Route(k) \in Seq(Waypoint) /\ Len(Route(k)) \in Nat
           /\ \A i \in 1..Len(Route(k)) :
                 Route(k)[i] = <<k, i>> /\ Place(<<k, i>>) \in Int
<1>1. CASE k = 0
  BY <1>1 DEF Route
<1>2. CASE k # 0
  <2>1. k \in DOMAIN Path
    BY <1>2, PlannerAssumption
  <2>2. Path[k] \in Seq(Int)
    BY <2>1, PlannerAssumption
  <2>3. Route(k) = [i \in 1..Len(Path[k]) |-> <<k, i>>] /\ Len(Path[k]) \in Nat
    BY <1>2, <2>2 DEF Route
  <2>4. \A i \in 1..Len(Path[k]) : <<k, i>> \in Waypoint
    BY <2>1, <2>2 DEF Waypoint
  <2>5. Route(k) \in Seq(Waypoint) /\ Len(Route(k)) = Len(Path[k])
    BY <2>3, <2>4
  <2>6. \A i \in 1..Len(Path[k]) : Place(<<k, i>>) \in Int
    BY <2>2, ElementOfSeq DEF Place
  <2> QED
    BY <2>3, <2>5, <2>6
<1> QED
  BY <1>1, <1>2

LEMMA Lengths ==
    ASSUME Deques
    PROVE  /\ Len(processed) \in Nat /\ Len(queue) \in Nat /\ Len(buffer) \in Nat
           /\ Len(deleted) \in Nat /\ Len(Route(plan)) \in Nat
           /\ BufferSize \in Nat /\ History \in Nat
BY RouteIs, PlannerAssumption DEF Deques

\* What Inv says of the waypoints, in terms of sequences.
LEMMA SuffixIs ==
    ASSUME NEW S, NEW s \in Seq(S), NEW t \in Seq(S), Len(s) <= Len(t),
           \A i \in 1..Len(s) : s[i] = t[Len(t) - Len(s) + i]
    PROVE  IsSuffix(s, t)
<1> DEFINE rs == Reverse(s)
           rt == Reverse(t)
<1>1. Len(s) \in Nat /\ Len(t) \in Nat
  OBVIOUS
<1>2. /\ rs \in Seq(S) /\ Len(rs) = Len(s) /\ \A i \in 1..Len(s) : rs[i] = s[Len(s) + 1 - i]
      /\ rt \in Seq(S) /\ Len(rt) = Len(t) /\ \A i \in 1..Len(t) : rt[i] = t[Len(t) + 1 - i]
  BY ReverseIs
<1> HIDE DEF rs, rt
<1>3. ASSUME NEW i \in 1..Len(s) PROVE rs[i] = rt[i]
  <2>1. Len(s) + 1 - i \in 1..Len(s) /\ i \in 1..Len(t)
    BY <1>1
  <2>2. s[Len(s) + 1 - i] = t[Len(t) - Len(s) + (Len(s) + 1 - i)]
    BY <2>1
  <2>3. Len(t) - Len(s) + (Len(s) + 1 - i) = Len(t) + 1 - i
    BY <1>1
  <2> QED
    BY <1>2, <2>1, <2>2, <2>3
<1>7. Len(s) \in 0..Len(rs) /\ Len(s) \in 0..Len(rt)
  BY <1>1, <1>2
<1>4. /\ FirstOf(rs, Len(s)) \in Seq(S) /\ Len(FirstOf(rs, Len(s))) = Len(s)
      /\ \A i \in 1..Len(s) : FirstOf(rs, Len(s))[i] = rs[i]
  BY <1>2, <1>7, FirstOfIs
<1>5. /\ FirstOf(rt, Len(s)) \in Seq(S) /\ Len(FirstOf(rt, Len(s))) = Len(s)
      /\ \A i \in 1..Len(s) : FirstOf(rt, Len(s))[i] = rt[i]
  BY <1>2, <1>7, FirstOfIs
<1>6. FirstOf(rs, Len(s)) = FirstOf(rt, Len(s))
  BY <1>3, <1>4, <1>5, SeqEqual
<1> QED
  BY <1>2, <1>6 DEF IsSuffix, IsPrefix, FirstOf, rs, rt

LEMMA WholeRoute == ASSUME Deques, InPlace PROVE RouteIsWhole
<1>1. /\ Remaining \in Seq(Waypoint) /\ Len(Remaining) = Len(processed) + Len(queue)
      /\ \A i \in 1..Len(processed) + Len(queue) :
            Remaining[i] = IF i <= Len(processed) THEN processed[i] ELSE queue[i - Len(processed)]
  BY ConcatProperties DEF Remaining, Deques
<1>2. Route(plan) \in Seq(Waypoint) /\ \A i \in 1..Len(Route(plan)) : Route(plan)[i] = <<plan, i>>
  BY RouteIs DEF Deques
<1>3. ASSUME NEW i \in 1..Len(Remaining)
      PROVE  Remaining[i] = Route(plan)[Len(Route(plan)) - Len(Remaining) + i]
  <2>1. Left + i \in 1..Len(Route(plan)) /\ Left = Len(Route(plan)) - Len(Remaining)
    BY <1>1, Lengths DEF InPlace, Left
  <2>2. Remaining[i] = <<plan, Left + i>>
    <3>1. CASE i <= Len(processed)
      <4>1. i \in 1..Len(processed) /\ i \in 1..Len(processed) + Len(queue)
        BY <1>1, <3>1, Lengths
      <4> QED
        BY <1>1, <3>1, <4>1 DEF InPlace
    <3>2. CASE ~(i <= Len(processed))
      <4>1. i - Len(processed) \in 1..Len(queue) /\ i \in 1..Len(processed) + Len(queue)
        BY <1>1, <3>2, Lengths
      <4>2. queue[i - Len(processed)] = <<plan, Left + Len(processed) + (i - Len(processed))>>
        BY <4>1 DEF InPlace
      <4>3. Left + Len(processed) + (i - Len(processed)) = Left + i
        BY Lengths DEF InPlace
      <4> QED
        BY <1>1, <3>2, <4>1, <4>2, <4>3
    <3> QED
      BY <3>1, <3>2
  <2> QED
    BY <1>2, <2>1, <2>2
<1>4. Len(Remaining) <= Len(Route(plan))
  BY <1>1, Lengths DEF InPlace, Left
<1> QED
  BY <1>1, <1>2, <1>3, <1>4, SuffixIs DEF RouteIsWhole

LEMMA BufferBelongs == ASSUME Deques, InPlace PROVE BufferIsUnderWay
BY SuffixIs DEF Deques, InPlace, BufferIsUnderWay

LEMMA BehindBelongs == ASSUME Deques, InPlace PROVE BehindIsInOrder
<1>1. Len(Remaining) = Len(processed) + Len(queue)
  BY ConcatProperties DEF Remaining, Deques
<1>2. Passed = Left
  BY <1>1, Lengths DEF Passed, Left
<1>3. \A i \in 1..Len(deleted) : deleted[i][1] < plan => deleted[i][1] # plan
  BY DEF Deques
<1> QED
  BY <1>2, <1>3 DEF InPlace, BehindIsInOrder
-----------------------------------------------------------------------------
(***************************************************************************)
(* run_step on the waypoints.                                              *)
(***************************************************************************)

\* The buffer is filled, and the waypoints under way with it.
LEMMA Filled ==
    ASSUME Deques, InPlace
    PROVE  /\ Fill \in 0..Len(queue)
           /\ UnderWayNow \in Seq(Waypoint) /\ Len(UnderWayNow) = Len(processed) + Fill
           /\ \A i \in 1..Len(UnderWayNow) :
                 UnderWayNow[i] = <<plan, Left + i>> /\ Place(UnderWayNow[i]) \in Int
           /\ AheadNow \in Seq(Waypoint) /\ Len(AheadNow) = Len(buffer) + Fill
           /\ Len(AheadNow) <= BufferSize /\ Len(AheadNow) <= Len(UnderWayNow)
           /\ \A i \in 1..Len(AheadNow) :
                 AheadNow[i] = UnderWayNow[Len(UnderWayNow) - Len(AheadNow) + i]
<1> DEFINE n == Fill
           F == FirstOf(queue, n)
           U == UnderWayNow
           A == AheadNow
<1>1. n \in 0..Len(queue) /\ n <= BufferSize - Len(buffer)
  BY Lengths DEF Deques, Fill, Smaller
<1>2. F \in Seq(Waypoint) /\ Len(F) = n /\ \A i \in 1..n : F[i] = queue[i]
  BY <1>1, FirstOfIs DEF Deques
<1> HIDE DEF n, F
<1>3. /\ U \in Seq(Waypoint) /\ Len(U) = Len(processed) + n
      /\ \A i \in 1..Len(processed) + n :
            U[i] = IF i <= Len(processed) THEN processed[i] ELSE F[i - Len(processed)]
  BY <1>2, ConcatProperties DEF Deques, UnderWayNow, n, F
<1>4. /\ A \in Seq(Waypoint) /\ Len(A) = Len(buffer) + n
      /\ \A i \in 1..Len(buffer) + n :
            A[i] = IF i <= Len(buffer) THEN buffer[i] ELSE F[i - Len(buffer)]
  BY <1>2, ConcatProperties DEF Deques, AheadNow, n, F
<1> HIDE DEF U, A
<1>5. ASSUME NEW i \in 1..Len(U) PROVE U[i] = <<plan, Left + i>> /\ Place(U[i]) \in Int
  <2>1. U[i] = <<plan, Left + i>>
    <3>1. CASE i <= Len(processed)
      <4>1. i \in 1..Len(processed) /\ i \in 1..Len(processed) + n
        BY <1>1, <1>3, <3>1, Lengths
      <4> QED
        BY <1>3, <3>1, <4>1 DEF InPlace
    <3>2. CASE ~(i <= Len(processed))
      <4>1. i - Len(processed) \in 1..n /\ i - Len(processed) \in 1..Len(queue)
            /\ i \in 1..Len(processed) + n
        BY <1>1, <1>3, <3>2, Lengths
      <4>2. U[i] = <<plan, Left + Len(processed) + (i - Len(processed))>>
        BY <1>2, <1>3, <3>2, <4>1 DEF InPlace
      <4>3. Left + Len(processed) + (i - Len(processed)) = Left + i
        BY Lengths DEF InPlace
      <4> QED
        BY <4>2, <4>3
    <3> QED
      BY <3>1, <3>2
  <2>2. Left + i \in 1..Len(Route(plan))
    BY <1>1, <1>3, Lengths DEF InPlace, Left
  <2> QED
    BY <2>1, <2>2, RouteIs DEF Deques
<1>6. Len(A) <= BufferSize /\ Len(A) <= Len(U)
  BY <1>1, <1>3, <1>4, Lengths DEF InPlace
<1>7. ASSUME NEW i \in 1..Len(A) PROVE A[i] = U[Len(U) - Len(A) + i]
  <2>1. /\ Len(U) - Len(A) + i = Len(processed) - Len(buffer) + i
        /\ Len(processed) - Len(buffer) + i \in 1..Len(processed) + n
        /\ i \in 1..Len(buffer) + n
    BY <1>1, <1>3, <1>4, Lengths DEF InPlace
  <2>2. CASE i <= Len(buffer)
    <3>1. /\ i \in 1..Len(buffer) /\ Len(processed) - Len(buffer) + i <= Len(processed)
      BY <2>1, <2>2, Lengths
    <3>2. U[Len(processed) - Len(buffer) + i] = processed[Len(processed) - Len(buffer) + i]
      BY <1>3, <2>1, <3>1
    <3>3. A[i] = buffer[i]
      BY <1>4, <2>1, <2>2
    <3> QED
      BY <2>1, <3>1, <3>2, <3>3 DEF InPlace
  <2>3. CASE ~(i <= Len(buffer))
    <3>1. /\ ~(Len(processed) - Len(buffer) + i <= Len(processed))
          /\ Len(processed) - Len(buffer) + i - Len(processed) = i - Len(buffer)
      BY <2>1, <2>3, Lengths
    <3>2. U[Len(processed) - Len(buffer) + i] = F[i - Len(buffer)]
      BY <1>3, <2>1, <3>1
    <3> QED
      BY <1>4, <2>1, <2>3, <3>2
  <2> QED
    BY <2>2, <2>3
<1> QED
  BY <1>1, <1>3, <1>4, <1>5, <1>6, <1>7 DEF n, U, A

\* The buffer is purged by a radius that is no smaller: it loses every waypoint
\* that is left behind.
LEMMA BufferLosesMore ==
    ASSUME Deques, InPlace
    PROVE  /\ LastWithin(AheadNow, PassRadius) \in 0..Len(AheadNow)
           /\ LastWithin(UnderWayNow, TouchRadius) \in 0..Len(UnderWayNow)
           /\ Len(AheadNow) - LastWithin(AheadNow, PassRadius)
                 <= Len(UnderWayNow) - LastWithin(UnderWayNow, TouchRadius)
<1> DEFINE U == UnderWayNow
           A == AheadNow
           a == LastWithin(A, PassRadius)
           g == LastWithin(U, TouchRadius)
<1>1. /\ U \in Seq(Waypoint) /\ A \in Seq(Waypoint) /\ Len(A) <= Len(U)
      /\ \A i \in 1..Len(U) : Place(U[i]) \in Int
      /\ \A i \in 1..Len(A) : A[i] = U[Len(U) - Len(A) + i]
  BY Filled
<1>2. /\ a \in 0..Len(A)
      /\ \A i \in 1..Len(A) : Gap(Place(A[i]), pose) < PassRadius => i <= a
  BY <1>1, LastWithinIs
<1>3. /\ g \in 0..Len(U)
      /\ g # 0 => Gap(Place(U[g]), pose) < TouchRadius
  BY <1>1, LastWithinIs
<1>4. Len(U) \in Nat /\ Len(A) \in Nat
  BY <1>1
<1> HIDE DEF U, A, a, g
<1>5. Len(A) - a <= Len(U) - g
  <2>1. CASE g <= Len(U) - Len(A)
    BY <1>2, <1>3, <1>4, <2>1
  <2>2. CASE g > Len(U) - Len(A)
    <3>1. /\ g - (Len(U) - Len(A)) \in 1..Len(A) /\ g # 0 /\ g \in 1..Len(U)
          /\ Len(U) - Len(A) + (g - (Len(U) - Len(A))) = g
      BY <1>1, <1>3, <1>4, <2>2
    <3>2. A[g - (Len(U) - Len(A))] = U[g]
      BY <1>1, <3>1
    <3>3. Gap(Place(U[g]), pose) < TouchRadius /\ Place(U[g]) \in Int /\ pose \in Int
      BY <1>1, <1>3, <3>1 DEF Deques
    <3>4. Gap(Place(U[g]), pose) < PassRadius
      BY <3>3, PlannerAssumption DEF Gap
    <3>5. g - (Len(U) - Len(A)) <= a
      BY <1>2, <3>1, <3>2, <3>4
    <3> QED
      BY <1>2, <1>3, <1>4, <3>5
  <2> QED
    BY <1>3, <1>4, <2>1, <2>2
<1> QED
  BY <1>2, <1>3, <1>5 DEF U, A, a, g

\* What is left behind, the latest first, and how much of it is remembered.
LEMMA Remembered ==
    ASSUME Deques, InPlace, NEW g \in 0..Len(UnderWayNow),
           NEW d, d = Remember(FirstOf(UnderWayNow, g))
    PROVE  /\ d \in Seq(Waypoint) /\ Len(d) <= History
           /\ \A i \in 1..Len(d) : IF i <= Left + g THEN d[i] = <<plan, Left + g + 1 - i>>
                                                     ELSE d[i][1] < plan
<1> DEFINE F == FirstOf(UnderWayNow, g)
           D == Reverse(F) \o deleted
           m == Smaller(History, Len(D))
<1>1. /\ UnderWayNow \in Seq(Waypoint) /\ Len(UnderWayNow) \in Nat
      /\ \A i \in 1..Len(UnderWayNow) : UnderWayNow[i] = <<plan, Left + i>>
  BY Filled
<1>2. F \in Seq(Waypoint) /\ Len(F) = g /\ \A i \in 1..g : F[i] = UnderWayNow[i]
  BY <1>1, FirstOfIs
<1> HIDE DEF F
<1>3. /\ Reverse(F) \in Seq(Waypoint) /\ Len(Reverse(F)) = g
      /\ \A i \in 1..g : Reverse(F)[i] = F[g + 1 - i]
  BY <1>2, ReverseIs
<1>4. /\ D \in Seq(Waypoint) /\ Len(D) = g + Len(deleted)
      /\ \A i \in 1..(g + Len(deleted)) :
            D[i] = IF i <= g THEN Reverse(F)[i] ELSE deleted[i - g]
  BY <1>3, ConcatProperties DEF Deques
<1>5. d = FirstOf(D, m)
  BY DEF Remember, F
<1> HIDE DEF D
<1>6. m \in 0..Len(D) /\ m <= History
  BY <1>1, <1>4, Lengths DEF Smaller
<1> HIDE DEF m
<1>7. d \in Seq(Waypoint) /\ Len(d) = m /\ \A i \in 1..m : d[i] = D[i]
  BY <1>4, <1>5, <1>6, FirstOfIs
<1>8. ASSUME NEW i \in 1..m
      PROVE  IF i <= Left + g THEN d[i] = <<plan, Left + g + 1 - i>> ELSE d[i][1] < plan
  <2>1. i \in 1..(g + Len(deleted)) /\ g \in Nat /\ Left \in Nat
    BY <1>1, <1>4, <1>6, Lengths DEF InPlace
  <2>2. CASE i <= g
    <3>1. g + 1 - i \in 1..g /\ g + 1 - i \in 1..Len(UnderWayNow)
      BY <1>1, <2>1, <2>2
    <3>2. d[i] = <<plan, Left + (g + 1 - i)>>
      <4>1. d[i] = D[i] /\ D[i] = Reverse(F)[i]
        BY <1>4, <1>7, <2>1, <2>2
      <4>2. Reverse(F)[i] = F[g + 1 - i] /\ F[g + 1 - i] = UnderWayNow[g + 1 - i]
        BY <1>2, <1>3, <2>1, <2>2, <3>1
      <4> QED
        BY <1>1, <3>1, <4>1, <4>2
    <3>3. Left + (g + 1 - i) = Left + g + 1 - i /\ i <= Left + g
      BY <2>1, <2>2
    <3> QED
      BY <3>2, <3>3
  <2>3. CASE ~(i <= g)
    <3>1. i - g \in 1..Len(deleted) /\ (i <= Left + g <=> i - g <= Left)
          /\ Left + 1 - (i - g) = Left + g + 1 - i
      BY <2>1, <2>3, Lengths
    <3>2. d[i] = deleted[i - g]
      BY <1>4, <1>7, <2>1, <2>3
    <3>3. IF i - g <= Left THEN deleted[i - g] = <<plan, Left + 1 - (i - g)>>
                           ELSE deleted[i - g][1] < plan
      BY <3>1 DEF InPlace
    <3> QED
      BY <3>1, <3>2, <3>3
  <2> QED
    BY <2>2, <2>3
<1> QED
  BY <1>6, <1>7, <1>8

LEMMA FollowKeeps ==
    ASSUME Deques, InPlace, Follow, pose' = pose
    PROVE  /\ Deques' /\ InPlace' /\ UNCHANGED <<plan, mission>>
           /\ Len(queue') <= Len(queue)
           /\ Len(processed') + Len(queue') <= Len(processed) + Len(queue)
<1> DEFINE U == UnderWayNow
           A == AheadNow
           n == Fill
           a == LastWithin(A, PassRadius)
           g == LastWithin(U, TouchRadius)
<1>1. /\ queue' = RestOf(queue, n) /\ buffer' = RestOf(A, a) /\ processed' = RestOf(U, g)
      /\ deleted' = Remember(FirstOf(U, g)) /\ UNCHANGED <<plan, mission>>
  BY DEF Follow, FollowWith
<1>2. /\ n \in 0..Len(queue)
      /\ U \in Seq(Waypoint) /\ Len(U) = Len(processed) + n
      /\ \A i \in 1..Len(U) : U[i] = <<plan, Left + i>>
      /\ A \in Seq(Waypoint) /\ Len(A) <= BufferSize /\ Len(A) <= Len(U)
      /\ \A i \in 1..Len(A) : A[i] = U[Len(U) - Len(A) + i]
  BY Filled
<1>3. a \in 0..Len(A) /\ g \in 0..Len(U) /\ Len(A) - a <= Len(U) - g
  BY BufferLosesMore
<1>4. /\ deleted' \in Seq(Waypoint) /\ Len(deleted') <= History
      /\ \A i \in 1..Len(deleted') :
            IF i <= Left + g THEN deleted'[i] = <<plan, Left + g + 1 - i>>
                             ELSE deleted'[i][1] < plan
  BY <1>1, <1>3, Remembered
<1> HIDE DEF U, A, n, a, g
<1>5. /\ queue' \in Seq(Waypoint) /\ Len(queue') = Len(queue) - n
      /\ \A i \in 1..(Len(queue) - n) : queue'[i] = queue[n + i]
  BY <1>1, <1>2, RestOfIs DEF Deques
<1>6. /\ processed' \in Seq(Waypoint) /\ Len(processed') = Len(U) - g
      /\ \A i \in 1..(Len(U) - g) : processed'[i] = U[g + i]
  BY <1>1, <1>2, <1>3, RestOfIs
<1>7. /\ buffer' \in Seq(Waypoint) /\ Len(buffer') = Len(A) - a
      /\ \A i \in 1..(Len(A) - a) : buffer'[i] = A[a + i]
  BY <1>1, <1>2, <1>3, RestOfIs
<1>8. /\ n \in Nat /\ a \in Nat /\ g \in Nat /\ Len(U) \in Nat /\ Len(A) \in Nat
      /\ Left \in Nat
  BY <1>2, <1>3, Lengths DEF InPlace
<1>9. Left' = Left + g
  BY <1>1, <1>2, <1>5, <1>6, <1>8, Lengths DEF Left, Route
<1>10. Deques'
  <2>1. Len(buffer') <= BufferSize
    BY <1>2, <1>3, <1>7, <1>8, Lengths
  <2>2. plan' \in 0..Len(Path) /\ pose' \in Int
    BY <1>1 DEF Deques
  <2> QED
    BY <1>4, <1>5, <1>6, <1>7, <2>1, <2>2 DEF Deques
<1>11. \A i \in 1..Len(processed') : processed'[i] = <<plan', Left' + i>>
  <2> SUFFICES ASSUME NEW i \in 1..Len(processed')
               PROVE  processed'[i] = <<plan, Left' + i>>
    BY <1>1
  <2>1. g + i \in 1..Len(U) /\ i \in 1..(Len(U) - g) /\ Left + (g + i) = Left' + i
    BY <1>3, <1>6, <1>8, <1>9
  <2> QED
    BY <1>2, <1>6, <2>1
<1>12. \A i \in 1..Len(queue') : queue'[i] = <<plan', Left' + Len(processed') + i>>
  <2> SUFFICES ASSUME NEW i \in 1..Len(queue')
               PROVE  queue'[i] = <<plan, Left' + Len(processed') + i>>
    BY <1>1
  <2>1. /\ n + i \in 1..Len(queue) /\ i \in 1..(Len(queue) - n)
        /\ Left + Len(processed) + (n + i) = Left' + Len(processed') + i
    BY <1>2, <1>5, <1>6, <1>8, <1>9, Lengths
  <2> QED
    BY <1>5, <2>1 DEF InPlace
<1>13. /\ Len(buffer') <= Len(processed')
       /\ \A i \in 1..Len(buffer') :
             buffer'[i] = processed'[Len(processed') - Len(buffer') + i]
  <2>1. Len(buffer') <= Len(processed')
    BY <1>3, <1>6, <1>7
  <2>2. ASSUME NEW i \in 1..Len(buffer')
        PROVE  buffer'[i] = processed'[Len(processed') - Len(buffer') + i]
    <3> DEFINE j == Len(processed') - Len(buffer') + i
    <3>1. /\ i \in 1..(Len(A) - a) /\ a + i \in 1..Len(A)
          /\ j \in 1..(Len(U) - g) /\ g + j = Len(U) - Len(A) + (a + i)
      BY <1>2, <1>3, <1>6, <1>7, <1>8
    <3> HIDE DEF j
    <3>2. buffer'[i] = U[Len(U) - Len(A) + (a + i)]
      BY <1>2, <1>7, <3>1
    <3>3. processed'[j] = U[g + j]
      BY <1>6, <3>1
    <3> QED
      BY <3>1, <3>2, <3>3 DEF j
  <2> QED
    BY <2>1, <2>2
<1>14. \A i \in 1..Len(deleted') :
          IF i <= Left' THEN deleted'[i] = <<plan', Left' + 1 - i>> ELSE deleted'[i][1] < plan'
  BY <1>1, <1>4, <1>9
<1>15. InPlace'
  BY <1>8, <1>9, <1>11, <1>12, <1>13, <1>14 DEF InPlace
<1> QED
  <2>1. /\ Len(queue') <= Len(queue)
        /\ Len(processed') + Len(queue') <= Len(processed) + Len(queue)
    <3>1. Len(queue) \in Nat /\ Len(processed) \in Nat
      BY Lengths
    <3>2. Len(queue') = Len(queue) - n
      BY <1>5
    <3>3. Len(U) = Len(processed) + n
      BY <1>2
    <3>4. Len(processed') = Len(U) - g
      BY <1>6
    <3> QED
      BY <1>8, <3>1, <3>2, <3>3, <3>4
  <2> QED
    BY <1>1, <1>10, <1>15, <2>1
-----------------------------------------------------------------------------
(***************************************************************************)
(* Every step keeps the invariant.                                         *)
(***************************************************************************)

LEMMA SameRoute ==
    ASSUME Deques, InPlace, UNCHANGED route, pose' \in Int PROVE Deques' /\ InPlace'
BY DEF Deques, InPlace, Left, Route, route

LEMMA NewRoute ==
    ASSUME Deques, InPlace, NEW k \in 1..Len(Path), plan < k, SetGlobalPlan(k), pose' \in Int
    PROVE  Deques' /\ InPlace'
<1>1. /\ plan' = k /\ queue' = Route(k) /\ buffer' = << >> /\ processed' = << >>
      /\ deleted' = deleted
  BY DEF SetGlobalPlan
<1>2. /\ Route(k) \in Seq(Waypoint) /\ Len(Route(k)) \in Nat
      /\ \A i \in 1..Len(Route(k)) : Route(k)[i] = <<k, i>>
  <2>1. k \in 0..Len(Path)
    OBVIOUS
  <2> QED
    BY <2>1, RouteIs
<1>3. /\ buffer' \in Seq(Waypoint) /\ processed' \in Seq(Waypoint)
      /\ Len(buffer') = 0 /\ Len(processed') = 0
  BY <1>1
<1>4. Left' = 0
  <2>1. Left' = Len(Route(k)) - 0 - Len(Route(k))
    BY <1>1, <1>3 DEF Left, Route
  <2> QED
    BY <1>2, <2>1
<1>5. Deques'
  BY <1>1, <1>2, <1>3, Lengths DEF Deques
<1>6. \A i \in 1..Len(deleted) : deleted[i][1] < k
  <2> SUFFICES ASSUME NEW i \in 1..Len(deleted) PROVE deleted[i][1] < k
    OBVIOUS
  <2>1. plan \in Int /\ k \in Int
    BY DEF Deques
  <2>2. CASE i <= Left
    <3>1. deleted[i] = <<plan, Left + 1 - i>>
      BY <2>2 DEF InPlace
    <3> QED
      BY <3>1
  <2>3. CASE ~(i <= Left)
    <3>1. deleted[i][1] < plan
      BY <2>3 DEF InPlace
    <3>2. deleted[i] \in Waypoint
      BY ElementOfSeq DEF Deques
    <3>3. deleted[i][1] \in Int
      BY <3>2, PlannerAssumption DEF Waypoint
    <3> QED
      BY <2>1, <3>1, <3>3
  <2> QED
    BY <2>2, <2>3
<1>7. \A i \in 1..Len(deleted') :
         IF i <= Left' THEN deleted'[i] = <<plan', Left' + 1 - i>> ELSE deleted'[i][1] < plan'
  <2>1. \A i \in 1..Len(deleted) : ~(i <= 0)
    BY Lengths
  <2> QED
    BY <1>1, <1>4, <1>6, <2>1
<1>8. \A i \in 1..Len(queue') : queue'[i] = <<plan', Left' + Len(processed') + i>>
  <2>1. \A i \in 1..Len(Route(k)) : 0 + 0 + i = i
    BY <1>2
  <2> QED
    BY <1>1, <1>2, <1>3, <1>4, <2>1
<1>9. InPlace'
  BY <1>3, <1>4, <1>7, <1>8 DEF InPlace
<1> QED
  BY <1>5, <1>9

\* run_step, of either task: it reports the goal once, and then does nothing.
LEMMA RunStepKeeps ==
    ASSUME Deques, InPlace, Mission, NEW c, RunStep(c), pose' = pose
    PROVE  /\ Deques' /\ InPlace' /\ Mission' /\ plan' = plan
           /\ Len(queue') <= Len(queue)
           /\ Len(processed') + Len(queue') <= Len(processed) + Len(queue)
<1>1. CASE UNCHANGED route
  <2>1. Deques' /\ InPlace' /\ plan' = plan
    BY <1>1, SameRoute DEF Deques, route
  <2>2. /\ Len(queue') <= Len(queue)
        /\ Len(processed') + Len(queue') <= Len(processed) + Len(queue)
    BY <1>1, Lengths DEF route
  <2>3. UNCHANGED mission \/ (~reached /\ reached' = TRUE /\ reports' = reports + 1)
    BY DEF RunStep, GoalKnown, ReachGoal, NothingToFollow, Follow, FollowWith
  <2>4. CASE UNCHANGED mission
    BY <2>1, <2>2, <2>4 DEF Mission, ReportedOnce, Ready, mission
  <2>5. CASE ~reached /\ reached' = TRUE /\ reports' = reports + 1
    <3>1. reports = 0
      <4>1. reports # 1
        BY <2>5 DEF Mission, ReportedOnce
      <4> QED
        BY <4>1 DEF Mission
    <3>2. reports' = 1
      BY <2>5, <3>1
    <3>3. Mission'
      BY <2>5, <3>2 DEF Mission, ReportedOnce
    <3> QED
      BY <2>1, <2>2, <3>3
  <2> QED
    BY <2>3, <2>4, <2>5
<1>2. CASE Follow
  <2>1. /\ Deques' /\ InPlace' /\ UNCHANGED <<plan, mission>>
        /\ Len(queue') <= Len(queue)
        /\ Len(processed') + Len(queue') <= Len(processed) + Len(queue)
    BY <1>2, FollowKeeps
  <2>2. Mission'
    BY <2>1 DEF Mission, ReportedOnce, Ready, mission
  <2> QED
    BY <2>1, <2>2
<1> QED
  BY <1>1, <1>2 DEF RunStep, GoalKnown, ReachGoal, NothingToFollow

LEMMA InitInv == Init => Inv
<1> SUFFICES ASSUME Init PROVE Inv
  OBVIOUS
<1>1. /\ queue = << >> /\ processed = << >> /\ buffer = << >> /\ deleted = << >>
      /\ plan = 0 /\ pose = 0 /\ reached = FALSE /\ reports = 0 /\ task = "idle"
  BY DEF Init
<1>2. /\ queue \in Seq(Waypoint) /\ processed \in Seq(Waypoint)
      /\ buffer \in Seq(Waypoint) /\ deleted \in Seq(Waypoint)
      /\ Len(queue) = 0 /\ Len(processed) = 0 /\ Len(buffer) = 0 /\ Len(deleted) = 0
      /\ Len(Route(plan)) = 0
  BY <1>1 DEF Route
<1>3. Deques
  BY <1>1, <1>2, PlannerAssumption DEF Deques
<1>4. InPlace
  BY <1>2 DEF InPlace, Left
<1>5. reports \in {0, 1} /\ reports # 1 /\ ~Ready
  BY <1>1 DEF Ready
<1>6. Mission
  BY <1>1, <1>5 DEF Mission, ReportedOnce
<1>7. Looking
  BY <1>1 DEF Looking
<1> QED
  BY <1>3, <1>4, <1>6, <1>7 DEF Inv

LEMMA StepInv == Inv /\ [Next]_vars => Inv'
<1> SUFFICES ASSUME Inv, [Next]_vars PROVE Inv'
  OBVIOUS
<1>1. Deques /\ InPlace /\ Mission /\ Looking /\ pose \in Int
  BY DEF Inv, Deques
<1>2. ASSUME UNCHANGED <<route, mission>>, pose' \in Int PROVE Deques' /\ InPlace' /\ Mission'
  BY <1>1, <1>2, SameRoute DEF Mission, ReportedOnce, Ready, route, mission
<1>3. ASSUME UNCHANGED <<driver, route, planning>> PROVE Looking'
  BY <1>1, <1>3 DEF Looking, route, planning, Route
<1>4. ASSUME NEW p \in Poses, OdometryCallback(p), UNCHANGED driver PROVE Inv'
  <2>1. pose' \in Int
    BY <1>4, PlannerAssumption DEF OdometryCallback
  <2> QED
    BY <1>2, <1>3, <1>4, <2>1 DEF OdometryCallback, Inv
<1>5. CASE Initialize /\ UNCHANGED driver
  <2>1. plan = 0 /\ ~reached /\ task = "idle" /\ task' = "idle" /\ pose' = pose
    BY <1>1, <1>5 DEF Initialize, Ready, Looking, planning
  <2>2. Looking'
    BY <2>1 DEF Looking
  <2>3. CASE Path # << >> /\ SetGlobalPlan(1) /\ UNCHANGED mission
    <3>1. 1 \in 1..Len(Path)
      BY <2>3, PlannerAssumption
    <3>2. Deques' /\ InPlace'
      BY <1>1, <2>1, <2>3, <3>1, NewRoute
    <3>3. Mission'
      BY <1>1, <2>1, <2>3 DEF Mission, ReportedOnce, Ready, mission, SetGlobalPlan
    <3> QED
      BY <2>2, <3>2, <3>3 DEF Inv
  <2>4. CASE reached' = TRUE /\ UNCHANGED <<route, goal, reports>>
    <3>1. Deques' /\ InPlace'
      BY <1>1, <2>1, <2>4, SameRoute
    <3>2. Mission'
      BY <1>1, <2>1, <2>4 DEF Mission, ReportedOnce, Ready, route
    <3> QED
      BY <2>2, <3>1, <3>2 DEF Inv
  <2> QED
    BY <1>5, <2>3, <2>4 DEF Initialize
<1>6. CASE ControlTask /\ UNCHANGED driver
  <2>1. PICK c : RunStep(c)
    BY <1>6 DEF ControlTask
  <2>2. pose' = pose /\ UNCHANGED planning
    BY <1>6 DEF ControlTask
  <2>3. /\ Deques' /\ InPlace' /\ Mission' /\ plan' = plan
        /\ Len(queue') <= Len(queue)
        /\ Len(processed') + Len(queue') <= Len(processed) + Len(queue)
    BY <1>1, <2>1, <2>2, RunStepKeeps
  <2>4. Looking'
    <3>1. task' = task /\ local' = local /\ driver' = driver /\ Route(plan)' = Route(plan)
      BY <1>6, <2>2, <2>3 DEF planning, Route
    <3>2. /\ Len(queue') \in Nat /\ Len(processed') \in Nat
          /\ Len(queue) \in Nat /\ Len(processed) \in Nat
      BY <1>1, <2>3, Lengths DEF Deques
    <3> QED
      BY <1>1, <2>3, <3>1, <3>2 DEF Looking
  <2> QED
    BY <2>3, <2>4 DEF Inv
<1>7. CASE BeginPlanning /\ UNCHANGED driver
  <2>1. Looking'
    BY <1>1, <1>7 DEF BeginPlanning, Looking, route
  <2> QED
    BY <1>1, <1>2, <1>7, <2>1 DEF BeginPlanning, Inv
<1>8. ASSUME NEW s \in Steps, BeginLookup(s), UNCHANGED driver PROVE Inv'
  <2>1. /\ task' = "sized" /\ driver' = "manual" /\ local' = <<s, Len(processed), Len(queue)>>
        /\ processed' = processed /\ queue' = queue /\ plan' = plan /\ plan # 0
    BY <1>1, <1>8 DEF BeginLookup, Looking, route
  <2>2. local' \in Int \X Nat \X Nat
    BY <1>1, <2>1, Lengths, PlannerAssumption
  <2>3. local'[2] = Len(processed) /\ local'[3] = Len(queue)
    BY <2>1
  <2>4. Len(processed) + Len(queue) <= Len(Route(plan)) /\ Route(plan)' = Route(plan)
    BY <1>1, <2>1, Lengths DEF InPlace, Left, Route
  <2>5. Looking'
    BY <1>1, <2>1, <2>2, <2>3, <2>4, Lengths DEF Looking
  <2> QED
    BY <1>1, <1>2, <1>8, <2>5 DEF BeginLookup, Inv
<1>9. CASE EndLookup /\ UNCHANGED driver
  <2>1. Looking'
    BY <1>1, <1>9 DEF EndLookup, Looking, route
  <2> QED
    BY <1>1, <1>2, <1>9, <2>1 DEF EndLookup, Inv
<1>10. CASE ManualStep /\ UNCHANGED driver
  <2>1. PICK c : RunStep(c)
    BY <1>10 DEF ManualStep
  <2>2. pose' = pose /\ task' = "publish" /\ task # "idle"
    BY <1>10 DEF ManualStep
  <2>3. Deques' /\ InPlace' /\ Mission' /\ plan' = plan
    BY <1>1, <2>1, <2>2, RunStepKeeps
  <2>4. Looking'
    BY <1>1, <2>2, <2>3 DEF Looking
  <2> QED
    BY <2>3, <2>4 DEF Inv
<1>11. CASE Publish /\ UNCHANGED driver
  <2>1. Looking'
    BY <1>11 DEF Publish, Looking
  <2> QED
    BY <1>1, <1>2, <1>11, <2>1 DEF Publish, Inv
<1>12. CASE ChangeLane /\ UNCHANGED driver
  <2>1. /\ SetGlobalPlan(2) /\ plan = 1 /\ pose' = pose /\ UNCHANGED mission
        /\ task' = "goal" /\ Len(Path) > 1
    BY <1>12 DEF ChangeLane
  <2>2. 2 \in 1..Len(Path) /\ plan' = 2
    BY <2>1, PlannerAssumption DEF SetGlobalPlan
  <2>3. Deques' /\ InPlace'
    BY <1>1, <2>1, <2>2, NewRoute
  <2>4. Mission'
    BY <1>1, <2>1, <2>2 DEF Mission, ReportedOnce, Ready, mission
  <2>5. Looking'
    BY <2>1, <2>2 DEF Looking
  <2> QED
    BY <2>3, <2>4, <2>5 DEF Inv
<1>13. CASE SetGoalPoint /\ UNCHANGED driver
  <2>1. Looking'
    BY <1>13 DEF SetGoalPoint, Looking
  <2>2. Mission'
    BY <1>1, <1>13 DEF SetGoalPoint, Mission, ReportedOnce, Ready, route
  <2>3. Deques' /\ InPlace'
    BY <1>1, <1>13, SameRoute DEF SetGoalPoint
  <2> QED
    BY <2>1, <2>2, <2>3 DEF Inv
<1>14. CASE AutoStep /\ UNCHANGED driver
  <2>1. Looking'
    BY <1>14 DEF AutoStep, Looking
  <2> QED
    BY <1>1, <1>2, <1>14, <2>1 DEF AutoStep, Inv
<1>15. CASE UNCHANGED vars
  BY <1>1, <1>2, <1>3, <1>15 DEF vars, Inv
<1> QED
  BY <1>4, <1>5, <1>6, <1>7, <1>8, <1>9, <1>10, <1>11, <1>12, <1>13, <1>14, <1>15 DEF Next

\* No waypoint is skipped, doubled or left over from an older route
\* (run_step, set_global_plan).
THEOREM NoWaypointIsLost == Spec => []RouteIsWhole
<1>1. Inv => RouteIsWhole
  BY WholeRoute DEF Inv
<1> QED
  BY <1>1, InitInv, StepInv, PTL DEF Spec

\* What is steered for is never dropped from what lookups use (run_step).
THEOREM LookupsSeeTheBuffer == Spec => []BufferIsUnderWay
<1>1. Inv => BufferIsUnderWay
  BY BufferBelongs DEF Inv
<1> QED
  BY <1>1, InitInv, StepInv, PTL DEF Spec

\* What a lookup finds behind is what was left behind, across a replacement of
\* the route (get_incoming_waypoint_and_direction).
THEOREM PastIsInOrder == Spec => []BehindIsInOrder
<1>1. Inv => BehindIsInOrder
  BY BehindBelongs DEF Inv
<1> QED
  BY <1>1, InitInv, StepInv, PTL DEF Spec

\* The two tasks report the goal once between them (run_step).
THEOREM GoalIsReportedOnce == Spec => []ReportedOnce
<1>1. Inv => ReportedOnce
  BY DEF Inv, Mission
<1> QED
  BY <1>1, InitInv, StepInv, PTL DEF Spec

\* After the goal no run_step moves the vehicle or consumes its route.
THEOREM GoalIsFinal == Spec => NoNewCommandAtGoal
<1> DEFINE Holds == /\ command' \in {command, decision}
                    /\ decision' \in {decision, "none", "brake"}
                    /\ plan' = plan => processed' = processed /\ queue' = queue
<1>1. ASSUME reached, Next PROVE Holds
  <2>1. ASSUME NEW c, RunStep(c) PROVE UNCHANGED <<route, command>> /\ c = "brake"
    BY <1>1, <2>1 DEF RunStep, GoalKnown, ReachGoal, NothingToFollow, Follow, FollowWith, Underway
  <2>2. CASE \E p \in Poses : OdometryCallback(p)
    BY <2>2 DEF OdometryCallback, route, planning
  <2>3. CASE Initialize
    BY <1>1, <2>3 DEF Initialize, Ready
  <2>4. CASE ControlTask
    BY <2>1, <2>4 DEF ControlTask, route, planning
  <2>5. CASE BeginPlanning \/ (\E s \in Steps : BeginLookup(s)) \/ EndLookup
             \/ Publish \/ SetGoalPoint \/ AutoStep
    BY <2>5 DEF BeginPlanning, BeginLookup, EndLookup, Publish, SetGoalPoint, AutoStep, route
  <2>6. CASE ManualStep
    BY <2>1, <2>6 DEF ManualStep, route
  <2>7. CASE ChangeLane
    <3>1. plan = 1 /\ plan' = 2 /\ UNCHANGED <<command, decision>>
      BY <2>7 DEF ChangeLane, SetGlobalPlan
    <3> QED
      BY <3>1
  <2> QED
    BY <1>1, <2>2, <2>3, <2>4, <2>5, <2>6, <2>7 DEF Next
<1>2. [Next]_vars => [reached => Holds]_vars
  BY <1>1
<1> QED
  BY <1>2, PTL DEF Spec, NoNewCommandAtGoal

\* A lookup, however long it takes, never returns a waypoint behind the one it
\* was asked for (get_incoming_waypoint_and_direction).
THEOREM LookupsLookAhead == Spec => LookupNeverLooksBack
<1> DEFINE n == Len(Route(plan))
           Holds == task = "sized" /\ local[1] >= 0 /\ found' \in Waypoint /\ found' # found
                       => found'[2] >= Smaller(AskedFor, n)
<1>1. ASSUME Inv, EndLookup, local[1] >= 0, found' \in Waypoint
      PROVE  found'[2] >= Smaller(AskedFor, n)
  <2> DEFINE s == local[1]
             a == local[2]
             b == local[3]
  <2>1. /\ s \in Nat /\ a \in Nat /\ b \in Nat
        /\ Len(processed) + Len(queue) <= a + b /\ Len(queue) <= b
        /\ found' = Ahead(s, a, b)
    BY <1>1 DEF EndLookup, Inv, Looking
  <2>2. /\ n \in Nat /\ Len(processed) \in Nat /\ Len(queue) \in Nat
        /\ Left = n - Len(processed) - Len(queue) /\ Left \in Nat
    BY <1>1, Lengths DEF Inv, InPlace, Left
  <2>3. AskedFor = n - a - b + s + 1
    BY DEF AskedFor
  <2>4. /\ DOMAIN processed = 1..Len(processed) /\ DOMAIN queue = 1..Len(queue)
        /\ \A i \in DOMAIN processed : processed[i] = <<plan, Left + i>>
        /\ \A i \in DOMAIN queue : queue[i] = <<plan, Left + Len(processed) + i>>
    <3>1. processed \in Seq(Waypoint) /\ queue \in Seq(Waypoint)
      BY <1>1 DEF Inv, Deques
    <3>2. /\ \A i \in 1..Len(processed) : processed[i] = <<plan, Left + i>>
          /\ \A i \in 1..Len(queue) : queue[i] = <<plan, Left + Len(processed) + i>>
      BY <1>1 DEF Inv, InPlace
    <3>3. DOMAIN processed = 1..Len(processed)
      BY <3>1
    <3>4. DOMAIN queue = 1..Len(queue)
      BY <3>1
    <3> QED
      BY <3>2, <3>3, <3>4
  <2> HIDE DEF s, a, b, n
  <2>5. CASE s < a
    <3>1. found' = At(processed, s + 1)
      BY <2>1, <2>5 DEF Ahead
    <3>2. s + 1 \in DOMAIN processed /\ found' = processed[s + 1]
      BY <1>1, <3>1, PlannerAssumption DEF At
    <3>3. found'[2] = Left + (s + 1)
      BY <2>4, <3>2
    <3> QED
      BY <2>1, <2>2, <2>3, <3>3 DEF Smaller
  <2>6. CASE ~(s < a) /\ s - a < b
    <3>1. found' = At(queue, s - a + 1)
      BY <2>1, <2>6 DEF Ahead
    <3>2. s - a + 1 \in DOMAIN queue /\ found' = queue[s - a + 1]
      BY <1>1, <3>1, PlannerAssumption DEF At
    <3>3. found'[2] = Left + Len(processed) + (s - a + 1)
      BY <2>4, <3>2
    <3> QED
      BY <2>1, <2>2, <2>3, <3>3 DEF Smaller
  <2>7. CASE ~(s < a) /\ ~(s - a < b)
    <3>1. found' = IF queue # << >> THEN Last(queue)
                   ELSE IF processed # << >> THEN Last(processed) ELSE None
      BY <2>1, <2>7 DEF Ahead
    <3>2. found'[2] = n
      <4>1. CASE queue # << >>
        <5>1. Len(queue) \in DOMAIN queue
          BY <1>1, <4>1 DEF Inv, Deques
        <5>2. found' = queue[Len(queue)]
          BY <3>1, <4>1 DEF Last
        <5>3. found'[2] = Left + Len(processed) + Len(queue)
          BY <2>4, <5>1, <5>2
        <5> QED
          BY <2>2, <5>3
      <4>2. CASE queue = << >>
        <5>1. processed # << >> /\ found' = processed[Len(processed)]
          BY <1>1, <3>1, <4>2, PlannerAssumption DEF Last
        <5>2. Len(processed) \in DOMAIN processed /\ Len(queue) = 0
          BY <1>1, <4>2, <5>1 DEF Inv, Deques
        <5>3. found'[2] = Left + Len(processed)
          BY <2>4, <5>1, <5>2
        <5> QED
          BY <2>2, <5>2, <5>3
      <4> QED
        BY <4>1, <4>2
    <3> QED
      BY <2>1, <2>2, <2>3, <3>2 DEF Smaller
  <2> QED
    BY <2>5, <2>6, <2>7 DEF n
<1>2. ASSUME Inv, Next PROVE Holds
  <2>1. CASE EndLookup
    BY <1>1, <1>2, <2>1
  <2>2. CASE ~EndLookup
    <3>1. task = "sized" => found' = found
      BY <1>2, <2>2 DEF Next, OdometryCallback, Initialize, ControlTask, BeginPlanning, BeginLookup,
                        ManualStep, Publish, ChangeLane, SetGoalPoint, AutoStep, planning
    <3> QED
      BY <3>1
  <2> QED
    BY <2>1, <2>2
<1>3. Inv /\ [Next]_vars => [Holds]_vars
  BY <1>2
<1> QED
  BY <1>3, InitInv, StepInv, PTL DEF Spec, LookupNeverLooksBack

\* Every variable stays in its type.
THEOREM TypeCorrect == Spec => []TypeOK
<1> DEFINE Rest ==
              /\ driver \in Drivers
              /\ odom \in BOOLEAN
              /\ goal \in Int
              /\ command \in {"none", "brake", "drive"}
              /\ task \in {"idle", "planning", "sized", "publish", "goal"}
              /\ local \in {<< >>} \cup (Int \X Nat \X Nat)
              /\ found \in Waypoint \cup {None, Undefined}
              /\ decision \in {"none", "brake", "drive"}
<1>1. Init => Rest
  BY PlannerAssumption DEF Init
<1>2. ASSUME Inv, Rest, Next PROVE Rest'
  <2>1. ASSUME NEW c, RunStep(c)
        PROVE  /\ c \in {"brake", "drive"}
               /\ goal' = goal
               /\ command' \in {"none", "brake", "drive"}
    BY <1>2, <2>1 DEF RunStep, GoalKnown, ReachGoal, NothingToFollow, Follow, FollowWith, mission
  <2>2. CASE \E p \in Poses : OdometryCallback(p)
    BY <1>2, <2>2 DEF OdometryCallback, mission, planning, Next
  <2>3. CASE Initialize
    BY <1>2, <2>3 DEF Initialize, mission, planning, Next
  <2>4. CASE ControlTask
    BY <1>2, <2>1, <2>4 DEF ControlTask, planning, Next
  <2>5. CASE BeginPlanning
    BY <1>2, <2>5 DEF BeginPlanning, mission, Next
  <2>6. CASE \E s \in Steps : BeginLookup(s)
    <3>1. PICK s \in Steps : BeginLookup(s)
      BY <2>6
    <3>2. Len(processed) \in Nat /\ Len(queue) \in Nat /\ s \in Int
      BY <1>2, Lengths, PlannerAssumption DEF Inv
    <3>3. local' \in Int \X Nat \X Nat
      BY <3>1, <3>2 DEF BeginLookup
    <3> QED
      BY <1>2, <3>1, <3>3 DEF BeginLookup, mission, Next
  <2>7. CASE EndLookup
    <3>1. /\ processed \in Seq(Waypoint) /\ queue \in Seq(Waypoint) /\ deleted \in Seq(Waypoint)
          /\ local \in Int \X Nat \X Nat
      BY <1>2, <2>7 DEF Inv, Deques, Looking, EndLookup
    <3>2. ASSUME NEW s \in Seq(Waypoint), s # << >> PROVE Last(s) \in Waypoint /\ Head(s) \in Waypoint
      BY <3>2, ElementOfSeq DEF Last
    <3>3. ASSUME NEW s \in Seq(Waypoint), NEW i \in Int PROVE At(s, i) \in Waypoint \cup {Undefined}
      BY ElementOfSeq DEF At
    <3>4. local[1] < 0 => Behind(local[1]) \in Waypoint \cup {None}
      <4>1. SUFFICES ASSUME local[1] < 0, -local[1] <= Len(deleted)
                     PROVE  deleted[-local[1]] \in Waypoint
        BY <3>1, <3>2 DEF Behind
      <4>2. -local[1] \in 1..Len(deleted)
        BY <3>1, <4>1
      <4> QED
        BY <3>1, <4>2, ElementOfSeq
    <3>5. Ahead(local[1], local[2], local[3]) \in Waypoint \cup {None, Undefined}
      <4>1. /\ At(processed, local[1] + 1) \in Waypoint \cup {Undefined}
            /\ At(queue, local[1] - local[2] + 1) \in Waypoint \cup {Undefined}
        BY <3>1, <3>3
      <4> QED
        BY <3>1, <3>2, <4>1 DEF Ahead
    <3> QED
      BY <1>2, <2>7, <3>4, <3>5 DEF EndLookup, mission, Next
  <2>8. CASE ManualStep
    BY <1>2, <2>1, <2>8 DEF ManualStep, Next
  <2>9. CASE Publish
    BY <1>2, <2>9 DEF Publish, mission, Next
  <2>10. CASE ChangeLane
    BY <1>2, <2>10 DEF ChangeLane, mission, Next
  <2>11. CASE SetGoalPoint
    <3>1. plan \in 1..Len(Path)
      BY <1>2, <2>11 DEF SetGoalPoint, Inv, Deques, Looking
    <3>2. Path[plan] \in Seq(Int) /\ Path[plan] # << >>
      BY <3>1, PlannerAssumption, ElementOfSeq
    <3>3. Last(Path[plan]) \in Int
      BY <3>2, ElementOfSeq DEF Last
    <3> QED
      BY <1>2, <2>11, <3>3 DEF SetGoalPoint, Next
  <2>12. CASE AutoStep
    BY <1>2, <2>12 DEF AutoStep, mission, Next
  <2> QED
    BY <1>2, <2>2, <2>3, <2>4, <2>5, <2>6, <2>7, <2>8, <2>9, <2>10, <2>11, <2>12 DEF Next
<1>3. Rest /\ UNCHANGED vars => Rest'
  BY DEF vars, mission, planning
<1>4. Inv /\ Rest /\ [Next]_vars => Rest'
  BY <1>2, <1>3
<1>5. Inv /\ Rest => TypeOK
  BY DEF Inv, Deques, Mission, TypeOK
<1> HIDE DEF Rest
<1> QED
  BY <1>1, <1>4, <1>5, InitInv, StepInv, PTL DEF Spec
=============================================================================
