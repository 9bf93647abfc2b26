---------------------- MODULE DriverModelManager_proofs ----------------------
(***************************************************************************)
(* The safety properties of DriverModelManager, for every set of roles,    *)
(* actor ids and announced numbers of vehicles, and whichever drivers      *)
(* cannot be built.                                                        *)
(***************************************************************************)
EXTENDS DriverModelManager, FiniteSetTheorems, TLAPS

\* The initial states satisfy the inductive invariant.
LEMMA InitIInv == Init => IInv
<1> SUFFICES ASSUME Init PROVE IInv
  OBVIOUS
<1> USE DEF Init
<1>1. TypeOK
  BY DEF TypeOK, Points
<1>2. BuilderIsConsistent
  BY DEF BuilderIsConsistent, InSpawnDriver
<1>3. Stations
  BY DEF Stations, PendingRoles, InHand
<1>4. OneDriverPerRole
  BY DEF OneDriverPerRole, Tasked
<1>5. IsFiniteSet(acked) /\ CountIsExact
  BY FS_EmptySet DEF CountIsExact
<1>6. StartsWhenComplete
  BY DEF StartsWhenComplete
<1>7. PendingIsLookedAfter
  BY DEF PendingIsLookedAfter
<1> QED
  BY <1>1, <1>2, <1>3, <1>4, <1>5, <1>6, <1>7 DEF IInv

\* Types are preserved.
LEMMA StepTypeOK ==
    ASSUME TypeOK, BuilderIsConsistent, [Next]_vars
    PROVE  TypeOK'
<1> USE ManagerAssumption DEF TypeOK, Points, intake, build, exit
<1>1. ASSUME NEW m \in Config, VehicleConfigCallback(m)
      PROVE  TypeOK'
  BY <1>1 DEF VehicleConfigCallback, IgnoreDuplicate, Accept, CanReceive, TakeTotal, Config
<1>2. CASE NotifyBuilder \/ SpuriousWakeup
  BY <1>2 DEF NotifyBuilder, SpuriousWakeup, Notified
<1>3. CASE Check \/ Doze \/ Block \/ Quit \/ Construct
  BY <1>3 DEF Check, Doze, Block, Quit, Construct
<1>4. ASSUME NEW c \in pending, Pick(c)
      PROVE  TypeOK'
  BY <1>4 DEF Pick
<1>5. builder \in {"construct", "plan", "control", "report"} => current \in Config
  BY DEF BuilderIsConsistent, InSpawnDriver
<1>6. CASE GiveUp \/ Report
  BY <1>5, <1>6 DEF GiveUp, Report, Config
<1>7. CASE AddPlanTask \/ AddControlTask
  BY <1>5, <1>7 DEF AddPlanTask, AddControlTask, AddTask, Kinds, Config
<1>8. CASE Launch
  BY <1>8 DEF Launch, Complete
<1>9. CASE Shutdown \/ Destroy
  BY <1>9 DEF Shutdown, Destroy, DestroyStop, DestroyNotify, DestroyJoin, Notified
<1>10. CASE UNCHANGED vars
  BY <1>10 DEF vars
<1> QED
  BY <1>1, <1>2, <1>3, <1>4, <1>6, <1>7, <1>8, <1>9, <1>10
     DEF Next, Internal, Builder, Done

\* What the builder's place says stays true: nobody else takes the role out of
\* its hands, and a vehicle it starts to build has no task yet.
LEMMA StepBuilder ==
    ASSUME TypeOK, BuilderIsConsistent, Stations, OneDriverPerRole, [Next]_vars
    PROVE  BuilderIsConsistent'
<1> USE ManagerAssumption DEF BuilderIsConsistent, InSpawnDriver, Tasked, intake, build, exit
<1>1. ASSUME NEW m \in Config, VehicleConfigCallback(m)
      PROVE  BuilderIsConsistent'
  BY <1>1 DEF VehicleConfigCallback, IgnoreDuplicate, Accept, CanReceive
<1>2. CASE NotifyBuilder \/ SpuriousWakeup
  BY <1>2 DEF NotifyBuilder, SpuriousWakeup, Notified
<1>3. CASE Check \/ Doze \/ Block \/ Quit \/ Construct
  BY <1>3 DEF Check, Doze, Block, Quit, Construct
<1>4. ASSUME NEW c \in pending, Pick(c)
      PROVE  BuilderIsConsistent'
  <2>1. c \in Config /\ c # NoConfig /\ c.role \in PendingRoles
    BY DEF TypeOK, PendingRoles
  <2>2. InHand = {}
    BY <1>4 DEF Pick, InHand
  <2>3. c.role \notin acked
    BY <2>1 DEF Stations
  <2>4. \A t \in tasks : t[1] \in acked
    BY <2>2 DEF OneDriverPerRole, TypeOK, Kinds
  <2> QED
    BY <1>4, <2>1, <2>3, <2>4 DEF Pick
<1>5. CASE GiveUp \/ Launch
  BY <1>5 DEF GiveUp, Launch
<1>6. CASE AddPlanTask
  <2> DEFINE new == <<current.role, current.id, "plan">>
  <2>1. /\ tasks' = tasks \cup {new} /\ builder = "plan" /\ builder' = "control"
        /\ UNCHANGED <<current, pending, acked>>
    BY <1>6 DEF AddPlanTask, AddTask
  <2>2. new[1] = current.role /\ new[3] = "plan"
    OBVIOUS
  <2>3. current.role \in Tasked("plan")'
    BY <2>1, <2>2
  <2>4. \A t \in tasks' : t[1] = current.role => t[3] = "plan"
    BY <2>1, <2>2
  <2> QED
    BY <2>1, <2>3, <2>4
<1>7. CASE AddControlTask
  <2> DEFINE new == <<current.role, current.id, "control">>
  <2>1. /\ tasks' = tasks \cup {new} /\ builder = "control" /\ builder' = "report"
        /\ UNCHANGED <<current, pending, acked>>
    BY <1>7 DEF AddControlTask, AddTask
  <2>2. new[1] = current.role /\ new[3] = "control"
    OBVIOUS
  <2>3. current.role \in Tasked("plan")' /\ current.role \in Tasked("control")'
    BY <2>1, <2>2
  <2> QED
    BY <2>1, <2>3
<1>8. CASE Report
  BY <1>8 DEF Report
<1>9. CASE Shutdown \/ Destroy
  BY <1>9 DEF Shutdown, Destroy, DestroyStop, DestroyNotify, DestroyJoin, Notified
<1>10. CASE UNCHANGED vars
  BY <1>10 DEF vars
<1> QED
  BY <1>1, <1>2, <1>3, <1>4, <1>5, <1>6, <1>7, <1>8, <1>9, <1>10
     DEF Next, Internal, Builder, Done

\* A role moves on from station to station.
LEMMA StepStations ==
    ASSUME TypeOK, BuilderIsConsistent, Stations, [Next]_vars
    PROVE  Stations'
<1> USE ManagerAssumption
    DEF Stations, BuilderIsConsistent, InSpawnDriver, InHand, PendingRoles, intake, build, exit
<1>1. ASSUME NEW m \in Config, IgnoreDuplicate(m)
      PROVE  Stations'
  BY <1>1 DEF IgnoreDuplicate, CanReceive
<1>2. ASSUME NEW m \in Config, Accept(m)
      PROVE  Stations'
  BY <1>2 DEF Accept, CanReceive
<1>3. CASE NotifyBuilder \/ SpuriousWakeup
  BY <1>3 DEF NotifyBuilder, SpuriousWakeup, Notified
<1>4. CASE Check \/ Doze \/ Block \/ Quit \/ Construct
  BY <1>4 DEF Check, Doze, Block, Quit, Construct
<1>5. ASSUME NEW c \in pending, Pick(c)
      PROVE  Stations'
  <2>1. c # NoConfig /\ current = NoConfig
    BY <1>5 DEF Pick, TypeOK
  <2>2. PendingRoles' = PendingRoles \ {c.role} /\ c.role \in PendingRoles
    BY <1>5 DEF Pick
  <2>3. InHand' = {c.role}
    BY <1>5, <2>1 DEF Pick
  <2> QED
    BY <1>5, <2>1, <2>2, <2>3 DEF Pick
<1>6. CASE GiveUp
  BY <1>6 DEF GiveUp
<1>7. CASE AddPlanTask \/ AddControlTask
  BY <1>7 DEF AddPlanTask, AddControlTask, AddTask
<1>8. CASE Report
  BY <1>8 DEF Report
<1>9. CASE Launch
  BY <1>9 DEF Launch
<1>10. CASE Shutdown \/ Destroy
  BY <1>10 DEF Shutdown, Destroy, DestroyStop, DestroyNotify, DestroyJoin, Notified
<1>11. CASE UNCHANGED vars
  BY <1>11 DEF vars
<1> QED
  BY <1>1, <1>2, <1>3, <1>4, <1>5, <1>6, <1>7, <1>8, <1>9, <1>10, <1>11
     DEF Next, Internal, Builder, Done, VehicleConfigCallback

\* One driver per vehicle: a task is only given to a role in the builder's
\* hands that has none of that kind.
LEMMA StepOneDriver ==
    ASSUME TypeOK, BuilderIsConsistent, OneDriverPerRole, [Next]_vars
    PROVE  OneDriverPerRole'
<1> USE ManagerAssumption
    DEF OneDriverPerRole, BuilderIsConsistent, InSpawnDriver, InHand, intake, build, exit
<1>1. ASSUME UNCHANGED tasks, acked \subseteq acked', acked' \subseteq acked \cup InHand,
             InHand \subseteq InHand' \cup acked',
             builder = "report" \/ acked' = acked
      PROVE  OneDriverPerRole'
  <2>1. \A kind \in Kinds : Tasked(kind)' = Tasked(kind)
    BY <1>1 DEF Tasked
  <2>2. \A kind \in Kinds : acked' \subseteq Tasked(kind)
    BY <1>1 DEF Kinds
  <2>3. "plan" \in Kinds /\ "control" \in Kinds
    BY DEF Kinds
  <2> QED
    BY <1>1, <2>1, <2>2, <2>3
<1>2. ASSUME NEW m \in Config, VehicleConfigCallback(m)
      PROVE  OneDriverPerRole'
  BY <1>1, <1>2 DEF VehicleConfigCallback, IgnoreDuplicate, Accept
<1>3. CASE NotifyBuilder \/ SpuriousWakeup
  BY <1>1, <1>3 DEF NotifyBuilder, SpuriousWakeup
<1>4. CASE Check \/ Doze \/ Block \/ Quit \/ Construct
  BY <1>1, <1>4 DEF Check, Doze, Block, Quit, Construct
<1>5. ASSUME NEW c \in pending, Pick(c)
      PROVE  OneDriverPerRole'
  BY <1>1, <1>5 DEF Pick
<1>6. CASE GiveUp
  <2>1. \A t \in tasks : t[1] # current.role
    BY <1>6 DEF GiveUp
  <2>2. \A kind \in Kinds : Tasked(kind)' = Tasked(kind) /\ current.role \notin Tasked(kind)
    BY <1>6, <2>1 DEF GiveUp, Tasked
  <2>3. "plan" \in Kinds /\ "control" \in Kinds
    BY DEF Kinds
  <2> QED
    BY <1>6, <2>2, <2>3 DEF GiveUp
<1>7. CASE AddPlanTask
  <2> DEFINE new == <<current.role, current.id, "plan">>
  <2>1. /\ tasks' = tasks \cup {new} /\ builder = "plan" /\ UNCHANGED <<current, acked>>
    BY <1>7 DEF AddPlanTask, AddTask
  <2>2. new[1] = current.role /\ new[3] = "plan"
    OBVIOUS
  <2>3. \A t \in tasks : t[1] # current.role
    BY <2>1
  <2>4. \A t, u \in tasks' : t[1] = u[1] /\ t[3] = u[3] => t = u
    BY <2>1, <2>2, <2>3
  <2>5. Tasked("plan")' = Tasked("plan") \cup {current.role}
    BY <2>1, <2>2 DEF Tasked
  <2>6. Tasked("control")' = Tasked("control")
    BY <2>1, <2>2 DEF Tasked
  <2>7. InHand' = {current.role}
    BY <2>1
  <2> QED
    BY <2>1, <2>4, <2>5, <2>6, <2>7 DEF Kinds
<1>8. CASE AddControlTask
  <2> DEFINE new == <<current.role, current.id, "control">>
  <2>1. /\ tasks' = tasks \cup {new} /\ builder = "control" /\ UNCHANGED <<current, acked>>
    BY <1>8 DEF AddControlTask, AddTask
  <2>2. new[1] = current.role /\ new[3] = "control"
    OBVIOUS
  <2>3. \A t \in tasks : t[1] = current.role => t[3] = "plan"
    BY <2>1
  <2>4. \A t, u \in tasks' : t[1] = u[1] /\ t[3] = u[3] => t = u
    BY <2>1, <2>2, <2>3
  <2>5. Tasked("control")' = Tasked("control") \cup {current.role}
    BY <2>1, <2>2 DEF Tasked
  <2>6. Tasked("plan")' = Tasked("plan") /\ current.role \in Tasked("plan")
    BY <2>1, <2>2 DEF Tasked
  <2>7. InHand' = InHand
    BY <2>1
  <2> QED
    BY <2>1, <2>4, <2>5, <2>6, <2>7 DEF Kinds
<1>9. CASE Report
  BY <1>1, <1>9 DEF Report
<1>10. CASE Launch
  BY <1>1, <1>10 DEF Launch
<1>11. CASE Shutdown \/ Destroy
  BY <1>1, <1>11 DEF Shutdown, Destroy, DestroyStop, DestroyNotify, DestroyJoin
<1>12. CASE UNCHANGED vars
  BY <1>1, <1>12 DEF vars
<1> QED
  BY <1>2, <1>3, <1>4, <1>5, <1>6, <1>7, <1>8, <1>9, <1>10, <1>11, <1>12
     DEF Next, Internal, Builder, Done

\* The count goes up together with the set of the vehicles acknowledged.
LEMMA StepCount ==
    ASSUME TypeOK, BuilderIsConsistent, Stations, IsFiniteSet(acked), CountIsExact, [Next]_vars
    PROVE  IsFiniteSet(acked') /\ CountIsExact'
<1> USE DEF CountIsExact, intake, build, exit
<1>1. CASE Report
  <2>1. current.role \notin acked
    BY <1>1 DEF Report, Stations, InHand, BuilderIsConsistent, InSpawnDriver
  <2>2. /\ IsFiniteSet(acked \cup {current.role})
        /\ Cardinality(acked \cup {current.role}) = Cardinality(acked) + 1
    BY <2>1, FS_AddElement
  <2> QED
    BY <1>1, <2>2 DEF Report
<1>2. CASE UNCHANGED <<created, acked>>
  BY <1>2
<1>3. Report \/ UNCHANGED <<created, acked>>
  BY DEF Next, Internal, Builder, Destroy, Done, vars, VehicleConfigCallback,
         IgnoreDuplicate, Accept, NotifyBuilder, Check, Doze, Block, SpuriousWakeup, Quit,
         Pick, GiveUp, Construct, AddPlanTask, AddControlTask, AddTask, Launch, Shutdown,
         DestroyStop, DestroyNotify, DestroyJoin
<1> QED
  BY <1>1, <1>2, <1>3

\* A number of vehicles is fixed before the first role is received, so the
\* decision to start is never taken back and never forgotten.
LEMMA StepStarts ==
    ASSUME TypeOK, BuilderIsConsistent, Stations, IsFiniteSet(acked), CountIsExact,
           ~totalReceived => received = {}, StartsWhenComplete, [Next]_vars
    PROVE  (~totalReceived => received = {})' /\ StartsWhenComplete'
<1> USE ManagerAssumption DEF StartsWhenComplete, Complete, intake, build, exit
<1>1. ~totalReceived => created = 0
  <2>1. ~totalReceived => acked = {}
    BY DEF Stations
  <2> QED
    BY <2>1, FS_EmptySet DEF CountIsExact
<1>2. ASSUME NEW m \in Config, VehicleConfigCallback(m)
      PROVE  (~totalReceived => received = {})' /\ StartsWhenComplete'
  BY <1>1, <1>2 DEF VehicleConfigCallback, IgnoreDuplicate, Accept, TakeTotal
<1>3. CASE NotifyBuilder \/ SpuriousWakeup
  BY <1>3 DEF NotifyBuilder, SpuriousWakeup, Notified
<1>4. CASE Check \/ Doze \/ Block \/ Quit \/ Construct
  BY <1>4 DEF Check, Doze, Block, Quit, Construct
<1>5. ASSUME NEW c \in pending, Pick(c)
      PROVE  (~totalReceived => received = {})' /\ StartsWhenComplete'
  BY <1>5 DEF Pick
<1>6. CASE GiveUp \/ AddPlanTask \/ AddControlTask
  BY <1>6 DEF GiveUp, AddPlanTask, AddControlTask, AddTask
<1>7. CASE Report
  BY <1>7 DEF Report, TypeOK
<1>8. CASE Launch
  <2>1. created > 0
    <3>1. current.role \in acked
      BY <1>8 DEF Launch, BuilderIsConsistent
    <3> QED
      BY <3>1, FS_EmptySet, FS_CardinalityType DEF CountIsExact, TypeOK
  <2> QED
    BY <1>8, <2>1 DEF Launch
<1>9. CASE Shutdown \/ Destroy
  BY <1>9 DEF Shutdown, Destroy, DestroyStop, DestroyNotify, DestroyJoin, Notified
<1>10. CASE UNCHANGED vars
  BY <1>10 DEF vars
<1> QED
  BY <1>2, <1>3, <1>4, <1>5, <1>6, <1>7, <1>8, <1>9, <1>10
     DEF Next, Internal, Builder, Done

\* No step lets the builder sleep over a pending configuration without a
\* wakeup on its way.
LEMMA StepPending ==
    ASSUME BuilderIsConsistent, PendingIsLookedAfter, [Next]_vars
    PROVE  PendingIsLookedAfter'
<1> USE DEF PendingIsLookedAfter, intake, build, exit
<1>1. CASE Block
  BY <1>1 DEF Block, BuilderIsConsistent
<1>2. CASE NotifyBuilder \/ SpuriousWakeup \/ Destroy
  BY <1>2 DEF NotifyBuilder, SpuriousWakeup, Destroy, DestroyStop, DestroyNotify,
              DestroyJoin, Notified
<1>3. ASSUME NEW m \in Config, VehicleConfigCallback(m)
      PROVE  PendingIsLookedAfter'
  BY <1>3 DEF VehicleConfigCallback, IgnoreDuplicate, Accept
<1>4. CASE Builder /\ ~Block
  BY <1>4 DEF Builder, Check, Doze, Quit, Pick, GiveUp, Construct, AddPlanTask,
              AddControlTask, AddTask, Report, Launch
<1>5. CASE Shutdown \/ UNCHANGED vars
  BY <1>5 DEF Shutdown, vars
<1> QED
  BY <1>1, <1>2, <1>3, <1>4, <1>5 DEF Next, Internal, Done

\* Every step preserves the inductive invariant.
LEMMA StepIInv == IInv /\ [Next]_vars => IInv'
BY StepTypeOK, StepBuilder, StepStations, StepOneDriver, StepCount, StepStarts, StepPending
   DEF IInv

\* The inductive invariant holds in every reachable state.
THEOREM Safety == Spec => []IInv
BY InitIInv, StepIInv, PTL DEF Spec

\* Every variable of the manager keeps its type.
THEOREM TypeCorrect == Spec => []TypeOK
<1>1. IInv => TypeOK
  BY DEF IInv
<1> QED
  BY Safety, <1>1, PTL

\* builderLoop and VehicleConfigCallback keep every received role at exactly
\* one station of its way, for any roles and any repetitions.
THEOREM RolesAreAtOneStation == Spec => []Stations
<1>1. IInv => Stations
  BY DEF IInv
<1> QED
  BY Safety, <1>1, PTL

\* spawnDriver gives every vehicle at most one driver, and acknowledges only
\* vehicles that have both tasks.
THEOREM VehiclesHaveOneDriver == Spec => []OneDriverPerRole
<1>1. IInv => OneDriverPerRole
  BY DEF IInv
<1> QED
  BY Safety, <1>1, PTL

\* created_vehicles_ is the number of vehicles acknowledged.
THEOREM DriversAreCountedOnce == Spec => []CountIsExact
<1>1. IInv => CountIsExact
  BY DEF IInv
<1> QED
  BY Safety, <1>1, PTL

\* The scheduler is started exactly when the announced number of drivers is
\* reached, whatever the later messages announce.
THEOREM StartIsDecidedOnce == Spec => []StartsWhenComplete
<1>1. IInv => StartsWhenComplete
  BY DEF IInv
<1> QED
  BY Safety, <1>1, PTL

\* No wakeup of the builder is lost while the manager lives.
THEOREM NoConfigurationIsSleptOver == Spec => []PendingIsLookedAfter
<1>1. IInv => PendingIsLookedAfter
  BY DEF IInv
<1> QED
  BY Safety, <1>1, PTL
-----------------------------------------------------------------------------
(***************************************************************************)
(* What the manager does to the scheduler.  The scheduler's module takes   *)
(* for granted that a task is added once, and never while or after it is   *)
(* destroyed, which happens when the manager's destructor has returned.    *)
(***************************************************************************)
BuilderIsJoined == dtor = "joined" => builder = "done"

LEMMA StepJoined == TypeOK /\ BuilderIsJoined /\ [Next]_vars => BuilderIsJoined'
<1> SUFFICES ASSUME TypeOK, BuilderIsJoined, [Next]_vars PROVE BuilderIsJoined'
  OBVIOUS
<1> USE DEF BuilderIsJoined, exit
<1>1. ASSUME NEW m \in Config, VehicleConfigCallback(m) PROVE BuilderIsJoined'
  BY <1>1 DEF VehicleConfigCallback, IgnoreDuplicate, Accept
<1>2. CASE NotifyBuilder \/ SpuriousWakeup
  BY <1>2 DEF NotifyBuilder, SpuriousWakeup, Notified
<1>3. CASE Builder
  <2>1. builder # "done" /\ dtor' = dtor
    BY <1>3 DEF Builder, Check, Doze, Block, Quit, Pick, GiveUp, Construct, AddPlanTask,
                AddControlTask, AddTask, Report, Launch
  <2> QED
    BY <2>1
<1>4. CASE Destroy
  BY <1>4 DEF Destroy, DestroyStop, DestroyNotify, DestroyJoin, TypeOK
<1>5. CASE Shutdown \/ UNCHANGED vars
  BY <1>5 DEF Shutdown, vars
<1> QED
  BY <1>1, <1>2, <1>3, <1>4, <1>5 DEF Next, Internal, Done

\* Every call of addTask hands the scheduler a task it has not got.
LEMMA TaskIsNew ==
    ASSUME TypeOK, BuilderIsConsistent, AddPlanTask \/ AddControlTask
    PROVE  \E t : t \notin tasks /\ tasks' = tasks \cup {t}
<1>1. CASE AddPlanTask
  <2>1. builder = "plan" /\ tasks' = tasks \cup {<<current.role, current.id, "plan">>}
    BY <1>1 DEF AddPlanTask, AddTask
  <2>2. <<current.role, current.id, "plan">> \notin tasks
    BY <2>1 DEF BuilderIsConsistent
  <2> QED
    BY <2>1, <2>2
<1>2. CASE AddControlTask
  <2>1. builder = "control" /\ tasks' = tasks \cup {<<current.role, current.id, "control">>}
    BY <1>2 DEF AddControlTask, AddTask
  <2>2. <<current.role, current.id, "control">> \notin tasks
    BY <2>1 DEF BuilderIsConsistent
  <2> QED
    BY <2>1, <2>2
<1> QED
  BY <1>1, <1>2

\* Once the destructor has joined the builder nobody touches the scheduler.
LEMMA SchedulerIsLeftAlone ==
    ASSUME BuilderIsJoined, dtor = "joined", [Next]_vars PROVE UNCHANGED <<tasks, started>>
<1> USE DEF build
<1>1. ~Builder
  BY DEF BuilderIsJoined, Builder, Check, Doze, Block, Quit, Pick, GiveUp, Construct,
         AddPlanTask, AddControlTask, AddTask, Report, Launch
<1>2. ASSUME NEW m \in Config, VehicleConfigCallback(m) PROVE UNCHANGED <<tasks, started>>
  BY <1>2 DEF VehicleConfigCallback, IgnoreDuplicate, Accept
<1> QED
  BY <1>1, <1>2 DEF Next, Internal, NotifyBuilder, SpuriousWakeup, Destroy, DestroyStop,
                    DestroyNotify, DestroyJoin, Shutdown, Done, vars

\* The scheduler is used as its own module assumes: spawnDriver adds no task
\* twice, and neither addTask nor start is called once the scheduler_ member can
\* be destroyed (~DriverModelManager).
SchedulerIsUsedWell ==
    [][/\ AddPlanTask \/ AddControlTask => \E t : t \notin tasks /\ tasks' = tasks \cup {t}
       /\ dtor = "joined" => UNCHANGED <<tasks, started>>]_vars

\* addTask and start are called as TaskScheduler's own AddTask and Start require
\* (spawnDriver, ~DriverModelManager).
THEOREM SchedulerIsUsedAsAssumed == Spec => SchedulerIsUsedWell
<1>1. Init => BuilderIsJoined
  BY DEF Init, BuilderIsJoined
<1>2. IInv => TypeOK /\ BuilderIsConsistent
  BY DEF IInv
<1>3. IInv /\ BuilderIsJoined /\ [Next]_vars =>
        [/\ AddPlanTask \/ AddControlTask => \E t : t \notin tasks /\ tasks' = tasks \cup {t}
         /\ dtor = "joined" => UNCHANGED <<tasks, started>>]_vars
  BY <1>2, TaskIsNew, SchedulerIsLeftAlone
<1> QED
  BY <1>1, <1>2, <1>3, Safety, StepJoined, PTL DEF Spec, SchedulerIsUsedWell
=============================================================================
