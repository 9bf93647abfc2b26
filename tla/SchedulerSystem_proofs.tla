----------------------- MODULE SchedulerSystem_proofs ------------------------
(***************************************************************************)
(* The safety properties of SchedulerSystem, for all vehicles, any number  *)
(* of worker threads and of configurations received.                       *)
(***************************************************************************)
EXTENDS SchedulerSystem, TLAPS

\* What the two operations on the queue do to the set of its elements.
LEMMA AppendRange ==
    ASSUME NEW S, NEW q \in Seq(S), NEW e
    PROVE  Range(Append(q, e)) = Range(q) \cup {e}
<1>1. DOMAIN Append(q, e) = 1..Len(q) + 1 /\ DOMAIN q = 1..Len(q)
  OBVIOUS
<1>2. \A i \in 1..Len(q) : Append(q, e)[i] = q[i]
  OBVIOUS
<1>3. Append(q, e)[Len(q) + 1] = e
  OBVIOUS
<1> QED
  BY <1>1, <1>2, <1>3 DEF Range

LEMMA TakeRange ==
    ASSUME NEW S, NEW q \in Seq(S), q # << >>
    PROVE  /\ Head(q) \in S /\ Tail(q) \in Seq(S)
           /\ Head(q) \in Range(q)
           /\ Range(Tail(q)) \subseteq Range(q)
<1>1. Len(q) > 0 /\ Head(q) = q[1] /\ DOMAIN q = 1..Len(q)
  OBVIOUS
<1>2. DOMAIN Tail(q) = 1..Len(q) - 1 /\ \A i \in 1..Len(q) - 1 : Tail(q)[i] = q[i + 1]
  OBVIOUS
<1> QED
  BY <1>1, <1>2 DEF Range

LEMMA InitIInv == Init => IInv
<1> SUFFICES ASSUME Init PROVE IInv
  OBVIOUS
<1> USE SystemAssumption DEF Init
<1>1. TypeOK
  <2>1. \A w \in Workers : hand[w] = None /\ worker[w] = "loop"
    OBVIOUS
  <2>2. task_queue \in Seq(Vehicles) /\ received \in 0..MaxReceived
    OBVIOUS
  <2>3. worker \in [Workers -> Stations] /\ hand \in [Workers -> Vehicles \cup {None}]
    BY DEF Stations
  <2> QED
    BY <2>1, <2>2, <2>3 DEF TypeOK
<1>2. Queued = {} /\ InHand = {} /\ Listed = {}
  BY DEF Queued, InHand, Listed, Range
<1>3. EndIsOver /\ QueueIsLookedAfter
  BY DEF EndIsOver, QueueIsLookedAfter
<1> QED
  BY <1>1, <1>2, <1>3 DEF IInv, OnTheWayIsLate, MapsAgree, OnlyLateStays

\* Types are preserved.
LEMMA StepTypeOK == TypeOK /\ [Next]_vars => TypeOK'
<1> SUFFICES ASSUME TypeOK, [Next]_vars PROVE TypeOK'
  OBVIOUS
<1> USE SystemAssumption DEF TypeOK, Stations, maps, spinVars
<1>1. ASSUME NEW v \in Vehicles, VehicleConfigCallback(v) \/ GoalStatusCallback(v)
      PROVE  TypeOK'
  BY <1>1 DEF VehicleConfigCallback, GoalStatusCallback
<1>2. CASE NotifyOne
  BY <1>2 DEF NotifyOne
<1>3. ASSUME NEW w \in Workers, Loop(w) \/ Exit(w) \/ Wait(w) \/ SpuriousWakeup(w)
      PROVE  TypeOK'
  BY <1>3 DEF Loop, Exit, Wait, SpuriousWakeup, At, Goto
<1>4. ASSUME NEW w \in Workers, Take(w)
      PROVE  TypeOK'
  <2>1. Head(task_queue) \in Vehicles /\ Tail(task_queue) \in Seq(Vehicles)
    BY <1>4, TakeRange DEF Take
  <2> QED
    BY <1>4, <2>1 DEF Take, At, Goto
<1>5. ASSUME NEW w \in Workers, NEW path \in {"full", "empty"}, Store(w, path)
      PROVE  TypeOK'
  BY <1>5 DEF Store, At, Goto
<1>6. CASE Shutdown \/ DestroyStop \/ DestroyNotify \/ DestroyJoin
  BY <1>6 DEF Shutdown, DestroyStop, DestroyNotify, DestroyJoin
<1>7. CASE UNCHANGED vars
  BY <1>7 DEF vars
<1> QED
  BY <1>1, <1>2, <1>3, <1>4, <1>5, <1>6, <1>7 DEF Next, WorkerThread, Done

\* Both maps are changed in one critical section by whoever changes them.
LEMMA StepMaps == TypeOK /\ MapsAgree /\ [Next]_vars => MapsAgree'
<1> SUFFICES ASSUME TypeOK, MapsAgree, [Next]_vars PROVE MapsAgree'
  OBVIOUS
<1> USE SystemAssumption DEF TypeOK, MapsAgree, Listed
<1>1. ASSUME NEW v \in Vehicles, GoalStatusCallback(v)
      PROVE  MapsAgree'
  BY <1>1 DEF GoalStatusCallback
<1>2. ASSUME NEW w \in Workers, NEW path \in {"full", "empty"}, Store(w, path)
      PROVE  MapsAgree'
  BY <1>2 DEF Store, At, Goto
<1>3. CASE UNCHANGED maps
  BY <1>3 DEF maps
<1> QED
  BY <1>1, <1>2, <1>3
     DEF Next, WorkerThread, VehicleConfigCallback, NotifyOne, Loop, Exit, Wait, Take,
         SpuriousWakeup, Shutdown, DestroyStop, DestroyNotify, DestroyJoin, Done, vars

\* Nothing that is struck off enters the queue or a worker's hand without being
\* late, and only what was in a hand is entered.
LEMMA StepLate ==
    ASSUME TypeOK, OnTheWayIsLate, OnlyLateStays, [Next]_vars
    PROVE  OnTheWayIsLate' /\ OnlyLateStays'
<1> USE SystemAssumption DEF TypeOK, OnTheWayIsLate, OnlyLateStays, Listed, InHand
<1>1. ASSUME NEW v \in Vehicles, VehicleConfigCallback(v)
      PROVE  OnTheWayIsLate' /\ OnlyLateStays'
  <2>1. Queued' = Queued \cup {v}
    BY <1>1, AppendRange DEF VehicleConfigCallback, Queued
  <2> QED
    BY <1>1, <2>1 DEF VehicleConfigCallback, maps
<1>2. ASSUME NEW v \in Vehicles, GoalStatusCallback(v)
      PROVE  OnTheWayIsLate' /\ OnlyLateStays'
  BY <1>2 DEF GoalStatusCallback, Queued
<1>3. ASSUME NEW w \in Workers, Take(w)
      PROVE  OnTheWayIsLate' /\ OnlyLateStays'
  <2>1. Head(task_queue) \in Queued /\ Queued' \subseteq Queued
    BY <1>3, TakeRange DEF Take, Queued
  <2>2. InHand' \subseteq InHand \cup {Head(task_queue)}
    BY <1>3 DEF Take
  <2> QED
    BY <1>3, <2>1, <2>2 DEF Take, maps, spinVars
<1>4. ASSUME NEW w \in Workers, NEW path \in {"full", "empty"}, Store(w, path)
      PROVE  OnTheWayIsLate' /\ OnlyLateStays'
  <2>1. hand[w] \in InHand /\ InHand' \subseteq InHand
    BY <1>4 DEF Store, At, Goto
  <2>2. Listed' \subseteq Listed \cup {hand[w]}
    BY <1>4 DEF Store
  <2> QED
    BY <1>4, <2>1, <2>2 DEF Store, Queued, spinVars
<1>5. CASE UNCHANGED <<task_queue, hand, maps, spinVars>>
  BY <1>5 DEF Queued, maps, spinVars
<1> QED
  BY <1>1, <1>2, <1>3, <1>4, <1>5
     DEF Next, WorkerThread, NotifyOne, Loop, Exit, Wait, SpuriousWakeup, Shutdown,
         DestroyStop, DestroyNotify, DestroyJoin, Done, vars

\* As long as ROS runs, nobody leaves and nobody stops the system.
LEMMA StepEnd == TypeOK /\ EndIsOver /\ [Next]_vars => EndIsOver'
<1> SUFFICES ASSUME TypeOK, EndIsOver, [Next]_vars PROVE EndIsOver'
  OBVIOUS
<1> USE SystemAssumption DEF TypeOK, EndIsOver, At, Goto
<1>1. ASSUME NEW v \in Vehicles, VehicleConfigCallback(v) \/ GoalStatusCallback(v)
      PROVE  EndIsOver'
  BY <1>1 DEF VehicleConfigCallback, GoalStatusCallback
<1>2. ASSUME NEW w \in Workers, WorkerThread(w) \/ SpuriousWakeup(w)
      PROVE  EndIsOver'
  BY <1>2 DEF WorkerThread, Loop, Exit, Wait, Take, Store, SpuriousWakeup
<1>3. CASE NotifyOne \/ Shutdown \/ DestroyStop \/ DestroyNotify \/ DestroyJoin
  BY <1>3 DEF NotifyOne, Shutdown, DestroyStop, DestroyNotify, DestroyJoin
<1>4. CASE UNCHANGED vars
  BY <1>4 DEF vars
<1> QED
  BY <1>1, <1>2, <1>3, <1>4 DEF Next, Done

\* A worker goes to sleep over an empty queue only, and a notification that finds
\* nobody asleep finds somebody awake.
LEMMA StepLookedAfter ==
    ASSUME TypeOK, EndIsOver, QueueIsLookedAfter, [Next]_vars
    PROVE  QueueIsLookedAfter'
<1> USE SystemAssumption DEF TypeOK, Stations, EndIsOver, QueueIsLookedAfter, At, Goto
<1>1. ASSUME NEW v \in Vehicles, VehicleConfigCallback(v)
      PROVE  QueueIsLookedAfter'
  BY <1>1 DEF VehicleConfigCallback
<1>2. ASSUME NEW v \in Vehicles, GoalStatusCallback(v)
      PROVE  QueueIsLookedAfter'
  BY <1>2 DEF GoalStatusCallback
<1>3. CASE NotifyOne
  BY <1>3 DEF NotifyOne
<1>4. ASSUME NEW w \in Workers, Loop(w) \/ Exit(w) \/ Take(w) \/ SpuriousWakeup(w)
      PROVE  QueueIsLookedAfter'
  BY <1>4 DEF Loop, Exit, Take, SpuriousWakeup
<1>5. ASSUME NEW w \in Workers, Wait(w)
      PROVE  QueueIsLookedAfter'
  BY <1>5 DEF Wait
<1>6. ASSUME NEW w \in Workers, NEW path \in {"full", "empty"}, Store(w, path)
      PROVE  QueueIsLookedAfter'
  BY <1>6 DEF Store
<1>7. CASE Shutdown \/ DestroyStop \/ DestroyNotify \/ DestroyJoin
  BY <1>7 DEF Shutdown, DestroyStop, DestroyNotify, DestroyJoin
<1>8. CASE UNCHANGED vars
  BY <1>8 DEF vars
<1> QED
  BY <1>1, <1>2, <1>3, <1>4, <1>5, <1>6, <1>7, <1>8 DEF Next, WorkerThread, Done

LEMMA StepIInv == IInv /\ [Next]_vars => IInv'
  BY StepTypeOK, StepMaps, StepLate, StepEnd, StepLookedAfter DEF IInv

LEMMA SpecIInv == Spec => []IInv
  BY InitIInv, StepIInv, PTL DEF Spec

\* Types.
THEOREM TypeCorrect == Spec => []TypeOK
<1>1. IInv => TypeOK
  BY DEF IInv
<1> QED
  BY <1>1, SpecIInv, PTL

\* The path map and the configuration map list the same vehicles at all times,
\* though the workers enter and the spinning thread strikes off.
THEOREM EntriesArePaired == Spec => []MapsAgree
<1>1. IInv => MapsAgree
  BY DEF IInv
<1> QED
  BY <1>1, SpecIInv, PTL

\* The only entries that outlive their vehicles are those of configurations that
\* were queued or being worked on at the arrival, or came after it.
THEOREM LeftoversAreLate == Spec => []OnlyLateStays
<1>1. IInv => OnlyLateStays
  BY DEF IInv
<1> QED
  BY <1>1, SpecIInv, PTL

\* No wakeup is lost between the spinning thread and the workers.
THEOREM NoWakeupIsLost == Spec => []QueueIsLookedAfter
<1>1. IInv => QueueIsLookedAfter
  BY DEF IInv
<1> QED
  BY <1>1, SpecIInv, PTL
-----------------------------------------------------------------------------
(***************************************************************************)
(* What the destructor's joins rest on, for any number of workers: after   *)
(* its notification nobody sleeps, each worker can go on, and each step of *)
(* a worker takes it nearer to the end of workerThread.                    *)
(***************************************************************************)
ToGo(station) == CASE station = "computing" -> 2
                   [] station \in {"loop", "locking"} -> 1
                   [] OTHER -> 0

NobodyOversleeps ==
    /\ dtor # "alive" => stop_threads
    /\ dtor \in {"join", "done"} => \A w \in Workers : worker[w] # "waiting"
    /\ dtor = "done" => \A w \in Workers : worker[w] = "exited"

\* A worker that moves after the notification moves towards its exit.
WorkersComeNearer ==
    dtor \in {"join", "done"} =>
        \A w \in Workers : worker'[w] # worker[w] => ToGo(worker'[w]) < ToGo(worker[w])

LEMMA StepAwake ==
    ASSUME TypeOK, NobodyOversleeps, [Next]_vars
    PROVE  /\ NobodyOversleeps'
           /\ dtor \in {"join", "done"} =>
                 \A w \in Workers : worker'[w] # worker[w] => ToGo(worker'[w]) < ToGo(worker[w])
<1> USE DEF TypeOK, Stations, NobodyOversleeps, At, Goto
<1>1. CASE UNCHANGED <<worker, stop_threads, dtor>>
  BY <1>1
<1>2. ASSUME NEW v \in Vehicles, VehicleConfigCallback(v) \/ GoalStatusCallback(v)
      PROVE  UNCHANGED <<worker, stop_threads, dtor>>
  BY <1>2 DEF VehicleConfigCallback, GoalStatusCallback
<1>3. CASE NotifyOne
  BY <1>3 DEF NotifyOne
<1>4. ASSUME NEW w \in Workers, WorkerThread(w) \/ SpuriousWakeup(w)
      PROVE  /\ NobodyOversleeps'
             /\ dtor \in {"join", "done"} =>
                   \A u \in Workers : worker'[u] # worker[u] => ToGo(worker'[u]) < ToGo(worker[u])
  <2>1. /\ UNCHANGED <<stop_threads, dtor>>
        /\ worker' = [worker EXCEPT ![w] = worker'[w]]
        /\ worker[w] # "exited"
        /\ \/ worker[w] = "computing" /\ worker'[w] = "loop"
           \/ worker[w] = "loop" /\ worker'[w] \in {"locking", "exited"}
              /\ (stop_threads => worker'[w] = "exited")
           \/ worker[w] = "locking" /\ stop_threads /\ worker'[w] = "exited"
           \/ worker[w] = "locking" /\ ~stop_threads
           \/ worker[w] = "waiting" /\ worker'[w] = "locking"
    BY <1>4 DEF WorkerThread, Loop, Exit, Wait, Take, Store, SpuriousWakeup
  <2> QED
    BY <2>1 DEF ToGo
<1>5. CASE Shutdown
  BY <1>1, <1>5 DEF Shutdown
<1>6. CASE DestroyStop \/ DestroyJoin
  BY <1>6 DEF DestroyStop, DestroyJoin
<1>7. CASE DestroyNotify
  BY <1>7 DEF DestroyNotify
<1>8. CASE UNCHANGED vars
  BY <1>1, <1>8 DEF vars
<1> QED
  BY <1>1, <1>2, <1>3, <1>4, <1>5, <1>6, <1>7, <1>8 DEF Next, Done

\* From its notification on the destructor waits for workers that are awake, and
\* when it returns none is left (~SchedulerSystem).
THEOREM NobodySleepsThroughTheEnd == Spec => []NobodyOversleeps
<1>1. Init => NobodyOversleeps
  BY DEF Init, NobodyOversleeps
<1> QED
  BY <1>1, SpecIInv, TypeCorrect, StepAwake, PTL DEF Spec

\* ... and a worker does not take another configuration: it has two steps to go
\* at most, and every step it takes is one of them (workerThread).
THEOREM WorkersFinish == Spec => [][WorkersComeNearer]_vars
<1>1. TypeOK /\ NobodyOversleeps /\ [Next]_vars => [WorkersComeNearer]_vars
  BY StepAwake DEF WorkersComeNearer
<1> QED
  BY <1>1, TypeCorrect, NobodySleepsThroughTheEnd, PTL DEF Spec
=============================================================================
