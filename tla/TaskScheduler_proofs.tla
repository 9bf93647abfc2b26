------------------------ MODULE TaskScheduler_proofs -------------------------
(***************************************************************************)
(* The safety properties of TaskScheduler, for every set of workers and    *)
(* tasks and all periods.                                                  *)
(***************************************************************************)
EXTENDS TaskScheduler, FiniteSetTheorems, TLAPS

\* The outcome of a notification: it is a pc, it changes the place of no
\* worker but wakes at most one, which is then at "loop".
LEMMA NotifyOne ==
    ASSUME NEW p \in [Workers -> PC], NEW q \in AfterNotifyOne(p)
    PROVE  /\ q \in [Workers -> PC]
           /\ \A w \in Workers : q[w] = p[w] \/ (w \in Waiting(p) /\ q[w] = "loop")
           /\ Waiting(p) # {} => \E w \in Workers : q[w] = "loop"
BY DEF AfterNotifyOne, Waiting, PC

\* ... and of a notification of all.
LEMMA NotifyAll ==
    ASSUME NEW p \in [Workers -> PC]
    PROVE  /\ AfterNotifyAll(p) \in [Workers -> PC]
           /\ \A w \in Workers :
                  \/ AfterNotifyAll(p)[w] = p[w]
                  \/ w \in Waiting(p) /\ AfterNotifyAll(p)[w] = "loop"
BY DEF AfterNotifyAll, Waiting, PC

\* The initial states satisfy the inductive invariant.
LEMMA InitIInv == Init => IInv
<1> SUFFICES ASSUME Init PROVE IInv
  OBVIOUS
<1>1. TypeOK
  BY SchedulerAssumption DEF Init, TypeOK, PC, Entry
<1>2. Threads
  BY SchedulerAssumption DEF Init, Threads
<1>3. ExactlyOnePlace
  BY DEF Init, ExactlyOnePlace, OneQueueEntry, OneHolder, NotQueuedWhileHeld,
         NeverLost, InQueue, HeldBy
<1>4. Punctual
  BY DEF Init, Punctual
<1>5. LookedAfter
  BY DEF Init, LookedAfter
<1> QED
  BY <1>1, <1>2, <1>3, <1>4, <1>5 DEF IInv

\* Types are preserved.
LEMMA StepTypeOK ==
    ASSUME TypeOK, Threads, [Next]_vars
    PROVE  TypeOK'
<1> USE SchedulerAssumption DEF TypeOK, Entry
<1>1. ASSUME NEW t \in Tasks, AddTask(t)
      PROVE  TypeOK'
  BY <1>1, NotifyOne DEF AddTask
<1>2. CASE Start
  BY <1>2 DEF Start, PC
<1>3. ASSUME NEW w \in Workers, Exit(w) \/ Sleep(w) \/ TimeOut(w) \/ SpuriousWakeup(w)
      PROVE  TypeOK'
  BY <1>3 DEF Exit, Sleep, TimeOut, SpuriousWakeup, PC
<1>4. ASSUME NEW w \in Workers, SleepUntil(w)
      PROVE  TypeOK'
  BY <1>4 DEF SleepUntil, PC
<1>5. ASSUME NEW w \in Workers, Take(w)
      PROVE  TypeOK'
  BY <1>5 DEF Take, PC
<1>6. ASSUME NEW w \in Workers, Requeue(w)
      PROVE  TypeOK'
  <2>1. [pc EXCEPT ![w] = "loop"] \in [Workers -> PC]
    BY DEF PC
  <2>2. pc' \in [Workers -> PC]
    BY <1>6, <2>1, NotifyOne DEF Requeue
  <2>3. held[w] \in Entry
    BY <1>6 DEF Requeue, Threads
  <2>4. [held[w] EXCEPT !.deadline = @ + Period[held[w].task]] \in Entry
    BY <2>3
  <2> QED
    BY <1>6, <2>2, <2>4 DEF Requeue
<1>7. CASE Destroy
  BY <1>7, NotifyAll DEF Destroy, DestroyStop, DestroyJoin, DestroyNotify
<1>8. CASE Tick
  BY <1>8 DEF Tick
<1>9. CASE UNCHANGED vars
  BY <1>9 DEF vars
<1> QED
  BY <1>1, <1>2, <1>3, <1>4, <1>5, <1>6, <1>7, <1>8, <1>9
     DEF Next, Worker, Done

\* The worker threads are created by start(), leave only when stopped and
\* hold a task exactly while they run.
LEMMA StepThreads ==
    ASSUME TypeOK, Threads, [Next]_vars
    PROVE  Threads'
<1> USE SchedulerAssumption DEF TypeOK, Threads, Entry
<1>1. ASSUME NEW t \in Tasks, AddTask(t)
      PROVE  Threads'
  <2>1. \A w \in Workers : pc'[w] = pc[w] \/ (w \in Waiting(pc) /\ pc'[w] = "loop")
    BY <1>1, NotifyOne DEF AddTask
  <2> QED
    BY <1>1, <2>1 DEF AddTask, Waiting, stop
<1>2. CASE Start
  BY <1>2 DEF Start, stop
<1>3. ASSUME NEW w \in Workers,
             Exit(w) \/ Sleep(w) \/ SleepUntil(w) \/ TimeOut(w) \/ SpuriousWakeup(w)
      PROVE  Threads'
  BY <1>3 DEF Exit, Sleep, SleepUntil, TimeOut, SpuriousWakeup, Waiting, stop
<1>4. ASSUME NEW w \in Workers, Take(w)
      PROVE  Threads'
  BY <1>4 DEF Take, stop
<1>5. ASSUME NEW w \in Workers, Requeue(w)
      PROVE  Threads'
  <2> DEFINE p == [pc EXCEPT ![w] = "loop"]
  <2>1. p \in [Workers -> PC] /\ pc' \in AfterNotifyOne(p)
    BY <1>5 DEF Requeue, PC
  <2>2. \A v \in Workers : pc'[v] = p[v] \/ (v \in Waiting(p) /\ pc'[v] = "loop")
    BY <2>1, NotifyOne
  <2>3. \A v \in Waiting(p) : v # w /\ v \in Waiting(pc)
    BY DEF Waiting
  <2> QED
    BY <1>5, <2>2, <2>3 DEF Requeue, Waiting, stop
<1>6. CASE DestroyStop \/ DestroyJoin
  BY <1>6 DEF DestroyStop, DestroyJoin, stop
<1>7. CASE DestroyNotify
  <2>1. \A w \in Workers : pc'[w] = pc[w] \/ (w \in Waiting(pc) /\ pc'[w] = "loop")
    BY <1>7, NotifyAll DEF DestroyNotify
  <2> QED
    BY <1>7, <2>1 DEF DestroyNotify, Waiting, stop
<1>8. CASE Tick \/ UNCHANGED vars
  BY <1>8 DEF Tick, vars, stop
<1> QED
  BY <1>1, <1>2, <1>3, <1>4, <1>5, <1>6, <1>7, <1>8 DEF Next, Worker, Destroy, Done

\* A task stays in exactly one place: the actions that move one are AddTask,
\* Take and Requeue.
LEMMA StepExactlyOnePlace ==
    ASSUME TypeOK, Threads, ExactlyOnePlace, [Next]_vars
    PROVE  ExactlyOnePlace'
<1> USE SchedulerAssumption DEF TypeOK, Entry, ExactlyOnePlace, OneQueueEntry,
        OneHolder, NotQueuedWhileHeld, NeverLost, InQueue, HeldBy
<1>1. ASSUME NEW t \in Tasks, AddTask(t)
      PROVE  ExactlyOnePlace'
  <2> DEFINE n == [task |-> t, deadline |-> now + Period[t]]
  <2>1. queue' = queue \cup {n} /\ added' = added \cup {t} /\ held' = held
    BY <1>1 DEF AddTask
  <2>2. n.task = t /\ ~InQueue(t) /\ \A w \in Workers : ~HeldBy(t, w)
    BY <1>1 DEF AddTask
  <2>3. \A u \in Tasks : InQueue(u)' <=> (InQueue(u) \/ u = t)
    BY <2>1, <2>2
  <2>4. OneQueueEntry'
    BY <2>1, <2>2
  <2>5. OneHolder'
    BY <2>1
  <2>6. NotQueuedWhileHeld'
    BY <2>1, <2>2, <2>3
  <2>7. NeverLost'
    BY <2>1, <2>2, <2>3
  <2> QED
    BY <2>4, <2>5, <2>6, <2>7
<1>2. ASSUME NEW w \in Workers, Take(w)
      PROVE  ExactlyOnePlace'
  <2>1. PICK e \in queue : queue' = queue \ {e} /\ held' = [held EXCEPT ![w] = e]
    BY <1>2 DEF Take
  <2>2. held[w] = NoTask /\ added' = added /\ e # NoTask
    BY <1>2 DEF Take, Threads
  <2>3. \A u \in Tasks : InQueue(u)' <=> (InQueue(u) /\ u # e.task)
    BY <2>1
  <2>4. \A u \in Tasks, v \in Workers :
           HeldBy(u, v)' <=> (HeldBy(u, v) \/ (v = w /\ u = e.task))
    BY <2>1, <2>2
  <2>5. OneQueueEntry'
    BY <2>1
  <2>6. OneHolder'
    <3>1. \A v \in Workers : ~HeldBy(e.task, v) /\ e.task \in Tasks
      BY <2>1
    <3> QED
      BY <3>1, <2>2, <2>4
  <2>7. NotQueuedWhileHeld'
    BY <2>3, <2>4
  <2>8. NeverLost'
    BY <2>2, <2>3, <2>4, <2>1
  <2> QED
    BY <2>5, <2>6, <2>7, <2>8
<1>3. ASSUME NEW w \in Workers, Requeue(w)
      PROVE  ExactlyOnePlace'
  <2> DEFINE h == held[w]
             n == [h EXCEPT !.deadline = @ + Period[h.task]]
  <2>1. h \in Entry /\ h # NoTask
    BY <1>3 DEF Requeue, Threads
  <2>2. n \in Entry /\ n.task = h.task
    BY <2>1
  <2>3. /\ queue' = queue \cup {n}
        /\ held' = [held EXCEPT ![w] = NoTask]
        /\ added' = added
    BY <1>3 DEF Requeue
  <2>4. HeldBy(h.task, w) /\ ~InQueue(h.task) /\ h.task \in Tasks
    BY <2>1
  <2>5. \A u \in Tasks : InQueue(u)' <=> (InQueue(u) \/ u = h.task)
    BY <2>2, <2>3
  <2>6. \A u \in Tasks, v \in Workers : HeldBy(u, v)' <=> (HeldBy(u, v) /\ v # w)
    BY <2>3
  <2>7. OneQueueEntry'
    BY <2>2, <2>3, <2>4
  <2>8. OneHolder'
    BY <2>6
  <2>9. NotQueuedWhileHeld'
    BY <2>4, <2>5, <2>6
  <2>10. NeverLost'
    BY <2>3, <2>4, <2>5, <2>6
  <2> QED
    BY <2>7, <2>8, <2>9, <2>10
<1>4. ASSUME UNCHANGED <<added, queue, held>>
      PROVE  ExactlyOnePlace'
  BY <1>4
<1>5. ASSUME NEW w \in Workers,
             Exit(w) \/ Sleep(w) \/ SleepUntil(w) \/ TimeOut(w) \/ SpuriousWakeup(w)
      PROVE  UNCHANGED <<added, queue, held>>
  BY <1>5 DEF Exit, Sleep, SleepUntil, TimeOut, SpuriousWakeup
<1>6. ASSUME Start \/ Destroy \/ Tick \/ UNCHANGED vars
      PROVE  UNCHANGED <<added, queue, held>>
  BY <1>6 DEF Start, Destroy, DestroyStop, DestroyNotify, DestroyJoin, Tick, vars
<1> QED
  BY <1>1, <1>2, <1>3, <1>4, <1>5, <1>6 DEF Next, Worker, Done

\* Deadlines stay within a period of the present, and what runs was due.
LEMMA StepPunctual ==
    ASSUME TypeOK, Threads, Punctual, [Next]_vars
    PROVE  Punctual'
<1> USE SchedulerAssumption DEF TypeOK, Entry, Punctual
<1>1. ASSUME NEW t \in Tasks, AddTask(t)
      PROVE  Punctual'
  BY <1>1 DEF AddTask
<1>2. ASSUME NEW w \in Workers, Take(w)
      PROVE  Punctual'
  <2>1. PICK e \in queue : /\ e.deadline <= now
                           /\ queue' = queue \ {e}
                           /\ held' = [held EXCEPT ![w] = e]
    BY <1>2 DEF Take
  <2>2. now' = now
    BY <1>2 DEF Take
  <2> QED
    BY <2>1, <2>2
<1>3. ASSUME NEW w \in Workers, Requeue(w)
      PROVE  Punctual'
  <2>1. held[w] \in Entry /\ held[w].deadline <= now
    BY <1>3 DEF Requeue, Threads
  <2>2. /\ now' = now
        /\ held' = [held EXCEPT ![w] = NoTask]
        /\ queue' = queue \cup {[held[w] EXCEPT !.deadline = @ + Period[held[w].task]]}
    BY <1>3 DEF Requeue
  <2> QED
    BY <2>1, <2>2
<1>4. CASE Tick
  <2>1. now' = now + 1 /\ queue' = queue /\ held' = held
    BY <1>4 DEF Tick
  <2>2. \A w \in Workers : held[w] # NoTask => held[w] \in Entry
    OBVIOUS
  <2> QED
    BY <2>1, <2>2
<1>5. ASSUME NEW w \in Workers,
             Exit(w) \/ Sleep(w) \/ SleepUntil(w) \/ TimeOut(w) \/ SpuriousWakeup(w)
      PROVE  UNCHANGED <<now, queue, held>>
  BY <1>5 DEF Exit, Sleep, SleepUntil, TimeOut, SpuriousWakeup
<1>6. ASSUME Start \/ Destroy \/ UNCHANGED vars
      PROVE  UNCHANGED <<now, queue, held>>
  BY <1>6 DEF Start, Destroy, DestroyStop, DestroyNotify, DestroyJoin, vars
<1> QED
  BY <1>1, <1>2, <1>3, <1>4, <1>5, <1>6 DEF Next, Worker, Done

\* The queue stays looked after.  The step that matters is AddTask: either a
\* waiting worker is woken, or none waits and then every worker is awake or
\* executing, because the pool has been started and not been stopped.
LEMMA StepLookedAfter ==
    ASSUME TypeOK, Threads, Threads', LookedAfter, [Next]_vars
    PROVE  LookedAfter'
<1> SUFFICES ASSUME started', ~stop', queue' # {}
             PROVE  \E w \in Workers :
                       \/ pc'[w] \in {"loop", "run"}
                       \/ pc'[w] = "timed" /\ \A e \in queue' : until'[w] <= e.deadline
  BY DEF LookedAfter
<1> USE SchedulerAssumption DEF TypeOK, Entry
<1>1. ASSUME NEW t \in Tasks, AddTask(t)
      PROVE  \E w \in Workers : pc'[w] \in {"loop", "run"}
  <2>1. \A w \in Workers : pc[w] \notin {"none", "exited"}
    BY <1>1 DEF AddTask, Threads, stop
  <2>2. CASE Waiting(pc) = {}
    BY <1>1, <2>1, <2>2 DEF AddTask, AfterNotifyOne, Waiting, PC
  <2>3. CASE Waiting(pc) # {}
    BY <1>1, <2>3, NotifyOne DEF AddTask
  <2> QED
    BY <2>2, <2>3
<1>2. CASE Start
  BY <1>2 DEF Start
<1>3. ASSUME NEW w \in Workers, Exit(w) \/ Sleep(w)
      PROVE  FALSE
  BY <1>3 DEF Exit, Sleep, stop
<1>4. ASSUME NEW w \in Workers, SleepUntil(w)
      PROVE  pc'[w] = "timed" /\ \A e \in queue' : until'[w] <= e.deadline
  BY <1>4 DEF SleepUntil, IsTop
<1>5. ASSUME NEW w \in Workers, Take(w)
      PROVE  pc'[w] = "run"
  BY <1>5 DEF Take
<1>6. ASSUME NEW w \in Workers, Requeue(w)
      PROVE  pc'[w] = "loop"
  <2> DEFINE p == [pc EXCEPT ![w] = "loop"]
  <2>1. p \in [Workers -> PC] /\ pc' \in AfterNotifyOne(p) /\ p[w] = "loop"
    BY <1>6 DEF Requeue, PC
  <2> QED
    BY <2>1, NotifyOne
<1>7. ASSUME NEW w \in Workers, TimeOut(w) \/ SpuriousWakeup(w)
      PROVE  pc'[w] = "loop"
  BY <1>7 DEF TimeOut, SpuriousWakeup
<1>8. CASE Destroy
  BY <1>8 DEF Destroy, DestroyStop, DestroyNotify, DestroyJoin, stop
<1>9. CASE Tick \/ UNCHANGED vars
  BY <1>9 DEF Tick, vars, LookedAfter, stop
<1> QED
  BY <1>1, <1>2, <1>3, <1>4, <1>5, <1>6, <1>7, <1>8, <1>9 DEF Next, Worker, Done

\* The inductive invariant holds in every reachable state.
THEOREM Inductive == Spec => []IInv
<1>1. IInv /\ [Next]_vars => IInv'
  BY StepTypeOK, StepThreads, StepExactlyOnePlace, StepPunctual, StepLookedAfter
     DEF IInv
<1> QED
  BY InitIInv, <1>1, PTL DEF Spec

\* Every variable keeps its type.
THEOREM TypeCorrect == Spec => []TypeOK
BY Inductive, PTL DEF IInv

\* Whatever the number of workers and tasks, a task is never lost, never queued
\* twice and never executed by two workers at once.
THEOREM TasksAreInOnePlace == Spec => []ExactlyOnePlace
BY Inductive, PTL DEF IInv

\* No task is executed early, and a backlog never schedules a task more than a
\* period ahead.
THEOREM TasksArePunctual == Spec => []Punctual
BY Inductive, PTL DEF IInv

\* No notification is lost: a queued task always has a worker that will look
\* at it.
THEOREM QueueIsLookedAfter == Spec => []LookedAfter
BY Inductive, PTL DEF IInv

-----------------------------------------------------------------------------
(***************************************************************************)
(* The pool implements PeriodicTasks.                                      *)
(***************************************************************************)

\* The entries there are, wherever they are, and what the mapping makes of them.
Lives(e) == e \in queue \/ \E w \in Workers : held[w] = e /\ e # NoTask

Deadlines ==
    /\ \A e : Lives(e) => e \in Entry /\ e.task \in added /\ AbsDeadline[e.task] = e.deadline
    /\ \A t \in added : \E e : Lives(e) /\ e.task = t
    /\ \A t \in Tasks \ added : AbsDeadline[t] = 0

LEMMA DeadlinesAre == IInv => Deadlines
<1> SUFFICES ASSUME IInv PROVE Deadlines
  OBVIOUS
<1> USE DEF IInv
<1>1. ASSUME NEW e, Lives(e) PROVE e \in Entry /\ e.task \in Tasks /\ e.task \in added
  <2>1. e \in Entry
    BY <1>1 DEF Lives, TypeOK
  <2>2. InQueue(e.task) \/ \E w \in Workers : HeldBy(e.task, w)
    BY <1>1 DEF Lives, InQueue, HeldBy
  <2> QED
    BY <2>1, <2>2 DEF ExactlyOnePlace, NeverLost, Entry
<1>2. ASSUME NEW e, Lives(e), NEW f, Lives(f), e.task = f.task PROVE e = f
  <2>1. e.task \in Tasks
    BY <1>1, <1>2
  <2> QED
    BY <1>2, <2>1
    DEF Lives, ExactlyOnePlace, OneQueueEntry, OneHolder, NotQueuedWhileHeld, InQueue, HeldBy
<1>3. ASSUME NEW e, Lives(e) PROVE EntriesOf(e.task) = {e}
  <2>1. \A f : f \in EntriesOf(e.task) <=> Lives(f) /\ f.task = e.task
    BY DEF EntriesOf, Lives, HeldBy
  <2> QED
    BY <1>2, <1>3, <2>1
<1>4. ASSUME NEW e, Lives(e) PROVE AbsDeadline[e.task] = e.deadline
  <2>1. (CHOOSE f \in EntriesOf(e.task) : TRUE) = e
    BY <1>3, <1>4
  <2> QED
    BY <1>1, <1>4, <2>1 DEF AbsDeadline
<1>5. ASSUME NEW t \in added PROVE \E e : Lives(e) /\ e.task = t
  BY DEF ExactlyOnePlace, NeverLost, InQueue, HeldBy, Lives, TypeOK
<1>6. \A t \in Tasks \ added : AbsDeadline[t] = 0
  BY DEF AbsDeadline
<1> QED
  BY <1>1, <1>4, <1>5, <1>6 DEF Deadlines

\* A worker that holds nothing is room for one more execution.
LEMMA RoomToBegin ==
    ASSUME IInv, NEW w \in Workers, held[w] = NoTask
    PROVE  Cardinality(AbsRunning) < Cardinality(Workers)
<1> DEFINE Busy == {v \in Workers : held[v] # NoTask}
           f == [v \in Busy |-> held[v].task]
<1>1. f \in Surjection(Busy, AbsRunning)
  <2>1. \A v \in Busy : held[v].task \in AbsRunning
    BY DEF AbsRunning, HeldBy, IInv, TypeOK, Entry
  <2>2. \A t \in AbsRunning : \E v \in Busy : f[v] = t
    BY DEF AbsRunning, HeldBy
  <2> QED
    BY <2>1, <2>2 DEF Surjection
<1>2. Busy \subseteq Workers /\ Busy # Workers /\ IsFiniteSet(Workers)
  BY SchedulerAssumption
<1>3. /\ IsFiniteSet(Busy) /\ Cardinality(Busy) <= Cardinality(Workers)
      /\ Cardinality(Busy) # Cardinality(Workers)
  BY <1>2, FS_Subset
<1> HIDE DEF Busy, f
<1>4. IsFiniteSet(AbsRunning) /\ Cardinality(AbsRunning) <= Cardinality(Busy)
  BY <1>1, <1>3, FS_Surjection
<1> QED
  BY <1>2, <1>3, <1>4, FS_CardinalityType

\* What the abstract actions are, in terms of the pool.
AbsVars == <<now, AbsReady, AbsRunning, AbsDeadline, stop>>

LEMMA PromiseIs ==
    /\ \A t : Promise!Register(t) <=>
          /\ ~stop /\ t \notin AbsReady \cup AbsRunning
          /\ AbsReady' = AbsReady \cup {t}
          /\ AbsDeadline' = [AbsDeadline EXCEPT ![t] = now + Period[t]]
          /\ UNCHANGED <<now, AbsRunning, stop>>
    /\ \A t : Promise!Begin(t) <=>
          /\ ~stop /\ t \in AbsReady /\ AbsDeadline[t] <= now
          /\ \A u \in AbsReady : AbsDeadline[t] <= AbsDeadline[u]
          /\ Cardinality(AbsRunning) < Cardinality(Workers)
          /\ AbsReady' = AbsReady \ {t} /\ AbsRunning' = AbsRunning \cup {t}
          /\ UNCHANGED <<now, AbsDeadline, stop>>
    /\ \A t : Promise!End(t) <=>
          /\ t \in AbsRunning
          /\ AbsRunning' = AbsRunning \ {t} /\ AbsReady' = AbsReady \cup {t}
          /\ AbsDeadline' = [AbsDeadline EXCEPT ![t] = @ + Period[t]]
          /\ UNCHANGED <<now, stop>>
<1>1. \A S : Promise!Cardinality(S) = Cardinality(S)
  BY Zenon DEF Promise!Cardinality, Cardinality
<1>2. \A t : Promise!Register(t) <=>
          /\ ~stop /\ t \notin AbsReady \cup AbsRunning
          /\ AbsReady' = AbsReady \cup {t}
          /\ AbsDeadline' = [AbsDeadline EXCEPT ![t] = now + Period[t]]
          /\ UNCHANGED <<now, AbsRunning, stop>>
  BY DEF Promise!Register
<1>3. \A t : Promise!Begin(t) <=>
          /\ ~stop /\ t \in AbsReady /\ AbsDeadline[t] <= now
          /\ \A u \in AbsReady : AbsDeadline[t] <= AbsDeadline[u]
          /\ Cardinality(AbsRunning) < Cardinality(Workers)
          /\ AbsReady' = AbsReady \ {t} /\ AbsRunning' = AbsRunning \cup {t}
          /\ UNCHANGED <<now, AbsDeadline, stop>>
  BY <1>1 DEF Promise!Begin
<1>4. \A t : Promise!End(t) <=>
          /\ t \in AbsRunning
          /\ AbsRunning' = AbsRunning \ {t} /\ AbsReady' = AbsReady \cup {t}
          /\ AbsDeadline' = [AbsDeadline EXCEPT ![t] = @ + Period[t]]
          /\ UNCHANGED <<now, stop>>
  BY DEF Promise!End
<1> QED
  BY <1>2, <1>3, <1>4

\* Deadlines of tasks that stay where they are, or only change place, stay.
LEMMA DeadlineStays ==
    ASSUME Deadlines, Deadlines', NEW t \in Tasks,
           t \in added <=> t \in added',
           \A e : Lives(e) /\ e.task = t => Lives(e)'
    PROVE  AbsDeadline'[t] = AbsDeadline[t]
<1>1. CASE t \in added
  <2>1. PICK e : Lives(e) /\ e.task = t
    BY <1>1 DEF Deadlines
  <2>2. Lives(e)'
    BY <2>1
  <2>3. AbsDeadline[t] = e.deadline
    BY <2>1 DEF Deadlines
  <2>4. AbsDeadline'[t] = e.deadline
    BY <2>1, <2>2 DEF Deadlines
  <2> QED
    BY <2>3, <2>4
<1>2. CASE t \notin added
  BY <1>2 DEF Deadlines
<1> QED
  BY <1>1, <1>2

LEMMA AbsDeadlineIs == AbsDeadline = [t \in Tasks |-> AbsDeadline[t]]
BY DEF AbsDeadline

LEMMA AddTaskImplements ==
    ASSUME IInv, Deadlines, Deadlines', NEW t \in Tasks, AddTask(t)
    PROVE  Promise!Register(t)
<1>0. PICK n : n = [task |-> t, deadline |-> now + Period[t]]
  OBVIOUS
<1>1. /\ queue' = queue \cup {n} /\ added' = added \cup {t} /\ t \notin added
      /\ held' = held /\ now' = now /\ dtor' = dtor /\ dtor = "alive"
  BY <1>0 DEF AddTask, stop
<1>2. t \notin AbsReady \cup AbsRunning
  BY <1>1 DEF IInv, ExactlyOnePlace, NeverLost, AbsReady, AbsRunning
<1>3. AbsReady' = AbsReady \cup {t} /\ AbsRunning' = AbsRunning
  <2>1. n.task = t
    BY <1>0
  <2>2. \A u \in Tasks : InQueue(u)' <=> (InQueue(u) \/ u = t)
    BY <1>1, <2>1 DEF InQueue
  <2>3. AbsReady' = AbsReady \cup {t}
    BY <2>2 DEF AbsReady
  <2>4. AbsRunning' = AbsRunning
    BY <1>1 DEF AbsRunning, HeldBy
  <2> QED
    BY <2>3, <2>4
<1>4. Lives(n)' /\ \A e : Lives(e) => Lives(e)'
  BY <1>1 DEF Lives
<1>5. AbsDeadline'[t] = now + Period[t]
  <2>1. n.task = t /\ n.deadline = now + Period[t]
    BY <1>0
  <2>2. AbsDeadline'[n.task] = n.deadline
    BY <1>4 DEF Deadlines
  <2> QED
    BY <2>1, <2>2
<1>6. \A u \in Tasks \ {t} : AbsDeadline'[u] = AbsDeadline[u]
  BY <1>1, <1>4, DeadlineStays
<1>7. AbsDeadline' = [u \in Tasks |-> AbsDeadline'[u]]
  BY DEF AbsDeadline
<1>8. AbsDeadline' = [AbsDeadline EXCEPT ![t] = now + Period[t]]
  BY <1>5, <1>6, <1>7, AbsDeadlineIs
<1> QED
  BY <1>1, <1>2, <1>3, <1>8, PromiseIs DEF stop

LEMMA TakeImplements ==
    ASSUME IInv, IInv', Deadlines, Deadlines', NEW w \in Workers, Take(w)
    PROVE  \E t \in Tasks : Promise!Begin(t)
<1>1. PICK e \in queue : /\ IsTop(e) /\ e.deadline <= now /\ queue' = queue \ {e}
                         /\ held' = [held EXCEPT ![w] = e]
  BY DEF Take
<1>2. /\ held[w] = NoTask /\ ~stop /\ UNCHANGED <<now, added, dtor>>
      /\ e \in Entry /\ e # NoTask
  BY SchedulerAssumption DEF Take, IInv, Threads, TypeOK, Entry
<1> DEFINE t == e.task
<1>3. t \in Tasks /\ t \in AbsReady
  BY <1>2 DEF Entry, AbsReady, InQueue
<1>4. Lives(e) /\ AbsDeadline[t] = e.deadline
  BY DEF Lives, Deadlines
<1>5. \A u \in AbsReady : AbsDeadline[t] <= AbsDeadline[u]
  <2> SUFFICES ASSUME NEW u \in AbsReady PROVE AbsDeadline[t] <= AbsDeadline[u]
    OBVIOUS
  <2>1. PICK f \in queue : f.task = u
    BY DEF AbsReady, InQueue
  <2>2. AbsDeadline[u] = f.deadline
    BY <2>1 DEF Lives, Deadlines
  <2> QED
    BY <1>1, <1>4, <2>1, <2>2 DEF IsTop
<1>6. \A u \in Tasks : InQueue(u)' <=> (InQueue(u) /\ u # t)
  BY <1>1 DEF IInv, ExactlyOnePlace, OneQueueEntry, InQueue
<1>7. \A u \in Tasks, v \in Workers : HeldBy(u, v)' <=> (HeldBy(u, v) \/ (v = w /\ u = t))
  BY <1>1, <1>2 DEF HeldBy, IInv, TypeOK
<1>8. AbsReady' = AbsReady \ {t} /\ AbsRunning' = AbsRunning \cup {t}
  <2>1. AbsReady' = AbsReady \ {t}
    BY <1>3, <1>6 DEF AbsReady
  <2>2. AbsRunning' = AbsRunning \cup {t}
    BY <1>3, <1>7 DEF AbsRunning
  <2> QED
    BY <2>1, <2>2
<1>9. \A f : Lives(f) => Lives(f)'
  BY <1>1, <1>2 DEF Lives, IInv, TypeOK
<1>10. \A u \in Tasks : AbsDeadline'[u] = AbsDeadline[u]
  BY <1>2, <1>9, DeadlineStays
<1>11. AbsDeadline' = [u \in Tasks |-> AbsDeadline'[u]]
  BY DEF AbsDeadline
<1>12. AbsDeadline' = AbsDeadline
  BY <1>10, <1>11, AbsDeadlineIs
<1>13. Cardinality(AbsRunning) < Cardinality(Workers)
  BY <1>2, RoomToBegin
<1>14. AbsDeadline[t] <= now /\ UNCHANGED <<now, stop>>
  BY <1>1, <1>2, <1>4 DEF stop
<1> HIDE DEF t
<1>15. Promise!Begin(t)
  BY <1>2, <1>3, <1>5, <1>8, <1>12, <1>13, <1>14, PromiseIs
<1> QED
  BY <1>3, <1>15

LEMMA RequeueImplements ==
    ASSUME IInv, IInv', Deadlines, Deadlines', NEW w \in Workers, Requeue(w)
    PROVE  \E t \in Tasks : Promise!End(t)
<1> DEFINE h == held[w]
           t == h.task
<1>0. PICK n : n = [h EXCEPT !.deadline = @ + Period[t]]
  OBVIOUS
<1>1. /\ queue' = queue \cup {n} /\ held' = [held EXCEPT ![w] = NoTask]
      /\ UNCHANGED <<now, added, dtor>> /\ pc[w] = "run"
  BY <1>0 DEF Requeue
<1>2. h \in Entry /\ h # NoTask
  BY <1>1 DEF IInv, Threads, TypeOK
<1>3. /\ t \in Tasks /\ HeldBy(t, w) /\ n \in Entry /\ n.task = t
      /\ n.deadline = h.deadline + Period[t]
  BY <1>0, <1>2, SchedulerAssumption DEF Entry, HeldBy
<1>4. Lives(h) /\ AbsDeadline[t] = h.deadline
  BY <1>2 DEF Lives, Deadlines
<1>5. Lives(n)' /\ AbsDeadline'[t] = n.deadline
  <2> HIDE DEF t, h
  <2>1. Lives(n)'
    BY <1>1 DEF Lives
  <2>2. AbsDeadline'[n.task] = n.deadline
    BY <2>1 DEF Deadlines
  <2> QED
    BY <1>3, <2>1, <2>2
<1>6. \A f : Lives(f) /\ f.task # t => Lives(f)'
  BY <1>1 DEF Lives, IInv, TypeOK
<1>7. \A u \in Tasks : InQueue(u)' <=> (InQueue(u) \/ u = t)
  BY <1>1, <1>3 DEF InQueue
<1>8. \A u \in Tasks, v \in Workers : HeldBy(u, v)' <=> (HeldBy(u, v) /\ v # w)
  BY <1>1 DEF HeldBy, IInv, TypeOK
<1>9. \A u \in Tasks, v \in Workers : HeldBy(u, v) => (v = w <=> u = t)
  BY <1>3 DEF HeldBy, IInv, ExactlyOnePlace, OneHolder
<1> HIDE DEF h, t
<1>10. AbsReady' = AbsReady \cup {t} /\ AbsRunning' = AbsRunning \ {t} /\ t \in AbsRunning
  <2>1. AbsReady' = AbsReady \cup {t}
    BY <1>3, <1>7 DEF AbsReady
  <2>2. AbsRunning' = AbsRunning \ {t} /\ t \in AbsRunning
    BY <1>3, <1>8, <1>9 DEF AbsRunning
  <2> QED
    BY <2>1, <2>2
<1>11. \A u \in Tasks \ {t} : AbsDeadline'[u] = AbsDeadline[u]
  BY <1>1, <1>6, DeadlineStays
<1>12. AbsDeadline' = [u \in Tasks |-> AbsDeadline'[u]]
  BY DEF AbsDeadline
<1>13. AbsDeadline' = [AbsDeadline EXCEPT ![t] = @ + Period[t]]
  BY <1>3, <1>4, <1>5, <1>11, <1>12, AbsDeadlineIs
<1>14. Promise!End(t)
  BY <1>1, <1>10, <1>13, PromiseIs DEF stop
<1> QED
  BY <1>3, <1>14

LEMMA InitImplements == Init => Promise!Init
<1> SUFFICES ASSUME Init PROVE Promise!Init
  OBVIOUS
<1>1. /\ queue = {} /\ added = {} /\ now = 0 /\ ~stop
      /\ \A w \in Workers : held[w] = NoTask
  BY DEF Init, stop
<1>2. AbsReady = {} /\ AbsRunning = {} /\ AbsDeadline = [t \in Tasks |-> 0]
  BY <1>1 DEF AbsReady, AbsRunning, AbsDeadline, InQueue, HeldBy
<1> QED
  BY <1>1, <1>2 DEF Promise!Init

\* The rest of the pool's steps: time, the end of the service, or nothing.
LEMMA RestImplements ==
    ASSUME UNCHANGED <<queue, held, added>>,
           \/ UNCHANGED <<now, stop>>
           \/ now' = now + 1 /\ UNCHANGED stop
           \/ UNCHANGED now /\ ~stop /\ stop' = TRUE
    PROVE  Promise!Close \/ Promise!Tick \/ UNCHANGED AbsVars
<1>1. UNCHANGED <<AbsReady, AbsRunning, AbsDeadline>>
  BY DEF AbsReady, AbsRunning, AbsDeadline, InQueue, HeldBy, EntriesOf
<1> QED
  BY <1>1 DEF Promise!Close, Promise!Tick, AbsVars

\* The pool is a service of periodic tasks: never two executions of a task at
\* once, the earliest deadline first, none begun after the destructor.
THEOREM PoolIsPeriodic == Spec => ImplementsPeriodicTasks
<1>1. ASSUME IInv, IInv', Deadlines, Deadlines', [Next]_vars
      PROVE  Promise!Next \/ UNCHANGED AbsVars
  <2>1. ASSUME NEW t \in Tasks, AddTask(t) PROVE Promise!Next
    BY <1>1, <2>1, AddTaskImplements DEF Promise!Next
  <2>2. ASSUME NEW w \in Workers, Take(w) PROVE Promise!Next
    BY <1>1, <2>2, TakeImplements DEF Promise!Next
  <2>3. ASSUME NEW w \in Workers, Requeue(w) PROVE Promise!Next
    BY <1>1, <2>3, RequeueImplements DEF Promise!Next
  <2>4. ASSUME NEW w \in Workers,
               Exit(w) \/ Sleep(w) \/ SleepUntil(w) \/ TimeOut(w) \/ SpuriousWakeup(w)
        PROVE  Promise!Next \/ UNCHANGED AbsVars
    BY <2>4, RestImplements
    DEF Exit, Sleep, SleepUntil, TimeOut, SpuriousWakeup, Promise!Next, stop
  <2>5. CASE Start \/ Destroy \/ Tick \/ UNCHANGED vars
    BY <2>5, RestImplements
    DEF Start, Destroy, DestroyStop, DestroyNotify, DestroyJoin, Tick, vars, Promise!Next, stop
  <2> QED
    BY <1>1, <2>1, <2>2, <2>3, <2>4, <2>5 DEF Next, Worker, Done
<1>2. IInv /\ Deadlines /\ IInv' /\ Deadlines' /\ [Next]_vars => [Promise!Next]_AbsVars
  BY <1>1
<1> QED
  BY <1>2, Inductive, DeadlinesAre, InitImplements, PTL
  DEF Spec, ImplementsPeriodicTasks, Promise!Spec, AbsVars
-----------------------------------------------------------------------------
(***************************************************************************)
(* What the destructor's joins rest on, for any number of workers: after   *)
(* notify_all nobody sleeps, and a worker that is executing a task queues  *)
(* it again and leaves without taking another.                             *)
(***************************************************************************)
ToGo(point) == CASE point = "run" -> 2
                 [] point = "loop" -> 1
                 [] OTHER -> 0

StopIsNoticed ==
    /\ dtor \in {"notified", "joined"} => Waiting(pc) = {}
    /\ dtor = "joined" => \A w \in Workers : pc[w] \in {"none", "exited"}

\* A worker that moves after notify_all moves towards its exit.
WorkersComeNearer ==
    dtor \in {"notified", "joined"} =>
        \A w \in Workers : pc'[w] # pc[w] => ToGo(pc'[w]) < ToGo(pc[w])

LEMMA StepNoticed ==
    ASSUME TypeOK, StopIsNoticed, [Next]_vars
    PROVE  /\ StopIsNoticed'
           /\ dtor \in {"notified", "joined"} =>
                 \A w \in Workers : pc'[w] # pc[w] => ToGo(pc'[w]) < ToGo(pc[w])
<1> USE DEF TypeOK, PC, StopIsNoticed, Waiting, stop
<1>1. CASE UNCHANGED <<pc, dtor>>
  BY <1>1
<1>2. CASE (\E t \in Tasks : AddTask(t)) \/ Start
  BY <1>2 DEF AddTask, Start
<1>3. ASSUME NEW w \in Workers, \/ Exit(w) \/ Sleep(w) \/ SleepUntil(w) \/ Take(w)
                               \/ TimeOut(w) \/ SpuriousWakeup(w)
      PROVE  /\ StopIsNoticed'
             /\ dtor \in {"notified", "joined"} =>
                   \A u \in Workers : pc'[u] # pc[u] => ToGo(pc'[u]) < ToGo(pc[u])
  <2>1. /\ dtor' = dtor /\ pc' = [pc EXCEPT ![w] = pc'[w]]
        /\ \/ pc[w] = "loop" /\ pc'[w] = "exited"
           \/ pc[w] = "loop" /\ ~stop
           \/ pc[w] \in {"idle", "timed"}
    BY <1>3 DEF Exit, Sleep, SleepUntil, Take, TimeOut, SpuriousWakeup
  <2> QED
    BY <2>1 DEF ToGo
<1>4. ASSUME NEW w \in Workers, Requeue(w)
      PROVE  /\ StopIsNoticed'
             /\ dtor \in {"notified", "joined"} =>
                   \A u \in Workers : pc'[u] # pc[u] => ToGo(pc'[u]) < ToGo(pc[u])
  <2> SUFFICES ASSUME dtor \in {"notified", "joined"}
               PROVE  /\ StopIsNoticed'
                      /\ \A u \in Workers : pc'[u] # pc[u] => ToGo(pc'[u]) < ToGo(pc[u])
    BY <1>4 DEF Requeue
  <2>1. pc[w] = "run" /\ dtor' = dtor /\ pc' \in AfterNotifyOne([pc EXCEPT ![w] = "loop"])
    BY <1>4 DEF Requeue
  <2>2. Waiting([pc EXCEPT ![w] = "loop"]) = {}
    OBVIOUS
  <2>3. pc' = [pc EXCEPT ![w] = "loop"]
    BY <2>1, <2>2 DEF AfterNotifyOne
  <2> QED
    BY <2>1, <2>3 DEF ToGo
<1>5. CASE DestroyStop \/ DestroyJoin
  BY <1>5 DEF DestroyStop, DestroyJoin
<1>6. CASE DestroyNotify
  BY <1>6 DEF DestroyNotify, AfterNotifyAll
<1>7. CASE Tick \/ UNCHANGED vars
  BY <1>1, <1>7 DEF Tick, vars
<1> QED
  BY <1>1, <1>2, <1>3, <1>4, <1>5, <1>6, <1>7 DEF Next, Worker, Destroy, Done

\* After notify_all nobody is left asleep, and when the destructor returns no
\* thread is left that could touch the pool (~TaskScheduler).
THEOREM NobodySleepsThroughTheEnd == Spec => []StopIsNoticed
<1>1. Init => StopIsNoticed
  BY DEF Init, StopIsNoticed
<1> QED
  BY <1>1, TypeCorrect, StepNoticed, PTL DEF Spec

\* ... and until then every step of a worker takes it nearer to its end: the
\* task it executes is the last one (workerLoop).
THEOREM WorkersFinish == Spec => [][WorkersComeNearer]_vars
<1>1. TypeOK /\ StopIsNoticed /\ [Next]_vars => [WorkersComeNearer]_vars
  BY StepNoticed DEF WorkersComeNearer
<1> QED
  BY <1>1, TypeCorrect, NobodySleepsThroughTheEnd, PTL DEF Spec
=============================================================================
