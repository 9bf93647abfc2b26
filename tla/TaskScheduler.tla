---------------------------- MODULE TaskScheduler ----------------------------
(***************************************************************************)
(* The thread pool that runs every vehicle's periodic planning and control *)
(* task: src/driver_models/src/task_scheduler.cpp.                         *)
(*                                                                         *)
(* One mutex mtx_ protects everything, so each critical section of the     *)
(* code (from taking mtx_ to releasing it or waiting on cv_) is one        *)
(* action.  A worker is at one of the points of workerLoop where it does   *)
(* not hold mtx_:                                                          *)
(*                                                                         *)
(*   "none"   its thread has not been created yet                          *)
(*   "loop"   about to take mtx_ and evaluate `while (!stop_)`             *)
(*   "idle"   in cv_.wait(lock): the queue was empty                       *)
(*   "timed"  in cv_.wait_until(lock, until): nothing was due              *)
(*   "run"    executing task.func() without the lock                       *)
(*   "exited" returned from workerLoop                                     *)
(*                                                                         *)
(* notify_one wakes an arbitrary waiting worker, or none when none waits;  *)
(* condition variables may also wake up spuriously.  Time is counted in    *)
(* multiples of the shortest period and stops at the bound MaxTime.        *)
(***************************************************************************)
EXTENDS Naturals, FiniteSets

CONSTANTS Workers,   \* the thread_num_ threads of the pool
          Tasks,     \* the tasks the drivers register, two for each vehicle
          Period,    \* Period[t]: the period of task t
          MaxTime,   \* bound: the last instant that is modelled
          NoTask     \* what a worker that executes no task holds

ASSUME SchedulerAssumption ==
    /\ Workers # {} /\ IsFiniteSet(Workers)
    /\ Period \in [Tasks -> Nat \ {0}]
    /\ MaxTime \in Nat
    /\ NoTask \notin [task : Tasks, deadline : Nat]

VARIABLES now,      \* std::chrono::steady_clock::now()
          added,    \* the tasks addTask was called with by the manager
          queue,    \* tasks_: the entries of the priority queue
          held,     \* held[w]: the local variable `task` of worker w
          pc,       \* pc[w]: where worker w is
          until,    \* until[w]: the instant a timed wait ends
          started,  \* started_
          dtor      \* the destructor: "alive", "stopping", "notified", "joined"

vars == <<now, added, queue, held, pc, until, started, dtor>>

Entry == [task : Tasks, deadline : Nat]

PC == {"none", "loop", "idle", "timed", "run", "exited"}

\* stop_ is set by the first step of the destructor.
stop == dtor # "alive"

Waiting(p) == {w \in Workers : p[w] \in {"idle", "timed"}}

\* Mutants are given next to the definition they replace: what a plausible
\* slip in that code would make of it.

\* Mutant: addTask does not notify.
SilentPush(p) == {p}

\* The values pc can have after cv_.notify_one() in a state where it is p.
AfterNotifyOne(p) ==
    IF Waiting(p) = {}
    THEN {p}
    ELSE {[p EXCEPT ![w] = "loop"] : w \in Waiting(p)}

\* Mutant: the destructor notifies nobody.
SilentStop(p) == p

\* ... and after cv_.notify_all().
AfterNotifyAll(p) == [w \in Workers |-> IF w \in Waiting(p) THEN "loop" ELSE p[w]]

\* tasks_.top(): any entry with the smallest deadline.
IsTop(e) == e \in queue /\ \A f \in queue : e.deadline <= f.deadline
-----------------------------------------------------------------------------
Init ==
    /\ now = 0
    /\ added = {}
    /\ queue = {}
    /\ held = [w \in Workers |-> NoTask]
    /\ pc = [w \in Workers |-> "none"]
    /\ until = [w \in Workers |-> 0]
    /\ started = FALSE
    /\ dtor = "alive"

\* addTask, called by the builder thread for a task of a new driver, whose
\* first deadline is one period away.
AddTask(t) ==
    /\ ~stop
    /\ t \in Tasks \ added
    /\ added' = added \cup {t}
    /\ queue' = queue \cup {[task |-> t, deadline |-> now + Period[t]]}
    /\ pc' \in AfterNotifyOne(pc)
    /\ UNCHANGED <<now, held, until, started, dtor>>

\* start(): the threads are created once; a second call returns at once.
Start ==
    /\ ~stop
    /\ ~started
    /\ started' = TRUE
    /\ pc' = [w \in Workers |-> "loop"]
    /\ UNCHANGED <<now, added, queue, held, until, dtor>>

\* workerLoop: `while (!stop_)` fails.
Exit(w) ==
    /\ pc[w] = "loop"
    /\ stop
    /\ pc' = [pc EXCEPT ![w] = "exited"]
    /\ UNCHANGED <<now, added, queue, held, until, started, dtor>>

\* workerLoop: the queue is empty, wait for a notification.
Sleep(w) ==
    /\ pc[w] = "loop"
    /\ ~stop
    /\ queue = {}
    /\ pc' = [pc EXCEPT ![w] = "idle"]
    /\ UNCHANGED <<now, added, queue, held, until, started, dtor>>

\* workerLoop: the first task is not due, wait until it is.
SleepUntil(w) ==
    /\ pc[w] = "loop"
    /\ ~stop
    /\ \E e \in queue :
          /\ IsTop(e)
          /\ e.deadline > now
          /\ until' = [until EXCEPT ![w] = e.deadline]
    /\ pc' = [pc EXCEPT ![w] = "timed"]
    /\ UNCHANGED <<now, added, queue, held, started, dtor>>

\* Mutant: tasks_.top() is executed without tasks_.pop().
TakeWithoutPop(w) ==
    /\ pc[w] = "loop"
    /\ ~stop
    /\ \E e \in queue :
          /\ IsTop(e)
          /\ e.deadline <= now
          /\ held' = [held EXCEPT ![w] = e]
    /\ pc' = [pc EXCEPT ![w] = "run"]
    /\ UNCHANGED <<now, added, queue, until, started, dtor>>

\* Mutant: a due task is popped although another one is due earlier.
TakeAnyDue(w) ==
    /\ pc[w] = "loop"
    /\ ~stop
    /\ \E e \in queue :
          /\ e.deadline <= now
          /\ queue' = queue \ {e}
          /\ held' = [held EXCEPT ![w] = e]
    /\ pc' = [pc EXCEPT ![w] = "run"]
    /\ UNCHANGED <<now, added, until, started, dtor>>

\* workerLoop: pop the first task, which is due, and execute it unlocked.
Take(w) ==
    /\ pc[w] = "loop"
    /\ ~stop
    /\ \E e \in queue :
          /\ IsTop(e)
          /\ e.deadline <= now
          /\ queue' = queue \ {e}
          /\ held' = [held EXCEPT ![w] = e]
    /\ pc' = [pc EXCEPT ![w] = "run"]
    /\ UNCHANGED <<now, added, until, started, dtor>>

\* Mutant: the task is queued again with the deadline it already had.
RequeueSameDeadline(w) ==
    /\ pc[w] = "run"
    /\ queue' = queue \cup {held[w]}
    /\ held' = [held EXCEPT ![w] = NoTask]
    /\ pc' \in AfterNotifyOne([pc EXCEPT ![w] = "loop"])
    /\ UNCHANGED <<now, added, until, started, dtor>>

\* Mutant: the deadline advances by two periods.
RequeueTwice(w) ==
    /\ pc[w] = "run"
    /\ LET e == held[w]
       IN  queue' = queue \cup {[e EXCEPT !.deadline = @ + 2 * Period[e.task]]}
    /\ held' = [held EXCEPT ![w] = NoTask]
    /\ pc' \in AfterNotifyOne([pc EXCEPT ![w] = "loop"])
    /\ UNCHANGED <<now, added, until, started, dtor>>

\* workerLoop: task.func() has returned; the deadline advances by a period
\* (from the old deadline, not from now) and addTask(task) queues it again.
Requeue(w) ==
    /\ pc[w] = "run"
    /\ LET e == held[w]
       IN  queue' = queue \cup {[e EXCEPT !.deadline = @ + Period[e.task]]}
    /\ held' = [held EXCEPT ![w] = NoTask]
    /\ pc' \in AfterNotifyOne([pc EXCEPT ![w] = "loop"])
    /\ UNCHANGED <<now, added, until, started, dtor>>

\* A timed wait ends.
TimeOut(w) ==
    /\ pc[w] = "timed"
    /\ now >= until[w]
    /\ pc' = [pc EXCEPT ![w] = "loop"]
    /\ UNCHANGED <<now, added, queue, held, until, started, dtor>>

\* A wait ends although nobody notified the worker.
SpuriousWakeup(w) ==
    /\ w \in Waiting(pc)
    /\ pc' = [pc EXCEPT ![w] = "loop"]
    /\ UNCHANGED <<now, added, queue, held, until, started, dtor>>

\* ~TaskScheduler: set stop_ under the lock, notify_all without it, join.
DestroyStop ==
    /\ dtor = "alive"
    /\ dtor' = "stopping"
    /\ UNCHANGED <<now, added, queue, held, pc, until, started>>

DestroyNotify ==
    /\ dtor = "stopping"
    /\ dtor' = "notified"
    /\ pc' = AfterNotifyAll(pc)
    /\ UNCHANGED <<now, added, queue, held, until, started>>

DestroyJoin ==
    /\ dtor = "notified"
    /\ \A w \in Workers : pc[w] \in {"none", "exited"}
    /\ dtor' = "joined"
    /\ UNCHANGED <<now, added, queue, held, pc, until, started>>

Tick ==
    /\ now < MaxTime
    /\ now' = now + 1
    /\ UNCHANGED <<added, queue, held, pc, until, started, dtor>>

\* The scheduler is gone: nothing is left to do.
Done ==
    /\ dtor = "joined"
    /\ UNCHANGED vars

Worker(w) ==
    \/ Exit(w)
    \/ Sleep(w)
    \/ SleepUntil(w)
    \/ Take(w)
    \/ Requeue(w)
    \/ TimeOut(w)

Destroy == DestroyStop \/ DestroyNotify \/ DestroyJoin

Next ==
    \/ \E t \in Tasks : AddTask(t)
    \/ Start
    \/ \E w \in Workers : Worker(w) \/ SpuriousWakeup(w)
    \/ Destroy
    \/ Tick
    \/ Done

Spec == Init /\ [][Next]_vars

\* The operating system runs every thread that can run, task functions
\* return (they only wait for locks held for a bounded time), time passes,
\* and a destructor that was entered is carried on.  Nothing forces the
\* manager to add tasks, to start the pool or to destroy it, and no wakeup is
\* ever owed to luck.
Fairness ==
    /\ \A w \in Workers : WF_vars(Worker(w))
    /\ WF_vars(DestroyNotify)
    /\ WF_vars(DestroyJoin)
    /\ WF_vars(Tick)

FairSpec == Spec /\ Fairness
-----------------------------------------------------------------------------
TypeOK ==
    /\ now \in Nat
    /\ added \subseteq Tasks
    /\ queue \subseteq Entry
    /\ held \in [Workers -> Entry \cup {NoTask}]
    /\ pc \in [Workers -> PC]
    /\ until \in [Workers -> Nat]
    /\ started \in BOOLEAN
    /\ dtor \in {"alive", "stopping", "notified", "joined"}

\* Every registered task is in exactly one place: it is never lost when a
\* worker takes it, finishes it or stops, and never queued twice, so a
\* vehicle's planning (or control) step is never executed by two workers at
\* the same time.
InQueue(t) == \E e \in queue : e.task = t
HeldBy(t, w) == held[w] # NoTask /\ held[w].task = t

OneQueueEntry == \A e, f \in queue : e.task = f.task => e = f
OneHolder == \A t \in Tasks : \A v, w \in Workers :
                 HeldBy(t, v) /\ HeldBy(t, w) => v = w
NotQueuedWhileHeld == \A t \in Tasks : \A w \in Workers :
                          HeldBy(t, w) => ~InQueue(t)
NeverLost == \A t \in Tasks :
                 t \in added <=> (InQueue(t) \/ \E w \in Workers : HeldBy(t, w))

ExactlyOnePlace == OneQueueEntry /\ OneHolder /\ NotQueuedWhileHeld /\ NeverLost

\* No task runs before its deadline, and however late the pool is, the next
\* deadline never lies more than a period ahead: a burst that catches up
\* stops when the task is on time again.
Punctual ==
    /\ \A w \in Workers : held[w] # NoTask => held[w].deadline <= now
    /\ \A e \in queue : e.deadline <= now + Period[e.task]

\* The threads exist from start() on, leave their loop only when stopped, and
\* hold a task exactly while they execute it.
Threads ==
    /\ \A w \in Workers : pc[w] = "run" <=> held[w] # NoTask
    /\ \A w \in Workers : pc[w] = "none" <=> ~started
    /\ \A w \in Workers : pc[w] = "exited" => stop

\* A queued task is always looked after: while the pool runs, some worker is
\* awake, is executing a task (and will look at the queue when it is done), or
\* sleeps at most until the first deadline.  A notification lost between a
\* worker's look at the queue and its wait would break this.
LookedAfter ==
    started /\ ~stop /\ queue # {} =>
        \E w \in Workers :
            \/ pc[w] \in {"loop", "run"}
            \/ pc[w] = "timed" /\ \A e \in queue : until[w] <= e.deadline

\* A task that is due is executed, even when the pool is overloaded, unless
\* the scheduler is destroyed: deadlines that advance from the old deadline
\* make the priority queue serve the latest task first.
Due(t) == \E e \in queue : e.task = t /\ e.deadline <= now

DueTaskRuns ==
    \A t \in Tasks :
        Due(t) /\ started ~> (stop \/ \E w \in Workers : HeldBy(t, w))

\* The destructor returns: every worker sees stop_ and can be joined.
DestructorReturns == stop ~> dtor = "joined"

\* The inductive invariant behind the safety properties.
IInv == TypeOK /\ Threads /\ ExactlyOnePlace /\ Punctual /\ LookedAfter
-----------------------------------------------------------------------------
\* What PeriodicTasks sees of the pool: where each task is and its deadline.
EntriesOf(t) == {e \in queue : e.task = t}
                \cup {held[w] : w \in {v \in Workers : HeldBy(t, v)}}

AbsReady == {t \in Tasks : InQueue(t)}
AbsRunning == {t \in Tasks : \E w \in Workers : HeldBy(t, w)}
AbsDeadline == [t \in Tasks |-> IF t \in added
                                THEN (CHOOSE e \in EntriesOf(t) : TRUE).deadline
                                ELSE 0]

Promise == INSTANCE PeriodicTasks
               WITH Capacity <- Cardinality(Workers),
                    ready <- AbsReady,
                    running <- AbsRunning,
                    deadline <- AbsDeadline,
                    closed <- stop

\* The pool is a service of periodic tasks: one execution of a task at a time,
\* earliest deadline first, no execution begun after the destructor.
ImplementsPeriodicTasks == Promise!Spec
=============================================================================
