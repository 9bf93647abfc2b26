---------------------------- MODULE PeriodicTasks ----------------------------
(***************************************************************************)
(* What the pool of task_scheduler.cpp promises its callers, without       *)
(* threads, locks or a queue: a set of periodic tasks of which at most     *)
(* Capacity run at any time, each by one executor, never before its        *)
(* deadline, the earliest deadline first, and none once the service has    *)
(* been closed.                                                            *)
(***************************************************************************)
EXTENDS Naturals, FiniteSets

CONSTANTS Tasks,     \* the tasks
          Period,    \* Period[t]: the period of task t
          Capacity   \* how many tasks may run at once

VARIABLES now,       \* the current time
          ready,     \* the tasks waiting for their deadline or for an executor
          running,   \* the tasks being executed
          deadline,  \* deadline[t]: when t is, or was, next to run
          closed     \* no further execution may begin

Init ==
    /\ now = 0
    /\ ready = {}
    /\ running = {}
    /\ deadline = [t \in Tasks |-> 0]
    /\ closed = FALSE

Register(t) ==
    /\ ~closed
    /\ t \notin ready \cup running
    /\ ready' = ready \cup {t}
    /\ deadline' = [deadline EXCEPT ![t] = now + Period[t]]
    /\ UNCHANGED <<now, running, closed>>

Begin(t) ==
    /\ ~closed
    /\ t \in ready
    /\ deadline[t] <= now
    /\ \A u \in ready : deadline[t] <= deadline[u]
    /\ Cardinality(running) < Capacity
    /\ ready' = ready \ {t}
    /\ running' = running \cup {t}
    /\ UNCHANGED <<now, deadline, closed>>

\* An execution that has begun ends, also when the service is closed.
End(t) ==
    /\ t \in running
    /\ running' = running \ {t}
    /\ ready' = ready \cup {t}
    /\ deadline' = [deadline EXCEPT ![t] = @ + Period[t]]
    /\ UNCHANGED <<now, closed>>

Close ==
    /\ ~closed
    /\ closed' = TRUE
    /\ UNCHANGED <<now, ready, running, deadline>>

Tick ==
    /\ now' = now + 1
    /\ UNCHANGED <<ready, running, deadline, closed>>

Next ==
    \/ \E t \in Tasks : Register(t) \/ Begin(t) \/ End(t)
    \/ Close
    \/ Tick

Spec == Init /\ [][Next]_<<now, ready, running, deadline, closed>>
=============================================================================
