--------------------------- MODULE MCTaskScheduler ---------------------------
(***************************************************************************)
(* Small instances of TaskScheduler.  t1 stands for a control task (20 ms  *)
(* in the code), t2 and t3 for planning tasks that are due less often.     *)
(***************************************************************************)
EXTENDS TaskScheduler, TLC

CONSTANTS t1, t2, t3

MCPeriod == [t \in Tasks |-> IF t = t1 THEN 1 ELSE 2]

\* The planning tasks and the workers are interchangeable.
MCSymmetry == Permutations(Workers) \cup Permutations(Tasks \ {t1})
=============================================================================
