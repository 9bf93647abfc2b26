------------------------ MODULE MCDriverModelManager -------------------------
(***************************************************************************)
(* The manager under arbitrary traffic: any role, in any order, any number *)
(* of times, with contradicting actor ids and vehicle counts.              *)
(***************************************************************************)
EXTENDS DriverModelManager, TLC

CONSTANTS r1, r2, r3

\* r1 and r2 are interchangeable; r3 is the one that can fail.
MCSymmetry == Permutations({r1, r2}) \cup Permutations(Ids)

MCTotals == {-1, 1, 2}
=============================================================================
