----------------------------- MODULE MCAutoDriver -----------------------------
(***************************************************************************)
(* A trip of 14 m with the trigger at 5 m; steps of up to 4 m (40 m/s).    *)
(***************************************************************************)
EXTENDS AutoDriver
===============================================================================
