----------------------------- MODULE MCContinuity -----------------------------
(* TLC instance of Continuity. *)
EXTENDS Continuity
===============================================================================
