------------------------------ MODULE MCPlayout ------------------------------
(* TLC instance of Playout. *)
EXTENDS Playout
==============================================================================
