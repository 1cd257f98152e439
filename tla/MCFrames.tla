------------------------------- MODULE MCFrames -------------------------------
(* TLC instance of Frames. *)
EXTENDS Frames
===============================================================================
