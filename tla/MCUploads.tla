------------------------------ MODULE MCUploads ------------------------------
(* TLC instance of Uploads. *)
EXTENDS Uploads, TLC

Symmetry == Permutations(Procs) \cup Permutations(Ids)
==============================================================================
