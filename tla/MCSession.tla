------------------------------ MODULE MCSession ------------------------------
(* TLC instance of Session. *)
EXTENDS Session, TLC

Symmetry == Permutations(Peers) \cup Permutations(Sockets)
==============================================================================
