----------------------------- MODULE MCInjector ------------------------------
(* TLC instance of Injector: both Enter keys share a virtual key. *)
EXTENDS Injector, TLC

MCVk == [c \in Codes |-> IF c \in {"Enter", "NumpadEnter"} THEN "vkReturn" ELSE c]
Symmetry == Permutations(PenIds) \cup Permutations(TouchIds)
==============================================================================
