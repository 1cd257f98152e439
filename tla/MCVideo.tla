------------------------------- MODULE MCVideo -------------------------------
(* TLC instance of Video. *)
EXTENDS Video, TLC

MCConfigs == {[encoder |-> "Auto", preset |-> 1, cursor |-> TRUE],
              [encoder |-> "HevcHardware", preset |-> 1, cursor |-> TRUE],
              [encoder |-> "Auto", preset |-> 1, cursor |-> FALSE]}
MCReports == {[known |-> TRUE, reported |-> {"h264", "hevc"}, presented |-> {"h264"}]}

Symmetry == Permutations(Procs)
==============================================================================
