----------------------------- MODULE MCDownloads -----------------------------
(* TLC instance of Downloads. *)
EXTENDS Downloads

\* The second version of the file is empty.
MCLen == [f \in Paths |-> <<2, 0>>]

\* No header, and a suffix shorter than the file.
MCHeaders == {[kind |-> "none", a |-> 0, b |-> 0], [kind |-> "suffix", a |-> 1, b |-> 0]}
==============================================================================
