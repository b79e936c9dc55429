--------------------------- MODULE MCWatchManager ---------------------------
(* Instances of WatchManager for TLC. *)
EXTENDS WatchManager, TLC

Symmetry == Permutations(Jobs)
=============================================================================
