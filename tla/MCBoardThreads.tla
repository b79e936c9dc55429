--------------------------- MODULE MCBoardThreads ---------------------------
(* Instances of BoardThreads for TLC. *)
EXTENDS BoardThreads, TLC

\* Agents are interchangeable.
Symmetry == Permutations(Agents)
=============================================================================
