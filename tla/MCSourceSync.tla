---------------------------- MODULE MCSourceSync ----------------------------
(* Instances of SourceSync for TLC. *)
EXTENDS SourceSync, TLC

\* A directory and one below it, which holds all of its files.
MCUnder == [root \in Roots |-> Files]

\* The parent is watched and synchronised as a whole, the child as a whole or
\* one file at a time.
MCCalls == {call \in Call : call.complete <=> call.root = "parent" \/ Cardinality(DOMAIN call.manifest) # 1}

\* Requests are interchangeable, and so are contents.
Symmetry == Permutations(Requests) \cup Permutations(Contents)
=============================================================================
