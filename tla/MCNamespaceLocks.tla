------------------------- MODULE MCNamespaceLocks -------------------------
(* Instances of NamespaceLocks for TLC. *)
EXTENDS NamespaceLocks, TLC

\* A path of three namespaces.
Branch == {<<"a">>, <<"a", "b">>, <<"a", "b", "c">>}
Leaf == <<"a", "b", "c">>

\* Records are written in the last and the one above it; the first is deleted
\* with what is below it, the others by themselves.
BranchCalls ==
    {c \in Call : /\ c.op = "write" => c.target # <<"a">>
                  /\ c.op = "complete" => c.target = Leaf
                  /\ c.op = "delete" => (c.recursive <=> c.target = <<"a">>)}

Symmetry == Permutations(Txns)
=============================================================================
