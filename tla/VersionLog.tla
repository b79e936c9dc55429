----------------------------- MODULE VersionLog -----------------------------
(***************************************************************************)
(* What the memory store promises its clients: each memory is an           *)
(* append-only log of its versions, numbered from 1 without a gap, and a   *)
(* committed transaction adds at most one version to each log.             *)
(***************************************************************************)
EXTENDS Naturals, Sequences

CONSTANTS
    Memories,  \* memory ids
    Rows       \* the rows a version may hold, each with a "version" field

VARIABLE log   \* the versions of each memory, oldest first

Init == log = [m \in Memories |-> <<>>]

Extended(m) ==
    \E row \in Rows : row.version = Len(log[m]) + 1 /\ log'[m] = Append(log[m], row)

Transaction ==
    /\ DOMAIN log' = Memories
    /\ \A m \in Memories : log'[m] = log[m] \/ Extended(m)

Spec == Init /\ [][Transaction]_log
=============================================================================
