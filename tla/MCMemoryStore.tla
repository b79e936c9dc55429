--------------------------- MODULE MCMemoryStore ---------------------------
(* Instances of MemoryStore for TLC: the requests clients send in each run. *)
EXTENDS MemoryStore, TLC

\* Requests are interchangeable, and so are memory ids.
RequestSymmetry == Permutations(Requests)
Symmetry == RequestSymmetry \cup Permutations(Memories)

Singles == {<<p>> : p \in Passages}
AnyKey == Keys \cup {None}
Blank == [op |-> "put", id |-> None, expected |-> 1, mode |-> "none",
          anchor |-> None, text |-> <<>>, verification |-> "keep",
          revision |-> 1, other |-> None, allow |-> TRUE, key |-> None]

Puts(ids, texts, verifications, others, allows) ==
    {c \in {[Blank EXCEPT !.id = i, !.text = t, !.verification = v,
                          !.other = o, !.allow = a, !.key = k] :
            i \in ids, t \in texts, v \in verifications, o \in others,
            a \in allows, k \in AnyKey} : Valid(c)}
Patches(modes, texts, anchors, verifications) ==
    {c \in {[Blank EXCEPT !.op = "patch", !.id = i, !.expected = e, !.mode = m,
                          !.anchor = a, !.text = t, !.verification = v, !.key = k] :
            i \in Memories, e \in Versions, m \in modes, a \in anchors,
            t \in texts, v \in verifications, k \in AnyKey} : Valid(c)}
Lifecycles(ops) ==
    {[Blank EXCEPT !.op = o, !.id = i, !.expected = e, !.key = k] :
        o \in ops, i \in Memories, e \in Versions, k \in AnyKey}
Restores ==
    {[Blank EXCEPT !.op = "restore", !.id = i, !.expected = e, !.revision = n] :
        i \in Memories, e \in Versions, n \in Versions}
Links(op, others) ==
    {[Blank EXCEPT !.op = op, !.id = i, !.expected = e, !.other = o,
                   !.text = IF op = "refute" THEN <<>> ELSE <<CHOOSE p \in Passages : TRUE>>,
                   !.verification = IF op = "refute" THEN "keep" ELSE "unverified"] :
        i \in Memories, e \in Versions, o \in others}

\* MemoryPatch: every way to change the text of one memory, alone and with the
\* verification, beside puts that are retried under a key.
Patched1 == CHOOSE m \in Memories : TRUE
PatchCalls ==
    {c \in Puts({None}, Singles, {"unverified"}, {None}, {TRUE}) : c.key # None}
        \cup {c \in Patches({"content", "append"}, Singles, {None}, {"keep", "confirmed"})
                 \cup Patches({"amend"}, Singles \cup {<<>>}, Passages, {"keep"})
                 \cup Patches({"none"}, {<<>>}, {None}, {"unverified", "confirmed"}) :
              c.key = None /\ c.id = Patched1}

\* MemoryHistory: what inserts rows and moves statuses, on two memories.
HistoryCalls ==
    Puts({None}, Singles, {"unverified"}, {None}, BOOLEAN)
        \cup Lifecycles({"delete"}) \cup Restores
        \cup Links("supersede", {None}) \cup Links("refute", MaybeMemory)
=============================================================================
