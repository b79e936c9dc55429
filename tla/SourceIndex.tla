---------------------------- MODULE SourceIndex ----------------------------
(***************************************************************************)
(* What SyncSources and DeleteSource promise the readers of the index:     *)
(* every request that commits acts on the whole index in one step, as if   *)
(* it were alone.                                                          *)
(***************************************************************************)
EXTENDS Naturals, Sequences

CONSTANTS
    Roots,     \* ingestion roots
    Files,     \* the sources: an installation and a path each
    Contents,  \* what a file may hold
    None

VARIABLE index  \* of each file: its status, the root that owns it and the contents
                \* it has had, oldest first

Source == [status: {"active", "deleted"}, root: Roots, history: Seq(Contents)]
NoSource == [status |-> "none", root |-> None, history |-> <<>>]

Init == index = [f \in Files |-> NoSource]

\* A file of a manifest is active, the root's, and has a new version if its
\* content is another than it was.
Recorded(old, root, content) ==
    LET n == Len(old.history) IN
    [status |-> "active", root |-> root,
     history |-> IF n > 0 /\ old.history[n] = content THEN old.history
                                                      ELSE Append(old.history, content)]

\* A root that is synchronised takes over the files of its manifest, and a
\* complete manifest deletes those it owns and does not name.
Synchronised(root, manifest, complete) ==
    [f \in Files |->
        CASE f \in DOMAIN manifest -> Recorded(index[f], root, manifest[f])
          [] f \notin DOMAIN manifest /\ complete /\ index[f].root = root
                -> [index[f] EXCEPT !.status = "deleted"]
          [] OTHER -> index[f]]

Sync ==
    \E root \in Roots, complete \in BOOLEAN, named \in SUBSET Files :
        \E manifest \in [named -> Contents] : index' = Synchronised(root, manifest, complete)

Delete ==
    \E f \in Files :
        /\ index[f].status # "none"
        /\ index' = [index EXCEPT ![f].status = "deleted"]

Spec == Init /\ [][Sync \/ Delete]_index
=============================================================================
