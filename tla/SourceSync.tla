----------------------------- MODULE SourceSync -----------------------------
(***************************************************************************)
(* Path ingestion (internal/service/source.go): the manifests of ingestion *)
(* roots, applied by READ COMMITTED transactions that run side by side.    *)
(*                                                                         *)
(* A step is a statement that may wait or that reads what a later one      *)
(* relies on.  What a transaction writes it keeps to itself until its      *)
(* COMMIT; the rows it has locked are those it writes, the one it has      *)
(* found for update and its root's.  Statements that meet no other         *)
(* transaction are part of the step before them: the ingestion job, the    *)
(* chunks and embedding jobs of a new content, the update of a row found.  *)
(*                                                                         *)
(* A file stands for an installation and a normalised path, a content for  *)
(* what a file holds together with its parser, in one namespace.  Roots    *)
(* may overlap, as a directory and one below it do.  Two manifests of one  *)
(* file need not agree: they are scans made at different times.            *)
(***************************************************************************)
EXTENDS Naturals, FiniteSets, Sequences

CONSTANTS
    Requests,  \* requests in flight
    Roots,     \* ingestion roots
    Files,     \* sources, as the rank of their path in byte order
    Contents,  \* what a file may hold
    Under,     \* the files under each root
    Calls,     \* the manifests clients send, and whether they are complete
    MaxGeneration,  \* versions of one file
    None

VARIABLES
    sources,   \* the sources table
    versions,  \* source_versions: the generations and contents of each file
    contents,  \* source_contents, each with its chunks
    txns,      \* the request in each slot
    gone       \* history: for each file, the roots over it whose last complete
               \* manifest has come without it

vars == <<sources, versions, contents, txns, gone>>
tables == <<sources, versions, contents, gone>>

-----------------------------------------------------------------------------
Generations == 1 .. MaxGeneration
NoSource == [status |-> "none", root |-> None, content |-> None, generation |-> 0]
Source == [status: {"active", "deleted"}, root: Roots, content: Contents, generation: Generations]
Version == [generation: Generations, content: Contents]

Manifests(root) == UNION {[named -> Contents] : named \in SUBSET Under[root]}
Call == UNION {[root: {root}, manifest: Manifests(root), complete: BOOLEAN] : root \in Roots}

\* A synchronisation: the files it has yet to upsert in order, the row it has
\* found for the first of them, the rows and contents it has written, and the
\* rows pruneMissingSources has yet to lock.
NoTxn == [pc |-> "idle", root |-> None, manifest |-> <<>>, complete |-> FALSE, todo |-> <<>>,
          found |-> NoSource, writes |-> <<>>, created |-> {}, missing |-> {}]
Txn == {NoTxn} \cup
    [pc: {"find", "ensure", "insert", "prune", "delete"}, root: Roots,
     manifest: UNION {Manifests(root) : root \in Roots}, complete: BOOLEAN,
     todo: Seq(Files), found: {NoSource} \cup Source,
     writes: UNION {[rows -> Source] : rows \in SUBSET Files},
     created: SUBSET Contents, missing: SUBSET Files]

ASSUME SourceSyncAssumption ==
    /\ Files \subseteq Nat /\ IsFiniteSet(Files) /\ IsFiniteSet(Roots)
    /\ Under \in [Roots -> SUBSET Files]
    /\ Calls \subseteq Call
    /\ MaxGeneration \in Nat \ {0}
    /\ None \notin Roots \cup Contents

TypeOK ==
    /\ sources \in [Files -> {NoSource} \cup Source]
    /\ versions \in [Files -> SUBSET Version]
    /\ contents \subseteq Contents
    /\ txns \in [Requests -> Txn]
    /\ gone \in [Files -> SUBSET Roots]

Init ==
    /\ sources = [f \in Files |-> NoSource]
    /\ versions = [f \in Files |-> {}]
    /\ contents = {}
    /\ txns = [r \in Requests |-> NoTxn]
    /\ gone = [f \in Files |-> {}]

-----------------------------------------------------------------------------
Exists(f) == sources[f].status # "none"
Others(r) == Requests \ {r}

\* Who has locked or inserted the row of f.
RowHolders(f) ==
    {s \in Requests : \/ f \in DOMAIN txns[s].writes
                      \/ txns[s].found # NoSource /\ f = Head(txns[s].todo)}

\* Whom the statement that the request is at waits for.
WaitsForRow(r, f) == RowHolders(f) \ {r}
WaitsForContent(r, c) == {s \in Others(r) : c \in txns[s].created}

Set(r, txn) == txns' = [txns EXCEPT ![r] = txn]
File(r) == Head(txns[r].todo)
Content(r) == txns[r].manifest[File(r)]

\* What a transaction has written, and one row more.
Written(writes, f, row) == [g \in DOMAIN writes \cup {f} |-> IF g = f THEN row ELSE writes[g]]

\* The statement after a file: the next file, or the pruning.
Onwards(txn) == [txn EXCEPT !.pc = IF Len(txn.todo) > 1 THEN "find" ELSE "prune",
                            !.todo = Tail(@), !.found = NoSource]

-----------------------------------------------------------------------------
\* SyncSources up to its first file: normalizeSyncInput sorts the files ...
Sorted(named) ==
    CHOOSE files \in [1 .. Cardinality(named) -> named] :
        \A i, j \in DOMAIN files : i < j => files[i] < files[j]

\* ... and to upsertIngestionRoot, which waits for a transaction that has the root.
Started(call, files) ==
    [NoTxn EXCEPT !.pc = IF files = <<>> THEN "prune" ELSE "find", !.root = call.root,
                  !.manifest = call.manifest, !.complete = call.complete, !.todo = files]

BeginUnsorted(r, call) ==
    /\ txns[r].pc = "idle"
    /\ \A s \in Requests : txns[s].root # call.root
    /\ \E files \in [1 .. Cardinality(DOMAIN call.manifest) -> DOMAIN call.manifest] :
          /\ {files[n] : n \in DOMAIN files} = DOMAIN call.manifest
          /\ Set(r, Started(call, files))
    /\ UNCHANGED tables

BeginAnyway(r, call) ==
    /\ txns[r].pc = "idle"
    /\ Set(r, Started(call, Sorted(DOMAIN call.manifest)))
    /\ UNCHANGED tables

Begin(r, call) ==
    /\ txns[r].pc = "idle"
    /\ \A s \in Requests : txns[s].root # call.root
    /\ Set(r, Started(call, Sorted(DOMAIN call.manifest)))
    /\ UNCHANGED tables

\* findSourceForUpdate: it neither sees nor waits for a row that is only inserted.
FindSourceUnlocked(r) ==
    /\ txns[r].pc = "find"
    /\ Set(r, [txns[r] EXCEPT !.pc = "ensure", !.found = sources[File(r)]])
    /\ UNCHANGED tables

FindSource(r) ==
    LET f == File(r) IN
    /\ txns[r].pc = "find"
    /\ Exists(f) => WaitsForRow(r, f) = {}
    /\ Set(r, [txns[r] EXCEPT !.pc = "ensure", !.found = sources[f]])
    /\ UNCHANGED tables

\* refreshUnchangedSource and updateChangedSource.
UpdatedAlways(found, root, content) ==
    [found EXCEPT !.root = root, !.status = "active", !.content = content, !.generation = @ + 1]

Updated(found, root, content) ==
    [found EXCEPT !.root = root, !.status = "active", !.content = content,
                  !.generation = IF found.content = content THEN @ ELSE @ + 1]

\* ensureSourceContent waits for a transaction that is inserting the content, and
\* inserts it if that one is rolled back; a row that was found is updated next.
EnsureContent(r) ==
    LET txn == txns[r]
        f == File(r)
        c == Content(r)
        ensured == [txn EXCEPT !.created = IF c \in contents THEN @ ELSE @ \cup {c}]
    IN  /\ txn.pc = "ensure"
        /\ txn.found.generation < MaxGeneration \/ txn.found.content = c
        /\ WaitsForContent(r, c) = {}
        /\ Set(r, IF txn.found = NoSource THEN [ensured EXCEPT !.pc = "insert"]
                  ELSE Onwards([ensured EXCEPT
                          !.writes = Written(@, f, Updated(txn.found, txn.root, c))]))
        /\ UNCHANGED tables

\* insertSource waits for another insertion of the path and fails if that one is
\* committed, which rolls the synchronisation back.
InsertSource(r) ==
    LET txn == txns[r]
        f == File(r)
        inserted == [status |-> "active", root |-> txn.root, content |-> Content(r), generation |-> 1]
    IN  /\ txn.pc = "insert"
        /\ WaitsForRow(r, f) = {}
        /\ Set(r, IF Exists(f) THEN NoTxn
                  ELSE Onwards([txn EXCEPT !.writes = Written(@, f, inserted)]))
        /\ UNCHANGED tables

-----------------------------------------------------------------------------
\* pruneMissingSources sees the rows of its root as they are when it starts ...
Missing(r) ==
    LET txn == txns[r] IN
    {f \in Files \ DOMAIN txn.manifest : sources[f].root = txn.root /\ sources[f].status # "deleted"}

\* ... locks them in whatever order it comes by them, and looks at each again once
\* it has it: one that another root has taken meanwhile is left alone.
Prunable(r, f) == sources[f].root = txns[r].root /\ sources[f].status # "deleted"

Prune(r) ==
    /\ txns[r].pc = "prune" /\ txns[r].complete
    /\ Set(r, [txns[r] EXCEPT !.pc = "delete", !.missing = Missing(r)])
    /\ UNCHANGED tables

PruneRow(r, f) ==
    /\ txns[r].pc = "delete" /\ f \in txns[r].missing
    /\ WaitsForRow(r, f) = {}
    /\ Set(r, [txns[r] EXCEPT !.missing = @ \ {f},
                  !.writes = IF Prunable(r, f) THEN Written(@, f, [sources[f] EXCEPT !.status = "deleted"])
                                               ELSE @])
    /\ UNCHANGED tables

Finished(txn) == (txn.pc = "prune" /\ ~txn.complete) \/ (txn.pc = "delete" /\ txn.missing = {})

Commit(r) ==
    LET txn == txns[r]
        changed == {f \in DOMAIN txn.writes : txn.writes[f].generation # sources[f].generation}
        absent == IF txn.complete THEN Under[txn.root] \ DOMAIN txn.manifest ELSE {}
    IN  /\ Finished(txn)
        /\ sources' = [f \in Files |-> IF f \in DOMAIN txn.writes THEN txn.writes[f] ELSE sources[f]]
        /\ versions' = [f \in Files |-> versions[f] \cup
                           {[generation |-> txn.writes[f].generation, content |-> txn.writes[f].content] :
                                row \in {f} \cap changed}]
        /\ contents' = contents \cup txn.created
        /\ gone' = [f \in Files |-> CASE f \in DOMAIN txn.manifest -> {}
                                      [] f \in absent -> gone[f] \cup {txn.root}
                                      [] OTHER -> gone[f]]
        /\ Set(r, NoTxn)

\* rollback: an error return, a lost connection, a killed pod, or PostgreSQL's
\* choice of a transaction to end a circle of waits.
Abort(r) ==
    /\ txns[r].pc # "idle"
    /\ Set(r, NoTxn)
    /\ UNCHANGED tables

\* DeleteSource, a transaction of one statement.
DeleteSource(f) ==
    /\ Exists(f) /\ RowHolders(f) = {}
    /\ sources' = [sources EXCEPT ![f].status = "deleted"]
    /\ UNCHANGED <<versions, contents, gone, txns>>

Next ==
    \/ \E r \in Requests :
        \/ \E call \in Calls : Begin(r, call)
        \/ FindSource(r) \/ EnsureContent(r) \/ InsertSource(r)
        \/ Prune(r) \/ \E f \in Files : PruneRow(r, f)
        \/ Commit(r) \/ Abort(r)
    \/ \E f \in Files : DeleteSource(f)

Spec == Init /\ [][Next]_vars

-----------------------------------------------------------------------------
\* A file that is gone from a path leaves the index whichever roots lie over it
\* and whoever owned it: once each of them has sent a complete manifest without it,
\* and none a later one with it, it is deleted (pruneMissingSources and the
\* root_id that refreshUnchangedSource and updateChangedSource take over).
GoneIsDeleted ==
    \A f \in Files : Exists(f) /\ gone[f] = {root \in Roots : f \in Under[root]} => sources[f].status = "deleted"

\* Synchronisations that share files never wait for one another in a circle while
\* they upsert them, as each takes them in the order of their paths
\* (normalizeSyncInput): a circle has one that inserts a content or that prunes.
WaitsFor(r) ==
    LET txn == txns[r] IN
    CASE txn.pc = "find"   -> IF Exists(File(r)) THEN WaitsForRow(r, File(r)) ELSE {}
      [] txn.pc = "ensure" -> WaitsForContent(r, Content(r))
      [] txn.pc = "insert" -> WaitsForRow(r, File(r))
      [] txn.pc = "delete" -> UNION {WaitsForRow(r, f) : f \in txn.missing}
      [] OTHER -> {}
CirclesAreExplained ==
    \A circle \in SUBSET Requests :
        circle # {} /\ (\A r \in circle : WaitsFor(r) \cap circle # {})
            => \E r \in circle : txns[r].pc \in {"ensure", "delete"}

\* Synchronisations that run side by side, take files over from one another and
\* prune have the effect of one after the other, and the versions kept of a file
\* are the contents it had, in order and without a gap.
HistoryOf(f) ==
    [n \in 1 .. Cardinality(versions[f]) |->
        (CHOOSE v \in versions[f] : v.generation = n).content]
Index ==
    INSTANCE SourceIndex WITH index <-
        [f \in Files |-> [status |-> sources[f].status, root |-> sources[f].root,
                          history |-> HistoryOf(f)]]
SynchronisationsAreSerial == Index!Spec
=============================================================================
