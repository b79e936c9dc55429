--------------------------- MODULE NamespaceLocks ---------------------------
(***************************************************************************)
(* The namespace tree and the locks every mutation takes before it touches *)
(* a record: creation and subtree deletion (internal/service/namespace.go),*)
(* record mutations (assertNamespaceActive of store.go), reconciliation    *)
(* and the embedding workers, which take row locks only.                   *)
(*                                                                         *)
(* Advisory locks and row locks are one table: what each transaction holds,*)
(* each name shared or exclusive, until it ends.  Every lock, and every    *)
(* statement that reads what a later one relies on, is a step; the writes  *)
(* of a transaction and its COMMIT are one, nobody sees them before.       *)
(*                                                                         *)
(* A namespace has at most one memory and its embedding job here; sources, *)
(* chunks, revisions and relations are written and purged with them.       *)
(***************************************************************************)
EXTENDS Naturals, FiniteSets, Sequences

CONSTANTS
    Segments,    \* what paths are made of
    Codes,       \* namespace paths, as sequences of segments
    Txns,        \* transactions of the service pods
    None,        \* no target
    Calls        \* what the transactions may be asked to do in this instance

VARIABLES
    status,      \* the namespaces table: lifecycle_status of each path
    memory,      \* the memory of each namespace, with or without a vector
    job,         \* its row in embedding_jobs
    pc,          \* where each transaction is
    call,        \* what each transaction was asked to do
    held,        \* the locks each transaction holds: <<name, mode>>
    todo,        \* the rows its current statement has yet to lock
    plan         \* what it has read: a subtree, whether there are active
                 \* descendants, and the records it counted

vars == <<status, memory, job, pc, call, held, todo, plan>>
tables == <<status, memory, job>>

-----------------------------------------------------------------------------
Call == [op: {"write", "create", "complete"}, target: Codes, recursive: {FALSE}]
            \cup [op: {"delete"}, target: Codes, recursive: BOOLEAN]
            \cup [op: {"reconcile", "fail"}, target: {None}, recursive: {FALSE}]
NoCall == [op |-> "none", target |-> None, recursive |-> FALSE]
Rows == {"memory", "job"} \X Codes
Names == {<<"catalog">>} \cup ({"namespace"} \X Codes) \cup Rows
Records == {"memory", "vector", "job"} \X Codes
Plan == [subtree: SUBSET Codes, descendants: BOOLEAN, counted: SUBSET Records]
NoPlan == [subtree |-> {}, descendants |-> FALSE, counted |-> {}]

\* namespaceAncestors: the path and its prefixes, the root first.
Ancestors(n) == [i \in 1 .. Len(n) |-> SubSeq(n, 1, i)]
Above(n) == {SubSeq(n, 1, i) : i \in 1 .. Len(n) - 1}
Below(n) == {m \in Codes : n \in Above(m)}

ASSUME NamespaceLocksAssumption ==
    /\ Codes \subseteq Seq(Segments) /\ IsFiniteSet(Codes) /\ <<>> \notin Codes
    /\ \A n \in Codes : Above(n) \subseteq Codes
    /\ None \notin Codes
    /\ Calls \subseteq Call

TypeOK ==
    /\ status \in [Codes -> {"none", "active", "deleted"}]
    /\ memory \in [Codes -> {"none", "plain", "embedded"}]
    /\ job \in [Codes -> {"none", "queued", "claimed", "done"}]
    /\ pc \in [Txns -> {"idle", "locking", "jobs", "memories", "counted"}]
    /\ call \in [Txns -> Calls \cup {NoCall}]
    /\ held \in [Txns -> SUBSET (Names \X {"shared", "exclusive"})]
    /\ todo \in [Txns -> SUBSET Rows]
    /\ plan \in [Txns -> Plan]
    /\ \A t \in Txns : pc[t] = "idle" => held[t] = {}

Init ==
    /\ status = [n \in Codes |-> "none"]
    /\ memory = [n \in Codes |-> "none"]
    /\ job = [n \in Codes |-> "none"]
    /\ pc = [t \in Txns |-> "idle"]
    /\ call = [t \in Txns |-> NoCall]
    /\ held = [t \in Txns |-> {}]
    /\ todo = [t \in Txns |-> {}]
    /\ plan = [t \in Txns |-> NoPlan]

-----------------------------------------------------------------------------
\* Mutant: creation and deletion lock their target like everybody else.
TargetModeShared(op) == "shared"

\* lockNamespaceDeletionHierarchy takes the path itself exclusively.
TargetMode(op) == IF op \in {"create", "delete"} THEN "exclusive" ELSE "shared"

\* Mutant: a transaction locks its own namespace only.
PathOfTarget(c) == <<c.target>>

\* lockNamespaceHierarchy: the names to lock, the root first.
PathOf(c) == Ancestors(c.target)

\* The advisory locks a transaction takes one after the other.  A worker's
\* transactions take none.
Script(c) ==
    CASE c.op \in {"complete", "fail"} -> <<>>
      [] c.op = "reconcile" -> << <<<<"catalog">>, "exclusive">> >>
      [] OTHER ->
            << <<<<"catalog">>, "shared">> >>
              \o [i \in 1 .. Len(PathOf(c)) |->
                    <<<<"namespace", PathOf(c)[i]>>,
                      IF i = Len(PathOf(c)) THEN TargetMode(c.op) ELSE "shared">>]

\* The locks of which the transaction's current statement takes one.
Wanted(t) ==
    IF pc[t] = "locking" /\ Cardinality(held[t]) < Len(Script(call[t]))
    THEN {Script(call[t])[Cardinality(held[t]) + 1]}
    ELSE {<<row, "exclusive">> : row \in todo[t]}

Conflict(l, k) == l[1] = k[1] /\ "exclusive" \in {l[2], k[2]}
Blockers(t, l) == {u \in Txns \ {t} : \E k \in held[u] : Conflict(l, k)}
Unlocked(row) == \A t \in Txns : \A l \in held[t] : l[1] # row
Locked(t, kind) == {n \in Codes : \E l \in held[t] : l[1] = <<kind, n>>}

\* A statement starts: it locks the rows its snapshot shows, one by one.
Goto(t, step, rows) ==
    /\ pc' = [pc EXCEPT ![t] = step]
    /\ todo' = [todo EXCEPT ![t] = rows]

\* The statement of the transaction at this step has all its locks.
At(t, op, step) == call[t].op = op /\ pc[t] = step /\ Wanted(t) = {}

\* Mutant: session-level advisory locks.
KeptAtEnd(t) == {l \in held[t] : l[1] \notin Rows}

\* pg_advisory_xact_lock: COMMIT and ROLLBACK release every lock.
KeptLocks(t) == {}

Finish(t) ==
    /\ Goto(t, "idle", {})
    /\ call' = [call EXCEPT ![t] = NoCall]
    /\ held' = [held EXCEPT ![t] = KeptLocks(t)]
    /\ plan' = [plan EXCEPT ![t] = NoPlan]

-----------------------------------------------------------------------------
Begin(t, c) ==
    /\ pc[t] = "idle"
    /\ c.op = "complete" => job[c.target] = "claimed"
    /\ Goto(t, "locking", {})
    /\ call' = [call EXCEPT ![t] = c]
    /\ UNCHANGED <<tables, held, plan>>

\* A lock is granted: an advisory lock, or a row's to SELECT ... FOR UPDATE,
\* UPDATE or INSERT ... ON CONFLICT.
Acquire(t) ==
    \E l \in Wanted(t) :
        /\ Blockers(t, l) = {}
        /\ held' = [held EXCEPT ![t] = @ \cup {l}]
        /\ todo' = [todo EXCEPT ![t] = @ \ {l[1]}]
        /\ UNCHANGED <<tables, pc, call, plan>>

\* Any error return, a killed pod, a deadlock PostgreSQL breaks: a rollback.
Abort(t) ==
    /\ pc[t] # "idle"
    /\ Finish(t)
    /\ UNCHANGED tables

\* CreateNamespace: the path is new and its parent active.
CanCreate(n) ==
    /\ status[n] = "none"
    /\ Len(n) > 1 => status[SubSeq(n, 1, Len(n) - 1)] = "active"

\* CreateNamespace.  A path that is active already is left as it is.
Create(t) ==
    LET n == call[t].target IN
    /\ At(t, "create", "locking")
    /\ CanCreate(n)
    /\ status' = [status EXCEPT ![n] = "active"]
    /\ Finish(t)
    /\ UNCHANGED <<memory, job>>

\* assertNamespaceActive, and on to the memory's row.
AssertActive(t) ==
    LET n == call[t].target IN
    /\ At(t, "write", "locking")
    /\ status[n] = "active"
    /\ \A m \in Above(n) : status[m] # "deleted"
    /\ Goto(t, "memories", {<<"memory", n>>})
    /\ UNCHANGED <<tables, call, held, plan>>

\* enqueueMemoryEmbedding
Enqueue(t) ==
    /\ At(t, "write", "memories")
    /\ Goto(t, "jobs", {<<"job", call[t].target>>})
    /\ UNCHANGED <<tables, call, held, plan>>

Write(t) ==
    LET n == call[t].target IN
    /\ At(t, "write", "jobs")
    /\ memory' = [memory EXCEPT ![n] = "plain"]
    /\ job' = [job EXCEPT ![n] = "queued"]
    /\ Finish(t)
    /\ UNCHANGED status

-----------------------------------------------------------------------------
\* Mutant: no records are locked ahead of the counts.
RowsOfNone(kind, codes) == {}

\* The rows one statement of lockNamespaceRecords locks.
RowsOf(kind, codes) ==
    {<<kind, n>> : n \in {m \in codes : IF kind = "job" THEN job[m] # "none"
                                                        ELSE memory[m] # "none"}}

\* Mutant: memories are locked before their jobs.
RecordOrderReversed == <<"memory", "job">>

\* lockNamespaceRecords: jobs before memories, as in completeEmbeddingJob.
RecordOrder == <<"job", "memory">>

\* DeleteNamespace reads the target, its active descendants and its subtree.
\* A preview ends here.
Examine(t) ==
    LET n == call[t].target
        subtree == IF call[t].recursive THEN {n} \cup {m \in Below(n) : status[m] # "none"}
                                        ELSE {n}
    IN
    /\ At(t, "delete", "locking")
    /\ status[n] # "none"
    /\ plan' = [plan EXCEPT ![t] =
            [subtree |-> subtree, counted |-> {},
             descendants |-> \E m \in Below(n) : status[m] = "active"]]
    /\ Goto(t, "jobs", RowsOf(RecordOrder[1], subtree))
    /\ UNCHANGED <<tables, call, held>>

LockMemories(t) ==
    /\ At(t, "delete", "jobs")
    /\ Goto(t, "memories", RowsOf(RecordOrder[2], plan[t].subtree))
    /\ UNCHANGED <<tables, call, held, plan>>

RecordsOf(codes) ==
    {<<"memory", n>> : n \in {m \in codes : memory[m] # "none"}}
        \cup {<<"vector", n>> : n \in {m \in codes : memory[m] = "embedded"}}
        \cup {<<"job", n>> : n \in {m \in codes : job[m] # "none"}}

\* countNamespaceRecords, and the refusal to leave active descendants behind.
Count(t) ==
    /\ At(t, "delete", "memories")
    /\ plan[t].descendants => call[t].recursive
    /\ plan' = [plan EXCEPT ![t].counted = RecordsOf(plan[t].subtree)]
    /\ Goto(t, "counted", {})
    /\ UNCHANGED <<tables, call, held>>

\* deleteNamespaceRecords and the tombstones.
Purge(t) ==
    LET purged == plan[t].subtree IN
    /\ At(t, "delete", "counted")
    /\ memory' = [n \in Codes |-> IF n \in purged THEN "none" ELSE memory[n]]
    /\ job' = [n \in Codes |-> IF n \in purged THEN "none" ELSE job[n]]
    /\ status' = [n \in Codes |-> IF n \in purged THEN "deleted" ELSE status[n]]
    /\ Finish(t)

-----------------------------------------------------------------------------
\* lockActiveNamespaceHierarchies after the catalog's lock, and the rows
\* ReconcileEmbeddingJobs clears: this one is for a new model.
LockActive(t) ==
    LET active == {n \in Codes : status[n] = "active"}
        locks == {<<<<"namespace", n>>, "exclusive">> :
                    n \in active \cup UNION {Above(n) : n \in active}}
    IN
    /\ At(t, "reconcile", "locking")
    /\ \A l \in locks : Blockers(t, l) = {}
    /\ held' = [held EXCEPT ![t] = @ \cup locks]
    /\ plan' = [plan EXCEPT ![t].subtree = active]
    /\ Goto(t, "memories", {<<"memory", n>> : n \in {m \in active : memory[m] = "embedded"}})
    /\ UNCHANGED <<tables, call>>

\* The memories without a vector are queued.
Requeue(t) ==
    /\ At(t, "reconcile", "memories")
    /\ Goto(t, "jobs", {<<"job", n>> : n \in {m \in plan[t].subtree :
                            memory[m] = "plain" \/ m \in Locked(t, "memory")}})
    /\ UNCHANGED <<tables, call, held, plan>>

Reconcile(t) ==
    /\ At(t, "reconcile", "jobs")
    /\ memory' = [n \in Codes |-> IF n \in Locked(t, "memory") THEN "plain" ELSE memory[n]]
    /\ job' = [n \in Codes |-> IF n \in Locked(t, "job") THEN "queued" ELSE job[n]]
    /\ Finish(t)
    /\ UNCHANGED status

\* claimEmbeddingJobs, which skips locked rows and drops the jobs of nothing.
Claim(n) ==
    /\ job[n] = "queued" /\ Unlocked(<<"job", n>>)
    /\ job' = [job EXCEPT ![n] = IF memory[n] = "none" THEN "none" ELSE "claimed"]
    /\ UNCHANGED <<status, memory, pc, call, held, todo, plan>>

\* failEmbeddingJobs: the jobs of a batch, one UPDATE after the other in the
\* order they were claimed in, which is no order of the rows ...
FailBatch(t) ==
    /\ At(t, "fail", "locking")
    /\ \E batch \in SUBSET {n \in Codes : job[n] = "claimed"} :
          batch # {} /\ Goto(t, "jobs", {<<"job", n>> : n \in batch})
    /\ UNCHANGED <<tables, call, held, plan>>

\* ... of which one that finds its job gone or no longer the worker's locks nothing ...
SkipJob(t) ==
    /\ call[t].op = "fail" /\ pc[t] = "jobs"
    /\ \E row \in todo[t] : todo' = [todo EXCEPT ![t] = @ \ {row}]
    /\ UNCHANGED <<tables, pc, call, held, plan>>

\* ... and COMMIT.
Fail(t) ==
    /\ At(t, "fail", "jobs")
    /\ job' = [n \in Codes |-> IF n \in Locked(t, "job") /\ job[n] = "claimed"
                               THEN "queued" ELSE job[n]]
    /\ Finish(t)
    /\ UNCHANGED <<status, memory>>

\* completeEmbeddingJob: the job's row ...
LockJob(t) ==
    /\ At(t, "complete", "locking")
    /\ Goto(t, "jobs", {<<"job", call[t].target>>})
    /\ UNCHANGED <<tables, call, held, plan>>

\* ... if it is still the worker's, the memory's ...
Own(t) ==
    /\ At(t, "complete", "jobs")
    /\ job[call[t].target] = "claimed"
    /\ Goto(t, "memories", {<<"memory", call[t].target>>})
    /\ UNCHANGED <<tables, call, held, plan>>

\* ... the vector; or, if the memory is gone or its text another, no job.
Complete(t) ==
    LET n == call[t].target IN
    /\ At(t, "complete", "memories")
    /\ \/ /\ memory[n] # "none"
          /\ memory' = [memory EXCEPT ![n] = "embedded"]
          /\ job' = [job EXCEPT ![n] = "done"]
       \/ /\ job' = [job EXCEPT ![n] = "none"]
          /\ UNCHANGED memory
    /\ Finish(t)
    /\ UNCHANGED status

Next ==
    \/ \E t \in Txns, c \in Calls : Begin(t, c)
    \/ \E t \in Txns :
        \/ Acquire(t) \/ Abort(t)
        \/ Create(t)
        \/ AssertActive(t) \/ Enqueue(t) \/ Write(t)
        \/ Examine(t) \/ LockMemories(t) \/ Count(t) \/ Purge(t)
        \/ LockActive(t) \/ Requeue(t) \/ Reconcile(t)
        \/ LockJob(t) \/ Own(t) \/ Complete(t)
        \/ FailBatch(t) \/ SkipJob(t) \/ Fail(t)
    \/ \E n \in Codes : Claim(n)

Spec == Init /\ [][Next]_vars

-----------------------------------------------------------------------------
\* The tree stays whole: what is above an active namespace is active, however
\* creations and deletions of the same branch interleave (namespace.go:68, 475).
ActiveUnderActive ==
    \A n \in Codes : status[n] = "active" => \A m \in Above(n) : status[m] = "active"

\* A deleted namespace has no records, though mutations, workers and
\* reconciliations were at work in its subtree (namespace.go:486, README.md:278).
NoRecordsInTombstone ==
    \A n \in Codes : status[n] # "active" => memory[n] = "none" /\ job[n] = "none"

\* The counts a deletion returns are the records it removed, with workers
\* running all the while (lockNamespaceRecords ahead of countNamespaceRecords).
CountsAreExact ==
    \A t \in Txns : pc[t] = "counted" => plan[t].counted = RecordsOf(plan[t].subtree)

\* Transactions each of which waits for one of the others, and none of which
\* could be taken out.
WaitsFor(t) == UNION {Blockers(t, l) : l \in Wanted(t)}
Cycle(txns) ==
    /\ txns # {}
    /\ \A t \in txns : (\E u \in txns : u \in WaitsFor(t)) /\ (\E u \in txns : t \in WaitsFor(u))

\* The lock orders fit together but for the workers': no creation is ever in a
\* deadlock; none arises without a worker that completes a job, whose row it
\* locks before the memory's, when a mutation and the reconciliation lock the
\* memory first, or that sends a batch of jobs back, whose rows it locks in the
\* order of the claim; and a deletion is in one with such a batch only, as
\* lockNamespaceRecords locks jobs by id and first (store.go:164-271,
\* namespace.go:508, embedding_worker.go:339, 408).
DeadlockOnlyAtWorkers ==
    \A txns \in SUBSET Txns : Cycle(txns) =>
        LET ops == {call[t].op : t \in txns} IN
        /\ "create" \notin ops
        /\ "complete" \in ops \/ "fail" \in ops
        /\ "delete" \in ops => "fail" \in ops
=============================================================================
