--------------------------- MODULE EmbeddingQueue ---------------------------
(***************************************************************************)
(* The vectors of the memories of one namespace and the durable job queue  *)
(* that fills them in: the mutations' effect on the embedding columns      *)
(* (memory.go), the workers of every service pod (embedding_worker.go) and *)
(* the reconciliation a pod runs before it serves and again 30 s later     *)
(* (main.go), while old and new pods with different models overlap.        *)
(*                                                                         *)
(* Mutations and the workers' claim and completion are transactions that   *)
(* lock what they touch before they read it, and are one step each.  A     *)
(* reconciliation holds every namespace lock, so no mutation runs beside   *)
(* it, but the workers take no namespace lock: its clearing and its        *)
(* requeueing statement are two steps.                                     *)
(*                                                                         *)
(* A hash stands for its text.  A worker's locked_at is its own claim, so  *)
(* the job carries the worker.  Time only enables: a backoff or the five   *)
(* minutes of a claim may be over whenever a worker looks.                 *)
(***************************************************************************)
EXTENDS Naturals, FiniteSets

CONSTANTS
    Memories,    \* memory ids
    Texts,       \* title, summary and content of a memory, as one value
    Models,      \* embedding model identities
    Pods,        \* service pods
    Retiring,    \* those of the ReplicaSet that a rollout replaces
    Workers,     \* the embedding workers of all pods
    PodOf,       \* the pod of each worker
    ModelOf,     \* the model each pod is configured with
    None,        \* no vector, job, claim or reconciliation
    MaxAttempts, \* maxEmbeddingAttempts
    MaxVersion,  \* bound: mutations of a memory
    MaxStops     \* bound: pods that stop or are killed

VARIABLES
    memories,    \* status, text and vector of each memory
    snapshots,   \* status and text at each revision
    versions,    \* how many mutations a memory has had
    jobs,        \* embedding_jobs: the job of each memory, None if no row
    claims,      \* what each worker took from the queue, None between batches
    pods,        \* "down", "starting" or "up"
    rerun,       \* whether the pod's second reconciliation is still to come
    reconcile,   \* the reconciliation in progress, None if there is none
    stops        \* how many pods have stopped

vars == <<memories, snapshots, versions, jobs, claims, pods, rerun, reconcile, stops>>

-----------------------------------------------------------------------------
Statuses == {"none", "active", "refuted", "deleted"}
Vector == [text: Texts, model: Models]
Row == [status: Statuses, text: Texts \cup {None}, vector: Vector \cup {None}]
NoRow == [status |-> "none", text |-> None, vector |-> None]
Snapshot == [status: Statuses \ {"none"}, text: Texts]
Job == [hash: Texts, model: Models, attempts: 0 .. MaxAttempts,
        status: {"pending", "processing", "completed", "failed"},
        worker: Workers \cup {None}]
Claimed == [id: Memories, text: Texts, hash: Texts, attempts: 1 .. MaxAttempts]
Reconciliation == [pod: Pods, cleared: SUBSET Memories]

ASSUME EmbeddingQueueAssumption ==
    /\ None \notin Texts \cup Models \cup Workers \cup Pods
    /\ Retiring \subseteq Pods
    /\ PodOf \in [Workers -> Pods]
    /\ ModelOf \in [Pods -> Models]
    /\ MaxAttempts \in Nat \ {0}
    /\ MaxVersion \in Nat
    /\ MaxStops \in Nat

TypeOK ==
    /\ memories \in [Memories -> Row]
    /\ snapshots \in [Memories -> SUBSET Snapshot]
    /\ versions \in [Memories -> 0 .. MaxVersion]
    /\ jobs \in [Memories -> Job \cup {None}]
    /\ claims \in [Workers -> Claimed \cup {None}]
    /\ pods \in [Pods -> {"down", "starting", "up"}]
    /\ rerun \in [Pods -> BOOLEAN]
    /\ reconcile \in Reconciliation \cup {None}
    /\ stops \in 0 .. MaxStops

Init ==
    /\ memories = [m \in Memories |-> NoRow]
    /\ snapshots = [m \in Memories |-> {}]
    /\ versions = [m \in Memories |-> 0]
    /\ jobs = [m \in Memories |-> None]
    /\ claims = [w \in Workers |-> None]
    /\ pods = [p \in Pods |-> "down"]
    /\ rerun = [p \in Pods |-> FALSE]
    /\ reconcile = None
    /\ stops = 0

-----------------------------------------------------------------------------
Embeddable(m) == memories[m].status \notin {"none", "deleted"}

Pending(hash, model) == [hash |-> hash, model |-> model, attempts |-> 0,
                         status |-> "pending", worker |-> None]

\* enqueueMemoryEmbedding: a job that exists is reset but keeps its model.
Enqueued(job, text, model) ==
    IF job = None THEN Pending(text, model) ELSE Pending(text, job.model)

\* A mutation served by pod p: it waits for the namespace locks.
Mutate(p, m, row) ==
    /\ pods[p] = "up"
    /\ reconcile = None
    /\ versions[m] < MaxVersion
    /\ memories' = [memories EXCEPT ![m] = row]
    /\ snapshots' = [snapshots EXCEPT ![m] = @ \cup {[status |-> row.status, text |-> row.text]}]
    /\ versions' = [versions EXCEPT ![m] = @ + 1]
    /\ UNCHANGED <<claims, pods, rerun, reconcile, stops>>

Enqueue(p, m, text) == jobs' = [jobs EXCEPT ![m] = Enqueued(@, text, ModelOf[p])]

\* insertMemoryTx
Put(p, m, t) ==
    /\ memories[m].status = "none"
    /\ Mutate(p, m, [status |-> "active", text |-> t, vector |-> None])
    /\ Enqueue(p, m, t)

\* Mutant: the patch of a field that is embedded leaves the vector.
EditedOnly(row, t) == [row EXCEPT !.text = t]

Edited(row, t) == [row EXCEPT !.text = t, !.vector = None]

\* PatchMemory of title, summary or content, whatever the status.
Patch(p, m, t) ==
    /\ memories[m].status # "none"
    /\ Mutate(p, m, Edited(memories[m], t))
    /\ Enqueue(p, m, t)

\* updateLifecycle to deleted; RefuteMemory and the mark of SupersedeMemory
\* are alike to the queue.  Neither touches the vector or the job.
Mark(p, m, status) ==
    /\ memories[m].status # "none"
    /\ Mutate(p, m, [memories[m] EXCEPT !.status = status])
    /\ UNCHANGED jobs

QueuesOnRestore(status) == status # "deleted"

\* RestoreMemory
Restore(p, m, snapshot) ==
    /\ memories[m].status # "none"
    /\ Mutate(p, m, [status |-> snapshot.status, text |-> snapshot.text, vector |-> None])
    /\ IF QueuesOnRestore(snapshot.status) THEN Enqueue(p, m, snapshot.text)
                                           ELSE UNCHANGED jobs

-----------------------------------------------------------------------------
\* Mutant: a claim whose worker died is never taken over.
ClaimablePending(job, model) == job # None /\ job.model = model /\ job.status = "pending"

\* Pending and due, or processing for more than five minutes.
Claimable(job, model) ==
    job # None /\ job.model = model /\ job.status \in {"pending", "processing"}

\* Mutant: the claim is not counted as an attempt.
NextAttemptUncounted(job) == job.attempts

\* attempts never needs to count past the bound it is compared with.
NextAttempt(job) == IF job.attempts < MaxAttempts THEN job.attempts + 1 ELSE MaxAttempts

\* claimEmbeddingJobs, one job: the job of a missing or deleted memory goes,
\* any other is taken with the text as it is now.
Claim(w, m) ==
    LET job == jobs[m] IN
    /\ pods[PodOf[w]] = "up" /\ claims[w] = None
    /\ Claimable(job, ModelOf[PodOf[w]])
    /\ IF Embeddable(m)
       THEN /\ claims' = [claims EXCEPT ![w] =
                    [id |-> m, text |-> memories[m].text, hash |-> job.hash,
                     attempts |-> NextAttempt(job)]]
            /\ jobs' = [jobs EXCEPT ![m] =
                    [job EXCEPT !.status = "processing", !.attempts = NextAttempt(job),
                                !.worker = w]]
       ELSE /\ jobs' = [jobs EXCEPT ![m] = None]
            /\ UNCHANGED claims
    /\ UNCHANGED <<memories, snapshots, versions, pods, rerun, reconcile, stops>>

\* The ownership check: id, status, hash, attempts, locked_at and model.
Owns(w, c) ==
    LET job == jobs[c.id] IN
    /\ job # None
    /\ job.status = "processing" /\ job.worker = w
    /\ job.hash = c.hash /\ job.attempts = c.attempts
    /\ job.model = ModelOf[PodOf[w]]

\* completeEmbeddingJob: the vector of the text read at the claim is stored if
\* the current text has the job's hash and no other model's vector is there;
\* if nothing is stored the job goes.  A row being cleared is waited for.
Complete(w) ==
    LET c == claims[w]
        model == ModelOf[PodOf[w]]
        stored == /\ Embeddable(c.id)
                  /\ memories[c.id].text = c.hash
                  /\ memories[c.id].vector = None \/ memories[c.id].vector.model = model
    IN
    /\ c # None
    /\ reconcile # None => c.id \notin reconcile.cleared
    /\ claims' = [claims EXCEPT ![w] = None]
    /\ IF ~Owns(w, c)
       THEN UNCHANGED <<memories, jobs>>
       ELSE IF stored
       THEN /\ memories' = [memories EXCEPT ![c.id].vector = [text |-> c.text, model |-> model]]
            /\ jobs' = [jobs EXCEPT ![c.id].status = "completed", ![c.id].worker = None]
       ELSE /\ jobs' = [jobs EXCEPT ![c.id] = None]
            /\ UNCHANGED memories
    /\ UNCHANGED <<snapshots, versions, pods, rerun, reconcile, stops>>

\* failEmbeddingJobs: the provider's error sends the job back, or gives it up.
Fail(w) ==
    LET c == claims[w] IN
    /\ c # None
    /\ claims' = [claims EXCEPT ![w] = None]
    /\ jobs' = IF Owns(w, c)
               THEN [jobs EXCEPT
                       ![c.id].status = IF c.attempts >= MaxAttempts THEN "failed" ELSE "pending",
                       ![c.id].worker = None]
               ELSE jobs
    /\ UNCHANGED <<memories, snapshots, versions, pods, rerun, reconcile, stops>>

\* A completion or failure that could not be written is logged and forgotten.
Lose(w) ==
    /\ claims[w] # None
    /\ claims' = [claims EXCEPT ![w] = None]
    /\ UNCHANGED <<memories, snapshots, versions, jobs, pods, rerun, reconcile, stops>>

-----------------------------------------------------------------------------
\* runCentralService up to its first reconciliation.
Start(p) ==
    /\ pods[p] = "down"
    /\ pods' = [pods EXCEPT ![p] = "starting"]
    /\ UNCHANGED <<memories, snapshots, versions, jobs, claims, rerun, reconcile, stops>>

\* SIGTERM past its deadline, a crash, or a first reconciliation that fails:
\* claims are forgotten, transactions roll back.
Stop(p) ==
    /\ pods[p] # "down"
    /\ stops < MaxStops
    /\ stops' = stops + 1
    /\ pods' = [pods EXCEPT ![p] = "down"]
    /\ rerun' = [rerun EXCEPT ![p] = FALSE]
    /\ claims' = [w \in Workers |-> IF PodOf[w] = p THEN None ELSE claims[w]]
    /\ reconcile' = IF reconcile # None /\ reconcile.pod = p THEN None ELSE reconcile
    /\ UNCHANGED <<memories, snapshots, versions, jobs>>

\* ReconcileEmbeddingJobs, to its first statement: the vectors of other models
\* are cleared, their rows locked until the transaction commits.
ReconcileClear(p) ==
    /\ pods[p] = "starting" \/ (pods[p] = "up" /\ rerun[p])
    /\ reconcile = None
    /\ reconcile' = [pod |-> p, cleared |->
            {m \in Memories : memories[m].vector # None
                              /\ memories[m].vector.model # ModelOf[p]}]
    /\ UNCHANGED <<memories, snapshots, versions, jobs, claims, pods, rerun, stops>>

\* Its second statement and COMMIT: what has no vector is queued for the model.
ReconcileRequeue(p) ==
    LET row(m) == IF m \in reconcile.cleared THEN [memories[m] EXCEPT !.vector = None]
                                             ELSE memories[m]
        stale(job, text) == \/ job = None
                            \/ job.model # ModelOf[p] \/ job.hash # text
                            \/ job.status \in {"completed", "failed"}
    IN
    /\ reconcile # None /\ reconcile.pod = p
    /\ memories' = [m \in Memories |-> row(m)]
    /\ jobs' = [m \in Memories |->
            IF Embeddable(m) /\ row(m).vector = None /\ stale(jobs[m], memories[m].text)
            THEN Pending(memories[m].text, ModelOf[p]) ELSE jobs[m]]
    /\ reconcile' = None
    /\ pods' = [pods EXCEPT ![p] = "up"]
    /\ rerun' = [rerun EXCEPT ![p] = (pods[p] = "starting")]
    /\ UNCHANGED <<snapshots, versions, claims, stops>>

\* A second reconciliation that fails is rolled back, logged and not tried again.
RerunFails(p) ==
    /\ pods[p] = "up" /\ rerun[p]
    /\ reconcile # None => reconcile.pod = p
    /\ rerun' = [rerun EXCEPT ![p] = FALSE]
    /\ reconcile' = None
    /\ UNCHANGED <<memories, snapshots, versions, jobs, claims, pods, stops>>

Next ==
    \/ \E p \in Pods, m \in Memories :
        \/ \E t \in Texts : Put(p, m, t) \/ Patch(p, m, t)
        \/ \E status \in {"deleted", "refuted"} : Mark(p, m, status)
        \/ \E snapshot \in snapshots[m] : Restore(p, m, snapshot)
    \/ \E w \in Workers :
        \/ \E m \in Memories : Claim(w, m)
        \/ Complete(w) \/ Fail(w) \/ Lose(w)
    \/ \E p \in Pods :
        \/ Start(p) \/ Stop(p)
        \/ ReconcileClear(p) \/ ReconcileRequeue(p) \/ RerunFails(p)

Spec == Init /\ [][Next]_vars

\* A worker records an answer while the claim is still its own.
Answer(w) == claims[w] # None /\ Owns(w, claims[w]) /\ (Complete(w) \/ Fail(w))

\* Kubernetes restarts the pods of the present ReplicaSet, those of the replaced
\* one may come back or not; a reconciliation ends, the second one with success
\* or without; workers poll as long as their pod is up and end every batch (weak
\* fairness); provider calls time out after 30 s and claims after five minutes,
\* and the database is there again and again, so that not every answer comes too
\* late or is lost (strong fairness).
Fairness ==
    /\ \A p \in Pods \ Retiring : WF_vars(Start(p))
    /\ \A p \in Pods : WF_vars(ReconcileClear(p) \/ ReconcileRequeue(p) \/ RerunFails(p))
    /\ \A w \in Workers : /\ WF_vars(\E m \in Memories : Claim(w, m))
                          /\ WF_vars(Complete(w) \/ Fail(w) \/ Lose(w))
                          /\ SF_vars(Answer(w))

FairSpec == Spec /\ Fairness

-----------------------------------------------------------------------------
\* A vector of an active memory is the vector of its current text, whatever
\* edits, retries, takeovers and restarts happened since a worker read it.
ActiveVectorCurrent ==
    \A m \in Memories : memories[m].status = "active" /\ memories[m].vector # None
                            => memories[m].vector.text = memories[m].text

\* Nobody claims the job any more: it is of a model of the replaced pods.
Stranded(job) == job # None /\ job.model \notin {ModelOf[p] : p \in Pods \ Retiring}

\* Once the mutations stop, every active memory gets its vector, through takeovers,
\* lost answers and restarts, unless its job is given up after
\* maxEmbeddingAttempts (embedding_worker.go:156, 410) or is one that
\* enqueueMemoryEmbedding left with, or an old pod gave, the old model
\* (memory.go:1379): none is without a vector and without a job.
EventuallyEmbedded ==
    <>[](\A m \in Memories : memories[m].status = "active" =>
            \/ memories[m].vector # None
            \/ jobs[m] # None /\ jobs[m].status = "failed"
            \/ Stranded(jobs[m]))
=============================================================================
