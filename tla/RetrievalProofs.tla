--------------------------- MODULE RetrievalProofs --------------------------
(***************************************************************************)
(* Theorems about what retrieval rests on and about retrieval itself:      *)
(* EmbeddingQueue, for any memories, texts, models, pods and workers, and  *)
(* then MemorySearch, for any rows, scores, selectors and limits.          *)
(*                                                                         *)
(* That a vector is of the current text is not inductive: a worker stores  *)
(* what it read at the claim.  ActiveInv adds that the job of an active    *)
(* memory has the hash of its text, and that a claim which still owns its  *)
(* job has read the text of that hash.  Of memories that are not active    *)
(* neither holds.                                                          *)
(*                                                                         *)
(* That the pages of a listing have every row is not either, nor that a    *)
(* recall has every memory that stays: SearchInv says what is so between   *)
(* two pages, two statements of a search and two searches of a recall, and *)
(* that stamps do not go back.                                             *)
(***************************************************************************)
EXTENDS EmbeddingQueue, MemorySearch, FiniteSetTheorems, FunctionTheorems, TLAPS

-----------------------------------------------------------------------------

\* A memory that exists has a text, now and at each revision.
HasText == \A m \in Memories : memories[m].status # "none" => memories[m].text \in Texts

\* The vector and the job of an active memory are of its current text.
JobCurrent(m) == jobs[m] # None => jobs[m].hash = memories[m].text
VectorCurrent(m) == memories[m].vector # None => memories[m].vector.text = memories[m].text

\* So is what a worker has read and could still store.
ClaimCurrent(w) ==
    LET c == claims[w] IN
    c # None /\ Owns(w, c) /\ memories[c.id].status = "active" => c.text = c.hash

ActiveInv ==
    /\ \A m \in Memories : memories[m].status = "active" => JobCurrent(m) /\ VectorCurrent(m)
    /\ \A w \in Workers : ClaimCurrent(w)

IInv == TypeOK /\ HasText /\ ActiveInv

-----------------------------------------------------------------------------
\* A fresh job is well typed.
LEMMA PendingOK ==
    ASSUME NEW hash \in Texts, NEW model \in Models
    PROVE  /\ Pending(hash, model) \in Job
           /\ Pending(hash, model).hash = hash /\ Pending(hash, model).status = "pending"
BY EmbeddingQueueAssumption DEF Pending, Job

\* A job that is enqueued is pending and of the text.
LEMMA EnqueuedOK ==
    ASSUME NEW job \in Job \cup {None}, NEW text \in Texts, NEW model \in Models
    PROVE  /\ Enqueued(job, text, model) \in Job
           /\ Enqueued(job, text, model).hash = text
           /\ Enqueued(job, text, model).status = "pending"
<1>1. CASE job = None
  BY <1>1, PendingOK DEF Enqueued
<1>2. CASE job # None
  <2>1. job.model \in Models
    BY <1>2 DEF Job
  <2> QED BY <1>2, <2>1, PendingOK DEF Enqueued
<1> QED BY <1>1, <1>2

\* A mutation leaves the tables of memories, snapshots and versions well typed.
LEMMA MutateOK ==
    ASSUME IInv, NEW p \in Pods, NEW m \in Memories, NEW row \in Row,
           row.status # "none", row.text \in Texts, Mutate(p, m, row)
    PROVE  /\ memories' \in [Memories -> Row] /\ snapshots' \in [Memories -> SUBSET Snapshot]
           /\ versions' \in [Memories -> 0 .. MaxVersion]
           /\ HasText'
           /\ memories'[m] = row /\ \A n \in Memories \ {m} : memories'[n] = memories[n]
           /\ UNCHANGED <<claims, pods, rerun, reconcile, stops>>
<1>1. TypeOK /\ HasText
  BY DEF IInv
<1>2. /\ memories' = [memories EXCEPT ![m] = row]
      /\ snapshots' = [snapshots EXCEPT ![m] = @ \cup {[status |-> row.status, text |-> row.text]}]
      /\ versions' = [versions EXCEPT ![m] = @ + 1] /\ versions[m] < MaxVersion
      /\ UNCHANGED <<claims, pods, rerun, reconcile, stops>>
  BY DEF Mutate
<1>3. memories' \in [Memories -> Row] /\ memories'[m] = row
  BY <1>1, <1>2 DEF TypeOK
<1>4. \A n \in Memories \ {m} : memories'[n] = memories[n]
  BY <1>1, <1>2 DEF TypeOK
<1>5. snapshots' \in [Memories -> SUBSET Snapshot]
  <2>1. [status |-> row.status, text |-> row.text] \in Snapshot
    BY DEF Row, Snapshot
  <2> QED BY <1>1, <1>2, <2>1 DEF TypeOK
<1>6. versions' \in [Memories -> 0 .. MaxVersion]
  <2>1. versions[m] \in 0 .. MaxVersion /\ MaxVersion \in Nat
    BY <1>1, EmbeddingQueueAssumption DEF TypeOK
  <2>2. versions[m] + 1 \in 0 .. MaxVersion
    BY <1>2, <2>1
  <2> QED BY <1>1, <1>2, <2>2 DEF TypeOK
<1>7. HasText'
  BY <1>1, <1>3, <1>4 DEF HasText
<1> QED BY <1>2, <1>3, <1>4, <1>5, <1>6, <1>7

\* A mutation that clears the vector and queues the new text.
LEMMA QueuedStep ==
    ASSUME IInv, NEW p \in Pods, NEW m \in Memories, NEW row \in Row,
           row.status # "none", row.text \in Texts, row.vector = None,
           Mutate(p, m, row), Enqueue(p, m, row.text)
    PROVE  IInv'
<1> DEFINE j == Enqueued(jobs[m], row.text, ModelOf[p])
<1>1. TypeOK /\ ActiveInv
  BY DEF IInv
<1>2. j \in Job /\ j.hash = row.text /\ j.status = "pending"
  BY <1>1, EnqueuedOK, EmbeddingQueueAssumption DEF TypeOK
<1>3. jobs' = [jobs EXCEPT ![m] = j]
  BY DEF Enqueue
<1> HIDE DEF j
<1>4. jobs' \in [Memories -> Job \cup {None}] /\ jobs'[m] = j
  BY <1>1, <1>2, <1>3 DEF TypeOK
<1>5. \A n \in Memories \ {m} : jobs'[n] = jobs[n]
  BY <1>1, <1>3 DEF TypeOK
<1>6. TypeOK'
  BY <1>1, <1>4, MutateOK DEF TypeOK
<1>7. \A n \in Memories : memories'[n].status = "active" => JobCurrent(n)' /\ VectorCurrent(n)'
  <2>1. SUFFICES ASSUME NEW n \in Memories, memories'[n].status = "active"
                 PROVE  JobCurrent(n)' /\ VectorCurrent(n)'
    OBVIOUS
  <2>2. CASE n = m
    BY <1>2, <1>4, <2>2, MutateOK DEF JobCurrent, VectorCurrent
  <2>3. CASE n # m
    BY <1>1, <1>5, <2>1, <2>3, MutateOK DEF ActiveInv, JobCurrent, VectorCurrent
  <2> QED BY <2>2, <2>3
<1>8. \A w \in Workers : ClaimCurrent(w)'
  <2>1. SUFFICES ASSUME NEW w \in Workers, claims[w] # None, Owns(w, claims[w])',
                        memories'[claims[w].id].status = "active"
                 PROVE  claims[w].text = claims[w].hash
    BY MutateOK DEF ClaimCurrent
  <2>2. claims[w] \in Claimed /\ claims[w].id \in Memories
    BY <1>1, <2>1 DEF TypeOK, Claimed
  <2>3. claims'[w] = claims[w]
    BY MutateOK
  <2>4. claims[w].id # m
    BY <1>2, <1>4, <2>1, <2>3 DEF Owns
  <2>5. Owns(w, claims[w])
    BY <1>5, <2>1, <2>2, <2>3, <2>4 DEF Owns
  <2>6. memories[claims[w].id].status = "active"
    BY <2>1, <2>2, <2>4, MutateOK
  <2> QED BY <1>1, <2>1, <2>5, <2>6 DEF ActiveInv, ClaimCurrent
<1> QED BY <1>6, <1>7, <1>8, MutateOK DEF IInv, ActiveInv

\* A mutation that leaves the memory other than active, and its job as it is.
LEMMA UnqueuedStep ==
    ASSUME IInv, NEW p \in Pods, NEW m \in Memories, NEW row \in Row,
           row.status \notin {"none", "active"}, row.text \in Texts,
           Mutate(p, m, row), UNCHANGED jobs
    PROVE  IInv'
<1>1. TypeOK /\ ActiveInv
  BY DEF IInv
<1>2. TypeOK'
  BY <1>1, MutateOK DEF TypeOK
<1>3. \A n \in Memories : memories'[n].status = "active" => n # m /\ memories'[n] = memories[n]
  BY MutateOK
<1>4. \A n \in Memories : memories'[n].status = "active" => JobCurrent(n)' /\ VectorCurrent(n)'
  BY <1>1, <1>3 DEF ActiveInv, JobCurrent, VectorCurrent
<1>5. \A w \in Workers : ClaimCurrent(w)'
  <2>1. SUFFICES ASSUME NEW w \in Workers, claims[w] # None, Owns(w, claims[w]),
                        memories'[claims[w].id].status = "active"
                 PROVE  claims[w].text = claims[w].hash
    BY MutateOK DEF ClaimCurrent, Owns
  <2>2. claims[w].id \in Memories
    BY <1>1, <2>1 DEF TypeOK, Claimed
  <2> QED BY <1>1, <1>3, <2>1, <2>2 DEF ActiveInv, ClaimCurrent
<1> QED BY <1>2, <1>4, <1>5, MutateOK DEF IInv, ActiveInv

-----------------------------------------------------------------------------
\* insertMemoryTx: a new memory has no vector and a job of its text.
LEMMA PutStep ==
    ASSUME IInv, NEW p \in Pods, NEW m \in Memories, NEW t \in Texts, Put(p, m, t)
    PROVE  IInv'
<1> DEFINE row == [status |-> "active", text |-> t, vector |-> None]
<1>1. row \in Row /\ row.status # "none" /\ row.text = t /\ row.vector = None
  BY DEF Row, Statuses
<1>2. Mutate(p, m, row) /\ Enqueue(p, m, t)
  BY DEF Put
<1> HIDE DEF row
<1> QED BY <1>1, <1>2, QueuedStep

\* PatchMemory clears the vector and queues the new text, which disowns the claims.
LEMMA PatchStep ==
    ASSUME IInv, NEW p \in Pods, NEW m \in Memories, NEW t \in Texts, Patch(p, m, t)
    PROVE  IInv'
<1> DEFINE row == Edited(memories[m], t)
<1>1. memories[m] \in Row /\ memories[m].status # "none"
  BY DEF IInv, TypeOK, Patch
<1>2. row \in Row /\ row.status # "none" /\ row.text = t /\ row.vector = None
  BY <1>1 DEF Row, Edited
<1>3. Mutate(p, m, row) /\ Enqueue(p, m, t)
  BY DEF Patch
<1> HIDE DEF row
<1> QED BY <1>2, <1>3, QueuedStep

\* A mark leaves vector and job, and the memory is not active any more.
LEMMA MarkStep ==
    ASSUME IInv, NEW p \in Pods, NEW m \in Memories, NEW status \in {"deleted", "refuted"},
           Mark(p, m, status)
    PROVE  IInv'
<1> DEFINE row == [memories[m] EXCEPT !.status = status]
<1>1. memories[m] \in Row /\ memories[m].text \in Texts
  BY DEF IInv, TypeOK, HasText, Mark
<1>2. row \in Row /\ row.status \notin {"none", "active"} /\ row.text \in Texts
  BY <1>1 DEF Row, Statuses
<1>3. Mutate(p, m, row) /\ UNCHANGED jobs
  BY DEF Mark
<1> HIDE DEF row
<1> QED BY <1>2, <1>3, UnqueuedStep

\* RestoreMemory queues what it restores, or the memory ends deleted.
LEMMA RestoreStep ==
    ASSUME IInv, NEW p \in Pods, NEW m \in Memories, NEW snapshot \in snapshots[m],
           Restore(p, m, snapshot)
    PROVE  IInv'
<1> DEFINE row == [status |-> snapshot.status, text |-> snapshot.text, vector |-> None]
<1>1. snapshot \in Snapshot
  BY DEF IInv, TypeOK
<1>2. /\ row \in Row /\ row.status # "none" /\ row.text \in Texts /\ row.vector = None
      /\ row.status = snapshot.status /\ row.text = snapshot.text
  BY <1>1 DEF Row, Snapshot, Statuses
<1>3. /\ Mutate(p, m, row)
      /\ IF snapshot.status # "deleted" THEN Enqueue(p, m, snapshot.text) ELSE UNCHANGED jobs
  BY DEF Restore, QueuesOnRestore
<1> HIDE DEF row
<1>4. CASE snapshot.status # "deleted"
  BY <1>2, <1>3, <1>4, QueuedStep
<1>5. CASE snapshot.status = "deleted"
  BY <1>2, <1>3, <1>5, UnqueuedStep
<1> QED BY <1>4, <1>5

-----------------------------------------------------------------------------
\* A row whose vector is cleared or replaced is a row, its text and status as before.
LEMMA WithVector ==
    ASSUME NEW row \in Row, NEW v \in Vector \cup {None}
    PROVE  LET new == [row EXCEPT !.vector = v] IN
           new \in Row /\ new.vector = v /\ new.text = row.text /\ new.status = row.status
BY DEF Row

\* A claim reads the text its job has the hash of, if the memory is active.
LEMMA ClaimStep ==
    ASSUME IInv, NEW w \in Workers, NEW m \in Memories, Claim(w, m)
    PROVE  IInv'
<1> DEFINE job == jobs[m]
           n == NextAttempt(job)
           taken == [id |-> m, text |-> memories[m].text, hash |-> job.hash, attempts |-> n]
           j == [job EXCEPT !.status = "processing", !.attempts = n, !.worker = w]
<1>1. TypeOK /\ HasText /\ ActiveInv
  BY DEF IInv
<1>2. /\ job # None /\ claims[w] = None
      /\ UNCHANGED <<memories, snapshots, versions, pods, rerun, reconcile, stops>>
  BY DEF Claim, Claimable
<1>3. job \in Job
  BY <1>1, <1>2 DEF TypeOK
<1>4. CASE Embeddable(m)
  <2>1. memories[m].text \in Texts
    BY <1>1, <1>4 DEF HasText, Embeddable
  <2>2. n \in 1 .. MaxAttempts
    <3>1. job.attempts \in 0 .. MaxAttempts
      BY <1>3 DEF Job
    <3> QED BY <3>1, EmbeddingQueueAssumption DEF NextAttempt
  <2>3. claims' = [claims EXCEPT ![w] = taken] /\ jobs' = [jobs EXCEPT ![m] = j]
    BY <1>4 DEF Claim
  <2> HIDE DEF n, job
  <2>4. j \in Job /\ j.hash = job.hash /\ j.status = "processing" /\ j.worker = w
    <3>1. n \in 0 .. MaxAttempts
      BY <2>2, EmbeddingQueueAssumption
    <3> QED BY <1>3, <3>1 DEF Job
  <2>5. /\ taken \in Claimed /\ taken.id = m
        /\ taken.text = memories[m].text /\ taken.hash = job.hash
    BY <1>3, <2>1, <2>2 DEF Claimed, Job
  <2> HIDE DEF j, taken
  <2>6. /\ claims' \in [Workers -> Claimed \cup {None}] /\ claims'[w] = taken
        /\ \A u \in Workers \ {w} : claims'[u] = claims[u]
    BY <1>1, <2>3, <2>5 DEF TypeOK
  <2>7. /\ jobs' \in [Memories -> Job \cup {None}] /\ jobs'[m] = j
        /\ \A k \in Memories \ {m} : jobs'[k] = jobs[k]
    BY <1>1, <2>3, <2>4 DEF TypeOK
  <2>8. \A k \in Memories : memories[k].status = "active" => JobCurrent(k)' /\ VectorCurrent(k)'
    BY <1>1, <1>2, <2>4, <2>7 DEF ActiveInv, JobCurrent, VectorCurrent, job
  <2>9. \A u \in Workers : ClaimCurrent(u)'
    <3>1. SUFFICES ASSUME NEW u \in Workers, claims'[u] # None, Owns(u, claims[u])',
                          memories[claims'[u].id].status = "active"
                   PROVE  claims'[u].text = claims'[u].hash
      BY <1>2 DEF ClaimCurrent
    <3>2. CASE u = w
      BY <1>1, <1>2, <2>5, <2>6, <3>1, <3>2 DEF ActiveInv, JobCurrent, job
    <3>3. CASE u # w
      <4>1. claims'[u] = claims[u] /\ claims[u].id \in Memories
        BY <1>1, <2>6, <3>1, <3>3 DEF TypeOK, Claimed
      <4>2. claims[u].id # m
        BY <2>4, <2>7, <3>1, <3>3, <4>1 DEF Owns
      <4>3. Owns(u, claims[u])
        BY <2>7, <3>1, <4>1, <4>2 DEF Owns
      <4> QED BY <1>1, <3>1, <4>1, <4>3 DEF ActiveInv, ClaimCurrent
    <3> QED BY <3>2, <3>3
  <2>10. TypeOK'
    BY <1>1, <1>2, <2>6, <2>7 DEF TypeOK
  <2> QED BY <1>1, <1>2, <2>8, <2>9, <2>10 DEF IInv, HasText, ActiveInv
<1>5. CASE ~ Embeddable(m)
  <2>1. jobs' = [jobs EXCEPT ![m] = None] /\ claims' = claims
    BY <1>5 DEF Claim
  <2>2. /\ jobs' \in [Memories -> Job \cup {None}] /\ jobs'[m] = None
        /\ \A k \in Memories \ {m} : jobs'[k] = jobs[k]
    BY <1>1, <2>1 DEF TypeOK
  <2>3. \A k \in Memories : memories[k].status = "active" => JobCurrent(k)' /\ VectorCurrent(k)'
    BY <1>1, <1>2, <2>2 DEF ActiveInv, JobCurrent, VectorCurrent
  <2>4. \A u \in Workers : ClaimCurrent(u)'
    <3>1. SUFFICES ASSUME NEW u \in Workers, claims[u] # None, Owns(u, claims[u])',
                          memories[claims[u].id].status = "active"
                   PROVE  claims[u].text = claims[u].hash
      BY <1>2, <2>1 DEF ClaimCurrent
    <3>2. claims[u].id \in Memories
      BY <1>1, <3>1 DEF TypeOK, Claimed
    <3>3. Owns(u, claims[u])
      BY <2>1, <2>2, <3>1, <3>2 DEF Owns
    <3> QED BY <1>1, <3>1, <3>3 DEF ActiveInv, ClaimCurrent
  <2>5. TypeOK'
    BY <1>1, <1>2, <2>1, <2>2 DEF TypeOK
  <2> QED BY <1>1, <1>2, <2>3, <2>4, <2>5 DEF IInv, HasText, ActiveInv
<1> QED BY <1>4, <1>5

\* A step of a worker, or of a pod, after which no new claims are held and a job
\* that is in a worker's hands was so before.
LEMMA ClaimsKept ==
    ASSUME TypeOK, ActiveInv,
           \A w \in Workers : claims'[w] = claims[w] \/ claims'[w] = None,
           \A m \in Memories : \/ jobs'[m] = jobs[m] \/ jobs'[m] = None
                               \/ jobs'[m].status # "processing",
           \A m \in Memories : memories'[m].status = memories[m].status
    PROVE  \A w \in Workers : ClaimCurrent(w)'
<1> SUFFICES ASSUME NEW w \in Workers, claims'[w] # None, Owns(w, claims[w])',
                    claims'[w] = claims[w], memories'[claims[w].id].status = "active"
             PROVE  claims[w].text = claims[w].hash
  BY DEF ClaimCurrent
<1>1. claims[w].id \in Memories
  BY DEF TypeOK, Claimed
<1>2. jobs'[claims[w].id] = jobs[claims[w].id]
  BY <1>1 DEF Owns
<1>3. Owns(w, claims[w])
  BY <1>2 DEF Owns
<1> QED BY <1>1, <1>3 DEF ActiveInv, ClaimCurrent

\* What a completion stores was read under the hash of the current text.
LEMMA CompleteStep ==
    ASSUME IInv, NEW w \in Workers, Complete(w)
    PROVE  IInv'
<1> DEFINE c == claims[w]
           model == ModelOf[PodOf[w]]
           v == [text |-> c.text, model |-> model]
           stored == /\ Embeddable(c.id)
                     /\ memories[c.id].text = c.hash
                     /\ memories[c.id].vector = None \/ memories[c.id].vector.model = model
<1>1. TypeOK /\ HasText /\ ActiveInv
  BY DEF IInv
<1>2. /\ c # None /\ claims' = [claims EXCEPT ![w] = None]
      /\ UNCHANGED <<snapshots, versions, pods, rerun, reconcile, stops>>
      /\ IF ~ Owns(w, c)
         THEN UNCHANGED <<memories, jobs>>
         ELSE IF stored
         THEN /\ memories' = [memories EXCEPT ![c.id].vector = v]
              /\ jobs' = [jobs EXCEPT ![c.id].status = "completed", ![c.id].worker = None]
         ELSE /\ jobs' = [jobs EXCEPT ![c.id] = None]
              /\ UNCHANGED memories
  BY DEF Complete
<1>3. c \in Claimed /\ c.id \in Memories /\ c.text \in Texts
  BY <1>1, <1>2 DEF TypeOK, Claimed
<1>4. /\ claims' \in [Workers -> Claimed \cup {None}]
      /\ \A u \in Workers : claims'[u] = claims[u] \/ claims'[u] = None
  BY <1>1, <1>2 DEF TypeOK
<1>5. v \in Vector /\ v.text = c.text
  BY <1>3, EmbeddingQueueAssumption DEF Vector
<1> HIDE DEF v
<1>6. CASE Owns(w, c) /\ stored
  <2> DEFINE row == [memories[c.id] EXCEPT !.vector = v]
             j == [jobs[c.id] EXCEPT !.status = "completed", !.worker = None]
  <2>1. memories' = [memories EXCEPT ![c.id] = row] /\ jobs' = [jobs EXCEPT ![c.id] = j]
    BY <1>2, <1>6
  <2>2. /\ row \in Row /\ row.vector = v
        /\ row.text = memories[c.id].text /\ row.status = memories[c.id].status
    BY <1>1, <1>3, <1>5, WithVector DEF TypeOK
  <2>3. j \in Job /\ j.hash = jobs[c.id].hash /\ j.status = "completed" /\ jobs[c.id] # None
    <3>1. jobs[c.id] \in Job /\ jobs[c.id] # None
      BY <1>1, <1>3, <1>6 DEF TypeOK, Owns
    <3> QED BY <3>1 DEF Job
  <2> HIDE DEF row, j
  <2>4. /\ memories' \in [Memories -> Row] /\ memories'[c.id] = row
        /\ \A m \in Memories \ {c.id} : memories'[m] = memories[m]
    BY <1>1, <1>3, <2>1, <2>2 DEF TypeOK
  <2>5. /\ jobs' \in [Memories -> Job \cup {None}] /\ jobs'[c.id] = j
        /\ \A m \in Memories \ {c.id} : jobs'[m] = jobs[m]
    BY <1>1, <1>3, <2>1, <2>3 DEF TypeOK
  <2>6. ASSUME NEW m \in Memories, memories'[m].status = "active"
        PROVE  JobCurrent(m)' /\ VectorCurrent(m)'
    <3>1. CASE m = c.id
      <4>1. memories[m].status = "active" /\ memories[m].text = c.hash
        BY <1>6, <2>2, <2>4, <2>6, <3>1
      <4>2. c.text = c.hash
        BY <1>1, <1>2, <1>6, <3>1, <4>1 DEF ActiveInv, ClaimCurrent
      <4>3. VectorCurrent(m)'
        BY <1>5, <2>2, <2>4, <3>1, <4>1, <4>2 DEF VectorCurrent
      <4>4. JobCurrent(m)'
        BY <1>1, <2>2, <2>3, <2>4, <2>5, <3>1, <4>1 DEF ActiveInv, JobCurrent
      <4> QED BY <4>3, <4>4
    <3>2. CASE m # c.id
      BY <1>1, <2>4, <2>5, <2>6, <3>2 DEF ActiveInv, JobCurrent, VectorCurrent
    <3> QED BY <3>1, <3>2
  <2>7. \A u \in Workers : ClaimCurrent(u)'
    <3>1. \A m \in Memories : memories'[m].status = memories[m].status
      BY <2>2, <2>4
    <3>2. \A m \in Memories : jobs'[m] = jobs[m] \/ jobs'[m].status # "processing"
      BY <2>3, <2>5
    <3> QED BY <1>1, <1>4, <3>1, <3>2, ClaimsKept
  <2>8. HasText'
    BY <1>1, <2>2, <2>4 DEF HasText
  <2>9. TypeOK'
    BY <1>1, <1>2, <1>4, <2>4, <2>5 DEF TypeOK
  <2> QED BY <2>6, <2>7, <2>8, <2>9 DEF IInv, ActiveInv
<1>7. CASE ~ (Owns(w, c) /\ stored)
  <2>1. memories' = memories /\ (jobs' = jobs \/ jobs' = [jobs EXCEPT ![c.id] = None])
    BY <1>2, <1>7
  <2>2. /\ jobs' \in [Memories -> Job \cup {None}]
        /\ \A m \in Memories : jobs'[m] = jobs[m] \/ jobs'[m] = None
    BY <1>1, <2>1 DEF TypeOK
  <2>3. \A m \in Memories : memories'[m].status = "active" => JobCurrent(m)' /\ VectorCurrent(m)'
    BY <1>1, <2>1, <2>2 DEF ActiveInv, JobCurrent, VectorCurrent
  <2>4. \A u \in Workers : ClaimCurrent(u)'
    BY <1>1, <1>4, <2>1, <2>2, ClaimsKept
  <2>5. TypeOK'
    BY <1>1, <1>2, <1>4, <2>1, <2>2 DEF TypeOK
  <2> QED BY <1>1, <2>1, <2>3, <2>4, <2>5 DEF IInv, HasText, ActiveInv
<1> QED BY <1>6, <1>7

\* A failure gives the job back with its hash.
LEMMA FailStep ==
    ASSUME IInv, NEW w \in Workers, Fail(w)
    PROVE  IInv'
<1> DEFINE c == claims[w]
           s == IF c.attempts >= MaxAttempts THEN "failed" ELSE "pending"
           j == [jobs[c.id] EXCEPT !.status = s, !.worker = None]
<1>1. TypeOK /\ HasText /\ ActiveInv
  BY DEF IInv
<1>2. /\ c # None /\ claims' = [claims EXCEPT ![w] = None]
      /\ UNCHANGED <<memories, snapshots, versions, pods, rerun, reconcile, stops>>
      /\ jobs' = IF Owns(w, c) THEN [jobs EXCEPT ![c.id] = j] ELSE jobs
  BY DEF Fail
<1>3. c.id \in Memories
  BY <1>1, <1>2 DEF TypeOK, Claimed
<1>4. /\ claims' \in [Workers -> Claimed \cup {None}]
      /\ \A u \in Workers : claims'[u] = claims[u] \/ claims'[u] = None
  BY <1>1, <1>2 DEF TypeOK
<1>5. Owns(w, c) => j \in Job /\ j.hash = jobs[c.id].hash /\ j.status # "processing"
  <2>1. SUFFICES ASSUME Owns(w, c)
                 PROVE  j \in Job /\ j.hash = jobs[c.id].hash /\ j.status # "processing"
    OBVIOUS
  <2>2. jobs[c.id] \in Job
    BY <1>1, <1>3, <2>1 DEF TypeOK, Owns
  <2>3. s \in {"failed", "pending"}
    OBVIOUS
  <2> HIDE DEF s, c
  <2> QED BY <2>2, <2>3 DEF Job
<1> HIDE DEF j
<1>6. /\ jobs' \in [Memories -> Job \cup {None}]
      /\ \A m \in Memories : \/ jobs'[m] = jobs[m]
                             \/ /\ m = c.id /\ Owns(w, c) /\ jobs'[m] = j
  BY <1>1, <1>2, <1>3, <1>5 DEF TypeOK
<1>7. \A m \in Memories : memories[m].status = "active" => JobCurrent(m)' /\ VectorCurrent(m)'
  <2>1. \A m \in Memories : jobs'[m] = jobs[m] \/ (jobs[m] # None /\ jobs'[m].hash = jobs[m].hash)
    BY <1>5, <1>6 DEF Owns
  <2> QED BY <1>1, <1>2, <2>1 DEF ActiveInv, JobCurrent, VectorCurrent
<1>8. \A u \in Workers : ClaimCurrent(u)'
  <2>1. \A m \in Memories : jobs'[m] = jobs[m] \/ jobs'[m].status # "processing"
    BY <1>5, <1>6
  <2> QED BY <1>1, <1>2, <1>4, <2>1, ClaimsKept
<1>9. TypeOK'
  BY <1>1, <1>2, <1>4, <1>6 DEF TypeOK
<1> QED BY <1>1, <1>2, <1>7, <1>8, <1>9 DEF IInv, HasText, ActiveInv

\* A step that changes neither memories nor jobs, and adds no claim.
LEMMA PodStep ==
    ASSUME IInv, UNCHANGED <<memories, jobs>>, TypeOK',
           \A w \in Workers : claims'[w] = claims[w] \/ claims'[w] = None
    PROVE  IInv'
<1>1. TypeOK /\ HasText /\ ActiveInv
  BY DEF IInv
<1>2. \A w \in Workers : ClaimCurrent(w)'
  BY <1>1, ClaimsKept
<1>3. \A m \in Memories : memories'[m].status = "active" => JobCurrent(m)' /\ VectorCurrent(m)'
  BY <1>1 DEF ActiveInv, JobCurrent, VectorCurrent
<1> QED BY <1>1, <1>2, <1>3 DEF IInv, HasText, ActiveInv

\* An answer that is lost changes no table.
LEMMA LoseStep ==
    ASSUME IInv, NEW w \in Workers, Lose(w)
    PROVE  IInv'
<1>1. TypeOK
  BY DEF IInv
<1>2. TypeOK'
  BY <1>1 DEF TypeOK, Lose
<1>3. UNCHANGED <<memories, jobs>> /\ \A u \in Workers : claims'[u] = claims[u] \/ claims'[u] = None
  BY <1>1 DEF TypeOK, Lose
<1> QED BY <1>2, <1>3, PodStep

\* Neither does the start of a pod ...
LEMMA StartStep ==
    ASSUME IInv, NEW p \in Pods, Start(p)
    PROVE  IInv'
<1>1. TypeOK
  BY DEF IInv
<1>2. TypeOK'
  BY <1>1 DEF TypeOK, Start
<1> QED BY <1>2, PodStep DEF Start

\* ... nor its end, with which its claims are forgotten ...
LEMMA StopStep ==
    ASSUME IInv, NEW p \in Pods, Stop(p)
    PROVE  IInv'
<1>1. TypeOK
  BY DEF IInv
<1>2. stops' \in 0 .. MaxStops
  BY <1>1, EmbeddingQueueAssumption DEF TypeOK, Stop
<1>3. /\ claims' \in [Workers -> Claimed \cup {None}]
      /\ \A u \in Workers : claims'[u] = claims[u] \/ claims'[u] = None
  BY <1>1 DEF TypeOK, Stop
<1>4. TypeOK'
  BY <1>1, <1>2, <1>3 DEF TypeOK, Stop
<1> QED BY <1>3, <1>4, PodStep DEF Stop

\* ... nor a reconciliation that has only locked what it clears.
LEMMA ReconcileClearStep ==
    ASSUME IInv, NEW p \in Pods, ReconcileClear(p)
    PROVE  IInv'
<1>1. TypeOK
  BY DEF IInv
<1>2. TypeOK'
  <2>1. reconcile' \in Reconciliation
    BY DEF ReconcileClear, Reconciliation
  <2> QED BY <1>1, <2>1 DEF TypeOK, ReconcileClear
<1> QED BY <1>2, PodStep DEF ReconcileClear

\* ... nor a second one that fails.
LEMMA RerunFailsStep ==
    ASSUME IInv, NEW p \in Pods, RerunFails(p)
    PROVE  IInv'
<1>1. TypeOK
  BY DEF IInv
<1>2. TypeOK'
  BY <1>1 DEF TypeOK, RerunFails
<1> QED BY <1>2, PodStep DEF RerunFails

\* A reconciliation clears vectors and queues current texts only.
LEMMA ReconcileRequeueStep ==
    ASSUME IInv, NEW p \in Pods, ReconcileRequeue(p)
    PROVE  IInv'
<1> DEFINE row(m) == IF m \in reconcile.cleared THEN [memories[m] EXCEPT !.vector = None]
                                                ELSE memories[m]
           stale(job, text) == \/ job = None
                               \/ job.model # ModelOf[p] \/ job.hash # text
                               \/ job.status \in {"completed", "failed"}
           queued(m) == /\ Embeddable(m) /\ row(m).vector = None
                        /\ stale(jobs[m], memories[m].text)
           fresh(m) == Pending(memories[m].text, ModelOf[p])
<1>1. TypeOK /\ HasText /\ ActiveInv
  BY DEF IInv
<1>2. /\ memories' = [m \in Memories |-> row(m)]
      /\ jobs' = [m \in Memories |-> IF queued(m) THEN fresh(m) ELSE jobs[m]]
      /\ reconcile' = None /\ pods' = [pods EXCEPT ![p] = "up"]
      /\ rerun' = [rerun EXCEPT ![p] = (pods[p] = "starting")]
      /\ UNCHANGED <<snapshots, versions, claims, stops>>
  BY DEF ReconcileRequeue
<1>3. ASSUME NEW m \in Memories
      PROVE  /\ row(m) \in Row /\ row(m).text = memories[m].text
             /\ row(m).status = memories[m].status
             /\ row(m).vector = memories[m].vector \/ row(m).vector = None
  <2> DEFINE old == memories[m]
             cleared == [old EXCEPT !.vector = None]
  <2>1. old \in Row
    BY <1>1 DEF TypeOK
  <2> HIDE DEF old
  <2>2. /\ cleared \in Row /\ cleared.text = old.text
        /\ cleared.status = old.status /\ cleared.vector = None
    BY <2>1 DEF Row
  <2>3. row(m) = cleared \/ row(m) = old
    BY DEF old
  <2> HIDE DEF row, cleared
  <2>4. CASE row(m) = cleared
    BY <2>2, <2>4 DEF old
  <2>5. CASE row(m) = old
    BY <2>1, <2>5 DEF old
  <2> QED BY <2>3, <2>4, <2>5
<1>4. ASSUME NEW m \in Memories, queued(m)
      PROVE  fresh(m) \in Job /\ fresh(m).hash = memories[m].text /\ fresh(m).status = "pending"
  <2>1. memories[m].text \in Texts
    BY <1>1, <1>4 DEF HasText, Embeddable
  <2> QED BY <2>1, PendingOK, EmbeddingQueueAssumption
<1> HIDE DEF row, queued, fresh
<1>5. \A m \in Memories : memories'[m] = row(m)
  BY <1>2
<1>6. \A m \in Memories : jobs'[m] = IF queued(m) THEN fresh(m) ELSE jobs[m]
  BY <1>2
<1>7. TypeOK'
  <2>1. memories' \in [Memories -> Row]
    BY <1>2, <1>3
  <2>2. jobs' \in [Memories -> Job \cup {None}]
    BY <1>1, <1>2, <1>4 DEF TypeOK
  <2> QED BY <1>1, <1>2, <2>1, <2>2 DEF TypeOK
<1>8. HasText'
  BY <1>1, <1>3, <1>5 DEF HasText
<1>9. \A m \in Memories : memories'[m].status = "active" => JobCurrent(m)' /\ VectorCurrent(m)'
  BY <1>1, <1>3, <1>4, <1>5, <1>6 DEF ActiveInv, JobCurrent, VectorCurrent
<1>10. \A w \in Workers : ClaimCurrent(w)'
  <2>1. \A m \in Memories : memories'[m].status = memories[m].status
    BY <1>3, <1>5
  <2>2. \A m \in Memories : jobs'[m] = jobs[m] \/ jobs'[m].status # "processing"
    BY <1>4, <1>6
  <2> QED BY <1>1, <1>2, <2>1, <2>2, ClaimsKept
<1> QED BY <1>7, <1>8, <1>9, <1>10 DEF IInv, ActiveInv

-----------------------------------------------------------------------------
\* IInv holds before anything has happened ...
LEMMA InitOK == Init => IInv
<1> SUFFICES ASSUME Init PROVE IInv
  OBVIOUS
<1>1. NoRow \in Row
  BY DEF NoRow, Row, Statuses
<1>2. TypeOK
  BY <1>1, EmbeddingQueueAssumption DEF Init, TypeOK
<1>3. HasText /\ ActiveInv
  BY DEF Init, HasText, ActiveInv, NoRow, ClaimCurrent
<1> QED BY <1>2, <1>3 DEF IInv

\* ... and every step keeps it.
LEMMA NextOK == IInv /\ [Next]_vars => IInv'
<1> SUFFICES ASSUME IInv, [Next]_vars PROVE IInv'
  OBVIOUS
<1>1. CASE UNCHANGED vars
  <2>1. TypeOK'
    BY <1>1 DEF IInv, TypeOK, vars
  <2> QED BY <1>1, <2>1, PodStep DEF vars
<1>2. ASSUME NEW p \in Pods, NEW m \in Memories, NEW t \in Texts, Put(p, m, t) \/ Patch(p, m, t)
      PROVE  IInv'
  BY <1>2, PutStep, PatchStep
<1>3. ASSUME NEW p \in Pods, NEW m \in Memories, NEW status \in {"deleted", "refuted"},
             Mark(p, m, status)
      PROVE  IInv'
  BY <1>3, MarkStep
<1>4. ASSUME NEW p \in Pods, NEW m \in Memories, NEW snapshot \in snapshots[m],
             Restore(p, m, snapshot)
      PROVE  IInv'
  BY <1>4, RestoreStep
<1>5. ASSUME NEW w \in Workers, NEW m \in Memories, Claim(w, m) PROVE IInv'
  BY <1>5, ClaimStep
<1>6. ASSUME NEW w \in Workers, Complete(w) \/ Fail(w) \/ Lose(w) PROVE IInv'
  BY <1>6, CompleteStep, FailStep, LoseStep
<1>7. ASSUME NEW p \in Pods,
             \/ Start(p) \/ Stop(p)
             \/ ReconcileClear(p) \/ ReconcileRequeue(p) \/ RerunFails(p)
      PROVE  IInv'
  BY <1>7, StartStep, StopStep, ReconcileClearStep, ReconcileRequeueStep, RerunFailsStep
<1> QED BY <1>1, <1>2, <1>3, <1>4, <1>5, <1>6, <1>7 DEF Next

\* What is true of every reachable state.
THEOREM Invariant == Spec => []IInv
BY InitOK, NextOK, PTL DEF Spec

\* Memories, jobs, claims and pods are always well typed.
THEOREM TypeCorrect == Spec => []TypeOK
<1>1. IInv => TypeOK
  BY DEF IInv
<1> QED BY <1>1, Invariant, PTL

\* Whatever edits, takeovers, restarts and reconciliations came between a claim
\* and its completion, the vector of an active memory is of its current text.
THEOREM VectorsCurrent == Spec => []ActiveVectorCurrent
<1>1. IInv => ActiveVectorCurrent
  BY DEF IInv, ActiveInv, VectorCurrent, ActiveVectorCurrent
<1> QED BY <1>1, Invariant, PTL

-----------------------------------------------------------------------------
(* Finite sets in an order.  The operators of the model take the order as an *)
(* operator; what they come to is stated for the function below that gives  *)
(* the elements before each element.                                        *)

Linear(S, below) ==
    /\ below \in [S -> SUBSET S]
    /\ \A x \in S : x \notin below[x]
    /\ \A x, y \in S : y \in below[x] => below[y] \subseteq below[x]
    /\ \A x, y \in S : x = y \/ x \in below[y] \/ y \in below[x]

Rank(S, below) == [x \in S |-> Cardinality(below[x])]

\* The places of the elements are 0, 1 and so on, each taken once.
LEMMA Ranks ==
    ASSUME NEW S, IsFiniteSet(S), NEW below, Linear(S, below)
    PROVE  /\ Cardinality(S) \in Nat
           /\ Rank(S, below) \in Bijection(S, 0 .. Cardinality(S) - 1)
           /\ \A x \in S : Cardinality(below[x]) \in Nat
           /\ \A x, y \in S : y \in below[x] => Cardinality(below[y]) < Cardinality(below[x])
<1> DEFINE places == 0 .. Cardinality(S) - 1
           rank == Rank(S, below)
<1>1. Cardinality(S) \in Nat
  BY FS_CardinalityType
<1>2. ASSUME NEW x \in S PROVE IsFiniteSet(below[x]) /\ Cardinality(below[x]) \in Nat
  BY FS_Subset, FS_CardinalityType DEF Linear
<1>3. ASSUME NEW x \in S, NEW T, IsFiniteSet(T), below[x] \subseteq T, below[x] # T
      PROVE  Cardinality(below[x]) < Cardinality(T)
  <2>1. below[x] \in SUBSET T
    BY <1>3
  <2>2. Cardinality(T) \in Nat /\ Cardinality(below[x]) \in Nat
    BY <1>2, <1>3, FS_CardinalityType
  <2> QED BY <1>3, <2>1, <2>2, FS_Subset
<1>4. ASSUME NEW x \in S, NEW y \in S, y \in below[x]
      PROVE  Cardinality(below[y]) < Cardinality(below[x])
  <2>1. below[y] \subseteq below[x] /\ y \notin below[y]
    BY <1>4 DEF Linear
  <2> QED BY <1>2, <1>3, <1>4, <2>1
<1>5. ASSUME NEW x \in S PROVE Cardinality(below[x]) \in places
  <2>1. below[x] \subseteq S /\ x \notin below[x]
    BY DEF Linear
  <2>2. Cardinality(below[x]) < Cardinality(S)
    BY <1>3, <2>1
  <2> QED BY <1>1, <1>2, <2>2
<1>6. rank \in [S -> places]
  BY <1>5 DEF Rank
<1>7. ASSUME NEW x \in S, NEW y \in S, rank[x] = rank[y] PROVE x = y
  <2>1. Cardinality(below[x]) = Cardinality(below[y])
    BY <1>7 DEF Rank
  <2>2. x = y \/ x \in below[y] \/ y \in below[x]
    BY DEF Linear
  <2> QED BY <1>2, <1>4, <2>1, <2>2
<1>8. rank \in Injection(S, places)
  BY <1>6, <1>7 DEF Injection, IsInjective
<1>9. IsFiniteSet(places) /\ Cardinality(places) = Cardinality(S)
  BY <1>1, FS_Interval
<1> HIDE DEF places, rank
<1>10. rank \in Surjection(S, places)
  BY <1>8, <1>9, FS_Injection
<1> QED BY <1>1, <1>2, <1>4, <1>8, <1>10 DEF Bijection, places, rank

\* The elements at the first n places are n, or all there are.
LEMMA FirstPlaces ==
    ASSUME NEW S, IsFiniteSet(S), NEW below, Linear(S, below), NEW n \in Nat
    PROVE  LET first == {x \in S : Cardinality(below[x]) < n} IN
           /\ IsFiniteSet(first) /\ Cardinality(first) \in 0 .. n
           /\ first = S \/ Cardinality(first) = n
           /\ Cardinality(S) <= n => first = S
           /\ \A x \in first : below[x] \subseteq first
<1> DEFINE first == {x \in S : Cardinality(below[x]) < n}
           rank == Rank(S, below)
           places == 0 .. Cardinality(S) - 1
<1>1. /\ Cardinality(S) \in Nat /\ rank \in Bijection(S, places)
      /\ \A x \in S : Cardinality(below[x]) \in Nat /\ rank[x] = Cardinality(below[x])
      /\ \A x, y \in S : y \in below[x] => Cardinality(below[y]) < Cardinality(below[x])
  BY Ranks DEF Rank
<1>2. /\ rank \in [S -> places]
      /\ \A x, y \in S : rank[x] = rank[y] => x = y
      /\ \A i \in places : \E x \in S : rank[x] = i
  BY <1>1 DEF Bijection, Injection, IsInjective, Surjection
<1>3. \A x \in first : below[x] \subseteq first
  <2> SUFFICES ASSUME NEW x \in first, NEW y \in below[x] PROVE y \in first
    OBVIOUS
  <2>1. y \in S /\ Cardinality(below[y]) < Cardinality(below[x])
    BY <1>1 DEF Linear
  <2> QED BY <1>1, <2>1
<1>4. IsFiniteSet(first) /\ Cardinality(first) \in Nat /\ Cardinality(first) <= Cardinality(S)
  BY FS_Subset, FS_CardinalityType
<1>5. CASE Cardinality(S) <= n
  <2>1. \A x \in S : Cardinality(below[x]) < n
    BY <1>1, <1>2, <1>5
  <2>2. first = S
    BY <2>1
  <2> QED BY <1>1, <1>3, <1>4, <1>5, <2>2
<1>6. CASE ~(Cardinality(S) <= n)
  <2> DEFINE f == [x \in first |-> rank[x]]
             range == 0 .. n - 1
  <2>1. \A x \in first : rank[x] \in range
    BY <1>1
  <2>2. \A i \in range : \E x \in first : rank[x] = i
    <3> SUFFICES ASSUME NEW i \in range PROVE \E x \in first : rank[x] = i
      OBVIOUS
    <3>1. PICK x \in S : rank[x] = i
      BY <1>1, <1>2, <1>6
    <3> QED BY <1>1, <3>1
  <2> HIDE DEF rank, first, range
  <2>3. f \in [first -> range] /\ (\A x, y \in first : f[x] = f[y] => x = y) /\ \A i \in range : \E x \in first : f[x] = i
    BY <1>2, <2>1, <2>2 DEF first
  <2> HIDE DEF f
  <2>4. f \in Bijection(first, range)
    BY <2>3 DEF Bijection, Injection, IsInjective, Surjection
  <2>5. IsFiniteSet(range) /\ Cardinality(range) = n
    BY FS_Interval DEF range
  <2>6. ExistsBijection(first, range)
    BY <2>4 DEF ExistsBijection
  <2>7. Cardinality(first) = n
    BY <1>4, <2>5, <2>6, FS_Bijection
  <2> QED BY <1>3, <1>4, <1>6, <2>7 DEF first
<1> QED BY <1>5, <1>6

\* A place for each of the numbers, and a sequence with each element at its place.
LEMMA PlacesAreTaken ==
    ASSUME NEW S, IsFiniteSet(S), NEW below, Linear(S, below), NEW i \in 1 .. Cardinality(S)
    PROVE  \E x \in S : Cardinality(below[x]) = i - 1
<1> DEFINE n == Cardinality(S)
           rank == Rank(S, below)
<1>1. n \in Nat /\ rank \in Bijection(S, 0 .. n - 1) /\ \A x \in S : rank[x] = Cardinality(below[x])
  BY Ranks DEF Rank
<1> HIDE DEF n, rank
<1>2. i - 1 \in 0 .. n - 1
  BY <1>1 DEF n
<1>3. \E x \in S : rank[x] = i - 1
  BY <1>1, <1>2 DEF Bijection, Surjection
<1> QED BY <1>1, <1>3

LEMMA EachAtItsPlace ==
    ASSUME NEW S, IsFiniteSet(S), NEW below, Linear(S, below),
           NEW q \in [1 .. Cardinality(S) -> S],
           \A i \in 1 .. Cardinality(S) : q[i] \in S /\ Cardinality(below[q[i]]) = i - 1
    PROVE  /\ Cardinality(S) \in Nat /\ q \in Seq(S) /\ Len(q) = Cardinality(S)
           /\ \A x \in S : \E i \in 1 .. Len(q) : q[i] = x
           /\ \A i, j \in 1 .. Len(q) : i < j => q[i] \in below[q[j]]
<1> DEFINE n == Cardinality(S)
           rank == Rank(S, below)
<1>1. /\ n \in Nat /\ rank \in Bijection(S, 0 .. n - 1)
      /\ \A x \in S : Cardinality(below[x]) \in Nat /\ rank[x] = Cardinality(below[x])
      /\ \A x, y \in S : y \in below[x] => Cardinality(below[y]) < Cardinality(below[x])
  BY Ranks DEF Rank
<1>3. \A i \in 1 .. n : q[i] \in S /\ Cardinality(below[q[i]]) = i - 1
  OBVIOUS
<1>0. q \in [1 .. n -> S]
  OBVIOUS
<1> HIDE DEF n
<1>2. /\ \A x \in S : Cardinality(below[x]) \in 0 .. n - 1
      /\ \A x, y \in S : Cardinality(below[x]) = Cardinality(below[y]) => x = y
  BY <1>1 DEF Bijection, Injection, IsInjective, Surjection
<1>4. q \in Seq(S) /\ Len(q) = n
  BY <1>0, <1>1
<1>5. ASSUME NEW x \in S PROVE \E i \in 1 .. n : q[i] = x
  <2>1. PICK i \in 1 .. n : Cardinality(below[x]) = i - 1
    <3>1. Cardinality(below[x]) \in 0 .. n - 1
      BY <1>2
    <3>2. Cardinality(below[x]) + 1 \in 1 .. n /\ Cardinality(below[x]) = (Cardinality(below[x]) + 1) - 1
      BY <1>1, <3>1
    <3> QED BY <3>2
  <2>2. q[i] \in S /\ Cardinality(below[q[i]]) = Cardinality(below[x])
    BY <1>3, <2>1
  <2> QED BY <1>2, <2>2
<1>6. ASSUME NEW i \in 1 .. n, NEW j \in 1 .. n, i < j PROVE q[i] \in below[q[j]]
  <2>1. /\ q[i] \in S /\ q[j] \in S
        /\ Cardinality(below[q[i]]) = i - 1 /\ Cardinality(below[q[j]]) = j - 1
    BY <1>3
  <2>2. q[i] = q[j] \/ q[i] \in below[q[j]] \/ q[j] \in below[q[i]]
    BY <2>1 DEF Linear
  <2> QED BY <1>1, <1>6, <2>1, <2>2
<1> QED BY <1>1, <1>4, <1>5, <1>6 DEF n

-----------------------------------------------------------------------------
(* The invariant. *)

\* A row as a statement sees it now, and a memory nobody has written or lets expire.
CandidateOf(r) == [row |-> r, text |-> table[r].text, stamp |-> table[r].stamp]
Steady(m) == table[m].visible /\ m \notin touched

\* A row has one write at a time, and the clock does not go back: the next version of
\* a row is no older than this one.
StampInv ==
    \A r \in Rows :
        /\ table[r].stamp <= clock
        /\ pending[r] # Nothing => table[r].stamp <= pending[r].stamp /\ pending[r].stamp <= clock

\* What the pages of a listing have so far: rows that have since moved to the front,
\* if anywhere, in order up to the cursor, and every row up to there that stayed.
WalkInv ==
    /\ \A i \in DOMAIN listed :
          listed[i].row \in MemoryRows /\ listed[i].stamp <= table[listed[i].row].stamp
    /\ \A i, j \in DOMAIN listed : i < j =>
          listed[i].row # listed[j].row /\ Newer(listed[i], listed[j])
    /\ phase \notin {"walking", "walked"} => listed = <<>> /\ cursor = Nothing
    /\ phase = "walking" => Len(listed) > 0 /\ cursor = listed[Len(listed)]
    /\ \A m \in MemoryRows :
          Steady(m) /\ (phase = "walked" \/ (phase = "walking" /\ ~After(cursor, CandidateOf(m))))
              => \E i \in DOMAIN listed : listed[i].row = m

OnePerRow(S) == \A x, y \in S : x.row = y.row => x = y

\* The statements of the search under way: the candidates of each are of one table,
\* each row once, and have the memories that match and stay, up to CandidateLimit.
ReadInv ==
    /\ read = [s \in Statements |-> read[s]]
    /\ \A c \in Channels, part \in Parts : read[<<c, part>>] # Nothing =>
          /\ read[<<c, part>>] \subseteq {x \in Candidate : x.row \in RowsOf(part)}
          /\ IsFiniteSet(read[<<c, part>>]) /\ Cardinality(read[<<c, part>>]) <= CandidateLimit
          /\ OnePerRow(read[<<c, part>>])
    /\ \A m \in MemoryRows, c \in Channels \ {"semantic"} :
          /\ Steady(m) /\ Hits[table[m].text][c] > 0
          /\ at <= Len(Selectors) /\ m \in Selectors[at] /\ read[<<c, "memory">>] # Nothing
          => CandidateOf(m) \in read[<<c, "memory">>] \/ Cardinality(read[<<c, "memory">>]) = CandidateLimit

Result == [row: Rows, stamp: Nat, relevance: 0 .. MaxRelevance, rrf: Nat, final: 0 .. MaxFinal]
MemoriesIn(hits) == {r \in MemoryRows : \E h \in hits : h.row = r}

\* A text channel that matches m and did not fill up would have brought it.
Missed(m) == \A c \in Channels \ {"semantic"} : Hits[table[m].text][c] > 0 => c \in full

\* The results of the searches so far: each memory once, and every memory that
\* matches and stays, short of Limit memories or of a channel with room.
ResultInv ==
    /\ results \subseteq Result /\ IsFiniteSet(results)
    /\ \A g, h \in results : g.row \in MemoryRows /\ g.row = h.row => g = h
    /\ phase \in {"idle", "walking", "walked"} => at = 1 /\ read = NotRead /\ results = {}
    /\ phase = "recalling" =>
          \A m \in MemoryRows, i \in 1 .. at - 1 : Steady(m) /\ m \in Selectors[i] =>
              \/ m \in MemoriesIn(results)
              \/ Cardinality(MemoriesIn(results)) >= Limit
              \/ Missed(m)

SearchInv ==
    /\ SearchTypeOK
    /\ StampInv
    /\ WalkInv
    /\ ReadInv
    /\ ResultInv
    /\ SteadyIsRecalled

-----------------------------------------------------------------------------
(* The orders of the model. *)

\* What the constants are assumed to be, as the lemmas below need it.
LEMMA Bounds ==
    /\ Rows \subseteq Nat /\ MemoryRows \subseteq Rows /\ ChunkRows \subseteq Rows
    /\ \A m \in MemoryRows : m \notin ChunkRows
    /\ IsFiniteSet(Rows) /\ IsFiniteSet(MemoryRows)
    /\ Limit \in Nat \ {0} /\ PageLimit \in Nat \ {0} /\ CandidateLimit \in Nat \ {0}
    /\ Len(Selectors) \in Nat /\ \A i \in 1 .. Len(Selectors) : Selectors[i] \subseteq Rows
    /\ \A text \in RowTexts : Hits[text] \in Scores
<1>1. MemoryRows \subseteq Rows /\ ChunkRows \subseteq Rows /\ Rows \subseteq Nat
  BY MemorySearchAssumption DEF Rows
<1>2. IsFiniteSet(MemoryRows)
  BY <1>1, MemorySearchAssumption, FS_Subset
<1>3. \A m \in MemoryRows : m \notin ChunkRows
  BY MemorySearchAssumption
<1> QED BY <1>1, <1>2, <1>3, MemorySearchAssumption

Dated(S) == \A x \in S : x.row \in Nat /\ x.stamp \in Nat

\* Among candidates of different rows the orders are linear.
LEMMA NewerIsLinear ==
    ASSUME NEW S, Dated(S), OnePerRow(S)
    PROVE  Linear(S, [x \in S |-> {y \in S : Newer(y, x)}])
<1> DEFINE below == [x \in S |-> {y \in S : Newer(y, x)}]
<1>1. \A x \in S : ~Newer(x, x)
  BY DEF Newer, Dated
<1>2. \A x, y, z \in S : Newer(x, y) /\ Newer(y, z) => Newer(x, z)
  BY DEF Newer, Dated
<1>3. \A x, y \in S : x = y \/ Newer(x, y) \/ Newer(y, x)
  BY DEF Newer, Dated, OnePerRow
<1> QED BY <1>1, <1>2, <1>3 DEF Linear

Scored(c, S) == \A x \in S : Score(c, x) \in Int

LEMMA LeadsIsLinear ==
    ASSUME NEW S, Dated(S), OnePerRow(S), NEW c, Scored(c, S)
    PROVE  Linear(S, [x \in S |-> {y \in S : LeadsIn(c, y, x)}])
<1>1. \A x \in S : ~LeadsIn(c, x, x)
  BY DEF Scored, LeadsIn, Newer, Dated
<1>2. \A x, y, z \in S : LeadsIn(c, x, y) /\ LeadsIn(c, y, z) => LeadsIn(c, x, z)
  BY DEF Scored, LeadsIn, Newer, Dated
<1>3. \A x, y \in S : x = y \/ LeadsIn(c, x, y) \/ LeadsIn(c, y, x)
  BY DEF Scored, LeadsIn, Newer, Dated, OnePerRow
<1> QED BY <1>1, <1>2, <1>3 DEF Linear

\* A result, field by field.
LEMMA ResultFields ==
    ASSUME NEW x \in Result
    PROVE  /\ x.row \in Rows /\ x.row \in Nat /\ x.stamp \in Nat /\ x.rrf \in Nat
           /\ x.relevance \in Nat /\ x.final \in Nat /\ x.final \in 0 .. MaxFinal
<1>1. Rows \subseteq Nat
  BY Bounds
<1>2. MaxRelevance \in Nat /\ MaxFinal \in Nat
  BY SMT DEF MaxRelevance, MaxFinal
<1>3. x.row \in Rows /\ x.stamp \in Nat /\ x.rrf \in Nat
  BY DEF Result
<1>4. x.relevance \in 0 .. MaxRelevance /\ x.final \in 0 .. MaxFinal
  BY DEF Result
<1>5. x.row \in Nat
  BY <1>1, <1>3
<1>6. x.relevance \in Nat /\ x.final \in Nat
  BY <1>2, <1>4
<1> QED BY <1>3, <1>4, <1>5, <1>6

\* So are the orders of fuseCandidates and of sortRecallResults.
LEMMA FusedIsLinear ==
    ASSUME NEW S \in SUBSET Result, OnePerRow(S)
    PROVE  Linear(S, [x \in S |-> {y \in S : FusedBefore(y, x)}])
<1>1. \A x \in S : x.row \in Nat /\ x.stamp \in Nat /\ x.relevance \in Nat /\ x.rrf \in Nat /\ x.final \in Nat
  BY ResultFields
<1>2. \A x \in S : ~FusedBefore(x, x)
  BY <1>1 DEF FusedBefore, Newer
<1>3. \A x, y, z \in S : FusedBefore(x, y) /\ FusedBefore(y, z) => FusedBefore(x, z)
  BY <1>1 DEF FusedBefore, Newer
<1>4. \A x, y \in S : x = y \/ FusedBefore(x, y) \/ FusedBefore(y, x)
  BY <1>1 DEF FusedBefore, Newer, OnePerRow
<1> QED BY <1>2, <1>3, <1>4 DEF Linear

LEMMA RecallIsLinear ==
    ASSUME NEW S \in SUBSET Result, OnePerRow(S)
    PROVE  Linear(S, [x \in S |-> {y \in S : RecallBefore(y, x)}])
<1>1. \A x \in S : x.row \in Nat /\ x.relevance \in Nat /\ x.final \in Nat
  BY ResultFields
<1>2. \A x \in S : ~RecallBefore(x, x)
  BY <1>1 DEF RecallBefore
<1>3. \A x, y, z \in S : RecallBefore(x, y) /\ RecallBefore(y, z) => RecallBefore(x, z)
  BY <1>1 DEF RecallBefore
<1>4. \A x, y \in S : x = y \/ RecallBefore(x, y) \/ RecallBefore(y, x)
  BY <1>1 DEF RecallBefore, OnePerRow
<1> QED BY <1>2, <1>3, <1>4 DEF Linear

\* First and InOrder for each of the orders.
FirstNewer(S, n) == {x \in S : Cardinality({y \in S : Newer(y, x)}) < n}
FirstLeading(c, S, n) == {x \in S : Cardinality({y \in S : LeadsIn(c, y, x)}) < n}
FirstFused(S, n) == {x \in S : Cardinality({y \in S : FusedBefore(y, x)}) < n}
FirstRecalled(S, n) == {x \in S : Cardinality({y \in S : RecallBefore(y, x)}) < n}
InNewerOrder(S) ==
    [i \in 1 .. Cardinality(S) |-> CHOOSE x \in S : Cardinality({y \in S : Newer(y, x)}) = i - 1]
InRecallOrder(S) ==
    [i \in 1 .. Cardinality(S) |-> CHOOSE x \in S : Cardinality({y \in S : RecallBefore(y, x)}) = i - 1]

\* What is left of S after a limit n: n of its elements, or all of them.
Limited(first, S, n) ==
    /\ first \subseteq S /\ IsFiniteSet(first) /\ Cardinality(first) \in 0 .. n
    /\ first = S \/ Cardinality(first) = n
    /\ Cardinality(S) <= n => first = S

\* A limit keeps n of the rows or all of them; LIMIT after ORDER BY keeps the newest.
LEMMA NewestFirst ==
    ASSUME NEW S, IsFiniteSet(S), Dated(S), OnePerRow(S), NEW n \in Nat
    PROVE  /\ Limited(FirstNewer(S, n), S, n)
           /\ \A x \in FirstNewer(S, n), y \in S : Newer(y, x) => y \in FirstNewer(S, n)
<1> DEFINE below == [x \in S |-> {y \in S : Newer(y, x)}]
           first == {x \in S : Cardinality(below[x]) < n}
<1>1. FirstNewer(S, n) = first
  BY DEF FirstNewer
<1>2. Linear(S, below)
  BY NewerIsLinear
<1> HIDE DEF below
<1>3. /\ IsFiniteSet(first) /\ Cardinality(first) \in 0 .. n
      /\ first = S \/ Cardinality(first) = n
      /\ Cardinality(S) <= n => first = S
      /\ \A x \in first : below[x] \subseteq first
  BY <1>2, FirstPlaces
<1>4. \A x \in first, y \in S : Newer(y, x) => y \in first
  BY <1>3 DEF below
<1> HIDE DEF first
<1>5. first \subseteq S
  BY DEF first
<1> QED BY <1>1, <1>3, <1>4, <1>5 DEF Limited

\* A limit in the order of a channel.
LEMMA LeadersFirst ==
    ASSUME NEW S, IsFiniteSet(S), Dated(S), OnePerRow(S), NEW c, Scored(c, S),
           NEW n \in Nat
    PROVE  Limited(FirstLeading(c, S, n), S, n)
<1> DEFINE below == [x \in S |-> {y \in S : LeadsIn(c, y, x)}]
           first == {x \in S : Cardinality(below[x]) < n}
<1>1. FirstLeading(c, S, n) = first
  BY DEF FirstLeading
<1>2. Linear(S, below)
  BY LeadsIsLinear
<1> HIDE DEF below
<1>3. /\ IsFiniteSet(first) /\ Cardinality(first) \in 0 .. n
      /\ first = S \/ Cardinality(first) = n
      /\ Cardinality(S) <= n => first = S
  BY <1>2, FirstPlaces
<1>4. first \subseteq S
  OBVIOUS
<1> HIDE DEF first
<1> QED BY <1>1, <1>3, <1>4 DEF Limited

\* A limit in the order of fuseCandidates.
LEMMA BestFusedFirst ==
    ASSUME NEW S \in SUBSET Result, IsFiniteSet(S), OnePerRow(S), NEW n \in Nat
    PROVE  Limited(FirstFused(S, n), S, n)
<1> DEFINE below == [x \in S |-> {y \in S : FusedBefore(y, x)}]
           first == {x \in S : Cardinality(below[x]) < n}
<1>1. FirstFused(S, n) = first
  BY DEF FirstFused
<1>2. Linear(S, below)
  BY FusedIsLinear
<1> HIDE DEF below
<1>3. /\ IsFiniteSet(first) /\ Cardinality(first) \in 0 .. n
      /\ first = S \/ Cardinality(first) = n
      /\ Cardinality(S) <= n => first = S
  BY <1>2, FirstPlaces
<1>4. first \subseteq S
  OBVIOUS
<1> HIDE DEF first
<1> QED BY <1>1, <1>3, <1>4 DEF Limited

\* A limit in the order of the answer.
LEMMA BestRecalledFirst ==
    ASSUME NEW S \in SUBSET Result, IsFiniteSet(S), OnePerRow(S), NEW n \in Nat
    PROVE  Limited(FirstRecalled(S, n), S, n)
<1> DEFINE below == [x \in S |-> {y \in S : RecallBefore(y, x)}]
           first == {x \in S : Cardinality(below[x]) < n}
<1>1. FirstRecalled(S, n) = first
  BY DEF FirstRecalled
<1>2. Linear(S, below)
  BY RecallIsLinear
<1> HIDE DEF below
<1>3. /\ IsFiniteSet(first) /\ Cardinality(first) \in 0 .. n
      /\ first = S \/ Cardinality(first) = n
      /\ Cardinality(S) <= n => first = S
  BY <1>2, FirstPlaces
<1>4. first \subseteq S
  OBVIOUS
<1> HIDE DEF first
<1> QED BY <1>1, <1>3, <1>4 DEF Limited

\* A page in the order of the listing.
LEMMA AllByAge ==
    ASSUME NEW S, IsFiniteSet(S), Dated(S), OnePerRow(S)
    PROVE  LET q == InNewerOrder(S) IN
           /\ q \in Seq(S) /\ Len(q) = Cardinality(S) /\ Cardinality(S) \in Nat
           /\ \A x \in S : \E i \in 1 .. Len(q) : q[i] = x
           /\ \A i, j \in 1 .. Len(q) : i < j => Newer(q[i], q[j])
<1> DEFINE below == [x \in S |-> {y \in S : Newer(y, x)}]
           q == InNewerOrder(S)
<1>1. Linear(S, below)
  BY NewerIsLinear
<1>2. \A x \in S : below[x] = {y \in S : Newer(y, x)}
  OBVIOUS
<1> HIDE DEF below
<1>3. ASSUME NEW i \in 1 .. Cardinality(S) PROVE q[i] \in S /\ Cardinality(below[q[i]]) = i - 1
  <2>1. PICK x \in S : Cardinality(below[x]) = i - 1
    BY <1>1, PlacesAreTaken
  <2>2. Cardinality({y \in S : Newer(y, x)}) = i - 1
    BY <1>2, <2>1
  <2>3. q[i] \in S /\ Cardinality({y \in S : Newer(y, q[i])}) = i - 1
    BY <2>2 DEF InNewerOrder
  <2> QED BY <1>2, <2>3
<1>4. q \in [1 .. Cardinality(S) -> S]
  BY <1>3 DEF InNewerOrder
<1> HIDE DEF q
<1>5. /\ Cardinality(S) \in Nat /\ q \in Seq(S) /\ Len(q) = Cardinality(S)
      /\ \A x \in S : \E i \in 1 .. Len(q) : q[i] = x
      /\ \A i, j \in 1 .. Len(q) : i < j => q[i] \in below[q[j]]
  BY <1>1, <1>3, <1>4, EachAtItsPlace
<1>6. \A i, j \in 1 .. Len(q) : i < j => Newer(q[i], q[j])
  BY <1>2, <1>3, <1>5
<1> QED BY <1>5, <1>6 DEF q

\* An answer in the order of its scores.
LEMMA AllByScore ==
    ASSUME NEW S \in SUBSET Result, IsFiniteSet(S), OnePerRow(S)
    PROVE  LET q == InRecallOrder(S) IN
           /\ q \in Seq(S) /\ Len(q) = Cardinality(S) /\ Cardinality(S) \in Nat
           /\ \A x \in S : \E i \in 1 .. Len(q) : q[i] = x
<1> DEFINE below == [x \in S |-> {y \in S : RecallBefore(y, x)}]
           q == InRecallOrder(S)
<1>1. Linear(S, below)
  BY RecallIsLinear
<1>2. \A x \in S : below[x] = {y \in S : RecallBefore(y, x)}
  OBVIOUS
<1> HIDE DEF below
<1>3. ASSUME NEW i \in 1 .. Cardinality(S) PROVE q[i] \in S /\ Cardinality(below[q[i]]) = i - 1
  <2>1. PICK x \in S : Cardinality(below[x]) = i - 1
    BY <1>1, PlacesAreTaken
  <2>2. Cardinality({y \in S : RecallBefore(y, x)}) = i - 1
    BY <1>2, <2>1
  <2>3. q[i] \in S /\ Cardinality({y \in S : RecallBefore(y, q[i])}) = i - 1
    BY <2>2 DEF InRecallOrder
  <2> QED BY <1>2, <2>3
<1>4. q \in [1 .. Cardinality(S) -> S]
  BY <1>3 DEF InRecallOrder
<1> HIDE DEF q
<1>5. /\ Cardinality(S) \in Nat /\ q \in Seq(S) /\ Len(q) = Cardinality(S)
      /\ \A x \in S : \E i \in 1 .. Len(q) : q[i] = x
      /\ \A i, j \in 1 .. Len(q) : i < j => q[i] \in below[q[j]]
  BY <1>1, <1>3, <1>4, EachAtItsPlace
<1> QED BY <1>5 DEF q

-----------------------------------------------------------------------------
(* The scores of a fused result. *)

\* The reciprocal rank of a place is greatest at the first one.
LEMMA Quotients ==
    ASSUME NEW a \in Nat, NEW d \in Nat \ {0}, NEW b \in Nat, a < d * (b + 1)
    PROVE  a \div d \in Nat /\ a \div d <= b
BY SMT

\* The reciprocal ranks, by the weight of the channel.
LEMMA Places ==
    ASSUME NEW k \in Nat
    PROVE  /\ (40 * 10000) \div (61 + k) \in Nat /\ (40 * 10000) \div (61 + k) <= 6557
           /\ (20 * 10000) \div (61 + k) \in Nat /\ (20 * 10000) \div (61 + k) <= 3278
           /\ (15 * 10000) \div (61 + k) \in Nat /\ (15 * 10000) \div (61 + k) <= 2459
           /\ (10 * 10000) \div (61 + k) \in Nat /\ (10 * 10000) \div (61 + k) <= 1639
<1> DEFINE d == 61 + k
<1>1. d \in Nat \ {0}
  BY SMT
<1>2. /\ 40 * 10000 < d * (6557 + 1) /\ 20 * 10000 < d * (3278 + 1)
      /\ 15 * 10000 < d * (2459 + 1) /\ 10 * 10000 < d * (1639 + 1)
  BY SMT
<1>3. /\ 40 * 10000 \in Nat /\ 20 * 10000 \in Nat /\ 15 * 10000 \in Nat /\ 10 * 10000 \in Nat
      /\ 6557 \in Nat /\ 3278 \in Nat /\ 2459 \in Nat /\ 1639 \in Nat
  BY SMT
<1> HIDE DEF d
<1>4. (40 * 10000) \div d \in Nat /\ (40 * 10000) \div d <= 6557
  BY <1>1, <1>2, <1>3, Quotients, SMT
<1>5. (20 * 10000) \div d \in Nat /\ (20 * 10000) \div d <= 3278
  BY <1>1, <1>2, <1>3, Quotients, SMT
<1>6. (15 * 10000) \div d \in Nat /\ (15 * 10000) \div d <= 2459
  BY <1>1, <1>2, <1>3, Quotients, SMT
<1>7. (10 * 10000) \div d \in Nat /\ (10 * 10000) \div d <= 1639
  BY <1>1, <1>2, <1>3, Quotients, SMT
<1> QED BY <1>4, <1>5, <1>6, <1>7, SMT DEF d

\* A finite set has a greatest element; here one of three.
LEMMA BestOfThree ==
    ASSUME NEW a \in Int, NEW b \in Int, NEW c \in Int
    PROVE  LET of == {a, b, c}
               best == CHOOSE x \in of : \A o \in of : o <= x
           IN  best \in of /\ \A o \in of : o <= best
<1> DEFINE of == {a, b, c}
<1>1. \E best \in of : \A o \in of : o <= best
  <2>1. CASE b <= a /\ c <= a
    BY <2>1
  <2>2. CASE a <= b /\ c <= b
    BY <2>2
  <2>3. CASE a <= c /\ b <= c
    BY <2>3
  <2> QED BY <2>1, <2>2, <2>3
<1> QED BY <1>1

\* The best of a row's channels is at most one, in ten-thousandths.
LEMMA BestChannelBounds ==
    ASSUME NEW substring \in Nat, substring <= 1000, NEW lexical \in Nat, lexical <= 1000,
           NEW semantic \in Int, semantic <= 1000
    PROVE  LET best == BestChannel(substring, lexical, semantic) IN best \in Nat /\ best <= 10000
<1> DEFINE a == IF substring >= 500 THEN 5500 + 4 * substring
                ELSE IF substring > 0 THEN 3000 + 5 * substring ELSE 0
           b == IF lexical > 0 THEN 5000 + (45 * lexical) \div 10 ELSE 0
           c == 10 * semantic
           of == {a, b, c}
           best == CHOOSE x \in of : \A o \in of : o <= x
<1>1. a \in Nat /\ a <= 10000 /\ c \in Int /\ c <= 10000
  BY SMT
<1>2. b \in Nat /\ b <= 10000
  BY SMT
<1>3. BestChannel(substring, lexical, semantic) = best
  BY DEF BestChannel
<1> HIDE DEF a, b, c
<1>4. a \in Int /\ b \in Int /\ c \in Int
  BY <1>1, <1>2, SMT
<1>5. best \in of /\ \A o \in of : o <= best
  BY <1>4, BestOfThree
<1> HIDE DEF best
<1>6. (best = a \/ best = b \/ best = c) /\ a <= best
  BY <1>5
<1>7. best \in Nat /\ best <= 10000
  BY <1>1, <1>2, <1>6, SMT
<1> QED BY <1>3, <1>7

\* hybridRelevance stays within 0 and 1: its clamps change nothing.
LEMMA RelevanceBounds ==
    ASSUME NEW exact \in Nat, exact <= 50, NEW substring \in Nat, substring <= 1000,
           NEW lexical \in Nat, lexical <= 1000, NEW semantic \in Int, semantic <= 1000,
           NEW rrf \in Nat, rrf <= 13933
    PROVE  LET relevance == Relevance(exact, substring, lexical, semantic, rrf) IN
           relevance \in Nat /\ relevance <= MaxRelevance
<1> DEFINE best == BestChannel(substring, lexical, semantic)
           share == (10000 * rrf) \div MaxRRF
<1>1. best \in Nat /\ best <= 10000
  BY BestChannelBounds
<1>2. MaxRRF = 13934
  BY SMT DEF MaxRRF
<1>3. share \in Nat /\ share <= 10000
  BY <1>2, SMT
<1>4. Relevance(exact, substring, lexical, semantic, rrf)
        = IF exact > 0 THEN 450000 + 11000 * exact ELSE 59 * best + share
  BY DEF Relevance
<1> HIDE DEF best, share
<1>5. 59 * best + share \in Nat /\ 59 * best + share <= 1000000
  BY <1>1, <1>3, SMT
<1>6. 450000 + 11000 * exact \in Nat /\ 450000 + 11000 * exact <= 1000000
  BY SMT
<1>7. MaxRelevance = 1000000
  BY SMT DEF MaxRelevance
<1> QED BY <1>4, <1>5, <1>6, <1>7, SMT

\* What fuseCandidates is given: candidates, finitely many in each channel.
CandidatesOK == \A c \in Channels : Candidates(c) \subseteq Candidate /\ IsFiniteSet(Candidates(c))

\* What the channels make of a text, one by one.
LEMMA ScoreBounds ==
    ASSUME NEW text \in RowTexts
    PROVE  /\ Hits[text]["exact"] \in Nat /\ Hits[text]["exact"] <= 50
           /\ Hits[text]["substring"] \in Nat /\ Hits[text]["substring"] <= 1000
           /\ Hits[text]["lexical"] \in Nat /\ Hits[text]["lexical"] <= 1000
           /\ Hits[text]["semantic"] \in Int /\ Hits[text]["semantic"] <= 1000
           /\ Hits[text]["boost"] \in Nat /\ Hits[text]["boost"] <= 80000
           /\ \A c \in Channels : Hits[text][c] \in Int
<1> DEFINE hit == Hits[text]
<1>1. hit \in Scores
  BY Bounds
<1> HIDE DEF hit
<1>2. /\ hit.exact \in Nat /\ hit.substring \in Nat /\ hit.lexical \in Nat /\ hit.semantic \in Int
      /\ hit.boost \in Nat
  BY <1>1 DEF Scores
<1>3. /\ hit.exact <= 50 /\ hit.substring <= 1000 /\ hit.lexical <= 1000 /\ hit.semantic <= 1000
      /\ hit.boost <= 80000
  BY <1>1, SMT DEF Scores
<1> QED BY <1>2, <1>3, SMT DEF hit, Channels

\* The share of each channel in the fused rank.
LEMMA RankBounds ==
    ASSUME NEW c \in Channels, NEW x, IsFiniteSet(Candidates(c))
    PROVE  /\ ReciprocalRank(c, x) \in Nat
           /\ c = "exact" => ReciprocalRank(c, x) <= 6557
           /\ c = "substring" => ReciprocalRank(c, x) <= 3278
           /\ c = "lexical" => ReciprocalRank(c, x) <= 2459
           /\ c = "semantic" => ReciprocalRank(c, x) <= 1639
<1> DEFINE before == {y \in Candidates(c) : LeadsIn(c, y, x)}
           k == Cardinality(before)
<1>1. k \in Nat
  <2>1. before \in SUBSET Candidates(c)
    OBVIOUS
  <2> HIDE DEF before
  <2> QED BY <2>1, FS_Subset, FS_CardinalityType
<1>2. ReciprocalRank(c, x) = (Weight[c] * 10000) \div (61 + k)
  BY DEF ReciprocalRank
<1> HIDE DEF k
<1>3. CASE c = "exact"
  BY <1>1, <1>2, <1>3, Places, SMT DEF Weight
<1>4. CASE c = "substring"
  BY <1>1, <1>2, <1>4, Places, SMT DEF Weight
<1>5. CASE c = "lexical"
  BY <1>1, <1>2, <1>5, Places, SMT DEF Weight
<1>6. CASE c = "semantic"
  BY <1>1, <1>2, <1>6, Places, SMT DEF Weight
<1> QED BY <1>3, <1>4, <1>5, <1>6 DEF Channels

\* A fused result is of the row and within the bounds of its scores.
LEMMA FusedOK ==
    ASSUME NEW r \in Rows, CandidatesOK, \E c \in Channels : \E x \in Candidates(c) : x.row = r
    PROVE  Fused(r) \in Result /\ Fused(r).row = r
<1> DEFINE of == [c \in Channels |-> {x \in Candidates(c) : x.row = r}]
           lead == CHOOSE i \in 1 .. 4 :
                      of[ChannelOrder[i]] # {} /\ \A j \in 1 .. i - 1 : of[ChannelOrder[j]] = {}
           row == CHOOSE x \in of[ChannelOrder[lead]] : TRUE
           score == [c \in Channels |-> IF of[c] = {} THEN 0
                                        ELSE Score(c, CHOOSE x \in of[c] : TRUE)]
           ranks == [c \in Channels |-> IF of[c] = {} THEN 0
                                        ELSE ReciprocalRank(c, CHOOSE x \in of[c] : TRUE)]
           rrf == SumOf(ranks)
           relevance == Relevance(score.exact, score.substring, score.lexical, score.semantic, rrf)
           boost == Hits[row.text].boost
<1>1. \A c \in Channels : of[c] \subseteq Candidate
  BY DEF CandidatesOK
<1>2. row \in Candidate
  <2>1. \E c \in Channels : of[c] # {}
    OBVIOUS
  <2> HIDE DEF of
  <2>2. of["exact"] # {} \/ of["substring"] # {} \/ of["lexical"] # {} \/ of["semantic"] # {}
    BY <2>1 DEF Channels
  <2> DEFINE leads(i) == of[ChannelOrder[i]] # {} /\ \A j \in 1 .. i - 1 : of[ChannelOrder[j]] = {}
  <2>3. /\ ChannelOrder[1] = "exact" /\ ChannelOrder[2] = "substring"
        /\ ChannelOrder[3] = "lexical" /\ ChannelOrder[4] = "semantic"
    BY DEF ChannelOrder
  <2>4. leads(1) \/ leads(2) \/ leads(3) \/ leads(4)
    BY <2>2, <2>3
  <2>5. lead \in 1 .. 4 /\ of[ChannelOrder[lead]] # {}
    <3>1. \E i \in 1 .. 4 : of[ChannelOrder[i]] # {} /\ \A j \in 1 .. i - 1 : of[ChannelOrder[j]] = {}
      BY <2>4
    <3> QED BY <3>1
  <2> HIDE DEF lead
  <2>6. ChannelOrder[lead] \in Channels
    BY <2>3, <2>5 DEF Channels
  <2> QED BY <1>1, <2>5, <2>6
<1>3. row.stamp \in Nat /\ row.text \in RowTexts
  BY <1>2 DEF Candidate
<1>5. \A c \in Channels : of[c] # {} => (CHOOSE x \in of[c] : TRUE) \in of[c]
  OBVIOUS
<1>6. \A c \in Channels : score[c] = 0 \/ \E text \in RowTexts : score[c] = Hits[text][c]
  BY <1>1, <1>5 DEF Score, Candidate
<1>7. \A c \in Channels : ranks[c] = 0 \/ \E x : ranks[c] = ReciprocalRank(c, x)
  OBVIOUS
<1> HIDE DEF of, score, ranks, row
<1>4. boost \in Nat /\ boost <= 80000
  BY <1>3, ScoreBounds, SMT
<1>8. /\ score.exact \in Nat /\ score.exact <= 50 /\ score.substring \in Nat /\ score.substring <= 1000
      /\ score.lexical \in Nat /\ score.lexical <= 1000 /\ score.semantic \in Int /\ score.semantic <= 1000
  BY <1>6, ScoreBounds, SMT DEF Channels
<1>9. /\ ranks["exact"] \in Nat /\ ranks["exact"] <= 6557
      /\ ranks["substring"] \in Nat /\ ranks["substring"] <= 3278
      /\ ranks["lexical"] \in Nat /\ ranks["lexical"] <= 2459
      /\ ranks["semantic"] \in Nat /\ ranks["semantic"] <= 1639
  <2>1. \A x : \A c \in Channels : ReciprocalRank(c, x) \in Nat
    BY RankBounds DEF CandidatesOK
  <2>2. \A x : /\ ReciprocalRank("exact", x) <= 6557 /\ ReciprocalRank("substring", x) <= 3278
               /\ ReciprocalRank("lexical", x) <= 2459 /\ ReciprocalRank("semantic", x) <= 1639
    BY RankBounds DEF CandidatesOK, Channels
  <2> QED BY <1>7, <2>1, <2>2, SMT DEF Channels
<1>10. rrf \in Nat /\ rrf <= 13933
  BY <1>9, SMT DEF SumOf
<1> HIDE DEF rrf, boost
<1> DEFINE exact == score.exact
           substring == score.substring
           lexical == score.lexical
           semantic == score.semantic
<1>11. relevance \in Nat /\ relevance <= MaxRelevance
  <2>1. /\ exact \in Nat /\ exact <= 50 /\ substring \in Nat /\ substring <= 1000
        /\ lexical \in Nat /\ lexical <= 1000 /\ semantic \in Int /\ semantic <= 1000
    BY <1>8
  <2>2. relevance = Relevance(exact, substring, lexical, semantic, rrf)
    OBVIOUS
  <2> HIDE DEF relevance, exact, substring, lexical, semantic
  <2> QED BY <1>10, <2>1, <2>2, RelevanceBounds
<1>12. Fused(r) = [row |-> r, stamp |-> row.stamp, relevance |-> relevance, rrf |-> rrf,
                   final |-> 92 * relevance + 100 * boost]
  BY DEF Fused, of, row, score, ranks, rrf, boost
<1> HIDE DEF relevance
<1> DEFINE final == 92 * relevance + 100 * boost
<1>13. final \in Nat /\ final <= MaxFinal
  BY <1>4, <1>11, SMT DEF MaxFinal, MaxRelevance
<1>14. Fused(r) = [row |-> r, stamp |-> row.stamp, relevance |-> relevance, rrf |-> rrf, final |-> final]
  BY <1>12
<1> HIDE DEF final
<1>15. relevance \in 0 .. MaxRelevance /\ final \in 0 .. MaxFinal
  <2>1. MaxRelevance \in Nat /\ MaxFinal \in Nat
    BY SMT DEF MaxFinal, MaxRelevance
  <2> QED BY <1>11, <1>13, <2>1, SMT
<1> QED BY <1>3, <1>10, <1>14, <1>15 DEF Result

-----------------------------------------------------------------------------
(* The statements of a search. *)

\* Candidates can be put in every order.
LEMMA OfCandidates ==
    ASSUME NEW S \in SUBSET Candidate
    PROVE  /\ \A x \in S : x.row \in Rows /\ x.text \in RowTexts
           /\ Dated(S) /\ \A c \in Channels : Scored(c, S)
<1>1. \A x \in S : x.row \in Rows /\ x.text \in RowTexts /\ x.stamp \in Nat
  BY DEF Candidate
<1>2. Dated(S)
  BY <1>1, Bounds DEF Dated
<1>3. \A c \in Channels : Scored(c, S)
  BY <1>1, ScoreBounds DEF Scored, Score
<1> QED BY <1>1, <1>2, <1>3

\* A row and its candidate, field by field.
LEMMA TableFields ==
    ASSUME table \in [Rows -> TableRow], NEW r \in Rows
    PROVE  /\ CandidateOf(r) \in Candidate /\ CandidateOf(r).row = r
           /\ CandidateOf(r).text = table[r].text /\ CandidateOf(r).stamp = table[r].stamp
           /\ table[r] \in TableRow /\ table[r].text \in RowTexts /\ table[r].stamp \in Nat
           /\ table[r].visible \in BOOLEAN
<1>1. table[r] \in TableRow
  OBVIOUS
<1>2. table[r].text \in RowTexts /\ table[r].stamp \in Nat /\ table[r].visible \in BOOLEAN
  BY <1>1 DEF TableRow
<1> QED BY <1>1, <1>2 DEF CandidateOf, Candidate

\* What a statement sees of rows: of each visible one, the candidate.
LEMMA SeenRows ==
    ASSUME table \in [Rows -> TableRow], NEW rows \in SUBSET Rows
    PROVE  /\ Seen(rows) \in SUBSET Candidate /\ IsFiniteSet(Seen(rows)) /\ OnePerRow(Seen(rows))
           /\ \A x \in Seen(rows) : x.row \in rows /\ table[x.row].visible /\ x = CandidateOf(x.row)
           /\ \A r \in rows : table[r].visible => CandidateOf(r) \in Seen(rows)
<1> DEFINE shown == {q \in rows : table[q].visible}
           f == [r \in shown |-> CandidateOf(r)]
<1>1. Seen(rows) = {CandidateOf(r) : r \in shown}
  BY DEF Seen, CandidateOf
<1>2. \A x \in Seen(rows) : x.row \in rows /\ table[x.row].visible /\ x = CandidateOf(x.row) /\ x \in Candidate
  BY <1>1, TableFields
<1>3. IsFiniteSet(shown)
  BY MemorySearchAssumption, FS_Subset
<1>4. f \in Surjection(shown, Seen(rows))
  BY <1>1 DEF Surjection
<1>5. IsFiniteSet(Seen(rows))
  BY <1>3, <1>4, FS_Surjection
<1>6. OnePerRow(Seen(rows))
  BY <1>2 DEF OnePerRow
<1>7. \A r \in rows : table[r].visible => CandidateOf(r) \in Seen(rows)
  BY <1>1
<1> QED BY <1>2, <1>5, <1>6, <1>7

\* A statement: at most CandidateLimit candidates, each row once, and the memories
\* that match unless that many others do.
LEMMA FoundOK ==
    ASSUME table \in [Rows -> TableRow], at \in 1 .. Len(Selectors), NEW c \in Channels, NEW part \in Parts
    PROVE  LET found == Found(c, part) IN
           /\ found \subseteq {x \in Candidate : x.row \in RowsOf(part)}
           /\ IsFiniteSet(found) /\ Cardinality(found) <= CandidateLimit /\ OnePerRow(found)
           /\ \A m \in RowsOf(part) :
                 table[m].visible /\ m \in Selectors[at] /\ Matches(c, CandidateOf(m)) =>
                     CandidateOf(m) \in found \/ Cardinality(found) = CandidateLimit
<1> DEFINE seen == Seen(RowsOf(part) \cap Selectors[at])
           matching == {x \in seen : Matches(c, x)}
           found == Found(c, part)
<1>1. RowsOf(part) \cap Selectors[at] \in SUBSET Rows
  BY Bounds DEF RowsOf
<1>2. /\ seen \in SUBSET Candidate /\ IsFiniteSet(seen) /\ OnePerRow(seen)
      /\ \A x \in seen : x.row \in RowsOf(part)
      /\ \A r \in RowsOf(part) \cap Selectors[at] : table[r].visible => CandidateOf(r) \in seen
  BY <1>1, SeenRows
<1>3. found = FirstLeading(c, matching, CandidateLimit)
  BY DEF Found, First, FirstLeading
<1> HIDE DEF seen, found
<1>4. matching \in SUBSET seen
  OBVIOUS
<1>5. /\ matching \in SUBSET Candidate /\ IsFiniteSet(matching) /\ OnePerRow(matching)
      /\ \A x \in matching : x.row \in RowsOf(part)
  BY <1>2, <1>4, FS_Subset DEF OnePerRow
<1>6. \A m \in RowsOf(part) : table[m].visible /\ m \in Selectors[at] /\ Matches(c, CandidateOf(m)) =>
          CandidateOf(m) \in matching
  BY <1>2
<1> HIDE DEF matching
<1>7. Limited(found, matching, CandidateLimit)
  <2>1. Dated(matching) /\ Scored(c, matching)
    BY <1>5, OfCandidates
  <2> QED BY <1>3, <1>5, <2>1, LeadersFirst, Bounds
<1>8. found \subseteq matching /\ IsFiniteSet(found) /\ Cardinality(found) <= CandidateLimit
  BY <1>7, Bounds DEF Limited
<1>9. found = matching \/ Cardinality(found) = CandidateLimit
  BY <1>7 DEF Limited
<1>10. OnePerRow(found)
  BY <1>5, <1>8 DEF OnePerRow
<1> QED BY <1>5, <1>6, <1>8, <1>9, <1>10 DEF found

\* The candidates of a channel: as many of memories and chunks together.
LEMMA CandidatesAre ==
    ASSUME ReadInv, NEW c \in Channels, \A part \in Parts : read[<<c, part>>] # Nothing
    PROVE  LET both == read[<<c, "memory">>] \cup read[<<c, "chunk">>] IN
           /\ both \in SUBSET Candidate /\ IsFiniteSet(both) /\ OnePerRow(both)
           /\ Limited(Candidates(c), both, CandidateLimit)
<1> DEFINE mems == read[<<c, "memory">>]
           chunks == read[<<c, "chunk">>]
           both == mems \cup chunks
<1>1. /\ mems \subseteq {x \in Candidate : x.row \in MemoryRows} /\ IsFiniteSet(mems) /\ OnePerRow(mems)
      /\ chunks \subseteq {x \in Candidate : x.row \in ChunkRows} /\ IsFiniteSet(chunks) /\ OnePerRow(chunks)
  BY DEF ReadInv, Parts, RowsOf
<1>2. Candidates(c) = FirstLeading(c, both, CandidateLimit)
  BY DEF Candidates, First, FirstLeading
<1> HIDE DEF mems, chunks
<1>3. both \in SUBSET Candidate /\ IsFiniteSet(both)
  BY <1>1, FS_Union
<1>4. OnePerRow(both)
  BY <1>1, Bounds DEF OnePerRow
<1> HIDE DEF both
<1>5. Dated(both) /\ Scored(c, both)
  BY <1>3, OfCandidates
<1>6. Limited(Candidates(c), both, CandidateLimit)
  BY <1>2, <1>3, <1>4, <1>5, LeadersFirst, Bounds
<1> QED BY <1>3, <1>4, <1>6 DEF both, mems, chunks

-----------------------------------------------------------------------------
(* From the candidates of a search to the results of a recall. *)

\* One fused result for each row that a channel has.
LEMMA FusedHits ==
    ASSUME ReadInv, \A s \in Statements : read[s] # Nothing
    PROVE  LET rows == {x.row : x \in UNION {Candidates(c) : c \in Channels}}
               hits == {Fused(r) : r \in rows}
           IN  /\ hits \in SUBSET Result /\ IsFiniteSet(hits) /\ OnePerRow(hits)
               /\ \A c \in Channels : \A x \in Candidates(c) : \E h \in hits : h.row = x.row
<1> DEFINE rows == {x.row : x \in UNION {Candidates(c) : c \in Channels}}
           hits == {Fused(r) : r \in rows}
           f == [r \in rows |-> Fused(r)]
<1>1. \A c \in Channels : \A part \in Parts : read[<<c, part>>] # Nothing
  BY DEF Statements
<1>2. \A c \in Channels : Candidates(c) \subseteq Candidate /\ IsFiniteSet(Candidates(c))
  BY <1>1, CandidatesAre DEF Limited
<1>3. CandidatesOK
  BY <1>2 DEF CandidatesOK
<1>4. \A r \in rows : r \in Rows /\ \E c \in Channels : \E x \in Candidates(c) : x.row = r
  BY <1>2 DEF Candidate
<1>5. \A c \in Channels : \A x \in Candidates(c) : x.row \in rows
  OBVIOUS
<1> HIDE DEF rows
<1>6. \A r \in rows : Fused(r) \in Result /\ Fused(r).row = r
  BY <1>3, <1>4, FusedOK
<1>7. IsFiniteSet(rows)
  BY <1>4, MemorySearchAssumption, FS_Subset
<1>8. f \in Surjection(rows, hits)
  BY DEF Surjection
<1>9. IsFiniteSet(hits)
  BY <1>7, <1>8, FS_Surjection
<1>10. hits \in SUBSET Result /\ OnePerRow(hits)
  BY <1>6 DEF OnePerRow
<1>11. \A c \in Channels : \A x \in Candidates(c) : \E h \in hits : h.row = x.row
  BY <1>5, <1>6
<1> QED BY <1>9, <1>10, <1>11 DEF rows

\* Results of memories, each once, are as many as the memories.
LEMMA AsManyMemories ==
    ASSUME NEW hits \in SUBSET Result, IsFiniteSet(hits),
           \A g, h \in hits : g.row \in MemoryRows /\ g.row = h.row => g = h
    PROVE  /\ IsFiniteSet(MemoriesIn(hits)) /\ Cardinality(MemoriesIn(hits)) \in Nat
           /\ Cardinality({h \in hits : h.row \in MemoryRows}) = Cardinality(MemoriesIn(hits))
<1> DEFINE ofMemories == {h \in hits : h.row \in MemoryRows}
           f == [h \in ofMemories |-> h.row]
<1>1. IsFiniteSet(ofMemories)
  BY FS_Subset
<1>2. f \in Surjection(ofMemories, MemoriesIn(hits))
  BY DEF Surjection, MemoriesIn
<1>3. f \in Injection(ofMemories, MemoriesIn(hits))
  BY <1>2 DEF Injection, IsInjective, Surjection
<1> HIDE DEF ofMemories, f
<1>4. IsFiniteSet(MemoriesIn(hits)) /\ Cardinality(MemoriesIn(hits)) = Cardinality(ofMemories)
  BY <1>1, <1>2, <1>3, FS_Surjection
<1> QED BY <1>4, FS_CardinalityType DEF ofMemories

LEMMA MoreMemories ==
    ASSUME NEW hits \in SUBSET Result, NEW more \in SUBSET Result, MemoriesIn(hits) \subseteq MemoriesIn(more)
    PROVE  /\ IsFiniteSet(MemoriesIn(more))
           /\ Cardinality(MemoriesIn(hits)) \in Nat /\ Cardinality(MemoriesIn(more)) \in Nat
           /\ Cardinality(MemoriesIn(hits)) <= Cardinality(MemoriesIn(more))
<1>1. MemoriesIn(more) \in SUBSET MemoryRows
  BY DEF MemoriesIn
<1>2. IsFiniteSet(MemoriesIn(more)) /\ IsFiniteSet(MemoriesIn(hits))
  BY <1>1, Bounds, FS_Subset
<1> QED BY <1>2, FS_Subset, FS_CardinalityType

\* truncatePerKind leaves out a memory for Limit others only.
LEMMA TruncatedOK ==
    ASSUME NEW hits \in SUBSET Result, IsFiniteSet(hits), OnePerRow(hits)
    PROVE  LET kept == Truncated(hits) IN
           /\ kept \subseteq hits /\ IsFiniteSet(kept)
           /\ \A m \in MemoriesIn(hits) : m \in MemoriesIn(kept) \/ Cardinality(MemoriesIn(kept)) >= Limit
<1> DEFINE ofMemories == {h \in hits : h.row \in MemoryRows}
           ofChunks == {h \in hits : h.row \in ChunkRows}
           mems == FirstFused(ofMemories, Limit)
           chunks == FirstFused(ofChunks, Limit)
           kept == Truncated(hits)
<1>1. kept = mems \cup chunks
  BY DEF Truncated, First, FirstFused, Parts, RowsOf
<1>2. /\ ofMemories \in SUBSET Result /\ IsFiniteSet(ofMemories) /\ OnePerRow(ofMemories)
      /\ ofChunks \in SUBSET Result /\ IsFiniteSet(ofChunks) /\ OnePerRow(ofChunks)
  BY FS_Subset DEF OnePerRow
<1>3. /\ ofMemories \subseteq hits /\ ofChunks \subseteq hits
      /\ \A h \in ofMemories : h.row \in MemoryRows
      /\ \A h \in hits : h.row \in MemoryRows => h \in ofMemories
  OBVIOUS
<1> HIDE DEF ofMemories, ofChunks
<1>4. Limited(mems, ofMemories, Limit) /\ Limited(chunks, ofChunks, Limit)
  BY <1>2, BestFusedFirst, Bounds
<1> HIDE DEF mems, chunks, kept
<1>5. kept \subseteq hits /\ IsFiniteSet(kept) /\ mems \subseteq kept
  BY <1>1, <1>3, <1>4, FS_Union DEF Limited
<1>6. ASSUME mems = ofMemories, NEW m \in MemoriesIn(hits) PROVE m \in MemoriesIn(kept)
  BY <1>3, <1>5, <1>6 DEF MemoriesIn
<1>7. ASSUME Cardinality(mems) = Limit PROVE Cardinality(MemoriesIn(kept)) >= Limit
  <2>1. mems \in SUBSET Result /\ IsFiniteSet(mems) /\ kept \in SUBSET Result
    BY <1>2, <1>4, <1>5 DEF Limited
  <2>2. \A g, h \in mems : g.row \in MemoryRows /\ g.row = h.row => g = h
    BY <1>2, <1>4 DEF Limited, OnePerRow
  <2>3. {h \in mems : h.row \in MemoryRows} = mems
    BY <1>3, <1>4 DEF Limited
  <2>4. Cardinality(MemoriesIn(mems)) = Limit
    BY <1>7, <2>1, <2>2, <2>3, AsManyMemories
  <2>5. MemoriesIn(mems) \subseteq MemoriesIn(kept)
    BY <1>5 DEF MemoriesIn
  <2> QED BY <2>1, <2>4, <2>5, MoreMemories, Bounds
<1> QED BY <1>4, <1>5, <1>6, <1>7 DEF Limited, kept

\* mergeRecallResults keeps each memory once and loses none.
LEMMA MergedOK ==
    ASSUME ResultInv, NEW hits \in SUBSET Result, IsFiniteSet(hits), OnePerRow(hits)
    PROVE  LET kept == Merged(hits) IN
           /\ kept \in SUBSET Result /\ IsFiniteSet(kept)
           /\ \A g, h \in kept : g.row \in MemoryRows /\ g.row = h.row => g = h
           /\ MemoriesIn(results) \subseteq MemoriesIn(kept) /\ MemoriesIn(hits) \subseteq MemoriesIn(kept)
<1> DEFINE all == results \cup hits
           kept == Merged(hits)
<1>1. /\ results \in SUBSET Result /\ IsFiniteSet(results)
      /\ \A g, h \in results : g.row \in MemoryRows /\ g.row = h.row => g = h
  BY DEF ResultInv
<1>2. /\ kept \subseteq all
      /\ \A h \in all : h \in kept <=> \A g \in all : KeyOf(g.row) = KeyOf(h.row) => g = h \/ Keeps(h, g)
  BY DEF Merged
<1>3. all \in SUBSET Result /\ IsFiniteSet(all)
  BY <1>1, FS_Union
<1>4. kept \in SUBSET Result /\ IsFiniteSet(kept)
  BY <1>2, <1>3, FS_Subset
<1>5. \A x \in all : x.row \in Rows /\ x.row \in Nat /\ x.stamp \in Nat /\ x.rrf \in Nat /\ x.relevance \in Nat /\ x.final \in Nat
  BY <1>3, ResultFields
<1>6. \A m \in MemoryRows : \A r \in Rows : KeyOf(r) = KeyOf(m) <=> r = m
  BY MemorySearchAssumption DEF KeyOf, Rows
<1>7. \A x, y \in all : Keeps(x, y) /\ Keeps(y, x) => FALSE
  BY <1>5 DEF Keeps, FusedBefore, Newer
<1>8. \A x \in results : \A y \in hits : y \in results \/ Keeps(x, y) \/ Keeps(y, x)
  BY <1>5 DEF Keeps
<1> HIDE DEF kept
<1>9. \A g, h \in kept : g.row \in MemoryRows /\ g.row = h.row => g = h
  <2> SUFFICES ASSUME NEW g \in kept, NEW h \in kept, g.row \in MemoryRows, g.row = h.row, g # h
               PROVE  FALSE
    OBVIOUS
  <2>1. Keeps(g, h) /\ Keeps(h, g)
    BY <1>2
  <2> QED BY <1>2, <1>7, <2>1
<1>10. ASSUME NEW m \in MemoryRows, \E h \in all : h.row = m PROVE \E h \in kept : h.row = m
  <2> DEFINE ofM == {h \in all : h.row = m}
  <2>1. \A h \in ofM : (\A g \in ofM : g = h \/ Keeps(h, g)) => h \in kept
    BY <1>2, <1>5, <1>6
  <2>2. \A x, y \in ofM : (x \in results /\ y \in results) \/ (x \in hits /\ y \in hits) => x = y
    BY <1>1 DEF OnePerRow
  <2>3. PICK x \in ofM : TRUE
    BY <1>10
  <2>4. CASE \A y \in ofM : y = x
    BY <2>1, <2>3, <2>4
  <2>5. CASE \E y \in ofM : y # x
    <3>1. PICK y \in ofM : y # x
      BY <2>5
    <3>2. PICK a \in ofM, b \in ofM : a \in results /\ b \in hits /\ a # b /\ b \notin results
      BY <2>2, <3>1
    <3>3. \A z \in ofM : z = a \/ z = b
      BY <2>2, <3>2
    <3>4. Keeps(a, b) \/ Keeps(b, a)
      BY <1>8, <3>2
    <3>5. a \in kept \/ b \in kept
      BY <2>1, <3>3, <3>4
    <3> QED BY <3>5
  <2> QED BY <2>4, <2>5
<1>11. MemoriesIn(results) \subseteq MemoriesIn(kept) /\ MemoriesIn(hits) \subseteq MemoriesIn(kept)
  BY <1>10 DEF MemoriesIn
<1> QED BY <1>4, <1>9, <1>11 DEF kept

-----------------------------------------------------------------------------
(* What each step preserves. *)

LEMMA NothingRead == (read = NotRead => ReadInv) /\ (read' = NotRead => ReadInv')
<1>1. \A c \in Channels, part \in Parts : NotRead[<<c, part>>] = Nothing
  BY DEF Statements, NotRead
<1>2. NotRead = [s \in Statements |-> NotRead[s]]
  BY DEF NotRead
<1>3. "memory" \in Parts
  BY DEF Parts
<1>4. read = NotRead => ReadInv
  BY <1>1, <1>2, <1>3 DEF ReadInv
<1>5. read' = NotRead => ReadInv'
  BY <1>1, <1>2, <1>3 DEF ReadInv
<1> QED BY <1>4, <1>5

LEMMA SearchInitially ==
    ASSUME SearchInit
    PROVE  SearchInv
<1>1. table \in [Rows -> TableRow] /\ \A r \in Rows : table[r].stamp \in Nat /\ table[r].stamp <= 2
  BY MemorySearchAssumption DEF SearchInit, TableRow
<1>2. SearchTypeOK
  BY <1>1, Bounds, FS_EmptySet, MemorySearchAssumption DEF SearchInit, SearchTypeOK, NotRead
<1>3. StampInv
  BY <1>1 DEF SearchInit, StampInv
<1>4. WalkInv
  BY DEF SearchInit, WalkInv
<1>5. ReadInv
  BY NothingRead DEF SearchInit
<1>6. ResultInv
  BY FS_EmptySet DEF SearchInit, ResultInv
<1>7. SteadyIsRecalled
  BY DEF SearchInit, SteadyIsRecalled
<1> QED BY <1>2, <1>3, <1>4, <1>5, <1>6, <1>7 DEF SearchInv

\* What writes beside a request do to it: stamps grow, and a row that is still as it
\* was when the client began is as it was before.
Onward ==
    /\ UNCHANGED request
    /\ \A r \in Rows : table[r].stamp <= table'[r].stamp
    /\ \A r \in Rows : table'[r].visible /\ r \notin touched' =>
          /\ table[r].visible /\ r \notin touched
          /\ table'[r].text = table[r].text /\ table'[r].stamp = table[r].stamp

\* Such a step keeps the invariant.
LEMMA OnwardKeeps ==
    ASSUME SearchInv, Onward, SearchTypeOK', StampInv'
    PROVE  SearchInv'
<1>1. UNCHANGED <<phase, cursor, listed, at, read, results, answer, full>>
  BY DEF Onward, request
<1>2. \A m \in MemoryRows : m \in Rows
  BY Bounds
<1>3. \A m \in MemoryRows : Steady(m)' =>
          Steady(m) /\ table'[m].text = table[m].text /\ CandidateOf(m)' = CandidateOf(m)
  BY <1>2 DEF Onward, Steady, CandidateOf
<1>4. WalkInv'
  <2>1. \A i \in DOMAIN listed : listed[i].row \in MemoryRows /\ listed[i].stamp <= table'[listed[i].row].stamp
    <3> SUFFICES ASSUME NEW i \in DOMAIN listed
                 PROVE  listed[i].row \in MemoryRows /\ listed[i].stamp <= table'[listed[i].row].stamp
      OBVIOUS
    <3>1. listed[i].row \in MemoryRows /\ listed[i].stamp <= table[listed[i].row].stamp
      BY DEF SearchInv, WalkInv
    <3>2. listed[i].stamp \in Nat
      <4>1. listed \in Seq(Candidate)
        BY DEF SearchInv, SearchTypeOK
      <4>2. listed[i] \in Candidate
        BY <4>1
      <4> QED BY <4>2 DEF Candidate
    <3>3. table[listed[i].row].stamp \in Nat /\ table'[listed[i].row].stamp \in Nat
      BY <1>2, <3>1 DEF SearchInv, SearchTypeOK, TableRow
    <3>4. table[listed[i].row].stamp <= table'[listed[i].row].stamp
      BY <1>2, <3>1 DEF Onward
    <3> QED BY <3>1, <3>2, <3>3, <3>4
  <2>2. \A m \in MemoryRows : After(cursor, CandidateOf(m))' <=> After(cursor, CandidateOf(m)')
    BY <1>1 DEF After
  <2> QED BY <1>1, <1>3, <2>1, <2>2 DEF SearchInv, WalkInv
<1>5. ReadInv'
  BY <1>1, <1>3 DEF SearchInv, ReadInv
<1>6. \A m \in MemoryRows : Steady(m)' /\ Missed(m) => Missed(m)'
  BY <1>1, <1>3 DEF Missed
<1>7. ResultInv'
  BY <1>1, <1>3, <1>6 DEF SearchInv, ResultInv, MemoriesIn
<1>8. SteadyIsRecalled'
  BY <1>1, <1>3 DEF SearchInv, SteadyIsRecalled, Steady
<1> QED BY <1>4, <1>5, <1>7, <1>8 DEF SearchInv

\* The part of the type invariant that a write beside the request does not touch.
LEMMA RequestTyped ==
    ASSUME SearchTypeOK, UNCHANGED request, table' \in [Rows -> TableRow],
           pending' \in [Rows -> TableRow \cup {Nothing}], clock' \in Nat, edits' \in 0 .. MaxEdits,
           touched' \subseteq Rows
    PROVE  SearchTypeOK'
BY DEF SearchTypeOK, request

\* A write under way is not seen yet; its stamp is no older than the clock.
LEMMA BeginWriteKeeps ==
    ASSUME SearchInv, NEW r \in Rows, BeginWrite(r)
    PROVE  SearchInv'
<1>1. SearchTypeOK /\ StampInv
  BY DEF SearchInv
<1>2. PICK text \in Contents[r], visible \in BOOLEAN, stamp \in {clock, clock + 1} :
          /\ clock' = stamp
          /\ pending' = [pending EXCEPT ![r] =
                [text |-> text, visible |-> visible, stamp |-> stamp,
                 embedded |-> table[r].embedded /\ text = table[r].text]]
  BY DEF BeginWrite
<1> DEFINE row == [text |-> text, visible |-> visible, stamp |-> stamp,
                   embedded |-> table[r].embedded /\ text = table[r].text]
<1>3. clock \in Nat /\ edits \in 0 .. MaxEdits /\ MaxEdits \in Nat
  BY <1>1, MemorySearchAssumption DEF SearchTypeOK
<1>4. stamp \in Nat /\ clock <= stamp
  BY <1>3
<1>5. text \in RowTexts
  BY DEF RowTexts
<1>6. row \in TableRow /\ row.stamp = stamp
  BY <1>4, <1>5 DEF TableRow
<1> HIDE DEF row
<1>7. pending' = [pending EXCEPT ![r] = row]
  BY <1>2 DEF row
<1>8. table' = table /\ touched' = touched /\ edits' = edits + 1 /\ edits < MaxEdits /\ UNCHANGED request
  BY DEF BeginWrite
<1>9. edits' \in 0 .. MaxEdits
  BY <1>3, <1>8
<1>10. pending' \in [Rows -> TableRow \cup {Nothing}]
  BY <1>1, <1>6, <1>7 DEF SearchTypeOK
<1>11. SearchTypeOK'
  BY <1>1, <1>2, <1>4, <1>8, <1>9, <1>10, RequestTyped DEF SearchTypeOK
<1>12. StampInv'
  <2> SUFFICES ASSUME NEW q \in Rows
               PROVE  /\ table[q].stamp <= clock'
                      /\ pending'[q] # Nothing => table[q].stamp <= pending'[q].stamp /\ pending'[q].stamp <= clock'
    BY <1>8 DEF StampInv
  <2>1. table[q].stamp \in Nat /\ table[q].stamp <= clock
    BY <1>1, TableFields DEF SearchTypeOK, StampInv
  <2>2. table[q].stamp <= stamp /\ clock' = stamp
    BY <1>2, <1>3, <1>4, <2>1
  <2>3. CASE q = r
    BY <1>1, <1>4, <1>6, <1>7, <2>2, <2>3 DEF SearchTypeOK
  <2>4. CASE q # r
    <3>1. pending'[q] = pending[q]
      BY <1>1, <1>7, <2>4 DEF SearchTypeOK
    <3>2. pending[q] # Nothing =>
            /\ pending[q].stamp \in Nat
            /\ table[q].stamp <= pending[q].stamp /\ pending[q].stamp <= clock
      BY <1>1 DEF SearchTypeOK, StampInv, TableRow
    <3> QED BY <1>3, <1>4, <2>1, <2>2, <3>1, <3>2
  <2> QED BY <2>3, <2>4
<1>13. Onward
  BY <1>1, <1>8, TableFields DEF Onward, SearchTypeOK
<1> QED BY <1>11, <1>12, <1>13, OnwardKeeps

\* From COMMIT on the row counts as touched.
LEMMA CommitWriteKeeps ==
    ASSUME SearchInv, NEW r \in Rows, CommitWrite(r)
    PROVE  SearchInv'
<1>1. SearchTypeOK /\ StampInv
  BY DEF SearchInv
<1>2. /\ pending[r] # Nothing /\ table' = [table EXCEPT ![r] = pending[r]]
      /\ pending' = [pending EXCEPT ![r] = Nothing] /\ touched' = touched \cup {r}
      /\ clock' = clock /\ edits' = edits /\ UNCHANGED request
  BY DEF CommitWrite
<1>3. /\ table \in [Rows -> TableRow] /\ pending \in [Rows -> TableRow \cup {Nothing}]
      /\ clock \in Nat /\ edits \in 0 .. MaxEdits /\ touched \subseteq Rows
  BY <1>1 DEF SearchTypeOK
<1>4. pending[r] \in TableRow /\ pending[r].stamp \in Nat
  BY <1>2, <1>3 DEF TableRow
<1>5. table' \in [Rows -> TableRow] /\ pending' \in [Rows -> TableRow \cup {Nothing}]
  BY <1>2, <1>3, <1>4
<1>6. SearchTypeOK'
  BY <1>1, <1>2, <1>3, <1>5, RequestTyped
<1>7. \A q \in Rows : table'[q] = IF q = r THEN pending[r] ELSE table[q]
  BY <1>2, <1>3
<1>8. \A q \in Rows : pending'[q] = IF q = r THEN Nothing ELSE pending[q]
  BY <1>2, <1>3
<1>9. \A q \in Rows : table[q].stamp \in Nat
  BY <1>3, TableFields
<1>10. StampInv'
  BY <1>1, <1>2, <1>7, <1>8 DEF StampInv
<1>11. \A q \in Rows : table[q].stamp <= table'[q].stamp
  BY <1>1, <1>2, <1>7, <1>9 DEF StampInv
<1>12. Onward
  BY <1>2, <1>7, <1>11 DEF Onward
<1> QED BY <1>6, <1>10, <1>12, OnwardKeeps

\* So does a row that expires.
LEMMA ExpireKeeps ==
    ASSUME SearchInv, NEW r \in Rows, Expire(r)
    PROVE  SearchInv'
<1>1. SearchTypeOK /\ StampInv
  BY DEF SearchInv
<1>2. /\ table' = [table EXCEPT ![r].visible = FALSE] /\ touched' = touched \cup {r}
      /\ edits < MaxEdits /\ edits' = edits + 1
      /\ clock' = clock /\ pending' = pending /\ UNCHANGED request
  BY DEF Expire
<1>3. /\ table \in [Rows -> TableRow] /\ pending \in [Rows -> TableRow \cup {Nothing}]
      /\ clock \in Nat /\ edits \in 0 .. MaxEdits /\ touched \subseteq Rows /\ MaxEdits \in Nat
  BY <1>1, MemorySearchAssumption DEF SearchTypeOK
<1> DEFINE row == [table[r] EXCEPT !.visible = FALSE]
<1>4. row \in TableRow /\ row.stamp = table[r].stamp
  <2>1. table[r] \in TableRow
    BY <1>3
  <2>2. row \in TableRow
    BY <2>1 DEF TableRow
  <2>3. row.stamp = table[r].stamp
    BY <2>1 DEF TableRow
  <2> QED BY <2>2, <2>3
<1>5. table' = [table EXCEPT ![r] = row]
  BY <1>2
<1> HIDE DEF row
<1>6. table' \in [Rows -> TableRow] /\ \A q \in Rows : table'[q] = IF q = r THEN row ELSE table[q]
  BY <1>3, <1>4, <1>5
<1>7. edits' \in 0 .. MaxEdits
  BY <1>2, <1>3
<1>8. SearchTypeOK'
  BY <1>1, <1>2, <1>3, <1>6, <1>7, RequestTyped
<1>9. \A q \in Rows : table'[q].stamp = table[q].stamp /\ table[q].stamp \in Nat
  BY <1>3, <1>4, <1>6, TableFields
<1>10. StampInv'
  BY <1>1, <1>2, <1>9 DEF StampInv
<1>11. Onward
  BY <1>2, <1>6, <1>9 DEF Onward
<1> QED BY <1>8, <1>10, <1>11, OnwardKeeps

\* A vector changes neither the text nor updated_at.
LEMMA StoreVectorKeeps ==
    ASSUME SearchInv, NEW r \in Rows, StoreVector(r)
    PROVE  SearchInv'
<1>1. SearchTypeOK /\ StampInv
  BY DEF SearchInv
<1>2. /\ table' = [table EXCEPT ![r].embedded = TRUE] /\ touched' = touched
      /\ edits' = edits /\ clock' = clock /\ pending' = pending /\ UNCHANGED request
  BY DEF StoreVector
<1>3. /\ table \in [Rows -> TableRow] /\ pending \in [Rows -> TableRow \cup {Nothing}]
      /\ clock \in Nat /\ edits \in 0 .. MaxEdits /\ touched \subseteq Rows
  BY <1>1 DEF SearchTypeOK
<1> DEFINE row == [table[r] EXCEPT !.embedded = TRUE]
<1>4. row \in TableRow /\ row.stamp = table[r].stamp /\ row.text = table[r].text /\ row.visible = table[r].visible
  BY <1>3, TableFields DEF TableRow
<1>5. table' = [table EXCEPT ![r] = row]
  BY <1>2
<1> HIDE DEF row
<1>6. table' \in [Rows -> TableRow] /\ \A q \in Rows : table'[q] = IF q = r THEN row ELSE table[q]
  BY <1>3, <1>4, <1>5
<1>7. SearchTypeOK'
  BY <1>1, <1>2, <1>3, <1>6, RequestTyped
<1>8. \A q \in Rows : /\ table'[q].stamp = table[q].stamp /\ table[q].stamp \in Nat
                      /\ table'[q].text = table[q].text /\ table'[q].visible = table[q].visible
  BY <1>3, <1>4, <1>6, TableFields
<1>9. StampInv'
  BY <1>1, <1>2, <1>8 DEF StampInv
<1>10. Onward
  BY <1>2, <1>8 DEF Onward
<1> QED BY <1>7, <1>9, <1>10, OnwardKeeps

\* A recall starts with its first selector and no result.
LEMMA BeginRecallKeeps ==
    ASSUME SearchInv, BeginRecall
    PROVE  SearchInv'
<1>1. phase = "idle" /\ phase' = "recalling"
  BY DEF BeginRecall
<1>2. UNCHANGED <<table, pending, clock, edits, cursor, listed, at, read, results, answer, touched, full>>
  BY DEF BeginRecall
<1>3. SearchTypeOK'
  BY <1>1, <1>2 DEF SearchInv, SearchTypeOK
<1>4. StampInv'
  BY <1>2 DEF SearchInv, StampInv
<1>5. WalkInv'
  BY <1>1, <1>2 DEF SearchInv, WalkInv, Steady, After, CandidateOf
<1>6. ReadInv'
  BY <1>2 DEF SearchInv, ReadInv, Steady, CandidateOf
<1>7. at = 1
  BY <1>1 DEF SearchInv, ResultInv
<1>8. ResultInv'
  BY <1>1, <1>2, <1>7 DEF SearchInv, ResultInv
<1>9. SteadyIsRecalled'
  BY <1>1 DEF SteadyIsRecalled
<1> QED BY <1>3, <1>4, <1>5, <1>6, <1>8, <1>9 DEF SearchInv

\* A statement of a channel that goes by the words sees the memories that match and stay.
LEMMA ReadKeeps ==
    ASSUME SearchInv, NEW c \in Channels, NEW part \in Parts, Read(c, part)
    PROVE  SearchInv'
<1> DEFINE found == Found(c, part)
           s == <<c, part>>
<1>1. SearchTypeOK /\ ReadInv
  BY DEF SearchInv
<1>2. phase = "recalling" /\ at <= Len(Selectors) /\ read' = [read EXCEPT ![s] = found]
  BY DEF Read
<1>3. UNCHANGED <<table, pending, clock, edits, phase, cursor, listed, at, results, answer, touched, full>>
  BY DEF Read
<1>4. at \in 1 .. Len(Selectors) /\ table \in [Rows -> TableRow]
  BY <1>1, <1>2, Bounds DEF SearchTypeOK
<1>5. /\ found \subseteq {x \in Candidate : x.row \in RowsOf(part)}
      /\ IsFiniteSet(found) /\ Cardinality(found) <= CandidateLimit /\ OnePerRow(found)
      /\ \A m \in RowsOf(part) :
            table[m].visible /\ m \in Selectors[at] /\ Matches(c, CandidateOf(m)) =>
                CandidateOf(m) \in found \/ Cardinality(found) = CandidateLimit
  BY <1>4, FoundOK
<1> HIDE DEF found
<1>6. s \in Statements /\ \A d \in Channels, p \in Parts : <<d, p>> \in Statements
  BY DEF Statements
<1>7. read = [t \in Statements |-> read[t]]
  BY <1>1 DEF ReadInv
<1>8. \A t \in Statements : read'[t] = IF t = s THEN found ELSE read[t]
  BY <1>2, <1>6, <1>7
<1>9. read' = [t \in Statements |-> read'[t]]
  BY <1>2, <1>7
<1>10. SearchTypeOK'
  <2>1. \A t \in Statements : read'[t] = Nothing \/ read'[t] \subseteq Candidate
    BY <1>1, <1>5, <1>8 DEF SearchTypeOK
  <2>2. \A t \in Statements : read'[t] # Nothing => Cardinality(read'[t]) <= CandidateLimit
    BY <1>1, <1>5, <1>8 DEF SearchTypeOK
  <2> QED BY <1>1, <1>3, <2>1, <2>2 DEF SearchTypeOK
<1>11. ReadInv'
  <2>1. ASSUME NEW d \in Channels, NEW p \in Parts, read'[<<d, p>>] # Nothing
        PROVE  /\ read'[<<d, p>>] \subseteq {x \in Candidate : x.row \in RowsOf(p)}
               /\ IsFiniteSet(read'[<<d, p>>]) /\ Cardinality(read'[<<d, p>>]) <= CandidateLimit
               /\ OnePerRow(read'[<<d, p>>])
    <3>1. CASE <<d, p>> = s
      <4>1. p = part /\ read'[<<d, p>>] = found
        BY <1>6, <1>8, <3>1
      <4> QED BY <1>5, <4>1
    <3>2. CASE <<d, p>> # s
      <4>1. read'[<<d, p>>] = read[<<d, p>>]
        BY <1>6, <1>8, <3>2
      <4> QED BY <1>1, <2>1, <4>1 DEF ReadInv
    <3> QED BY <3>1, <3>2
  <2>2. ASSUME NEW m \in MemoryRows, NEW d \in Channels \ {"semantic"},
               Steady(m), Hits[table[m].text][d] > 0, m \in Selectors[at], read'[<<d, "memory">>] # Nothing
        PROVE  CandidateOf(m) \in read'[<<d, "memory">>] \/ Cardinality(read'[<<d, "memory">>]) = CandidateLimit
    <3>0. "memory" \in Parts /\ d \in Channels
      BY DEF Parts
    <3>1. CASE <<d, "memory">> = s
      <4>1. read'[<<d, "memory">>] = found /\ d = c /\ part = "memory"
        BY <1>6, <1>8, <3>0, <3>1
      <4>2. m \in RowsOf(part) /\ table[m].visible
        BY <2>2, <4>1 DEF RowsOf, Steady
      <4>3. Matches(c, CandidateOf(m))
        BY <2>2, <4>1 DEF Matches, Score, CandidateOf
      <4> QED BY <1>5, <2>2, <4>1, <4>2, <4>3
    <3>2. CASE <<d, "memory">> # s
      <4>1. read'[<<d, "memory">>] = read[<<d, "memory">>]
        BY <1>6, <1>8, <3>0, <3>2
      <4> QED BY <1>1, <1>2, <2>2, <4>1 DEF ReadInv
    <3> QED BY <3>1, <3>2
  <2> QED BY <1>3, <1>9, <2>1, <2>2 DEF ReadInv, Steady, CandidateOf
<1>12. StampInv'
  BY <1>3 DEF SearchInv, StampInv
<1>13. WalkInv'
  BY <1>3 DEF SearchInv, WalkInv, Steady, After, CandidateOf
<1>14. ResultInv'
  BY <1>2, <1>3 DEF SearchInv, ResultInv, MemoriesIn, Missed, Steady
<1>15. SteadyIsRecalled'
  BY <1>2, <1>3 DEF SteadyIsRecalled
<1> QED BY <1>10, <1>11, <1>12, <1>13, <1>14, <1>15 DEF SearchInv

\* Without the semantic channel the others stay as they are.
LEMMA SemanticFailsKeeps ==
    ASSUME SearchInv, SemanticFails
    PROVE  SearchInv'
<1>1. SearchTypeOK /\ ReadInv
  BY DEF SearchInv
<1>2. phase = "recalling" /\ read' = [s \in Statements |-> IF s[1] = "semantic" THEN {} ELSE read[s]]
  BY DEF SemanticFails
<1>3. UNCHANGED <<table, pending, clock, edits, phase, cursor, listed, at, results, answer, touched, full>>
  BY DEF SemanticFails
<1>4. \A t \in Statements : read'[t] = {} \/ read'[t] = read[t]
  BY <1>2
<1>5. IsFiniteSet({}) /\ Cardinality({}) = 0 /\ 0 <= CandidateLimit
  BY FS_EmptySet, Bounds
<1>6. SearchTypeOK'
  <2>1. \A t \in Statements : read'[t] = Nothing \/ read'[t] \subseteq Candidate
    BY <1>1, <1>4 DEF SearchTypeOK
  <2>2. \A t \in Statements : read'[t] # Nothing => Cardinality(read'[t]) <= CandidateLimit
    BY <1>1, <1>4, <1>5 DEF SearchTypeOK
  <2> QED BY <1>1, <1>3, <2>1, <2>2 DEF SearchTypeOK
<1>7. ReadInv'
  <2>1. \A d \in Channels, p \in Parts : <<d, p>> \in Statements
    BY DEF Statements
  <2>2. \A d \in Channels, p \in Parts : read'[<<d, p>>] = {} \/ read'[<<d, p>>] = read[<<d, p>>]
    BY <1>4, <2>1
  <2>3. \A d \in Channels \ {"semantic"} : read'[<<d, "memory">>] = read[<<d, "memory">>]
    BY <1>2, <2>1 DEF Parts
  <2>4. OnePerRow({})
    BY DEF OnePerRow
  <2>5. read' = [t \in Statements |-> read'[t]]
    BY <1>2
  <2>6. ASSUME NEW d \in Channels, NEW p \in Parts, read'[<<d, p>>] # Nothing
        PROVE  /\ read'[<<d, p>>] \subseteq {x \in Candidate : x.row \in RowsOf(p)}
               /\ IsFiniteSet(read'[<<d, p>>]) /\ Cardinality(read'[<<d, p>>]) <= CandidateLimit
               /\ OnePerRow(read'[<<d, p>>])
    BY <1>1, <1>5, <2>2, <2>4, <2>6 DEF ReadInv
  <2> QED BY <1>1, <1>3, <2>3, <2>5, <2>6 DEF ReadInv, Steady, CandidateOf
<1>8. StampInv'
  BY <1>3 DEF SearchInv, StampInv
<1>9. WalkInv'
  BY <1>3 DEF SearchInv, WalkInv, Steady, After, CandidateOf
<1>10. ResultInv'
  BY <1>2, <1>3 DEF SearchInv, ResultInv, MemoriesIn, Missed, Steady
<1>11. SteadyIsRecalled'
  BY <1>2, <1>3 DEF SteadyIsRecalled
<1> QED BY <1>6, <1>7, <1>8, <1>9, <1>10, <1>11 DEF SearchInv

\* A recall that fails has no answer.
LEMMA FailRecallKeeps ==
    ASSUME SearchInv, FailRecall
    PROVE  SearchInv'
<1>1. phase = "recalling" /\ phase' = "failed" /\ read' = NotRead /\ results' = {}
  BY DEF FailRecall
<1>2. UNCHANGED <<table, pending, clock, edits, cursor, listed, at, answer, touched, full>>
  BY DEF FailRecall
<1>3. SearchTypeOK'
  BY <1>1, <1>2 DEF SearchInv, SearchTypeOK, NotRead
<1>4. StampInv'
  BY <1>2 DEF SearchInv, StampInv
<1>5. WalkInv'
  BY <1>1, <1>2 DEF SearchInv, WalkInv
<1>6. ReadInv'
  BY <1>1, NothingRead
<1>7. ResultInv'
  BY <1>1, FS_EmptySet DEF ResultInv
<1>8. SteadyIsRecalled'
  BY <1>1 DEF SteadyIsRecalled
<1> QED BY <1>3, <1>4, <1>5, <1>6, <1>7, <1>8 DEF SearchInv

\* A channel short of its limit would have brought a memory that matches and stays.
LEMMA SearchKeeps ==
    ASSUME SearchInv, Search
    PROVE  SearchInv'
<1> DEFINE rows == {x.row : x \in UNION {Candidates(c) : c \in Channels}}
           hits == {Fused(r) : r \in rows}
           kept == Truncated(hits)
           merged == Merged(kept)
<1>1. SearchTypeOK /\ ReadInv /\ ResultInv
  BY DEF SearchInv
<1>2. /\ phase = "recalling" /\ at <= Len(Selectors) /\ \A s \in Statements : read[s] # Nothing
      /\ results' = merged /\ at' = at + 1 /\ read' = NotRead
      /\ full' = full \cup {c \in Channels : Cardinality(Candidates(c)) = CandidateLimit}
  BY DEF Search
<1>3. UNCHANGED <<table, pending, clock, edits, phase, cursor, listed, answer, touched>>
  BY DEF Search
<1>4. /\ hits \in SUBSET Result /\ IsFiniteSet(hits) /\ OnePerRow(hits)
      /\ \A c \in Channels : \A x \in Candidates(c) : \E h \in hits : h.row = x.row
  BY <1>1, <1>2, FusedHits
<1> HIDE DEF rows, hits
<1>5. /\ kept \subseteq hits /\ IsFiniteSet(kept)
      /\ \A m \in MemoriesIn(hits) : m \in MemoriesIn(kept) \/ Cardinality(MemoriesIn(kept)) >= Limit
  BY <1>4, TruncatedOK
<1> HIDE DEF kept
<1>6. kept \in SUBSET Result /\ OnePerRow(kept)
  BY <1>4, <1>5 DEF OnePerRow
<1>7. /\ merged \in SUBSET Result /\ IsFiniteSet(merged)
      /\ \A g, h \in merged : g.row \in MemoryRows /\ g.row = h.row => g = h
      /\ MemoriesIn(results) \subseteq MemoriesIn(merged) /\ MemoriesIn(kept) \subseteq MemoriesIn(merged)
  BY <1>1, <1>5, <1>6, MergedOK
<1> HIDE DEF merged
<1>8. results \in SUBSET Result
  BY <1>1 DEF ResultInv
<1>9. at \in Nat /\ at >= 1 /\ at' \in 1 .. Len(Selectors) + 1 /\ Limit \in Nat
  BY <1>1, <1>2, Bounds DEF SearchTypeOK
<1>10. SearchTypeOK'
  <2>1. \A h \in merged : h.row \in Rows /\ h.final \in 0 .. MaxFinal
    BY <1>7, ResultFields
  <2>2. \A s \in Statements : read'[s] = Nothing
    BY <1>2 DEF NotRead
  <2>3. full' \subseteq Channels
    BY <1>1, <1>2 DEF SearchTypeOK
  <2> QED BY <1>1, <1>2, <1>3, <1>9, <2>1, <2>2, <2>3 DEF SearchTypeOK
<1>11. ASSUME NEW m \in MemoryRows, NEW i \in 1 .. at, Steady(m), m \in Selectors[i]
       PROVE  m \in MemoriesIn(merged) \/ Cardinality(MemoriesIn(merged)) >= Limit \/ Missed(m)'
  <2>1. CASE i # at
    <3>1. i \in 1 .. at - 1
      BY <1>9, <2>1
    <3>2. m \in MemoriesIn(results) \/ Cardinality(MemoriesIn(results)) >= Limit \/ Missed(m)
      BY <1>1, <1>2, <1>11, <3>1 DEF ResultInv
    <3>3. CASE Cardinality(MemoriesIn(results)) >= Limit
      BY <1>7, <1>8, <1>9, <3>3, MoreMemories
    <3>4. Missed(m) => Missed(m)'
      BY <1>2, <1>3 DEF Missed
    <3> QED BY <1>7, <3>2, <3>3, <3>4
  <2>2. CASE i = at /\ ~Missed(m)'
    <3>1. PICK c \in Channels \ {"semantic"} : Hits[table[m].text][c] > 0 /\ c \notin full'
      BY <1>3, <2>2 DEF Missed
    <3> DEFINE mems == read[<<c, "memory">>]
               both == mems \cup read[<<c, "chunk">>]
               found == Candidates(c)
    <3>2. \A part \in Parts : read[<<c, part>>] # Nothing
      BY <1>2 DEF Statements
    <3>3. IsFiniteSet(both) /\ Limited(found, both, CandidateLimit)
      BY <1>1, <3>2, CandidatesAre
    <3>4. Cardinality(found) # CandidateLimit
      BY <1>2, <3>1
    <3>5. CandidateOf(m) \in mems \/ Cardinality(mems) = CandidateLimit
      <4>1. "memory" \in Parts
        BY DEF Parts
      <4>2. mems # Nothing
        BY <3>2, <4>1
      <4> QED BY <1>1, <1>2, <1>11, <2>2, <3>1, <4>2 DEF ReadInv
    <3>6. mems \in SUBSET both
      OBVIOUS
    <3> HIDE DEF mems, both, found
    <3>7. found = both /\ Cardinality(both) \in 0 .. CandidateLimit
      BY <3>3, <3>4 DEF Limited
    <3>8. Cardinality(mems) \in Nat /\ Cardinality(mems) <= Cardinality(both)
      BY <3>3, <3>6, FS_Subset, FS_CardinalityType
    <3>9. CandidateOf(m) \in found
      BY <3>4, <3>5, <3>6, <3>7, <3>8, Bounds
    <3>10. \E h \in hits : h.row = m
      BY <1>4, <3>1, <3>9 DEF found, CandidateOf
    <3>11. m \in MemoriesIn(hits)
      BY <3>10 DEF MemoriesIn
    <3>12. m \in MemoriesIn(kept) \/ Cardinality(MemoriesIn(kept)) >= Limit
      BY <1>5, <3>11
    <3>13. CASE Cardinality(MemoriesIn(kept)) >= Limit
      BY <1>6, <1>7, <1>9, <3>13, MoreMemories
    <3> QED BY <1>7, <3>12, <3>13
  <2> QED BY <2>1, <2>2
<1>12. ResultInv'
  <2>1. at' - 1 = at
    BY <1>2, <1>9
  <2>2. \A m \in MemoryRows : Steady(m)' => Steady(m)
    BY <1>3 DEF Steady
  <2>3. MemoriesIn(results)' = MemoriesIn(merged)
    BY <1>2 DEF MemoriesIn
  <2> QED BY <1>2, <1>3, <1>7, <1>11, <2>1, <2>2, <2>3 DEF ResultInv
<1>13. ReadInv'
  BY <1>2, NothingRead
<1>14. StampInv'
  BY <1>3 DEF SearchInv, StampInv
<1>15. WalkInv'
  BY <1>3 DEF SearchInv, WalkInv, Steady, After, CandidateOf
<1>16. SteadyIsRecalled'
  BY <1>2, <1>3 DEF SteadyIsRecalled
<1> QED BY <1>10, <1>12, <1>13, <1>14, <1>15, <1>16 DEF SearchInv

\* The answer has Limit memories or all that were found.
LEMMA AnswerRecallKeeps ==
    ASSUME SearchInv, AnswerRecall
    PROVE  SearchInv'
<1> DEFINE best == Split(results)
           ofMemories == {h \in results : h.row \in MemoryRows}
           q == InRecallOrder(best)
<1>1. SearchTypeOK /\ ReadInv /\ ResultInv
  BY DEF SearchInv
<1>2. phase = "recalling" /\ at > Len(Selectors) /\ phase' = "answered" /\ results' = {}
  BY DEF AnswerRecall, InOrder
<1>3. answer' = [i \in DOMAIN q |-> q[i].row]
  BY DEF AnswerRecall, InOrder, InRecallOrder
<1>4. UNCHANGED <<table, pending, clock, edits, cursor, listed, at, read, touched, full>>
  BY DEF AnswerRecall, InOrder
<1>5. best = FirstRecalled(ofMemories, Limit)
  BY DEF Split, First, FirstRecalled
<1>6. ofMemories \in SUBSET Result /\ IsFiniteSet(ofMemories) /\ OnePerRow(ofMemories)
  BY <1>1, FS_Subset DEF ResultInv, OnePerRow
<1>7. Cardinality(ofMemories) = Cardinality(MemoriesIn(results))
  BY <1>1, AsManyMemories DEF ResultInv
<1>8. \A m \in MemoriesIn(results) : \E h \in ofMemories : h.row = m
  BY DEF MemoriesIn
<1> HIDE DEF best, ofMemories
<1>9. Limited(best, ofMemories, Limit)
  BY <1>5, <1>6, BestRecalledFirst, Bounds
<1>10. best \in SUBSET Result /\ IsFiniteSet(best) /\ OnePerRow(best)
  BY <1>6, <1>9 DEF Limited, OnePerRow
<1>11. /\ q \in Seq(best) /\ Len(q) = Cardinality(best) /\ Cardinality(best) \in Nat
       /\ \A x \in best : \E i \in 1 .. Len(q) : q[i] = x
  BY <1>10, AllByScore
<1> HIDE DEF q
<1>12. /\ DOMAIN answer' = 1 .. Cardinality(best) /\ Len(answer') = Cardinality(best)
       /\ \A i \in 1 .. Cardinality(best) : answer'[i] = q[i].row
  BY <1>3, <1>11
<1>13. Len(answer') <= Limit /\ (best = ofMemories \/ Len(answer') = Limit)
  BY <1>9, <1>12, Bounds DEF Limited
<1>14. SearchTypeOK'
  BY <1>1, <1>2, <1>4, <1>13 DEF SearchTypeOK
<1>15. SteadyIsRecalled'
  <2> SUFFICES ASSUME NEW m \in MemoryRows, NEW i \in DOMAIN Selectors, m \in Selectors[i], Steady(m)
               PROVE  \/ Len(answer') = Limit
                      \/ \E j \in DOMAIN answer' : answer'[j] = m
                      \/ Missed(m)
    BY <1>4 DEF SteadyIsRecalled, Missed, Steady
  <2>1. i \in 1 .. at - 1
    BY <1>1, <1>2, Bounds, MemorySearchAssumption DEF SearchTypeOK
  <2>2. m \in MemoriesIn(results) \/ Cardinality(MemoriesIn(results)) >= Limit \/ Missed(m)
    BY <1>1, <1>2, <2>1 DEF ResultInv
  <2>3. CASE best = ofMemories /\ m \in MemoriesIn(results)
    <3>1. PICK h \in best : h.row = m
      BY <1>8, <2>3
    <3>2. PICK j \in 1 .. Len(q) : q[j] = h
      BY <1>11
    <3> QED BY <1>11, <1>12, <3>1, <3>2
  <2>4. CASE best = ofMemories /\ Cardinality(MemoriesIn(results)) >= Limit
    BY <1>7, <1>11, <1>12, <1>13, <2>4, Bounds
  <2> QED BY <1>13, <2>2, <2>3, <2>4
<1>16. StampInv'
  BY <1>4 DEF SearchInv, StampInv
<1>17. WalkInv'
  BY <1>2, <1>4 DEF SearchInv, WalkInv
<1>18. ReadInv'
  BY <1>1, <1>4 DEF ReadInv, Steady, CandidateOf
<1>19. ResultInv'
  BY <1>2, FS_EmptySet DEF ResultInv
<1> QED BY <1>14, <1>15, <1>16, <1>17, <1>18, <1>19 DEF SearchInv

\* A sequence followed by another, place by place.
LEMMA Joined ==
    ASSUME NEW S, NEW s \in Seq(S), NEW t \in Seq(S)
    PROVE  /\ s \o t \in Seq(S) /\ Len(s) \in Nat /\ Len(t) \in Nat /\ Len(s \o t) = Len(s) + Len(t)
           /\ DOMAIN s = 1 .. Len(s) /\ DOMAIN (s \o t) = 1 .. Len(s) + Len(t)
           /\ \A i \in 1 .. Len(s) : (s \o t)[i] = s[i]
           /\ \A i \in 1 .. Len(t) : (s \o t)[Len(s) + i] = t[i]
           /\ \A i \in 1 .. Len(s) + Len(t) :
                 i \in 1 .. Len(s) \/ (i - Len(s) \in 1 .. Len(t) /\ (s \o t)[i] = t[i - Len(s)])
OBVIOUS

\* A page has the newest rows after the cursor: what stays and is not in it is older
\* than its last row, and a row that a page before has is not after the cursor.
LEMMA ListPageKeeps ==
    ASSUME SearchInv, ListPage
    PROVE  SearchInv'
<1> DEFINE rest == {x \in Seen(MemoryRows) : After(cursor, x)}
           first == FirstNewer(rest, PageLimit)
           peek == FirstNewer(rest, PageLimit + 1)
           page == InNewerOrder(first)
           more == Cardinality(peek) > PageLimit
<1>1. SearchTypeOK /\ WalkInv /\ ReadInv /\ ResultInv
  BY DEF SearchInv
<1>2. /\ phase \in {"idle", "walking"} /\ listed' = listed \o page
      /\ cursor' = IF more THEN page[PageLimit] ELSE Nothing
      /\ phase' = IF more THEN "walking" ELSE "walked"
  BY DEF ListPage, First, FirstNewer, InOrder, InNewerOrder
<1>3. UNCHANGED <<table, pending, clock, edits, at, read, results, answer, touched, full>>
  BY DEF ListPage, First, InOrder
<1>4. table \in [Rows -> TableRow] /\ listed \in Seq(Candidate) /\ cursor \in Candidate \cup {Nothing}
  BY <1>1 DEF SearchTypeOK
<1>5. /\ Seen(MemoryRows) \in SUBSET Candidate /\ IsFiniteSet(Seen(MemoryRows)) /\ OnePerRow(Seen(MemoryRows))
      /\ \A x \in Seen(MemoryRows) : x.row \in MemoryRows /\ x = CandidateOf(x.row)
      /\ \A r \in MemoryRows : table[r].visible => CandidateOf(r) \in Seen(MemoryRows)
  BY <1>4, Bounds, SeenRows
<1>6. /\ rest \in SUBSET Candidate /\ IsFiniteSet(rest) /\ OnePerRow(rest)
      /\ \A x \in rest : x.row \in MemoryRows /\ x = CandidateOf(x.row) /\ After(cursor, x)
      /\ \A m \in MemoryRows : table[m].visible /\ After(cursor, CandidateOf(m)) => CandidateOf(m) \in rest
  BY <1>5, FS_Subset DEF OnePerRow
<1> HIDE DEF rest
<1>7. Dated(rest) /\ PageLimit \in Nat /\ PageLimit + 1 \in Nat /\ PageLimit > 0
  BY <1>6, OfCandidates, Bounds
<1>8. /\ Limited(first, rest, PageLimit) /\ Limited(peek, rest, PageLimit + 1)
      /\ \A x \in first, y \in rest : Newer(y, x) => y \in first
  BY <1>6, <1>7, NewestFirst
<1> HIDE DEF first, peek
<1>9. IsFiniteSet(first) /\ first \subseteq rest /\ Dated(first) /\ OnePerRow(first) /\ first \in SUBSET Candidate
  BY <1>6, <1>7, <1>8 DEF Limited, Dated, OnePerRow
<1>10. /\ page \in Seq(first) /\ Len(page) = Cardinality(first) /\ Cardinality(first) \in Nat
       /\ \A x \in first : \E i \in 1 .. Len(page) : page[i] = x
       /\ \A i, j \in 1 .. Len(page) : i < j => Newer(page[i], page[j])
  BY <1>9, AllByAge
<1> HIDE DEF page
<1>11. more => Cardinality(first) = PageLimit
  <2>1. SUFFICES ASSUME more, Cardinality(first) # PageLimit PROVE FALSE
    OBVIOUS
  <2>2. first = rest /\ Cardinality(rest) \in 0 .. PageLimit
    BY <1>8, <2>1 DEF Limited
  <2>3. peek = rest
    BY <1>7, <1>8, <2>2 DEF Limited
  <2> QED BY <1>7, <2>1, <2>2, <2>3
<1>12. ~more => first = rest
  <2>1. SUFFICES ASSUME ~more PROVE first = rest
    OBVIOUS
  <2>2. Cardinality(peek) \in 0 .. PageLimit
    BY <1>7, <1>8, <2>1 DEF Limited
  <2>3. peek = rest
    BY <1>7, <1>8, <2>2 DEF Limited
  <2> QED BY <1>7, <1>8, <2>2, <2>3 DEF Limited
<1> HIDE DEF more
<1>13. page \in Seq(Candidate)
  BY <1>9, <1>10
<1>14. \A i \in 1 .. Len(page) : page[i] \in first
  BY <1>10
<1>15. /\ listed' \in Seq(Candidate) /\ Len(listed) \in Nat /\ Len(page) \in Nat
       /\ DOMAIN listed = 1 .. Len(listed) /\ DOMAIN listed' = 1 .. Len(listed) + Len(page)
       /\ Len(listed') = Len(listed) + Len(page)
       /\ \A i \in 1 .. Len(listed) : listed'[i] = listed[i]
       /\ \A i \in 1 .. Len(page) : listed'[Len(listed) + i] = page[i]
       /\ \A i \in 1 .. Len(listed) + Len(page) :
             i \in 1 .. Len(listed) \/ (i - Len(listed) \in 1 .. Len(page) /\ listed'[i] = page[i - Len(listed)])
  BY <1>2, <1>4, <1>13, Joined
<1>16. ASSUME more
       PROVE  /\ Len(page) = PageLimit /\ page[PageLimit] \in first /\ cursor' = page[PageLimit]
              /\ phase' = "walking" /\ cursor' = listed'[Len(listed')]
  <2>1. Len(page) = PageLimit
    BY <1>10, <1>11, <1>16
  <2>2. PageLimit \in 1 .. Len(page)
    BY <1>7, <2>1
  <2>3. page[PageLimit] \in first /\ listed'[Len(listed')] = page[PageLimit]
    BY <1>14, <1>15, <2>1, <2>2
  <2> QED BY <1>2, <1>16, <2>1, <2>3
<1>17. SearchTypeOK'
  <2>1. cursor' \in Candidate \cup {Nothing}
    BY <1>2, <1>9, <1>16
  <2>2. phase' \in {"walking", "walked"}
    BY <1>2
  <2> QED BY <1>1, <1>3, <1>15, <2>1, <2>2 DEF SearchTypeOK
<1>18. \A i \in DOMAIN listed :
          /\ listed[i] \in Candidate /\ listed[i].row \in Nat /\ listed[i].stamp \in Nat
          /\ listed[i].row \in MemoryRows /\ listed[i].stamp <= table[listed[i].row].stamp
  <2>1. \A i \in DOMAIN listed : listed[i] \in Candidate
    BY <1>4
  <2> QED BY <1>1, <2>1, Bounds DEF WalkInv, Candidate
<1>19. \A x \in rest : x.row \in Nat /\ x.stamp \in Nat /\ x.row \in MemoryRows /\ x.stamp = table[x.row].stamp
  <2>1. \A x \in rest : x.row \in MemoryRows /\ x.stamp = table[x.row].stamp
    BY <1>6 DEF CandidateOf
  <2> QED BY <1>7, <2>1 DEF Dated
\* Rows of the pages before come before the rows of this one.
<1>20. ASSUME NEW i \in DOMAIN listed, NEW x \in rest
       PROVE  Newer(listed[i], x) /\ listed[i].row # x.row
  <2>1. phase = "walking" /\ Len(listed) > 0 /\ cursor = listed[Len(listed)]
    <3>1. listed # <<>>
      BY <1>4, <1>20
    <3> QED BY <1>1, <1>2, <3>1 DEF WalkInv
  <2>2. Len(listed) \in DOMAIN listed
    BY <1>15, <2>1
  <2>3. cursor \in Candidate /\ cursor # Nothing
    BY <1>18, <2>1, <2>2, MemorySearchAssumption
  <2>4. cursor.row \in Nat /\ cursor.stamp \in Nat
    BY <1>18, <2>1, <2>2
  <2>5. Newer(cursor, x)
    BY <1>6, <1>19, <2>3, <2>4 DEF After, Newer
  <2>6. i = Len(listed) \/ Newer(listed[i], cursor)
    <3>1. i = Len(listed) \/ i < Len(listed)
      BY <1>15
    <3> QED BY <1>1, <2>1, <2>2, <3>1 DEF WalkInv
  <2>7. Newer(listed[i], x)
    BY <1>18, <1>19, <2>1, <2>4, <2>5, <2>6 DEF Newer
  <2>8. listed[i].row # x.row
    <3>1. SUFFICES ASSUME listed[i].row = x.row PROVE FALSE
      OBVIOUS
    <3>2. listed[i].stamp <= x.stamp
      BY <1>18, <1>19, <3>1
    <3> QED BY <1>18, <1>19, <2>7, <3>1, <3>2 DEF Newer
  <2> QED BY <2>7, <2>8
<1>21. ASSUME NEW i \in DOMAIN listed', NEW j \in DOMAIN listed', i < j
       PROVE  listed'[i].row # listed'[j].row /\ Newer(listed'[i], listed'[j])
  <2>1. CASE i \in 1 .. Len(listed) /\ j \in 1 .. Len(listed)
    BY <1>1, <1>15, <1>21, <2>1 DEF WalkInv
  <2>2. CASE i \in 1 .. Len(listed) /\ j \notin 1 .. Len(listed)
    <3>1. listed'[j] \in rest
      BY <1>9, <1>14, <1>15, <2>2
    <3> QED BY <1>15, <1>20, <2>2, <3>1
  <2>3. CASE i \notin 1 .. Len(listed)
    <3>1. i - Len(listed) \in 1 .. Len(page) /\ listed'[i] = page[i - Len(listed)]
      BY <1>15, <2>3
    <3>2. j \notin 1 .. Len(listed)
      BY <1>15, <1>21, <2>3
    <3>3. j - Len(listed) \in 1 .. Len(page) /\ listed'[j] = page[j - Len(listed)]
      BY <1>15, <3>2
    <3>4. i - Len(listed) < j - Len(listed)
      BY <1>15, <1>21
    <3>5. Newer(listed'[i], listed'[j])
      BY <1>10, <3>1, <3>3, <3>4
    <3>6. listed'[i] \in rest /\ listed'[j] \in rest
      BY <1>9, <1>14, <3>1, <3>3
    <3>7. listed'[i] # listed'[j]
      BY <1>19, <3>5, <3>6 DEF Newer
    <3>8. listed'[i].row # listed'[j].row
      BY <1>6, <3>6, <3>7 DEF OnePerRow
    <3> QED BY <3>5, <3>8
  <2> QED BY <2>1, <2>2, <2>3
<1>22. ASSUME NEW m \in MemoryRows, Steady(m),
              phase' = "walked" \/ (phase' = "walking" /\ ~After(cursor', CandidateOf(m)))
       PROVE  \E i \in DOMAIN listed' : listed'[i].row = m
  <2> DEFINE x == CandidateOf(m)
  <2>1. CASE ~After(cursor, x)
    <3>1. phase = "walking"
      BY <1>1, <1>2, <2>1 DEF WalkInv, After
    <3>2. PICK i \in DOMAIN listed : listed[i].row = m
      BY <1>1, <1>22, <2>1, <3>1 DEF WalkInv
    <3> QED BY <1>15, <3>2
  <2>2. CASE After(cursor, x)
    <3>1. x \in rest /\ x.row = m
      BY <1>6, <1>22, <2>2 DEF Steady, CandidateOf
    <3> HIDE DEF x
    <3>2. x \in first
      <4>1. CASE ~more
        BY <1>12, <3>1, <4>1
      <4>2. CASE more
        <5> DEFINE last == page[PageLimit]
        <5>1. last \in first /\ last \in rest /\ cursor' = last /\ ~After(last, x) /\ last \in Candidate
          BY <1>9, <1>16, <1>22, <4>2 DEF x
        <5> HIDE DEF last
        <5>2. last # Nothing
          BY <5>1, MemorySearchAssumption
        <5>3. x = last \/ Newer(x, last)
          BY <1>6, <1>19, <3>1, <5>1, <5>2 DEF After, Newer, OnePerRow
        <5> QED BY <1>8, <3>1, <5>1, <5>3
      <4> QED BY <4>1, <4>2
    <3>3. PICK i \in 1 .. Len(page) : page[i] = x
      BY <1>10, <3>2
    <3>4. Len(listed) + i \in DOMAIN listed' /\ listed'[Len(listed) + i] = x
      BY <1>15, <3>3
    <3> QED BY <3>1, <3>4
  <2> QED BY <2>1, <2>2
<1>23. WalkInv'
  <2>1. \A i \in DOMAIN listed' : listed'[i].row \in MemoryRows /\ listed'[i].stamp <= table[listed'[i].row].stamp
    <3> SUFFICES ASSUME NEW i \in DOMAIN listed'
                 PROVE  listed'[i].row \in MemoryRows /\ listed'[i].stamp <= table[listed'[i].row].stamp
      OBVIOUS
    <3>1. CASE i \in 1 .. Len(listed)
      BY <1>15, <1>18, <3>1
    <3>2. CASE i \notin 1 .. Len(listed)
      <4>1. listed'[i] \in rest
        BY <1>9, <1>14, <1>15, <3>2
      <4> QED BY <1>19, <4>1
    <3> QED BY <3>1, <3>2
  <2>2. phase' = "walking" => Len(listed') > 0 /\ cursor' = listed'[Len(listed')]
    <3>1. phase' = "walking" => more
      BY <1>2
    <3> QED BY <1>7, <1>15, <1>16, <3>1
  <2>3. phase' \in {"walking", "walked"}
    BY <1>2
  <2>4. \A m \in MemoryRows : (Steady(m)' <=> Steady(m)) /\ CandidateOf(m)' = CandidateOf(m)
    BY <1>3 DEF Steady, CandidateOf
  <2>5. \A m \in MemoryRows : After(cursor, CandidateOf(m))' <=> After(cursor', CandidateOf(m))
    BY <2>4 DEF After
  <2> QED BY <1>3, <1>21, <1>22, <2>1, <2>2, <2>3, <2>4, <2>5 DEF WalkInv
<1>24. ReadInv'
  BY <1>1, <1>3 DEF ReadInv, Steady, CandidateOf
<1>25. ResultInv'
  BY <1>1, <1>2, <1>3 DEF ResultInv
<1>26. StampInv'
  BY <1>3 DEF SearchInv, StampInv
<1>27. SteadyIsRecalled'
  BY <1>2 DEF SteadyIsRecalled
<1> QED BY <1>17, <1>23, <1>24, <1>25, <1>26, <1>27 DEF SearchInv

LEMMA SearchStutters ==
    ASSUME SearchInv, UNCHANGED searchVars
    PROVE  SearchInv'
<1>1. /\ SearchTypeOK /\ StampInv /\ UNCHANGED request
      /\ table' = table /\ pending' = pending /\ clock' = clock /\ edits' = edits /\ touched' = touched
  BY DEF SearchInv, searchVars, request
<1>2. SearchTypeOK'
  BY <1>1, RequestTyped DEF SearchTypeOK
<1>3. StampInv'
  BY <1>1 DEF StampInv
<1>4. \A r \in Rows : table[r].stamp <= table[r].stamp
  BY <1>1, TableFields DEF SearchTypeOK
<1>5. Onward
  BY <1>1, <1>4 DEF Onward
<1> QED BY <1>2, <1>3, <1>5, OnwardKeeps

-----------------------------------------------------------------------------
\* What is read holds at every step of listMemory's pages and of memoryRecall's
\* searches, whatever the writers commit between their statements.
THEOREM SearchInvariant == SearchSpec => []SearchInv
<1>1. SearchInit => SearchInv
  BY SearchInitially
<1>2. SearchInv /\ [SearchNext]_searchVars => SearchInv'
  <2> SUFFICES ASSUME SearchInv, [SearchNext]_searchVars PROVE SearchInv'
    OBVIOUS
  <2>1. ASSUME NEW r \in Rows, BeginWrite(r) PROVE SearchInv'
    BY <2>1, BeginWriteKeeps
  <2>2. ASSUME NEW r \in Rows, CommitWrite(r) PROVE SearchInv'
    BY <2>2, CommitWriteKeeps
  <2>3. ASSUME NEW r \in Rows, Expire(r) PROVE SearchInv'
    BY <2>3, ExpireKeeps
  <2>4. ASSUME NEW r \in Rows, StoreVector(r) PROVE SearchInv'
    BY <2>4, StoreVectorKeeps
  <2>5. CASE ListPage
    BY <2>5, ListPageKeeps
  <2>6. CASE BeginRecall
    BY <2>6, BeginRecallKeeps
  <2>7. ASSUME NEW c \in Channels, NEW part \in Parts, Read(c, part) PROVE SearchInv'
    BY <2>7, ReadKeeps
  <2>8. CASE SemanticFails
    BY <2>8, SemanticFailsKeeps
  <2>9. CASE FailRecall
    BY <2>9, FailRecallKeeps
  <2>10. CASE Search
    BY <2>10, SearchKeeps
  <2>11. CASE AnswerRecall
    BY <2>11, AnswerRecallKeeps
  <2>12. CASE UNCHANGED searchVars
    BY <2>12, SearchStutters
  <2> QED
    BY <2>1, <2>2, <2>3, <2>4, <2>5, <2>6, <2>7, <2>8, <2>9, <2>10, <2>11, <2>12 DEF SearchNext
<1> QED BY <1>1, <1>2, PTL DEF SearchSpec

\* Every state of listing and recalling is well typed, and an answer has at most
\* Limit memories (splitRecallResults).
THEOREM SearchTypeCorrect == SearchSpec => []SearchTypeOK
<1>1. SearchInv => SearchTypeOK
  BY DEF SearchInv
<1> QED BY <1>1, SearchInvariant, PTL

\* The pages of memory_list neither repeat nor skip a memory, however many there are,
\* whatever the page size and whichever of them are written while the client turns
\* them (listMemory, queryMemoryList).
THEOREM WalksAreExact == SearchSpec => []WalkIsExact
<1>1. SearchInv => WalkIsExact
  BY DEF SearchInv, WalkInv, WalkIsExact, Steady
<1> QED BY <1>1, SearchInvariant, PTL

\* A memory that matches the words of the query and stays as it is is recalled unless
\* Limit others are or every channel that matches it is full, for any selectors,
\* limits and scores (SearchMemory, truncatePerKind, mergeRecallResults,
\* splitRecallResults).
THEOREM SteadyMemoriesAreRecalled == SearchSpec => []SteadyIsRecalled
<1>1. SearchInv => SteadyIsRecalled
  BY DEF SearchInv
<1> QED BY <1>1, SearchInvariant, PTL
=============================================================================
