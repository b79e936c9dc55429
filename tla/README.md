# Verification of memory-recall-coin

memory-recall-coin is a shared memory for coding agents: an MCP stdio server on
every device, a central HTTP service in two Kubernetes pods, and one PostgreSQL
database in which every piece of protocol state lives. This directory holds TLA+
modules of the parts whose correctness depends on interleavings, crashes and
retries, the configurations that model-check them with TLC, and theorems about
them that TLAPS checks. Line numbers refer to the repository's files; the
definition-by-definition correspondence is the `map` of `PROJECT.json`.

## 1. Inventory

| Component | Source | State | Operations | Modelled in |
|---|---|---|---|---|
| Memory store | `internal/service/memory.go`, `store.go`, `similar.go`, migrations | `memories`, `memory_revisions`, `memory_relations` | put, patch (content, append, amend, fields), delete, restore, supersede, refute, touch; get, list, history | `MemoryStore`, `VersionLog` |
| Idempotency | `store.go` (`lockIdempotency`, `loadIdempotency`, `saveIdempotency`) | `idempotency_records`, an advisory lock per key | lock, replay, record, expire | `MemoryStore` |
| Namespace catalogue and locks | `namespace.go`, `store.go` (`assertNamespaceActive`, `lockNamespaces`), `embedding_worker.go` | `namespaces`, advisory locks, row locks | create, delete (recursive or not), list; the guard of every mutation | `NamespaceLocks` |
| Embedding pipeline | `embedding_worker.go`, `memory.go` (`enqueueMemoryEmbedding`), `main.go` | `embedding`, `embedding_model`, `embedding_jobs` | enqueue, claim, complete, fail, reconcile, start and stop of pods | `EmbeddingQueue` |
| Board threads | `board.go` | `board_threads`, `board_messages` | post, reply, resolve (with promotion), read, counts | `BoardThreads` |
| Board watch | `board_wait.go`, `cmd/.../board.go` | the session's pid and marker files | long poll, `board counts`, `board wait` | `BoardWatch` |
| Device identity | `device.go`, `identity/identity.go` | `devices`, `installations`, `device_signals`, the identity file | register, refresh, claim, migrate, whoami | `DeviceIdentity`, `ClientIdentity` (the file) |
| HTTP API and client | `api/server.go`, `api/client.go` | a five-minute identity cache per pod; the identity a bridge process has loaded | RPC dispatch, caller verification; automatic registration, persisting identities | `ClientIdentity`, `DeviceIdentity` (the cache) |
| Source ingestion | `source.go` | `ingestion_roots`, `sources`, `source_contents`, `source_versions`, `source_chunks` | synchronise a manifest, prune, delete, chunk | `SourceSync`, `SourceIndex`; one root as a version in `WatchManager` |
| Watch manager | `ingest/watch.go`, `ingest/scanner.go` | watches by id, reserved paths, timers | watch, stop, close, debounced synchronisation | `WatchManager` |
| Search and recall | `search.go`, `mcpserver/recall.go` | none; a client's cursor | listing by pages; exact, substring, lexical and vector channels, rank fusion, recall over several namespaces | `MemorySearch` |
| MCP bridge | `mcpserver/server.go`, `validation.go` | the binary's stamp | tool schemas, delegation | not modelled |
| Consus bridge | `consus/`, `mcpserver/object.go` | none | upload, download, pack | not modelled |
| Embedding provider | `embedding/` | none | HTTP client | external to `EmbeddingQueue` |
| Configuration, types, database | `config/`, `domain/`, `database/` | schema | parse, migrate | not modelled |

**How they interact.** Every component of the service talks to the others
through the database only. A mutation takes the shared advisory locks of the
namespaces above its target, writes rows, and enqueues an embedding job in the
same transaction. Workers of both pods poll the queue, call the provider outside
any transaction, and write the vector in a second one. A pod that starts
reconciles the queue with its own model, and once more 30 seconds later, while
the pod it replaces is still up. A board resolution with `promote_to_memory`
commits a memory first and resolves afterwards. Every request names its caller
by installation code, which a pod verifies against the device tables or, for
five minutes, against its own cache. A watch keeps a local path in the central
index by whole manifests that the service stores, each in one transaction. A
bridge process registers itself when a call finds no identity, and keeps what it
has registered as in a file that all processes of the machine share. A recall is
one search per namespace it was asked for, and a search up to eight statements.
A session's hooks start `board` processes that share files with one another and
poll the service.

**What is hard.** READ COMMITTED transactions that read in one statement and
write in another; retries under an idempotency key; lock orders of five kinds of
transactions; answers of a slow provider that arrive after an edit, a takeover
or a rollout; device merges under requests that have read the device; file
events before, during and after the scan they should cause; roots that overlap;
an identity held in a file, in every process and on the server; statements of
one answer that see different states; clocks - of pods in message ids, of the
database between INSERT and COMMIT; processes killed between two file writes.
`PROJECT.json` lists these hazards with their lines and the properties about each.

**What makes each component correct.** The store: no update is lost, the history is
complete and never rewritten, a key has one answer, an amend edits the text it
matched. Namespaces: the tree stays whole, a deletion leaves nothing behind and
counts exactly, lock orders fit. Embeddings: a vector belongs to the current text,
and every memory is embedded in the end. Board: conditional writes do not cross,
readers miss nothing. Watch: the marker skips nothing the session could have been
told, and a live watcher tells. Devices: merges end at an active device, no
registration ends on a merged one. Clients: a process comes to an identity, acts
only for installations of its own and finds back to its device. Ingestion:
synchronisations of overlapping roots are serialisable and a file that is gone from
every root leaves the index. Retrieval: a listing has no gaps and no repetitions,
and what matches is recalled. Watches: a watch with nothing to do has the index
current or says that it has not, no watch takes the index back, and a stopped watch
stays stopped. Several of these the code keeps only up to exceptions; each property
names its own, and section 6 lists them.

## 2. Modules

Each component has one module with its variables, `Init`, one action per
statement or handler, `Next` and `Spec`; an `MC` module with the sets of calls
and the symmetry of its instances; configurations; and a module `...Proofs` for the
theorems about it (section 5). `BridgeProofs` is about `BoardWatch` and
`ClientIdentity`, `RetrievalProofs` about `EmbeddingQueue` and `MemorySearch`;
as each extends two components, the second one's `Init`, `Next`, `Spec` and some
actions have names of their own (`ClientInit`, `SearchNext`).

### MemoryStore, VersionLog

A request is a transaction: `Begin` (beginMutation and the idempotency lock),
then, where the code reads shared rows in a statement of their own, a step for
that read (`CheckSimilar` of memory_put, `ReadAmend` of an amend), and one step
for the writing statement with its revision trigger, `saveIdempotency` and
COMMIT (`InsertPut`, `UpdatePatch`, `UpdateLifecycle`, `UpdateRestore`,
`UpdateSupersede`, `UpdateRefute`). The statement may read and write at once
because it takes the row lock that lasts until COMMIT; two transactions that
would write one row are serialised by it. `Abort` is every error return, a lost
connection and a killed pod. `Replay` is a request that finds its record, and
`Expire` the record's end. A text is a sequence of passages, some of them
inferred; near duplicates are equal texts. Titles, TTLs, pins, tags and metadata
are abstracted.

`VersionLog` is the abstract specification: per memory a log of rows to which
steps append. `ImplementsVersionLog` maps the rows and revisions to it.

### EmbeddingQueue

Memories with a vector or none, their jobs, the claims workers hold in memory, the
pods and a reconciliation in progress. Mutations are one step each, since they lock
what they touch; `Claim`, `Complete` and `Fail` are the worker's transactions;
`Lose` is a batch whose answer is never recorded; `Stop` kills a pod with its
claims; the two statements of a reconciliation are two steps, because workers take
no namespace lock. A pod's second reconciliation may fail (`RerunFails`), is then
only logged and not tried again; pods in `Retiring` belong to the ReplicaSet that
the rollout replaces, and once stopped may stay away. `locked_at` of a claim is
represented by the worker that set it. Time only enables: a backoff or the five
minutes of a claim may be over whenever a worker looks.

### NamespaceLocks

Every transaction that locks namespaces, advisory locks and row locks together in
one table `held`. `Script` gives the order of advisory locks of each kind of
transaction, `Acquire` takes one, `LockMemories`, `LockJob` and so on the rows, in
the order of the statements. A worker whose batch failed locks the rows of its jobs
one after the other in any order, which is the order of its claim (`FailBatch`),
passes over those that are no longer its own (`SkipJob`), and holds the others until
`Fail` sends them all back. The writes of a transaction and its COMMIT are one step.
There is at most one memory with its job per namespace, mutations that enqueue
nothing are left out, and the reconciliation is for a new model.

### BoardThreads

Threads with their message ids in commit order. `Lock`, `Check` and
`Reply`/`Resolve` are the statements of the transaction; `BeginPromoted` commits the
memory before it starts. Ids come from the clock of the pod that serves the call
(`Tick`); a pod makes one id per millisecond here, so that the random part of an id,
which orders those of one millisecond by chance, is left out. `look` is what an
agent knows: the newest id it was shown, what it has read, and how many messages
there were.

### BoardWatch

The database clock, messages that are stamped by INSERT and visible from COMMIT, the
`board counts` process of SessionStart, watcher processes, and the pid and marker
files. The actions follow `acquireWatcherLock` (`FindLock`, `TakeLock`),
`initialBoardSince` (`Start`), the long poll (`ReadClock`, `Query`), the marker
(`Record`) and the exit (`Wake`, `Quit`, `Kill`). A watcher is a process of one
life; a kill may come before, between and after its writes, and one in the middle of
a write leaves the marker torn (`Interrupted`), which counts as none. An answer
holds the newest `Limit` messages (`NewestOf`) and moves the marker to the reading
of the clock all the same. `excused`, `lost` and `late` are history variables that
only properties read: `lost` are the messages of a watcher killed after the marker
and before it told. Tags and the session's own messages are left out; the clock
moves with each stamp, so no two coincide.

### DeviceIdentity

The tables `devices`, `installations` and `device_signals`, the caches of the pods,
and requests as transactions. `Ask` is `verifyCaller` with the cache, or past an
expired entry; `Begun` and `Acquire` take the advisory locks in the order of the
code (`LocksOf`). Of a registration, `ReadExisting` and `Refresh` are the statements
for a known installation, `Match` and `Enroll` those for a new one: what `Match`
reads - the devices with the machine's hardware, whether the device asked for exists
- is relied on by `Enroll`, behind the device's lock. A claim is `CheckTarget` and
`Claim`; a migration marks its source as merged and moves the installations that are
on it by then, whose rows it holds from there on (`Merge`), then moves the signals
and commits (`Migrate`). `Clear` is the whole cache of a pod, which a claim and a
migration drop after they have committed, when others may have run in between; a
registration leaves it alone. Of row locks those on moved installations are modelled
and those on `device_signals` are not. `raced` is a history variable: installations
that claimed a device while it was being merged. Hardware is one strong signal per
machine, and the weaker signals, which only change the answer from automatic to
`claim_required`, are left out.

### ClientIdentity

The machine's side of the same protocol: the identity file, the copy of it each
bridge process keeps for life (`Loaded`), and tool calls as threads. `StartCall` is a
call that loads the identity, `RegisterDevice` one that has `registrationMu` and
loads it again, `Serve` the request at the service, `Reload` what `MigrateDevice`
does instead of reading an answer, `Save` and `SetIdentity` the two writes of
`persistRegistration`, and `SendRegistered` the call that had to register first.
`GiveUp`, `ServeStray`, `Restart` and `Reinstall` are the faults: an answer or a
request lost or late, a process ended, the file gone. `Elsewhere` is another
machine that claims and migrates devices.

`device_register` and `device_whoami` may name an installation (`Asked`), and the
client stores the answer as its own. The service is one step per request but for a
claim, which looks at its target in one step and moves to it in another
("claiming"), so that a migration may come in between; a registration or another
claim of its installation waits for it (`Locked`). `WhoAmI` follows one merge
(`Resolved`). The pods' caches are a set of entries that some pod has and the tables
no longer bear out (`stale`): a caller is verified against the tables or one of them
(`Taken`), a change of the tables may leave one behind (`CachesKeep`), and `Expire`
is the end of its five minutes. Whether the machine has a tailnet identity is chosen
at the start (`Tailnets`). `mine` and `named` are history variables. Hardware
signals match for certain.

### SourceSync, SourceIndex

Synchronisations as transactions: `Begin` sorts the manifest and takes the root,
`FindSource`, `EnsureContent` and `InsertSource` are the statements for a file,
`Prune` and `PruneRow` the UPDATE of a complete manifest, which finds its rows
first and looks at each again behind its lock, `Commit` and `Abort` the end.
What a transaction writes is its own (`writes`, `created`) until then.
`DeleteSource` is a transaction of one statement. Statements that can neither
wait nor be overtaken belong to the step before them. A content stands for a
file's text with its parser and its chunks; a manifest names the files it found
below its root, which may lie below another root too. `gone` is a history
variable: the roots whose last complete manifest came without a file.

`SourceIndex` is the abstract specification: an index on which a manifest acts
in one step as if it were alone. `SynchronisationsAreSerial` maps the tables to
it, the source versions to the history of each file.

### MemorySearch

A reader beside writers. `ListPage` is one statement of `listMemory` with its keyset
cursor. A recall takes its selectors in turn; for each, four channels run in
goroutines, and every channel is two statements with snapshots of their own
(`Read`), memories before chunks. `Search` is what `SearchMemory` does with them -
fusion, the limit per kind - and `mergeRecallResults`; `AnswerRecall` the final sort
and split. `SemanticFails` goes on without the channel, `FailRecall` ends the
recall. The scores of a text are constants (`Hits`) in the ranges that PostgreSQL's
functions have (`Scores`), and the arithmetic on them is that of the code in
integers: exact matches in tenths, relevance in millionths. The clamps of
`hybridRelevance` and of the final score are left out, as there is nothing for them
to cut (`FusedOK` of `RetrievalProofs`). Writers begin and commit, since
`updated_at` is the time of the statement; a row may expire, and a worker may store
its vector.

### WatchManager

The path on disk as a version and whether it exists, the index as the version
stored last, and per watch its stage, its two goroutines, its queue of events,
the debounce timer, the trigger channel of capacity one and the request it waits
for. `Watch`, `SendFirst`, `AnswerFirst`, `Arm`, `CommitWatch` and `Refuse` are
the call, which scans and uploads before it watches and starts with a trigger of
its own; `HandleEvent`, `WatchError`, `Fire` and `EndEvents` the event
goroutine; `TakeTrigger`, `RecordSuccess`, `RecordError`, `Detach` and `EndSync`
the other; `Stop`, `Stopped`, `Close` and `Closed` the calls that cancel jobs
and wait. Between a request and its answer the service stores it (`Store`);
`Stray` is a request nobody waits for: `memory_ingest_path` beside the watch, or
one whose client is gone (`Abandoned`). `CloseAgain` is a Close that finds the
manager closed and returns at once (`again`). A Watch in set-up runs on with its
caller's context after either (`Busy`) and is turned away by `CommitWatch`.
`blind` says that a watch failed to watch a directory again and has lost the error
since.

## 3. Runs

States are distinct states; times are of two workers on a small machine.

| Run | Asks | Instance | Size |
|---|---|---|---|
| `MemoryPatch` | Can an amend edit the wrong text, or a key be answered twice? | 2 requests, 2 memories, 2 passages (1 inferred), 1 key, texts of 2 passages, 3 versions | 1.3M, 75 s |
| `MemoryHistory` | Are updates lost and revisions complete; is the log only appended to? | 2 requests, 2 memories, 3 versions; put, delete, restore, supersede, refute | 90 s |
| `Namespaces` | Do locks keep the tree, deletions and counts right, and which circles of waits remain? | 3 transactions, a path of 3 namespaces; batches of any jobs | 996k, 155 s |
| `Embedding` | Are vectors current while two models overlap, and does every memory get its vector? | 1 memory, 2 texts, 2 pods of which one is retiring, 3 workers, 3 versions, 2 attempts, 2 stops | 442k, 160 s |
| `BoardOnePod` | Do conditional writes cross; do readers follow? | 3 agents, 1 thread, 1 pod, 3 messages | 175k, 10 s |
| `BoardTwoPods` | The same with two clocks (violated) | 2 agents, 2 pods | |
| `BoardWatch` | What may the marker skip of the messages that were visible in time; does a live watcher tell of them? | 2 messages, 2 watchers, 3 of the four at most, answers of 1 message, lookback 1 | 194k, 110 s |
| `Devices` | Do merges end, does anyone stay on a merged device, do lock orders fit? | 2 requests, 1 pod, 3 installations of 1 machine, 2 devices; 2 of them claim and migrate | 1.9M, 90 s |
| `Clients` | Does a process come to an identity, act for its own installations only and recover from a stale device? | 1 process with 2 calls at a time, with and without a tailnet identity, 3 installations, 3 devices, 2 codes to name, 2 claims or migrations, 1 fault | 883k, 145 s |
| `Sources` | Are overlapping synchronisations serialisable, is a vanished file deleted, which circles of waits remain? | 2 transactions, 2 roots, one below the other | 1.2M, 90 s |
| `Retrieval` | Does a listing skip or repeat a row; is a memory that nobody touches recalled? | 3 memories, 2 sources of one chunk, 4 texts, 2 selectors, 1 write | 927k, 115 s |
| `Watches` | Is an idle watch current, is the registry whole, does the index go forward, what still synchronises when Stop and Close return? | 2 watches, 3 changes, 1 stray request, Close any number of times | 1.4M, 75 s |

**Bounds.** Two requests suffice for the store because every conflict there is
between two transactions on one row or one key, and the rest of the state is rows;
three versions are enough to restore, to overwrite a restore and to reuse a version
number stale by two. Three transactions and a path of three let a deletion in the
middle race one above and a mutation below, and close a lock cycle through a third
party. Only the deletion of the whole path is recursive and memories are in the
lower two namespaces: a failed batch and a deletion then meet over two jobs, the
least that two orders need. Three versions let a text change and return under a
claim; two attempts let a takeover, a retry and a last failure occur; two stops let
the old pod go for good and the new one restart. Three messages on a thread are one
to answer, one that crosses, and one to notice. Two watchers are needed for the pid
file, two messages to crowd an answer of one, and a message can be behind, at or
ahead of every reading of the clock; `MaxActors` lets both messages meet one watcher
or one message meet both. Two devices can be merged in either direction and three
installations leave one to move, one to race and one to arrive; a third device adds
longer chains of merges but no new pair of transactions, and `DeviceIdentityProofs`
is about any number. A path that changes three times can be written during a scan,
removed and made again while two watches take turns on it. Two calls in one process
are enough for every race on its mutex and its copy, one move before and one after
an answer for a stale one, and two moves for a claim that races a first merge and is
left behind by a second. The codes to name are another machine's and one never
registered. A lost answer, a restart, a reinstallation, an entry that a cache keeps
and a call that names a code each count as the one fault: two of them at once, such
as a named code and a stale entry, are not explored by TLC; the safety property is
proved for any number. Two overlapping roots, two transactions and two versions of a
file let a file be taken over before, between and after the two halves of a pruning;
a circle of waits needs two. A listing of three rows with pages of one has a first,
a middle and a last page; a limit of one memory makes the chunks and the other
memories compete, and a write between any two of the eight statements shows a row to
one channel as it was and to the next as it is. Deadlock checking is off in the
`Embedding`, `Watches` and `Retrieval` runs only, where the bound on versions or
changes or the end of the one request ends every behaviour (a cycle of locks is the
invariant `NoWaitCycle`, `DeadlockOnlyAtWorkers` or `CirclesAreExplained`
elsewhere); in the other runs some step is always possible.

**Symmetry** is used only in runs without liveness properties, over values the
modules treat alike.

## 4. Fairness

`EmbeddingQueue!Fairness`: pods of the present ReplicaSet are restarted by
Kubernetes (weak fairness of `Start`, of no pod in `Retiring`), and a reconciliation
comes to an end, the first one of a pod with success, as the pod does not serve
before it, and the second with success or a logged failure (weak fairness of its
statements and `RerunFails` together); workers poll without end and finish every
batch, since provider calls time out after 30 seconds (weak fairness of claiming and
of the end of a batch); and the database is reachable again and again, so that not
every answer comes after its claim was taken over (strong fairness of `Answer`).
Without the last one nothing rules out that every answer is late.

`BoardWatch!Fairness`: a live watcher keeps stepping (weak fairness of
`ReadClock` and `Wake`), and not every poll fails (strong fairness of `Query`
and `Record`): after a failure it sleeps at most a minute and tries again, for
15 minutes. Killing a watcher or its own `--max-wait` stay possible: the
property ends with the watcher. Nothing is assumed about users, mutations or
`Stop`.

`ClientIdentity!ClientFairness`: tools are called now and then, which load the
identity (weak fairness of `StartCall` of any other method), and a call that nothing
holds up goes on, as the HTTP client waits for no more than its timeout (weak
fairness of its steps). A claim whose client is gone ends all the same, and what a
pod has cached expires (weak fairness of `ServeStray` of a claim under way and of
`Expire`). Faults are bounded, so that not every registration is lost. `WhoAmIHeals`
assumes, in its own premise, that somebody calls `device_whoami` again and again.

## 5. Proofs

`MemoryStoreProofs` proves every property of the `MemoryPatch` and
`MemoryHistory` runs, for any requests, memories, keys, passages, calls and bounds
that satisfy `MemoryStoreAssumption`:

| Theorem | States |
|---|---|
| `TypeCorrect` | `Spec => []TypeOK` |
| `HistoryAlwaysComplete` | `Spec => []HistoryComplete` |
| `StoreRefinesVersionLog` | `Spec => ImplementsVersionLog` |
| `OneAnswer` | `Spec => []OneAnswerPerKey` |
| `NoUpdateLost` | `Spec => NoLostUpdate` |
| `AmendsInPlace` | `Spec => AmendInPlace` |

The argument has three layers. Every action writes rows in the same way:
`WriteStep` says that a step either leaves the tables of memories and revisions
alone or writes, to some memories, a row that is one version further, with its
revision; one lemma per action (`PutWrites`, `PatchWrites`, ...) shows it, and
`StepWrites` collects them. Type correctness, the complete history and the
refinement follow from `WriteStep` without a look at the actions.
`HistoryComplete` is inductive together with `TypeOK`. For the refinement,
`LogGrows` shows that a write appends exactly one row to the log that the
mapping chooses from the revisions.

`OneAnswerPerKey` is not inductive: two answers differ only if a second
transaction ran under a key whose first had committed. `KeyInv` adds that a key
is held by at most one transaction (`KeyHeld`), that a held key has no live
record (`HeldUnanswered`) and that the answers of a live record are the record's
own (`AnswersRecorded`). For `AmendInPlace`, `AmendInv` says that the text an
amend has seen is still the row's: every other write of the row waits for the
lock its SELECT took (`WriteSpares`).

`NamespaceLocksProofs` proves, for any paths that are closed under what is above
them, any transactions and any calls that satisfy `NamespaceLocksAssumption`:

| Theorem | States |
|---|---|
| `TypeCorrect` | `Spec => []TypeOK` |
| `TreeWhole` | `Spec => []ActiveUnderActive` |
| `TombstonesEmpty` | `Spec => []NoRecordsInTombstone` |
| `CountsExact` | `Spec => []CountsAreExact` |
| `DeadlocksNeedWorkers` | `Spec => []DeadlockOnlyAtWorkers` |

The first lemmas are about paths and about the script of locks that a call
follows: the names it locks are the chain of its target, each once. With that
`IInv` says that a transaction past its advisory locks holds its whole chain,
that no two hold locks that exclude each other (`Exclusion`), and that what each
has read of the tree is still so. A purge above anybody at work would be two such
locks (`Clash`), so the tree is whole and a tombstone gets no new records.
`CountsAreExact` needs the row locks as well: `RowsInv` adds that nobody takes a
job from a deletion that counts and that no two deletions work on one namespace.

`DeadlockOnlyAtWorkers` is about the orders in which locks are taken. `OrderInv`
says which rows each kind of transaction has taken and which it is still after: a
mutation takes the memory before the job, a completion the job before the memory, a
deletion all jobs of its subtree in order and before its memories, a failed batch
nothing but jobs, in any order. A reconciliation excludes all but completions. Of a
circle of waits, `NobodyIsLocking` shows that none of it waits for an advisory lock:
the one among those with the least of its script locked would wait for one with
more, and a lock is as deep in one script as in another. So all wait for rows.
Advisory locks keep two transactions off one namespace unless both are mutations or
one is a worker's (`WorksAlone`), which takes no such lock. Without a completion and
a batch the circle therefore has only mutations of one namespace, whose rows come in
one order. A creation holds no row. Without a batch a deletion is in no circle, as
it takes jobs first like the completion and waits for a memory only when it has all
jobs.

`RetrievalProofs` proves of the embedding queue, under `EmbeddingQueueAssumption`:

| Theorem | States |
|---|---|
| `TypeCorrect` | `Spec => []TypeOK` |
| `VectorsCurrent` | `Spec => []ActiveVectorCurrent` |

The property is not inductive, as a worker stores what it read at its claim.
`ActiveInv` adds that the job of an active memory has the hash of its text and
that a claim which still owns its job has read the text of that hash.

The same module proves every property of the `Retrieval` run, under
`MemorySearchAssumption`: any rows, texts and scores, selectors, page and recall
limits, and any number of writes.

| Theorem | States |
|---|---|
| `SearchTypeCorrect` | `SearchSpec => []SearchTypeOK` |
| `WalksAreExact` | `SearchSpec => []WalkIsExact` |
| `SteadyMemoriesAreRecalled` | `SearchSpec => []SteadyIsRecalled` |

`First` and `InOrder` are the ORDER BY and LIMIT of the code, and the first lemmas
are about them in any linear order (`Ranks`, `FirstPlaces`, `EachAtItsPlace`): each
of n rows has a place of its own, and the first k either are all or number k. Each
order of the program is then shown to be linear where it is used, which rests on
there being one candidate per row and statement. `SearchInv` is the invariant, which
TLC checked first. `StampInv` says that a row's next version is never older than the
one readers see, so a write moves a row towards the front of the listing and never
past the cursor: `WalkInv` therefore keeps that whatever stayed lies on the pages if
it lies before the cursor, and that nothing already shown comes again. `ReadInv`
says of each statement of a search that a memory which matches and stays is among
its candidates or they are as many as `CandidateLimit`, and `ResultInv` of the
searches done that it is among the results, or `Limit` other memories are, or every
channel that matches it was full. The step that needs the work is `Search`: chunks
enter both the channels and the fusion and must not cost a memory its place
(`truncatePerKind`), and merging by kind and id drops no memory. `FusedOK` bounds
the relevance by one and the final score by one.

`BridgeProofs` proves of the board watch, under `BoardWatchAssumption`:

| Theorem | States |
|---|---|
| `TypeCorrect` | `Spec => []TypeOK` |
| `NothingPassed` | `Spec => []NothingSkipped` |

`NothingSkipped` says what the marker costs and nothing beyond: of the messages that
were visible in time it passes, unheard, those of a watcher killed between the
marker and the telling (`lost`), and those older than a full answer (`Crowded`: at
least `Limit` newer messages were announced). `HeardInv` says what `NothingSkipped`
says of the marker of every reading of the clock that the counts or a watcher may
still record, and that the answer of a poll holds whatever is new up to its reading.
A message becomes due only ahead of every such reading (`HeardStep`). The run checks
`FairSpec`, which implies `Spec`.

The same module proves the safety of the client's identity, for any processes,
calls, installations and devices that satisfy `ClientIdentityAssumption`, with a
tailnet identity or without:

| Theorem | States |
|---|---|
| `ClientTypeCorrect` | `ClientSpec => []ClientTypeOK` |
| `InstallationsAreStable` | `ClientSpec => []InstallationIsStable` |

`ClientInv`, which TLC checked first, is about what a call in progress may rely on
although the process's copy and the file change under it. `MutexInv` is
`registrationMu`: one call of a process registers at a time. `CallOK` ties a call's
step to its request, and `WellFormed` says the same of requests nobody waits for.
`CopyOK` is the core: a request that asserted nothing is a registration of a process
that still has no copy, so the only identity it can overwrite is none; any other
asserts an installation of the process's own, the service answers about the
installation asserted or the one the call named, and so what is stored is the
process's own too. Own is the installation it came to act for first (`mine`) and
what its calls have named (`named`), since the client stores the answer about a
named installation as the machine's identity (section 6). No assumption is made of
the codes asked for, of the tailnet or of the caches.

`WatchManagerProofs` proves every property of the `Watches` run, under
`WatchManagerAssumption`:

| Theorem | States |
|---|---|
| `TypeCorrect` | `Spec => []TypeOK` |
| `OneWatch` | `Spec => []RegistryWhole` |
| `NothingMissed` | `Spec => []IdleIsCurrent` |
| `Stops` | `Spec => []StopIsFinal` |
| `IndexInOrder` | `Spec => IndexGoesForward` |

The invariant is made of predicates of one job, so that a step of one job is
seen to leave the others alone: `Shape`, what a stage says of its flags; `Sees`,
that a path which exists without its watch has an event on the way that brings it
back; `Current`, that a job with no event, timer or trigger has sent, stored or
indexed the present version or has an error; `InOrder`, that it has sent nothing
older than the index. `Registry` ties them to the path and to `Close`.
`StopIsFinal` is as strong as the code is: Stop's return is the end of its watch;
the return of the first Close is the end of all but the watches some Stop still
waits for and a Watch in set-up, which goes on until `commitWatch` turns it away;
a later Close finds everything cancelled and waits for nothing.

`DeviceIdentityProofs` proves every property of the `Devices` run, under
`DeviceIdentityAssumption`:

| Theorem | States |
|---|---|
| `TypeCorrect` | `Spec => []TypeOK` |
| `MergesLeadOn` | `Spec => []MergesEnd` |
| `NobodyLeftBehind` | `Spec => []OnActiveDevice` |
| `OrdersFit` | `Spec => []NoWaitCycle` |

`LocksInv` says of a transaction that the locks it has and those on its list are in
one order and contain the lock of every device and installation it relies on, so
that two migrations in progress have no device in common and a registration has
none of theirs. `ReadsOK` says that what a transaction has read is still so when
it writes: both devices of a migration are active, and whoever is on its source
by now is moved or has claimed it in the meantime. That a merged device leads to
an active one holds over any number of devices, as the one merged last leads out
of every loop it could close. A circle of waits has no row in it, since whoever
holds rows waits for nothing, and its locks would ascend without end.

`SourceSyncProofs` proves every property of the `Sources` run, under
`SourceSyncAssumption`:

| Theorem | States |
|---|---|
| `TypeCorrect` | `Spec => []TypeOK` |
| `GoneFilesAreDeleted` | `Spec => []GoneIsDeleted` |
| `RowsAreTakenInOrder` | `Spec => []CirclesAreExplained` |
| `SynchronisationsRunAsIfAlone` | `Spec => SynchronisationsAreSerial` |

`IInv` has four parts. `Shape` is a transaction by itself: its manifest is what it
has upserted and what it has yet to, in ascending order. `Faithful` compares it
with the rows as committed: what it has read or writes still follows from them,
and no row of its root escapes its pruning. `Apart` says that no two have one row
or one root, and is why a COMMIT of one leaves the other faithful. `VersionsOK`
and `Kept` describe a file at rest: one version per generation, and active only
under a root that names it. For the refinement, a COMMIT writes what
`SourceIndex!Synchronised` computes of its manifest and the rows committed by
then, and every other step leaves the index as it is. For the circles, the
last file in the order of the manifests that anybody in the circle waits for is
held by one who is past it, and so waits for no file behind it.

`BoardThreadsProofs` proves, under `BoardThreadsAssumption`:

| Theorem | States |
|---|---|
| `TypeCorrect` | `Spec => []TypeOK` |
| `ResolvedThreadsStay` | `Spec => ResolvedIsFinal` |
| `FollowersSeeAll` | `Spec => [](IdsAscend => FollowsAll)` |
| `PostsDoNotCross` | `Spec /\ []IdsAscend => NoCrossPost` |
| `IdsAscendOnOnePod` | `OnePod` implies `Spec => []IdsAscend` |

All but the last are about any number of pods, whatever their clocks. There are two
invariants, because there are two mechanisms. `LockInv` is what the row lock of
`lockBoardThread` gives: one transaction at a time is past the lock of a thread, and
that thread is open (`Alone`). A resolved thread therefore never changes again,
whoever read it open; the memories that threads and calls name have been committed
(`AllPromoted`). `OrderInv` is what the ids of a thread give while they ascend in
the order of its commits (`Ascending`): the last id an agent was shown is the id of
the last message it looked back on (`Knows`); an expected id that is the largest is
that of the last message, and two positions with one id are one, so the thread has
not grown (`NotCrossed`). The two need one another, as a receipt moves its agent's
last id past messages it would otherwise not have seen. Messages are only appended,
so ids that ascend now always did (`PrefixAscends`). The theorems thus say that ids
out of the order of the commits are the one way in which a post crosses or a reader
misses a message. The deployment has two pods, on which nothing keeps them in order,
and `BoardTwoPods` shows what follows; a single clock does (`ClockInv`: no id lies
above it), which is what the `BoardOnePod` run is an instance of.

Every invariant and every action property of the passing runs is in the statement of
a theorem, `FollowsAll` and `NoCrossPost` under `IdsAscend`. Only model-checked are
the liveness properties (`EventuallyEmbedded`, `EventuallyTold`, `WhoAmIHeals`,
`EventuallyRegistered`), as the prover treats neither fairness nor ENABLED. What
data recursive definitions compute could not be proved either, since that needs an
induction principle over operators; no module under proof has a RECURSIVE operator.

## 6. Findings

* `BoardTwoPods`: ids are compared as if they were in commit order, but are made
  from the clocks of two pods; a conditional reply or resolution can cross one
  from the pod that is behind.

Seen while modelling, without a run of their own:

* Two concurrent puts of the same text both pass the near-duplicate check
  (`memory.go:115`; `README.md:245` describes the check for one).
* A restore to `deleted` changes the text but neither the vector nor the job
  (`memory.go:826`), so a claim in between embeds one text under the hash of
  another. Active memories are not affected (`ActiveVectorCurrent`).
* A promoted memory stays when its resolution is refused (`board.go:296`;
  `README.md:345`).
* `README.md:369` promises that the marker says what the session has really seen,
  and that nothing is missed and nothing repeated. Missed is what a watcher had found
  that is killed between writing the marker and telling
  (`cmd/memory-recall-coin/board.go:156`), and what a full answer of 20 threads leaves
  out, as the marker moves past it (`board_wait.go:15`, `115`). `NothingSkipped` has
  these two exceptions and TLC needs each of them. Repeated is a message
  that becomes visible between the reading of the clock and the query
  (`board_wait.go:53`), and what two watchers find that both found no live pid
  (`cmd/memory-recall-coin/board.go:213`).
* The marker is a clock reading, and a message can become visible behind it:
  INSERT before, COMMIT after; and `board counts` reads the clock after it has
  counted (`cmd/memory-recall-coin/board.go:92`). `NothingSkipped` is about the
  messages that were visible in time.
* A claim takes no lock on its target's device (`device.go:224`), so one that
  races a migration leaves its installation on the merged device. `WhoAmI` goes
  one merge further, not two: after a second migration the installation is
  unregistered, and `device_register` puts the process back on the merged device.
  `WhoAmIHeals` excepts it. A refresh in the same place leaves its signals behind.
* A pod's cached identity outlives a claim that the other pod served by up to
  five minutes, and a request in flight may fill the cache again after it was
  cleared. What it lets through cannot break the tables, but until then the pod
  refuses a process that knows its new device; `WhoAmIHeals` holds once it has
  expired.
* Workers take no namespace lock and the two statements of a reconciliation have
  a snapshot each (`embedding_worker.go:71`): a worker of the old model that
  stores its vector after the clearing statement leaves the memory with that
  vector and no job of the new model, although `embedding_worker.go:32` says
  that every such vector is cleared. The second reconciliation, 30 s later,
  repairs it, if it succeeds: a failure is only logged
  (`cmd/memory-recall-coin/main.go:188`). TLC finds the behaviour in the
  `Embedding` instance.
* A job of the old model that the last reconciliation did not see, or that an edit
  left with it (`memory.go:1379` does not write the model), is claimed by no pod of the
  new one, and its memory stays without a vector until some pod starts again.
  `EventuallyEmbedded` excepts it (`Stranded`).
* A batch that failed sends its jobs back in the order of the claim
  (`embedding_worker.go:408`), a deletion locks them by id (`namespace.go:513`): the two can
  wait for one another, and PostgreSQL ends one. `DeadlockOnlyAtWorkers`
  says that only a batch does this to a deletion.
* A registration looks whether the requested device exists before it takes that
  device's lock (`device.go:126`). Of two machines that ask for one new code at
  once, the second joins the device of the first without match or claim, which
  `docs/Codex-跨设备记忆系统设计.md:101` rules out.
* On a machine with a tailnet identity, two bridge processes that start side by
  side, one lost answer of a registration, or a reinstallation leave a process
  whose every registration is refused as `ALREADY_EXISTS`: it asks with a new
  installation code while the tailnet identity is bound to another
  (`device.go:78`). Only a process that reads the other's identity file recovers;
  `README.md:93` and `docs/Codex-跨设备记忆系统设计.md:107` promise more.
  `EventuallyRegistered` excepts exactly this (`RefusedFor`), and fails without the
  exception.
* Without a tailnet identity, two such processes register two installations for
  one machine, each keeps its own, and the file has the later one;
  `README.md:394` says that all sessions of a machine share one.
* `device_whoami` with another installation's code stores the answer as the
  machine's own identity (`api/client.go:394`), though the tool is declared
  read-only; so does `device_register` with a code (`api/client.go:302`). Hence the
  second half of `InstallationIsStable`.
* Answers of claims that run side by side may be stored out of order. The process
  is then refused until `device_whoami` (`WhoAmIHeals`). The file and the copy of
  a process may end different.
* A file that a nested root has taken over stays active if that root is never
  synchronised again; `GoneIsDeleted` is about files whose every root has been.
  A deleted source is revived by the next manifest that names it.
* Of two synchronisations that wait for one another over contents or pruned rows
  PostgreSQL ends one, and its watch has the error until the next event.
* `limit_per_kind` is to keep chunks from crowding memories out
  (`contracts.go:120`), but both share `candidate_limit` in every channel
  (`search.go:514`, `search.go:562`): a memory that ranks behind a hundred chunks
  in each channel that matches it is not returned, though the limit of memories
  is not reached. `SteadyIsRecalled` excuses exactly these.
* A hit may have the content of one version and the scores of another, and of a
  memory that two selectors found in two versions the one with the higher score
  stays (`recall.go:329`). A chunk under two sources takes two places of the
  limit and then one in the answer. `limit` of a recall is a limit per kind,
  although its schema says global.
* The comment at `search.go:1208` says that exact matches have a tier of their own
  whose adjacent levels no boost flips. Levels half a point apart differ by 0.0506
  in the final score and boosts by up to 0.08, and a tag match without a boost
  (0.6164) can come behind a fuzzy one with all of it (0.632).
* A directory that cannot be watched is an error of the watch until its next
  successful synchronisation clears it (`blind` in the model). A failed
  background synchronisation waits for the next event; nothing retries it.
* The service does not compare manifests by age. An older one that arrives late
  takes the index back and the watch does not notice; the properties excuse
  exactly the requests no watch waits for.
* A watch that detaches itself when its namespace is gone is not waited for by
  `Close` any more; one that some Stop waits for is not either. A Watch in set-up is
  neither cancelled nor waited for, and may store its first synchronisation
  after Close has returned (`watch.go:169`, `302`). A Close that finds the manager
  closed returns while the first is still waiting (`watch.go:304`).

## 7. Plan

1. Liveness of the watch: a change is indexed or the watch has an error, under
   weak fairness of the goroutines. It holds with two changes.
2. Pure operators against reference definitions: chunking and the backoff.

## 8. Not modelled

The MCP bridge validates and delegates. Consus, the embedding provider, the
reading of files and configuration are I/O against other systems; the provider
appears as the choice between success, failure and silence. Of retrieval the
single modes of `memory_search`, detail levels, snippets, `min_relevance`, the
listing of source chunks and the SQL of the channels themselves - what makes a
text similar to a query - are left out: none of them reads twice. Chunking is
part of a content. Deployment files fix the number of pods and the restart policy
that the models assume.
