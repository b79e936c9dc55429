---------------------------- MODULE MemoryStore ----------------------------
(***************************************************************************)
(* The memory tables of one active namespace and the eight mutations of    *)
(* internal/service/memory.go, each a READ COMMITTED transaction.          *)
(*                                                                         *)
(* A mutation opens with beginMutation and the idempotency lock (Begin).   *)
(* The two mutations that read shared rows in a statement of their own     *)
(* before the one that writes (memory_put looks for near duplicates, an    *)
(* amend reads the text it edits) get a step for that read.  The writing   *)
(* statement takes the row lock that is held until COMMIT, so it, the      *)
(* revision trigger, saveIdempotency and COMMIT are one step.  Every error *)
(* return, a lost connection and a killed pod are Abort: a rollback.       *)
(*                                                                         *)
(* A text is a sequence of passages; titles, TTLs, pins and tags are       *)
(* abstracted away.  Embedding columns are modelled in EmbeddingQueue.     *)
(***************************************************************************)
EXTENDS Naturals, FiniteSets, Sequences

CONSTANTS
    Requests,     \* tool calls in flight at the central service
    Memories,     \* memory ids
    Keys,         \* idempotency keys of one actor
    None,         \* an omitted or NULL id, key or anchor
    Passages,     \* the passages texts are made of
    Inferred,     \* those that carry the [inferred] marker
    Calls,        \* the requests clients may send in this instance
    MaxPassages,  \* bound: passages in a text
    MaxVersion    \* bound: versions of a memory

VARIABLES
    memories,     \* the memories table: the row of each id, version 0 if none
    revisions,    \* memory_revisions: the revisions of each id
    relations,    \* memory_relations: <<subject, type, object>>
    idempotency,  \* idempotency_records that have not expired, by key
    pc,           \* the statement each request's transaction has reached
    call,         \* the arguments of each request
    seen,         \* the text a request's amend has read, <<>> if no row
    answers       \* history: the answers given under each live record

vars == <<memories, revisions, relations, idempotency, pc, call, seen, answers>>

-----------------------------------------------------------------------------
Statuses == {"active", "superseded", "refuted", "deleted"}
Verifications == {"unverified", "confirmed"}
Versions == 1 .. MaxVersion
MaybeMemory == Memories \cup {None}

\* memories_content_nonempty: a stored text has at least one passage.
Texts == UNION {[1 .. n -> Passages] : n \in 1 .. MaxPassages}
MaybeText == Texts \cup {<<>>}

Row == [version: 0 .. MaxVersion, status: Statuses, text: MaybeText,
        verification: Verifications, supersedes: MaybeMemory]
NoRow == [version |-> 0, status |-> "active", text |-> <<>>,
          verification |-> "unverified", supersedes |-> None]
Revision == [from: 0 .. MaxVersion, to: Versions, after: Row]
Answer == [id: Memories, version: Versions]
NoRecord == [call |-> None]
NoCall == [op |-> "none", id |-> None, mode |-> "none", key |-> None]

\* rejectConfirmedInference
ConfirmedInference(verification, text) ==
    verification = "confirmed" /\ \E i \in DOMAIN text : text[i] \in Inferred

\* The request structs of contracts.go, as one record: "id" is the memory put,
\* or the target; "other" its supersedes_id, the replacement or the refuting
\* memory; "text" the new content, appended passage or amend replacement.
Ops == {"put", "patch", "delete", "restore", "supersede", "refute", "touch"}
Call == [op: Ops, id: MaybeMemory, expected: Versions,
         mode: {"none", "content", "append", "amend"},
         anchor: Passages \cup {None}, text: MaybeText,
         verification: Verifications \cup {"keep"}, revision: Versions,
         other: MaybeMemory, allow: BOOLEAN, key: Keys \cup {None}]

\* What the input checks ahead of a transaction let through.
Valid(c) ==
    /\ c.op # "put" => c.id \in Memories
    /\ c.op \in {"put", "supersede"} =>
         c.verification # "keep" /\ ~ConfirmedInference(c.verification, c.text)
    /\ c.op = "patch" => c.mode # "none" \/ c.verification # "keep"
    /\ c.mode = "amend" => c.anchor \in Passages

ASSUME MemoryStoreAssumption ==
    /\ None \notin Memories \cup Keys \cup Passages
    /\ MaxPassages \in Nat \ {0}
    /\ MaxVersion \in Nat \ {0}
    /\ Calls \subseteq {c \in Call : Valid(c)}

TypeOK ==
    /\ memories \in [Memories -> Row]
    /\ revisions \in [Memories -> SUBSET Revision]
    /\ relations \in SUBSET (Memories \X {"supersedes", "refutes"} \X Memories)
    /\ idempotency \in [Keys -> [call: Calls, answer: Answer] \cup {NoRecord}]
    /\ pc \in [Requests -> {"idle", "open", "read"}]
    /\ call \in [Requests -> Calls \cup {NoCall}]
    /\ seen \in [Requests -> MaybeText]
    /\ answers \in [Keys -> SUBSET Answer]

Init ==
    /\ memories = [m \in Memories |-> NoRow]
    /\ revisions = [m \in Memories |-> {}]
    /\ relations = {}
    /\ idempotency = [k \in Keys |-> NoRecord]
    /\ pc = [r \in Requests |-> "idle"]
    /\ call = [r \in Requests |-> NoCall]
    /\ seen = [r \in Requests |-> <<>>]
    /\ answers = [k \in Keys |-> {}]

-----------------------------------------------------------------------------
Exists(m) == m \in Memories /\ memories[m].version > 0

\* Mutant: the advisory lock is not taken.
KeyLockedNever(k) == FALSE

\* pg_advisory_xact_lock on (namespace, actor, key), held to the end of the
\* transaction; a request without a key takes no lock.
KeyLocked(k) == k # None /\ \E r \in Requests : pc[r] # "idle" /\ call[r].key = k

\* The row lock an amend's SELECT ... FOR UPDATE keeps on the row it found.
RowLocked(m, r) ==
    \E q \in Requests \ {r} : pc[q] = "read" /\ call[q].id = m /\ seen[q] # <<>>

\* similarity(title) or similarity(content) past the thresholds of similar.go.
NearDuplicate(s, t) == s = t

\* amendContent: the one occurrence of the anchor is replaced.
Occurrences(text, anchor) == {i \in DOMAIN text : text[i] = anchor}
Amended(text, anchor, replacement) ==
    LET i == CHOOSE j \in Occurrences(text, anchor) :
               \A k \in Occurrences(text, anchor) : j <= k
    IN  SubSeq(text, 1, i - 1) \o replacement \o SubSeq(text, i + 1, Len(text))

\* INSERT or UPDATE of a row and its revision trigger, under the CHECK
\* constraint and the bounds; rows maps the written ids to their new rows.
Write(rows) ==
    /\ \A m \in DOMAIN rows : rows[m].version <= MaxVersion /\ rows[m].text \in Texts
    /\ memories' = [m \in Memories |-> IF m \in DOMAIN rows THEN rows[m] ELSE memories[m]]
    /\ revisions' = [m \in Memories |->
            IF m \in DOMAIN rows
            THEN revisions[m] \cup {[from |-> memories[m].version,
                                     to |-> rows[m].version, after |-> rows[m]]}
            ELSE revisions[m]]

\* saveIdempotency and COMMIT: the record appears with the mutation.
Commit(r, m, version) ==
    LET k == call[r].key
        answer == [id |-> m, version |-> version]
    IN  /\ pc' = [pc EXCEPT ![r] = "idle"]
        /\ call' = [call EXCEPT ![r] = NoCall]
        /\ seen' = [seen EXCEPT ![r] = <<>>]
        /\ idempotency' = [j \in Keys |-> IF j = k THEN [call |-> call[r], answer |-> answer]
                                                   ELSE idempotency[j]]
        /\ answers' = [j \in Keys |-> IF j = k THEN answers[j] \cup {answer}
                                               ELSE answers[j]]

\* lockIdempotency with no live record under the key.
Begin(r, c) ==
    /\ pc[r] = "idle"
    /\ ~KeyLocked(c.key)
    /\ c.key \in Keys => idempotency[c.key] = NoRecord
    /\ pc' = [pc EXCEPT ![r] = "open"]
    /\ call' = [call EXCEPT ![r] = c]
    /\ UNCHANGED <<memories, revisions, relations, idempotency, seen, answers>>

\* lockIdempotency with a record of the same request: the stored response is
\* the answer.  Another method or hash under the key is an error and no step.
Replay(r, c) ==
    /\ pc[r] = "idle"
    /\ c.key \in Keys
    /\ ~KeyLocked(c.key)
    /\ idempotency[c.key] # NoRecord
    /\ idempotency[c.key].call = c
    /\ answers' = [answers EXCEPT ![c.key] = @ \cup {idempotency[c.key].answer}]
    /\ UNCHANGED <<memories, revisions, relations, idempotency, pc, call, seen>>

\* expires_at passes: 24 hours after the record was written.
Expire(k) ==
    /\ idempotency[k] # NoRecord
    /\ idempotency' = [idempotency EXCEPT ![k] = NoRecord]
    /\ answers' = [answers EXCEPT ![k] = {}]
    /\ UNCHANGED <<memories, revisions, relations, pc, call, seen>>

\* Any error return, lost connection or killed pod before COMMIT.
Abort(r) ==
    /\ pc[r] # "idle"
    /\ pc' = [pc EXCEPT ![r] = "idle"]
    /\ call' = [call EXCEPT ![r] = NoCall]
    /\ seen' = [seen EXCEPT ![r] = <<>>]
    /\ UNCHANGED <<memories, revisions, relations, idempotency, answers>>

-----------------------------------------------------------------------------
\* findSimilarMemories and rejectNearDuplicates.
CheckSimilar(r) ==
    LET c == call[r] IN
    /\ pc[r] = "open" /\ c.op = "put"
    /\ \/ c.allow
       \/ \A m \in Memories \ {c.other} :
             Exists(m) /\ memories[m].status = "active"
                => ~NearDuplicate(memories[m].text, c.text)
    /\ pc' = [pc EXCEPT ![r] = "read"]
    /\ UNCHANGED <<memories, revisions, relations, idempotency, call, seen, answers>>

\* insertMemoryTx: the id is the client's or a new one; supersedes_id refers
\* to a row.
Inserted(c) == [version |-> 1, status |-> "active", text |-> c.text,
                verification |-> c.verification, supersedes |-> c.other]
CanInsert(c, id, m) ==
    /\ id \in {m, None}
    /\ ~Exists(m)

InsertPut(r) ==
    LET c == call[r] IN
    /\ pc[r] = "read" /\ c.op = "put"
    /\ c.other = None \/ Exists(c.other)
    /\ \E m \in Memories :
        /\ CanInsert(c, c.id, m)
        /\ Write([x \in {m} |-> Inserted(c)])
        /\ Commit(r, m, 1)
    /\ UNCHANGED relations

\* Mutant: the first of several occurrences will do.
AnchorFound(text, anchor) == Occurrences(text, anchor) # {}

AnchorMatches(text, anchor) == Cardinality(Occurrences(text, anchor)) = 1

\* amendContent: reads the row at the expected version and locks it; a row at
\* another version is left to the version check of the UPDATE.
ReadAmend(r) ==
    LET c == call[r]
        row == memories[c.id]
    IN
    /\ pc[r] = "open" /\ c.op = "patch" /\ c.mode = "amend"
    /\ \/ /\ row.version = c.expected
          /\ ~RowLocked(c.id, r)
          /\ AnchorMatches(row.text, c.anchor)
          /\ Amended(row.text, c.anchor, c.text) # <<>>
          /\ seen' = [seen EXCEPT ![r] = row.text]
       \/ /\ row.version # c.expected
          /\ UNCHANGED seen
    /\ pc' = [pc EXCEPT ![r] = "read"]
    /\ UNCHANGED <<memories, revisions, relations, idempotency, call, answers>>

\* Mutant: the version is compared with what the client saw or anything older.
CanUpdateStale(r) ==
    LET c == call[r] IN
    /\ Exists(c.id)
    /\ memories[c.id].version >= c.expected
    /\ ~RowLocked(c.id, r)

\* UPDATE ... WHERE version = expected_version, on the row as it is when its
\* lock is granted.
CanUpdate(r) ==
    LET c == call[r] IN
    /\ Exists(c.id)
    /\ memories[c.id].version = c.expected
    /\ ~RowLocked(c.id, r)

\* The check on the row the UPDATE returns.
Rejected(c, row) == ConfirmedInference(row.verification, row.text)

\* The content the patch leaves: an amend writes what it computed from the
\* text it read, the empty string if it read none.
Patched(r) ==
    LET c == call[r] IN
    CASE c.mode = "content" -> c.text
      [] c.mode = "append"  -> memories[c.id].text \o c.text
      [] c.mode = "amend"   -> IF seen[r] = <<>> THEN <<>>
                               ELSE Amended(seen[r], c.anchor, c.text)
      [] c.mode = "none"    -> memories[c.id].text

UpdatePatch(r) ==
    LET c == call[r]
        row == [memories[c.id] EXCEPT
                  !.version = @ + 1, !.text = Patched(r),
                  !.verification = IF c.verification = "keep" THEN @ ELSE c.verification]
    IN
    /\ c.op = "patch"
    /\ pc[r] = (IF c.mode = "amend" THEN "read" ELSE "open")
    /\ CanUpdate(r)
    /\ ~Rejected(c, row)
    /\ Write([x \in {c.id} |-> row])
    /\ Commit(r, c.id, row.version)
    /\ UNCHANGED relations

\* updateLifecycle and TouchMemory: the text stays.
UpdateLifecycle(r) ==
    LET c == call[r]
        row == [memories[c.id] EXCEPT
                  !.version = @ + 1,
                  !.status = IF c.op = "delete" THEN "deleted" ELSE @]
    IN
    /\ pc[r] = "open" /\ c.op \in {"delete", "touch"}
    /\ CanUpdate(r)
    /\ Write([x \in {c.id} |-> row])
    /\ Commit(r, c.id, row.version)
    /\ UNCHANGED relations

\* Mutant: the version column is restored with the others.
RestoredAsWas(m, revision) == revision.after

\* The snapshot's columns, its status included, under a version of its own.
Restored(m, revision) == [revision.after EXCEPT !.version = memories[m].version + 1]

UpdateRestore(r) ==
    LET c == call[r] IN
    /\ pc[r] = "open" /\ c.op = "restore"
    /\ CanUpdate(r)
    /\ \E revision \in revisions[c.id] :
        LET row == Restored(c.id, revision) IN
        /\ revision.to = c.revision
        /\ Write([x \in {c.id} |-> row])
        /\ Commit(r, c.id, row.version)
    /\ UNCHANGED relations

Marked(row) == [row EXCEPT !.version = @ + 1, !.status = "superseded"]

\* SupersedeMemory: replacement, mark and relation in one transaction.
UpdateSupersede(r) ==
    LET c == call[r] IN
    /\ pc[r] = "open" /\ c.op = "supersede"
    /\ CanUpdate(r)
    /\ \E m \in Memories :
        /\ CanInsert(c, c.other, m)
        /\ Write([x \in {m, c.id} |-> IF x = m THEN Inserted([c EXCEPT !.other = c.id])
                                               ELSE Marked(memories[c.id])])
        /\ relations' = relations \cup {<<m, "supersedes", c.id>>}
        /\ Commit(r, m, 1)

\* Mutant: the relation is written whether a refuting memory is named or not.
RefuteLinksAlways(c) == {<<c.other, "refutes", c.id>>}

RefuteLinks(c) == IF c.other = None THEN {} ELSE {<<c.other, "refutes", c.id>>}

\* RefuteMemory: an unknown refuting memory, the target itself or a second
\* relation between the two fails the transaction.
UpdateRefute(r) ==
    LET c == call[r]
        row == [memories[c.id] EXCEPT !.version = @ + 1, !.status = "refuted"]
    IN
    /\ pc[r] = "open" /\ c.op = "refute"
    /\ CanUpdate(r)
    /\ c.other # None => Exists(c.other) /\ c.other # c.id
    /\ RefuteLinks(c) \cap relations = {}
    /\ Write([x \in {c.id} |-> row])
    /\ relations' = relations \cup RefuteLinks(c)
    /\ Commit(r, c.id, row.version)

Next ==
    \/ \E r \in Requests, c \in Calls : Begin(r, c) \/ Replay(r, c)
    \/ \E k \in Keys : Expire(k)
    \/ \E r \in Requests :
        \/ Abort(r)
        \/ CheckSimilar(r) \/ InsertPut(r)
        \/ ReadAmend(r) \/ UpdatePatch(r)
        \/ UpdateLifecycle(r) \/ UpdateRestore(r)
        \/ UpdateSupersede(r) \/ UpdateRefute(r)

Spec == Init /\ [][Next]_vars

-----------------------------------------------------------------------------
\* Safety.  An update by request r wrote the row of m.
UpdatedBy(m, r) ==
    /\ call[r].id = m /\ call[r].op # "put"
    /\ pc[r] # "idle" /\ pc'[r] = "idle"

\* No lost update: a row is only ever overwritten by a request whose
\* expected_version is the version it overwrites, and moves on by one version
\* (the WHERE version = $3 of every mutation, memory.go).
NoLostUpdate ==
    [][\A m \in Memories :
          Exists(m) /\ memories'[m] # memories[m] =>
              /\ memories'[m].version = memories[m].version + 1
              /\ \E r \in Requests : UpdatedBy(m, r)
                                     /\ call[r].expected = memories[m].version]_vars

\* The history of a memory is complete: one revision for each version up to
\* the current one, each following the one before, the newest being the row
\* (record_memory_revision and memory_revisions_version_idx).
HistoryComplete ==
    \A m \in Memories :
        /\ {v.to : v \in revisions[m]} = 1 .. memories[m].version
        /\ \A v, w \in revisions[m] : v.to = w.to => v = w
        /\ \A v \in revisions[m] : v.from + 1 = v.to
        /\ \A v \in revisions[m] : v.to = memories[m].version => v.after = memories[m]

\* While its record lives, an idempotency key has one answer, whatever the
\* retries and their interleaving (lockIdempotency, saveIdempotency).
OneAnswerPerKey == \A k \in Keys : \A a, b \in answers[k] : a = b

\* An amend replaces one passage of the text it overwrites, which contained
\* the anchor exactly once, whatever committed between its SELECT and UPDATE.
AmendInPlace ==
    [][\A r \in Requests :
          LET c == call[r] IN
          c.op = "patch" /\ c.mode = "amend" /\ memories'[c.id] # memories[c.id] /\ UpdatedBy(c.id, r)
             => /\ Cardinality(Occurrences(memories[c.id].text, c.anchor)) = 1
                /\ memories'[c.id].text = Amended(memories[c.id].text, c.anchor, c.text)]_vars

\* The store implements an append-only log of versions per memory: what the
\* history holds at version n is never rewritten, skipped or reordered.
LogOf(m) == [n \in 1 .. memories[m].version |->
                (CHOOSE v \in revisions[m] : v.to = n).after]
Log == INSTANCE VersionLog WITH Rows <- Row, log <- [m \in Memories |-> LogOf(m)]
ImplementsVersionLog == Log!Spec
=============================================================================
