------------------------- MODULE MemoryStoreProofs -------------------------
(***************************************************************************)
(* Theorems about MemoryStore, for any requests, memories, keys, texts and *)
(* calls.  A step either leaves the rows and revisions alone or is one     *)
(* Write of rows that each carry the next version of their memory          *)
(* (StepWrites); type correctness, the history invariant and the           *)
(* refinement of VersionLog follow from that fact.                         *)
(***************************************************************************)
EXTENDS MemoryStore, TLAPS

USE DEF Statuses, Verifications, Versions

-----------------------------------------------------------------------------
\* A row whose text may be anything, and whose version is not bounded yet.
RowWith(text) == [version: Nat, status: Statuses, text: {text},
                  verification: Verifications, supersedes: MaybeMemory]

\* One writing statement: each row written is the next version of its memory.
NextRow(m, row) == row \in RowWith(row.text) /\ row.version = memories[m].version + 1
NextRows(rows) == DOMAIN rows \subseteq Memories /\ \A m \in DOMAIN rows : NextRow(m, rows[m])
WriteStep == \E rows : NextRows(rows) /\ Write(rows)

\* A request whose operation is set carries a call that passed the input checks.
LEMMA CallOK ==
    ASSUME TypeOK, NEW r \in Requests, call[r].op # "none"
    PROVE  call[r] \in Calls /\ call[r] \in Call /\ Valid(call[r])
BY MemoryStoreAssumption DEF TypeOK, NoCall

\* The version that follows a row's.
LEMMA VersionOK ==
    ASSUME NEW row \in Row
    PROVE  row.version \in Nat /\ row.version + 1 \in Nat
BY MemoryStoreAssumption DEF Row

\* An UPDATE of the lifecycle status makes a row the next one.
LEMMA StatusUpdate ==
    ASSUME TypeOK, NEW m \in Memories, NEW row \in Row, NEW s \in Statuses
    PROVE  NextRow(m, [row EXCEPT !.version = memories[m].version + 1, !.status = s])
<1> DEFINE n == memories[m].version + 1
           new == [row EXCEPT !.version = n, !.status = s]
<1>1. n \in Nat
  BY VersionOK DEF TypeOK
<1>2. new \in RowWith(row.text) /\ new.text = row.text /\ new.version = n
  <2> HIDE DEF n
  <2> QED BY <1>1 DEF Row, RowWith
<1> QED BY <1>2, Zenon DEF NextRow

\* So does an UPDATE of content and verification state.
LEMMA TextUpdate ==
    ASSUME TypeOK, NEW m \in Memories, NEW row \in Row, NEW t, NEW v \in Verifications
    PROVE  NextRow(m, [row EXCEPT !.version = memories[m].version + 1, !.text = t, !.verification = v])
<1> DEFINE n == memories[m].version + 1
           new == [row EXCEPT !.version = n, !.text = t, !.verification = v]
<1>1. n \in Nat
  BY VersionOK DEF TypeOK
<1>2. new \in RowWith(t) /\ new.text = t /\ new.version = n
  <2> HIDE DEF n
  <2> QED BY <1>1 DEF Row, RowWith
<1> QED BY <1>2, Zenon DEF NextRow

\* So does one that copies every other column from a snapshot.
LEMMA VersionUpdate ==
    ASSUME TypeOK, NEW m \in Memories, NEW row \in Row
    PROVE  NextRow(m, [row EXCEPT !.version = memories[m].version + 1])
<1> DEFINE n == memories[m].version + 1
           new == [row EXCEPT !.version = n]
<1>1. n \in Nat
  BY VersionOK DEF TypeOK
<1>2. new \in RowWith(row.text) /\ new.text = row.text /\ new.version = n
  <2> HIDE DEF n
  <2> QED BY <1>1 DEF Row, RowWith
<1> QED BY <1>2, Zenon DEF NextRow

\* The INSERT of a put, and of the replacement a supersede puts.
LEMMA InsertedRow ==
    ASSUME NEW c \in Call, Valid(c), c.op \in {"put", "supersede"}, NEW o \in MaybeMemory,
           NEW m \in Memories, memories[m].version = 0
    PROVE  NextRow(m, Inserted(c)) /\ NextRow(m, Inserted([c EXCEPT !.other = o]))
<1>1. Inserted(c) \in RowWith(c.text) /\ Inserted([c EXCEPT !.other = o]) \in RowWith(c.text)
  BY DEF Call, Valid, Inserted, RowWith
<1>2. Inserted(c).text = c.text /\ Inserted([c EXCEPT !.other = o]).text = c.text
  BY DEF Call, Inserted
<1>3. Inserted(c).version = 0 + 1 /\ Inserted([c EXCEPT !.other = o]).version = 0 + 1
  BY DEF Inserted
<1> QED BY <1>1, <1>2, <1>3, Zenon DEF NextRow

\* A memory that does not exist has version 0.
LEMMA FreshVersion ==
    ASSUME TypeOK, NEW m \in Memories, ~Exists(m)
    PROVE  memories[m].version = 0
BY MemoryStoreAssumption DEF TypeOK, Exists, Row

\* Under the CHECK constraint and the bounds, what Write stores has its type.
LEMMA WriteOK ==
    ASSUME TypeOK, NEW rows, NextRows(rows), Write(rows)
    PROVE  /\ memories' \in [Memories -> Row]
           /\ revisions' \in [Memories -> SUBSET Revision]
           /\ \A m \in DOMAIN rows : rows[m] \in Row /\ rows[m].version \in Versions
<1>1. ASSUME NEW m \in DOMAIN rows
      PROVE  /\ m \in Memories
             /\ rows[m] \in Row
             /\ rows[m].version \in Versions
             /\ memories[m].version \in 0 .. MaxVersion
  <2>1. /\ m \in Memories
        /\ NextRow(m, rows[m])
        /\ rows[m].version <= MaxVersion
        /\ rows[m].text \in Texts
    BY DEF NextRows, Write
  <2>2. memories[m] \in Row
    BY <2>1 DEF TypeOK
  <2>3. memories[m].version \in 0 .. MaxVersion
    BY <2>2 DEF Row
  <2>4. rows[m].version \in Versions
    BY <2>1, <2>3, MemoryStoreAssumption DEF NextRow
  <2>5. rows[m] \in Row
    BY <2>1, <2>4, MemoryStoreAssumption DEF NextRow, RowWith, Row, MaybeText
  <2> QED BY <2>1, <2>3, <2>4, <2>5
<1>2. memories' \in [Memories -> Row]
  BY <1>1 DEF TypeOK, Write
<1>3. revisions' \in [Memories -> SUBSET Revision]
  BY <1>1 DEF TypeOK, Write, Revision
<1> QED BY <1>1, <1>2, <1>3

\* So is what Commit stores.
SessionOK ==
    /\ idempotency \in [Keys -> [call: Calls, answer: Answer] \cup {NoRecord}]
    /\ pc \in [Requests -> {"idle", "open", "read"}]
    /\ call \in [Requests -> Calls \cup {NoCall}]
    /\ seen \in [Requests -> MaybeText]
    /\ answers \in [Keys -> SUBSET Answer]

LEMMA CommitOK ==
    ASSUME TypeOK, NEW r \in Requests, call[r] \in Calls,
           NEW m \in Memories, NEW version \in Versions, Commit(r, m, version)
    PROVE  SessionOK'
<1>1. [id |-> m, version |-> version] \in Answer
  BY DEF Answer
<1>2. <<>> \in MaybeText
  BY DEF MaybeText
<1> QED BY <1>1, <1>2 DEF TypeOK, SessionOK, Commit

\* A statement that writes the row of one memory, and answers with it.
LEMMA SingleWrite ==
    ASSUME TypeOK, NEW r \in Requests, call[r] \in Calls, NEW m \in Memories, NEW row,
           NextRow(m, row), Write([x \in {m} |-> row]), Commit(r, m, row.version)
    PROVE  WriteStep /\ SessionOK'
<1>1. NextRows([x \in {m} |-> row])
  BY DEF NextRows
<1>2. row.version \in Versions
  BY <1>1, WriteOK
<1> QED BY <1>1, <1>2, CommitOK DEF WriteStep

-----------------------------------------------------------------------------
LEMMA PutWrites ==
    ASSUME TypeOK, NEW r \in Requests, InsertPut(r)
    PROVE  WriteStep /\ SessionOK'
<1>1. call[r] \in Calls /\ call[r] \in Call /\ Valid(call[r]) /\ call[r].op = "put"
  BY CallOK DEF InsertPut
<1>2. PICK m \in Memories :
        ~Exists(m) /\ Write([x \in {m} |-> Inserted(call[r])]) /\ Commit(r, m, 1)
  BY DEF InsertPut, CanInsert
<1>3. NextRow(m, Inserted(call[r]))
  BY <1>1, <1>2, FreshVersion, InsertedRow DEF MaybeMemory
<1>4. Inserted(call[r]).version = 1
  BY DEF Inserted
<1> QED BY <1>1, <1>2, <1>3, <1>4, SingleWrite

LEMMA PatchWrites ==
    ASSUME TypeOK, NEW r \in Requests, UpdatePatch(r)
    PROVE  WriteStep /\ SessionOK'
<1> DEFINE c == call[r]
           row == [memories[c.id] EXCEPT
                     !.version = @ + 1, !.text = Patched(r),
                     !.verification = IF c.verification = "keep" THEN @ ELSE c.verification]
<1>1. c \in Calls /\ c \in Call /\ c.id \in Memories
  BY CallOK DEF UpdatePatch, Valid
<1>2. memories[c.id] \in Row /\ memories[c.id].version + 1 \in Nat
  BY <1>1, VersionOK DEF TypeOK
<1>3. (IF c.verification = "keep" THEN memories[c.id].verification ELSE c.verification)
        \in Verifications
  BY <1>1, <1>2 DEF Call, Row
<1>4. NextRow(c.id, row)
  BY <1>1, <1>2, <1>3, TextUpdate
<1>5. Write([x \in {c.id} |-> row]) /\ Commit(r, c.id, row.version)
  BY DEF UpdatePatch
<1> QED BY <1>1, <1>4, <1>5, SingleWrite

LEMMA StatusWrites ==
    ASSUME TypeOK, NEW r \in Requests, UpdateLifecycle(r) \/ UpdateRefute(r)
    PROVE  WriteStep /\ SessionOK'
<1> DEFINE c == call[r]
           lifecycle == [memories[c.id] EXCEPT
                  !.version = @ + 1,
                  !.status = IF c.op = "delete" THEN "deleted" ELSE @]
           refuted == [memories[c.id] EXCEPT !.version = @ + 1, !.status = "refuted"]
<1>1. c \in Calls /\ c.id \in Memories
  BY CallOK DEF UpdateLifecycle, UpdateRefute, Valid
<1>2. memories[c.id] \in Row /\ memories[c.id].version + 1 \in Nat
  BY <1>1, VersionOK DEF TypeOK
<1>3. (IF c.op = "delete" THEN "deleted" ELSE memories[c.id].status) \in Statuses
  BY <1>2 DEF Row
<1>4. NextRow(c.id, lifecycle) /\ NextRow(c.id, refuted)
  BY <1>1, <1>2, <1>3, StatusUpdate
<1>5. \/ Write([x \in {c.id} |-> lifecycle]) /\ Commit(r, c.id, lifecycle.version)
      \/ Write([x \in {c.id} |-> refuted]) /\ Commit(r, c.id, refuted.version)
  BY DEF UpdateLifecycle, UpdateRefute
<1> QED BY <1>1, <1>4, <1>5, SingleWrite

LEMMA RestoreWrites ==
    ASSUME TypeOK, NEW r \in Requests, UpdateRestore(r)
    PROVE  WriteStep /\ SessionOK'
<1> DEFINE c == call[r]
<1>1. c \in Calls /\ c.id \in Memories
  BY CallOK DEF UpdateRestore, Valid
<1>3. PICK revision \in revisions[c.id] :
        /\ Write([x \in {c.id} |-> Restored(c.id, revision)])
        /\ Commit(r, c.id, Restored(c.id, revision).version)
  BY DEF UpdateRestore
<1>4. revision.after \in Row
  BY <1>1, <1>3 DEF TypeOK, Revision
<1>5. NextRow(c.id, Restored(c.id, revision))
  BY <1>1, <1>4, VersionUpdate DEF Restored
<1> QED BY <1>1, <1>3, <1>5, SingleWrite

LEMMA SupersedeWrites ==
    ASSUME TypeOK, NEW r \in Requests, UpdateSupersede(r)
    PROVE  WriteStep /\ SessionOK'
<1> DEFINE c == call[r]
           replacement == Inserted([c EXCEPT !.other = c.id])
           target == Marked(memories[c.id])
<1>1. c \in Calls /\ c \in Call /\ Valid(c) /\ c.op = "supersede" /\ c.id \in Memories
  BY CallOK DEF UpdateSupersede, Valid
<1>2. PICK m \in Memories :
        /\ ~Exists(m)
        /\ Write([x \in {m, c.id} |-> IF x = m THEN replacement ELSE target])
        /\ Commit(r, m, 1)
  BY DEF UpdateSupersede, CanInsert
<1> DEFINE rows == [x \in {m, c.id} |-> IF x = m THEN replacement ELSE target]
<1>3. Exists(c.id)
  BY DEF UpdateSupersede, CanUpdate
<1>4. NextRow(m, replacement)
  BY <1>1, <1>2, FreshVersion, InsertedRow DEF MaybeMemory
<1>5. NextRow(c.id, target)
  <2>1. memories[c.id] \in Row /\ memories[c.id].version + 1 \in Nat
    BY <1>1, VersionOK DEF TypeOK
  <2> QED BY <1>1, <2>1, StatusUpdate DEF Marked
<1>6. DOMAIN rows = {m, c.id} /\ rows[m] = replacement /\ rows[c.id] = target
  BY <1>2, <1>3
<1>7. NextRows(rows)
  <2> HIDE DEF rows, replacement, target
  <2> QED BY <1>1, <1>4, <1>5, <1>6 DEF NextRows
<1>8. SessionOK'
  BY <1>1, <1>2, CommitOK, MemoryStoreAssumption
<1> QED BY <1>2, <1>7, <1>8 DEF WriteStep

\* Every step is one Write of next versions, or leaves rows and revisions alone.
LEMMA StepWrites ==
    ASSUME TypeOK, [Next]_vars
    PROVE  (WriteStep \/ UNCHANGED <<memories, revisions>>) /\ SessionOK'
<1> USE DEF TypeOK, SessionOK
<1>1. ASSUME NEW r \in Requests, NEW c \in Calls, Begin(r, c) \/ Replay(r, c)
      PROVE  UNCHANGED <<memories, revisions>> /\ SessionOK'
  BY <1>1, MemoryStoreAssumption DEF Begin, Replay, NoRecord
<1>2. ASSUME NEW k \in Keys, Expire(k)
      PROVE  UNCHANGED <<memories, revisions>> /\ SessionOK'
  BY <1>2 DEF Expire
<1>3. ASSUME NEW r \in Requests, Abort(r) \/ CheckSimilar(r)
      PROVE  UNCHANGED <<memories, revisions>> /\ SessionOK'
  BY <1>3 DEF Abort, CheckSimilar, MaybeText
<1>4. ASSUME NEW r \in Requests, ReadAmend(r)
      PROVE  UNCHANGED <<memories, revisions>> /\ SessionOK'
  <2>1. call[r].id \in Memories
    BY <1>4, CallOK DEF ReadAmend, Valid
  <2>2. memories[call[r].id].text \in MaybeText
    BY <2>1 DEF Row
  <2> QED BY <1>4, <2>2 DEF ReadAmend
<1>5. CASE UNCHANGED vars
  BY <1>5 DEF vars
<1>6. CASE Next
  BY <1>6, <1>1, <1>2, <1>3, <1>4, PutWrites, PatchWrites, StatusWrites,
     RestoreWrites, SupersedeWrites DEF Next
<1> QED BY <1>5, <1>6

\* Relations join memories: a replacement to what it supersedes, a memory to
\* what it refutes.
LEMMA RelationsOK ==
    ASSUME TypeOK, [Next]_vars
    PROVE  relations' \in SUBSET (Memories \X {"supersedes", "refutes"} \X Memories)
<1>1. CASE UNCHANGED relations
  BY <1>1 DEF TypeOK
<1>2. ASSUME NEW r \in Requests, UpdateSupersede(r)
      PROVE  relations' \in SUBSET (Memories \X {"supersedes", "refutes"} \X Memories)
  <2>1. call[r].id \in Memories
    BY <1>2, CallOK DEF UpdateSupersede, Valid
  <2> QED BY <1>2, <2>1 DEF UpdateSupersede, TypeOK
<1>3. ASSUME NEW r \in Requests, UpdateRefute(r)
      PROVE  relations' \in SUBSET (Memories \X {"supersedes", "refutes"} \X Memories)
  <2>1. call[r].id \in Memories
    BY <1>3, CallOK DEF UpdateRefute, Valid
  <2>2. call[r].other # None => call[r].other \in Memories
    BY <1>3 DEF UpdateRefute, Exists
  <2> QED BY <1>3, <2>1, <2>2 DEF UpdateRefute, RefuteLinks, TypeOK
<1>4. CASE UNCHANGED vars
  BY <1>1, <1>4 DEF vars
<1>5. CASE Next
  BY <1>5, <1>1, <1>2, <1>3 DEF Next, Begin, Replay, Expire, Abort, CheckSimilar, InsertPut,
     ReadAmend, UpdatePatch, UpdateLifecycle, UpdateRestore
<1> QED BY <1>4, <1>5

LEMMA InitTypeOK == Init => TypeOK
BY MemoryStoreAssumption DEF Init, TypeOK, NoRow, Row, MaybeMemory, MaybeText

LEMMA StepTypeOK == TypeOK /\ [Next]_vars => TypeOK'
<1> SUFFICES ASSUME TypeOK, [Next]_vars PROVE TypeOK'
  OBVIOUS
<1>1. memories' \in [Memories -> Row] /\ revisions' \in [Memories -> SUBSET Revision]
  <2>1. CASE WriteStep
    BY <2>1, WriteOK DEF WriteStep
  <2>2. CASE UNCHANGED <<memories, revisions>>
    BY <2>2 DEF TypeOK
  <2> QED BY <2>1, <2>2, StepWrites
<1> QED BY <1>1, StepWrites, RelationsOK DEF TypeOK, SessionOK

\* Rows, revisions, relations and idempotency records keep their types through
\* every mutation, in particular no stored row exceeds the CHECK constraints.
THEOREM TypeCorrect == Spec => []TypeOK
<1>1. Init => TypeOK
  BY InitTypeOK
<1>2. TypeOK /\ [Next]_vars => TypeOK'
  BY StepTypeOK
<1> QED BY <1>1, <1>2, PTL DEF Spec

-----------------------------------------------------------------------------
\* The history of memory m, under HistoryComplete's name for all memories.
History(m) ==
    /\ {v.to : v \in revisions[m]} = 1 .. memories[m].version
    /\ \A v, w \in revisions[m] : v.to = w.to => v = w
    /\ \A v \in revisions[m] : v.from + 1 = v.to
    /\ \A v \in revisions[m] : v.to = memories[m].version => v.after = memories[m]

LEMMA WriteHistory ==
    ASSUME TypeOK, HistoryComplete, NEW rows, NextRows(rows), Write(rows)
    PROVE  HistoryComplete'
<1> SUFFICES ASSUME NEW m \in Memories PROVE History(m)'
  BY DEF HistoryComplete, History
<1>1. History(m) /\ memories[m].version \in Nat
  BY VersionOK DEF HistoryComplete, History, TypeOK
<1>2. CASE m \notin DOMAIN rows
  <2>1. memories'[m] = memories[m] /\ revisions'[m] = revisions[m]
    BY <1>2 DEF Write
  <2> QED BY <1>1, <2>1 DEF History
<1>3. CASE m \in DOMAIN rows
  <2> DEFINE n == memories[m].version
             new == [from |-> n, to |-> rows[m].version, after |-> rows[m]]
  <2>1. memories'[m] = rows[m] /\ revisions'[m] = revisions[m] \cup {new}
    BY <1>3 DEF Write
  <2>2. rows[m].version = n + 1
    BY <1>3 DEF NextRows, NextRow
  <2>3. new.from = n /\ new.to = n + 1 /\ new.after = rows[m]
    BY <2>2
  <2>4. \A v \in revisions[m] : v.to \in 1 .. n
    BY <1>1 DEF History
  <2> HIDE DEF new
  <2>5. {v.to : v \in revisions'[m]} = (1 .. n) \cup {n + 1}
    BY <1>1, <2>1, <2>3 DEF History
  <2>6. (1 .. n) \cup {n + 1} = 1 .. memories'[m].version
    BY <1>1, <2>1, <2>2
  <2>7. \A v \in revisions[m] : v.to # n + 1
    BY <1>1, <2>4
  <2>8. \A v, w \in revisions'[m] : v.to = w.to => v = w
    BY <1>1, <2>1, <2>3, <2>7 DEF History
  <2>9. \A v \in revisions'[m] : v.from + 1 = v.to
    BY <1>1, <2>1, <2>3 DEF History
  <2>10. \A v \in revisions'[m] : v.to = memories'[m].version => v.after = memories'[m]
    BY <2>1, <2>2, <2>3, <2>7
  <2> QED BY <2>5, <2>6, <2>8, <2>9, <2>10 DEF History
<1> QED BY <1>2, <1>3

LEMMA StepHistory ==
    TypeOK /\ HistoryComplete /\ [Next]_vars => HistoryComplete'
<1> SUFFICES ASSUME TypeOK, HistoryComplete, [Next]_vars PROVE HistoryComplete'
  OBVIOUS
<1>1. CASE WriteStep
  BY <1>1, WriteHistory DEF WriteStep
<1>2. CASE UNCHANGED <<memories, revisions>>
  BY <1>2 DEF HistoryComplete
<1> QED BY <1>1, <1>2, StepWrites

\* The revision trigger leaves a gapless history of every memory whose newest
\* revision is the row, whatever mutations run concurrently.
THEOREM HistoryAlwaysComplete == Spec => []HistoryComplete
<1>1. Init => HistoryComplete
  BY DEF Init, HistoryComplete, NoRow
<1>2. TypeOK /\ HistoryComplete /\ [Next]_vars => HistoryComplete'
  BY StepHistory
<1> QED BY <1>1, <1>2, TypeCorrect, PTL DEF Spec

-----------------------------------------------------------------------------
\* A version picks out one revision.
LEMMA ChosenRevision ==
    ASSUME NEW S, NEW v \in S, \A w \in S : w.to = v.to => w = v
    PROVE  (CHOOSE w \in S : w.to = v.to) = v
OBVIOUS

\* The log of a memory, read off its row and revisions.
LogFrom(row, revs) == [n \in 1 .. row.version |-> (CHOOSE v \in revs : v.to = n).after]

\* One revision is added for the version that follows the row's.
Grows(row, revs, after, both) ==
    /\ row.version \in Nat /\ after.version = row.version + 1
    /\ \A v \in revs : v.to \in 1 .. row.version
    /\ \E new : new.to = after.version /\ new.after = after /\ both = revs \cup {new}

\* A new last version makes the log longer by one entry.
LEMMA LogGrows ==
    ASSUME NEW row, NEW revs, NEW after, NEW both, Grows(row, revs, after, both)
    PROVE  LogFrom(after, both) = Append(LogFrom(row, revs), after)
<1> PICK new : new.to = row.version + 1 /\ new.after = after /\ both = revs \cup {new}
  BY DEF Grows
<1> row.version \in Nat /\ after.version = row.version + 1
    /\ \A v \in revs : v.to \in 1 .. row.version
  BY DEF Grows
<1> DEFINE n == row.version
           old == LogFrom(row, revs)
           grown == LogFrom(after, both)
<1>2. \A k \in 1 .. n : (CHOOSE v \in both : v.to = k) = (CHOOSE v \in revs : v.to = k)
  <2> TAKE k \in 1 .. n
  <2>1. \A v : (v \in both /\ v.to = k) <=> (v \in revs /\ v.to = k)
    OBVIOUS
  <2> QED BY <2>1
<1>3. (CHOOSE v \in both : v.to = n + 1) = new
  <2>1. \A w \in both : w.to = new.to => w = new
    OBVIOUS
  <2> QED BY <2>1, ChosenRevision
<1>4. grown = [k \in 1 .. n + 1 |-> IF k = n + 1 THEN after ELSE old[k]]
  BY <1>2, <1>3 DEF LogFrom
<1>5. old = [k \in 1 .. n |-> old[k]] /\ Len(old) = n
  BY DEF LogFrom
<1>6. Append(old, after) = [k \in 1 .. n + 1 |-> IF k = n + 1 THEN after ELSE old[k]]
  BY <1>5
<1> QED BY <1>4, <1>6

LEMMA InitRefines == Init => Log!Init
<1> SUFFICES ASSUME Init PROVE \A m \in Memories : LogOf(m) = <<>>
  BY DEF Log!Init
<1>1. \A m \in Memories : memories[m].version = 0
  BY DEF Init, NoRow
<1> QED BY <1>1 DEF LogOf

\* A committed write extends the log of each memory it writes.
LEMMA WriteRefines ==
    ASSUME TypeOK, HistoryComplete, NEW rows, NextRows(rows), Write(rows)
    PROVE  Log!Transaction
<1>1. ASSUME NEW m \in Memories, m \notin DOMAIN rows
      PROVE  LogOf(m)' = LogOf(m)
  <2>1. memories'[m] = memories[m] /\ revisions'[m] = revisions[m]
    BY <1>1 DEF Write
  <2> QED BY <2>1 DEF LogOf
<1>2. ASSUME NEW m \in DOMAIN rows
      PROVE  /\ rows[m] \in Row
             /\ rows[m].version = Len(LogOf(m)) + 1
             /\ LogOf(m)' = Append(LogOf(m), rows[m])
  <2> DEFINE n == memories[m].version
             new == [from |-> n, to |-> rows[m].version, after |-> rows[m]]
  <2>1. m \in Memories /\ n \in Nat
    BY VersionOK DEF NextRows, TypeOK
  <2>2. rows[m] \in Row /\ rows[m].version = n + 1
    BY WriteOK DEF NextRows, NextRow
  <2>3. memories'[m] = rows[m] /\ revisions'[m] = revisions[m] \cup {new}
    BY <2>1 DEF Write
  <2>4. \A v \in revisions[m] : v.to \in 1 .. n
    BY <2>1 DEF HistoryComplete
  <2>5. new.to = n + 1 /\ new.after = rows[m]
    BY <2>2
  <2> HIDE DEF new
  <2>6. Grows(memories[m], revisions[m], memories'[m], revisions'[m])
    BY <2>1, <2>2, <2>3, <2>4, <2>5 DEF Grows
  <2>7. LogOf(m)' = Append(LogOf(m), rows[m])
    <3>1. LogOf(m) = LogFrom(memories[m], revisions[m])
      BY DEF LogOf, LogFrom
    <3>2. LogOf(m)' = LogFrom(memories'[m], revisions'[m])
      BY DEF LogOf, LogFrom
    <3>3. LogFrom(memories'[m], revisions'[m])
            = Append(LogFrom(memories[m], revisions[m]), memories'[m])
      BY <2>6, LogGrows
    <3>4. memories'[m] = rows[m]
      BY <2>3
    <3> QED BY <3>1, <3>2, <3>3, <3>4, Zenon
  <2>8. Len(LogOf(m)) = n
    BY <2>1 DEF LogOf
  <2> QED BY <2>2, <2>7, <2>8
<1> QED BY <1>1, <1>2 DEF Log!Transaction, Log!Extended, NextRows

LEMMA StepRefines ==
    TypeOK /\ HistoryComplete /\ [Next]_vars
        => [Log!Transaction]_([m \in Memories |-> LogOf(m)])
<1> SUFFICES ASSUME TypeOK, HistoryComplete, [Next]_vars
             PROVE  \/ Log!Transaction
                    \/ [m \in Memories |-> LogOf(m)]' = [m \in Memories |-> LogOf(m)]
  OBVIOUS
<1>1. CASE WriteStep
  BY <1>1, WriteRefines DEF WriteStep
<1>2. CASE UNCHANGED <<memories, revisions>>
  BY <1>2 DEF LogOf
<1> QED BY <1>1, <1>2, StepWrites

\* The store implements an append-only, gapless log of versions per memory.
THEOREM StoreRefinesVersionLog == Spec => ImplementsVersionLog
<1>1. Init => Log!Init
  BY InitRefines
<1>2. TypeOK /\ HistoryComplete /\ [Next]_vars
        => [Log!Transaction]_([m \in Memories |-> LogOf(m)])
  BY StepRefines
<1> QED BY <1>1, <1>2, TypeCorrect, HistoryAlwaysComplete, PTL
        DEF Spec, ImplementsVersionLog, Log!Spec

-----------------------------------------------------------------------------
\* What keeps the answers under a key equal: a running request holds the lock
\* of its key and found no record under it; no record means no answers, and a
\* record is the only answer given since it was written.
KeyHeld ==
    \A q, r \in Requests :
        pc[q] # "idle" /\ pc[r] # "idle" /\ call[q].key = call[r].key
            /\ call[r].key \in Keys => q = r
HeldUnanswered ==
    \A r \in Requests : pc[r] # "idle" /\ call[r].key \in Keys
                            => idempotency[call[r].key] = NoRecord
AnswersRecorded ==
    \A k \in Keys : answers[k] = IF idempotency[k] = NoRecord THEN {}
                                 ELSE {idempotency[k].answer}
KeyInv == KeyHeld /\ HeldUnanswered /\ AnswersRecorded

\* A rollback or COMMIT ends the request; others keep their keys.
LEMMA EndKeeps ==
    ASSUME TypeOK, KeyHeld, HeldUnanswered, NEW r \in Requests,
           pc' = [pc EXCEPT ![r] = "idle"],
           call' = [call EXCEPT ![r] = NoCall],
           \A k \in Keys : k # call[r].key => idempotency'[k] = idempotency[k],
           pc[r] # "idle"
    PROVE  KeyHeld' /\ HeldUnanswered'
<1>a. \A q \in Requests : pc'[q] # "idle" => pc[q] # "idle" /\ call'[q] = call[q]
  BY DEF TypeOK
<1>1. KeyHeld'
  BY <1>a DEF KeyHeld
<1>2. ASSUME NEW q \in Requests, pc'[q] # "idle", call'[q].key \in Keys
      PROVE  idempotency'[call'[q].key] = NoRecord
  <2>1. q # r /\ pc[q] # "idle" /\ call'[q] = call[q]
    BY <1>2 DEF TypeOK
  <2>2. call[q].key # call[r].key
    BY <1>2, <2>1 DEF KeyHeld
  <2> QED BY <1>2, <2>1, <2>2 DEF HeldUnanswered
<1> QED BY <1>1, <1>2 DEF HeldUnanswered

LEMMA CommitKeeps ==
    ASSUME TypeOK, KeyInv, NEW r \in Requests, pc[r] # "idle",
           NEW m, NEW version, Commit(r, m, version)
    PROVE  KeyInv'
<1> DEFINE k == call[r].key
           answer == [id |-> m, version |-> version]
           record == [call |-> call[r], answer |-> answer]
<1>1. KeyHeld' /\ HeldUnanswered'
  BY EndKeeps DEF KeyInv, Commit, TypeOK
<1>2. AnswersRecorded'
  <2> SUFFICES ASSUME NEW j \in Keys
               PROVE  answers'[j] = IF idempotency'[j] = NoRecord THEN {}
                                    ELSE {idempotency'[j].answer}
    BY DEF AnswersRecorded
  <2>1. CASE j # k
    BY <2>1 DEF KeyInv, AnswersRecorded, Commit, TypeOK
  <2>2. CASE j = k
    <3>1. answers[j] = {}
      BY <2>2 DEF KeyInv, HeldUnanswered, AnswersRecorded
    <3>2. idempotency'[j] = record /\ answers'[j] = {answer}
      BY <2>2, <3>1 DEF Commit
    <3>3. record # NoRecord /\ record.answer = answer
      BY DEF NoRecord
    <3> QED BY <3>2, <3>3
  <2> QED BY <2>1, <2>2
<1> QED BY <1>1, <1>2 DEF KeyInv

LEMMA BeginKeeps ==
    ASSUME TypeOK, KeyInv, NEW r \in Requests, NEW c \in Calls, Begin(r, c)
    PROVE  KeyInv'
<1>1. KeyHeld'
  BY MemoryStoreAssumption DEF Begin, KeyInv, KeyHeld, KeyLocked, TypeOK
<1>2. HeldUnanswered'
  BY DEF Begin, KeyInv, HeldUnanswered, TypeOK
<1>3. AnswersRecorded'
  BY DEF Begin, KeyInv, AnswersRecorded
<1> QED BY <1>1, <1>2, <1>3 DEF KeyInv

LEMMA ReplayKeeps ==
    ASSUME TypeOK, KeyInv, NEW r \in Requests, NEW c \in Calls, Replay(r, c)
    PROVE  KeyInv'
<1>1. KeyHeld' /\ HeldUnanswered'
  BY DEF Replay, KeyInv, KeyHeld, HeldUnanswered
<1>2. answers[c.key] = {idempotency[c.key].answer}
  BY DEF Replay, KeyInv, AnswersRecorded
<1>3. AnswersRecorded'
  BY <1>2 DEF Replay, KeyInv, AnswersRecorded, TypeOK
<1> QED BY <1>1, <1>3 DEF KeyInv

LEMMA ExpireKeeps ==
    ASSUME TypeOK, KeyInv, NEW k \in Keys, Expire(k)
    PROVE  KeyInv'
<1>1. KeyHeld' /\ HeldUnanswered'
  BY DEF Expire, KeyInv, KeyHeld, HeldUnanswered, TypeOK
<1>2. AnswersRecorded'
  BY DEF Expire, KeyInv, AnswersRecorded, TypeOK
<1> QED BY <1>1, <1>2 DEF KeyInv

LEMMA ReadKeeps ==
    ASSUME TypeOK, KeyInv, NEW r \in Requests, CheckSimilar(r) \/ ReadAmend(r)
    PROVE  KeyInv'
<1>1. pc[r] # "idle" /\ pc' = [pc EXCEPT ![r] = "read"]
      /\ UNCHANGED <<call, idempotency, answers>>
  BY DEF CheckSimilar, ReadAmend
<1>2. \A q \in Requests : pc'[q] # "idle" => pc[q] # "idle"
  BY <1>1 DEF TypeOK
<1>3. KeyHeld' /\ HeldUnanswered'
  BY <1>1, <1>2 DEF KeyInv, KeyHeld, HeldUnanswered
<1>4. AnswersRecorded'
  BY <1>1 DEF KeyInv, AnswersRecorded
<1> QED BY <1>3, <1>4 DEF KeyInv

LEMMA AbortKeeps ==
    ASSUME TypeOK, KeyInv, NEW r \in Requests, Abort(r)
    PROVE  KeyInv'
BY EndKeeps DEF Abort, KeyInv, AnswersRecorded

LEMMA StepKeyInv == TypeOK /\ KeyInv /\ [Next]_vars => KeyInv'
<1> SUFFICES ASSUME TypeOK, KeyInv, [Next]_vars PROVE KeyInv'
  OBVIOUS
<1>1. CASE UNCHANGED vars
  BY <1>1 DEF vars, KeyInv, KeyHeld, HeldUnanswered, AnswersRecorded
<1>2. ASSUME NEW r \in Requests,
             \/ InsertPut(r) \/ UpdatePatch(r) \/ UpdateLifecycle(r)
             \/ UpdateRestore(r) \/ UpdateSupersede(r) \/ UpdateRefute(r)
      PROVE  KeyInv'
  <2>1. pc[r] # "idle" /\ \E m, version : Commit(r, m, version)
    BY <1>2 DEF InsertPut, UpdatePatch, UpdateLifecycle, UpdateRestore,
                UpdateSupersede, UpdateRefute
  <2> QED BY <2>1, CommitKeeps
<1>3. CASE Next
  BY <1>2, <1>3, BeginKeeps, ReplayKeeps, ExpireKeeps, ReadKeeps, AbortKeeps DEF Next
<1> QED BY <1>1, <1>3

\* While its record lives, a key has one answer, for any number of retries.
THEOREM OneAnswer == Spec => []OneAnswerPerKey
<1>1. Init => KeyInv
  <2> SUFFICES ASSUME Init PROVE KeyInv
    OBVIOUS
  <2>1. KeyHeld /\ HeldUnanswered
    BY DEF Init, KeyHeld, HeldUnanswered
  <2>2. AnswersRecorded
    BY DEF Init, AnswersRecorded
  <2> QED BY <2>1, <2>2 DEF KeyInv
<1>2. TypeOK /\ KeyInv /\ [Next]_vars => KeyInv'
  BY StepKeyInv
<1>3. KeyInv => OneAnswerPerKey
  BY DEF KeyInv, AnswersRecorded, OneAnswerPerKey
<1> QED BY <1>1, <1>2, <1>3, TypeCorrect, PTL DEF Spec

-----------------------------------------------------------------------------
\* What NoLostUpdate says of one step and one memory.
Kept(m) == Exists(m) /\ memories'[m] # memories[m] =>
    /\ memories'[m].version = memories[m].version + 1
    /\ \E r \in Requests : UpdatedBy(m, r) /\ call[r].expected = memories[m].version

\* A row that changes under a write changes by the next version.
LEMMA WriteVersion ==
    ASSUME TypeOK, WriteStep, NEW m \in Memories, memories'[m] # memories[m]
    PROVE  memories'[m].version = memories[m].version + 1
BY DEF WriteStep, NextRows, NextRow, Write

LEMMA UpdateKeeps ==
    ASSUME TypeOK, WriteStep, NEW r \in Requests, pc[r] # "idle", call[r].op # "put",
           CanUpdate(r), NEW rows, Write(rows), NEW n, NEW version, Commit(r, n, version),
           \A x \in DOMAIN rows \ {call[r].id} : ~Exists(x),
           NEW m \in Memories
    PROVE  Kept(m)
<1> SUFFICES ASSUME Exists(m), memories'[m] # memories[m]
             PROVE  UpdatedBy(m, r) /\ call[r].expected = memories[m].version
  BY WriteVersion DEF Kept
<1>1. m = call[r].id
  BY DEF Write
<1>2. call[r].expected = memories[m].version
  BY <1>1 DEF CanUpdate
<1>3. UpdatedBy(m, r)
  BY <1>1 DEF UpdatedBy, Commit, TypeOK
<1> QED BY <1>2, <1>3

LEMMA StepKeeps ==
    ASSUME TypeOK, [Next]_vars, NEW m \in Memories
    PROVE  Kept(m)
<1>1. CASE UNCHANGED memories
  BY <1>1 DEF Kept
<1>2. ASSUME NEW r \in Requests, InsertPut(r)
      PROVE  Kept(m)
  BY <1>2 DEF InsertPut, CanInsert, Write, Kept
<1>3. ASSUME NEW r \in Requests, UpdateSupersede(r)
      PROVE  Kept(m)
  <2>1. pc[r] # "idle" /\ call[r].op # "put" /\ CanUpdate(r) /\ WriteStep
    BY <1>3, SupersedeWrites DEF UpdateSupersede
  <2>2. PICK n \in Memories :
          /\ ~Exists(n)
          /\ Write([x \in {n, call[r].id} |->
                IF x = n THEN Inserted([call[r] EXCEPT !.other = call[r].id])
                         ELSE Marked(memories[call[r].id])])
          /\ Commit(r, n, 1)
    BY <1>3 DEF UpdateSupersede, CanInsert
  <2> QED BY <2>1, <2>2, UpdateKeeps
<1>4. ASSUME NEW r \in Requests,
             UpdatePatch(r) \/ UpdateLifecycle(r) \/ UpdateRestore(r) \/ UpdateRefute(r)
      PROVE  Kept(m)
  <2>1. /\ pc[r] # "idle" /\ call[r].op # "put" /\ CanUpdate(r)
        /\ \E row : Write([x \in {call[r].id} |-> row]) /\ Commit(r, call[r].id, row.version)
    BY <1>4 DEF UpdatePatch, UpdateLifecycle, UpdateRestore, UpdateRefute
  <2>2. WriteStep
    BY <1>4, PatchWrites, StatusWrites, RestoreWrites
  <2> QED BY <2>1, <2>2, UpdateKeeps
<1>5. CASE UNCHANGED vars
  BY <1>1, <1>5 DEF vars
<1>6. CASE Next
  BY <1>1, <1>2, <1>3, <1>4, <1>6 DEF Next, Begin, Replay, Expire, Abort, CheckSimilar, ReadAmend
<1> QED BY <1>5, <1>6

\* No update overwrites a version its client did not name: every mutation is a
\* compare-and-swap on the version, however the transactions interleave.
THEOREM NoUpdateLost == Spec => NoLostUpdate
<1>1. TypeOK /\ [Next]_vars =>
        [\A m \in Memories : Exists(m) /\ memories'[m] # memories[m] =>
            /\ memories'[m].version = memories[m].version + 1
            /\ \E r \in Requests : UpdatedBy(m, r)
                                   /\ call[r].expected = memories[m].version]_vars
  BY StepKeeps DEF Kept
<1> QED BY <1>1, TypeCorrect, PTL DEF Spec, NoLostUpdate

-----------------------------------------------------------------------------
\* A request has seen a text only between an amend's two statements, and the row it
\* saw, which it has locked, is still as it was.
AmendSeen(r) ==
    LET c == call[r] IN
    seen[r] # <<>> =>
        /\ pc[r] = "read" /\ Exists(c.id)
        /\ memories[c.id].text = seen[r]
        /\ Cardinality(Occurrences(seen[r], c.anchor)) = 1
AmendInv == \A r \in Requests : AmendSeen(r)

\* A row is only overwritten by who may, so not under an amend of another.
LEMMA WriteSpares ==
    ASSUME TypeOK, AmendInv, NEW q \in Requests, NEW n, NEW version, Commit(q, n, version),
           NEW rows, Write(rows),
           \A m \in DOMAIN rows : ~Exists(m) \/ (m = call[q].id /\ ~RowLocked(m, q))
    PROVE  AmendInv'
<1> SUFFICES ASSUME NEW r \in Requests, seen'[r] # <<>> PROVE AmendSeen(r)'
  BY DEF AmendInv, AmendSeen
<1>1. r # q /\ pc'[r] = pc[r] /\ call'[r] = call[r] /\ seen'[r] = seen[r]
  BY DEF Commit, TypeOK
<1>2. /\ pc[r] = "read" /\ Exists(call[r].id)
      /\ memories[call[r].id].text = seen[r]
      /\ Cardinality(Occurrences(seen[r], call[r].anchor)) = 1
  BY <1>1 DEF AmendInv, AmendSeen
<1>3. call[r].id \notin DOMAIN rows
  BY <1>1, <1>2 DEF RowLocked
<1>4. call[r].id \in Memories /\ memories'[call[r].id] = memories[call[r].id]
  BY <1>2, <1>3 DEF Write, Exists
<1> QED BY <1>1, <1>2, <1>4 DEF AmendSeen, Exists

LEMMA StepAmends == TypeOK /\ AmendInv /\ [Next]_vars => AmendInv'
<1> SUFFICES ASSUME TypeOK, AmendInv, [Next]_vars PROVE AmendInv'
  OBVIOUS
<1>1. ASSUME NEW q \in Requests, NEW c \in Calls, Begin(q, c) \/ Replay(q, c)
      PROVE  AmendInv'
  BY <1>1 DEF Begin, Replay, AmendInv, AmendSeen, TypeOK, Exists
<1>2. ASSUME NEW k \in Keys, Expire(k)
      PROVE  AmendInv'
  BY <1>2 DEF Expire, AmendInv, AmendSeen, Exists
<1>3. ASSUME NEW q \in Requests, Abort(q) \/ CheckSimilar(q)
      PROVE  AmendInv'
  BY <1>3 DEF Abort, CheckSimilar, AmendInv, AmendSeen, TypeOK, Exists
<1>4. ASSUME NEW q \in Requests, ReadAmend(q)
      PROVE  AmendInv'
  <2> DEFINE c == call[q]
  <2>1. /\ pc[q] = "open" /\ pc' = [pc EXCEPT ![q] = "read"] /\ UNCHANGED <<memories, call>>
        /\ c.op = "patch" /\ c.mode = "amend"
    BY <1>4 DEF ReadAmend
  <2>2. \A r \in Requests \ {q} : pc'[r] = pc[r]
    BY <2>1 DEF TypeOK
  <2>3. seen[q] = <<>>
    BY <2>1 DEF AmendInv, AmendSeen
  <2>4. CASE UNCHANGED seen
    BY <2>1, <2>2, <2>3, <2>4 DEF AmendInv, AmendSeen, Exists
  <2>5. CASE /\ seen' = [seen EXCEPT ![q] = memories[c.id].text]
             /\ memories[c.id].version = c.expected
             /\ AnchorMatches(memories[c.id].text, c.anchor)
    <3>1. c.id \in Memories /\ pc'[q] = "read" /\ seen'[q] = memories[c.id].text
      BY <2>1, <2>5, CallOK DEF TypeOK, Valid
    <3>2. c.expected \in Versions
      BY <2>1, CallOK DEF Call
    <3>3. Exists(c.id)
      BY <2>5, <3>1, <3>2, MemoryStoreAssumption DEF Exists
    <3>4. AmendSeen(q)'
      BY <2>1, <2>5, <3>1, <3>3 DEF AmendSeen, AnchorMatches, Exists
    <3>5. ASSUME NEW r \in Requests \ {q} PROVE AmendSeen(r)'
      <4>1. seen'[r] = seen[r] /\ AmendSeen(r)
        BY <2>5 DEF TypeOK, AmendInv
      <4> QED BY <2>1, <2>2, <4>1 DEF AmendSeen, Exists
    <3> QED BY <3>4, <3>5 DEF AmendInv
  <2> QED BY <1>4, <2>4, <2>5 DEF ReadAmend
<1>5. ASSUME NEW q \in Requests, InsertPut(q)
      PROVE  AmendInv'
  <2>1. PICK m \in Memories : /\ CanInsert(call[q], call[q].id, m)
                              /\ Write([x \in {m} |-> Inserted(call[q])])
                              /\ Commit(q, m, 1)
    BY <1>5 DEF InsertPut
  <2> QED BY <2>1, WriteSpares DEF CanInsert
<1>6. ASSUME NEW q \in Requests, UpdateSupersede(q)
      PROVE  AmendInv'
  <2>1. PICK m \in Memories :
          /\ ~Exists(m)
          /\ Write([x \in {m, call[q].id} |->
                IF x = m THEN Inserted([call[q] EXCEPT !.other = call[q].id])
                         ELSE Marked(memories[call[q].id])])
          /\ Commit(q, m, 1)
    BY <1>6 DEF UpdateSupersede, CanInsert
  <2>2. ~RowLocked(call[q].id, q)
    BY <1>6 DEF UpdateSupersede, CanUpdate
  <2> QED BY <2>1, <2>2, WriteSpares
<1>7. ASSUME NEW q \in Requests,
             UpdatePatch(q) \/ UpdateLifecycle(q) \/ UpdateRestore(q) \/ UpdateRefute(q)
      PROVE  AmendInv'
  <2>1. /\ ~RowLocked(call[q].id, q)
        /\ \E row : Write([x \in {call[q].id} |-> row]) /\ Commit(q, call[q].id, row.version)
    BY <1>7 DEF UpdatePatch, UpdateLifecycle, UpdateRestore, UpdateRefute, CanUpdate
  <2> QED BY <2>1, WriteSpares
<1>8. CASE UNCHANGED vars
  BY <1>8 DEF vars, AmendInv, AmendSeen, Exists
<1> QED BY <1>1, <1>2, <1>3, <1>4, <1>5, <1>6, <1>7, <1>8 DEF Next

\* An amend whose UPDATE goes through replaces the passage in the row it read.
LEMMA PatchAmends ==
    ASSUME TypeOK, AmendInv, NEW r \in Requests, UpdatePatch(r), call[r].mode = "amend"
    PROVE  LET c == call[r] IN
           /\ Cardinality(Occurrences(memories[c.id].text, c.anchor)) = 1
           /\ memories'[c.id].text = Amended(memories[c.id].text, c.anchor, c.text)
<1> DEFINE c == call[r]
           row == [memories[c.id] EXCEPT
                     !.version = @ + 1, !.text = Patched(r),
                     !.verification = IF c.verification = "keep" THEN @ ELSE c.verification]
<1>1. Exists(c.id) /\ Write([x \in {c.id} |-> row])
  BY DEF UpdatePatch, CanUpdate
<1>2. c.id \in Memories /\ memories[c.id] \in Row
  BY <1>1 DEF Exists, TypeOK
<1>3. row.text = Patched(r)
  BY <1>2 DEF Row
<1>4. Patched(r) \in Texts /\ memories'[c.id].text = Patched(r)
  <2> HIDE DEF row
  <2> QED BY <1>1, <1>2, <1>3 DEF Write
<1>5. seen[r] # <<>> /\ Patched(r) = Amended(seen[r], c.anchor, c.text)
  BY <1>4 DEF Patched, Texts
<1> QED BY <1>4, <1>5 DEF AmendInv, AmendSeen

\* What AmendInPlace says of one step and one request.
Amends(r) ==
    LET c == call[r] IN
    c.op = "patch" /\ c.mode = "amend" /\ memories'[c.id] # memories[c.id] /\ UpdatedBy(c.id, r)
       => /\ Cardinality(Occurrences(memories[c.id].text, c.anchor)) = 1
          /\ memories'[c.id].text = Amended(memories[c.id].text, c.anchor, c.text)

\* A request ends with its own commit.
LEMMA CommitEnds ==
    ASSUME TypeOK, NEW q \in Requests, NEW n, NEW version, Commit(q, n, version),
           NEW r \in Requests, pc[r] # "idle", pc'[r] = "idle"
    PROVE  r = q
BY DEF Commit, TypeOK

LEMMA StepAmendsInPlace ==
    ASSUME TypeOK, AmendInv, [Next]_vars, NEW r \in Requests
    PROVE  Amends(r)
<1> SUFFICES ASSUME call[r].op = "patch", call[r].mode = "amend", ~UNCHANGED memories,
                    pc[r] # "idle", pc'[r] = "idle"
             PROVE  Amends(r)
  BY DEF Amends, UpdatedBy
<1>1. PICK q \in Requests : \/ UpdatePatch(q)
                            \/ InsertPut(q) \/ UpdateLifecycle(q) \/ UpdateRestore(q)
                            \/ UpdateSupersede(q) \/ UpdateRefute(q)
  BY DEF Next, vars, Begin, Replay, Expire, Abort, CheckSimilar, ReadAmend
<1>2. \E n, version : Commit(q, n, version)
  BY <1>1 DEF InsertPut, UpdatePatch, UpdateLifecycle, UpdateRestore, UpdateSupersede, UpdateRefute
<1>3. r = q
  BY <1>2, CommitEnds
<1>4. UpdatePatch(r)
  BY <1>1, <1>3 DEF InsertPut, UpdateLifecycle, UpdateRestore, UpdateSupersede, UpdateRefute
<1> QED BY <1>4, PatchAmends DEF Amends

\* An amend replaces one passage in place, whatever mutations are committed
\* between its SELECT and its UPDATE (amendContent).
THEOREM AmendsInPlace == Spec => AmendInPlace
<1>1. Init => AmendInv
  BY DEF Init, AmendInv, AmendSeen
<1>2. TypeOK /\ AmendInv /\ [Next]_vars => AmendInv'
  BY StepAmends
<1>3. TypeOK /\ AmendInv /\ [Next]_vars =>
        [\A r \in Requests :
          LET c == call[r] IN
          c.op = "patch" /\ c.mode = "amend" /\ memories'[c.id] # memories[c.id] /\ UpdatedBy(c.id, r)
             => /\ Cardinality(Occurrences(memories[c.id].text, c.anchor)) = 1
                /\ memories'[c.id].text = Amended(memories[c.id].text, c.anchor, c.text)]_vars
  BY StepAmendsInPlace DEF Amends
<1> QED BY <1>1, <1>2, <1>3, TypeCorrect, PTL DEF Spec, AmendInPlace
=============================================================================
