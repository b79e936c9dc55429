---------------------------- MODULE MemorySearch ----------------------------
(***************************************************************************)
(* What a reader is shown while others write: the pages of memory_list     *)
(* (listMemory of internal/service/search.go) and memory_recall, which     *)
(* asks SearchMemory once per namespace selector and merges what it gets   *)
(* (internal/mcpserver/recall.go).                                         *)
(*                                                                         *)
(* A page is one statement.  A search is up to eight: each of its four     *)
(* channels runs in a goroutine of its own and asks for memories and then  *)
(* for chunks, every statement with the snapshot of its own time, so that  *)
(* one search may see a row before and after a write.                      *)
(*                                                                         *)
(* A row is a memory, or a source chunk under one of the sources that have *)
(* it; rows are numbered in the order of candidateKey.  A text stands for  *)
(* all that scores a row: what each channel makes of it for the one query, *)
(* in thousandths (exact in tenths), and its ranking boost in millionths.  *)
(***************************************************************************)
EXTENDS Integers, FiniteSets, Sequences

CONSTANTS
    MemoryRows,      \* rows of memories
    ChunkRows,       \* rows of source_chunks joined with sources
    ChunkId,         \* the chunk of each of those
    Contents,        \* the texts each row may have
    Hits,            \* what the channels make of each text
    Selectors,       \* the rows below each namespace selector of a recall
    Tables,          \* the tables a request may find
    Nothing,         \* no cursor, no write under way, no answer of a statement
    Limit,           \* the limit of a recall
    CandidateLimit,  \* candidate_limit of a search
    PageLimit,       \* the limit of a listing
    MaxEdits         \* bound: writes beside the request

VARIABLES
    table,    \* the rows as last committed
    pending,  \* the row a write under way will commit
    clock,    \* the latest statement_timestamp() of a write
    edits,    \* the number of writes begun
    phase,    \* what the client is doing
    cursor,   \* the last row of the pages it has
    listed,   \* the rows of those pages
    at,       \* the selector a recall is searching
    read,     \* the statements of that search: their candidates, or Nothing
    results,  \* results of memoryRecall, merged so far
    answer,   \* the memories it answers with, best first
    touched,  \* history: rows that changed since the client began
    full      \* history: channels that reached CandidateLimit since then

searchVars == <<table, pending, clock, edits, phase, cursor, listed, at, read,
          results, answer, touched, full>>

-----------------------------------------------------------------------------
Rows == MemoryRows \cup ChunkRows
RowTexts == UNION {Contents[r] : r \in Rows}
TableRow == [text: RowTexts, visible: BOOLEAN, stamp: Nat, embedded: BOOLEAN]
Candidate == [row: Rows, text: RowTexts, stamp: Nat]

\* selectedChannels("hybrid"), in the order fuseCandidates takes them.
Channels == {"exact", "substring", "lexical", "semantic"}
ChannelOrder == <<"exact", "substring", "lexical", "semantic">>
Parts == {"memory", "chunk"}
Statements == Channels \X Parts
RowsOf(part) == IF part = "memory" THEN MemoryRows ELSE ChunkRows
NotRead == [s \in Statements |-> Nothing]

\* What the channels can make of a text (semantic is a cosine), and its ranking
\* boost at the most.
Scores ==
    {h \in [exact: Nat, substring: Nat, lexical: Nat, semantic: Int, boost: Nat] :
        /\ h.exact <= 50 /\ h.boost <= 80000
        /\ h.substring <= 1000 /\ h.lexical <= 1000
        /\ -1000 <= h.semantic /\ h.semantic <= 1000}
\* A relevance and a final score at the most, in millionths and in a hundredth of those.
MaxRelevance == 1000000
MaxFinal == 100 * MaxRelevance

ASSUME MemorySearchAssumption ==
    /\ MemoryRows \subseteq Nat /\ ChunkRows \subseteq Nat /\ IsFiniteSet(Rows)
    /\ \A m \in MemoryRows, c \in ChunkRows : m < c
    /\ \A c \in ChunkRows : ChunkId[c] \notin MemoryRows
    /\ Hits \in [RowTexts -> Scores]
    /\ Limit \in Nat \ {0} /\ PageLimit \in Nat \ {0}
    /\ CandidateLimit \in Nat \ {0} /\ MaxEdits \in Nat
    /\ Selectors \in Seq(SUBSET Rows)
    /\ \A t \in Tables : t \in [Rows -> TableRow] /\ \A r \in Rows : t[r].stamp <= 2
    /\ Nothing \notin Candidate

SearchTypeOK ==
    /\ table \in [Rows -> TableRow]
    /\ pending \in [Rows -> TableRow \cup {Nothing}]
    /\ clock \in Nat /\ edits \in 0 .. MaxEdits
    /\ phase \in {"idle", "walking", "walked", "recalling", "answered", "failed"}
    /\ cursor \in Candidate \cup {Nothing}
    /\ listed \in Seq(Candidate)
    /\ at \in 1 .. Len(Selectors) + 1
    /\ \A s \in Statements : read[s] = Nothing \/ read[s] \subseteq Candidate
    /\ \A s \in Statements : read[s] # Nothing => Cardinality(read[s]) <= CandidateLimit
    /\ \A h \in results : h.row \in Rows /\ h.final \in 0 .. MaxFinal
    /\ Len(answer) <= Limit
    /\ touched \subseteq Rows /\ full \subseteq Channels

SearchInit ==
    /\ table \in Tables
    /\ pending = [r \in Rows |-> Nothing]
    /\ clock = 2 /\ edits = 0
    /\ phase = "idle"
    /\ cursor = Nothing /\ listed = <<>>
    /\ at = 1 /\ read = NotRead /\ results = {} /\ answer = <<>>
    /\ touched = {} /\ full = {}

request == <<phase, cursor, listed, at, read, results, answer, full>>

-----------------------------------------------------------------------------
\* The first n of S, and all of S as a sequence, in the order Precedes.
First(S, n, Precedes(_, _)) ==
    {x \in S : Cardinality({y \in S : Precedes(y, x)}) < n}
InOrder(S, Precedes(_, _)) ==
    [i \in 1 .. Cardinality(S) |->
        CHOOSE x \in S : Cardinality({y \in S : Precedes(y, x)}) = i - 1]

\* A statement sees what is committed, less the rows its filters leave out
\* (buildMemoryFilters, buildSourceFilters: deleted, expired, refuted and
\* superseded rows and, for a recall, those outside the namespaces).
Seen(rows) ==
    {[row |-> r, text |-> table[r].text, stamp |-> table[r].stamp] :
        r \in {q \in rows : table[q].visible}}

-----------------------------------------------------------------------------
\* A mutation of memory.go or source.go: updated_at is the time its statement
\* began; readers see it from COMMIT on.  A client names the version it has
\* read, so a row has one such write at a time.  A new text has no vector.
BeginWrite(r) ==
    /\ edits < MaxEdits
    /\ pending[r] = Nothing
    /\ edits' = edits + 1
    /\ \E text \in Contents[r], visible \in BOOLEAN, stamp \in {clock, clock + 1} :
        /\ clock' = stamp
        /\ pending' = [pending EXCEPT ![r] =
              [text |-> text, visible |-> visible, stamp |-> stamp,
               embedded |-> table[r].embedded /\ text = table[r].text]]
    /\ UNCHANGED <<table, touched, request>>

CommitWrite(r) ==
    /\ pending[r] # Nothing
    /\ table' = [table EXCEPT ![r] = pending[r]]
    /\ pending' = [pending EXCEPT ![r] = Nothing]
    /\ touched' = touched \cup {r}
    /\ UNCHANGED <<clock, edits, request>>

\* expires_at passes; the row and its updated_at stay as they are.
Expire(r) ==
    /\ edits < MaxEdits
    /\ pending[r] = Nothing
    /\ table[r].visible
    /\ edits' = edits + 1
    /\ table' = [table EXCEPT ![r].visible = FALSE]
    /\ touched' = touched \cup {r}
    /\ UNCHANGED <<pending, clock, request>>

\* The embedding worker stores a vector (EmbeddingQueue has its own model).
StoreVector(r) ==
    /\ ~table[r].embedded
    /\ table' = [table EXCEPT ![r].embedded = TRUE]
    /\ UNCHANGED <<pending, clock, edits, touched, request>>

-----------------------------------------------------------------------------
\* ORDER BY updated_at DESC, id.
Newer(x, y) == x.stamp > y.stamp \/ (x.stamp = y.stamp /\ x.row < y.row)

\* Mutant: the cursor is a time only.
AfterTime(c, x) == c = Nothing \/ x.stamp < c.stamp

\* queryMemoryList: updated_at < $u OR (updated_at = $u AND id > $i).
After(c, x) == c = Nothing \/ x.stamp < c.stamp \/ (x.stamp = c.stamp /\ x.row > c.row)

\* listMemory of memories: one row more than the limit is asked for, to know
\* whether there is a next_cursor; without one the client is done.
ListPage ==
    LET rest == {x \in Seen(MemoryRows) : After(cursor, x)}
        page == InOrder(First(rest, PageLimit, Newer), Newer)
        more == Cardinality(First(rest, PageLimit + 1, Newer)) > PageLimit
    IN  /\ phase \in {"idle", "walking"}
        /\ listed' = listed \o page
        /\ cursor' = IF more THEN page[PageLimit] ELSE Nothing
        /\ phase' = IF more THEN "walking" ELSE "walked"
        /\ UNCHANGED <<table, pending, clock, edits, at, read, results, answer, touched, full>>

-----------------------------------------------------------------------------
Score(c, x) == Hits[x.text][c]

\* The order of a channel: its score, updated_at, candidateKey
\* (sortCandidatesByChannel and the ORDER BY of each statement).
LeadsIn(c, x, y) ==
    Score(c, x) > Score(c, y) \/ (Score(c, x) = Score(c, y) /\ Newer(x, y))

\* The predicate of a channel; the semantic one takes every row with a vector.
Matches(c, x) ==
    IF c = "semantic" THEN table[x.row].embedded ELSE Score(c, x) > 0

\* queryMemoryTextChannel, querySourceTextChannel, queryMemorySemantic and
\* querySourceSemantic: a statement of one search, for one kind.
Found(c, part) ==
    First({x \in Seen(RowsOf(part) \cap Selectors[at]) : Matches(c, x)}, CandidateLimit,
          LAMBDA x, y : LeadsIn(c, x, y))

BeginRecall ==
    /\ phase = "idle"
    /\ phase' = "recalling"
    /\ UNCHANGED <<table, pending, clock, edits, cursor, listed, at, read, results,
                   answer, touched, full>>

\* textCandidates and semanticCandidates ask for memories first.
Read(c, part) ==
    /\ phase = "recalling" /\ at <= Len(Selectors)
    /\ read[<<c, part>>] = Nothing
    /\ part = "chunk" => read[<<c, "memory">>] # Nothing
    /\ read' = [read EXCEPT ![<<c, part>>] = Found(c, part)]
    /\ UNCHANGED <<table, pending, clock, edits, phase, cursor, listed, at, results,
                   answer, touched, full>>

\* The query cannot be embedded or the statement fails: SearchMemory goes on
\* without the channel.
SemanticFails ==
    /\ phase = "recalling" /\ at <= Len(Selectors)
    /\ read[<<"semantic", "chunk">>] = Nothing
    /\ read' = [s \in Statements |-> IF s[1] = "semantic" THEN {} ELSE read[s]]
    /\ UNCHANGED <<table, pending, clock, edits, phase, cursor, listed, at, results,
                   answer, touched, full>>

\* Any other error ends the recall; what it has is dropped.
FailRecall ==
    /\ phase = "recalling"
    /\ phase' = "failed"
    /\ read' = NotRead /\ results' = {}
    /\ UNCHANGED <<table, pending, clock, edits, cursor, listed, at, answer, touched, full>>

-----------------------------------------------------------------------------
\* textCandidates, semanticCandidates: memories and chunks share one limit.
Candidates(c) ==
    First(read[<<c, "memory">>] \cup read[<<c, "chunk">>], CandidateLimit,
          LAMBDA x, y : LeadsIn(c, x, y))

\* The channels' weights in tenths over rrfConstant + rank.
Weight == [exact |-> 40, substring |-> 20, lexical |-> 15, semantic |-> 10]
ReciprocalRank(c, x) ==
    (Weight[c] * 10000) \div
        (61 + Cardinality({y \in Candidates(c) : LeadsIn(c, y, x)}))
MaxRRF == 850000 \div 61

\* hybridRelevance in millionths; best is in ten-thousandths.
BestChannel(substring, lexical, semantic) ==
    LET of == {IF substring >= 500 THEN 5500 + 4 * substring
               ELSE IF substring > 0 THEN 3000 + 5 * substring ELSE 0,
               IF lexical > 0 THEN 5000 + (45 * lexical) \div 10 ELSE 0,
               10 * semantic}
    IN  CHOOSE b \in of : \A o \in of : o <= b
Relevance(exact, substring, lexical, semantic, rrf) ==
    IF exact > 0 THEN 450000 + 11000 * exact
    ELSE 59 * BestChannel(substring, lexical, semantic) + (10000 * rrf) \div MaxRRF

\* fuseCandidates: the row as the first channel that has it read it, and for
\* each channel the score of the row as that channel read it.
SumOf(f) == f["exact"] + f["substring"] + f["lexical"] + f["semantic"]
Fused(r) ==
    LET of == [c \in Channels |-> {x \in Candidates(c) : x.row = r}]
        lead == CHOOSE i \in 1 .. 4 :
                   of[ChannelOrder[i]] # {} /\ \A j \in 1 .. i - 1 : of[ChannelOrder[j]] = {}
        row == CHOOSE x \in of[ChannelOrder[lead]] : TRUE
        score == [c \in Channels |-> IF of[c] = {} THEN 0
                                     ELSE Score(c, CHOOSE x \in of[c] : TRUE)]
        rrf == SumOf([c \in Channels |-> IF of[c] = {} THEN 0
                                         ELSE ReciprocalRank(c, CHOOSE x \in of[c] : TRUE)])
        relevance == Relevance(score.exact, score.substring, score.lexical, score.semantic, rrf)
    IN  [row |-> r, stamp |-> row.stamp, relevance |-> relevance, rrf |-> rrf,
         final |-> 92 * relevance + 100 * Hits[row.text].boost]

\* The order of fuseCandidates: Final, Relevance, RRF, updated_at, key.
FusedBefore(x, y) ==
    \/ x.final > y.final
    \/ /\ x.final = y.final
       /\ \/ x.relevance > y.relevance
          \/ /\ x.relevance = y.relevance
             /\ \/ x.rrf > y.rrf
                \/ (x.rrf = y.rrf /\ Newer(x, y))

\* Mutant: the limit is put on the whole list.
TruncatedTogether(hits) == First(hits, Limit, FusedBefore)

\* truncatePerKind
Truncated(hits) ==
    UNION {First({h \in hits : h.row \in RowsOf(part)}, Limit, FusedBefore) : part \in Parts}

\* mergeRecallResults: one result per kind and id; a later one takes its place
\* only with a higher Final.
KeyOf(r) == IF r \in MemoryRows THEN r ELSE ChunkId[r]
Keeps(x, y) ==
    \/ x.final > y.final
    \/ /\ x.final = y.final
       /\ y \notin results
       /\ x \in results \/ FusedBefore(x, y)
Merged(hits) ==
    {h \in results \cup hits :
        \A g \in results \cup hits : KeyOf(g.row) = KeyOf(h.row) => g = h \/ Keeps(h, g)}

\* SearchMemory has its channels: fuse, truncate, merge, next selector.
Search ==
    LET rows == {x.row : x \in UNION {Candidates(c) : c \in Channels}} IN
    /\ phase = "recalling" /\ at <= Len(Selectors)
    /\ \A s \in Statements : read[s] # Nothing
    /\ results' = Merged(Truncated({Fused(r) : r \in rows}))
    /\ full' = full \cup {c \in Channels : Cardinality(Candidates(c)) = CandidateLimit}
    /\ at' = at + 1
    /\ read' = NotRead
    /\ UNCHANGED <<table, pending, clock, edits, phase, cursor, listed, answer, touched>>

\* sortRecallResults: Final, Relevance, kind, id.
RecallBefore(x, y) ==
    \/ x.final > y.final
    \/ /\ x.final = y.final
       /\ x.relevance > y.relevance \/ (x.relevance = y.relevance /\ x.row < y.row)

\* Mutant: what the selectors brought together is not cut again.
SplitUncut(hits) == {h \in hits : h.row \in MemoryRows}

\* splitRecallResults, of which the memories are kept here.
Split(hits) == First({h \in hits : h.row \in MemoryRows}, Limit, RecallBefore)

\* The end of memoryRecall.
AnswerRecall ==
    LET best == InOrder(Split(results), RecallBefore) IN
    /\ phase = "recalling" /\ at > Len(Selectors)
    /\ phase' = "answered"
    /\ answer' = [i \in DOMAIN best |-> best[i].row]
    /\ results' = {}
    /\ UNCHANGED <<table, pending, clock, edits, cursor, listed, at, read, touched, full>>

SearchNext ==
    \/ \E r \in Rows : BeginWrite(r) \/ CommitWrite(r) \/ Expire(r) \/ StoreVector(r)
    \/ ListPage
    \/ BeginRecall
    \/ \E c \in Channels, part \in Parts : Read(c, part)
    \/ SemanticFails \/ FailRecall \/ Search \/ AnswerRecall

SearchSpec == SearchInit /\ [][SearchNext]_searchVars

-----------------------------------------------------------------------------
\* The pages of memory_list follow one another without a gap or a repetition,
\* although rows move to the front while the client turns them: no row comes
\* twice, the order of the listing holds across pages, and at the end every
\* row that could be seen and was not written meanwhile has come (README.md:286).
WalkIsExact ==
    /\ \A i, j \in DOMAIN listed : i < j =>
          listed[i].row # listed[j].row /\ Newer(listed[i], listed[j])
    /\ phase = "walked" =>
          \A m \in MemoryRows : table[m].visible /\ m \notin touched
              => \E i \in DOMAIN listed : listed[i].row = m

\* A memory that matches the words of a query and is not written meanwhile is
\* recalled, whatever its channels see of the rest and with or without the
\* semantic one, unless Limit better memories are: chunks do not crowd it out
\* (contracts.go:120), short of filling every channel that matches it.
SteadyIsRecalled ==
    phase = "answered" =>
        \A m \in MemoryRows \cap UNION {Selectors[i] : i \in DOMAIN Selectors} :
            table[m].visible /\ m \notin touched =>
                \/ Len(answer) = Limit
                \/ \E i \in DOMAIN answer : answer[i] = m
                \/ \A c \in Channels \ {"semantic"} :
                      Hits[table[m].text][c] > 0 => c \in full
=============================================================================
