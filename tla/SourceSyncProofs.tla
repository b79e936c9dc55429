-------------------------- MODULE SourceSyncProofs --------------------------
(***************************************************************************)
(* Theorems about SourceSync, for any requests, roots, files, contents and *)
(* manifests.  A transaction is described by itself (Shape), by the rows   *)
(* as committed, which those it has locked still are (Apart, Faithful),    *)
(* and by the versions kept of each file (VersionsOK).  What a COMMIT      *)
(* writes is then SourceIndex's Synchronised, whatever other               *)
(* synchronisations did since the transaction began.                       *)
(***************************************************************************)
EXTENDS SourceSync, FiniteSetTheorems, SequenceTheorems, WellFoundedInduction, TLAPS

-----------------------------------------------------------------------------
Upserting(txn) == txn.pc \in {"find", "ensure", "insert"}
Listed(files) == {files[i] : i \in 1 .. Len(files)}
Ascending(files) == \A i, j \in 1 .. Len(files) : i < j => files[i] < files[j]

\* A transaction as its handler makes it: the files of its manifest are those
\* it has upserted and, after them, those it has yet to.
Shape(txn) ==
    /\ txn.pc # "idle" => txn.manifest \in Manifests(txn.root)
    /\ Listed(txn.todo) \subseteq DOMAIN txn.manifest
    /\ DOMAIN txn.manifest \subseteq DOMAIN txn.writes \cup Listed(txn.todo)
    /\ Ascending(txn.todo)
    /\ Upserting(txn) <=> txn.todo # <<>>
    /\ \A f \in DOMAIN txn.writes, g \in Listed(txn.todo) : f < g
    /\ txn.pc # "delete" => DOMAIN txn.writes \subseteq DOMAIN txn.manifest
    /\ txn.found # NoSource => txn.pc = "ensure"
    /\ txn.missing \cap DOMAIN txn.manifest = {}
    /\ txn.pc = "delete" => txn.complete

\* A row that a transaction has locked is committed as the transaction read it,
\* and what it writes follows from that row; no row of its root escapes a pruning.
Faithful(txn, rows) ==
    /\ txn.found # NoSource => txn.found = rows[Head(txn.todo)]
    /\ \A f \in DOMAIN txn.writes \cap DOMAIN txn.manifest :
          txn.writes[f] = Updated(rows[f], txn.root, txn.manifest[f])
    /\ \A f \in DOMAIN txn.writes \ DOMAIN txn.manifest :
          rows[f].root = txn.root /\ txn.writes[f] = [rows[f] EXCEPT !.status = "deleted"]
    /\ txn.pc = "delete" =>
          \A f \in Files \ DOMAIN txn.manifest :
              rows[f].root = txn.root /\ rows[f].status # "deleted"
                  => f \in txn.missing \cup DOMAIN txn.writes

\* No two transactions have one row or one root.
Holds(txn, f) == f \in DOMAIN txn.writes \/ (txn.found # NoSource /\ f = Head(txn.todo))
Apart(s, t) ==
    /\ s.root # None => s.root # t.root
    /\ \A f \in Files : ~(Holds(s, f) /\ Holds(t, f))

\* The versions of a file are one for each generation, up to its row's.
VersionsOK(row, kept) ==
    /\ {v.generation : v \in kept} = 1 .. row.generation
    /\ \A v, w \in kept : v.generation = w.generation => v = w
    /\ \A v \in kept : v.generation = row.generation => v.content = row.content

\* An active file lies under its root, which has sent it.
Kept(f, row, roots) == row.status = "active" => f \in Under[row.root] /\ row.root \notin roots

IInv ==
    /\ TypeOK
    /\ \A r \in Requests : Shape(txns[r]) /\ Faithful(txns[r], sources)
    /\ \A r, s \in Requests : r # s => Apart(txns[r], txns[s])
    /\ \A f \in Files : VersionsOK(sources[f], versions[f]) /\ Kept(f, sources[f], gone[f])

-----------------------------------------------------------------------------
\* A set of files has a largest one, unless it is empty.
LEMMA Largest ==
    ASSUME NEW some \in SUBSET Files, some # {}
    PROVE  \E f \in some : \A g \in some : g <= f
<1>1. some \in SUBSET Nat /\ IsFiniteSet(some)
  BY SourceSyncAssumption, FS_Subset
<1> DEFINE sets == {S \in SUBSET some : S # {} /\ ~\E f \in S : \A g \in S : g <= f}
           sizes == {Cardinality(S) : S \in sets}
<1>2. SUFFICES sets = {}
  OBVIOUS
<1>3. \A S \in sets : IsFiniteSet(S) /\ Cardinality(S) \in Nat
  BY <1>1, FS_Subset, FS_CardinalityType
<1>4. SUFFICES ASSUME sets # {} PROVE FALSE
  OBVIOUS
<1>5. sizes \in SUBSET Nat /\ sizes # {}
  BY <1>3, <1>4
<1>6. PICK n \in sizes : \A m \in sizes : ~(m < n)
  <2> HIDE DEF sizes
  <2>1. \E n \in sizes : \A m \in sizes : <<m, n>> \notin OpToRel(<, Nat)
    BY <1>5, WFMin, NatLessThanWellFounded
  <2> QED BY <1>5, <2>1 DEF OpToRel
<1>7. PICK S \in sets : Cardinality(S) = n
  OBVIOUS
<1>8. PICK f \in S : TRUE
  OBVIOUS
<1>9. Cardinality(S \ {f}) < n
  BY <1>3, <1>7, <1>8, FS_RemoveElement
<1>10. S \ {f} \notin sets
  BY <1>6, <1>9
<1>11. CASE S \ {f} = {}
  BY <1>1, <1>7, <1>8, <1>11
<1>12. CASE S \ {f} # {}
  <2>1. PICK g \in S \ {f} : \A h \in S \ {f} : h <= g
    BY <1>10, <1>12
  <2>2. f \in Nat /\ g \in Nat /\ \A h \in S : h \in Nat
    BY <1>1
  <2>3. CASE f <= g
    BY <2>1, <2>3
  <2>4. CASE g < f
    BY <2>1, <2>2, <2>4
  <2> QED BY <2>2, <2>3, <2>4
<1> QED BY <1>11, <1>12

\* What Sorted chooses from is there to choose.
Sorts(files, named) ==
    /\ files \in [1 .. Cardinality(named) -> named]
    /\ \A i, j \in DOMAIN files : i < j => files[i] < files[j]

LEMMA SortExists ==
    ASSUME NEW all \in SUBSET Files
    PROVE  \E files : Sorts(files, all)
<1>1. all \in SUBSET Nat /\ IsFiniteSet(all)
  BY SourceSyncAssumption, FS_Subset
<1> DEFINE sets == {S \in SUBSET all : ~\E files : Sorts(files, S)}
           sizes == {Cardinality(S) : S \in sets}
<1>2. SUFFICES ASSUME sets # {} PROVE FALSE
  OBVIOUS
<1>3. \A S \in sets : IsFiniteSet(S) /\ Cardinality(S) \in Nat
  BY <1>1, FS_Subset, FS_CardinalityType
<1>4. sizes \in SUBSET Nat /\ sizes # {}
  BY <1>2, <1>3
<1>5. PICK n \in sizes : \A m \in sizes : ~(m < n)
  <2> HIDE DEF sizes
  <2>1. \E n \in sizes : \A m \in sizes : <<m, n>> \notin OpToRel(<, Nat)
    BY <1>4, WFMin, NatLessThanWellFounded
  <2> QED BY <1>4, <2>1 DEF OpToRel
<1>6. PICK S \in sets : Cardinality(S) = n
  OBVIOUS
<1>7. S # {}
  <2>1. SUFFICES ASSUME S = {} PROVE Sorts([i \in 1 .. 0 |-> 0], S)
    BY <1>6
  <2>2. Cardinality(S) = 0
    BY <2>1, FS_EmptySet
  <2> QED BY <2>1, <2>2 DEF Sorts
<1>8. PICK f \in S : \A g \in S : g <= f
  BY <1>1, <1>7, Largest
<1>9. n \in Nat /\ n > 0 /\ Cardinality(S \ {f}) = n - 1
  BY <1>3, <1>6, <1>7, <1>8, FS_RemoveElement, FS_EmptySet
<1>10. PICK files : Sorts(files, S \ {f})
  BY <1>5, <1>9
<1> DEFINE longer == [i \in 1 .. n |-> IF i = n THEN f ELSE files[i]]
<1>11. /\ \A i \in 1 .. n - 1 : files[i] \in S /\ files[i] \in Nat /\ files[i] < f
       /\ \A i, j \in 1 .. n - 1 : i < j => files[i] < files[j]
  <2>1. files \in [1 .. n - 1 -> S \ {f}] /\ \A i, j \in 1 .. n - 1 : i < j => files[i] < files[j]
    BY <1>9, <1>10 DEF Sorts
  <2>2. f \in Nat /\ \A g \in S \ {f} : g \in Nat /\ g < f
    BY <1>1, <1>8
  <2> QED BY <2>1, <2>2
<1>12. Sorts(longer, S)
  <2>1. longer \in [1 .. n -> S]
    BY <1>9, <1>11
  <2>2. ASSUME NEW i \in 1 .. n, NEW j \in 1 .. n, i < j PROVE longer[i] < longer[j]
    BY <1>9, <1>11, <2>2
  <2> QED BY <1>6, <2>1, <2>2 DEF Sorts
<1> QED BY <1>6, <1>12

\* normalizeSyncInput leaves every file once, in the order of their paths.
LEMMA SortedOK ==
    ASSUME NEW named \in SUBSET Files
    PROVE  /\ Sorted(named) \in Seq(Files)
           /\ Ascending(Sorted(named))
           /\ Listed(Sorted(named)) = named
<1> DEFINE files == Sorted(named)
           n == Cardinality(named)
<1>1. Sorts(files, named)
  <2>1. \E s \in [1 .. n -> named] : \A i, j \in DOMAIN s : i < j => s[i] < s[j]
    BY SortExists DEF Sorts
  <2> QED BY <2>1 DEF Sorted, Sorts
<1>2. named \in SUBSET Nat /\ IsFiniteSet(named) /\ n \in Nat
  BY SourceSyncAssumption, FS_Subset, FS_CardinalityType
<1> HIDE DEF files, n
<1>3. files \in [1 .. n -> named]
  BY <1>1 DEF Sorts, n
<1>4. files \in Seq(Files) /\ Len(files) = n
  <2>1. files \in Seq(named)
    BY <1>2, <1>3
  <2>2. Len(files) \in Nat /\ DOMAIN files = 1 .. Len(files) /\ files \in Seq(Files)
    BY <2>1, LenProperties, SeqMonotonic
  <2>3. 1 .. n = 1 .. Len(files)
    BY <1>3, <2>2
  <2>4. \A k, l \in Nat : 1 .. k = 1 .. l => k = l
    <3> SUFFICES ASSUME NEW k \in Nat, NEW l \in Nat, 1 .. k = 1 .. l PROVE k = l
      OBVIOUS
    <3>1. k # 0 => k \in 1 .. l
      <4>1. k # 0 => k \in 1 .. k
        OBVIOUS
      <4> QED BY <4>1
    <3>2. l # 0 => l \in 1 .. k
      <4>1. l # 0 => l \in 1 .. l
        OBVIOUS
      <4> QED BY <4>1
    <3> QED BY <3>1, <3>2
  <2> QED BY <1>2, <2>2, <2>3, <2>4
<1>5. \A i, j \in 1 .. n : i < j => files[i] < files[j]
  BY <1>1, <1>3 DEF Sorts
<1>6. files \in Injection(1 .. n, named)
  <2>1. ASSUME NEW i \in 1 .. n, NEW j \in 1 .. n, files[i] = files[j] PROVE i = j
    <3>1. files[i] \in Nat /\ files[j] \in Nat
      BY <1>2, <1>3
    <3> QED BY <1>2, <1>5, <2>1, <3>1
  <2> QED BY <1>3, <2>1 DEF Injection, IsInjective
<1>7. files \in Surjection(1 .. n, named)
  <2>1. Cardinality(1 .. n) = n
    BY <1>2, FS_Interval
  <2> QED BY <1>2, <1>6, <2>1, FS_Injection DEF n
<1>8. Listed(files) = named
  BY <1>3, <1>4, <1>7 DEF Listed, Surjection
<1> QED BY <1>4, <1>5, <1>8 DEF Ascending, files

-----------------------------------------------------------------------------
WritesType == UNION {[rows -> Source] : rows \in SUBSET Files}

LEMMA WrittenOK ==
    ASSUME NEW writes \in WritesType, NEW f \in Files, NEW row \in Source
    PROVE  /\ Written(writes, f, row) \in WritesType
           /\ DOMAIN Written(writes, f, row) = DOMAIN writes \cup {f}
           /\ Written(writes, f, row)[f] = row
           /\ \A g \in DOMAIN writes \ {f} : Written(writes, f, row)[g] = writes[g]
<1>1. PICK rows \in SUBSET Files : writes \in [rows -> Source]
  BY DEF WritesType
<1>2. Written(writes, f, row) \in [rows \cup {f} -> Source]
  BY <1>1 DEF Written
<1> QED BY <1>1, <1>2 DEF Written, WritesType

LEMMA WritesOK ==
    ASSUME NEW writes \in WritesType
    PROVE  /\ DOMAIN writes \in SUBSET Files
           /\ \A f \in DOMAIN writes : writes[f] \in Source
BY DEF WritesType

\* The file a transaction is at, and those after it.
LEMMA TodoOK ==
    ASSUME NEW todo \in Seq(Files), todo # <<>>, Ascending(todo)
    PROVE  /\ Head(todo) \in Files /\ Tail(todo) \in Seq(Files)
           /\ Listed(todo) = {Head(todo)} \cup Listed(Tail(todo))
           /\ Ascending(Tail(todo))
           /\ \A g \in Listed(Tail(todo)) : Head(todo) < g
           /\ Len(todo) > 1 <=> Tail(todo) # <<>>
<1>1. /\ Head(todo) \in Files /\ Tail(todo) \in Seq(Files)
      /\ Len(todo) \in Nat \ {0} /\ Len(Tail(todo)) = Len(todo) - 1
      /\ Head(todo) = todo[1]
      /\ \A i \in 1 .. Len(Tail(todo)) : Tail(todo)[i] = todo[i + 1]
  BY HeadTailProperties, EmptySeq
<1>2. \A i \in 2 .. Len(todo) : todo[i] = Tail(todo)[i - 1]
  BY <1>1
<1>3. \A i, j \in 1 .. Len(todo) : i < j => todo[i] < todo[j]
  BY DEF Ascending
<1> DEFINE rest == Tail(todo)
<1> HIDE DEF rest
<1>4. rest \in Seq(Files) /\ (Len(rest) = 0 <=> rest = <<>>)
  BY <1>1, EmptySeq DEF rest
<1>5. Listed(todo) = {Head(todo)} \cup Listed(rest)
  <2>1. ASSUME NEW i \in 1 .. Len(todo) PROVE todo[i] \in {Head(todo)} \cup Listed(rest)
    <3>1. CASE i = 1
      BY <1>1, <3>1
    <3>2. CASE i # 1
      <4>1. i - 1 \in 1 .. Len(rest) /\ todo[i] = rest[i - 1]
        BY <1>1, <1>2, <3>2 DEF rest
      <4> QED BY <4>1 DEF Listed
    <3> QED BY <3>1, <3>2
  <2>2. ASSUME NEW i \in 1 .. Len(rest) PROVE rest[i] \in Listed(todo)
    <3>1. i + 1 \in 1 .. Len(todo) /\ rest[i] = todo[i + 1]
      BY <1>1 DEF rest
    <3> QED BY <3>1 DEF Listed
  <2>3. Head(todo) \in Listed(todo)
    BY <1>1 DEF Listed
  <2> QED BY <2>1, <2>2, <2>3 DEF Listed
<1>6. Ascending(rest)
  <2> SUFFICES ASSUME NEW i \in 1 .. Len(rest), NEW j \in 1 .. Len(rest), i < j
               PROVE  rest[i] < rest[j]
    BY DEF Ascending
  <2>1. /\ i + 1 \in 1 .. Len(todo) /\ j + 1 \in 1 .. Len(todo) /\ i + 1 < j + 1
        /\ rest[i] = todo[i + 1] /\ rest[j] = todo[j + 1]
    BY <1>1 DEF rest
  <2> QED BY <1>3, <2>1
<1>7. ASSUME NEW i \in 1 .. Len(rest) PROVE Head(todo) < rest[i]
  <2>1. 1 \in 1 .. Len(todo) /\ i + 1 \in 1 .. Len(todo) /\ 1 < i + 1 /\ rest[i] = todo[i + 1]
    BY <1>1 DEF rest
  <2> QED BY <1>1, <1>3, <2>1
<1>8. Len(todo) > 1 <=> rest # <<>>
  <2>1. Len(rest) = Len(todo) - 1
    BY <1>1 DEF rest
  <2> QED BY <1>1, <1>4, <2>1
<1> QED BY <1>1, <1>5, <1>6, <1>7, <1>8 DEF rest, Listed

LEMMA TxnFields ==
    ASSUME NEW txn \in Txn
    PROVE  /\ txn.root \in Roots \cup {None} /\ txn.complete \in BOOLEAN
           /\ txn.todo \in Seq(Files) /\ txn.found \in {NoSource} \cup Source
           /\ txn.writes \in WritesType /\ txn.created \in SUBSET Contents
           /\ txn.missing \in SUBSET Files
           /\ txn.pc = "idle" => txn = NoTxn
           /\ txn.pc # "idle" => txn.root \in Roots
<1>1. CASE txn = NoTxn
  <2>1. <<>> \in Seq(Files)
    BY EmptySeq
  <2>2. <<>> \in WritesType
    <3>1. <<>> \in [{} -> Source]
      OBVIOUS
    <3> QED BY <3>1 DEF WritesType
  <2> QED BY <1>1, <2>1, <2>2 DEF NoTxn
<1>2. CASE txn # NoTxn
  BY <1>2 DEF Txn, WritesType
<1> QED BY <1>1, <1>2

LEMMA NoTxnOK ==
    /\ NoTxn \in Txn /\ Shape(NoTxn)
    /\ \A rows : Faithful(NoTxn, rows)
    /\ \A t : Apart(NoTxn, t)
<1>1. Listed(<<>>) = {}
  BY DEF Listed
<1>2. Shape(NoTxn)
  BY <1>1 DEF Shape, NoTxn, Upserting, Ascending
<1>3. \A f : ~Holds(NoTxn, f)
  BY DEF Holds, NoTxn
<1>4. \A t : Apart(NoTxn, t)
  BY <1>3 DEF Apart, NoTxn
<1>5. \A rows : Faithful(NoTxn, rows)
  BY DEF Faithful, NoTxn
<1> QED BY <1>2, <1>4, <1>5 DEF Txn

LEMMA Unlike == NoSource \notin Source /\ \A row \in Source : row.root # None /\ row.content # None
BY SourceSyncAssumption DEF Source, NoSource, Generations

\* A transaction goes on and the tables are as they were.
LEMMA TxnStep ==
    ASSUME IInv, NEW r \in Requests, NEW txn \in Txn, Set(r, txn), UNCHANGED tables,
           Shape(txn), Faithful(txn, sources), \A s \in Others(r) : Apart(txn, txns[s])
    PROVE  IInv'
<1>1. txns' \in [Requests -> Txn] /\ txns'[r] = txn /\ \A s \in Others(r) : txns'[s] = txns[s]
  BY DEF IInv, TypeOK, Set, Others
<1>2. TypeOK'
  BY <1>1 DEF IInv, TypeOK, tables
<1>3. ASSUME NEW s \in Requests PROVE Shape(txns'[s]) /\ Faithful(txns'[s], sources')
  BY <1>1 DEF IInv, tables, Others
<1>4. ASSUME NEW s \in Requests, NEW t \in Requests, s # t PROVE Apart(txns'[s], txns'[t])
  <2>1. CASE s = r
    BY <1>1, <1>4, <2>1 DEF Others
  <2>2. CASE t = r
    <3>1. Apart(txn, txns[s]) /\ txns'[s] = txns[s] /\ txns'[t] = txn
      BY <1>1, <1>4, <2>2 DEF Others
    <3> QED BY <3>1 DEF Apart
  <2>3. CASE s # r /\ t # r
    <3>1. Apart(txns[s], txns[t])
      BY <1>4 DEF IInv
    <3> QED BY <1>1, <2>3, <3>1 DEF Others
  <2> QED BY <2>1, <2>2, <2>3
<1>5. \A f \in Files : VersionsOK(sources'[f], versions'[f]) /\ Kept(f, sources'[f], gone'[f])
  BY DEF IInv, tables
<1> QED BY <1>2, <1>3, <1>4, <1>5 DEF IInv

LEMMA SlotOK ==
    ASSUME IInv, NEW r \in Requests
    PROVE  /\ txns[r] \in Txn /\ Shape(txns[r]) /\ Faithful(txns[r], sources)
           /\ \A s \in Others(r) : Apart(txns[r], txns[s])
BY DEF IInv, TypeOK, Others

LEMMA RowOK ==
    ASSUME IInv, NEW f \in Files
    PROVE  /\ sources[f] \in {NoSource} \cup Source
           /\ Exists(f) <=> sources[f] \in Source
           /\ Exists(f) <=> sources[f] # NoSource
           /\ sources[f].root \in Roots => sources[f] \in Source
<1>1. sources[f] \in {NoSource} \cup Source
  BY DEF IInv, TypeOK
<1> QED BY <1>1, SourceSyncAssumption DEF Exists, Source, NoSource

\* Whoever waits for nobody at a row is the only one to lock it.
LEMMA RowFree ==
    ASSUME NEW r \in Requests, NEW f \in Files, WaitsForRow(r, f) = {}
    PROVE  \A s \in Others(r) : ~Holds(txns[s], f)
BY DEF WaitsForRow, RowHolders, Others, Holds

\* The file a transaction is at.
LEMMA FileOK ==
    ASSUME NEW txn \in Txn, Shape(txn), Upserting(txn)
    PROVE  /\ txn.todo # <<>> /\ Head(txn.todo) \in Files /\ Head(txn.todo) \in DOMAIN txn.manifest
           /\ txn.manifest[Head(txn.todo)] \in Contents
           /\ Head(txn.todo) \notin DOMAIN txn.writes
           /\ txn.pc # "idle" /\ txn.root \in Roots
<1>1. txn.todo # <<>> /\ txn.todo \in Seq(Files) /\ Ascending(txn.todo) /\ txn.pc # "idle"
  BY TxnFields DEF Shape, Upserting
<1>2. Head(txn.todo) \in Files /\ Head(txn.todo) \in Listed(txn.todo)
  BY <1>1, TodoOK
<1>3. Head(txn.todo) \in DOMAIN txn.manifest
  BY <1>2 DEF Shape
<1>4. txn.manifest[Head(txn.todo)] \in Contents
  BY <1>1, <1>3 DEF Shape, Manifests
<1>5. Head(txn.todo) \notin DOMAIN txn.writes
  <2>1. Head(txn.todo) \in Nat
    BY <1>2, SourceSyncAssumption
  <2> QED BY <1>2, <2>1 DEF Shape
<1> QED BY <1>1, <1>2, <1>3, <1>4, <1>5, TxnFields

\* A row upserted, and on to the next file.
LEMMA OnwardsOK ==
    ASSUME NEW rows, NEW txn \in Txn, Shape(txn), Faithful(txn, rows), Upserting(txn), NEW new,
           LET f == Head(txn.todo)
               row == Updated(rows[f], txn.root, txn.manifest[f])
           IN  /\ row \in Source
               /\ new.pc = (IF Len(txn.todo) > 1 THEN "find" ELSE "prune")
               /\ new.todo = Tail(txn.todo) /\ new.found = NoSource
               /\ new.writes = Written(txn.writes, f, row)
               /\ new.root = txn.root /\ new.manifest = txn.manifest
               /\ new.missing = txn.missing /\ new.complete = txn.complete
    PROVE  /\ Shape(new) /\ Faithful(new, rows)
           /\ \A g : Holds(new, g) => Holds(txn, g) \/ g = Head(txn.todo)
<1> DEFINE f == Head(txn.todo)
           row == Updated(rows[f], txn.root, txn.manifest[f])
<1>1. /\ txn.todo # <<>> /\ f \in Files /\ f \in DOMAIN txn.manifest /\ txn.pc # "idle"
      /\ txn.writes \in WritesType /\ txn.todo \in Seq(Files) /\ Ascending(txn.todo)
  BY FileOK, TxnFields DEF Shape
<1>2. /\ Listed(txn.todo) = {f} \cup Listed(new.todo) /\ Ascending(new.todo)
      /\ \A g \in Listed(new.todo) : f < g
      /\ Len(txn.todo) > 1 <=> new.todo # <<>>
  BY <1>1, TodoOK
<1>3. row \in Source /\ new.writes = Written(txn.writes, f, row)
  OBVIOUS
<1> HIDE DEF row, f
<1>4. /\ DOMAIN new.writes = DOMAIN txn.writes \cup {f}
      /\ new.writes[f] = row
      /\ \A g \in DOMAIN txn.writes \ {f} : new.writes[g] = txn.writes[g]
  <2>1. txn.writes \in WritesType /\ f \in Files /\ row \in Source
    BY <1>1, <1>3
  <2> DEFINE w == Written(txn.writes, f, row)
  <2>2. /\ DOMAIN w = DOMAIN txn.writes \cup {f} /\ w[f] = row
        /\ \A g \in DOMAIN txn.writes \ {f} : w[g] = txn.writes[g]
    BY <2>1, WrittenOK
  <2> QED BY <1>3, <2>2
<1>5. Shape(new)
  <2>1. txn.pc \in {"find", "ensure", "insert"}
    BY DEF Upserting
  <2>2. DOMAIN txn.writes \subseteq DOMAIN txn.manifest
    BY <2>1 DEF Shape
  <2>3. \A g \in DOMAIN new.writes, h \in Listed(new.todo) : g < h
    BY <1>2, <1>4 DEF Shape
  <2> QED BY <1>1, <1>2, <1>4, <2>1, <2>2, <2>3 DEF Shape, Upserting
<1>6. Faithful(new, rows)
  <2>1. new.pc # "delete" /\ DOMAIN new.writes \subseteq DOMAIN new.manifest
    BY <1>5 DEF Shape
  <2>2. new.writes[f] = Updated(rows[f], new.root, new.manifest[f])
    BY <1>4 DEF row, f
  <2>3. \A g \in DOMAIN txn.writes \ {f} : g \in DOMAIN new.manifest
            => new.writes[g] = Updated(rows[g], new.root, new.manifest[g])
    BY <1>4 DEF Faithful
  <2> QED BY <1>4, <2>1, <2>2, <2>3 DEF Faithful
<1>7. \A g : Holds(new, g) => Holds(txn, g) \/ g = f
  BY <1>4 DEF Holds
<1> QED BY <1>5, <1>6, <1>7 DEF f

\* ... and nobody else has the row.
LEMMA StillApart ==
    ASSUME NEW s, NEW t, NEW new, NEW f, Apart(s, t), new.root = s.root, ~Holds(t, f),
           \A g : Holds(new, g) => Holds(s, g) \/ g = f
    PROVE  Apart(new, t)
BY DEF Apart

-----------------------------------------------------------------------------
LEMMA AbortStep ==
    ASSUME IInv, NEW r \in Requests, Set(r, NoTxn), UNCHANGED tables
    PROVE  IInv'
BY NoTxnOK, TxnStep

LEMMA BeginStep ==
    ASSUME IInv, NEW r \in Requests, NEW sent \in Calls, Begin(r, sent)
    PROVE  IInv'
<1> DEFINE files == Sorted(DOMAIN sent.manifest)
           new == Started(sent, files)
<1>1. /\ sent.root \in Roots /\ sent.manifest \in Manifests(sent.root) /\ sent.complete \in BOOLEAN
  BY SourceSyncAssumption DEF Call
<1>2. DOMAIN sent.manifest \in SUBSET Files
  BY <1>1, SourceSyncAssumption DEF Manifests
<1>3. files \in Seq(Files) /\ Ascending(files) /\ Listed(files) = DOMAIN sent.manifest
  BY <1>2, SortedOK
<1> HIDE DEF files
<1>4. /\ new.pc = (IF files = <<>> THEN "prune" ELSE "find") /\ new.root = sent.root
      /\ new.manifest = sent.manifest /\ new.complete = sent.complete /\ new.todo = files
      /\ new.found = NoSource /\ new.writes = <<>> /\ new.created = {} /\ new.missing = {}
  BY DEF Started, NoTxn
<1>5. new \in Txn
  <2>1. <<>> \in UNION {[rows -> Source] : rows \in SUBSET Files}
    BY TxnFields, NoTxnOK DEF NoTxn, WritesType
  <2> QED BY <1>1, <1>3, <2>1 DEF Txn, Started, NoTxn
<1>6. Set(r, new) /\ UNCHANGED tables /\ \A s \in Requests : txns[s].root # sent.root
  BY DEF Begin, files
<1> HIDE DEF new
<1>7. Shape(new)
  BY <1>1, <1>3, <1>4 DEF Shape, Upserting
<1>8. Faithful(new, sources)
  BY <1>4 DEF Faithful
<1>9. \A s \in Others(r) : Apart(new, txns[s])
  BY <1>4, <1>6 DEF Apart, Holds, Others
<1> QED BY <1>5, <1>6, <1>7, <1>8, <1>9, TxnStep

LEMMA FindSourceStep ==
    ASSUME IInv, NEW r \in Requests, FindSource(r)
    PROVE  IInv'
<1> DEFINE txn == txns[r]
           f == Head(txn.todo)
           new == [txn EXCEPT !.pc = "ensure", !.found = sources[f]]
<1>1. txn \in Txn /\ Shape(txn) /\ Faithful(txn, sources) /\ txn.pc = "find"
  BY SlotOK DEF FindSource
<1>2. Set(r, new) /\ UNCHANGED tables /\ (Exists(f) => WaitsForRow(r, f) = {})
  BY DEF FindSource, File
<1>3. f \in Files
  BY <1>1, FileOK DEF Upserting
<1>4. new \in Txn
  <2>1. sources[f] \in {NoSource} \cup Source
    BY <1>3, RowOK
  <2>2. txn # NoTxn
    BY <1>1 DEF NoTxn
  <2> QED BY <1>1, <2>1, <2>2 DEF Txn
<1>5. /\ new.pc = "ensure" /\ new.found = sources[f] /\ new.root = txn.root
      /\ new.manifest = txn.manifest /\ new.complete = txn.complete /\ new.todo = txn.todo
      /\ new.writes = txn.writes /\ new.missing = txn.missing
  BY <1>1 DEF Txn, NoTxn
<1>6. txn.found = NoSource
  BY <1>1 DEF Shape
<1> HIDE DEF new
<1>7. Shape(new)
  BY <1>1, <1>5 DEF Shape, Upserting
<1>8. Faithful(new, sources)
  BY <1>1, <1>5 DEF Faithful
<1>9. ASSUME NEW s \in Others(r) PROVE Apart(new, txns[s])
  <2>1. Apart(txn, txns[s])
    BY SlotOK
  <2>2. CASE Exists(f)
    <3>1. ~Holds(txns[s], f)
      BY <1>2, <1>3, <2>2, RowFree
    <3>2. \A g : Holds(new, g) => Holds(txn, g) \/ g = f
      BY <1>5 DEF Holds
    <3> QED BY <1>5, <2>1, <3>1, <3>2, StillApart
  <2>3. CASE ~Exists(f)
    BY <1>3, <1>5, <2>1, <2>3, RowOK DEF Apart, Holds
  <2> QED BY <2>2, <2>3
<1> QED BY <1>2, <1>4, <1>7, <1>8, <1>9, TxnStep

LEMMA UpdatedOK ==
    ASSUME NEW row \in {NoSource} \cup Source, NEW root \in Roots, NEW content \in Contents,
           row.generation < MaxGeneration \/ row.content = content
    PROVE  /\ Updated(row, root, content) \in Source
           /\ Updated(row, root, content).root = root
           /\ Updated(row, root, content).status = "active"
           /\ Updated(row, root, content).content = content
           /\ Updated(row, root, content).generation =
                (IF row.content = content THEN row.generation ELSE row.generation + 1)
<1>1. row.generation \in 0 .. MaxGeneration /\ (row.content = content => row.generation \in Generations)
  BY Unlike, SourceSyncAssumption DEF Source, NoSource, Generations
<1>2. (IF row.content = content THEN row.generation ELSE row.generation + 1) \in Generations
  BY <1>1, SourceSyncAssumption DEF Generations
<1>3. CASE row = NoSource
  BY <1>2, <1>3 DEF Updated, NoSource, Source
<1>4. CASE row \in Source
  BY <1>2, <1>4 DEF Updated, Source
<1> QED BY <1>3, <1>4

\* The row of a path that is new.
LEMMA InsertedOK ==
    ASSUME NEW root \in Roots, NEW content \in Contents
    PROVE  Updated(NoSource, root, content)
             = [status |-> "active", root |-> root, content |-> content, generation |-> 1]
<1> DEFINE row == Updated(NoSource, root, content)
<1>1. NoSource.generation = 0 /\ NoSource.content # content /\ 0 < MaxGeneration
  BY SourceSyncAssumption DEF NoSource
<1>2. /\ row \in Source
      /\ row.root = root /\ row.status = "active" /\ row.content = content /\ row.generation = 1
  BY <1>1, UpdatedOK
<1> HIDE DEF row
<1>3. row = [status |-> "active", root |-> root, content |-> content, generation |-> 1]
  BY <1>2 DEF Source
<1> QED BY <1>3 DEF row

\* A transaction that goes on to its next file is still one.
LEMMA OnwardsType ==
    ASSUME NEW txn \in Txn, txn # NoTxn, Shape(txn), Upserting(txn),
           NEW created \in SUBSET Contents, NEW writes \in WritesType
    PROVE  LET new == Onwards([txn EXCEPT !.created = created, !.writes = writes]) IN
           /\ new \in Txn
           /\ new.pc = (IF Len(txn.todo) > 1 THEN "find" ELSE "prune")
           /\ new.todo = Tail(txn.todo) /\ new.found = NoSource /\ new.writes = writes
           /\ new.root = txn.root /\ new.manifest = txn.manifest
           /\ new.missing = txn.missing /\ new.complete = txn.complete
<1>1. Tail(txn.todo) \in Seq(Files)
  BY TxnFields, TodoOK DEF Shape
<1> QED BY <1>1 DEF Onwards, Txn, WritesType

LEMMA EnsureContentStep ==
    ASSUME IInv, NEW r \in Requests, EnsureContent(r)
    PROVE  IInv'
<1> DEFINE txn == txns[r]
           f == Head(txn.todo)
           c == txn.manifest[f]
           created == IF c \in contents THEN txn.created ELSE txn.created \cup {c}
<1>1. /\ txn \in Txn /\ Shape(txn) /\ Faithful(txn, sources) /\ txn.pc = "ensure"
      /\ txn # NoTxn /\ Upserting(txn)
  BY SlotOK DEF EnsureContent, NoTxn, Upserting
<1>2. /\ f \in Files /\ c \in Contents /\ txn.root \in Roots
      /\ created \in SUBSET Contents
  BY <1>1, FileOK, TxnFields
<1>3. UNCHANGED tables /\ (txn.found.generation < MaxGeneration \/ txn.found.content = c)
  BY DEF EnsureContent, File, Content
<1>4. CASE txn.found = NoSource
  <2> DEFINE new == [[txn EXCEPT !.created = created] EXCEPT !.pc = "insert"]
  <2>1. Set(r, new)
    BY <1>4 DEF EnsureContent, File, Content
  <2>2. new \in Txn
    <3> HIDE DEF created
    <3> QED BY <1>1, <1>2 DEF Txn
  <2>3. /\ new.pc = "insert" /\ new.found = NoSource /\ new.root = txn.root
        /\ new.manifest = txn.manifest /\ new.complete = txn.complete /\ new.todo = txn.todo
        /\ new.writes = txn.writes /\ new.missing = txn.missing
    <3> HIDE DEF created
    <3> QED BY <1>1, <1>4 DEF Txn
  <2> HIDE DEF new
  <2>4. Shape(new)
    BY <1>1, <2>3 DEF Shape, Upserting
  <2>5. Faithful(new, sources)
    BY <1>1, <2>3 DEF Faithful
  <2>6. \A s \in Others(r) : Apart(new, txns[s])
    BY <2>3, SlotOK DEF Apart, Holds
  <2> QED BY <1>3, <2>1, <2>2, <2>4, <2>5, <2>6, TxnStep
<1>5. CASE txn.found # NoSource
  <2> DEFINE row == Updated(sources[f], txn.root, c)
             writes == Written(txn.writes, f, row)
             new == Onwards([txn EXCEPT !.created = created, !.writes = writes])
  <2>1. txn.found = sources[f] /\ sources[f] \in {NoSource} \cup Source
    BY <1>1, <1>2, <1>5, RowOK DEF Faithful
  <2>2. row \in Source
    BY <1>2, <1>3, <2>1, UpdatedOK
  <2>3. Set(r, new)
    BY <1>1, <1>5, <2>1 DEF EnsureContent, File, Content, Txn
  <2> HIDE DEF row, created
  <2>4. writes \in WritesType
    BY <1>1, <1>2, <2>2, TxnFields, WrittenOK
  <2>5. /\ new \in Txn
        /\ new.pc = (IF Len(txn.todo) > 1 THEN "find" ELSE "prune")
        /\ new.todo = Tail(txn.todo) /\ new.found = NoSource /\ new.writes = writes
        /\ new.root = txn.root /\ new.manifest = txn.manifest
        /\ new.missing = txn.missing /\ new.complete = txn.complete
    <3>1. /\ txn \in Txn /\ txn # NoTxn /\ Shape(txn) /\ Upserting(txn)
          /\ created \in SUBSET Contents /\ writes \in WritesType
      BY <1>1, <1>2, <2>4
    <3> HIDE DEF writes, txn
    <3> QED BY <3>1, OnwardsType
  <2> HIDE DEF new
  <2>6. Shape(new) /\ Faithful(new, sources) /\ \A g : Holds(new, g) => Holds(txn, g) \/ g = f
    BY <1>1, <2>2, <2>5, OnwardsOK DEF row
  <2>7. Holds(txn, f)
    BY <1>5 DEF Holds
  <2>8. ASSUME NEW s \in Others(r) PROVE Apart(new, txns[s])
    <3>1. Apart(txn, txns[s])
      BY SlotOK
    <3>2. ~Holds(txns[s], f)
      BY <1>2, <2>7, <3>1 DEF Apart
    <3> QED BY <2>5, <2>6, <3>1, <3>2, StillApart
  <2> QED BY <1>3, <2>3, <2>5, <2>6, <2>8, TxnStep
<1> QED BY <1>4, <1>5

LEMMA InsertSourceStep ==
    ASSUME IInv, NEW r \in Requests, InsertSource(r)
    PROVE  IInv'
<1> DEFINE txn == txns[r]
           f == Head(txn.todo)
           c == txn.manifest[f]
           created == txn.created
<1>1. /\ txn \in Txn /\ Shape(txn) /\ Faithful(txn, sources) /\ txn.pc = "insert"
      /\ txn # NoTxn /\ Upserting(txn)
  BY SlotOK DEF InsertSource, NoTxn, Upserting
<1>2. f \in Files /\ c \in Contents /\ txn.root \in Roots /\ created \in SUBSET Contents
  BY <1>1, FileOK, TxnFields
<1>3. UNCHANGED tables /\ WaitsForRow(r, f) = {}
  BY DEF InsertSource, File, Content
<1>4. CASE Exists(f)
  BY <1>3, <1>4, AbortStep DEF InsertSource, File
<1>5. CASE ~Exists(f)
  <2> DEFINE row == Updated(sources[f], txn.root, c)
             writes == Written(txn.writes, f, row)
             new == Onwards([txn EXCEPT !.created = created, !.writes = writes])
  <2>1. sources[f] = NoSource
    BY <1>2, <1>5, RowOK
  <2>2. row \in Source
    <3>1. NoSource.generation < MaxGeneration
      BY SourceSyncAssumption DEF NoSource
    <3> QED BY <1>2, <2>1, <3>1, UpdatedOK
  <2>3. row = [status |-> "active", root |-> txn.root, content |-> c, generation |-> 1]
    BY <1>2, <2>1, InsertedOK
  <2>4. Set(r, new)
    <3>1. [txn EXCEPT !.writes = writes] = [txn EXCEPT !.created = created, !.writes = writes]
      <4> HIDE DEF writes
      <4> QED BY <1>1 DEF Txn
    <3> QED BY <1>5, <2>3, <3>1 DEF InsertSource, File, Content
  <2> HIDE DEF row
  <2>5. writes \in WritesType
    BY <1>1, <1>2, <2>2, TxnFields, WrittenOK
  <2>6. /\ new \in Txn
        /\ new.pc = (IF Len(txn.todo) > 1 THEN "find" ELSE "prune")
        /\ new.todo = Tail(txn.todo) /\ new.found = NoSource /\ new.writes = writes
        /\ new.root = txn.root /\ new.manifest = txn.manifest
        /\ new.missing = txn.missing /\ new.complete = txn.complete
    <3>1. /\ txn \in Txn /\ txn # NoTxn /\ Shape(txn) /\ Upserting(txn)
          /\ created \in SUBSET Contents /\ writes \in WritesType
      BY <1>1, <1>2, <2>5
    <3> HIDE DEF writes, created, txn
    <3> QED BY <3>1, OnwardsType
  <2> HIDE DEF new
  <2>7. Shape(new) /\ Faithful(new, sources) /\ \A g : Holds(new, g) => Holds(txn, g) \/ g = f
    BY <1>1, <2>2, <2>6, OnwardsOK DEF row
  <2>8. ASSUME NEW s \in Others(r) PROVE Apart(new, txns[s])
    <3>1. Apart(txn, txns[s]) /\ ~Holds(txns[s], f)
      BY <1>2, <1>3, SlotOK, RowFree
    <3> QED BY <2>6, <2>7, <3>1, StillApart
  <2> QED BY <1>3, <2>4, <2>6, <2>7, <2>8, TxnStep
<1> QED BY <1>4, <1>5

-----------------------------------------------------------------------------
LEMMA PruneStep ==
    ASSUME IInv, NEW r \in Requests, Prune(r)
    PROVE  IInv'
<1> DEFINE txn == txns[r]
           new == [txn EXCEPT !.pc = "delete", !.missing = Missing(r)]
<1>1. /\ txn \in Txn /\ Shape(txn) /\ Faithful(txn, sources) /\ txn.pc = "prune" /\ txn.complete
      /\ txn # NoTxn /\ Set(r, new) /\ UNCHANGED tables
  BY SlotOK DEF Prune, NoTxn
<1>2. Missing(r) = {f \in Files \ DOMAIN txn.manifest : sources[f].root = txn.root /\ sources[f].status # "deleted"}
  BY DEF Missing
<1> DEFINE missing == Missing(r)
<1>3. missing \in SUBSET Files
  BY <1>2
<1> HIDE DEF missing
<1>4. /\ new \in Txn
      /\ new.pc = "delete" /\ new.missing = missing /\ new.root = txn.root
      /\ new.manifest = txn.manifest /\ new.complete = txn.complete /\ new.todo = txn.todo
      /\ new.writes = txn.writes /\ new.found = txn.found
  BY <1>1, <1>3 DEF Txn, missing
<1> HIDE DEF new
<1>5. Shape(new)
  <2>1. missing \cap DOMAIN txn.manifest = {} /\ txn.found = NoSource /\ txn.todo = <<>>
    BY <1>1, <1>2 DEF Shape, Upserting, missing
  <2> QED BY <1>1, <1>4, <2>1 DEF Shape, Upserting
<1>6. Faithful(new, sources)
  BY <1>1, <1>2, <1>4 DEF Faithful, missing
<1>7. \A s \in Others(r) : Apart(new, txns[s])
  BY <1>4, SlotOK DEF Apart, Holds
<1> QED BY <1>1, <1>4, <1>5, <1>6, <1>7, TxnStep

LEMMA PruneRowStep ==
    ASSUME IInv, NEW r \in Requests, NEW f \in Files, PruneRow(r, f)
    PROVE  IInv'
<1> DEFINE txn == txns[r]
           row == [sources[f] EXCEPT !.status = "deleted"]
           writes == IF Prunable(r, f) THEN Written(txn.writes, f, row) ELSE txn.writes
           new == [txn EXCEPT !.missing = txn.missing \ {f}, !.writes = writes]
<1>1. /\ txn \in Txn /\ Shape(txn) /\ Faithful(txn, sources) /\ txn.pc = "delete"
      /\ txn # NoTxn /\ txn.writes \in WritesType /\ txn.missing \in SUBSET Files /\ txn.root \in Roots
      /\ f \in txn.missing /\ WaitsForRow(r, f) = {} /\ Set(r, new) /\ UNCHANGED tables
  BY SlotOK, TxnFields DEF PruneRow, NoTxn
<1>2. f \notin DOMAIN txn.manifest /\ txn.found = NoSource
  BY <1>1 DEF Shape
<1>3. /\ Prunable(r, f) => sources[f].root = txn.root /\ row \in Source
      /\ Prunable(r, f) <=> sources[f].root = txn.root /\ sources[f].status # "deleted"
  <2>1. sources[f].root \in Roots => sources[f] \in Source
    BY RowOK
  <2> QED BY <1>1, <2>1 DEF Prunable, Source
<1>4. /\ writes \in WritesType
      /\ DOMAIN writes = DOMAIN txn.writes \cup (IF Prunable(r, f) THEN {f} ELSE {})
      /\ Prunable(r, f) => writes[f] = row
      /\ \A g \in DOMAIN txn.writes \ {f} : writes[g] = txn.writes[g]
  <2> HIDE DEF row
  <2>1. CASE Prunable(r, f)
    <3> DEFINE w == Written(txn.writes, f, row)
    <3>1. row \in Source /\ txn.writes \in WritesType
      BY <1>1, <1>3, <2>1
    <3>2. /\ w \in WritesType /\ DOMAIN w = DOMAIN txn.writes \cup {f} /\ w[f] = row
          /\ \A g \in DOMAIN txn.writes \ {f} : w[g] = txn.writes[g]
      BY <3>1, WrittenOK
    <3> QED BY <2>1, <3>2
  <2>2. CASE ~Prunable(r, f)
    BY <1>1, <2>2
  <2> QED BY <2>1, <2>2
<1> HIDE DEF writes, row
<1>5. /\ new \in Txn
      /\ new.pc = "delete" /\ new.missing = txn.missing \ {f} /\ new.root = txn.root
      /\ new.manifest = txn.manifest /\ new.complete = txn.complete /\ new.todo = txn.todo
      /\ new.writes = writes /\ new.found = txn.found
  BY <1>1, <1>4 DEF Txn, WritesType
<1> HIDE DEF new
<1>6. Shape(new)
  <2>1. txn.todo = <<>>
    BY <1>1 DEF Shape, Upserting
  <2>2. Listed(txn.todo) = {}
    BY <2>1 DEF Listed
  <2> QED BY <1>1, <1>2, <1>4, <1>5, <2>1, <2>2 DEF Shape, Upserting
<1>7. Faithful(new, sources)
  <2>1. \A g \in DOMAIN writes \cap DOMAIN txn.manifest :
          writes[g] = Updated(sources[g], txn.root, txn.manifest[g])
    BY <1>1, <1>2, <1>4 DEF Faithful
  <2>2. \A g \in DOMAIN writes \ DOMAIN txn.manifest :
          sources[g].root = txn.root /\ writes[g] = [sources[g] EXCEPT !.status = "deleted"]
    <3> SUFFICES ASSUME NEW g \in DOMAIN writes \ DOMAIN txn.manifest
                 PROVE  sources[g].root = txn.root /\ writes[g] = [sources[g] EXCEPT !.status = "deleted"]
      OBVIOUS
    <3>1. CASE g = f /\ Prunable(r, f)
      BY <1>3, <1>4, <3>1 DEF row
    <3>2. CASE g # f
      BY <1>1, <1>4, <3>2 DEF Faithful
    <3>3. CASE g = f /\ ~Prunable(r, f)
      BY <1>1, <1>4, <3>3 DEF Faithful, writes
    <3> QED BY <3>1, <3>2, <3>3
  <2>3. \A g \in Files \ DOMAIN txn.manifest :
          sources[g].root = txn.root /\ sources[g].status # "deleted"
              => g \in (txn.missing \ {f}) \cup DOMAIN writes
    BY <1>1, <1>3, <1>4 DEF Faithful
  <2> QED BY <1>2, <1>5, <2>1, <2>2, <2>3 DEF Faithful
<1>8. ASSUME NEW s \in Others(r) PROVE Apart(new, txns[s])
  <2>1. Apart(txn, txns[s]) /\ ~Holds(txns[s], f)
    BY <1>1, SlotOK, RowFree
  <2>2. \A g : Holds(new, g) => Holds(txn, g) \/ g = f
    BY <1>2, <1>4, <1>5 DEF Holds
  <2> QED BY <1>5, <2>1, <2>2, StillApart
<1> QED BY <1>1, <1>5, <1>6, <1>7, <1>8, TxnStep

-----------------------------------------------------------------------------
\* What refreshUnchangedSource and updateChangedSource leave.
LEMMA UpdatedFields ==
    ASSUME NEW row \in {NoSource} \cup Source, NEW root, NEW content
    PROVE  /\ Updated(row, root, content).root = root
           /\ Updated(row, root, content).status = "active"
           /\ Updated(row, root, content).content = content
           /\ Updated(row, root, content).generation =
                (IF row.content = content THEN row.generation ELSE row.generation + 1)
<1>1. CASE row = NoSource
  BY <1>1 DEF Updated, NoSource
<1>2. CASE row \in Source
  BY <1>2 DEF Updated, Source
<1> QED BY <1>1, <1>2

\* A transaction that may commit has upserted all of its manifest.
LEMMA FinishedOK ==
    ASSUME NEW txn \in Txn, Shape(txn), Finished(txn)
    PROVE  /\ txn.pc # "idle" /\ txn.root \in Roots /\ txn.todo = <<>>
           /\ txn.manifest \in Manifests(txn.root)
           /\ DOMAIN txn.manifest \subseteq DOMAIN txn.writes
           /\ txn.complete => txn.pc = "delete" /\ txn.missing = {}
           /\ ~txn.complete => DOMAIN txn.writes \subseteq DOMAIN txn.manifest
<1>1. txn.pc \in {"prune", "delete"} /\ txn.todo = <<>>
  BY DEF Finished, Shape, Upserting
<1>2. Listed(txn.todo) = {}
  BY <1>1 DEF Listed
<1> QED BY <1>1, <1>2, TxnFields DEF Finished, Shape

\* What a COMMIT makes of a row it has written.
LEMMA WrittenRow ==
    ASSUME NEW txn \in Txn, Shape(txn), Finished(txn), NEW rows, Faithful(txn, rows),
           NEW f \in DOMAIN txn.writes, rows[f] \in {NoSource} \cup Source
    PROVE  LET row == txn.writes[f] IN
           /\ f \in Files /\ row \in Source /\ row.root = txn.root
           /\ f \in DOMAIN txn.manifest => row.status = "active" /\ row.content = txn.manifest[f]
           /\ f \notin DOMAIN txn.manifest => row.status = "deleted"
           /\ row.generation = rows[f].generation => row.content = rows[f].content
           /\ row.generation # rows[f].generation => row.generation = rows[f].generation + 1
<1> DEFINE row == txn.writes[f]
<1>1. f \in Files /\ row \in Source
  BY TxnFields, WritesOK
<1>2. rows[f].generation \in Nat
  BY SourceSyncAssumption DEF Source, NoSource, Generations
<1>3. CASE f \in DOMAIN txn.manifest
  <2>1. row = Updated(rows[f], txn.root, txn.manifest[f])
    BY <1>3 DEF Faithful
  <2> HIDE DEF row
  <2>2. /\ row.root = txn.root /\ row.status = "active" /\ row.content = txn.manifest[f]
        /\ row.generation = (IF rows[f].content = txn.manifest[f] THEN rows[f].generation
                                                                ELSE rows[f].generation + 1)
    BY <2>1, UpdatedFields
  <2> QED BY <1>1, <1>2, <1>3, <2>2 DEF row
<1>4. CASE f \notin DOMAIN txn.manifest
  <2>1. rows[f].root = txn.root /\ row = [rows[f] EXCEPT !.status = "deleted"]
    BY <1>4 DEF Faithful
  <2>2. txn.root \in Roots
    BY FinishedOK
  <2>3. rows[f] \in Source
    BY <2>1, <2>2, SourceSyncAssumption DEF NoSource
  <2> HIDE DEF row
  <2>4. /\ row.root = txn.root /\ row.status = "deleted" /\ row.content = rows[f].content
        /\ row.generation = rows[f].generation
    BY <2>1, <2>3 DEF Source
  <2> QED BY <1>1, <1>4, <2>4 DEF row
<1> QED BY <1>3, <1>4

\* A transaction goes on holding for rows that differ where it has locked none
\* and none that its pruning would have to see.
LEMMA FaithfulStays ==
    ASSUME NEW txn \in Txn, Shape(txn), NEW rows, NEW new, Faithful(txn, rows),
           \A f \in Files : Holds(txn, f) => new[f] = rows[f],
           \A f \in Files : txn.root # None /\ new[f].root = txn.root /\ new[f].status # "deleted"
                            => rows[f].root = txn.root /\ rows[f].status # "deleted"
    PROVE  Faithful(txn, new)
<1>1. DOMAIN txn.writes \in SUBSET Files /\ \A f \in DOMAIN txn.writes : new[f] = rows[f]
  BY TxnFields, WritesOK DEF Holds
<1>2. ASSUME txn.found # NoSource PROVE txn.found = new[Head(txn.todo)]
  <2>1. Head(txn.todo) \in Files
    BY <1>2, FileOK DEF Shape, Upserting
  <2> QED BY <1>2, <2>1 DEF Holds, Faithful
<1>3. ASSUME txn.pc = "delete"
      PROVE  \A f \in Files \ DOMAIN txn.manifest :
                new[f].root = txn.root /\ new[f].status # "deleted"
                    => f \in txn.missing \cup DOMAIN txn.writes
  <2>1. txn.root # None
    BY <1>3, TxnFields, SourceSyncAssumption
  <2> QED BY <1>3, <2>1 DEF Faithful
<1> QED BY <1>1, <1>2, <1>3 DEF Faithful

\* One version more.
LEMMA VersionsGrow ==
    ASSUME NEW old, NEW kept, VersionsOK(old, kept), old.generation \in Nat,
           NEW row, row.generation = old.generation + 1
    PROVE  VersionsOK(row, kept \cup {[generation |-> row.generation, content |-> row.content]})
<1> DEFINE n == old.generation
           version == [generation |-> row.generation, content |-> row.content]
<1>1. version.generation = n + 1 /\ version.content = row.content
  OBVIOUS
<1>2. 1 .. n + 1 = (1 .. n) \cup {n + 1}
  OBVIOUS
<1>3. \A v \in kept : v.generation \in 1 .. n /\ v.generation # n + 1
  BY DEF VersionsOK
<1> HIDE DEF version
<1>4. {v.generation : v \in kept \cup {version}} = 1 .. row.generation
  <2>1. {v.generation : v \in kept} = 1 .. n
    BY DEF VersionsOK
  <2> QED BY <1>1, <1>2, <2>1
<1>5. \A v, w \in kept \cup {version} : v.generation = w.generation => v = w
  BY <1>1, <1>3 DEF VersionsOK
<1>6. \A v \in kept \cup {version} : v.generation = row.generation => v.content = row.content
  BY <1>1, <1>3
<1> QED BY <1>4, <1>5, <1>6 DEF VersionsOK, version

LEMMA CommitStep ==
    ASSUME IInv, NEW r \in Requests, Commit(r)
    PROVE  IInv'
<1> DEFINE txn == txns[r]
           changed == {f \in DOMAIN txn.writes : txn.writes[f].generation # sources[f].generation}
           absent == IF txn.complete THEN Under[txn.root] \ DOMAIN txn.manifest ELSE {}
<1>1. /\ txn \in Txn /\ Shape(txn) /\ Faithful(txn, sources) /\ Finished(txn)
      /\ txn.writes \in WritesType /\ txn.created \in SUBSET Contents
  BY SlotOK, TxnFields DEF Commit
<1>2. /\ txn.pc # "idle" /\ txn.root \in Roots
      /\ txn.manifest \in Manifests(txn.root)
      /\ DOMAIN txn.manifest \subseteq DOMAIN txn.writes
      /\ txn.complete => txn.pc = "delete" /\ txn.missing = {}
  BY <1>1, FinishedOK
<1>3. /\ sources' = [f \in Files |-> IF f \in DOMAIN txn.writes THEN txn.writes[f] ELSE sources[f]]
      /\ versions' = [f \in Files |-> versions[f] \cup
                         {[generation |-> txn.writes[f].generation, content |-> txn.writes[f].content] :
                              row \in {f} \cap changed}]
      /\ contents' = contents \cup txn.created
      /\ gone' = [f \in Files |-> CASE f \in DOMAIN txn.manifest -> {}
                                    [] f \in absent -> gone[f] \cup {txn.root}
                                    [] OTHER -> gone[f]]
      /\ Set(r, NoTxn)
  BY DEF Commit
<1>4. \A f \in DOMAIN txn.writes : f \in Files /\ sources[f] \in {NoSource} \cup Source
  BY <1>1, WritesOK DEF IInv, TypeOK
<1>5. \A f \in DOMAIN txn.writes :
        /\ sources'[f] = txn.writes[f] /\ txn.writes[f] \in Source /\ txn.writes[f].root = txn.root
        /\ f \in DOMAIN txn.manifest => txn.writes[f].status = "active"
        /\ f \notin DOMAIN txn.manifest => txn.writes[f].status = "deleted"
        /\ f \notin changed => /\ txn.writes[f].generation = sources[f].generation
                               /\ txn.writes[f].content = sources[f].content
        /\ f \in changed => txn.writes[f].generation = sources[f].generation + 1
  BY <1>1, <1>3, <1>4, WrittenRow
<1>6. \A f \in Files \ DOMAIN txn.writes : sources'[f] = sources[f]
  BY <1>3
<1>7. /\ \A f \in Files \cap changed :
            versions'[f] = versions[f] \cup {[generation |-> txn.writes[f].generation,
                                             content |-> txn.writes[f].content]}
      /\ \A f \in Files \ changed : versions'[f] = versions[f]
  BY <1>3
<1>8. \A f \in Files : /\ f \in DOMAIN txn.manifest => gone'[f] = {}
                       /\ f \notin DOMAIN txn.manifest /\ ~txn.complete => gone'[f] = gone[f]
                       /\ f \notin DOMAIN txn.manifest /\ txn.complete
                             => gone'[f] \in {gone[f], gone[f] \cup {txn.root}}
  BY <1>3
<1>9. txns' \in [Requests -> Txn] /\ txns'[r] = NoTxn /\ \A s \in Others(r) : txns'[s] = txns[s]
  BY <1>3, NoTxnOK DEF IInv, TypeOK, Set, Others
<1>10. changed \subseteq DOMAIN txn.writes
  OBVIOUS
<1> HIDE DEF changed, absent
<1>11. TypeOK'
  <2>1. sources' \in [Files -> {NoSource} \cup Source]
    BY <1>3, <1>5, <1>6 DEF IInv, TypeOK
  <2>2. versions' \in [Files -> SUBSET Version]
    <3>1. \A f \in Files : versions'[f] \subseteq Version
      <4>1. \A f \in Files : versions[f] \subseteq Version
        BY DEF IInv, TypeOK
      <4>2. \A f \in changed : [generation |-> txn.writes[f].generation,
                                content |-> txn.writes[f].content] \in Version
        BY <1>5, <1>10 DEF Source, Version
      <4> QED BY <1>7, <4>1, <4>2
    <3> QED BY <1>3, <3>1
  <2>3. gone' \in [Files -> SUBSET Roots]
    <3>1. \A f \in Files : gone'[f] \subseteq Roots
      BY <1>2, <1>8 DEF IInv, TypeOK
    <3> QED BY <1>3, <3>1
  <2>4. contents' \subseteq Contents
    BY <1>1, <1>3 DEF IInv, TypeOK
  <2> QED BY <1>9, <2>1, <2>2, <2>3, <2>4 DEF TypeOK
<1>12. ASSUME NEW s \in Requests PROVE Shape(txns'[s]) /\ Faithful(txns'[s], sources')
  <2>1. CASE s = r
    BY <1>9, <2>1, NoTxnOK
  <2>2. CASE s # r
    <3>1. /\ txns'[s] = txns[s] /\ txns[s] \in Txn /\ Shape(txns[s]) /\ Faithful(txns[s], sources)
          /\ Apart(txn, txns[s])
      BY <1>9, <2>2, SlotOK DEF Others
    <3>2. \A f \in Files : Holds(txns[s], f) => sources'[f] = sources[f]
      BY <1>6, <3>1 DEF Apart, Holds
    <3>3. txn.root # txns[s].root
      BY <1>2, <3>1, SourceSyncAssumption DEF Apart
    <3>4. \A f \in Files : txns[s].root # None /\ sources'[f].root = txns[s].root /\ sources'[f].status # "deleted"
              => sources[f].root = txns[s].root /\ sources[f].status # "deleted"
      BY <1>5, <1>6, <3>3
    <3>5. Faithful(txns[s], sources')
      BY <3>1, <3>2, <3>4, FaithfulStays
    <3> QED BY <3>1, <3>5
  <2> QED BY <2>1, <2>2
<1>13. ASSUME NEW s \in Requests, NEW t \in Requests, s # t PROVE Apart(txns'[s], txns'[t])
  <2>1. CASE s = r
    BY <1>9, <2>1, NoTxnOK
  <2>2. CASE t = r
    <3>1. Apart(NoTxn, txns'[s]) /\ txns'[t] = NoTxn
      BY <1>9, <2>2, NoTxnOK
    <3> QED BY <3>1 DEF Apart
  <2>3. CASE s # r /\ t # r
    <3>1. Apart(txns[s], txns[t])
      BY <1>13 DEF IInv
    <3> QED BY <1>9, <2>3, <3>1 DEF Others
  <2> QED BY <2>1, <2>2, <2>3
<1>14. ASSUME NEW f \in Files PROVE VersionsOK(sources'[f], versions'[f])
  <2>1. VersionsOK(sources[f], versions[f])
    BY DEF IInv
  <2>2. CASE f \in changed
    <3>1. sources[f].generation \in Nat
      BY RowOK, SourceSyncAssumption DEF Source, NoSource, Generations
    <3> DEFINE row == txn.writes[f]
    <3>2. /\ sources'[f] = row /\ row.generation = sources[f].generation + 1
          /\ versions'[f] = versions[f] \cup {[generation |-> row.generation, content |-> row.content]}
      BY <1>5, <1>7, <1>10, <2>2
    <3> HIDE DEF row
    <3> QED BY <2>1, <3>1, <3>2, VersionsGrow
  <2>3. CASE f \notin changed
    <3>1. versions'[f] = versions[f]
      BY <1>7, <2>3
    <3>2. sources'[f].generation = sources[f].generation /\ sources'[f].content = sources[f].content
      BY <1>5, <1>6, <2>3
    <3> QED BY <2>1, <3>1, <3>2 DEF VersionsOK
  <2> QED BY <2>2, <2>3
<1>15. ASSUME NEW f \in Files PROVE Kept(f, sources'[f], gone'[f])
  <2>1. CASE f \in DOMAIN txn.manifest
    <3>1. f \in Under[txn.root]
      BY <1>2, <2>1 DEF Manifests
    <3> QED BY <1>2, <1>5, <1>8, <2>1, <3>1 DEF Kept
  <2>2. CASE f \in DOMAIN txn.writes \ DOMAIN txn.manifest
    BY <1>5, <2>2 DEF Kept
  <2>3. CASE f \notin DOMAIN txn.writes
    <3>1. Kept(f, sources[f], gone[f])
      BY DEF IInv
    <3>2. txn.complete => ~(sources[f].root = txn.root /\ sources[f].status # "deleted")
      BY <1>1, <1>2, <2>3 DEF Faithful
    <3> QED BY <1>2, <1>6, <1>8, <2>3, <3>1, <3>2 DEF Kept
  <2> QED BY <2>1, <2>2, <2>3
<1> QED BY <1>11, <1>12, <1>13, <1>14, <1>15 DEF IInv

LEMMA DeleteSourceStep ==
    ASSUME IInv, NEW f \in Files, DeleteSource(f)
    PROVE  IInv'
<1> DEFINE row == [sources[f] EXCEPT !.status = "deleted"]
<1>1. sources[f] \in Source /\ RowHolders(f) = {} /\ UNCHANGED <<versions, contents, gone, txns>>
  BY RowOK DEF DeleteSource
<1>2. /\ row \in Source /\ row.status = "deleted" /\ row.generation = sources[f].generation
      /\ row.content = sources[f].content
  BY <1>1 DEF Source
<1>3. sources' = [sources EXCEPT ![f] = row] /\ sources \in [Files -> {NoSource} \cup Source]
  BY DEF DeleteSource, IInv, TypeOK
<1> HIDE DEF row
<1>4. sources'[f] = row /\ \A g \in Files \ {f} : sources'[g] = sources[g]
  BY <1>3
<1>5. TypeOK'
  BY <1>1, <1>2, <1>3 DEF IInv, TypeOK
<1>6. ASSUME NEW s \in Requests PROVE Shape(txns[s]) /\ Faithful(txns[s], sources')
  <2>1. txns[s] \in Txn /\ Shape(txns[s]) /\ Faithful(txns[s], sources)
    BY SlotOK
  <2>2. ~Holds(txns[s], f)
    BY <1>1 DEF RowHolders, Holds
  <2>3. \A g \in Files : Holds(txns[s], g) => sources'[g] = sources[g]
    BY <1>4, <2>2
  <2>4. \A g \in Files : txns[s].root # None /\ sources'[g].root = txns[s].root /\ sources'[g].status # "deleted"
            => sources[g].root = txns[s].root /\ sources[g].status # "deleted"
    BY <1>2, <1>4
  <2>5. Faithful(txns[s], sources')
    BY <2>1, <2>3, <2>4, FaithfulStays
  <2> QED BY <2>1, <2>5
<1>7. ASSUME NEW g \in Files PROVE VersionsOK(sources'[g], versions[g]) /\ Kept(g, sources'[g], gone[g])
  <2>1. VersionsOK(sources[g], versions[g]) /\ Kept(g, sources[g], gone[g])
    BY DEF IInv
  <2>2. CASE g = f
    BY <1>2, <1>4, <2>1, <2>2 DEF VersionsOK, Kept
  <2>3. CASE g # f
    BY <1>4, <2>1, <2>3
  <2> QED BY <2>2, <2>3
<1> QED BY <1>1, <1>5, <1>6, <1>7 DEF IInv

-----------------------------------------------------------------------------
LEMMA InitOK == Init => IInv
<1> SUFFICES ASSUME Init PROVE IInv
  OBVIOUS
<1>1. \A r \in Requests : txns[r] = NoTxn
  BY DEF Init
<1>2. TypeOK
  BY NoTxnOK DEF Init, TypeOK
<1>3. \A r \in Requests : Shape(txns[r]) /\ Faithful(txns[r], sources)
  BY <1>1, NoTxnOK
<1>4. \A r, s \in Requests : Apart(txns[r], txns[s])
  BY <1>1, NoTxnOK
<1>5. ASSUME NEW f \in Files PROVE VersionsOK(sources[f], versions[f]) /\ Kept(f, sources[f], gone[f])
  BY DEF Init, VersionsOK, Kept, NoSource
<1> QED BY <1>2, <1>3, <1>4, <1>5 DEF IInv

LEMMA NextOK == IInv /\ [Next]_vars => IInv'
<1> SUFFICES ASSUME IInv, [Next]_vars PROVE IInv'
  OBVIOUS
<1>1. CASE UNCHANGED vars
  BY <1>1 DEF vars, IInv, TypeOK
<1>2. ASSUME NEW r \in Requests, NEW sent \in Calls, Begin(r, sent) PROVE IInv'
  BY <1>2, BeginStep
<1>3. ASSUME NEW r \in Requests, FindSource(r) PROVE IInv'
  BY <1>3, FindSourceStep
<1>4. ASSUME NEW r \in Requests, EnsureContent(r) PROVE IInv'
  BY <1>4, EnsureContentStep
<1>5. ASSUME NEW r \in Requests, InsertSource(r) PROVE IInv'
  BY <1>5, InsertSourceStep
<1>6. ASSUME NEW r \in Requests, Prune(r) PROVE IInv'
  BY <1>6, PruneStep
<1>7. ASSUME NEW r \in Requests, NEW f \in Files, PruneRow(r, f) PROVE IInv'
  BY <1>7, PruneRowStep
<1>8. ASSUME NEW r \in Requests, Commit(r) PROVE IInv'
  BY <1>8, CommitStep
<1>9. ASSUME NEW r \in Requests, Abort(r) PROVE IInv'
  BY <1>9, AbortStep DEF Abort
<1>10. ASSUME NEW f \in Files, DeleteSource(f) PROVE IInv'
  BY <1>10, DeleteSourceStep
<1> QED BY <1>1, <1>2, <1>3, <1>4, <1>5, <1>6, <1>7, <1>8, <1>9, <1>10 DEF Next

\* Whatever synchronisations run side by side, take over, prune, fail or are
\* deleted under, every transaction stays in step with the rows it has locked and
\* every file with its versions (SyncSources, pruneMissingSources, DeleteSource).
THEOREM Invariant == Spec => []IInv
BY InitOK, NextOK, PTL DEF Spec

\* Sources, versions and transactions are of their types, and a file has no more
\* generations than the bound.
THEOREM TypeCorrect == Spec => []TypeOK
BY Invariant, PTL DEF IInv

\* A file that every root over it has stopped to name, none of them naming it
\* again, is deleted, whoever owned it meanwhile (pruneMissingSources).
THEOREM GoneFilesAreDeleted == Spec => []GoneIsDeleted
<1>1. ASSUME IInv PROVE GoneIsDeleted
  <2> SUFFICES ASSUME NEW f \in Files, Exists(f), gone[f] = {root \in Roots : f \in Under[root]}
               PROVE  sources[f].status = "deleted"
    BY DEF GoneIsDeleted
  <2>1. sources[f] \in Source /\ Kept(f, sources[f], gone[f])
    BY <1>1, RowOK DEF IInv
  <2> QED BY <2>1 DEF Source, Kept
<1> QED BY <1>1, Invariant, PTL

\* Transactions that wait for one another in a circle do not all do so at the rows
\* of their files: the last of those files in the order of normalizeSyncInput is one
\* that nobody has locked on the way to a later one.
THEOREM RowsAreTakenInOrder == Spec => []CirclesAreExplained
<1>1. ASSUME IInv PROVE CirclesAreExplained
  <2> SUFFICES ASSUME NEW circle \in SUBSET Requests, circle # {},
                      \A r \in circle : WaitsFor(r) \cap circle # {},
                      \A r \in circle : txns[r].pc \notin {"ensure", "delete"}
               PROVE  FALSE
    BY DEF CirclesAreExplained
  <2>1. ASSUME NEW r \in circle
        PROVE  /\ txns[r].pc \in {"find", "insert"}
               /\ \E s \in circle : s \in WaitsForRow(r, File(r))
    BY DEF WaitsFor
  <2>2. ASSUME NEW r \in circle
        PROVE  /\ File(r) \in Files /\ File(r) \in Listed(txns[r].todo)
               /\ txns[r].found = NoSource /\ Shape(txns[r])
    <3>1. txns[r] \in Txn /\ Shape(txns[r]) /\ Upserting(txns[r])
      BY <1>1, <2>1, SlotOK DEF Upserting
    <3>2. txns[r].todo # <<>> /\ txns[r].todo \in Seq(Files) /\ Ascending(txns[r].todo)
      BY <3>1, FileOK, TxnFields DEF Shape
    <3>3. File(r) \in Files /\ File(r) \in Listed(txns[r].todo)
      BY <3>2, TodoOK DEF File
    <3> QED BY <2>1, <3>1, <3>3 DEF Shape
  <2> DEFINE at == {File(r) : r \in circle}
  <2>3. at \in SUBSET Files /\ at # {}
    BY <2>2
  <2>4. PICK f \in at : \A g \in at : g <= f
    <3> HIDE DEF at
    <3> QED BY <2>3, Largest
  <2>5. PICK r \in circle : f = File(r)
    OBVIOUS
  <2>6. PICK s \in circle : s \in WaitsForRow(r, File(r))
    BY <2>1
  <2>7. f \in DOMAIN txns[s].writes
    BY <2>2, <2>5, <2>6 DEF WaitsForRow, RowHolders
  <2>8. f < File(s)
    BY <2>2, <2>7 DEF Shape
  <2>9. File(s) <= f /\ f \in Nat /\ File(s) \in Nat
    BY <2>2, <2>4, <2>5, SourceSyncAssumption
  <2> QED BY <2>8, <2>9
<1> QED BY <1>1, Invariant, PTL

-----------------------------------------------------------------------------
\* The contents a file has had, from the versions kept of it.
Past(kept) == [n \in 1 .. Cardinality(kept) |-> (CHOOSE v \in kept : v.generation = n).content]

LEMMA PastOK ==
    ASSUME NEW kept \in SUBSET Version, NEW row, VersionsOK(row, kept), row.generation \in Nat
    PROVE  /\ Cardinality(kept) = row.generation
           /\ Past(kept) \in Seq(Contents) /\ Len(Past(kept)) = row.generation
           /\ \A v \in kept : v.generation \in 1 .. row.generation /\ Past(kept)[v.generation] = v.content
           /\ row.generation > 0 => Past(kept)[row.generation] = row.content
<1> DEFINE n == row.generation
           at == [i \in 1 .. n |-> CHOOSE v \in kept : v.generation = i]
<1>1. /\ {v.generation : v \in kept} = 1 .. n
      /\ \A v, w \in kept : v.generation = w.generation => v = w
      /\ \A v \in kept : v.generation = n => v.content = row.content
  BY DEF VersionsOK
<1>2. \A i \in 1 .. n : at[i] \in kept /\ at[i].generation = i
  <2> SUFFICES ASSUME NEW i \in 1 .. n PROVE at[i] \in kept /\ at[i].generation = i
    OBVIOUS
  <2>1. \E v \in kept : v.generation = i
    BY <1>1
  <2> QED BY <2>1
<1>3. \A v \in kept : v.generation \in 1 .. n /\ at[v.generation] = v
  <2> SUFFICES ASSUME NEW v \in kept PROVE v.generation \in 1 .. n /\ at[v.generation] = v
    OBVIOUS
  <2>1. v.generation \in 1 .. n
    BY <1>1
  <2> HIDE DEF at
  <2> QED BY <1>1, <1>2, <2>1
<1> HIDE DEF at
<1>4. at \in [1 .. n -> kept]
  BY <1>2 DEF at
<1>5. at \in Bijection(1 .. n, kept)
  BY <1>2, <1>3, <1>4 DEF Bijection, Injection, IsInjective, Surjection
<1>6. Cardinality(kept) = n
  BY <1>5, FS_CountingElements DEF ExistsBijection
<1>7. Past(kept) = [i \in 1 .. n |-> at[i].content]
  BY <1>6 DEF Past, at
<1>8. \A i \in 1 .. n : at[i].content \in Contents
  BY <1>2 DEF Version
<1>9. Past(kept) \in Seq(Contents) /\ Len(Past(kept)) = n
  BY <1>7, <1>8
<1>10. n > 0 => n \in 1 .. n
  OBVIOUS
<1> QED BY <1>1, <1>2, <1>3, <1>6, <1>7, <1>9, <1>10

LEMMA PastGrows ==
    ASSUME NEW kept \in SUBSET Version, NEW old, VersionsOK(old, kept), old.generation \in Nat,
           NEW row \in Source, row.generation = old.generation + 1
    PROVE  Past(kept \cup {[generation |-> row.generation, content |-> row.content]})
             = Append(Past(kept), row.content)
<1> DEFINE n == old.generation
           version == [generation |-> row.generation, content |-> row.content]
           more == kept \cup {version}
<1>1. VersionsOK(row, more)
  BY VersionsGrow
<1>2. version \in Version /\ version.generation = n + 1 /\ version.content = row.content
  BY DEF Version, Source
<1> HIDE DEF version
<1>3. more \in SUBSET Version
  BY <1>2
<1>4. /\ Past(kept) \in Seq(Contents) /\ Len(Past(kept)) = n
      /\ \A v \in kept : v.generation \in 1 .. n /\ Past(kept)[v.generation] = v.content
  BY PastOK
<1> HIDE DEF more
<1>5. row.generation \in Nat /\ row.content \in Contents
  BY DEF Source
<1>6. /\ Past(more) \in Seq(Contents) /\ Len(Past(more)) = n + 1
      /\ \A v \in more : Past(more)[v.generation] = v.content
  BY <1>1, <1>3, <1>5, PastOK
<1> DEFINE longer == Append(Past(kept), row.content)
<1>7. /\ longer \in Seq(Contents) /\ Len(longer) = n + 1
      /\ \A i \in 1 .. n : longer[i] = Past(kept)[i]
      /\ longer[n + 1] = row.content
  BY <1>4, <1>5, AppendProperties
<1>8. \A i \in 1 .. n + 1 : Past(more)[i] = longer[i]
  <2> SUFFICES ASSUME NEW i \in 1 .. n + 1 PROVE Past(more)[i] = longer[i]
    OBVIOUS
  <2> HIDE DEF longer
  <2>1. CASE i = n + 1
    BY <1>2, <1>6, <1>7, <2>1 DEF more
  <2>2. CASE i # n + 1
    <3>1. i \in 1 .. n
      BY <2>2
    <3>2. PICK v \in kept : v.generation = i
      BY <3>1 DEF VersionsOK
    <3> QED BY <1>4, <1>6, <1>7, <3>1, <3>2 DEF more
  <2> QED BY <2>1, <2>2
<1> HIDE DEF longer
<1>9. Past(more) = longer
  BY <1>6, <1>7, <1>8, SeqEqual
<1> QED BY <1>9 DEF longer, more, version

-----------------------------------------------------------------------------
\* A row and its versions, as the readers of the index see them.
Seen(row, kept) == [status |-> row.status, root |-> row.root, history |-> Past(kept)]
index == [f \in Files |-> Seen(sources[f], versions[f])]

LEMMA IndexIs == index = [f \in Files |-> [status |-> sources[f].status, root |-> sources[f].root,
                                          history |-> HistoryOf(f)]]
BY DEF index, Seen, Past, HistoryOf

\* A file of a manifest: what updateChangedSource, refreshUnchangedSource or
\* insertSource has written of it is what the promise records.
LEMMA RecordedOK ==
    ASSUME NEW old \in {NoSource} \cup Source, NEW kept \in SUBSET Version, VersionsOK(old, kept),
           NEW root \in Roots, NEW content \in Contents, NEW row \in Source,
           row = Updated(old, root, content), NEW after,
           row.generation = old.generation => after = kept,
           row.generation # old.generation
             => after = kept \cup {[generation |-> row.generation, content |-> row.content]}
    PROVE  Seen(row, after) = Index!Recorded(Seen(old, kept), root, content)
<1> DEFINE n == old.generation
           past == Past(kept)
<1>1. n \in Nat /\ (n = 0 <=> old = NoSource) /\ (n = 0 => old.content = None)
  BY SourceSyncAssumption, Unlike DEF Source, NoSource, Generations
<1>2. /\ row.root = root /\ row.status = "active" /\ row.content = content
      /\ row.generation = (IF old.content = content THEN n ELSE n + 1)
  BY UpdatedFields
<1>3. Len(past) = n /\ (n > 0 => past[n] = old.content)
  BY <1>1, PastOK
<1>4. old.content = content <=> n > 0 /\ past[n] = content
  BY <1>1, <1>3, SourceSyncAssumption
<1>5. Past(after) = (IF n > 0 /\ past[n] = content THEN past ELSE Append(past, content))
  <2>1. CASE old.content = content
    <3>1. after = kept
      BY <1>2, <2>1
    <3> QED BY <1>4, <2>1, <3>1
  <2>2. CASE old.content # content
    <3>1. row.generation = n + 1 /\ n + 1 # n
      BY <1>1, <1>2, <2>2
    <3>2. after = kept \cup {[generation |-> row.generation, content |-> row.content]}
      BY <3>1
    <3>3. Past(after) = Append(past, row.content)
      BY <1>1, <3>1, <3>2, PastGrows
    <3> QED BY <1>2, <1>4, <2>2, <3>3
  <2> QED BY <2>1, <2>2
<1> HIDE DEF past
<1>6. Index!Recorded(Seen(old, kept), root, content)
        = [status |-> "active", root |-> root,
           history |-> IF n > 0 /\ past[n] = content THEN past ELSE Append(past, content)]
  BY <1>3 DEF Index!Recorded, Seen, past
<1> QED BY <1>2, <1>5, <1>6 DEF Seen

LEMMA CommitIsSync ==
    ASSUME IInv, NEW r \in Requests, Commit(r)
    PROVE  Index!Sync
<1> DEFINE txn == txns[r]
           changed == {f \in DOMAIN txn.writes : txn.writes[f].generation # sources[f].generation}
<1>1. /\ txn \in Txn /\ Shape(txn) /\ Faithful(txn, sources) /\ Finished(txn) /\ txn.complete \in BOOLEAN
  BY SlotOK, TxnFields DEF Commit
<1>2. /\ txn.root \in Roots /\ txn.manifest \in Manifests(txn.root)
      /\ DOMAIN txn.manifest \subseteq DOMAIN txn.writes
      /\ txn.complete => txn.pc = "delete" /\ txn.missing = {}
      /\ ~txn.complete => DOMAIN txn.writes \subseteq DOMAIN txn.manifest
  BY <1>1, FinishedOK
<1>3. /\ DOMAIN txn.manifest \in SUBSET Files
      /\ txn.manifest \in [DOMAIN txn.manifest -> Contents]
  BY <1>2, SourceSyncAssumption DEF Manifests
<1>4. /\ sources' = [f \in Files |-> IF f \in DOMAIN txn.writes THEN txn.writes[f] ELSE sources[f]]
      /\ versions' = [f \in Files |-> versions[f] \cup
                         {[generation |-> txn.writes[f].generation, content |-> txn.writes[f].content] :
                              row \in {f} \cap changed}]
  BY DEF Commit
<1>5. \A f \in Files : /\ sources[f] \in {NoSource} \cup Source /\ versions[f] \in SUBSET Version
                       /\ VersionsOK(sources[f], versions[f])
  BY DEF IInv, TypeOK
<1>6. \A f \in DOMAIN txn.writes :
        /\ sources'[f] = txn.writes[f] /\ txn.writes[f] \in Source
        /\ f \notin changed => versions'[f] = versions[f]
        /\ f \in changed => versions'[f] = versions[f] \cup {[generation |-> txn.writes[f].generation,
                                                            content |-> txn.writes[f].content]}
        /\ f \in changed <=> txn.writes[f].generation # sources[f].generation
  BY <1>1, <1>4, TxnFields, WritesOK
<1>7. \A f \in Files \ DOMAIN txn.writes : sources'[f] = sources[f] /\ versions'[f] = versions[f]
  BY <1>4
<1> HIDE DEF changed
<1> DEFINE new(f) == CASE f \in DOMAIN txn.manifest
                            -> Index!Recorded(index[f], txn.root, txn.manifest[f])
                       [] f \notin DOMAIN txn.manifest /\ txn.complete /\ index[f].root = txn.root
                            -> [index[f] EXCEPT !.status = "deleted"]
                       [] OTHER -> index[f]
<1>8. ASSUME NEW f \in Files PROVE Seen(sources'[f], versions'[f]) = new(f)
  <2>1. index[f] = Seen(sources[f], versions[f]) /\ index[f].root = sources[f].root
    BY DEF index, Seen
  <2>2. CASE f \in DOMAIN txn.manifest
    <3> DEFINE row == txn.writes[f]
               after == versions'[f]
    <3>1. /\ f \in DOMAIN txn.writes /\ row \in Source /\ txn.manifest[f] \in Contents
          /\ row = Updated(sources[f], txn.root, txn.manifest[f])
          /\ sources'[f] = row
      BY <1>1, <1>2, <1>3, <1>6, <2>2 DEF Faithful
    <3>2. /\ row.generation = sources[f].generation => after = versions[f]
          /\ row.generation # sources[f].generation
               => after = versions[f] \cup {[generation |-> row.generation, content |-> row.content]}
      BY <1>6, <3>1
    <3> HIDE DEF row, after
    <3>3. Seen(row, after) = Index!Recorded(Seen(sources[f], versions[f]), txn.root, txn.manifest[f])
      BY <1>2, <1>5, <3>1, <3>2, RecordedOK
    <3> QED BY <2>1, <2>2, <3>1, <3>3 DEF after
  <2>3. CASE f \in DOMAIN txn.writes \ DOMAIN txn.manifest
    <3>1. sources[f].root = txn.root /\ txn.writes[f] = [sources[f] EXCEPT !.status = "deleted"]
      BY <1>1, <2>3 DEF Faithful
    <3>2. sources[f] \in Source
      BY <1>2, <1>5, <3>1, SourceSyncAssumption DEF NoSource
    <3>3. txn.writes[f].generation = sources[f].generation /\ txn.complete
      BY <1>2, <2>3, <3>1, <3>2 DEF Source
    <3>4. versions'[f] = versions[f] /\ sources'[f] = [sources[f] EXCEPT !.status = "deleted"]
      BY <1>6, <2>3, <3>1, <3>3
    <3>5. Seen(sources'[f], versions'[f]) = [Seen(sources[f], versions[f]) EXCEPT !.status = "deleted"]
      BY <3>2, <3>4 DEF Seen, Source
    <3> QED BY <2>1, <2>3, <3>1, <3>3, <3>5
  <2>4. CASE f \notin DOMAIN txn.writes
    <3>1. f \notin DOMAIN txn.manifest /\ Seen(sources'[f], versions'[f]) = index[f]
      BY <1>2, <1>7, <2>1, <2>4
    <3>2. CASE txn.complete /\ sources[f].root = txn.root
      <4>1. sources[f].status = "deleted"
        BY <1>1, <1>2, <2>4, <3>1, <3>2 DEF Faithful
      <4>2. [index[f] EXCEPT !.status = "deleted"] = index[f]
        BY <2>1, <4>1 DEF Seen
      <4> QED BY <2>1, <3>1, <3>2, <4>2
    <3>3. CASE ~(txn.complete /\ sources[f].root = txn.root)
      BY <2>1, <3>1, <3>3
    <3> QED BY <3>2, <3>3
  <2> QED BY <2>2, <2>3, <2>4
<1>9. index' = [f \in Files |-> new(f)]
  <2>1. index' = [f \in Files |-> Seen(sources'[f], versions'[f])]
    BY DEF index
  <2> HIDE DEF new
  <2> QED BY <1>8, <2>1
<1>10. index' = Index!Synchronised(txn.root, txn.manifest, txn.complete)
  BY <1>9, IndexIs DEF Index!Synchronised
<1>11. index' = [f \in Files |-> [status |-> sources[f].status, root |-> sources[f].root,
                                 history |-> HistoryOf(f)]]'
  BY DEF index, Seen, Past, HistoryOf
<1> QED BY <1>1, <1>2, <1>3, <1>10, <1>11 DEF Index!Sync

LEMMA DeleteIsDelete ==
    ASSUME IInv, NEW f \in Files, DeleteSource(f)
    PROVE  Index!Delete
<1>1. /\ sources[f] \in Source /\ versions' = versions
      /\ sources' = [sources EXCEPT ![f].status = "deleted"]
      /\ sources \in [Files -> {NoSource} \cup Source]
  BY RowOK DEF DeleteSource, IInv, TypeOK
<1>2. sources'[f] = [sources[f] EXCEPT !.status = "deleted"] /\ \A g \in Files \ {f} : sources'[g] = sources[g]
  BY <1>1
<1>3. Seen(sources'[f], versions[f]) = [Seen(sources[f], versions[f]) EXCEPT !.status = "deleted"]
  BY <1>1, <1>2 DEF Seen, Source
<1>4. index' = [g \in Files |-> Seen(sources'[g], versions[g])]
  BY <1>1 DEF index
<1>5. index' = [index EXCEPT ![f].status = "deleted"]
  BY <1>2, <1>3, <1>4 DEF index
<1>6. index[f].status # "none"
  BY <1>1 DEF index, Seen, Source
<1>7. index' = [g \in Files |-> [status |-> sources[g].status, root |-> sources[g].root,
                                history |-> HistoryOf(g)]]'
  BY DEF index, Seen, Past, HistoryOf
<1> QED BY <1>5, <1>6, <1>7, IndexIs DEF Index!Delete

LEMMA IndexInit == Init => Index!Init
<1> SUFFICES ASSUME Init PROVE Index!Init
  OBVIOUS
<1>1. Cardinality({}) = 0
  BY FS_EmptySet
<1>2. Past({}) = <<>>
  BY <1>1 DEF Past
<1>3. \A f \in Files : Seen(sources[f], versions[f]) = Index!NoSource
  BY <1>2 DEF Init, Seen, NoSource, Index!NoSource
<1> QED BY <1>3, IndexIs DEF Index!Init, index

\* Synchronisations that run side by side, take files over from one another, prune
\* and fail change the index as if each had run alone, at its COMMIT (SyncSources
\* and DeleteSource); all else they do is unseen.
THEOREM SynchronisationsRunAsIfAlone == Spec => SynchronisationsAreSerial
<1>1. ASSUME IInv, [Next]_vars
      PROVE  [Index!Sync \/ Index!Delete]_[f \in Files |->
                  [status |-> sources[f].status, root |-> sources[f].root, history |-> HistoryOf(f)]]
  <2>1. ASSUME UNCHANGED <<sources, versions>>
        PROVE  UNCHANGED [f \in Files |->
                  [status |-> sources[f].status, root |-> sources[f].root, history |-> HistoryOf(f)]]
    BY <2>1 DEF HistoryOf
  <2>2. ASSUME NEW r \in Requests, Commit(r) PROVE Index!Sync
    BY <1>1, <2>2, CommitIsSync
  <2>3. ASSUME NEW f \in Files, DeleteSource(f) PROVE Index!Delete
    BY <1>1, <2>3, DeleteIsDelete
  <2>4. CASE UNCHANGED vars
    BY <2>1, <2>4 DEF vars
  <2>5. ASSUME NEW r \in Requests,
               \/ \E sent \in Calls : Begin(r, sent)
               \/ FindSource(r) \/ EnsureContent(r) \/ InsertSource(r)
               \/ Prune(r) \/ \E f \in Files : PruneRow(r, f)
               \/ Abort(r)
        PROVE  UNCHANGED <<sources, versions>>
    BY <2>5 DEF Begin, FindSource, EnsureContent, InsertSource, Prune, PruneRow, Abort, tables
  <2> QED BY <1>1, <2>1, <2>2, <2>3, <2>4, <2>5 DEF Next
<1> QED BY <1>1, Invariant, IndexInit, PTL DEF Spec, SynchronisationsAreSerial, Index!Spec
=============================================================================
