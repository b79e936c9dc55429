----------------------- MODULE NamespaceLocksProofs -----------------------
(***************************************************************************)
(* Theorems about NamespaceLocks, for any paths, transactions and calls.   *)
(* First what paths and scripts of locks are: the names a transaction      *)
(* locks are the chain of its target, all different.  Then IInv: who is    *)
(* past its advisory locks holds its chain, no two transactions hold locks *)
(* that exclude each other, and what each has read of the tree is still    *)
(* so.  A purge below which anybody works would be two such locks (Clash). *)
(* On top of it RowsInv, about the row locks: nobody takes a job from a    *)
(* deletion that counts, and no two deletions work on one namespace.       *)
(* Last OrderInv, the order of the row locks: a circle of waits cannot     *)
(* pass through an advisory lock; without a batch that failed it does not  *)
(* pass through the row of a deletion, and among mutations it does not     *)
(* close.                                                                  *)
(***************************************************************************)
EXTENDS NamespaceLocks, FiniteSetTheorems, SequenceTheorems, WellFoundedInduction, TLAPS

-----------------------------------------------------------------------------
\* A path and what is above it: the names its mutations lock.
Chain(n) == Above(n) \cup {n}

\* A path is a sequence with at least one segment.
LEMMA CodeIsPath ==
    ASSUME NEW n \in Codes
    PROVE  n \in Seq(Segments) /\ Len(n) \in Nat \ {0}
BY NamespaceLocksAssumption, EmptySeq

\* The first i segments of a path are as many, and a path of the chain.
LEMMA Prefix ==
    ASSUME NEW n \in Codes, NEW i \in 1 .. Len(n)
    PROVE  /\ SubSeq(n, 1, i) \in Codes
           /\ SubSeq(n, 1, i) \in Chain(n)
           /\ Len(SubSeq(n, 1, i)) = i
           /\ i = Len(n) => SubSeq(n, 1, i) = n
<1>1. n \in Seq(Segments) /\ Len(n) \in Nat
  BY CodeIsPath
<1>2. Len(SubSeq(n, 1, i)) = i
  <2>1. \A j \in 1 .. i : n[j] \in Segments
    BY <1>1
  <2> QED BY <1>1, <2>1, SubSeqProperties
<1>3. i = Len(n) => SubSeq(n, 1, i) = n
  BY <1>1, SubSeqFull
<1>4. i # Len(n) => SubSeq(n, 1, i) \in Above(n)
  BY <1>1 DEF Above
<1> QED BY <1>2, <1>3, <1>4, NamespaceLocksAssumption DEF Chain

\* Each path of the chain is one of them.
LEMMA ChainIsPrefixes ==
    ASSUME NEW n \in Codes, NEW m \in Chain(n)
    PROVE  m \in Codes /\ \E i \in 1 .. Len(n) : m = SubSeq(n, 1, i)
<1>1. Len(n) \in Nat \ {0} /\ SubSeq(n, 1, Len(n)) = n
  BY CodeIsPath, Prefix
<1> QED BY <1>1, NamespaceLocksAssumption DEF Chain, Above

\* The beginning of a beginning is a beginning.
LEMMA PrefixOfPrefix ==
    ASSUME NEW n \in Codes, NEW i \in 1 .. Len(n), NEW j \in 1 .. i
    PROVE  SubSeq(SubSeq(n, 1, i), 1, j) = SubSeq(n, 1, j)
<1> DEFINE m == SubSeq(n, 1, i)
           p == SubSeq(m, 1, j)
           q == SubSeq(n, 1, j)
<1>1. n \in Seq(Segments) /\ Len(n) \in Nat
  BY CodeIsPath
<1>2. /\ m \in Seq(Segments) /\ Len(m) = i
      /\ \A k \in 1 .. i : m[k] = n[k]
  <2>1. \A k \in 1 .. i : n[k] \in Segments
    BY <1>1
  <2> QED BY <1>1, <2>1, SubSeqProperties
<1>3. /\ p \in Seq(Segments) /\ Len(p) = j
      /\ \A k \in 1 .. j : p[k] = m[k]
  <2>1. \A k \in 1 .. j : m[k] \in Segments
    BY <1>2
  <2> HIDE DEF m
  <2> QED BY <2>1, SubSeqProperties
<1>4. /\ q \in Seq(Segments) /\ Len(q) = j
      /\ \A k \in 1 .. j : q[k] = n[k]
  <2>1. \A k \in 1 .. j : n[k] \in Segments
    BY <1>1
  <2> QED BY <1>1, <2>1, SubSeqProperties
<1> HIDE DEF m, p, q
<1>5. \A k \in 1 .. Len(p) : p[k] = q[k]
  BY <1>2, <1>3, <1>4
<1>6. p = q
  BY <1>3, <1>4, <1>5, SeqEqual
<1> QED BY <1>6 DEF p, q, m

\* What is above the parent of a path, and the parent, are what is above it.
LEMMA AboveParent ==
    ASSUME NEW n \in Codes, NEW m \in Above(n)
    PROVE  /\ Len(n) > 1
           /\ m = SubSeq(n, 1, Len(n) - 1) \/ m \in Above(SubSeq(n, 1, Len(n) - 1))
<1> DEFINE parent == SubSeq(n, 1, Len(n) - 1)
<1>1. PICK i \in 1 .. Len(n) - 1 : m = SubSeq(n, 1, i)
  BY DEF Above
<1>2. Len(n) \in Nat /\ Len(n) > 1 /\ Len(n) - 1 \in 1 .. Len(n)
  BY CodeIsPath
<1>3. Len(parent) = Len(n) - 1
  BY <1>2, Prefix
<1>4. m = SubSeq(parent, 1, i)
  BY <1>1, <1>2, PrefixOfPrefix
<1> HIDE DEF parent
<1>5. i = Len(n) - 1 => m = parent
  BY <1>1 DEF parent
<1>6. i \in 1 .. Len(parent) - 1 => m \in Above(parent)
  BY <1>4 DEF Above
<1>7. m = parent \/ m \in Above(parent)
  BY <1>2, <1>3, <1>5, <1>6
<1> QED BY <1>2, <1>7 DEF parent

\* What is above something above a path is above the path.
LEMMA AboveIsTransitive ==
    ASSUME NEW n \in Codes, NEW m \in Above(n), NEW k \in Above(m)
    PROVE  k \in Above(n)
<1>1. PICK i \in 1 .. Len(n) - 1 : m = SubSeq(n, 1, i)
  BY DEF Above
<1>2. Len(n) \in Nat /\ i \in 1 .. Len(n) /\ Len(m) = i
  BY <1>1, CodeIsPath, Prefix
<1>3. PICK j \in 1 .. Len(m) - 1 : k = SubSeq(m, 1, j)
  BY DEF Above
<1>4. j \in 1 .. i /\ j \in 1 .. Len(n) - 1
  BY <1>2, <1>3
<1>5. k = SubSeq(n, 1, j)
  BY <1>1, <1>2, <1>3, <1>4, PrefixOfPrefix
<1> QED BY <1>4, <1>5 DEF Above

-----------------------------------------------------------------------------
\* The lock a transaction takes on the i-th path of its target's chain: the
\* target's own in the mode of its operation.
ModeOf(c, i) == IF i = Len(c.target) THEN TargetMode(c.op) ELSE "shared"
LockOf(c, i) == <<<<"namespace", SubSeq(c.target, 1, i)>>, ModeOf(c, i)>>

\* The locks of a mutation, a creation or a deletion: the catalog's, then those
\* of the chain from the root down.
LEMMA ScriptShape ==
    ASSUME NEW c \in Call, c.op \in {"write", "create", "delete"}
    PROVE  /\ c.target \in Codes
           /\ Len(Script(c)) = Len(c.target) + 1
           /\ Script(c)[1] = <<<<"catalog">>, "shared">>
           /\ \A i \in 1 .. Len(c.target) : Script(c)[i + 1] = LockOf(c, i)
<1>1. c.target \in Codes
  BY DEF Call
<1>2. Len(c.target) \in Nat
  BY <1>1, CodeIsPath
<1> DEFINE first == << <<<<"catalog">>, "shared">> >>
           chain == [i \in 1 .. Len(PathOf(c)) |->
                        <<<<"namespace", PathOf(c)[i]>>,
                          IF i = Len(PathOf(c)) THEN TargetMode(c.op) ELSE "shared">>]
           Any == {<<<<"catalog">>, "shared">>} \cup {LockOf(c, i) : i \in 1 .. Len(c.target)}
<1>3. Script(c) = first \o chain
  BY DEF Script
<1>4. PathOf(c) = [i \in 1 .. Len(c.target) |-> SubSeq(c.target, 1, i)]
  BY DEF PathOf, Ancestors
<1>5. Len(PathOf(c)) = Len(c.target)
  BY <1>2, <1>4
<1>6. chain = [i \in 1 .. Len(c.target) |-> LockOf(c, i)]
  BY <1>4, <1>5 DEF LockOf, ModeOf
<1>7. chain \in Seq(Any) /\ Len(chain) = Len(c.target)
  <2> HIDE DEF chain, Any
  <2>1. \A i \in 1 .. Len(c.target) : LockOf(c, i) \in Any
    BY DEF Any
  <2>2. [i \in 1 .. Len(c.target) |-> LockOf(c, i)] \in Seq(Any)
    BY <1>2, <2>1
  <2> QED BY <1>2, <1>6, <2>2
<1>8. first \in Seq(Any) /\ Len(first) = 1 /\ first[1] = <<<<"catalog">>, "shared">>
  OBVIOUS
<1> HIDE DEF first, chain, Any
<1>9. /\ Len(first \o chain) = 1 + Len(c.target)
      /\ \A i \in 1 .. 1 + Len(c.target) :
            (first \o chain)[i] = IF i <= 1 THEN first[i] ELSE chain[i - 1]
  BY <1>2, <1>7, <1>8, ConcatProperties
<1>10. (first \o chain)[1] = <<<<"catalog">>, "shared">>
  BY <1>2, <1>8, <1>9
<1>11. ASSUME NEW i \in 1 .. Len(c.target) PROVE (first \o chain)[i + 1] = LockOf(c, i)
  <2>1. (first \o chain)[i + 1] = chain[i]
    BY <1>2, <1>9
  <2> QED BY <2>1, <1>6
<1> QED BY <1>1, <1>2, <1>3, <1>9, <1>10, <1>11

\* Every script is a finite list of different locks.
LEMMA ScriptOK ==
    ASSUME NEW c \in Call
    PROVE  /\ Len(Script(c)) \in Nat
           /\ \A i \in 1 .. Len(Script(c)) : Script(c)[i] \in Names \X {"shared", "exclusive"}
           /\ \A i, j \in 1 .. Len(Script(c)) : Script(c)[i] = Script(c)[j] => i = j
<1>1. CASE c.op \in {"complete", "fail"}
  <2>1. Script(c) = <<>>
    BY <1>1 DEF Script
  <2> QED BY <2>1
<1>2. CASE c.op = "reconcile"
  <2>1. Script(c) = << <<<<"catalog">>, "exclusive">> >>
    BY <1>2 DEF Script
  <2>2. Len(Script(c)) = 1 /\ Script(c)[1] = <<<<"catalog">>, "exclusive">>
    BY <2>1
  <2> QED BY <2>2 DEF Names
<1>3. CASE c.op \in {"write", "create", "delete"}
  <2> DEFINE n == c.target
  <2>1. /\ n \in Codes /\ Len(n) \in Nat
        /\ Len(Script(c)) = Len(n) + 1
        /\ Script(c)[1] = <<<<"catalog">>, "shared">>
        /\ \A i \in 1 .. Len(n) : Script(c)[i + 1] = LockOf(c, i)
    BY <1>3, ScriptShape, CodeIsPath
  <2>2. \A i \in 2 .. Len(n) + 1 : i - 1 \in 1 .. Len(n) /\ Script(c)[i] = LockOf(c, i - 1)
    <3>1. TAKE i \in 2 .. Len(n) + 1
    <3>2. i - 1 \in 1 .. Len(n) /\ (i - 1) + 1 = i
      BY <2>1
    <3>3. Script(c)[(i - 1) + 1] = LockOf(c, i - 1)
      BY <2>1, <3>2, Zenon
    <3> QED BY <3>2, <3>3
  <2>3. \A i \in 1 .. Len(n) : ModeOf(c, i) \in {"shared", "exclusive"}
    BY DEF ModeOf, TargetMode
  <2>4. \A i \in 1 .. Len(n) : LockOf(c, i) \in Names \X {"shared", "exclusive"}
    BY <2>1, <2>3, Prefix DEF LockOf, Names
  <2>5. ASSUME NEW i \in 1 .. Len(n), NEW j \in 1 .. Len(n), LockOf(c, i) = LockOf(c, j)
        PROVE  i = j
    <3>1. SubSeq(n, 1, i) = SubSeq(n, 1, j)
      BY <2>5 DEF LockOf
    <3> QED BY <2>1, <3>1, Prefix
  <2>6. \A i \in 1 .. Len(n) : LockOf(c, i) # <<<<"catalog">>, "shared">>
    <3>1. TAKE i \in 1 .. Len(n)
    <3>2. LockOf(c, i)[1][1] = "namespace"
      BY DEF LockOf
    <3> QED BY <3>2
  <2>7. <<<<"catalog">>, "shared">> \in Names \X {"shared", "exclusive"}
    BY DEF Names
  <2>8. \A i \in 1 .. Len(Script(c)) : i = 1 \/ i \in 2 .. Len(n) + 1
    BY <2>1
  <2>9. ASSUME NEW i \in 1 .. Len(Script(c)) PROVE Script(c)[i] \in Names \X {"shared", "exclusive"}
    BY <2>1, <2>2, <2>4, <2>7, <2>8
  <2>10. ASSUME NEW i \in 1 .. Len(Script(c)), NEW j \in 1 .. Len(Script(c)),
                Script(c)[i] = Script(c)[j]
         PROVE  i = j
    <3>1. CASE i = 1
      BY <2>1, <2>2, <2>6, <2>8, <2>10, <3>1
    <3>2. CASE j = 1
      BY <2>1, <2>2, <2>6, <2>8, <2>10, <3>2
    <3>3. CASE i \in 2 .. Len(n) + 1 /\ j \in 2 .. Len(n) + 1
      <4>1. LockOf(c, i - 1) = LockOf(c, j - 1)
        BY <2>2, <2>10, <3>3
      <4>2. i - 1 = j - 1
        BY <2>2, <2>5, <3>3, <4>1
      <4> QED BY <2>1, <4>2
    <3> QED BY <2>8, <3>1, <3>2, <3>3
  <2> QED BY <2>1, <2>9, <2>10
<1> QED BY <1>1, <1>2, <1>3 DEF Call

-----------------------------------------------------------------------------
\* Past its advisory locks, a transaction is at its rows.
Past(t) == pc[t] \in {"jobs", "memories", "counted"}

Called(t) ==
    /\ pc[t] # "idle" => call[t] \in Calls
    /\ pc[t] = "idle" => todo[t] = {}

\* While it takes its advisory locks, it holds a beginning of its script.
Locking(t) ==
    pc[t] = "locking" =>
        /\ todo[t] = {} /\ IsFiniteSet(held[t])
        /\ \E k \in 0 .. Len(Script(call[t])) :
              held[t] = {Script(call[t])[i] : i \in 1 .. k} /\ Cardinality(held[t]) = k

\* The chain of the target is locked, and the target exclusively by those who
\* change it.
PathHeld(t) ==
    /\ \A m \in Chain(call[t].target) :
          \E mode \in {"shared", "exclusive"} : <<<<"namespace", m>>, mode>> \in held[t]
    /\ call[t].op \in {"create", "delete"} =>
          <<<<"namespace", call[t].target>>, "exclusive">> \in held[t]

Writing(t) ==
    Past(t) /\ call[t].op = "write" =>
        /\ PathHeld(t)
        /\ status[call[t].target] = "active"

\* What a deletion has read of the tree still holds when it ends.
Deleting(t) ==
    LET n == call[t].target IN
    Past(t) /\ call[t].op = "delete" =>
        /\ PathHeld(t)
        /\ n \in plan[t].subtree /\ plan[t].subtree \subseteq {n} \cup Below(n)
        /\ \A m \in plan[t].subtree : status[m] # "none"
        /\ call[t].recursive => \A m \in Below(n) : status[m] # "none" => m \in plan[t].subtree
        /\ \A m \in Below(n) : status[m] = "active" => plan[t].descendants
        /\ pc[t] = "counted" /\ plan[t].descendants => call[t].recursive

\* A reconciliation has locked the chains of all that it found active, and
\* works on their records only.
Reconciling(t) ==
    Past(t) /\ call[t].op = "reconcile" =>
        /\ \A n \in plan[t].subtree :
              /\ status[n] = "active"
              /\ \A m \in Chain(n) : <<<<"namespace", m>>, "exclusive">> \in held[t]
        /\ \A l \in held[t] : l[1][1] \in {"memory", "job"} => l[1][2] \in plan[t].subtree
        /\ \A row \in todo[t] : row[2] \in plan[t].subtree

TxnOK(t) == Called(t) /\ Locking(t) /\ Writing(t) /\ Deleting(t) /\ Reconciling(t)

\* Nobody holds a lock another transaction's lock excludes.
Exclusion ==
    \A t, u \in Txns : t # u => \A l \in held[t], k \in held[u] : ~ Conflict(l, k)

IInv ==
    /\ TypeOK
    /\ \A t \in Txns : TxnOK(t)
    /\ Exclusion
    /\ ActiveUnderActive
    /\ NoRecordsInTombstone

-----------------------------------------------------------------------------
\* A step leaves another transaction alone.
Same(u) ==
    /\ pc'[u] = pc[u] /\ call'[u] = call[u] /\ held'[u] = held[u]
    /\ todo'[u] = todo[u] /\ plan'[u] = plan[u]

\* What holds of a transaction depends on its own state and the tree only.
LEMMA SameOK ==
    ASSUME NEW u \in Txns, TxnOK(u), Same(u), status' = status
    PROVE  TxnOK(u)'
<1>1. Called(u)' /\ Writing(u)' /\ Reconciling(u)'
  BY DEF TxnOK, Same, Called, Past, Writing, PathHeld, Reconciling
<1>2. Locking(u)'
  BY DEF TxnOK, Same, Locking
<1>3. Deleting(u)'
  BY DEF TxnOK, Same, Past, Deleting, PathHeld
<1> QED BY <1>1, <1>2, <1>3 DEF TxnOK

\* Everything that follows from the end of a transaction.
LEMMA FinishOK ==
    ASSUME TypeOK, NEW t \in Txns, Finish(t)
    PROVE  /\ TxnOK(t)'
           /\ \A u \in Txns \ {t} : Same(u)
           /\ Exclusion => Exclusion'
           /\ /\ pc' \in [Txns -> {"idle", "locking", "jobs", "memories", "counted"}]
              /\ call' \in [Txns -> Calls \cup {NoCall}]
              /\ held' \in [Txns -> SUBSET (Names \X {"shared", "exclusive"})]
              /\ todo' \in [Txns -> SUBSET Rows]
              /\ plan' \in [Txns -> Plan]
              /\ \A u \in Txns : pc'[u] = "idle" => held'[u] = {}
<1>1. pc'[t] = "idle" /\ held'[t] = {} /\ todo'[t] = {}
  BY DEF TypeOK, Finish, Goto, KeptLocks
<1>2. \A u \in Txns \ {t} : Same(u)
  BY DEF TypeOK, Finish, Goto, Same
<1>3. TxnOK(t)'
  BY <1>1 DEF TxnOK, Called, Locking, Past, Writing, Deleting, Reconciling
<1>4. \A u \in Txns : held'[u] \subseteq held[u]
  BY <1>1, <1>2 DEF Same
<1>5. Exclusion => Exclusion'
  BY <1>4 DEF Exclusion
<1>6. NoPlan \in Plan
  BY DEF NoPlan, Plan
<1>7. plan' \in [Txns -> Plan]
  BY <1>6 DEF TypeOK, Finish
<1>8. /\ pc' \in [Txns -> {"idle", "locking", "jobs", "memories", "counted"}]
      /\ call' \in [Txns -> Calls \cup {NoCall}]
      /\ held' \in [Txns -> SUBSET (Names \X {"shared", "exclusive"})]
      /\ todo' \in [Txns -> SUBSET Rows]
  BY DEF TypeOK, Finish, Goto, KeptLocks
<1> QED BY <1>1, <1>2, <1>3, <1>4, <1>5, <1>7, <1>8 DEF TypeOK, Same

\* A transaction that waits for no lock has its whole script.
LEMMA ScriptHeld ==
    ASSUME NEW t \in Txns, TxnOK(t), pc[t] = "locking", Wanted(t) = {}
    PROVE  \A i \in 1 .. Len(Script(call[t])) : Script(call[t])[i] \in held[t]
<1>1. PICK k \in 0 .. Len(Script(call[t])) :
        held[t] = {Script(call[t])[i] : i \in 1 .. k} /\ Cardinality(held[t]) = k
  BY DEF TxnOK, Locking
<1>2. Len(Script(call[t])) \in Nat
  BY ScriptOK, NamespaceLocksAssumption DEF TxnOK, Called
<1>3. ~ (Cardinality(held[t]) < Len(Script(call[t])))
  BY DEF Wanted
<1> QED BY <1>1, <1>2, <1>3

\* So it has the chain of its target.
LEMMA ScriptHoldsPath ==
    ASSUME NEW t \in Txns, TxnOK(t), pc[t] = "locking", Wanted(t) = {},
           call[t].op \in {"write", "create", "delete"}
    PROVE  PathHeld(t) /\ call[t].target \in Codes
<1> DEFINE c == call[t]
           n == call[t].target
<1>1. c \in Call
  BY NamespaceLocksAssumption DEF TxnOK, Called
<1>2. /\ n \in Codes /\ Len(n) \in Nat \ {0}
      /\ Len(Script(c)) = Len(n) + 1
      /\ \A i \in 1 .. Len(n) : Script(c)[i + 1] = LockOf(c, i)
  BY <1>1, ScriptShape, CodeIsPath
<1>3. \A i \in 1 .. Len(n) : LockOf(c, i) \in held[t]
  <2>1. TAKE i \in 1 .. Len(n)
  <2>2. i + 1 \in 1 .. Len(Script(c))
    BY <1>2
  <2> QED BY <1>2, <2>2, ScriptHeld
<1>4. ASSUME NEW m \in Chain(n)
      PROVE  \E mode \in {"shared", "exclusive"} : <<<<"namespace", m>>, mode>> \in held[t]
  <2>1. PICK i \in 1 .. Len(n) : m = SubSeq(n, 1, i)
    BY <1>2, ChainIsPrefixes
  <2>2. ModeOf(c, i) \in {"shared", "exclusive"}
    BY DEF ModeOf, TargetMode
  <2> QED BY <1>3, <2>1, <2>2 DEF LockOf
<1>5. c.op \in {"create", "delete"} => <<<<"namespace", n>>, "exclusive">> \in held[t]
  <2>1. Len(n) \in 1 .. Len(n) /\ SubSeq(n, 1, Len(n)) = n
    BY <1>2, Prefix
  <2> QED BY <1>3, <2>1 DEF LockOf, ModeOf, TargetMode
<1> QED BY <1>2, <1>4, <1>5 DEF PathHeld

\* No deletion at work has its target in the chain of another's.
LEMMA Clash ==
    ASSUME IInv, NEW t \in Txns, NEW u \in Txns \ {t}, PathHeld(t),
           Past(u), call[u].op = "delete"
    PROVE  call[u].target \notin Chain(call[t].target)
<1> SUFFICES ASSUME call[u].target \in Chain(call[t].target) PROVE FALSE
  OBVIOUS
<1>1. PICK mode : <<<<"namespace", call[u].target>>, mode>> \in held[t]
  BY DEF PathHeld
<1>2. <<<<"namespace", call[u].target>>, "exclusive">> \in held[u]
  BY DEF IInv, TxnOK, Deleting, PathHeld
<1> QED BY <1>1, <1>2 DEF IInv, Exclusion, Conflict

\* And none in the chain of a namespace a reconciliation works on.
LEMMA ClashReconcile ==
    ASSUME IInv, NEW t \in Txns, NEW u \in Txns \ {t},
           Past(t), call[t].op = "reconcile", NEW n \in plan[t].subtree,
           Past(u), call[u].op = "delete"
    PROVE  call[u].target \notin Chain(n)
<1> SUFFICES ASSUME call[u].target \in Chain(n) PROVE FALSE
  OBVIOUS
<1>1. <<<<"namespace", call[u].target>>, "exclusive">> \in held[t]
  BY DEF IInv, TxnOK, Reconciling
<1>2. <<<<"namespace", call[u].target>>, "exclusive">> \in held[u]
  BY DEF IInv, TxnOK, Deleting, PathHeld
<1> QED BY <1>1, <1>2 DEF IInv, Exclusion, Conflict

\* A step that changes no namespace, memory or job keeps what is said of them.
LEMMA TablesSame ==
    ASSUME IInv, UNCHANGED tables
    PROVE  ActiveUnderActive' /\ NoRecordsInTombstone'
BY DEF IInv, tables, ActiveUnderActive, NoRecordsInTombstone

-----------------------------------------------------------------------------
\* A step of one transaction that leaves the tables as they are.
LEMMA QuietStep ==
    ASSUME IInv, NEW t \in Txns, \A u \in Txns \ {t} : Same(u), UNCHANGED tables,
           TypeOK', TxnOK(t)', Exclusion'
    PROVE  IInv'
<1>1. \A u \in Txns \ {t} : TxnOK(u)'
  BY SameOK DEF IInv, tables
<1>2. ActiveUnderActive' /\ NoRecordsInTombstone'
  BY TablesSame
<1> QED BY <1>1, <1>2 DEF IInv

\* A transaction goes on to the rows of its next statement.
LEMMA GotoStep ==
    ASSUME IInv, NEW t \in Txns, NEW step \in {"jobs", "memories", "counted"},
           NEW rows \in SUBSET Rows, Goto(t, step, rows), NEW p \in Plan,
           plan' = [plan EXCEPT ![t] = p], UNCHANGED <<tables, call, held>>
    PROVE  /\ pc'[t] = step /\ todo'[t] = rows /\ plan'[t] = p
           /\ call'[t] = call[t] /\ held'[t] = held[t]
           /\ status' = status
           /\ pc[t] # "idle" => Called(t)' /\ Locking(t)'
           /\ TxnOK(t)' => IInv'
<1>1. TypeOK
  BY DEF IInv
<1>2. pc'[t] = step /\ todo'[t] = rows /\ plan'[t] = p
  BY <1>1 DEF TypeOK, Goto
<1>3. call'[t] = call[t] /\ held'[t] = held[t] /\ status' = status
  BY DEF tables
<1>4. \A u \in Txns \ {t} : Same(u)
  BY <1>1 DEF TypeOK, Goto, Same
<1>5. TypeOK'
  <2>1. plan' \in [Txns -> Plan]
    BY <1>1 DEF TypeOK
  <2>2. pc' \in [Txns -> {"idle", "locking", "jobs", "memories", "counted"}]
    BY <1>1 DEF TypeOK, Goto
  <2>3. todo' \in [Txns -> SUBSET Rows]
    BY <1>1 DEF TypeOK, Goto
  <2>4. \A u \in Txns : pc'[u] = "idle" => held'[u] = {}
    BY <1>1, <1>2, <1>4 DEF TypeOK, Same
  <2> QED BY <1>1, <2>1, <2>2, <2>3, <2>4 DEF TypeOK, tables
<1>6. Exclusion'
  BY DEF IInv, Exclusion
<1>7. pc[t] # "idle" => Called(t)' /\ Locking(t)'
  BY <1>2, <1>3 DEF IInv, TxnOK, Called, Locking
<1> QED BY <1>2, <1>3, <1>4, <1>5, <1>6, <1>7, QuietStep

\* A transaction begins without locks: IInv is kept.
LEMMA BeginStep ==
    ASSUME IInv, NEW t \in Txns, NEW c \in Calls, Begin(t, c)
    PROVE  IInv'
<1>1. TypeOK
  BY DEF IInv
<1>2. /\ pc'[t] = "locking" /\ todo'[t] = {} /\ call'[t] = c
      /\ held'[t] = {} /\ plan'[t] = plan[t]
  BY <1>1 DEF TypeOK, Begin, Goto
<1>3. \A u \in Txns \ {t} : Same(u)
  BY <1>1 DEF TypeOK, Begin, Goto, Same
<1>4. TypeOK'
  BY <1>1, <1>2 DEF TypeOK, Begin, Goto, tables
<1>5. Locking(t)'
  <2>1. Len(Script(c)) \in Nat
    BY ScriptOK, NamespaceLocksAssumption
  <2>2. {} = {Script(c)[i] : i \in 1 .. 0} /\ Cardinality({}) = 0 /\ IsFiniteSet({})
    BY FS_EmptySet
  <2> QED BY <1>2, <2>1, <2>2 DEF Locking
<1>6. TxnOK(t)'
  BY <1>2, <1>5 DEF TxnOK, Called, Past, Writing, Deleting, Reconciling
<1>7. Exclusion'
  BY DEF IInv, Exclusion, Begin
<1>8. UNCHANGED tables
  BY DEF Begin
<1> QED BY <1>3, <1>4, <1>6, <1>7, <1>8, QuietStep

\* The next lock of the script, or a row nobody has: IInv is kept.
LEMMA AcquireStep ==
    ASSUME IInv, NEW t \in Txns, Acquire(t)
    PROVE  IInv'
<1>1. TypeOK /\ TxnOK(t)
  BY DEF IInv
<1>2. PICK l \in Wanted(t) :
        /\ Blockers(t, l) = {}
        /\ held' = [held EXCEPT ![t] = @ \cup {l}]
        /\ todo' = [todo EXCEPT ![t] = @ \ {l[1]}]
        /\ UNCHANGED <<tables, pc, call, plan>>
  BY DEF Acquire
<1>3. /\ held'[t] = held[t] \cup {l} /\ todo'[t] = todo[t] \ {l[1]}
      /\ pc'[t] = pc[t] /\ call'[t] = call[t] /\ plan'[t] = plan[t] /\ status' = status
  BY <1>1, <1>2 DEF TypeOK, tables
<1>4. \A u \in Txns \ {t} : Same(u)
  BY <1>1, <1>2 DEF TypeOK, Same
<1>5. ASSUME pc[t] = "locking"
      PROVE  l \in Names \X {"shared", "exclusive"} /\ TxnOK(t)'
  <2> DEFINE c == call[t]
  <2>1. c \in Call
    BY <1>1, <1>5, NamespaceLocksAssumption DEF TxnOK, Called
  <2>2. todo[t] = {} /\ IsFiniteSet(held[t])
    BY <1>1, <1>5 DEF TxnOK, Locking
  <2>3. PICK k \in 0 .. Len(Script(c)) :
            held[t] = {Script(c)[i] : i \in 1 .. k} /\ Cardinality(held[t]) = k
    BY <1>1, <1>5 DEF TxnOK, Locking
  <2>4. k < Len(Script(c)) /\ l = Script(c)[k + 1]
    BY <1>2, <1>5, <2>2, <2>3 DEF Wanted
  <2>5. Len(Script(c)) \in Nat /\ k \in Nat /\ k + 1 \in 1 .. Len(Script(c))
    BY <2>1, <2>3, <2>4, ScriptOK
  <2>6. l \notin held[t]
    <3>1. \A i \in 1 .. k : Script(c)[i] # l
      <4>1. TAKE i \in 1 .. k
      <4>2. i \in 1 .. Len(Script(c)) /\ i # k + 1
        BY <2>5
      <4> QED BY <2>1, <2>4, <2>5, <4>2, ScriptOK
    <3> QED BY <2>3, <3>1
  <2>7. IsFiniteSet(held'[t]) /\ Cardinality(held'[t]) = k + 1
    <3>1. IsFiniteSet(held[t] \cup {l}) /\ Cardinality(held[t] \cup {l}) = Cardinality(held[t]) + 1
      BY <2>2, <2>6, FS_AddElement
    <3> QED BY <1>3, <2>3, <3>1
  <2>8. held'[t] = {Script(c)[i] : i \in 1 .. k + 1}
    <3>1. \A i : i \in 1 .. k + 1 <=> i \in 1 .. k \/ i = k + 1
      BY <2>5
    <3>2. held'[t] = {Script(c)[i] : i \in 1 .. k} \cup {Script(c)[k + 1]}
      BY <1>3, <2>3, <2>4
    <3> QED BY <3>1, <3>2
  <2>9. Locking(t)'
    <3>1. k + 1 \in 0 .. Len(Script(c)) /\ todo'[t] = {}
      BY <1>3, <2>2, <2>5
    <3>2. call'[t] = c
      BY <1>3
    <3> HIDE DEF c
    <3>3. \E j \in 0 .. Len(Script(c)) :
             held'[t] = {Script(c)[i] : i \in 1 .. j} /\ Cardinality(held'[t]) = j
      BY <2>7, <2>8, <3>1
    <3>4. \E j \in 0 .. Len(Script(call'[t])) :
             held'[t] = {Script(call'[t])[i] : i \in 1 .. j} /\ Cardinality(held'[t]) = j
      BY <3>2, <3>3
    <3> QED BY <2>7, <3>1, <3>4 DEF Locking
  <2>10. l \in Names \X {"shared", "exclusive"}
    BY <2>1, <2>4, <2>5, ScriptOK
  <2>11. TxnOK(t)'
    BY <1>1, <1>3, <1>5, <2>9 DEF TxnOK, Called, Past, Writing, Deleting, Reconciling
  <2> QED BY <2>10, <2>11
<1>6. ASSUME pc[t] # "locking"
      PROVE  l \in Names \X {"shared", "exclusive"} /\ TxnOK(t)'
  <2>1. PICK row \in todo[t] : l = <<row, "exclusive">>
    BY <1>2, <1>6 DEF Wanted
  <2>2. row \in Rows /\ l \in Names \X {"shared", "exclusive"}
    BY <1>1, <2>1 DEF TypeOK, Names
  <2>3. Called(t)' /\ Locking(t)'
    BY <1>1, <1>3, <1>6 DEF TxnOK, Called, Locking
  <2>4. Writing(t)'
    BY <1>1, <1>3 DEF TxnOK, Past, Writing, PathHeld
  <2>5. Deleting(t)'
    <3>1. PathHeld(t) => PathHeld(t)'
      BY <1>3 DEF PathHeld
    <3> QED BY <1>1, <1>3, <3>1 DEF TxnOK, Past, Deleting
  <2>6. Reconciling(t)'
    BY <1>1, <1>3, <2>1 DEF TxnOK, Past, Reconciling
  <2> QED BY <2>2, <2>3, <2>4, <2>5, <2>6 DEF TxnOK
<1>7. l \in Names \X {"shared", "exclusive"} /\ TxnOK(t)'
  BY <1>5, <1>6
<1>8. pc[t] # "idle"
  BY <1>1, <1>2 DEF TxnOK, Called, Wanted
<1>9. TypeOK'
  BY <1>1, <1>2, <1>7, <1>8 DEF TypeOK, tables
<1>10. Exclusion'
  <2>1. SUFFICES ASSUME NEW u \in Txns \ {t}, NEW k \in held[u]
                 PROVE  ~ Conflict(l, k) /\ ~ Conflict(k, l)
    BY <1>3, <1>4 DEF IInv, Exclusion, Same
  <2> QED BY <1>2 DEF Blockers, Conflict
<1> QED BY <1>2, <1>4, <1>7, <1>9, <1>10, QuietStep

-----------------------------------------------------------------------------
\* A rollback changes nobody else's locks.
LEMMA AbortStep ==
    ASSUME IInv, NEW t \in Txns, Abort(t)
    PROVE  IInv'
<1>1. TypeOK /\ Finish(t) /\ UNCHANGED tables
  BY DEF IInv, Abort
<1>2. TypeOK'
  BY <1>1, FinishOK DEF TypeOK, tables
<1>3. TxnOK(t)' /\ Exclusion' /\ \A u \in Txns \ {t} : Same(u)
  BY <1>1, FinishOK DEF IInv
<1> QED BY <1>1, <1>2, <1>3, QuietStep

\* A transaction that ends with changes of records, the tree as it was.
LEMMA RecordsStep ==
    ASSUME IInv, NEW t \in Txns, Finish(t), UNCHANGED status,
           memory' \in [Codes -> {"none", "plain", "embedded"}],
           job' \in [Codes -> {"none", "queued", "claimed", "done"}],
           \A n \in Codes : status[n] # "active" => memory'[n] = "none" /\ job'[n] = "none"
    PROVE  IInv'
<1>1. TypeOK
  BY DEF IInv
<1>2. TypeOK'
  BY <1>1, FinishOK DEF TypeOK
<1>3. \A u \in Txns : TxnOK(u)'
  BY <1>1, FinishOK, SameOK DEF IInv
<1>4. Exclusion'
  BY <1>1, FinishOK DEF IInv
<1>5. ActiveUnderActive' /\ NoRecordsInTombstone'
  BY DEF IInv, ActiveUnderActive, NoRecordsInTombstone
<1> QED BY <1>2, <1>3, <1>4, <1>5 DEF IInv

\* assertNamespaceActive: the chain is held and the target active from here on.
LEMMA AssertActiveStep ==
    ASSUME IInv, NEW t \in Txns, AssertActive(t)
    PROVE  IInv'
<1> DEFINE n == call[t].target
           rows == {<<"memory", n>>}
<1>1. TypeOK /\ TxnOK(t)
  BY DEF IInv
<1>2. /\ call[t].op = "write" /\ pc[t] = "locking" /\ Wanted(t) = {}
      /\ status[n] = "active" /\ Goto(t, "memories", rows)
      /\ UNCHANGED <<tables, call, held, plan>>
  BY DEF AssertActive, At
<1>3. PathHeld(t) /\ n \in Codes
  BY <1>1, <1>2, ScriptHoldsPath
<1>4. rows \in SUBSET Rows
  BY <1>3 DEF Rows
<1>5. plan[t] \in Plan /\ plan' = [plan EXCEPT ![t] = plan[t]]
  BY <1>1, <1>2 DEF TypeOK
<1> HIDE DEF rows
<1>6. /\ pc'[t] = "memories" /\ call'[t] = call[t] /\ held'[t] = held[t] /\ status' = status
      /\ Called(t)' /\ Locking(t)'
      /\ TxnOK(t)' => IInv'
  BY <1>2, <1>4, <1>5, GotoStep
<1>7. Writing(t)'
  BY <1>2, <1>3, <1>6 DEF Writing, PathHeld
<1>8. Deleting(t)' /\ Reconciling(t)'
  BY <1>2, <1>6 DEF Deleting, Reconciling
<1> QED BY <1>6, <1>7, <1>8 DEF TxnOK

\* enqueueMemoryEmbedding: the target is as active as before.
LEMMA EnqueueStep ==
    ASSUME IInv, NEW t \in Txns, Enqueue(t)
    PROVE  IInv'
<1> DEFINE n == call[t].target
           rows == {<<"job", n>>}
<1>1. TypeOK /\ TxnOK(t)
  BY DEF IInv
<1>2. /\ call[t].op = "write" /\ pc[t] = "memories" /\ Goto(t, "jobs", rows)
      /\ UNCHANGED <<tables, call, held, plan>>
  BY DEF Enqueue, At
<1>3. PathHeld(t) /\ status[n] = "active"
  BY <1>1, <1>2 DEF TxnOK, Writing, Past
<1>4. rows \in SUBSET Rows
  <2>1. n \in Codes
    BY <1>1, <1>2, NamespaceLocksAssumption DEF TxnOK, Called, Call
  <2> QED BY <2>1 DEF Rows
<1>5. plan[t] \in Plan /\ plan' = [plan EXCEPT ![t] = plan[t]]
  BY <1>1, <1>2 DEF TypeOK
<1> HIDE DEF rows
<1>6. /\ pc'[t] = "jobs" /\ call'[t] = call[t] /\ held'[t] = held[t] /\ status' = status
      /\ Called(t)' /\ Locking(t)'
      /\ TxnOK(t)' => IInv'
  BY <1>2, <1>4, <1>5, GotoStep
<1>7. Writing(t)'
  BY <1>3, <1>6 DEF Writing, PathHeld
<1>8. Deleting(t)' /\ Reconciling(t)'
  BY <1>2, <1>6 DEF Deleting, Reconciling
<1> QED BY <1>6, <1>7, <1>8 DEF TxnOK

\* The records a mutation writes are in an active namespace.
LEMMA WriteStep ==
    ASSUME IInv, NEW t \in Txns, Write(t)
    PROVE  IInv'
<1> DEFINE n == call[t].target
<1>1. TypeOK /\ TxnOK(t) /\ NoRecordsInTombstone
  BY DEF IInv
<1>2. status[n] = "active"
  BY <1>1 DEF Write, At, TxnOK, Past, Writing
<1>3. /\ memory' \in [Codes -> {"none", "plain", "embedded"}]
      /\ job' \in [Codes -> {"none", "queued", "claimed", "done"}]
  BY <1>1 DEF TypeOK, Write
<1>4. \A m \in Codes : status[m] # "active" => memory'[m] = "none" /\ job'[m] = "none"
  BY <1>1, <1>2 DEF TypeOK, Write, NoRecordsInTombstone
<1>5. Finish(t) /\ UNCHANGED status
  BY DEF Write
<1> QED BY <1>3, <1>4, <1>5, RecordsStep

\* A creation is below no deletion at work and keeps the tree whole.
LEMMA CreateStep ==
    ASSUME IInv, NEW t \in Txns, Create(t)
    PROVE  IInv'
<1> DEFINE n == call[t].target
<1>1. TypeOK /\ TxnOK(t)
  BY DEF IInv
<1>2. /\ call[t].op = "create" /\ pc[t] = "locking" /\ Wanted(t) = {}
      /\ CanCreate(n) /\ status' = [status EXCEPT ![n] = "active"]
      /\ Finish(t) /\ UNCHANGED <<memory, job>>
  BY DEF Create, At
<1>3. PathHeld(t) /\ n \in Codes
  BY <1>1, <1>2, ScriptHoldsPath
<1>4. /\ status[n] = "none" /\ status'[n] = "active"
      /\ \A m \in Codes \ {n} : status'[m] = status[m]
  BY <1>1, <1>2, <1>3 DEF TypeOK, CanCreate
<1>5. TypeOK'
  <2>1. status' \in [Codes -> {"none", "active", "deleted"}]
    BY <1>1, <1>2 DEF TypeOK
  <2> QED BY <1>1, <1>2, <2>1, FinishOK DEF TypeOK
<1>6. ASSUME NEW u \in Txns \ {t} PROVE TxnOK(u)'
  <2>1. Same(u) /\ TxnOK(u)
    BY <1>1, <1>2, FinishOK DEF IInv
  <2>2. Called(u)' /\ Locking(u)'
    BY <2>1 DEF TxnOK, Same, Called, Locking
  <2>3. Writing(u)' /\ Reconciling(u)'
    <3>1. \A m \in Codes : status[m] = "active" => status'[m] = "active"
      BY <1>1, <1>2 DEF TypeOK
    <3>4. call[u].op = "write" /\ Past(u) => call[u].target \in Codes
      BY <2>1, NamespaceLocksAssumption DEF TxnOK, Called, Past, Call
    <3>5. plan[u].subtree \in SUBSET Codes
      BY <1>1 DEF TypeOK, Plan
    <3>2. Past(u)' => Past(u)
      BY <2>1 DEF Past, Same
    <3>3. PathHeld(u) => PathHeld(u)'
      BY <2>1 DEF PathHeld, Same
    <3> QED BY <2>1, <3>1, <3>2, <3>3, <3>4, <3>5 DEF TxnOK, Same, Writing, Reconciling
  <2>4. Deleting(u)'
    <3>1. SUFFICES ASSUME Past(u), call[u].op = "delete" PROVE Deleting(u)'
      BY <2>1 DEF Same, Past, Deleting
    <3>2. call[u].target \notin Chain(n)
      BY <1>2, <1>3, <3>1, Clash
    <3>3. \A m \in Below(call[u].target) : m # n /\ status'[m] = status[m]
      BY <1>3, <1>4, <3>2 DEF Below, Chain
    <3>4. PathHeld(u)'
      BY <2>1, <3>1 DEF TxnOK, Deleting, PathHeld, Same
    <3>5. \A m \in plan[u].subtree : status'[m] # "none"
      <4>1. \A m \in plan[u].subtree : status[m] # "none"
        BY <2>1, <3>1 DEF TxnOK, Deleting
      <4> QED BY <1>1, <1>2, <4>1 DEF TypeOK
    <3> QED BY <2>1, <3>1, <3>3, <3>4, <3>5 DEF TxnOK, Deleting, Same, Past
  <2> QED BY <2>2, <2>3, <2>4 DEF TxnOK
<1>7. \A u \in Txns : TxnOK(u)'
  BY <1>1, <1>2, <1>6, FinishOK
<1>8. Exclusion'
  BY <1>1, <1>2, FinishOK DEF IInv
<1>9. ActiveUnderActive'
  <2>1. ASSUME NEW m \in Above(n) PROVE status[m] = "active"
    <3> DEFINE parent == SubSeq(n, 1, Len(n) - 1)
    <3>1. Len(n) > 1 /\ (m = parent \/ m \in Above(parent))
      BY <1>3, AboveParent
    <3>2. status[parent] = "active"
      BY <1>2, <3>1 DEF CanCreate
    <3>3. parent \in Codes
      <4>1. Len(n) - 1 \in 1 .. Len(n)
        BY <1>3, <3>1, CodeIsPath
      <4> QED BY <1>3, <4>1, Prefix
    <3> HIDE DEF parent
    <3> QED BY <3>1, <3>2, <3>3 DEF IInv, ActiveUnderActive
  <2>2. ASSUME NEW k \in Codes, status'[k] = "active", NEW m \in Above(k)
        PROVE  status'[m] = "active"
    <3>1. m \in Codes
      BY NamespaceLocksAssumption
    <3>2. status[m] = "active"
      BY <1>4, <2>1, <2>2 DEF IInv, ActiveUnderActive
    <3> QED BY <1>4, <3>1, <3>2
  <2> QED BY <2>2 DEF ActiveUnderActive
<1>10. NoRecordsInTombstone'
  BY <1>2, <1>4 DEF IInv, NoRecordsInTombstone
<1> QED BY <1>5, <1>7, <1>8, <1>9, <1>10 DEF IInv

-----------------------------------------------------------------------------
\* The rows of existing codes are rows.
LEMMA RowsOK ==
    ASSUME NEW codes \in SUBSET Codes, NEW kind \in {"memory", "job"}
    PROVE  RowsOf(kind, codes) \in SUBSET Rows
BY DEF RowsOf, Rows

\* The subtree of a deletion at work.
LEMMA SubtreeOK ==
    ASSUME TypeOK, NEW t \in Txns
    PROVE  plan[t].subtree \in SUBSET Codes
BY DEF TypeOK, Plan

\* What DeleteNamespace reads of the tree starts out true, with the chain held.
LEMMA ExamineStep ==
    ASSUME IInv, NEW t \in Txns, Examine(t)
    PROVE  IInv'
<1> DEFINE n == call[t].target
           subtree == IF call[t].recursive THEN {n} \cup {m \in Below(n) : status[m] # "none"}
                                           ELSE {n}
           descendants == \E m \in Below(n) : status[m] = "active"
           p == [subtree |-> subtree, counted |-> {}, descendants |-> descendants]
           rows == RowsOf(RecordOrder[1], subtree)
<1>1. TypeOK /\ TxnOK(t)
  BY DEF IInv
<1>2. /\ call[t].op = "delete" /\ pc[t] = "locking" /\ Wanted(t) = {}
      /\ status[n] # "none" /\ plan' = [plan EXCEPT ![t] = p] /\ Goto(t, "jobs", rows)
      /\ UNCHANGED <<tables, call, held>>
  BY DEF Examine, At
<1>3. PathHeld(t) /\ n \in Codes
  BY <1>1, <1>2, ScriptHoldsPath
<1>4. /\ n \in subtree /\ subtree \subseteq {n} \cup Below(n) /\ subtree \in SUBSET Codes
      /\ \A m \in subtree : status[m] # "none"
      /\ call[t].recursive => \A m \in Below(n) : status[m] # "none" => m \in subtree
  BY <1>2, <1>3 DEF Below
<1>5. descendants \in BOOLEAN /\ \A m \in Below(n) : status[m] = "active" => descendants
  OBVIOUS
<1>6. RecordOrder[1] \in {"memory", "job"}
  BY DEF RecordOrder
<1>7. rows \in SUBSET Rows
  BY <1>4, <1>6, RowsOK
<1> HIDE DEF subtree, descendants, rows
<1>8. p \in Plan /\ p.subtree = subtree /\ p.descendants = descendants
  BY <1>4, <1>5 DEF Plan
<1> HIDE DEF p
<1>9. /\ pc'[t] = "jobs" /\ plan'[t] = p /\ call'[t] = call[t] /\ held'[t] = held[t]
      /\ status' = status
      /\ Called(t)' /\ Locking(t)'
      /\ TxnOK(t)' => IInv'
  <2>1. /\ Goto(t, "jobs", rows) /\ plan' = [plan EXCEPT ![t] = p]
        /\ UNCHANGED <<tables, call, held>> /\ p \in Plan /\ pc[t] # "idle"
    BY <1>2, <1>8
  <2> QED BY <1>7, <2>1, GotoStep
<1>10. PathHeld(t)'
  BY <1>3, <1>9 DEF PathHeld
<1>11. Deleting(t)'
  BY <1>4, <1>5, <1>8, <1>9, <1>10 DEF Deleting
<1>12. Writing(t)' /\ Reconciling(t)'
  BY <1>2, <1>9 DEF Writing, Reconciling
<1> QED BY <1>9, <1>11, <1>12 DEF TxnOK

\* lockNamespaceRecords goes on to the memories: nothing of the tree changes.
LEMMA LockMemoriesStep ==
    ASSUME IInv, NEW t \in Txns, LockMemories(t)
    PROVE  IInv'
<1> DEFINE rows == RowsOf(RecordOrder[2], plan[t].subtree)
<1>1. TypeOK /\ TxnOK(t)
  BY DEF IInv
<1>2. /\ call[t].op = "delete" /\ pc[t] = "jobs" /\ Goto(t, "memories", rows)
      /\ UNCHANGED <<tables, call, held, plan>>
  BY DEF LockMemories, At
<1>3. rows \in SUBSET Rows
  BY <1>1, SubtreeOK, RowsOK DEF RecordOrder
<1>4. plan[t] \in Plan /\ plan' = [plan EXCEPT ![t] = plan[t]]
  BY <1>1, <1>2 DEF TypeOK
<1> HIDE DEF rows
<1>5. /\ pc'[t] = "memories" /\ plan'[t] = plan[t] /\ call'[t] = call[t] /\ held'[t] = held[t]
      /\ status' = status
      /\ Called(t)' /\ Locking(t)'
      /\ TxnOK(t)' => IInv'
  BY <1>2, <1>3, <1>4, GotoStep
<1>6. PathHeld(t)' /\ Past(t)
  BY <1>1, <1>2, <1>5 DEF TxnOK, Deleting, Past, PathHeld
<1>7. Deleting(t)'
  BY <1>1, <1>2, <1>5, <1>6 DEF TxnOK, Deleting
<1>8. Writing(t)' /\ Reconciling(t)'
  BY <1>2, <1>5 DEF Writing, Reconciling
<1> QED BY <1>5, <1>7, <1>8 DEF TxnOK

\* countNamespaceRecords passes only if no active descendant would be left.
LEMMA CountStep ==
    ASSUME IInv, NEW t \in Txns, Count(t)
    PROVE  IInv'
<1> DEFINE p == [plan[t] EXCEPT !.counted = RecordsOf(plan[t].subtree)]
<1>1. TypeOK /\ TxnOK(t)
  BY DEF IInv
<1>2. /\ call[t].op = "delete" /\ pc[t] = "memories" /\ Goto(t, "counted", {})
      /\ plan[t].descendants => call[t].recursive
      /\ UNCHANGED <<tables, call, held>>
  BY DEF Count, At
<1>3. plan' = [plan EXCEPT ![t] = p]
  BY <1>1 DEF TypeOK, Count
<1>4. RecordsOf(plan[t].subtree) \in SUBSET Records
  BY <1>1, SubtreeOK DEF RecordsOf, Records
<1>5. p \in Plan /\ p.subtree = plan[t].subtree /\ p.descendants = plan[t].descendants
  BY <1>1, <1>4 DEF TypeOK, Plan
<1> HIDE DEF p
<1>6. /\ pc'[t] = "counted" /\ plan'[t] = p /\ call'[t] = call[t] /\ held'[t] = held[t]
      /\ status' = status
      /\ Called(t)' /\ Locking(t)'
      /\ TxnOK(t)' => IInv'
  <2>1. /\ Goto(t, "counted", {}) /\ plan' = [plan EXCEPT ![t] = p]
        /\ UNCHANGED <<tables, call, held>> /\ p \in Plan /\ pc[t] # "idle"
    BY <1>2, <1>3, <1>5
  <2>2. {} \in SUBSET Rows
    OBVIOUS
  <2> QED BY <2>1, <2>2, GotoStep
<1>7. PathHeld(t)' /\ Past(t)
  BY <1>1, <1>2, <1>6 DEF TxnOK, Deleting, Past, PathHeld
<1>8. Deleting(t)'
  BY <1>1, <1>2, <1>5, <1>6, <1>7 DEF TxnOK, Deleting
<1>9. Writing(t)' /\ Reconciling(t)'
  BY <1>2, <1>6 DEF Writing, Reconciling
<1> QED BY <1>6, <1>8, <1>9 DEF TxnOK

\* A purge touches nothing another transaction relies on, and leaves no active
\* namespace below a tombstone.
LEMMA PurgeStep ==
    ASSUME IInv, NEW t \in Txns, Purge(t)
    PROVE  IInv'
<1> DEFINE n == call[t].target
           purged == plan[t].subtree
<1>1. TypeOK /\ TxnOK(t)
  BY DEF IInv
<1>2. /\ call[t].op = "delete" /\ pc[t] = "counted" /\ Past(t)
      /\ memory' = [m \in Codes |-> IF m \in purged THEN "none" ELSE memory[m]]
      /\ job' = [m \in Codes |-> IF m \in purged THEN "none" ELSE job[m]]
      /\ status' = [m \in Codes |-> IF m \in purged THEN "deleted" ELSE status[m]]
      /\ Finish(t)
  BY DEF Purge, At, Past
<1>3. /\ n \in purged /\ purged \subseteq {n} \cup Below(n)
      /\ \A m \in purged : status[m] # "none"
      /\ call[t].recursive => \A m \in Below(n) : status[m] # "none" => m \in purged
      /\ (\E m \in Below(n) : status[m] = "active") => call[t].recursive
  BY <1>1, <1>2 DEF TxnOK, Deleting
<1>4. purged \in SUBSET Codes /\ \A m \in purged : n \in Chain(m)
  BY <1>1, <1>3, SubtreeOK DEF Below, Chain
<1> HIDE DEF purged
<1>5. TypeOK'
  <2>1. /\ status' \in [Codes -> {"none", "active", "deleted"}]
        /\ memory' \in [Codes -> {"none", "plain", "embedded"}]
        /\ job' \in [Codes -> {"none", "queued", "claimed", "done"}]
    BY <1>1, <1>2 DEF TypeOK
  <2> QED BY <1>1, <1>2, <2>1, FinishOK DEF TypeOK
<1>6. ASSUME NEW u \in Txns \ {t} PROVE TxnOK(u)'
  <2>1. Same(u) /\ TxnOK(u) /\ (Past(u)' => Past(u)) /\ (PathHeld(u) => PathHeld(u)')
    BY <1>1, <1>2, FinishOK DEF IInv, Same, Past, PathHeld
  <2>2. Called(u)' /\ Locking(u)'
    BY <2>1 DEF TxnOK, Same, Called, Locking
  <2>3. Writing(u)'
    <3>1. SUFFICES ASSUME Past(u), call[u].op = "write" PROVE Writing(u)'
      BY <2>1 DEF Same, Writing
    <3>2. PathHeld(u) /\ status[call[u].target] = "active"
      BY <2>1, <3>1 DEF TxnOK, Writing
    <3>3. n \notin Chain(call[u].target)
      BY <1>2, <3>2, Clash
    <3>4. call[u].target \in Codes
      BY <2>1, <3>1, NamespaceLocksAssumption DEF TxnOK, Called, Past, Call
    <3>5. status'[call[u].target] = "active"
      BY <1>2, <1>4, <3>2, <3>3, <3>4
    <3> QED BY <2>1, <3>2, <3>5 DEF Writing, Same
  <2>4. Deleting(u)'
    <3>1. SUFFICES ASSUME Past(u), call[u].op = "delete" PROVE Deleting(u)'
      BY <2>1 DEF Same, Deleting
    <3>2. \A m \in Codes : /\ status'[m] # "none" <=> status[m] # "none"
                           /\ status'[m] = "active" => status[m] = "active"
      BY <1>2, <1>3
    <3>3. plan[u].subtree \in SUBSET Codes /\ Below(call[u].target) \in SUBSET Codes
      BY <1>1, SubtreeOK DEF Below
    <3> QED BY <2>1, <3>1, <3>2, <3>3 DEF TxnOK, Deleting, Same, Past
  <2>5. Reconciling(u)'
    <3>1. SUFFICES ASSUME Past(u), call[u].op = "reconcile" PROVE Reconciling(u)'
      BY <2>1 DEF Same, Reconciling
    <3>2. ASSUME NEW m \in plan[u].subtree PROVE status'[m] = "active"
      <4>1. n \notin Chain(m)
        BY <1>2, <3>1, ClashReconcile
      <4>2. m \in Codes /\ status[m] = "active"
        BY <1>1, <2>1, <3>1, SubtreeOK DEF TxnOK, Reconciling
      <4> QED BY <1>2, <1>4, <4>1, <4>2
    <3> QED BY <2>1, <3>1, <3>2 DEF TxnOK, Reconciling, Same
  <2> QED BY <2>2, <2>3, <2>4, <2>5 DEF TxnOK
<1>7. \A u \in Txns : TxnOK(u)'
  BY <1>1, <1>2, <1>6, FinishOK
<1>8. Exclusion'
  BY <1>1, <1>2, FinishOK DEF IInv
<1>9. ActiveUnderActive'
  <2>1. SUFFICES ASSUME NEW k \in Codes, status'[k] = "active", NEW m \in Above(k)
                 PROVE  status'[m] = "active"
    BY DEF ActiveUnderActive
  <2>2. k \notin purged /\ status[k] = "active" /\ m \in Codes
    BY <1>2, <2>1, NamespaceLocksAssumption
  <2>3. status[m] = "active"
    BY <2>2 DEF IInv, ActiveUnderActive
  <2>4. ASSUME m \in purged PROVE FALSE
    <3>1. n \in Above(k)
      <4>1. n = m \/ n \in Above(m)
        BY <1>4, <2>4 DEF Chain
      <4> QED BY <2>1, <4>1, AboveIsTransitive
    <3>2. k \in Below(n)
      BY <3>1 DEF Below
    <3> QED BY <1>3, <2>2, <3>2
  <2> QED BY <1>2, <2>2, <2>3, <2>4
<1>10. NoRecordsInTombstone'
  BY <1>2 DEF IInv, NoRecordsInTombstone
<1> QED BY <1>5, <1>7, <1>8, <1>9, <1>10 DEF IInv

-----------------------------------------------------------------------------
\* Before it has found its namespaces, a reconciliation holds the catalog only.
LEMMA CatalogOnly ==
    ASSUME NEW t \in Txns, TxnOK(t), pc[t] = "locking", call[t].op = "reconcile"
    PROVE  \A l \in held[t] : l[1][1] = "catalog"
<1>1. Script(call[t]) = << <<<<"catalog">>, "exclusive">> >>
  BY DEF Script
<1>2. Len(Script(call[t])) = 1 /\ Script(call[t])[1] = <<<<"catalog">>, "exclusive">>
  BY <1>1
<1>3. PICK k \in 0 .. 1 : held[t] = {Script(call[t])[i] : i \in 1 .. k}
  BY <1>2 DEF TxnOK, Locking
<1>4. \A l \in held[t] : l = <<<<"catalog">>, "exclusive">>
  BY <1>2, <1>3
<1> QED BY <1>4

\* lockActiveNamespaceHierarchies: every active namespace with its chain is held.
LEMMA LockActiveStep ==
    ASSUME IInv, NEW t \in Txns, LockActive(t)
    PROVE  IInv'
<1> DEFINE active == {n \in Codes : status[n] = "active"}
           locks == {<<<<"namespace", n>>, "exclusive">> :
                        n \in active \cup UNION {Above(n) : n \in active}}
           rows == {<<"memory", n>> : n \in {m \in active : memory[m] = "embedded"}}
           p == [plan[t] EXCEPT !.subtree = active]
<1>1. TypeOK /\ TxnOK(t)
  BY DEF IInv
<1>2. /\ call[t].op = "reconcile" /\ pc[t] = "locking" /\ Wanted(t) = {}
      /\ \A l \in locks : Blockers(t, l) = {}
      /\ held' = [held EXCEPT ![t] = @ \cup locks]
      /\ plan' = [plan EXCEPT ![t].subtree = active]
      /\ Goto(t, "memories", rows)
      /\ UNCHANGED <<tables, call>>
  BY DEF LockActive, At
<1>3. active \in SUBSET Codes /\ \A n \in active : status[n] = "active"
  OBVIOUS
<1>4. locks \subseteq Names \X {"shared", "exclusive"}
  BY NamespaceLocksAssumption DEF Names
<1>5. \A n \in active : \A m \in Chain(n) : <<<<"namespace", m>>, "exclusive">> \in locks
  BY DEF Chain
<1>6. \A l \in locks : l[1][1] = "namespace"
  OBVIOUS
<1>7. rows \in SUBSET Rows /\ \A row \in rows : row[2] \in active
  BY DEF Rows
<1> HIDE DEF active, locks, rows
<1>8. p \in Plan /\ p.subtree = active
  BY <1>1, <1>3 DEF TypeOK, Plan
<1>9. plan' = [plan EXCEPT ![t] = p]
  BY <1>1, <1>2 DEF TypeOK
<1> HIDE DEF p
<1>10. /\ pc'[t] = "memories" /\ plan'[t] = p /\ todo'[t] = rows
       /\ call'[t] = call[t] /\ held'[t] = held[t] \cup locks /\ status' = status
  BY <1>1, <1>2, <1>9 DEF TypeOK, Goto, tables
<1>11. \A u \in Txns \ {t} : Same(u)
  BY <1>1, <1>2, <1>9 DEF TypeOK, Goto, Same
<1>12. TypeOK'
  <2>1. plan' \in [Txns -> Plan]
    BY <1>1, <1>8, <1>9 DEF TypeOK
  <2>2. held' \in [Txns -> SUBSET (Names \X {"shared", "exclusive"})]
    BY <1>1, <1>2, <1>4 DEF TypeOK
  <2>3. /\ pc' \in [Txns -> {"idle", "locking", "jobs", "memories", "counted"}]
        /\ todo' \in [Txns -> SUBSET Rows]
    BY <1>1, <1>2, <1>7 DEF TypeOK, Goto
  <2>4. \A u \in Txns : pc'[u] = "idle" => held'[u] = {}
    BY <1>1, <1>10, <1>11 DEF TypeOK, Same
  <2> QED BY <1>1, <1>2, <2>1, <2>2, <2>3, <2>4 DEF TypeOK, tables
<1>13. Reconciling(t)'
  <2>1. \A l \in held'[t] : l[1][1] \notin {"memory", "job"}
    BY <1>1, <1>2, <1>6, <1>10, CatalogOnly
  <2> QED BY <1>3, <1>5, <1>7, <1>8, <1>10, <2>1 DEF Reconciling
<1>14. TxnOK(t)'
  BY <1>1, <1>2, <1>10, <1>13 DEF TxnOK, Called, Locking, Writing, Deleting
<1>15. Exclusion'
  <2>1. \A u \in Txns \ {t} : \A l \in locks, k \in held[u] : ~ Conflict(l, k) /\ ~ Conflict(k, l)
    BY <1>2 DEF Blockers, Conflict
  <2> QED BY <1>10, <1>11, <2>1 DEF IInv, Exclusion, Same
<1>16. UNCHANGED tables
  BY <1>2
<1> QED BY <1>11, <1>12, <1>14, <1>15, <1>16, QuietStep

\* The rows a reconciliation queues are of namespaces it has locked.
LEMMA RequeueStep ==
    ASSUME IInv, NEW t \in Txns, Requeue(t)
    PROVE  IInv'
<1> DEFINE rows == {<<"job", n>> : n \in {m \in plan[t].subtree :
                        memory[m] = "plain" \/ m \in Locked(t, "memory")}}
<1>1. TypeOK /\ TxnOK(t)
  BY DEF IInv
<1>2. /\ call[t].op = "reconcile" /\ pc[t] = "memories" /\ Goto(t, "jobs", rows)
      /\ UNCHANGED <<tables, call, held, plan>>
  BY DEF Requeue, At
<1>3. rows \in SUBSET Rows /\ \A row \in rows : row[2] \in plan[t].subtree
  BY <1>1, SubtreeOK DEF Rows
<1>4. plan[t] \in Plan /\ plan' = [plan EXCEPT ![t] = plan[t]]
  BY <1>1, <1>2 DEF TypeOK
<1> HIDE DEF rows
<1>5. /\ pc'[t] = "jobs" /\ plan'[t] = plan[t] /\ call'[t] = call[t] /\ held'[t] = held[t]
      /\ todo'[t] = rows /\ status' = status
      /\ Called(t)' /\ Locking(t)'
      /\ TxnOK(t)' => IInv'
  <2>1. /\ Goto(t, "jobs", rows) /\ plan' = [plan EXCEPT ![t] = plan[t]] /\ plan[t] \in Plan
        /\ UNCHANGED <<tables, call, held>> /\ rows \in SUBSET Rows /\ pc[t] # "idle"
    BY <1>2, <1>3, <1>4
  <2>2. Called(t)' /\ Locking(t)' /\ (TxnOK(t)' => IInv')
    BY <2>1, GotoStep
  <2>3. pc'[t] = "jobs" /\ todo'[t] = rows
    BY <1>1, <2>1 DEF TypeOK, Goto
  <2>4. plan'[t] = plan[t] /\ call'[t] = call[t] /\ held'[t] = held[t] /\ status' = status
    BY <1>2 DEF tables
  <2> QED BY <2>2, <2>3, <2>4
<1>6. Reconciling(t)'
  BY <1>1, <1>2, <1>3, <1>5 DEF TxnOK, Reconciling, Past
<1>7. Writing(t)' /\ Deleting(t)'
  BY <1>2, <1>5 DEF Writing, Deleting
<1> QED BY <1>5, <1>6, <1>7 DEF TxnOK

\* Its writes are in active namespaces.
LEMMA ReconcileStep ==
    ASSUME IInv, NEW t \in Txns, Reconcile(t)
    PROVE  IInv'
<1>1. TypeOK /\ TxnOK(t) /\ NoRecordsInTombstone
  BY DEF IInv
<1>2. /\ call[t].op = "reconcile" /\ Past(t) /\ Finish(t) /\ UNCHANGED status
      /\ memory' = [n \in Codes |-> IF n \in Locked(t, "memory") THEN "plain" ELSE memory[n]]
      /\ job' = [n \in Codes |-> IF n \in Locked(t, "job") THEN "queued" ELSE job[n]]
  BY DEF Reconcile, At, Past
<1>3. /\ memory' \in [Codes -> {"none", "plain", "embedded"}]
      /\ job' \in [Codes -> {"none", "queued", "claimed", "done"}]
  BY <1>1, <1>2 DEF TypeOK
<1>4. ASSUME NEW n \in Locked(t, "memory") \cup Locked(t, "job") PROVE status[n] = "active"
  <2>1. PICK l \in held[t] : l[1] \in {<<"memory", n>>, <<"job", n>>}
    BY DEF Locked
  <2>2. l[1][1] \in {"memory", "job"} /\ l[1][2] = n
    BY <2>1
  <2> QED BY <1>1, <1>2, <2>2 DEF TxnOK, Reconciling
<1>5. \A n \in Codes : status[n] # "active" => memory'[n] = "none" /\ job'[n] = "none"
  BY <1>1, <1>2, <1>4 DEF NoRecordsInTombstone
<1> QED BY <1>2, <1>3, <1>5, RecordsStep

-----------------------------------------------------------------------------
\* A completion takes its job's row: it says nothing of the tree.
LEMMA LockJobStep ==
    ASSUME IInv, NEW t \in Txns, LockJob(t)
    PROVE  IInv'
<1> DEFINE rows == {<<"job", call[t].target>>}
<1>1. TypeOK /\ TxnOK(t)
  BY DEF IInv
<1>2. /\ call[t].op = "complete" /\ pc[t] = "locking" /\ Goto(t, "jobs", rows)
      /\ UNCHANGED <<tables, call, held, plan>>
  BY DEF LockJob, At
<1>3. rows \in SUBSET Rows
  <2>1. call[t].target \in Codes
    BY <1>1, <1>2, NamespaceLocksAssumption DEF TxnOK, Called, Call
  <2> QED BY <2>1 DEF Rows
<1>4. plan[t] \in Plan /\ plan' = [plan EXCEPT ![t] = plan[t]]
  BY <1>1, <1>2 DEF TypeOK
<1> HIDE DEF rows
<1>5. /\ pc'[t] = "jobs" /\ call'[t] = call[t]
      /\ Called(t)' /\ Locking(t)'
      /\ TxnOK(t)' => IInv'
  BY <1>2, <1>3, <1>4, GotoStep
<1> QED BY <1>2, <1>5 DEF TxnOK, Writing, Deleting, Reconciling

\* The check that the job is still its own does not either.
LEMMA OwnStep ==
    ASSUME IInv, NEW t \in Txns, Own(t)
    PROVE  IInv'
<1> DEFINE rows == {<<"memory", call[t].target>>}
<1>1. TypeOK /\ TxnOK(t)
  BY DEF IInv
<1>2. /\ call[t].op = "complete" /\ pc[t] = "jobs" /\ Goto(t, "memories", rows)
      /\ UNCHANGED <<tables, call, held, plan>>
  BY DEF Own, At
<1>3. rows \in SUBSET Rows
  <2>1. call[t].target \in Codes
    BY <1>1, <1>2, NamespaceLocksAssumption DEF TxnOK, Called, Call
  <2> QED BY <2>1 DEF Rows
<1>4. plan[t] \in Plan /\ plan' = [plan EXCEPT ![t] = plan[t]]
  BY <1>1, <1>2 DEF TypeOK
<1> HIDE DEF rows
<1>5. /\ pc'[t] = "memories" /\ call'[t] = call[t]
      /\ Called(t)' /\ Locking(t)'
      /\ TxnOK(t)' => IInv'
  BY <1>2, <1>3, <1>4, GotoStep
<1> QED BY <1>2, <1>5 DEF TxnOK, Writing, Deleting, Reconciling

\* A vector is written to a memory that exists, in an active namespace therefore.
LEMMA CompleteStep ==
    ASSUME IInv, NEW t \in Txns, Complete(t)
    PROVE  IInv'
<1> DEFINE n == call[t].target
<1>1. TypeOK /\ TxnOK(t) /\ NoRecordsInTombstone
  BY DEF IInv
<1>2. /\ Finish(t) /\ UNCHANGED status
      /\ \/ /\ memory[n] # "none"
            /\ memory' = [memory EXCEPT ![n] = "embedded"]
            /\ job' = [job EXCEPT ![n] = "done"]
         \/ /\ job' = [job EXCEPT ![n] = "none"]
            /\ UNCHANGED memory
  BY DEF Complete
<1>3. /\ memory' \in [Codes -> {"none", "plain", "embedded"}]
      /\ job' \in [Codes -> {"none", "queued", "claimed", "done"}]
  BY <1>1, <1>2 DEF TypeOK
<1>4. \A m \in Codes : status[m] # "active" => memory'[m] = "none" /\ job'[m] = "none"
  BY <1>1, <1>2 DEF TypeOK, NoRecordsInTombstone
<1> QED BY <1>2, <1>3, <1>4, RecordsStep

\* Nor does a batch that failed, before its jobs are written ...
LEMMA BatchStep ==
    ASSUME IInv, NEW t \in Txns, FailBatch(t)
    PROVE  IInv'
<1>1. TypeOK /\ TxnOK(t)
  BY DEF IInv
<1>2. PICK batch \in SUBSET Codes : Goto(t, "jobs", {<<"job", n>> : n \in batch})
  BY DEF FailBatch
<1>3. call[t].op = "fail" /\ pc[t] = "locking" /\ UNCHANGED <<tables, call, held, plan>>
  BY DEF FailBatch, At
<1> DEFINE rows == {<<"job", n>> : n \in batch}
<1>4. rows \in SUBSET Rows
  BY DEF Rows
<1>5. plan[t] \in Plan /\ plan' = [plan EXCEPT ![t] = plan[t]]
  BY <1>1, <1>3 DEF TypeOK
<1>6. Goto(t, "jobs", rows)
  BY <1>2
<1> HIDE DEF rows
<1>7. /\ pc'[t] = "jobs" /\ call'[t] = call[t]
      /\ Called(t)' /\ Locking(t)'
      /\ TxnOK(t)' => IInv'
  BY <1>3, <1>4, <1>5, <1>6, GotoStep
<1> QED BY <1>3, <1>7 DEF TxnOK, Writing, Deleting, Reconciling

\* ... which drops rows from what it wants ...
LEMMA SkipJobStep ==
    ASSUME IInv, NEW t \in Txns, SkipJob(t)
    PROVE  IInv'
<1>1. TypeOK /\ TxnOK(t)
  BY DEF IInv
<1>2. /\ call[t].op = "fail" /\ pc[t] = "jobs"
      /\ UNCHANGED <<tables, pc, call, held, plan>>
  BY DEF SkipJob
<1>3. PICK row \in todo[t] : todo' = [todo EXCEPT ![t] = @ \ {row}]
  BY DEF SkipJob
<1>4. \A u \in Txns \ {t} : Same(u)
  BY <1>1, <1>2, <1>3 DEF TypeOK, Same
<1>5. TypeOK'
  BY <1>1, <1>2, <1>3 DEF TypeOK, tables
<1>6. TxnOK(t)'
  BY <1>1, <1>2 DEF TxnOK, Called, Locking, Past, Writing, Deleting, Reconciling
<1>7. Exclusion'
  BY <1>2 DEF IInv, Exclusion
<1> QED BY <1>2, <1>4, <1>5, <1>6, <1>7, QuietStep

\* ... and when it writes: there is a job before and after.
LEMMA FailStep ==
    ASSUME IInv, NEW t \in Txns, Fail(t)
    PROVE  IInv'
<1>1. TypeOK /\ NoRecordsInTombstone
  BY DEF IInv
<1>2. /\ Finish(t) /\ UNCHANGED <<status, memory>>
      /\ job' = [n \in Codes |-> IF n \in Locked(t, "job") /\ job[n] = "claimed"
                                 THEN "queued" ELSE job[n]]
  BY DEF Fail
<1>3. /\ memory' \in [Codes -> {"none", "plain", "embedded"}]
      /\ job' \in [Codes -> {"none", "queued", "claimed", "done"}]
  BY <1>1, <1>2 DEF TypeOK
<1>4. \A n \in Codes : status[n] # "active" => memory'[n] = "none" /\ job'[n] = "none"
  BY <1>1, <1>2 DEF NoRecordsInTombstone
<1> QED BY <1>2, <1>3, <1>4, RecordsStep

\* A worker's claim of one job.
LEMMA ClaimStep ==
    ASSUME IInv, NEW n \in Codes, Claim(n)
    PROVE  IInv'
<1>1. TypeOK /\ NoRecordsInTombstone
  BY DEF IInv
<1>2. /\ job[n] # "none" /\ \E j \in {"none", "claimed"} : job' = [job EXCEPT ![n] = j]
      /\ UNCHANGED <<status, memory, pc, call, held, todo, plan>>
  BY DEF Claim
<1>3. TypeOK'
  BY <1>1, <1>2 DEF TypeOK
<1>4. \A u \in Txns : TxnOK(u)'
  BY <1>2, SameOK DEF IInv, Same
<1>5. Exclusion' /\ ActiveUnderActive'
  BY <1>2 DEF IInv, Exclusion, ActiveUnderActive
<1>6. NoRecordsInTombstone'
  BY <1>1, <1>2 DEF TypeOK, NoRecordsInTombstone
<1> QED BY <1>3, <1>4, <1>5, <1>6 DEF IInv

-----------------------------------------------------------------------------
\* IInv holds before anything has happened ...
LEMMA InitOK == Init => IInv
<1> SUFFICES ASSUME Init PROVE IInv
  OBVIOUS
<1>1. NoPlan \in Plan
  BY DEF NoPlan, Plan
<1>2. TypeOK
  BY <1>1 DEF Init, TypeOK
<1>3. \A t \in Txns : TxnOK(t)
  BY DEF Init, TxnOK, Called, Locking, Past, Writing, Deleting, Reconciling
<1>4. Exclusion /\ ActiveUnderActive /\ NoRecordsInTombstone
  BY DEF Init, Exclusion, ActiveUnderActive, NoRecordsInTombstone
<1> QED BY <1>2, <1>3, <1>4 DEF IInv

\* ... and every step keeps it.
LEMMA NextOK == IInv /\ [Next]_vars => IInv'
<1> SUFFICES ASSUME IInv, [Next]_vars PROVE IInv'
  OBVIOUS
<1>1. CASE UNCHANGED vars
  <2>1. TypeOK'
    BY <1>1 DEF IInv, vars, tables, TypeOK
  <2>2. \A u \in Txns : TxnOK(u)'
    BY <1>1, SameOK DEF IInv, vars, tables, Same
  <2>3. Exclusion' /\ ActiveUnderActive' /\ NoRecordsInTombstone'
    BY <1>1 DEF IInv, vars, tables, Exclusion, ActiveUnderActive, NoRecordsInTombstone
  <2> QED BY <2>1, <2>2, <2>3 DEF IInv
<1>2. ASSUME NEW t \in Txns, NEW c \in Calls, Begin(t, c) PROVE IInv'
  BY <1>2, BeginStep
<1>3. ASSUME NEW t \in Txns, Acquire(t) \/ Abort(t) PROVE IInv'
  BY <1>3, AcquireStep, AbortStep
<1>4. ASSUME NEW t \in Txns, Create(t) \/ AssertActive(t) \/ Enqueue(t) \/ Write(t) PROVE IInv'
  BY <1>4, CreateStep, AssertActiveStep, EnqueueStep, WriteStep
<1>5. ASSUME NEW t \in Txns, Examine(t) \/ LockMemories(t) \/ Count(t) \/ Purge(t) PROVE IInv'
  BY <1>5, ExamineStep, LockMemoriesStep, CountStep, PurgeStep
<1>6. ASSUME NEW t \in Txns, LockActive(t) \/ Requeue(t) \/ Reconcile(t) PROVE IInv'
  BY <1>6, LockActiveStep, RequeueStep, ReconcileStep
<1>7. ASSUME NEW t \in Txns, LockJob(t) \/ Own(t) \/ Complete(t) PROVE IInv'
  BY <1>7, LockJobStep, OwnStep, CompleteStep
<1>8. ASSUME NEW t \in Txns, FailBatch(t) \/ SkipJob(t) \/ Fail(t) PROVE IInv'
  BY <1>8, BatchStep, SkipJobStep, FailStep
<1>9. ASSUME NEW n \in Codes, Claim(n) PROVE IInv'
  BY <1>9, ClaimStep
<1> QED BY <1>1, <1>2, <1>3, <1>4, <1>5, <1>6, <1>7, <1>8, <1>9 DEF Next

\* What is true of every reachable state.
THEOREM Invariant == Spec => []IInv
BY InitOK, NextOK, PTL DEF Spec

\* The tables, the locks and the transactions are always well typed.
THEOREM TypeCorrect == Spec => []TypeOK
<1>1. IInv => TypeOK
  BY DEF IInv
<1> QED BY <1>1, Invariant, PTL

\* However creations and deletions interleave, what is above an active
\* namespace is active (CreateNamespace, DeleteNamespace).
THEOREM TreeWhole == Spec => []ActiveUnderActive
<1>1. IInv => ActiveUnderActive
  BY DEF IInv
<1> QED BY <1>1, Invariant, PTL

\* Whatever writes, completions and reconciliations were at work below it, a
\* deleted namespace has no records (deleteNamespaceRecords, assertNamespaceActive).
THEOREM TombstonesEmpty == Spec => []NoRecordsInTombstone
<1>1. IInv => NoRecordsInTombstone
  BY DEF IInv
<1> QED BY <1>1, Invariant, PTL

-----------------------------------------------------------------------------
\* The row locks.  A transaction has a row's lock for itself.
HasRow(t, kind, n) == <<<<kind, n>>, "exclusive">> \in held[t]

\* A mutation has its job's row when it writes.
WritingRows(t) ==
    pc[t] = "jobs" /\ call[t].op = "write" =>
        HasRow(t, "job", call[t].target) \/ <<"job", call[t].target>> \in todo[t]

\* A completion has its job's row, and once it has checked it the job is its own.
CompletingRows(t) ==
    LET n == call[t].target IN
    call[t].op = "complete" =>
        /\ pc[t] = "jobs" => HasRow(t, "job", n) \/ <<"job", n>> \in todo[t]
        /\ pc[t] = "memories" => HasRow(t, "job", n) /\ job[n] = "claimed"

\* A deletion gets the rows of its subtree and has them when it counts.
DeletingRows(t) ==
    /\ pc[t] = "counted" => call[t].op = "delete"
    /\ Past(t) /\ call[t].op = "delete" =>
        /\ \A n \in plan[t].subtree :
              job[n] # "none" => HasRow(t, "job", n) \/ (pc[t] = "jobs" /\ <<"job", n>> \in todo[t])
        /\ pc[t] = "counted" => plan[t].counted = RecordsOf(plan[t].subtree)

TxnRows(t) == WritingRows(t) /\ CompletingRows(t) /\ DeletingRows(t)
RowsInv == \A t \in Txns : TxnRows(t)

\* A row one transaction has is no lock of another's.
LEMMA RowExclusive ==
    ASSUME IInv, NEW t \in Txns, NEW u \in Txns \ {t}, NEW kind, NEW n, HasRow(t, kind, n)
    PROVE  \A l \in held[u] : l[1] # <<kind, n>>
BY DEF IInv, Exclusion, HasRow, Conflict

\* The subtrees of two deletions at work have nothing in common.
LEMMA SubtreesApart ==
    ASSUME IInv, NEW t \in Txns, NEW u \in Txns \ {t},
           Past(t), call[t].op = "delete", Past(u), call[u].op = "delete"
    PROVE  plan[t].subtree \cap plan[u].subtree = {}
<1> SUFFICES ASSUME NEW m \in plan[t].subtree, m \in plan[u].subtree PROVE FALSE
  OBVIOUS
<1> DEFINE a == call[t].target
           b == call[u].target
<1>1. PathHeld(t) /\ PathHeld(u) /\ m \in {a} \cup Below(a) /\ m \in {b} \cup Below(b)
  BY DEF IInv, TxnOK, Deleting
<1>2. m \in Codes
  BY SubtreeOK DEF IInv
<1>3. a \in Chain(m) /\ b \in Chain(m)
  BY <1>1 DEF Below, Chain
<1>4. a \in Codes /\ b \in Codes
  BY <1>2, <1>3, ChainIsPrefixes
<1>5. PICK i \in 1 .. Len(m), j \in 1 .. Len(m) : a = SubSeq(m, 1, i) /\ b = SubSeq(m, 1, j)
  BY <1>2, <1>3, ChainIsPrefixes
<1>6. Len(m) \in Nat /\ Len(a) = i /\ Len(b) = j
  BY <1>2, <1>5, CodeIsPath, Prefix
<1>7. a \notin Chain(b) /\ b \notin Chain(a)
  BY <1>1, Clash
<1>8. CASE i <= j
  <2>1. i \in 1 .. j /\ i \in 1 .. Len(b)
    BY <1>6, <1>8
  <2>2. a = SubSeq(b, 1, i)
    BY <1>2, <1>5, <2>1, PrefixOfPrefix
  <2> QED BY <1>4, <1>7, <2>1, <2>2, Prefix
<1>9. CASE j <= i
  <2>1. j \in 1 .. i /\ j \in 1 .. Len(a)
    BY <1>6, <1>9
  <2>2. b = SubSeq(a, 1, j)
    BY <1>2, <1>5, <2>1, PrefixOfPrefix
  <2> QED BY <1>4, <1>7, <2>1, <2>2, Prefix
<1> QED BY <1>6, <1>8, <1>9

\* What a step must leave to another transaction.
LEMMA RowsKept ==
    ASSUME IInv, RowsInv, NEW u \in Txns, Same(u),
           call[u].op = "complete" /\ pc[u] = "memories" =>
              job'[call[u].target] = job[call[u].target],
           Past(u) /\ call[u].op = "delete" =>
              \A n \in plan[u].subtree :
                 /\ job'[n] # "none" => job[n] # "none"
                 /\ pc[u] = "counted" =>
                       memory'[n] = memory[n] /\ (job'[n] = "none" <=> job[n] = "none")
    PROVE  TxnRows(u)'
<1>1. TxnRows(u)
  BY DEF RowsInv
<1>2. WritingRows(u)' /\ CompletingRows(u)'
  BY <1>1 DEF TxnRows, WritingRows, CompletingRows, HasRow, Same
<1>3. DeletingRows(u)'
  <2>1. SUFFICES ASSUME Past(u), call[u].op = "delete" PROVE DeletingRows(u)'
    BY <1>1 DEF TxnRows, DeletingRows, Past, Same
  <2>2. pc[u] = "counted" => RecordsOf(plan[u].subtree)' = RecordsOf(plan[u].subtree)
    BY <2>1 DEF RecordsOf, Same
  <2>3. \A n \in plan[u].subtree :
            job'[n] # "none" => HasRow(u, "job", n) \/ (pc[u] = "jobs" /\ <<"job", n>> \in todo[u])
    BY <1>1, <2>1 DEF TxnRows, DeletingRows
  <2>4. pc[u] = "counted" => plan[u].counted = RecordsOf(plan[u].subtree)'
    BY <1>1, <2>1, <2>2 DEF TxnRows, DeletingRows
  <2> QED BY <2>1, <2>3, <2>4 DEF DeletingRows, Same, HasRow
<1> QED BY <1>2, <1>3 DEF TxnRows

\* What a transaction works on is among the codes.
LEMMA TargetsOK ==
    ASSUME IInv, NEW u \in Txns
    PROVE  /\ plan[u].subtree \in SUBSET Codes
           /\ call[u].op = "complete" /\ pc[u] = "memories" => call[u].target \in Codes
<1>1. plan[u].subtree \in SUBSET Codes
  BY SubtreeOK DEF IInv
<1>2. call[u].op = "complete" /\ pc[u] = "memories" => call[u].target \in Codes
  BY NamespaceLocksAssumption DEF IInv, TxnOK, Called, Call
<1> QED BY <1>1, <1>2

\* A transaction that has ended has no obligations.
LEMMA RowsOfEnded ==
    ASSUME NEW t \in Txns, pc'[t] \in {"idle", "locking"}
    PROVE  TxnRows(t)'
BY DEF TxnRows, WritingRows, CompletingRows, DeletingRows, Past

\* A step of one transaction that changes no record.
LEMMA RowsQuiet ==
    ASSUME IInv, RowsInv, NEW t \in Txns, \A u \in Txns \ {t} : Same(u),
           memory' = memory, job' = job, TxnRows(t)'
    PROVE  RowsInv'
<1>1. \A u \in Txns \ {t} : TxnRows(u)'
  BY RowsKept
<1> QED BY <1>1 DEF RowsInv

\* A transaction goes on to the rows of its next statement, with what it has read.
LEMMA GotoRows ==
    ASSUME IInv, RowsInv, NEW t \in Txns, NEW step, NEW rows, Goto(t, step, rows),
           UNCHANGED <<tables, call, held, plan>>
    PROVE  /\ pc'[t] = step /\ todo'[t] = rows /\ plan'[t] = plan[t]
           /\ call'[t] = call[t] /\ held'[t] = held[t]
           /\ memory' = memory /\ job' = job
           /\ TxnRows(t)' => RowsInv'
<1>1. TypeOK
  BY DEF IInv
<1>2. pc'[t] = step /\ todo'[t] = rows
  BY <1>1 DEF TypeOK, Goto
<1>3. /\ plan'[t] = plan[t] /\ call'[t] = call[t] /\ held'[t] = held[t]
      /\ memory' = memory /\ job' = job
  BY DEF tables
<1>4. \A u \in Txns \ {t} : Same(u)
  BY <1>1 DEF TypeOK, Goto, Same
<1> QED BY <1>2, <1>3, <1>4, RowsQuiet

-----------------------------------------------------------------------------
\* The steps of mutations, creations and completions that change no record.
LEMMA RowsOfLocking ==
    ASSUME IInv, RowsInv, NEW t \in Txns,
           (\E c \in Calls : Begin(t, c)) \/ Abort(t) \/ Create(t)
    PROVE  RowsInv'
<1>1. /\ pc'[t] \in {"idle", "locking"} /\ memory' = memory /\ job' = job
      /\ \A u \in Txns \ {t} : Same(u)
  BY DEF IInv, TypeOK, Begin, Abort, Create, Finish, Goto, Same, tables
<1> QED BY <1>1, RowsOfEnded, RowsQuiet

\* A row that is granted is held instead of wanted: RowsInv is kept.
LEMMA RowsOfAcquire ==
    ASSUME IInv, RowsInv, NEW t \in Txns, Acquire(t)
    PROVE  RowsInv'
<1>1. TypeOK /\ TxnOK(t) /\ TxnRows(t)
  BY DEF IInv, RowsInv
<1>2. PICK l \in Wanted(t) :
        /\ held' = [held EXCEPT ![t] = @ \cup {l}]
        /\ todo' = [todo EXCEPT ![t] = @ \ {l[1]}]
        /\ UNCHANGED <<tables, pc, call, plan>>
  BY DEF Acquire
<1>3. /\ held'[t] = held[t] \cup {l} /\ todo'[t] = todo[t] \ {l[1]} /\ pc'[t] = pc[t]
      /\ call'[t] = call[t] /\ plan'[t] = plan[t] /\ memory' = memory /\ job' = job
  BY <1>1, <1>2 DEF TypeOK, tables
<1>4. \A u \in Txns \ {t} : Same(u)
  BY <1>1, <1>2 DEF TypeOK, Same
<1>5. CASE pc[t] = "locking"
  <2>1. TxnRows(t)'
    BY <1>3, <1>5, RowsOfEnded
  <2> QED BY <1>3, <1>4, <2>1, RowsQuiet
<1>6. CASE pc[t] # "locking"
  <2>1. \A kind, n : <<kind, n>> \in todo[t] => <<kind, n>> \in todo'[t] \/ HasRow(t, kind, n)'
    <3>1. PICK row \in todo[t] : l = <<row, "exclusive">>
      BY <1>2, <1>6 DEF Wanted
    <3> QED BY <1>3, <3>1 DEF HasRow
  <2>2. \A kind, n : HasRow(t, kind, n) => HasRow(t, kind, n)'
    BY <1>3 DEF HasRow
  <2>3. WritingRows(t)' /\ CompletingRows(t)'
    BY <1>1, <1>3, <2>1, <2>2 DEF TxnRows, WritingRows, CompletingRows
  <2>4. DeletingRows(t)'
    <3>1. RecordsOf(plan[t].subtree)' = RecordsOf(plan[t].subtree)
      BY <1>3 DEF RecordsOf
    <3> QED BY <1>1, <1>3, <2>1, <2>2, <3>1 DEF TxnRows, DeletingRows, Past
  <2> QED BY <1>3, <1>4, <2>3, <2>4, RowsQuiet DEF TxnRows
<1> QED BY <1>5, <1>6

\* The statements of mutations, reconciliations and completions that only go on.
LEMMA RowsOfWriting ==
    ASSUME IInv, RowsInv, NEW t \in Txns, AssertActive(t) \/ Enqueue(t)
    PROVE  RowsInv'
<1> DEFINE n == call[t].target
<1>1. PICK step, rows :
        /\ call[t].op = "write" /\ Goto(t, step, rows)
        /\ step = "jobs" => <<"job", n>> \in rows
        /\ step # "counted"
        /\ UNCHANGED <<tables, call, held, plan>>
  <2>1. CASE AssertActive(t)
    BY <2>1 DEF AssertActive, At
  <2>2. CASE Enqueue(t)
    BY <2>2 DEF Enqueue, At
  <2> QED BY <2>1, <2>2
<1>3. /\ pc'[t] = step /\ todo'[t] = rows /\ call'[t] = call[t]
      /\ TxnRows(t)' => RowsInv'
  BY <1>1, GotoRows
<1> QED BY <1>1, <1>3 DEF TxnRows, WritingRows, CompletingRows, DeletingRows

\* A reconciliation before its writes keeps RowsInv.
LEMMA RowsOfReconciling ==
    ASSUME IInv, RowsInv, NEW t \in Txns, LockActive(t) \/ Requeue(t)
    PROVE  RowsInv'
<1>1. /\ call[t].op = "reconcile" /\ pc'[t] # "counted"
      /\ call' = call /\ memory' = memory /\ job' = job
      /\ \A u \in Txns \ {t} : Same(u)
  BY DEF IInv, TypeOK, LockActive, Requeue, At, Goto, Same, tables
<1>2. TxnRows(t)'
  BY <1>1 DEF TxnRows, WritingRows, CompletingRows, DeletingRows
<1> QED BY <1>1, <1>2, RowsQuiet

\* A completion wants its job's row first ...
LEMMA RowsOfLockJob ==
    ASSUME IInv, RowsInv, NEW t \in Txns, LockJob(t)
    PROVE  RowsInv'
<1> DEFINE n == call[t].target
           rows == {<<"job", n>>}
<1>1. /\ call[t].op = "complete" /\ Goto(t, "jobs", rows)
      /\ UNCHANGED <<tables, call, held, plan>>
  BY DEF LockJob, At
<1>2. <<"job", n>> \in rows
  OBVIOUS
<1> HIDE DEF rows
<1>3. /\ pc'[t] = "jobs" /\ todo'[t] = rows /\ call'[t] = call[t]
      /\ TxnRows(t)' => RowsInv'
  BY <1>1, GotoRows
<1> QED BY <1>1, <1>2, <1>3 DEF TxnRows, WritingRows, CompletingRows, DeletingRows

\* A statement past the advisory locks that waits for no row has them all.
LEMMA NothingToDo ==
    ASSUME NEW t \in Txns, Past(t), Wanted(t) = {}
    PROVE  todo[t] = {}
<1>1. pc[t] # "locking"
  BY DEF Past
<1> QED BY <1>1 DEF Wanted

\* ... has it when it checks the job, and the job is its own from then on.
LEMMA RowsOfOwn ==
    ASSUME IInv, RowsInv, NEW t \in Txns, Own(t)
    PROVE  RowsInv'
<1> DEFINE n == call[t].target
           rows == {<<"memory", n>>}
<1>1. /\ call[t].op = "complete" /\ pc[t] = "jobs" /\ todo[t] = {} /\ job[n] = "claimed"
      /\ Goto(t, "memories", rows)
      /\ UNCHANGED <<tables, call, held, plan>>
  BY NothingToDo DEF Own, At, Past
<1> HIDE DEF rows
<1>3. /\ pc'[t] = "memories" /\ call'[t] = call[t] /\ held'[t] = held[t] /\ job' = job
      /\ TxnRows(t)' => RowsInv'
  BY <1>1, GotoRows
<1>4. HasRow(t, "job", n)
  BY <1>1 DEF RowsInv, TxnRows, CompletingRows
<1>5. CompletingRows(t)'
  BY <1>1, <1>3, <1>4 DEF CompletingRows, HasRow
<1> QED BY <1>1, <1>3, <1>5 DEF TxnRows, WritingRows, DeletingRows

-----------------------------------------------------------------------------
\* The statements of a deletion.
LEMMA RowsOfExamine ==
    ASSUME IInv, RowsInv, NEW t \in Txns, Examine(t)
    PROVE  RowsInv'
<1>1. PICK subtree, p :
        /\ call[t].op = "delete" /\ plan' = [plan EXCEPT ![t] = p] /\ p.subtree = subtree
        /\ Goto(t, "jobs", RowsOf(RecordOrder[1], subtree)) /\ subtree \in SUBSET Codes
        /\ UNCHANGED <<tables, call, held>>
  <2> DEFINE n == call[t].target
             tree == IF call[t].recursive THEN {n} \cup {m \in Below(n) : status[m] # "none"}
                                          ELSE {n}
             q == [subtree |-> tree, counted |-> {},
                   descendants |-> \E m \in Below(n) : status[m] = "active"]
  <2>1. call[t].op = "delete" /\ pc[t] = "locking" /\ Wanted(t) = {}
    BY DEF Examine, At
  <2>2. n \in Codes
    BY <2>1, ScriptHoldsPath DEF IInv
  <2>3. tree \in SUBSET Codes
    BY <2>2 DEF Below
  <2>4. q.subtree = tree
    OBVIOUS
  <2>5. /\ plan' = [plan EXCEPT ![t] = q] /\ Goto(t, "jobs", RowsOf(RecordOrder[1], tree))
        /\ UNCHANGED <<tables, call, held>>
    BY DEF Examine
  <2> HIDE DEF q, tree
  <2> QED BY <2>1, <2>3, <2>4, <2>5
<1> DEFINE rows == RowsOf(RecordOrder[1], subtree)
<1>2. \A n \in subtree : job[n] # "none" => <<"job", n>> \in rows
  BY DEF RowsOf, RecordOrder
<1> HIDE DEF rows
<1>3. /\ pc'[t] = "jobs" /\ todo'[t] = rows /\ plan'[t].subtree = subtree
      /\ call'[t] = call[t] /\ memory' = memory /\ job' = job
      /\ \A u \in Txns \ {t} : Same(u)
  BY <1>1 DEF IInv, TypeOK, Goto, Same, tables, rows
<1>4. TxnRows(t)'
  BY <1>1, <1>2, <1>3 DEF TxnRows, WritingRows, CompletingRows, DeletingRows
<1> QED BY <1>3, <1>4, RowsQuiet

\* When a deletion goes on to the memories it has the jobs of its subtree.
LEMMA RowsOfLockMemories ==
    ASSUME IInv, RowsInv, NEW t \in Txns, LockMemories(t)
    PROVE  RowsInv'
<1> DEFINE rows == RowsOf(RecordOrder[2], plan[t].subtree)
<1>1. /\ call[t].op = "delete" /\ Past(t) /\ todo[t] = {} /\ Goto(t, "memories", rows)
      /\ UNCHANGED <<tables, call, held, plan>>
  BY NothingToDo DEF LockMemories, At, Past
<1> HIDE DEF rows
<1>2. /\ pc'[t] = "memories" /\ plan'[t] = plan[t] /\ call'[t] = call[t] /\ held'[t] = held[t]
      /\ job' = job
      /\ TxnRows(t)' => RowsInv'
  BY <1>1, GotoRows
<1>3. \A n \in plan[t].subtree : job[n] # "none" => HasRow(t, "job", n)
  BY <1>1 DEF RowsInv, TxnRows, DeletingRows
<1>4. DeletingRows(t)'
  BY <1>2, <1>3 DEF DeletingRows, HasRow
<1> QED BY <1>1, <1>2, <1>4 DEF TxnRows, WritingRows, CompletingRows

\* When it counts, the counts are the records.
LEMMA RowsOfCount ==
    ASSUME IInv, RowsInv, NEW t \in Txns, Count(t)
    PROVE  RowsInv'
<1> DEFINE records == RecordsOf(plan[t].subtree)
<1>1. /\ call[t].op = "delete" /\ Past(t) /\ todo[t] = {} /\ Goto(t, "counted", {})
      /\ plan' = [plan EXCEPT ![t].counted = records]
      /\ UNCHANGED <<tables, call, held>>
  BY NothingToDo DEF Count, At, Past
<1> HIDE DEF records
<1>2. /\ pc'[t] = "counted" /\ call'[t] = call[t] /\ held'[t] = held[t]
      /\ plan'[t].subtree = plan[t].subtree /\ plan'[t].counted = records
      /\ memory' = memory /\ job' = job
      /\ \A u \in Txns \ {t} : Same(u)
  BY <1>1 DEF IInv, TypeOK, Plan, Goto, Same, tables
<1>3. \A n \in plan[t].subtree : job[n] # "none" => HasRow(t, "job", n)
  BY <1>1 DEF RowsInv, TxnRows, DeletingRows
<1>4. RecordsOf(plan[t].subtree)' = records
  BY <1>2 DEF RecordsOf, records
<1>5. DeletingRows(t)'
  BY <1>1, <1>2, <1>3, <1>4 DEF DeletingRows, HasRow
<1> QED BY <1>1, <1>2, <1>5, RowsQuiet DEF TxnRows, WritingRows, CompletingRows

-----------------------------------------------------------------------------
\* The steps that change records, and what they leave to the others.
LEMMA RowsOfWrite ==
    ASSUME IInv, RowsInv, NEW t \in Txns, Write(t)
    PROVE  RowsInv'
<1> DEFINE n == call[t].target
<1>1. TypeOK /\ TxnOK(t)
  BY DEF IInv
<1>2. /\ call[t].op = "write" /\ pc[t] = "jobs" /\ Past(t) /\ todo[t] = {} /\ Finish(t)
      /\ memory' = [memory EXCEPT ![n] = "plain"] /\ job' = [job EXCEPT ![n] = "queued"]
  BY NothingToDo DEF Write, At, Past
<1>3. \A m \in Codes : m # n => memory'[m] = memory[m] /\ job'[m] = job[m]
  BY <1>1, <1>2 DEF TypeOK
<1>4. HasRow(t, "job", n) /\ PathHeld(t)
  BY <1>1, <1>2 DEF RowsInv, TxnRows, WritingRows, TxnOK, Writing
<1>5. ASSUME NEW u \in Txns \ {t} PROVE TxnRows(u)'
  <2>1. Same(u) /\ TxnRows(u) /\ TxnOK(u)
    BY <1>1, <1>2, FinishOK DEF IInv, RowsInv
  <2>2. call[u].op = "complete" /\ pc[u] = "memories" => call[u].target # n
    BY <1>4, <2>1, RowExclusive DEF TxnRows, CompletingRows, HasRow
  <2>3. Past(u) /\ call[u].op = "delete" => n \notin plan[u].subtree
    <3>1. SUFFICES ASSUME Past(u), call[u].op = "delete", n \in plan[u].subtree PROVE FALSE
      OBVIOUS
    <3>2. call[u].target \notin Chain(n)
      BY <1>4, <3>1, Clash
    <3>3. n \in {call[u].target} \cup Below(call[u].target)
      BY <2>1, <3>1 DEF TxnOK, Deleting
    <3> QED BY <3>2, <3>3 DEF Below, Chain
  <2> QED BY <1>3, <2>1, <2>2, <2>3, TargetsOK, RowsKept
<1>6. TxnRows(t)'
  BY <1>1, <1>2, RowsOfEnded DEF TypeOK, Finish, Goto
<1> QED BY <1>5, <1>6 DEF RowsInv

\* A purge takes no job from a completion that has checked it, and nothing from
\* another deletion's subtree.
LEMMA RowsOfPurge ==
    ASSUME IInv, RowsInv, NEW t \in Txns, Purge(t)
    PROVE  RowsInv'
<1> DEFINE purged == plan[t].subtree
<1>1. TypeOK
  BY DEF IInv
<1>2. /\ call[t].op = "delete" /\ pc[t] = "counted" /\ Past(t) /\ Finish(t)
      /\ memory' = [m \in Codes |-> IF m \in purged THEN "none" ELSE memory[m]]
      /\ job' = [m \in Codes |-> IF m \in purged THEN "none" ELSE job[m]]
  BY DEF Purge, At, Past
<1>3. \A m \in Codes \ purged : memory'[m] = memory[m] /\ job'[m] = job[m]
  BY <1>2
<1>4. \A m \in purged : job[m] # "none" => HasRow(t, "job", m)
  BY <1>2 DEF RowsInv, TxnRows, DeletingRows
<1>5. ASSUME NEW u \in Txns \ {t} PROVE TxnRows(u)'
  <2>1. Same(u) /\ TxnRows(u) /\ TxnOK(u)
    BY <1>1, <1>2, FinishOK DEF IInv, RowsInv
  <2>2. ASSUME call[u].op = "complete", pc[u] = "memories"
        PROVE  call[u].target \in Codes \ purged
    <3>1. HasRow(u, "job", call[u].target) /\ job[call[u].target] = "claimed"
      BY <2>1, <2>2 DEF TxnRows, CompletingRows
    <3>2. call[u].target \notin purged
      BY <1>4, <3>1, RowExclusive DEF HasRow
    <3>3. call[u].target \in Codes
      BY <2>1, <2>2, NamespaceLocksAssumption DEF TxnOK, Called, Call
    <3> QED BY <3>2, <3>3
  <2>3. Past(u) /\ call[u].op = "delete" => plan[u].subtree \subseteq Codes \ purged
    BY <1>1, <1>2, SubtreesApart, SubtreeOK
  <2> QED BY <1>3, <2>1, <2>2, <2>3, RowsKept
<1>6. TxnRows(t)'
  BY <1>1, <1>2, RowsOfEnded DEF TypeOK, Finish, Goto
<1> QED BY <1>5, <1>6 DEF RowsInv

\* A reconciliation writes rows it holds, in no subtree of a deletion.
LEMMA RowsOfReconcile ==
    ASSUME IInv, RowsInv, NEW t \in Txns, Reconcile(t)
    PROVE  RowsInv'
<1> DEFINE locked == Locked(t, "memory") \cup Locked(t, "job")
<1>1. TypeOK /\ TxnOK(t)
  BY DEF IInv
<1>2. /\ call[t].op = "reconcile" /\ Past(t) /\ Finish(t)
      /\ memory' = [n \in Codes |-> IF n \in Locked(t, "memory") THEN "plain" ELSE memory[n]]
      /\ job' = [n \in Codes |-> IF n \in Locked(t, "job") THEN "queued" ELSE job[n]]
  BY DEF Reconcile, At, Past
<1>3. /\ \A n \in Codes \ locked : memory'[n] = memory[n] /\ job'[n] = job[n]
      /\ \A n \in Codes \ Locked(t, "job") : job'[n] = job[n]
  BY <1>2
<1>4. locked \subseteq plan[t].subtree
  <2>1. SUFFICES ASSUME NEW n \in locked PROVE n \in plan[t].subtree
    OBVIOUS
  <2>2. PICK l \in held[t] : l[1] \in {<<"memory", n>>, <<"job", n>>}
    BY <2>1 DEF Locked
  <2>3. l[1][1] \in {"memory", "job"} /\ l[1][2] = n
    BY <2>2
  <2> QED BY <1>1, <1>2, <2>3 DEF TxnOK, Reconciling
<1>5. ASSUME NEW u \in Txns \ {t} PROVE TxnRows(u)'
  <2>1. Same(u) /\ TxnRows(u) /\ TxnOK(u)
    BY <1>1, <1>2, FinishOK DEF IInv, RowsInv
  <2>2. ASSUME call[u].op = "complete", pc[u] = "memories"
        PROVE  call[u].target \in Codes \ Locked(t, "job")
    <3>1. HasRow(u, "job", call[u].target)
      BY <2>1, <2>2 DEF TxnRows, CompletingRows
    <3>2. call[u].target \notin Locked(t, "job")
      BY <3>1, RowExclusive DEF Locked
    <3>3. call[u].target \in Codes
      BY <2>1, <2>2, NamespaceLocksAssumption DEF TxnOK, Called, Call
    <3> QED BY <3>2, <3>3
  <2>3. Past(u) /\ call[u].op = "delete" => plan[u].subtree \subseteq Codes \ locked
    <3>1. SUFFICES ASSUME Past(u), call[u].op = "delete", NEW n \in plan[u].subtree, n \in locked
                   PROVE  FALSE
      BY <1>1, SubtreeOK
    <3>2. call[u].target \notin Chain(n)
      BY <1>2, <1>4, <3>1, ClashReconcile
    <3>3. n \in {call[u].target} \cup Below(call[u].target)
      BY <2>1, <3>1 DEF TxnOK, Deleting
    <3> QED BY <3>2, <3>3 DEF Below, Chain
  <2> HIDE DEF locked
  <2> QED BY <1>3, <2>1, <2>2, <2>3, RowsKept
<1>6. TxnRows(t)'
  BY <1>1, <1>2, RowsOfEnded DEF TypeOK, Finish, Goto
<1> QED BY <1>5, <1>6 DEF RowsInv

\* A completion has its job's row, so no deletion has counted it.
LEMMA RowsOfComplete ==
    ASSUME IInv, RowsInv, NEW t \in Txns, Complete(t)
    PROVE  RowsInv'
<1> DEFINE n == call[t].target
<1>1. TypeOK /\ TxnRows(t)
  BY DEF IInv, RowsInv
<1>2. call[t].op = "complete" /\ pc[t] = "memories" /\ Finish(t)
  BY DEF Complete, At
<1>3. \A m \in Codes : m # n => memory'[m] = memory[m] /\ job'[m] = job[m]
  BY <1>1 DEF TypeOK, Complete
<1>4. HasRow(t, "job", n) /\ job[n] = "claimed"
  BY <1>1, <1>2 DEF TxnRows, CompletingRows
<1>5. ASSUME NEW u \in Txns \ {t} PROVE TxnRows(u)'
  <2>1. Same(u) /\ TxnRows(u)
    BY <1>1, <1>2, FinishOK DEF RowsInv
  <2>2. \A m : ~ (HasRow(u, "job", m) /\ m = n)
    BY <1>4, RowExclusive DEF HasRow
  <2>3. call[u].op = "complete" /\ pc[u] = "memories" => call[u].target # n
    BY <2>1, <2>2 DEF TxnRows, CompletingRows
  <2>4. Past(u) /\ call[u].op = "delete" /\ pc[u] = "counted" => n \notin plan[u].subtree
    BY <1>4, <2>1, <2>2 DEF TxnRows, DeletingRows
  <2>5. \A m \in Codes : job'[m] # "none" => job[m] # "none"
    BY <1>3, <1>4
  <2> QED BY <1>3, <2>1, <2>3, <2>4, <2>5, TargetsOK, RowsKept
<1>6. TxnRows(t)'
  BY <1>1, <1>2, RowsOfEnded DEF TypeOK, Finish, Goto
<1> QED BY <1>5, <1>6 DEF RowsInv

\* A batch that failed has obligations to nobody before it writes ...
LEMMA RowsOfBatch ==
    ASSUME IInv, RowsInv, NEW t \in Txns, FailBatch(t) \/ SkipJob(t)
    PROVE  RowsInv'
<1>1. /\ call[t].op = "fail" /\ pc'[t] = "jobs" /\ call' = call
      /\ memory' = memory /\ job' = job
      /\ \A u \in Txns \ {t} : Same(u)
  BY DEF IInv, TypeOK, FailBatch, SkipJob, At, Goto, Same, tables
<1>2. TxnRows(t)'
  BY <1>1 DEF TxnRows, WritingRows, CompletingRows, DeletingRows
<1> QED BY <1>1, <1>2, RowsQuiet

\* ... and then takes a job from no completion, which has its row, and none away.
LEMMA RowsOfFail ==
    ASSUME IInv, RowsInv, NEW t \in Txns, Fail(t)
    PROVE  RowsInv'
<1>1. TypeOK
  BY DEF IInv
<1>2. /\ Finish(t) /\ memory' = memory
      /\ job' = [n \in Codes |-> IF n \in Locked(t, "job") /\ job[n] = "claimed"
                                 THEN "queued" ELSE job[n]]
  BY DEF Fail
<1>3. /\ \A n \in Codes \ Locked(t, "job") : job'[n] = job[n]
      /\ \A n \in Codes : job'[n] = "none" <=> job[n] = "none"
  BY <1>2
<1>4. ASSUME NEW u \in Txns \ {t} PROVE TxnRows(u)'
  <2>1. Same(u) /\ TxnRows(u) /\ TxnOK(u)
    BY <1>1, <1>2, FinishOK DEF IInv, RowsInv
  <2>2. ASSUME call[u].op = "complete", pc[u] = "memories"
        PROVE  call[u].target \in Codes \ Locked(t, "job")
    <3>1. HasRow(u, "job", call[u].target)
      BY <2>1, <2>2 DEF TxnRows, CompletingRows
    <3>2. call[u].target \notin Locked(t, "job")
      BY <3>1, RowExclusive DEF Locked
    <3>3. call[u].target \in Codes
      BY <2>1, <2>2, NamespaceLocksAssumption DEF TxnOK, Called, Call
    <3> QED BY <3>2, <3>3
  <2> QED BY <1>2, <1>3, <2>1, <2>2, TargetsOK, RowsKept
<1>5. TxnRows(t)'
  BY <1>1, <1>2, RowsOfEnded DEF TypeOK, Finish, Goto
<1> QED BY <1>4, <1>5 DEF RowsInv

\* Workers skip the rows that are locked.
LEMMA RowsOfClaim ==
    ASSUME IInv, RowsInv, NEW n \in Codes, Claim(n)
    PROVE  RowsInv'
<1>1. /\ job[n] # "none" /\ Unlocked(<<"job", n>>) /\ memory' = memory
      /\ \A m \in Codes : m # n => job'[m] = job[m]
      /\ \A u \in Txns : Same(u)
  <2>1. /\ job[n] # "none" /\ Unlocked(<<"job", n>>)
        /\ \E j : job' = [job EXCEPT ![n] = j]
        /\ UNCHANGED <<status, memory, pc, call, held, todo, plan>>
    BY DEF Claim
  <2>2. \A m \in Codes : m # n => job'[m] = job[m]
    BY <2>1 DEF IInv, TypeOK
  <2>3. \A u \in Txns : Same(u)
    BY <2>1 DEF Same
  <2> QED BY <2>1, <2>2, <2>3
<1>2. \A u \in Txns : ~ HasRow(u, "job", n)
  BY <1>1 DEF Unlocked, HasRow
<1>3. ASSUME NEW u \in Txns PROVE TxnRows(u)'
  <2>1. Same(u) /\ TxnRows(u)
    BY <1>1 DEF RowsInv
  <2>2. call[u].op = "complete" /\ pc[u] = "memories" => call[u].target # n
    BY <1>2, <2>1 DEF TxnRows, CompletingRows
  <2>3. Past(u) /\ call[u].op = "delete" /\ pc[u] = "counted" => n \notin plan[u].subtree
    BY <1>1, <1>2, <2>1 DEF TxnRows, DeletingRows
  <2>4. \A m \in Codes : job'[m] # "none" => job[m] # "none"
    BY <1>1
  <2> QED BY <1>1, <2>1, <2>2, <2>3, <2>4, TargetsOK, RowsKept
<1> QED BY <1>3 DEF RowsInv

-----------------------------------------------------------------------------
\* Every step keeps RowsInv.
LEMMA RowsNext == IInv /\ RowsInv /\ [Next]_vars => RowsInv'
<1> SUFFICES ASSUME IInv, RowsInv, [Next]_vars PROVE RowsInv'
  OBVIOUS
<1>1. CASE UNCHANGED vars
  <2>1. memory' = memory /\ job' = job /\ \A u \in Txns : Same(u)
    BY <1>1 DEF vars, Same
  <2> QED BY <2>1, RowsKept DEF RowsInv
<1>2. ASSUME NEW t \in Txns, (\E c \in Calls : Begin(t, c)) \/ Abort(t) \/ Create(t) PROVE RowsInv'
  BY <1>2, RowsOfLocking
<1>3. ASSUME NEW t \in Txns, Acquire(t) PROVE RowsInv'
  BY <1>3, RowsOfAcquire
<1>4. ASSUME NEW t \in Txns, AssertActive(t) \/ Enqueue(t) \/ Write(t) PROVE RowsInv'
  BY <1>4, RowsOfWriting, RowsOfWrite
<1>5. ASSUME NEW t \in Txns, Examine(t) \/ LockMemories(t) \/ Count(t) \/ Purge(t) PROVE RowsInv'
  BY <1>5, RowsOfExamine, RowsOfLockMemories, RowsOfCount, RowsOfPurge
<1>6. ASSUME NEW t \in Txns, LockActive(t) \/ Requeue(t) \/ Reconcile(t) PROVE RowsInv'
  BY <1>6, RowsOfReconciling, RowsOfReconcile
<1>7. ASSUME NEW t \in Txns, LockJob(t) \/ Own(t) \/ Complete(t) PROVE RowsInv'
  BY <1>7, RowsOfLockJob, RowsOfOwn, RowsOfComplete
<1>8. ASSUME NEW t \in Txns, FailBatch(t) \/ SkipJob(t) \/ Fail(t) PROVE RowsInv'
  BY <1>8, RowsOfBatch, RowsOfFail
<1>9. ASSUME NEW n \in Codes, Claim(n) PROVE RowsInv'
  BY <1>9, RowsOfClaim
<1> QED BY <1>1, <1>2, <1>3, <1>4, <1>5, <1>6, <1>7, <1>8, <1>9 DEF Next

\* The counts a deletion returns are the records it removes, with workers running
\* all the while (lockNamespaceRecords, countNamespaceRecords).
THEOREM CountsExact == Spec => []CountsAreExact
<1>1. Init => RowsInv
  BY DEF Init, RowsInv, TxnRows, WritingRows, CompletingRows, DeletingRows, Past, NoCall
<1>2. RowsInv /\ IInv => CountsAreExact
  <2>1. SUFFICES ASSUME RowsInv, IInv, NEW t \in Txns, pc[t] = "counted"
                 PROVE  plan[t].counted = RecordsOf(plan[t].subtree)
    BY DEF CountsAreExact
  <2>2. call[t].op = "delete"
    BY <2>1 DEF RowsInv, TxnRows, DeletingRows
  <2> QED BY <2>1, <2>2 DEF RowsInv, TxnRows, DeletingRows, Past
<1> QED BY <1>1, <1>2, Invariant, RowsNext, PTL DEF Spec

-----------------------------------------------------------------------------
\* The order in which a transaction locks rows: a mutation the memory before the
\* job, a completion the job before the memory, a deletion the jobs of its subtree
\* before the memories.  Each holds the catalog meanwhile, but the completion.  A
\* batch that failed takes its jobs in no order, so nothing is said of it.
RowsIn(locks) == {l[1] : l \in {k \in locks : k[1] \in Rows}}

Ordered(at, c, locks, rows, p) ==
    LET past == at \in {"jobs", "memories", "counted"}
        all == RowsIn(locks) \cup rows
        memoryRow == <<"memory", c.target>>
        jobRow == <<"job", c.target>>
    IN  /\ \A l \in locks : l[1] \in Rows => l[2] = "exclusive"
        /\ ~past => RowsIn(locks) = {} /\ rows = {}
        /\ at = "counted" => rows = {}
        /\ past => c.op \in {"write", "delete", "reconcile", "complete", "fail"}
        /\ past /\ c.op \in {"write", "delete"} => <<<<"catalog">>, "shared">> \in locks
        /\ past /\ c.op = "reconcile" => <<<<"catalog">>, "exclusive">> \in locks
        /\ past /\ c.op = "write" =>
              /\ all \subseteq {memoryRow, jobRow} /\ RowsIn(locks) \cap rows = {}
              /\ at = "memories" => memoryRow \in all /\ jobRow \notin all
              /\ at = "jobs" => memoryRow \in RowsIn(locks)
        /\ past /\ c.op = "complete" =>
              /\ all \subseteq {memoryRow, jobRow} /\ RowsIn(locks) \cap rows = {}
              /\ at = "jobs" => jobRow \in all /\ memoryRow \notin all
              /\ at = "memories" => jobRow \in RowsIn(locks)
        /\ past /\ c.op = "delete" =>
              /\ \A row \in all : row[2] \in p.subtree
              /\ at = "jobs" => \A row \in all : row[1] = "job"
              /\ at = "memories" => \A row \in rows : row[1] = "memory"

TxnOrdered(t) == Ordered(pc[t], call[t], held[t], todo[t], plan[t])
OrderInv == \A t \in Txns : TxnOrdered(t)

\* The place of a lock in a script is the depth of what it names.
LEMMA ScriptDepth ==
    ASSUME NEW c \in Call, NEW i \in 1 .. Len(Script(c))
    PROVE  \/ i = 1 /\ Script(c)[i][1] = <<"catalog">>
           \/ /\ i > 1
              /\ \E q \in Codes : Script(c)[i][1] = <<"namespace", q>> /\ Len(q) = i - 1
<1>1. CASE c.op \in {"complete", "fail"}
  BY <1>1 DEF Script
<1>2. CASE c.op = "reconcile"
  <2>1. Script(c) = << <<<<"catalog">>, "exclusive">> >>
    BY <1>2 DEF Script
  <2>2. Len(Script(c)) = 1 /\ Script(c)[1][1] = <<"catalog">>
    BY <2>1
  <2> QED BY <2>2
<1>3. CASE c.op \in {"write", "create", "delete"}
  <2> DEFINE n == c.target
  <2>1. /\ n \in Codes /\ Len(n) \in Nat
        /\ Len(Script(c)) = Len(n) + 1
        /\ Script(c)[1] = <<<<"catalog">>, "shared">>
        /\ \A j \in 1 .. Len(n) : Script(c)[j + 1] = LockOf(c, j)
    BY <1>3, ScriptShape, CodeIsPath
  <2>2. CASE i = 1
    <3>1. Script(c)[i][1] = <<"catalog">>
      BY <2>1, <2>2
    <3> QED BY <2>2, <3>1
  <2>3. CASE i # 1
    <3> DEFINE j == i - 1
    <3>1. j \in 1 .. Len(n) /\ j + 1 = i
      BY <2>1, <2>3
    <3>2. Script(c)[j + 1] = LockOf(c, j)
      BY <2>1, <3>1, Zenon
    <3>3. /\ SubSeq(n, 1, j) \in Codes /\ Len(SubSeq(n, 1, j)) = j
      BY <2>1, <3>1, Prefix
    <3>4. Script(c)[i][1] = <<"namespace", SubSeq(n, 1, j)>>
      BY <3>1, <3>2 DEF LockOf
    <3>5. i > 1 /\ Len(SubSeq(n, 1, j)) = i - 1
      BY <2>3, <3>3
    <3> HIDE DEF j, n
    <3> QED BY <3>3, <3>4, <3>5
  <2> QED BY <2>2, <2>3
<1> QED BY <1>1, <1>2, <1>3 DEF Call

LEMMA ScriptPlace ==
    ASSUME NEW c \in Call, NEW i \in 1 .. Len(Script(c)),
           NEW d \in Call, NEW j \in 1 .. Len(Script(d)), Script(c)[i][1] = Script(d)[j][1]
    PROVE  i = j
<1> DEFINE x == Script(c)[i][1]
           y == Script(d)[j][1]
<1>1. \/ i = 1 /\ x = <<"catalog">>
      \/ i > 1 /\ \E q \in Codes : x = <<"namespace", q>> /\ Len(q) = i - 1
  BY ScriptDepth
<1>2. \/ j = 1 /\ y = <<"catalog">>
      \/ j > 1 /\ \E q \in Codes : y = <<"namespace", q>> /\ Len(q) = j - 1
  BY ScriptDepth
<1>3. x = y /\ i \in Int /\ j \in Int
  BY ScriptOK
<1> HIDE DEF x, y
<1> QED BY <1>1, <1>2, <1>3

LEMMA ScriptNoRows ==
    ASSUME NEW c \in Call, NEW i \in 1 .. Len(Script(c))
    PROVE  Script(c)[i][1] \notin Rows
<1> DEFINE x == Script(c)[i][1]
<1>1. x = <<"catalog">> \/ \E q \in Codes : x = <<"namespace", q>>
  BY ScriptDepth
<1> HIDE DEF x
<1>2. x \notin Rows
  BY <1>1 DEF Rows
<1> QED BY <1>2 DEF x

\* Until its script is done, a transaction has no row.
LEMMA EarlyOrdered ==
    ASSUME NEW at \in {"idle", "locking"}, NEW c, NEW locks, NEW p,
           at = "idle" => locks = {},
           at = "locking" => /\ c \in Call
                             /\ \E k \in 0 .. Len(Script(c)) : locks = {Script(c)[i] : i \in 1 .. k}
    PROVE  Ordered(at, c, locks, {}, p) /\ RowsIn(locks) = {}
<1>1. \A l \in locks : l[1] \notin Rows
  <2>1. CASE at = "idle"
    BY <2>1
  <2>2. CASE at = "locking"
    <3>1. PICK k \in 0 .. Len(Script(c)) : locks = {Script(c)[i] : i \in 1 .. k}
      BY <2>2
    <3>2. \A i \in 1 .. k : i \in 1 .. Len(Script(c))
      BY <2>2, ScriptOK
    <3> QED BY <2>2, <3>1, <3>2, ScriptNoRows
  <2> QED BY <2>1, <2>2
<1>2. RowsIn(locks) = {}
  BY <1>1 DEF RowsIn
<1> QED BY <1>1, <1>2 DEF Ordered

LEMMA EarlyNow ==
    ASSUME IInv, NEW t \in Txns, ~ Past(t)
    PROVE  TxnOrdered(t) /\ RowsIn(held[t]) = {} /\ todo[t] = {}
<1>1. TypeOK /\ TxnOK(t)
  BY DEF IInv
<1>2. pc[t] \in {"idle", "locking"} /\ (pc[t] = "idle" => held[t] = {}) /\ todo[t] = {}
  BY <1>1 DEF TypeOK, TxnOK, Past, Called, Locking
<1>3. pc[t] = "locking" => /\ call[t] \in Call
                          /\ \E k \in 0 .. Len(Script(call[t])) : held[t] = {Script(call[t])[i] : i \in 1 .. k}
  BY <1>1, NamespaceLocksAssumption DEF TxnOK, Called, Locking
<1>4. Ordered(pc[t], call[t], held[t], {}, plan[t]) /\ RowsIn(held[t]) = {}
  BY <1>2, <1>3, EarlyOrdered
<1> QED BY <1>2, <1>4 DEF TxnOrdered

LEMMA EarlyNext ==
    ASSUME IInv', NEW t \in Txns, pc'[t] \in {"idle", "locking"}
    PROVE  TxnOrdered(t)'
<1>1. TypeOK' /\ TxnOK(t)'
  BY DEF IInv
<1>2. (pc'[t] = "idle" => held'[t] = {}) /\ todo'[t] = {}
  BY <1>1 DEF TypeOK, TxnOK, Called, Locking
<1>3. pc'[t] = "locking" => /\ call'[t] \in Call
                           /\ \E k \in 0 .. Len(Script(call'[t])) :
                                  held'[t] = {Script(call'[t])[i] : i \in 1 .. k}
  BY <1>1, NamespaceLocksAssumption DEF TxnOK, Called, Locking
<1>4. Ordered(pc'[t], call'[t], held'[t], {}, plan'[t])
  BY <1>2, <1>3, EarlyOrdered
<1> QED BY <1>2, <1>4 DEF TxnOrdered

\* When its script is done, a transaction has the catalog.
LEMMA CatalogHeld ==
    ASSUME IInv, NEW t \in Txns, pc[t] = "locking", Wanted(t) = {}
    PROVE  /\ call[t].op \in {"write", "delete"} => <<<<"catalog">>, "shared">> \in held[t]
           /\ call[t].op = "reconcile" => <<<<"catalog">>, "exclusive">> \in held[t]
<1> DEFINE c == call[t]
<1>1. TxnOK(t) /\ c \in Call
  BY NamespaceLocksAssumption DEF IInv, TxnOK, Called
<1>2. \A i \in 1 .. Len(Script(c)) : Script(c)[i] \in held[t]
  BY <1>1, ScriptHeld
<1>3. CASE c.op \in {"write", "delete"}
  <2>1. Len(Script(c)) = Len(c.target) + 1 /\ Script(c)[1] = <<<<"catalog">>, "shared">> /\ Len(c.target) \in Nat
    BY <1>1, <1>3, ScriptShape, CodeIsPath
  <2>2. 1 \in 1 .. Len(Script(c))
    BY <2>1
  <2> QED BY <1>2, <1>3, <2>1, <2>2
<1>4. CASE c.op = "reconcile"
  <2>1. Script(c) = << <<<<"catalog">>, "exclusive">> >>
    BY <1>4 DEF Script
  <2>2. 1 \in 1 .. Len(Script(c)) /\ Script(c)[1] = <<<<"catalog">>, "exclusive">>
    BY <2>1
  <2> QED BY <1>2, <1>4, <2>2
<1> QED BY <1>3, <1>4

-----------------------------------------------------------------------------
\* A row that is granted is one less to lock.
LEMMA OrderedAcquire ==
    ASSUME NEW at \in {"jobs", "memories", "counted"}, NEW c, NEW locks, NEW rows, NEW p,
           Ordered(at, c, locks, rows, p), NEW row \in rows, row \in Rows
    PROVE  Ordered(at, c, locks \cup {<<row, "exclusive">>}, rows \ {row}, p)
<1> DEFINE new == locks \cup {<<row, "exclusive">>}
<1>1. RowsIn(new) = RowsIn(locks) \cup {row}
  <2>1. \A l : l \in new <=> l \in locks \/ l = <<row, "exclusive">>
    OBVIOUS
  <2>2. <<row, "exclusive">>[1] = row
    OBVIOUS
  <2> HIDE DEF new
  <2>3. \A x : x \in RowsIn(new) <=> x \in RowsIn(locks) \/ x = row
    BY <2>1, <2>2 DEF RowsIn
  <2> QED BY <2>3
<1>2. \A l \in new : l[1] \in Rows => l[2] = "exclusive"
  BY DEF Ordered
<1>3. locks \subseteq new
  OBVIOUS
<1> HIDE DEF new
<1>4. RowsIn(new) \cup (rows \ {row}) = RowsIn(locks) \cup rows
  BY <1>1
<1>5. /\ RowsIn(locks) \subseteq RowsIn(new)
      /\ RowsIn(locks) \cap rows = {} => RowsIn(new) \cap (rows \ {row}) = {}
  BY <1>1
<1>6. at = "counted" => rows \ {row} = {}
  BY DEF Ordered
<1>7. Ordered(at, c, new, rows \ {row}, p)
  BY <1>2, <1>3, <1>4, <1>5, <1>6 DEF Ordered
<1> QED BY <1>7 DEF new

\* The others are as they were.
LEMMA OrderQuiet ==
    ASSUME OrderInv, NEW t \in Txns, \A u \in Txns \ {t} : Same(u), TxnOrdered(t)'
    PROVE  OrderInv'
<1>1. \A u \in Txns \ {t} : TxnOrdered(u)'
  BY DEF OrderInv, TxnOrdered, Same
<1> QED BY <1>1 DEF OrderInv

LEMMA OrderEarly ==
    ASSUME OrderInv, IInv', NEW t \in Txns, \A u \in Txns \ {t} : Same(u), pc'[t] \in {"idle", "locking"}
    PROVE  OrderInv'
BY EarlyNext, OrderQuiet

LEMMA OrderAcquire ==
    ASSUME IInv, IInv', OrderInv, NEW t \in Txns, Acquire(t)
    PROVE  OrderInv'
<1>1. PICK l \in Wanted(t) :
        /\ held' = [held EXCEPT ![t] = @ \cup {l}]
        /\ todo' = [todo EXCEPT ![t] = @ \ {l[1]}]
        /\ UNCHANGED <<tables, pc, call, plan>>
  BY DEF Acquire
<1>2. /\ held'[t] = held[t] \cup {l} /\ todo'[t] = todo[t] \ {l[1]} /\ pc'[t] = pc[t]
      /\ call'[t] = call[t] /\ plan'[t] = plan[t]
      /\ \A u \in Txns \ {t} : Same(u)
  BY <1>1 DEF IInv, TypeOK, tables, Same
<1>3. CASE ~ Past(t)
  <2>1. pc'[t] \in {"idle", "locking"}
    BY <1>2, <1>3 DEF IInv, TypeOK, Past
  <2> QED BY <1>2, <2>1, OrderEarly
<1>4. CASE Past(t)
  <2>1. PICK row \in todo[t] : l = <<row, "exclusive">>
    BY <1>4 DEF Wanted, Past
  <2>2. row \in Rows /\ l[1] = row /\ pc[t] \in {"jobs", "memories", "counted"}
    BY <1>4, <2>1 DEF IInv, TypeOK, Past
  <2>3. Ordered(pc[t], call[t], held[t], todo[t], plan[t])
    BY DEF OrderInv, TxnOrdered
  <2>4. Ordered(pc[t], call[t], held[t] \cup {<<row, "exclusive">>}, todo[t] \ {row}, plan[t])
    BY <2>1, <2>2, <2>3, OrderedAcquire
  <2>5. TxnOrdered(t)'
    BY <1>2, <2>1, <2>2, <2>4 DEF TxnOrdered
  <2> QED BY <1>2, <2>5, OrderQuiet
<1> QED BY <1>3, <1>4

\* From the script to the rows of the first statement.
LEMMA OrderedFirst ==
    ASSUME NEW at \in {"jobs", "memories"}, NEW c, NEW locks, NEW rows, NEW p,
           RowsIn(locks) = {}, \A l \in locks : l[1] \notin Rows,
           c.op \in {"write", "delete"} => <<<<"catalog">>, "shared">> \in locks,
           c.op = "reconcile" => <<<<"catalog">>, "exclusive">> \in locks,
           \/ c.op = "write" /\ at = "memories" /\ rows = {<<"memory", c.target>>}
           \/ c.op = "complete" /\ at = "jobs" /\ rows = {<<"job", c.target>>}
           \/ c.op = "delete" /\ at = "jobs" /\ \A row \in rows : row[1] = "job" /\ row[2] \in p.subtree
           \/ c.op = "reconcile"
    PROVE  Ordered(at, c, locks, rows, p)
<1>1. <<"memory", c.target>> # <<"job", c.target>>
  OBVIOUS
<1>2. RowsIn(locks) \cup rows = rows /\ RowsIn(locks) \cap rows = {}
  OBVIOUS
<1>3. CASE c.op = "write"
  BY <1>1, <1>2, <1>3 DEF Ordered
<1>4. CASE c.op = "complete"
  BY <1>1, <1>2, <1>4 DEF Ordered
<1>5. CASE c.op = "delete"
  BY <1>2, <1>5 DEF Ordered
<1>6. CASE c.op = "reconcile"
  BY <1>2, <1>6 DEF Ordered
<1> QED BY <1>3, <1>4, <1>5, <1>6

LEMMA NoRowsIn ==
    ASSUME NEW locks, RowsIn(locks) = {}
    PROVE  \A l \in locks : l[1] \notin Rows
BY DEF RowsIn

\* What a transaction that ends its script knows.
LEMMA AtFirst ==
    ASSUME IInv, NEW t \in Txns, pc[t] = "locking", Wanted(t) = {}
    PROVE  /\ RowsIn(held[t]) = {} /\ \A l \in held[t] : l[1] \notin Rows
           /\ call[t].op \in {"write", "delete"} => <<<<"catalog">>, "shared">> \in held[t]
           /\ call[t].op = "reconcile" => <<<<"catalog">>, "exclusive">> \in held[t]
<1>1. ~ Past(t)
  BY DEF Past
<1>2. RowsIn(held[t]) = {}
  BY <1>1, EarlyNow
<1> QED BY <1>2, NoRowsIn, CatalogHeld

LEMMA OrderAssertActive ==
    ASSUME IInv, OrderInv, NEW t \in Txns, AssertActive(t) \/ LockJob(t)
    PROVE  OrderInv'
<1> DEFINE n == call[t].target
<1>1. PICK at, rows : /\ pc[t] = "locking" /\ Wanted(t) = {} /\ Goto(t, at, rows)
                      /\ UNCHANGED <<tables, call, held, plan>>
                      /\ \/ call[t].op = "write" /\ at = "memories" /\ rows = {<<"memory", n>>}
                         \/ call[t].op = "complete" /\ at = "jobs" /\ rows = {<<"job", n>>}
  BY DEF AssertActive, LockJob, At
<1>2. /\ pc'[t] = at /\ todo'[t] = rows /\ call'[t] = call[t] /\ held'[t] = held[t] /\ plan'[t] = plan[t]
      /\ \A u \in Txns \ {t} : Same(u)
  BY <1>1 DEF IInv, TypeOK, Goto, Same
<1>3. Ordered(at, call[t], held[t], rows, plan[t])
  BY <1>1, AtFirst, OrderedFirst
<1>4. TxnOrdered(t)'
  BY <1>2, <1>3 DEF TxnOrdered
<1> QED BY <1>2, <1>4, OrderQuiet

\* A batch that failed, before it writes.
LEMMA OrderBatch ==
    ASSUME IInv, OrderInv, NEW t \in Txns, FailBatch(t) \/ SkipJob(t)
    PROVE  OrderInv'
<1>1. TypeOK
  BY DEF IInv
<1>2. PICK rows : /\ call[t].op = "fail" /\ pc'[t] = "jobs" /\ todo'[t] = rows
                  /\ call'[t] = call[t] /\ held'[t] = held[t] /\ plan'[t] = plan[t]
                  /\ \A u \in Txns \ {t} : Same(u)
  <2>1. CASE FailBatch(t)
    BY <1>1, <2>1 DEF TypeOK, FailBatch, At, Goto, Same
  <2>2. CASE SkipJob(t)
    BY <1>1, <2>2 DEF TypeOK, SkipJob, Same
  <2> QED BY <2>1, <2>2
<1>3. \A l \in held[t] : l[1] \in Rows => l[2] = "exclusive"
  BY DEF OrderInv, TxnOrdered, Ordered
<1>4. Ordered("jobs", call[t], held[t], rows, plan[t])
  BY <1>2, <1>3 DEF Ordered
<1>5. TxnOrdered(t)'
  BY <1>2, <1>4 DEF TxnOrdered
<1> QED BY <1>2, <1>5, OrderQuiet

LEMMA OrderExamine ==
    ASSUME IInv, OrderInv, NEW t \in Txns, Examine(t)
    PROVE  OrderInv'
<1>1. PICK subtree, p :
        /\ call[t].op = "delete" /\ pc[t] = "locking" /\ Wanted(t) = {}
        /\ plan' = [plan EXCEPT ![t] = p] /\ p.subtree = subtree
        /\ Goto(t, "jobs", RowsOf(RecordOrder[1], subtree))
        /\ UNCHANGED <<tables, call, held>>
  <2> DEFINE n == call[t].target
             tree == IF call[t].recursive THEN {n} \cup {m \in Below(n) : status[m] # "none"}
                                          ELSE {n}
             q == [subtree |-> tree, counted |-> {},
                   descendants |-> \E m \in Below(n) : status[m] = "active"]
  <2>1. call[t].op = "delete" /\ pc[t] = "locking" /\ Wanted(t) = {}
    BY DEF Examine, At
  <2>2. q.subtree = tree
    OBVIOUS
  <2>3. /\ plan' = [plan EXCEPT ![t] = q] /\ Goto(t, "jobs", RowsOf(RecordOrder[1], tree))
        /\ UNCHANGED <<tables, call, held>>
    BY DEF Examine
  <2> HIDE DEF q, tree
  <2> QED BY <2>1, <2>2, <2>3
<1> DEFINE rows == RowsOf(RecordOrder[1], subtree)
<1>2. \A row \in rows : row[1] = "job" /\ row[2] \in p.subtree
  BY <1>1 DEF RowsOf, RecordOrder
<1> HIDE DEF rows
<1>3. /\ pc'[t] = "jobs" /\ todo'[t] = rows /\ plan'[t] = p /\ call'[t] = call[t] /\ held'[t] = held[t]
      /\ \A u \in Txns \ {t} : Same(u)
  BY <1>1 DEF IInv, TypeOK, Goto, Same, rows
<1>4. Ordered("jobs", call[t], held[t], rows, p)
  BY <1>1, <1>2, AtFirst, OrderedFirst
<1>5. TxnOrdered(t)'
  BY <1>3, <1>4 DEF TxnOrdered
<1> QED BY <1>3, <1>5, OrderQuiet

LEMMA OrderLockActive ==
    ASSUME IInv, OrderInv, NEW t \in Txns, LockActive(t)
    PROVE  OrderInv'
<1>1. PICK locks, rows, p :
        /\ call[t].op = "reconcile" /\ pc[t] = "locking" /\ Wanted(t) = {}
        /\ held' = [held EXCEPT ![t] = @ \cup locks] /\ \A l \in locks : l[1][1] = "namespace"
        /\ plan' = [plan EXCEPT ![t] = p]
        /\ Goto(t, "memories", rows) /\ call' = call
  <2> DEFINE active == {n \in Codes : status[n] = "active"}
             all == {<<<<"namespace", n>>, "exclusive">> : n \in active \cup UNION {Above(n) : n \in active}}
             memories == {<<"memory", n>> : n \in {m \in active : memory[m] = "embedded"}}
             q == [plan[t] EXCEPT !.subtree = active]
  <2>1. \A l \in all : l[1][1] = "namespace"
    OBVIOUS
  <2>2. /\ call[t].op = "reconcile" /\ pc[t] = "locking" /\ Wanted(t) = {}
        /\ held' = [held EXCEPT ![t] = @ \cup all]
        /\ Goto(t, "memories", memories) /\ call' = call
    BY DEF LockActive, At
  <2>3. plan' = [plan EXCEPT ![t] = q]
    BY DEF LockActive, IInv, TypeOK
  <2> HIDE DEF all, memories, q
  <2> QED BY <2>1, <2>2, <2>3
<1>2. /\ pc'[t] = "memories" /\ todo'[t] = rows /\ plan'[t] = p /\ call'[t] = call[t]
      /\ held'[t] = held[t] \cup locks
      /\ \A u \in Txns \ {t} : Same(u)
  BY <1>1 DEF IInv, TypeOK, Goto, Same
<1>3. \A l \in held[t] \cup locks : l[1] \notin Rows
  BY <1>1, AtFirst DEF Rows
<1>4. RowsIn(held[t] \cup locks) = {}
  BY <1>3 DEF RowsIn
<1>5. <<<<"catalog">>, "exclusive">> \in held[t] \cup locks
  BY <1>1, AtFirst
<1>6. Ordered("memories", call[t], held[t] \cup locks, rows, p)
  BY <1>1, <1>3, <1>4, <1>5, OrderedFirst
<1>7. TxnOrdered(t)'
  BY <1>2, <1>6 DEF TxnOrdered
<1> QED BY <1>2, <1>7, OrderQuiet

\* From the rows of one statement to those of the next.
LEMMA OrderedOn ==
    ASSUME NEW at \in {"jobs", "memories"}, NEW c, NEW locks, NEW p, Ordered(at, c, locks, {}, p),
           NEW to \in {"jobs", "memories", "counted"}, NEW rows, NEW q, q.subtree = p.subtree,
           \/ c.op = "write" /\ at = "memories" /\ to = "jobs" /\ rows = {<<"job", c.target>>}
           \/ c.op = "complete" /\ at = "jobs" /\ to = "memories" /\ rows = {<<"memory", c.target>>}
           \/ /\ c.op = "delete" /\ at = "jobs" /\ to = "memories"
              /\ \A row \in rows : row[1] = "memory" /\ row[2] \in p.subtree
           \/ c.op = "delete" /\ to = "counted" /\ rows = {}
           \/ c.op = "reconcile" /\ to = "jobs"
    PROVE  Ordered(to, c, locks, rows, q)
<1>1. <<"memory", c.target>> # <<"job", c.target>>
  OBVIOUS
<1>2. RowsIn(locks) \cup {} = RowsIn(locks)
  OBVIOUS
<1>3. CASE c.op = "write"
  BY <1>1, <1>2, <1>3 DEF Ordered
<1>4. CASE c.op = "complete"
  BY <1>1, <1>2, <1>4 DEF Ordered
<1>5. CASE c.op = "delete"
  BY <1>2, <1>5 DEF Ordered
<1>6. CASE c.op = "reconcile"
  BY <1>2, <1>6 DEF Ordered
<1> QED BY <1>3, <1>4, <1>5, <1>6

\* Transaction t, past the rows of one statement, turns to those of the next.
MovesOn(t, to, rows, q) ==
  /\ to \in {"jobs", "memories", "counted"} /\ pc[t] \in {"jobs", "memories"}
  /\ Wanted(t) = {} /\ Goto(t, to, rows)
  /\ plan' = [plan EXCEPT ![t] = q] /\ q.subtree = plan[t].subtree
  /\ UNCHANGED <<tables, call, held>>
  /\ \/ call[t].op = "write" /\ pc[t] = "memories" /\ to = "jobs" /\ rows = {<<"job", call[t].target>>}
     \/ call[t].op = "complete" /\ pc[t] = "jobs" /\ to = "memories" /\ rows = {<<"memory", call[t].target>>}
     \/ /\ call[t].op = "delete" /\ pc[t] = "jobs" /\ to = "memories"
        /\ \A row \in rows : row[1] = "memory" /\ row[2] \in plan[t].subtree
     \/ call[t].op = "delete" /\ to = "counted" /\ rows = {}
     \/ call[t].op = "reconcile" /\ to = "jobs"

LEMMA StepsMoveOn ==
    ASSUME IInv, NEW t \in Txns, Enqueue(t) \/ LockMemories(t) \/ Count(t) \/ Requeue(t) \/ Own(t)
    PROVE  \E to, rows, q : MovesOn(t, to, rows, q)
<1>1. plan' = plan => plan' = [plan EXCEPT ![t] = plan[t]]
  BY DEF IInv, TypeOK
<1>2. CASE Enqueue(t)
  <2>1. MovesOn(t, "jobs", {<<"job", call[t].target>>}, plan[t])
    BY <1>1, <1>2 DEF Enqueue, At, MovesOn
  <2> QED BY <2>1
<1>3. CASE Own(t)
  <2>1. MovesOn(t, "memories", {<<"memory", call[t].target>>}, plan[t])
    BY <1>1, <1>3 DEF Own, At, MovesOn
  <2> QED BY <2>1
<1>4. CASE Requeue(t)
  <2>1. PICK rows : call[t].op = "reconcile" /\ pc[t] = "memories" /\ Wanted(t) = {} /\ Goto(t, "jobs", rows)
                    /\ UNCHANGED <<tables, call, held, plan>>
    BY <1>4 DEF Requeue, At
  <2>2. MovesOn(t, "jobs", rows, plan[t])
    BY <1>1, <2>1 DEF MovesOn
  <2> QED BY <2>2
<1>5. CASE LockMemories(t)
  <2> DEFINE all == RowsOf(RecordOrder[2], plan[t].subtree)
  <2>1. \A row \in all : row[1] = "memory" /\ row[2] \in plan[t].subtree
    BY DEF RowsOf, RecordOrder
  <2>2. /\ call[t].op = "delete" /\ pc[t] = "jobs" /\ Wanted(t) = {} /\ Goto(t, "memories", all)
        /\ UNCHANGED <<tables, call, held, plan>>
    BY <1>5 DEF LockMemories, At
  <2> HIDE DEF all
  <2>3. MovesOn(t, "memories", all, plan[t])
    BY <1>1, <2>1, <2>2 DEF MovesOn
  <2> QED BY <2>3
<1>6. CASE Count(t)
  <2> DEFINE counted == RecordsOf(plan[t].subtree)
             q == [plan[t] EXCEPT !.counted = counted]
  <2>1. /\ call[t].op = "delete" /\ pc[t] = "memories" /\ Wanted(t) = {} /\ Goto(t, "counted", {})
        /\ plan' = [plan EXCEPT ![t].counted = counted]
        /\ UNCHANGED <<tables, call, held>>
    BY <1>6 DEF Count, At
  <2> HIDE DEF counted
  <2>2. plan' = [plan EXCEPT ![t] = q] /\ q.subtree = plan[t].subtree
    BY <2>1 DEF IInv, TypeOK, Plan
  <2> HIDE DEF q
  <2>3. MovesOn(t, "counted", {}, q)
    BY <2>1, <2>2 DEF MovesOn
  <2> QED BY <2>3
<1> QED BY <1>2, <1>3, <1>4, <1>5, <1>6

LEMMA OrderOn ==
    ASSUME IInv, OrderInv, NEW t \in Txns, Enqueue(t) \/ LockMemories(t) \/ Count(t) \/ Requeue(t) \/ Own(t)
    PROVE  OrderInv'
<1> DEFINE c == call[t]
<1>1. PICK to, rows, q : MovesOn(t, to, rows, q)
  BY StepsMoveOn
<1>2. /\ pc'[t] = to /\ todo'[t] = rows /\ plan'[t] = q /\ call'[t] = c /\ held'[t] = held[t]
      /\ \A u \in Txns \ {t} : Same(u)
  BY <1>1 DEF MovesOn, IInv, TypeOK, Goto, Same
<1>3. Ordered(pc[t], c, held[t], {}, plan[t])
  <2>1. todo[t] = {}
    BY <1>1, NothingToDo DEF MovesOn, Past
  <2> QED BY <2>1 DEF OrderInv, TxnOrdered
<1>4. Ordered(to, c, held[t], rows, q)
  <2>1. /\ q.subtree = plan[t].subtree /\ pc[t] \in {"jobs", "memories"} /\ to \in {"jobs", "memories", "counted"}
        /\ \/ c.op = "write" /\ pc[t] = "memories" /\ to = "jobs" /\ rows = {<<"job", c.target>>}
           \/ c.op = "complete" /\ pc[t] = "jobs" /\ to = "memories" /\ rows = {<<"memory", c.target>>}
           \/ /\ c.op = "delete" /\ pc[t] = "jobs" /\ to = "memories"
              /\ \A row \in rows : row[1] = "memory" /\ row[2] \in plan[t].subtree
           \/ c.op = "delete" /\ to = "counted" /\ rows = {}
           \/ c.op = "reconcile" /\ to = "jobs"
    BY <1>1 DEF MovesOn
  <2> HIDE DEF c
  <2> QED BY <2>1, <1>3, OrderedOn
<1>5. TxnOrdered(t)'
  BY <1>2, <1>4 DEF TxnOrdered
<1> QED BY <1>2, <1>5, OrderQuiet

LEMMA OrderNext == IInv /\ IInv' /\ OrderInv /\ [Next]_vars => OrderInv'
<1> SUFFICES ASSUME IInv, IInv', OrderInv, [Next]_vars PROVE OrderInv'
  OBVIOUS
<1>1. CASE UNCHANGED vars
  BY <1>1 DEF vars, OrderInv, TxnOrdered
<1>2. ASSUME NEW t \in Txns, \/ \E c \in Calls : Begin(t, c)
                            \/ Abort(t) \/ Create(t) \/ Write(t) \/ Purge(t) \/ Reconcile(t)
                            \/ Complete(t) \/ Fail(t)
      PROVE  OrderInv'
  <2>1. CASE \E c \in Calls : Begin(t, c)
    <3>1. pc'[t] = "locking" /\ \A u \in Txns \ {t} : Same(u)
      BY <2>1 DEF IInv, TypeOK, Begin, Goto, Same
    <3> QED BY <3>1, OrderEarly
  <2>2. CASE Finish(t)
    <3>1. pc'[t] = "idle" /\ \A u \in Txns \ {t} : Same(u)
      BY <2>2 DEF IInv, TypeOK, Finish, Goto, Same
    <3> QED BY <3>1, OrderEarly
  <2> QED BY <1>2, <2>1, <2>2 DEF Abort, Create, Write, Purge, Reconcile, Complete, Fail
<1>3. ASSUME NEW t \in Txns, Acquire(t) PROVE OrderInv'
  BY <1>3, OrderAcquire
<1>4. ASSUME NEW t \in Txns, AssertActive(t) \/ LockJob(t) PROVE OrderInv'
  BY <1>4, OrderAssertActive
<1>5. ASSUME NEW t \in Txns, Examine(t) PROVE OrderInv'
  BY <1>5, OrderExamine
<1>6. ASSUME NEW t \in Txns, LockActive(t) PROVE OrderInv'
  BY <1>6, OrderLockActive
<1>7. ASSUME NEW t \in Txns, Enqueue(t) \/ LockMemories(t) \/ Count(t) \/ Requeue(t) \/ Own(t) PROVE OrderInv'
  BY <1>7, OrderOn
<1>8. ASSUME NEW t \in Txns, FailBatch(t) \/ SkipJob(t) PROVE OrderInv'
  BY <1>8, OrderBatch
<1>9. ASSUME NEW n \in Codes, Claim(n) PROVE OrderInv'
  BY <1>9 DEF Claim, OrderInv, TxnOrdered
<1> QED BY <1>1, <1>2, <1>3, <1>4, <1>5, <1>6, <1>7, <1>8, <1>9 DEF Next

-----------------------------------------------------------------------------
\* Who waits for an advisory lock waits for nobody who waits for it: of those in a
\* circle, one would have locked the least of its script.
LEMMA NobodyIsLocking ==
    ASSUME IInv, NEW txns \in SUBSET Txns, Cycle(txns), NEW t \in txns
    PROVE  pc[t] # "locking"
<1> DEFINE lockers == {u \in txns : pc[u] = "locking"}
           depths == {Cardinality(held[u]) : u \in lockers}
<1>1. ASSUME NEW u \in lockers
      PROVE  LET n == Cardinality(held[u]) IN
             /\ call[u] \in Call /\ todo[u] = {} /\ n \in Nat /\ n <= Len(Script(call[u]))
             /\ Len(Script(call[u])) \in Nat
             /\ held[u] = {Script(call[u])[i] : i \in 1 .. n}
  <2>1. TxnOK(u) /\ pc[u] = "locking"
    BY DEF IInv
  <2>2. call[u] \in Call
    BY <2>1, NamespaceLocksAssumption DEF TxnOK, Called
  <2>3. Len(Script(call[u])) \in Nat
    BY <2>2, ScriptOK
  <2> QED BY <2>1, <2>2, <2>3 DEF TxnOK, Locking
<1>2. SUFFICES ASSUME lockers # {} PROVE FALSE
  OBVIOUS
<1>3. depths \in SUBSET Nat /\ depths # {}
  BY <1>1, <1>2
<1>4. PICK n \in depths : \A m \in depths : ~(m < n)
  <2> HIDE DEF depths
  <2>1. \E n \in depths : \A m \in depths : <<m, n>> \notin OpToRel(<, Nat)
    BY <1>3, WFMin, NatLessThanWellFounded
  <2> QED BY <1>3, <2>1 DEF OpToRel
<1>5. PICK u \in lockers : Cardinality(held[u]) = n
  OBVIOUS
<1>6. PICK v \in txns : u \in WaitsFor(v)
  BY <1>5 DEF Cycle
<1>7. PICK l \in Wanted(v) : u \in Blockers(v, l)
  BY <1>6 DEF WaitsFor
<1>8. PICK k \in held[u] : l[1] = k[1]
  BY <1>7 DEF Blockers, Conflict
<1>9. PICK i \in 1 .. n : k = Script(call[u])[i]
  BY <1>1, <1>5, <1>8
<1>10. i \in 1 .. Len(Script(call[u])) /\ call[u] \in Call
  BY <1>1, <1>5, <1>9
<1>11. l[1] \notin Rows
  BY <1>8, <1>9, <1>10, ScriptNoRows
<1>12. pc[v] = "locking" /\ Cardinality(held[v]) < Len(Script(call[v]))
       /\ l = Script(call[v])[Cardinality(held[v]) + 1]
  <2>1. ~ \E row \in todo[v] : l = <<row, "exclusive">>
    BY <1>11 DEF IInv, TypeOK
  <2> QED BY <1>7, <2>1 DEF Wanted
<1> DEFINE m == Cardinality(held[v])
<1>13. v \in lockers /\ m \in Nat /\ m \in depths /\ call[v] \in Call /\ m + 1 \in 1 .. Len(Script(call[v]))
  BY <1>1, <1>12
<1>14. i = m + 1
  <2>1. Script(call[u])[i][1] = Script(call[v])[m + 1][1]
    BY <1>8, <1>9, <1>12
  <2> HIDE DEF m
  <2> QED BY <1>10, <1>13, <2>1, ScriptPlace
<1>15. n \in Nat /\ i <= n
  BY <1>3, <1>9
<1> HIDE DEF m, depths
<1> QED BY <1>4, <1>13, <1>14, <1>15

\* So whoever is in a circle waits for a row another of them has.
LEMMA AllAtRows ==
    ASSUME IInv, NEW txns \in SUBSET Txns, Cycle(txns), NEW t \in txns
    PROVE  Past(t) /\ \E u \in txns \ {t}, row \in todo[t] : row \in Rows /\ row \in RowsIn(held[u])
<1>1. PICK u \in txns : u \in WaitsFor(t)
  BY DEF Cycle
<1>2. PICK l \in Wanted(t) : u \in Blockers(t, l)
  BY <1>1 DEF WaitsFor
<1>3. PICK row \in todo[t] : l = <<row, "exclusive">>
  BY <1>2, NobodyIsLocking DEF Wanted
<1>4. Past(t)
  BY <1>3, NobodyIsLocking DEF IInv, TypeOK, TxnOK, Called, Past
<1>5. row \in Rows
  BY <1>3 DEF IInv, TypeOK
<1>6. PICK k \in held[u] : l[1] = k[1]
  BY <1>2 DEF Blockers, Conflict
<1>7. row \in RowsIn(held[u])
  BY <1>3, <1>5, <1>6 DEF RowsIn
<1>8. u # t
  BY <1>2 DEF Blockers
<1> QED BY <1>3, <1>4, <1>5, <1>7, <1>8

\* Two transactions never have one row.
LEMMA RowsExclude ==
    ASSUME IInv, OrderInv, NEW t \in Txns, NEW u \in Txns \ {t}
    PROVE  RowsIn(held[t]) \cap RowsIn(held[u]) = {}
<1> SUFFICES ASSUME NEW row \in RowsIn(held[t]), row \in RowsIn(held[u]) PROVE FALSE
  OBVIOUS
<1>1. PICK l \in held[t] : l[1] = row /\ row \in Rows
  BY DEF RowsIn
<1>2. PICK k \in held[u] : k[1] = row
  BY DEF RowsIn
<1>3. l[2] = "exclusive"
  BY <1>1 DEF OrderInv, TxnOrdered, Ordered
<1> QED BY <1>1, <1>2, <1>3 DEF IInv, Exclusion, Conflict

\* Of those that work on a namespace beside a worker's completion, there is one, or
\* all are mutations of it.
Works(t) == Past(t) /\ call[t].op \in {"write", "delete", "reconcile"}
RowsOfTxn(t) == RowsIn(held[t]) \cup todo[t]

LEMMA WorksAlone ==
    ASSUME IInv, OrderInv, NEW t \in Txns, NEW u \in Txns \ {t}, Works(t), Works(u),
           NEW row \in RowsOfTxn(t), NEW other \in RowsOfTxn(u), row[2] = other[2]
    PROVE  call[t].op = "write" /\ call[u].op = "write"
<1>1. TxnOrdered(t) /\ TxnOrdered(u) /\ TxnOK(t) /\ TxnOK(u)
  BY DEF OrderInv, IInv
<1>2. ASSUME NEW s \in Txns, Works(s), TxnOrdered(s)
      PROVE  /\ call[s].op = "reconcile" => <<<<"catalog">>, "exclusive">> \in held[s]
             /\ \E l \in held[s] : l[1] = <<"catalog">>
  BY <1>2 DEF Works, Past, TxnOrdered, Ordered
<1>3. call[t].op # "reconcile" /\ call[u].op # "reconcile"
  <2>1. PICK l \in held[t] : l[1] = <<"catalog">>
    BY <1>1, <1>2
  <2>2. PICK k \in held[u] : k[1] = <<"catalog">>
    BY <1>1, <1>2
  <2>3. <<<<"catalog">>, "exclusive">>[1] = <<"catalog">> /\ <<<<"catalog">>, "exclusive">>[2] = "exclusive"
    OBVIOUS
  <2>4. call[t].op # "reconcile"
    <3>1. SUFFICES ASSUME <<<<"catalog">>, "exclusive">> \in held[t] PROVE FALSE
      BY <1>1, <1>2
    <3> QED BY <2>2, <2>3, <3>1 DEF IInv, Exclusion, Conflict
  <2>5. call[u].op # "reconcile"
    <3>1. SUFFICES ASSUME <<<<"catalog">>, "exclusive">> \in held[u] PROVE FALSE
      BY <1>1, <1>2
    <3> QED BY <2>1, <2>3, <3>1 DEF IInv, Exclusion, Conflict
  <2> QED BY <2>4, <2>5
<1>4. ASSUME NEW s \in Txns, NEW v \in Txns \ {s}, Works(s), Works(v), TxnOrdered(s), TxnOrdered(v),
             TxnOK(s), TxnOK(v), call[s].op = "delete", call[v].op \in {"write", "delete"},
             NEW a \in RowsOfTxn(s), NEW b \in RowsOfTxn(v), a[2] = b[2]
      PROVE  FALSE
  <2>1. a[2] \in plan[s].subtree
    BY <1>4 DEF Works, Past, TxnOrdered, Ordered, RowsOfTxn
  <2>2. CASE call[v].op = "write"
    <3>1. b[2] = call[v].target
      BY <1>4, <2>2 DEF Works, Past, TxnOrdered, Ordered, RowsOfTxn
    <3>2. PathHeld(v) /\ plan[s].subtree \subseteq {call[s].target} \cup Below(call[s].target)
      BY <1>4, <2>2 DEF Works, TxnOK, Writing, Deleting
    <3>3. call[s].target \notin Chain(call[v].target)
      BY <1>4, <3>2, Clash DEF Works
    <3> QED BY <1>4, <2>1, <3>1, <3>2, <3>3 DEF Chain, Below
  <2>3. CASE call[v].op = "delete"
    <3>1. b[2] \in plan[v].subtree
      BY <1>4, <2>3 DEF Works, Past, TxnOrdered, Ordered, RowsOfTxn
    <3>2. plan[s].subtree \cap plan[v].subtree = {}
      BY <1>4, <2>3, SubtreesApart DEF Works
    <3> QED BY <1>4, <2>1, <3>1, <3>2
  <2> QED BY <1>4, <2>2, <2>3
<1>5. call[t].op # "delete"
  BY <1>1, <1>3, <1>4 DEF Works
<1>6. call[u].op # "delete"
  BY <1>1, <1>3, <1>4 DEF Works
<1> QED BY <1>3, <1>5, <1>6 DEF Works

\* A completion that somebody in a circle waits for has its job and not its memory.
LEMMA WorkerInCircle ==
    ASSUME IInv, OrderInv, NEW txns \in SUBSET Txns, Cycle(txns), NEW t \in txns, call[t].op = "complete"
    PROVE  /\ RowsIn(held[t]) \subseteq {<<"job", call[t].target>>}
           /\ RowsIn(held[t]) # {} => todo[t] = {<<"memory", call[t].target>>}
<1> DEFINE memoryRow == <<"memory", call[t].target>>
           jobRow == <<"job", call[t].target>>
           locked == RowsIn(held[t])
<1>1. Past(t) /\ todo[t] # {} /\ memoryRow # jobRow
  BY AllAtRows
<1>2. Ordered(pc[t], call[t], held[t], todo[t], plan[t])
  BY DEF OrderInv, TxnOrdered
<1>3. /\ locked \cup todo[t] \subseteq {memoryRow, jobRow} /\ locked \cap todo[t] = {}
      /\ pc[t] = "jobs" => memoryRow \notin locked \cup todo[t]
      /\ pc[t] = "memories" => jobRow \in locked
      /\ pc[t] \in {"jobs", "memories"}
  BY <1>1, <1>2 DEF Past, Ordered
<1> HIDE DEF memoryRow, jobRow, locked
<1>4. locked \subseteq {jobRow} /\ (locked # {} => todo[t] = {memoryRow})
  BY <1>1, <1>3
<1> QED BY <1>4 DEF memoryRow, jobRow, locked

LEMMA WriteInCircle ==
    ASSUME IInv, OrderInv, NEW txns \in SUBSET Txns, Cycle(txns), NEW t \in txns, call[t].op = "write"
    PROVE  LET memoryRow == <<"memory", call[t].target>>
               jobRow == <<"job", call[t].target>>
           IN  /\ RowsOfTxn(t) \subseteq {memoryRow, jobRow}
               /\ RowsIn(held[t]) = {} \/ (memoryRow \in RowsIn(held[t]) /\ todo[t] = {jobRow})
               /\ jobRow \in RowsOfTxn(t) => memoryRow \in RowsIn(held[t])
<1> DEFINE memoryRow == <<"memory", call[t].target>>
           jobRow == <<"job", call[t].target>>
           locked == RowsIn(held[t])
<1>1. Past(t) /\ todo[t] # {} /\ memoryRow # jobRow
  BY AllAtRows
<1>2. Ordered(pc[t], call[t], held[t], todo[t], plan[t])
  BY DEF OrderInv, TxnOrdered
<1>3. /\ locked \cup todo[t] \subseteq {memoryRow, jobRow} /\ locked \cap todo[t] = {}
      /\ pc[t] = "memories" => jobRow \notin locked \cup todo[t]
      /\ pc[t] = "jobs" => memoryRow \in locked
      /\ pc[t] \in {"jobs", "memories"}
  BY <1>1, <1>2 DEF Past, Ordered
<1> HIDE DEF memoryRow, jobRow, locked
<1>4. /\ locked = {} \/ (memoryRow \in locked /\ todo[t] = {jobRow})
      /\ jobRow \in locked \cup todo[t] => memoryRow \in locked
  BY <1>1, <1>3
<1> QED BY <1>3, <1>4 DEF memoryRow, jobRow, locked, RowsOfTxn

LEMMA WhoIsInCircle ==
    ASSUME IInv, OrderInv, NEW txns \in SUBSET Txns, Cycle(txns), NEW t \in txns
    PROVE  call[t].op \in {"complete", "fail"} \/ Works(t)
BY AllAtRows DEF OrderInv, TxnOrdered, Ordered, Past, Works

\* Deletions lock the jobs of a subtree first, as completions do, and nobody else
\* works in it: a deletion in a circle waits for a batch that failed, at the end.
LEMMA NoDeletionInCircle ==
    ASSUME IInv, OrderInv, NEW txns \in SUBSET Txns, Cycle(txns), NEW t \in txns,
           \A u \in txns : call[u].op # "fail"
    PROVE  call[t].op # "delete"
<1> SUFFICES ASSUME call[t].op = "delete" PROVE FALSE
  OBVIOUS
<1>1. Works(t)
  BY WhoIsInCircle
<1>2. PICK u \in txns \ {t}, row \in todo[t] : row \in RowsIn(held[u])
  BY AllAtRows
<1>3. call[u].op = "complete"
  <2>1. row \in RowsOfTxn(t) /\ row \in RowsOfTxn(u)
    BY <1>2 DEF RowsOfTxn
  <2> QED BY <1>1, <1>2, <2>1, WhoIsInCircle, WorksAlone
<1> DEFINE n == call[u].target
<1>4. row = <<"job", n>> /\ todo[u] = {<<"memory", n>>}
  BY <1>2, <1>3, WorkerInCircle
<1>5. \A other \in RowsOfTxn(t) : other[1] = "job"
  <2>1. Ordered(pc[t], call[t], held[t], todo[t], plan[t])
    BY DEF OrderInv, TxnOrdered
  <2>2. pc[t] = "jobs"
    <3>1. row[1] = "job"
      BY <1>4
    <3> QED BY <1>1, <1>2, <2>1, <3>1 DEF Works, Past, Ordered
  <2> QED BY <1>1, <2>1, <2>2 DEF Works, Past, Ordered, RowsOfTxn
<1>6. PICK v \in txns \ {u}, other \in todo[u] : other \in RowsIn(held[v])
  BY AllAtRows
<1>7. other = <<"memory", n>>
  BY <1>4, <1>6
<1>8. other[1] = "memory" /\ other[2] = n /\ row[2] = n
  BY <1>4, <1>7
<1>9. v # t
  BY <1>5, <1>6, <1>8 DEF RowsOfTxn
<1>10. CASE call[v].op = "complete"
  <2>1. other = <<"job", call[v].target>>
    BY <1>6, <1>10, WorkerInCircle
  <2> QED BY <1>8, <2>1
<1>11. CASE Works(v)
  <2>1. row \in RowsOfTxn(t) /\ other \in RowsOfTxn(v)
    BY <1>2, <1>6 DEF RowsOfTxn
  <2> QED BY <1>1, <1>8, <1>9, <1>11, <2>1, WorksAlone
<1> QED BY <1>10, <1>11, WhoIsInCircle

\* Mutations of one namespace take its rows one after the other.
LEMMA WorkerInEveryCircle ==
    ASSUME IInv, OrderInv, NEW txns \in SUBSET Txns, Cycle(txns),
           \A u \in txns : call[u].op # "fail"
    PROVE  \E t \in txns : call[t].op = "complete"
<1> SUFFICES ASSUME \A t \in txns : Works(t) PROVE FALSE
  BY WhoIsInCircle
<1>1. ASSUME NEW t \in txns, NEW u \in txns \ {t}, NEW row \in todo[t], row \in RowsIn(held[u])
      PROVE  /\ call[t].op = "write" /\ call[u].op = "write"
             /\ call[t].target = call[u].target
  <2>1. row \in RowsOfTxn(t) /\ row \in RowsOfTxn(u)
    BY <1>1 DEF RowsOfTxn
  <2>2. call[t].op = "write" /\ call[u].op = "write"
    BY <1>1, <2>1, WorksAlone
  <2>3. row[2] = call[t].target
    <3>1. row \in {<<"memory", call[t].target>>, <<"job", call[t].target>>}
      BY <2>1, <2>2, WriteInCircle
    <3> QED BY <3>1
  <2>4. row[2] = call[u].target
    <3>1. row \in {<<"memory", call[u].target>>, <<"job", call[u].target>>}
      BY <1>1, <2>1, <2>2, WriteInCircle
    <3> QED BY <3>1
  <2> QED BY <2>2, <2>3, <2>4
<1>2. PICK t \in txns : TRUE
  BY DEF Cycle
<1>3. PICK u \in txns \ {t}, row \in todo[t] : row \in RowsIn(held[u])
  BY AllAtRows
<1>4. call[u].op = "write"
  BY <1>1, <1>3
<1> DEFINE memoryRow == <<"memory", call[u].target>>
           jobRow == <<"job", call[u].target>>
<1>5. memoryRow \in RowsIn(held[u]) /\ todo[u] = {jobRow}
  BY <1>3, <1>4, WriteInCircle
<1>6. PICK v \in txns \ {u}, other \in todo[u] : other \in RowsIn(held[v])
  BY AllAtRows
<1>7. call[v].op = "write" /\ call[v].target = call[u].target
  BY <1>1, <1>6
<1>8. memoryRow \in RowsIn(held[v])
  BY <1>5, <1>6, <1>7, WriteInCircle
<1> QED BY <1>5, <1>6, <1>8, RowsExclude

\* The lock orders fit together but for the workers', for any transactions and any
\* tree: every circle has a completion or a batch that failed in it, a creation is
\* in none, and a deletion only with such a batch (lockNamespaceHierarchy,
\* lockNamespaceRecords, completeEmbeddingJob, failEmbeddingJobs).
THEOREM DeadlocksNeedWorkers == Spec => []DeadlockOnlyAtWorkers
<1>1. IInv /\ OrderInv => DeadlockOnlyAtWorkers
  <2> SUFFICES ASSUME IInv, OrderInv, NEW txns \in SUBSET Txns, Cycle(txns)
               PROVE  LET ops == {call[t].op : t \in txns} IN
                      /\ "create" \notin ops
                      /\ "complete" \in ops \/ "fail" \in ops
                      /\ "delete" \in ops => "fail" \in ops
    BY DEF DeadlockOnlyAtWorkers
  <2>1. \A t \in txns : call[t].op # "create"
    BY WhoIsInCircle DEF Works
  <2>2. CASE \E t \in txns : call[t].op = "fail"
    BY <2>1, <2>2
  <2>3. CASE \A t \in txns : call[t].op # "fail"
    <3>1. \A t \in txns : call[t].op # "delete"
      BY <2>3, NoDeletionInCircle
    <3>2. \E t \in txns : call[t].op = "complete"
      BY <2>3, WorkerInEveryCircle
    <3> QED BY <2>1, <3>1, <3>2
  <2> QED BY <2>2, <2>3
<1>2. Init /\ IInv => OrderInv
  <2> SUFFICES ASSUME Init, IInv, NEW t \in Txns PROVE TxnOrdered(t)
    BY DEF OrderInv
  <2>1. ~ Past(t)
    BY DEF Init, Past
  <2> QED BY <2>1, EarlyNow
<1> QED BY <1>1, <1>2, Invariant, OrderNext, PTL DEF Spec
=============================================================================
