-------------------------- MODULE BoardThreadsProofs --------------------------
(***************************************************************************)
(* Proofs about the board's threads, for any number of agents, threads and *)
(* messages.                                                               *)
(*                                                                         *)
(* All of it holds for any number of pods, whatever their clocks.  What    *)
(* the row lock of a thread gives needs nothing more: one transaction at a *)
(* time writes on a thread, and only on an open one.  What the ids give    *)
(* needs the ids of the thread to ascend in the order of its commits: then *)
(* the id an agent saw last stands for all it has seen, and the largest id *)
(* is the newest message.  Nothing makes them ascend on pods whose clocks  *)
(* differ; on one pod they do.                                             *)
(***************************************************************************)
EXTENDS BoardThreads, SequenceTheorems, WellFoundedInduction, TLAPS

Writing(a) == pc[a] \in {"locked", "checked"}

-----------------------------------------------------------------------------
(* What the row lock gives, on any number of pods. *)

\* A thread has messages from its first commit on, and no more than the bound.
Begun ==
    \A t \in Threads :
        /\ Len(threads[t].messages) <= MaxMessages
        /\ threads[t].status = "none" <=> threads[t].messages = <<>>

\* An agent has looked at a thread that had messages by then, and answers a
\* thread it has looked at, with the id it saw last if with any.
Answers(a) ==
    pc[a] # "idle" =>
        LET c == call[a] IN
        /\ c \in Call
        /\ look[a][c.thread].count > 0
        /\ c.expected \in {0, look[a][c.thread].last}

LooksBack == \A a \in Agents, t \in Threads : look[a][t].count <= Len(threads[t].messages)

\* One transaction at a time is past the lock of a thread, and that is open.
Alone ==
    \A a \in Agents : Writing(a) =>
        /\ threads[call[a].thread].status = "open"
        /\ \A b \in Agents : Writing(b) /\ call[b].thread = call[a].thread => b = a

\* The memories that calls and threads name have been committed.
Promoted(m) == m # None => m \in memories

AllPromoted ==
    /\ \A t \in Threads : Promoted(threads[t].memory)
    /\ \A a \in Agents : pc[a] # "idle" => Promoted(call[a].memory)

LockInv ==
    /\ TypeOK
    /\ Begun
    /\ LooksBack
    /\ \A a \in Agents : Answers(a)
    /\ Alone
    /\ AllPromoted

\* A resolved thread stays as it was resolved.
ResolvedIsFinal ==
    [][\A t \in Threads : threads[t].status = "resolved" => threads'[t] = threads[t]]_vars

-----------------------------------------------------------------------------
(* What the ids give, on any number of pods, while they ascend. *)

Ascending(m) == \A i, j \in DOMAIN m : i < j => m[i] < m[j]

\* The ids of every thread ascend in the order of its commits.  Messages are
\* only appended: once a thread's ids are out of order they stay so.
IdsAscend == \A t \in Threads : Ascending(threads[t].messages)

\* What an agent knows of the thread whose messages are m: the last id it was
\* shown is that of the last message it looked back on, and all are in got.
Knows(k, m) ==
    /\ k.count = 0 => k.last = 0
    /\ k.count > 0 => k.last = m[k.count]
    /\ \A i \in 1 .. k.count : m[i] \in k.got

\* The check of expected_last_message_id still holds when the call writes.
StillLatest(a) ==
    LET m == threads[call[a].thread].messages IN
    pc[a] = "checked" /\ call[a].expected # 0 /\ Ascending(m)
        => call[a].expected = m[Len(m)]

OrderInv ==
    /\ \A a \in Agents, t \in Threads :
        Ascending(threads[t].messages) => Knows(look[a][t], threads[t].messages)
    /\ \A a \in Agents : StillLatest(a)

\* On one pod, or on pods that share a clock, no id is above the clock.
OnePod == \A p, q \in Pods : p = q

ClockInv ==
    \A t \in Threads :
        /\ Ascending(threads[t].messages)
        /\ \A i \in DOMAIN threads[t].messages, p \in Pods :
            threads[t].messages[i] <= clock[p]

-----------------------------------------------------------------------------
(* Lemmas about the values: ids, messages and what an agent knows. *)

\* Of the positions of a sequence, one is the last.
LEMMA LastOfPositions ==
    ASSUME NEW n \in Nat, NEW s \in SUBSET (1 .. n), s # {}
    PROVE  \E i \in s : \A j \in s : j <= i
<1> DEFINE rest == {n - i : i \in s}
<1>1. rest \in SUBSET Nat /\ rest # {}
  <2>1. \A i \in s : n - i \in Nat
    OBVIOUS
  <2>2. PICK i \in s : TRUE
    OBVIOUS
  <2> QED BY <2>1, <2>2
<1>2. PICK r \in rest : \A q \in rest : ~(q < r)
  <2> HIDE DEF rest
  <2>1. \E r \in rest : \A q \in rest : <<q, r>> \notin OpToRel(<, Nat)
    BY <1>1, WFMin, NatLessThanWellFounded
  <2> QED BY <1>1, <2>1 DEF OpToRel
<1>3. PICK i \in s : r = n - i
  OBVIOUS
<1>4. ASSUME NEW j \in s PROVE j <= i
  <2>1. ~(n - j < n - i)
    BY <1>2, <1>3
  <2> QED BY <2>1
<1> QED BY <1>4

\* The largest of a set of numbers is the member no other exceeds.
LEMMA LargestIs ==
    ASSUME NEW s \in SUBSET Nat, NEW n \in s, \A j \in s : j <= n
    PROVE  Largest(s) = n
<1> DEFINE l == Largest(s)
<1>1. l \in s /\ \A j \in s : j <= l
  BY DEF Largest
<1>2. l <= n /\ n <= l /\ l \in Nat /\ n \in Nat
  BY <1>1
<1> HIDE DEF l
<1>3. l = n
  BY <1>2
<1> QED BY <1>3 DEF l

LEMMA IdsAreNumbers == \A id \in Ids : id \in Nat /\ id > 0 /\ id \in 0 .. MaxClock
BY BoardThreadsAssumption DEF Ids

LEMMA MessagesAreIds ==
    ASSUME NEW m \in Seq(Ids)
    PROVE  /\ Len(m) \in Nat /\ DOMAIN m = 1 .. Len(m)
           /\ \A i \in DOMAIN m :
                m[i] \in Ids /\ m[i] \in Nat /\ m[i] > 0 /\ m[i] \in 0 .. MaxClock
<1>1. Len(m) \in Nat /\ DOMAIN m = 1 .. Len(m) /\ \A i \in DOMAIN m : m[i] \in Ids
  OBVIOUS
<1> QED BY <1>1, IdsAreNumbers

\* The largest of ids that ascend is that of the last message.
LEMMA NewestIsLargest ==
    ASSUME NEW m \in Seq(Ids), Ascending(m), m # <<>>
    PROVE  Largest({m[i] : i \in DOMAIN m}) = m[Len(m)]
<1> DEFINE s == {m[i] : i \in DOMAIN m}
<1>1. Len(m) \in DOMAIN m /\ Len(m) \in Nat
  BY EmptySeq
<1>2. s \in SUBSET Nat /\ m[Len(m)] \in s
  BY <1>1, MessagesAreIds
<1>3. ASSUME NEW j \in s PROVE j <= m[Len(m)]
  <2>1. PICK i \in DOMAIN m : j = m[i]
    OBVIOUS
  <2>2. i = Len(m) \/ i < Len(m)
    BY <1>1, <2>1
  <2>3. m[i] \in Nat /\ m[Len(m)] \in Nat
    BY <1>1, MessagesAreIds
  <2> QED BY <1>1, <2>1, <2>2, <2>3 DEF Ascending
<1> HIDE DEF s
<1>4. Largest(s) = m[Len(m)]
  BY <1>2, <1>3, LargestIs
<1> QED BY <1>4 DEF s

\* An id above all others keeps the ids ascending, and what an agent knows.
LEMMA AppendAscends ==
    ASSUME NEW m \in Seq(Ids), Ascending(m), NEW id \in Ids,
           \A i \in DOMAIN m : m[i] < id
    PROVE  Ascending(Append(m, id))
<1> DEFINE n == Append(m, id)
<1>1. DOMAIN n = 1 .. Len(m) + 1 /\ DOMAIN m = 1 .. Len(m) /\ Len(m) \in Nat
  OBVIOUS
<1>2. \A i \in DOMAIN m : n[i] = m[i]
  OBVIOUS
<1>3. n[Len(m) + 1] = id
  OBVIOUS
<1> HIDE DEF n
<1>4. ASSUME NEW i \in DOMAIN n, NEW j \in DOMAIN n, i < j PROVE n[i] < n[j]
  <2>1. i \in DOMAIN m
    BY <1>1, <1>4
  <2>2. CASE j \in DOMAIN m
    BY <1>2, <1>4, <2>1, <2>2 DEF Ascending
  <2>3. CASE j = Len(m) + 1
    BY <1>2, <1>3, <2>1, <2>3
  <2> QED BY <1>1, <2>2, <2>3
<1>5. Ascending(n)
  BY <1>4 DEF Ascending
<1> QED BY <1>5 DEF n

LEMMA PrefixAscends ==
    ASSUME NEW m \in Seq(Ids), NEW id \in Ids, Ascending(Append(m, id))
    PROVE  Ascending(m)
<1> DEFINE n == Append(m, id)
<1>1. DOMAIN n = 1 .. Len(m) + 1 /\ DOMAIN m = 1 .. Len(m) /\ Len(m) \in Nat
  OBVIOUS
<1>2. \A i \in DOMAIN m : n[i] = m[i] /\ i \in DOMAIN n
  BY <1>1
<1>3. Ascending(n)
  OBVIOUS
<1> HIDE DEF n
<1> QED BY <1>2, <1>3 DEF Ascending

LEMMA AppendKeepsKnown ==
    ASSUME NEW m \in Seq(Ids), NEW id \in Ids, NEW k \in Look,
           k.count <= Len(m), Knows(k, m)
    PROVE  Knows(k, Append(m, id))
<1> DEFINE n == Append(m, id)
<1>1. Len(m) \in Nat /\ k.count \in Nat
  BY DEF Look
<1>2. \A i \in 1 .. k.count : i \in 1 .. Len(m)
  BY <1>1
<1>3. \A i \in 1 .. Len(m) : n[i] = m[i]
  OBVIOUS
<1> HIDE DEF n
<1>4. k.count > 0 => k.count \in 1 .. k.count
  BY <1>1
<1>5. Knows(k, n)
  BY <1>2, <1>3, <1>4 DEF Knows
<1> QED BY <1>5 DEF n

\* What a read shows an agent: after it, the agent knows of every message.
Shown(m, last) == {i \in DOMAIN m : m[i] > last}
Reads(k, m) ==
    LET shown == Shown(m, k.last) IN
    [last |-> IF shown = {} THEN k.last ELSE m[Largest(shown)],
     got |-> k.got \cup {m[i] : i \in shown},
     count |-> Len(m)]

LEMMA ReadsAreLooks ==
    ASSUME NEW m \in Seq(Ids), NEW k \in Look, Len(m) <= MaxMessages
    PROVE  Reads(k, m) \in Look
<1> DEFINE shown == Shown(m, k.last)
           g == k.got \cup {m[i] : i \in shown}
           l == IF shown = {} THEN k.last ELSE m[Largest(shown)]
<1>1. shown \subseteq DOMAIN m /\ DOMAIN m = 1 .. Len(m) /\ Len(m) \in Nat
  BY DEF Shown
<1>2. g \subseteq Ids
  BY <1>1 DEF Look
<1>3. l \in 0 .. MaxClock
  <2>1. CASE shown = {}
    BY <2>1 DEF Look
  <2>2. CASE shown # {}
    <3>1. PICK n \in shown : \A j \in shown : j <= n
      BY <1>1, <2>2, LastOfPositions
    <3>2. Largest(shown) = n
      BY <1>1, <3>1, LargestIs
    <3> QED BY <1>1, <2>2, <3>1, <3>2, MessagesAreIds
  <2> QED BY <2>1, <2>2
<1>4. Len(m) \in 0 .. MaxMessages
  BY <1>1, BoardThreadsAssumption
<1> HIDE DEF g, l
<1>5. [last |-> l, got |-> g, count |-> Len(m)] \in Look
  BY <1>2, <1>3, <1>4 DEF Look
<1> QED BY <1>5 DEF Reads, g, l

LEMMA ReadsAllThereIs ==
    ASSUME NEW m \in Seq(Ids), NEW k \in Look, Ascending(m),
           k.count <= Len(m), Knows(k, m)
    PROVE  Knows(Reads(k, m), m)
<1> DEFINE shown == Shown(m, k.last)
           g == k.got \cup {m[i] : i \in shown}
           l == IF shown = {} THEN k.last ELSE m[Largest(shown)]
<1>1. DOMAIN m = 1 .. Len(m) /\ Len(m) \in Nat /\ k.count \in Nat
  BY DEF Look
<1>2. \A i \in DOMAIN m : m[i] \in Nat /\ m[i] > 0
  BY MessagesAreIds
<1>3. shown = {i \in 1 .. Len(m) : i > k.count}
  <2>1. CASE k.count = 0
    BY <1>1, <1>2, <2>1 DEF Knows, Shown
  <2>2. CASE k.count > 0
    <3>1. k.last = m[k.count] /\ k.count \in DOMAIN m
      BY <1>1, <2>2 DEF Knows
    <3>2. ASSUME NEW i \in DOMAIN m PROVE m[i] > m[k.count] <=> i > k.count
      <4>1. CASE i > k.count
        BY <1>1, <1>2, <3>1, <4>1 DEF Ascending
      <4>2. CASE i = k.count
        BY <1>2, <4>2
      <4>3. CASE i < k.count
        <5>1. m[i] < m[k.count]
          BY <3>1, <4>3 DEF Ascending
        <5> QED BY <1>1, <1>2, <3>1, <4>3, <5>1
      <4> QED BY <1>1, <4>1, <4>2, <4>3
    <3> QED BY <1>1, <3>1, <3>2 DEF Shown
  <2> QED BY <1>1, <2>1, <2>2
<1>4. \A i \in 1 .. Len(m) : m[i] \in g
  BY <1>1, <1>3 DEF Knows
<1>5. Len(m) = 0 => l = 0
  BY <1>1, <1>3 DEF Knows
<1>6. Len(m) > 0 => l = m[Len(m)]
  <2>1. CASE k.count = Len(m)
    BY <1>1, <1>3, <2>1 DEF Knows
  <2>2. CASE k.count < Len(m)
    <3>1. Len(m) \in shown /\ \A j \in shown : j <= Len(m)
      BY <1>1, <1>3, <2>2
    <3>2. shown \in SUBSET Nat
      BY <1>1, <1>3
    <3> HIDE DEF shown
    <3>3. Largest(shown) = Len(m)
      BY <3>1, <3>2, LargestIs
    <3> QED BY <3>1, <3>3
  <2> QED BY <1>1, <2>1, <2>2
<1> HIDE DEF g, l
<1>7. Knows([last |-> l, got |-> g, count |-> Len(m)], m)
  BY <1>1, <1>4, <1>5, <1>6 DEF Knows
<1> QED BY <1>7 DEF Reads, g, l

-----------------------------------------------------------------------------
(* What the actions change: one thread, what one agent knows of one thread, *)
(* where one agent's call is.                                               *)

ThreadBecomes(t, status, messages, memory) ==
    /\ threads' \in [Threads -> Thread]
    /\ threads'[t].status = status
    /\ threads'[t].messages = messages
    /\ threads'[t].memory = memory
    /\ \A u \in Threads \ {t} : threads'[u] = threads[u]

LookBecomes(a, t, k) ==
    /\ look' \in [Agents -> [Threads -> Look]]
    /\ look'[a][t] = k
    /\ \A b \in Agents, u \in Threads : b # a \/ u # t => look'[b][u] = look[b][u]

CallBecomes(a, where, c) ==
    /\ pc' \in [Agents -> {"idle", "open", "locked", "checked"}]
    /\ call' \in [Agents -> Call \cup {NoCall}]
    /\ pc'[a] = where
    /\ call'[a] = c
    /\ \A b \in Agents \ {a} : pc'[b] = pc[b] /\ call'[b] = call[b]

LEMMA ThreadParts ==
    ASSUME NEW x \in Thread
    PROVE  /\ x.status \in {"none", "open", "resolved"}
           /\ x.messages \in Seq(Ids)
           /\ x.memory \in Memory \cup {None}
BY DEF Thread

\* Two parts of a thread, one after the other.
LEMMA StatusAndPart ==
    ASSUME NEW x \in Thread, NEW status, NEW part
    PROVE  LET y == [x EXCEPT !.status = status] IN
           /\ [y EXCEPT !.messages = part] =
                [status |-> status, messages |-> part, memory |-> x.memory]
           /\ [y EXCEPT !.memory = part] =
                [status |-> status, messages |-> x.messages, memory |-> part]
<1> DEFINE y == [x EXCEPT !.status = status]
<1>1. x = [status |-> x.status, messages |-> x.messages, memory |-> x.memory]
  BY DEF Thread
<1>2. y = [status |-> status, messages |-> x.messages, memory |-> x.memory]
  BY <1>1
<1> HIDE DEF y
<1>3. [y EXCEPT !.messages = part] =
            [status |-> status, messages |-> part, memory |-> x.memory]
  BY <1>2
<1>4. [y EXCEPT !.memory = part] =
            [status |-> status, messages |-> x.messages, memory |-> part]
  BY <1>2
<1> QED BY <1>3, <1>4 DEF y

LEMMA OnlyMessages ==
    ASSUME NEW x \in Thread, NEW messages
    PROVE  [x EXCEPT !.messages = messages] =
                [status |-> x.status, messages |-> messages, memory |-> x.memory]
<1>1. x = [status |-> x.status, messages |-> x.messages, memory |-> x.memory]
  BY DEF Thread
<1> QED BY <1>1

LEMMA CallParts ==
    ASSUME NEW c \in Call
    PROVE  /\ c.op \in {"reply", "resolve"} /\ c.thread \in Threads
           /\ c.expected \in 0 .. MaxClock /\ c.memory \in Memory \cup {None}
BY DEF Call

LEMMA LookParts ==
    ASSUME NEW k \in Look
    PROVE  k.last \in 0 .. MaxClock /\ k.got \in SUBSET Ids /\ k.count \in 0 .. MaxMessages
BY DEF Look

LEMMA ThreadsChange ==
    ASSUME TypeOK, NEW t \in Threads, NEW status \in {"none", "open", "resolved"},
           NEW messages \in Seq(Ids), NEW memory \in Memory \cup {None},
           threads' = [threads EXCEPT ![t] =
                [status |-> status, messages |-> messages, memory |-> memory]]
    PROVE  ThreadBecomes(t, status, messages, memory)
<1> DEFINE x == [status |-> status, messages |-> messages, memory |-> memory]
<1>1. x \in Thread /\ x.status = status /\ x.messages = messages /\ x.memory = memory
  BY DEF Thread
<1>2. threads' = [threads EXCEPT ![t] = x] /\ threads \in [Threads -> Thread]
  BY DEF TypeOK
<1> HIDE DEF x
<1>3. /\ threads' \in [Threads -> Thread] /\ threads'[t] = x
      /\ \A u \in Threads \ {t} : threads'[u] = threads[u]
  BY <1>1, <1>2
<1> QED BY <1>1, <1>3 DEF ThreadBecomes

LEMMA LooksChange ==
    ASSUME TypeOK, NEW a \in Agents, NEW t \in Threads, NEW k \in Look,
           look' = [look EXCEPT ![a][t] = k]
    PROVE  LookBecomes(a, t, k)
<1>1. look \in [Agents -> [Threads -> Look]]
  BY DEF TypeOK
<1>2. look[a] \in [Threads -> Look]
  BY <1>1
<1>3. look' = [look EXCEPT ![a] = [look[a] EXCEPT ![t] = k]]
  OBVIOUS
<1>4. [look[a] EXCEPT ![t] = k] \in [Threads -> Look]
  BY <1>2
<1> QED BY <1>1, <1>2, <1>3, <1>4 DEF LookBecomes

LEMMA CallsChange ==
    ASSUME TypeOK, NEW a \in Agents, NEW where \in {"idle", "open", "locked", "checked"},
           NEW c \in Call \cup {NoCall},
           pc' = [pc EXCEPT ![a] = where], call' = [call EXCEPT ![a] = c]
    PROVE  CallBecomes(a, where, c)
BY DEF TypeOK, CallBecomes

LEMMA PostDoes ==
    ASSUME TypeOK, NEW a \in Agents, NEW p \in Pods, NEW t \in Threads, Post(a, p, t)
    PROVE  /\ clock[p] \in NewIds(p) /\ clock[p] \in Ids
           /\ ThreadBecomes(t, "open", <<clock[p]>>, threads[t].memory)
           /\ LookBecomes(a, t, [last |-> clock[p], got |-> {clock[p]}, count |-> 1])
<1> DEFINE id == clock[p]
           k == [last |-> id, got |-> {id}, count |-> 1]
<1>1. /\ id \in NewIds(p)
      /\ threads' = [threads EXCEPT ![t].status = "open", ![t].messages = <<id>>]
      /\ look' = [look EXCEPT ![a][t] = k]
  BY DEF Post, NewIds
<1>2. id \in Ids /\ threads[t] \in Thread /\ threads \in [Threads -> Thread]
  BY DEF TypeOK
<1>3. k \in Look
  BY <1>2, IdsAreNumbers, BoardThreadsAssumption DEF Look
<1> HIDE DEF id, k
<1>4. threads' = [threads EXCEPT ![t] =
            [status |-> "open", messages |-> <<id>>, memory |-> threads[t].memory]]
  <2> DEFINE x == threads[t]
             y == [x EXCEPT !.status = "open"]
             z == [threads EXCEPT ![t] = y]
  <2>1. DOMAIN z = Threads /\ z[t] = y /\ \A u \in Threads \ {t} : z[u] = threads[u]
    BY <1>2
  <2>2. threads' = [z EXCEPT ![t].messages = <<id>>]
    BY <1>1
  <2>3. x \in Thread
    BY <1>2
  <2>4. [y EXCEPT !.messages = <<id>>] = [status |-> "open", messages |-> <<id>>, memory |-> x.memory]
    <3> HIDE DEF x
    <3> QED BY <2>3, StatusAndPart
  <2> HIDE DEF y, z
  <2>5. [z EXCEPT ![t].messages = <<id>>] =
            [threads EXCEPT ![t] = [y EXCEPT !.messages = <<id>>]]
    BY <1>2, <2>1
  <2> QED BY <2>2, <2>4, <2>5
<1>5. <<id>> \in Seq(Ids)
  BY <1>2
<1>6. threads[t].memory \in Memory \cup {None}
  BY <1>2, ThreadParts
<1>7. ThreadBecomes(t, "open", <<id>>, threads[t].memory)
  BY <1>4, <1>5, <1>6, ThreadsChange
<1>8. LookBecomes(a, t, k)
  BY <1>1, <1>3, LooksChange
<1> QED BY <1>1, <1>2, <1>7, <1>8 DEF id, k

LEMMA ReadDoes ==
    ASSUME TypeOK, Begun, NEW a \in Agents, NEW t \in Threads, Read(a, t)
    PROVE  LookBecomes(a, t, Reads(look[a][t], threads[t].messages))
<1> DEFINE m == threads[t].messages
           k == look[a][t]
<1>1. m \in Seq(Ids) /\ k \in Look /\ Len(m) <= MaxMessages
  BY ThreadParts DEF TypeOK, Begun
<1>2. Looked(k, t, Newer(t, k.last)) = Reads(k, m)
  BY DEF Looked, Newer, Reads, Shown, MessageCount
<1>3. look' = [look EXCEPT ![a][t] = Looked(k, t, Newer(t, k.last))]
  BY DEF Read, TypeOK
<1> HIDE DEF m, k
<1>4. Reads(k, m) \in Look
  BY <1>1, ReadsAreLooks
<1>5. LookBecomes(a, t, Reads(k, m))
  BY <1>2, <1>3, <1>4, LooksChange
<1> QED BY <1>5 DEF m, k

LEMMA CallIs ==
    ASSUME TypeOK, NEW a \in Agents, NEW t \in Threads, NEW expected \in {0, look[a][t].last},
           NEW op \in {"reply", "resolve"}, NEW memory \in Memory \cup {None}
    PROVE  LET c == [op |-> op, thread |-> t, expected |-> expected, memory |-> memory] IN
           c \in Call /\ c.thread = t /\ c.expected = expected /\ c.memory = memory
<1>1. look[a][t] \in Look
  BY DEF TypeOK
<1>2. expected \in 0 .. MaxClock
  BY <1>1, LookParts, BoardThreadsAssumption
<1> QED BY <1>2 DEF Call

LEMMA ReplyDoes ==
    ASSUME TypeOK, NEW a \in Agents, NEW p \in Pods, call[a] \in Call, Reply(a, p)
    PROVE  LET t == call[a].thread
               m == threads[t].messages
               k == look[a][t]
           IN
           /\ clock[p] \in NewIds(p) /\ clock[p] \in Ids /\ Len(m) < MaxMessages
           /\ ThreadBecomes(t, threads[t].status, Append(m, clock[p]), threads[t].memory)
           /\ CallBecomes(a, "idle", NoCall)
           /\ call[a].expected = 0 => look' = look
           /\ call[a].expected # 0 =>
                LookBecomes(a, t, [last |-> clock[p], got |-> k.got \cup {clock[p]},
                                   count |-> Len(m) + 1])
<1> DEFINE id == clock[p]
           t == call[a].thread
           m == threads[t].messages
           g == look[a][t].got \cup {id}
           k == [last |-> id, got |-> g, count |-> Len(m) + 1]
<1>1. /\ id \in NewIds(p) /\ Len(m) < MaxMessages
      /\ threads' = [threads EXCEPT ![t].messages = Append(@, id)]
      /\ call[a].expected = 0 => look' = look
      /\ call[a].expected # 0 =>
            look' = [look EXCEPT ![a][t] =
                        [last |-> id, got |-> @.got \cup {id}, count |-> Len(m) + 1]]
      /\ pc' = [pc EXCEPT ![a] = "idle"]
      /\ call' = [call EXCEPT ![a] = NoCall]
  BY DEF Reply, NewIds
<1>2. t \in Threads
  BY CallParts
<1>3. id \in Ids /\ threads[t] \in Thread /\ threads \in [Threads -> Thread]
      /\ look \in [Agents -> [Threads -> Look]] /\ look[a][t] \in Look
  BY <1>2 DEF TypeOK
<1>4. m \in Seq(Ids) /\ threads[t].memory \in Memory \cup {None}
      /\ threads[t].status \in {"none", "open", "resolved"}
  BY <1>3, ThreadParts
<1>5. Len(m) \in Nat /\ MaxMessages \in Nat
  BY <1>4, BoardThreadsAssumption
<1>6. g \in SUBSET Ids
  BY <1>3, LookParts
<1>7. call[a].expected # 0 => look' = [look EXCEPT ![a][t] = k]
  BY <1>1, <1>2, <1>3
<1> HIDE DEF id, t, m, g
<1>8. k \in Look
  BY <1>1, <1>3, <1>5, <1>6, IdsAreNumbers DEF Look
<1>9. call[a].expected # 0 => LookBecomes(a, t, k)
  <2> HIDE DEF k
  <2> QED BY <1>2, <1>7, <1>8, LooksChange
<1>10. threads' = [threads EXCEPT ![t] =
            [status |-> threads[t].status, messages |-> Append(m, id),
             memory |-> threads[t].memory]]
  <2>1. threads' = [threads EXCEPT ![t] = [threads[t] EXCEPT !.messages = Append(m, id)]]
    BY <1>1, <1>2, <1>3 DEF m
  <2> QED BY <1>3, <2>1, OnlyMessages
<1>11. Append(m, id) \in Seq(Ids)
  BY <1>3, <1>4
<1>12. ThreadBecomes(t, threads[t].status, Append(m, id), threads[t].memory)
  BY <1>2, <1>4, <1>10, <1>11, ThreadsChange
<1>13. CallBecomes(a, "idle", NoCall)
  BY <1>1, CallsChange
<1> QED BY <1>1, <1>3, <1>9, <1>12, <1>13 DEF id, t, m, g, k

LEMMA ResolveDoes ==
    ASSUME TypeOK, NEW a \in Agents, call[a] \in Call, Resolve(a)
    PROVE  LET t == call[a].thread IN
           /\ ThreadBecomes(t, "resolved", threads[t].messages, call[a].memory)
           /\ CallBecomes(a, "idle", NoCall)
<1> DEFINE t == call[a].thread
           memory == call[a].memory
<1>1. t \in Threads /\ memory \in Memory \cup {None}
  BY CallParts
<1>2. threads[t] \in Thread /\ threads \in [Threads -> Thread]
  BY <1>1 DEF TypeOK
<1>3. threads[t].messages \in Seq(Ids)
  BY <1>2, ThreadParts
<1>4. /\ threads' = [threads EXCEPT ![t].status = "resolved", ![t].memory = memory]
      /\ pc' = [pc EXCEPT ![a] = "idle"]
      /\ call' = [call EXCEPT ![a] = NoCall]
  BY DEF Resolve
<1> HIDE DEF t, memory
<1>5. threads' = [threads EXCEPT ![t] =
            [status |-> "resolved", messages |-> threads[t].messages, memory |-> memory]]
  <2> DEFINE x == threads[t]
             y == [x EXCEPT !.status = "resolved"]
             z == [threads EXCEPT ![t] = y]
  <2>1. DOMAIN z = Threads /\ z[t] = y /\ \A u \in Threads \ {t} : z[u] = threads[u]
    BY <1>1, <1>2
  <2>2. threads' = [z EXCEPT ![t].memory = memory]
    BY <1>4
  <2>3. x \in Thread
    BY <1>1, <1>2
  <2>4. [y EXCEPT !.memory = memory] = [status |-> "resolved", messages |-> x.messages, memory |-> memory]
    <3> HIDE DEF x
    <3> QED BY <2>3, StatusAndPart
  <2> HIDE DEF y, z
  <2>5. [z EXCEPT ![t].memory = memory] =
            [threads EXCEPT ![t] = [y EXCEPT !.memory = memory]]
    BY <1>1, <1>2, <2>1
  <2> QED BY <2>2, <2>4, <2>5
<1>6. ThreadBecomes(t, "resolved", threads[t].messages, memory)
  BY <1>1, <1>3, <1>5, ThreadsChange
<1>7. CallBecomes(a, "idle", NoCall)
  BY <1>4, CallsChange
<1> QED BY <1>6, <1>7 DEF t, memory

-----------------------------------------------------------------------------
(* LockInv is inductive, on any number of pods. *)

LEMMA InitLock == Init => LockInv
<1> SUFFICES ASSUME Init PROVE LockInv
  OBVIOUS
<1>1. TypeOK
  <2>1. NoThread \in Thread
    BY DEF NoThread, Thread
  <2>2. NoLook \in Look
    BY BoardThreadsAssumption DEF NoLook, Look
  <2>3. 1 \in Ids
    BY BoardThreadsAssumption DEF Ids
  <2> QED BY <2>1, <2>2, <2>3 DEF Init, TypeOK
<1>2. \A t \in Threads : threads[t] = NoThread
  BY DEF Init
<1>3. NoThread.status = "none" /\ NoThread.messages = <<>> /\ NoThread.memory = None
      /\ Len(NoThread.messages) = 0
  BY DEF NoThread
<1>4. Begun
  BY <1>2, <1>3, BoardThreadsAssumption DEF Begun
<1>5. \A a \in Agents, t \in Threads : look[a][t].count = 0
  BY DEF Init, NoLook
<1>6. LooksBack
  BY <1>2, <1>3, <1>5 DEF LooksBack
<1>7. \A a \in Agents : pc[a] = "idle"
  BY DEF Init
<1>8. (\A a \in Agents : Answers(a)) /\ Alone
  BY <1>7 DEF Answers, Alone, Writing
<1>9. AllPromoted
  BY <1>2, <1>3, <1>7 DEF AllPromoted, Promoted
<1> QED BY <1>1, <1>4, <1>6, <1>8, <1>9 DEF LockInv

LEMMA CallsAreOnThreads ==
    ASSUME LockInv, NEW b \in Agents, pc[b] # "idle"
    PROVE  call[b] \in Call /\ call[b].thread \in Threads
BY CallParts DEF LockInv, Answers

LEMMA PostKeepsLock ==
    ASSUME LockInv, NEW a \in Agents, NEW p \in Pods, NEW t \in Threads, Post(a, p, t)
    PROVE  LockInv'
<1> DEFINE id == clock[p]
           first == <<id>>
           k == [last |-> id, got |-> {id}, count |-> 1]
<1>1. /\ ThreadBecomes(t, "open", first, threads[t].memory)
      /\ LookBecomes(a, t, k)
      /\ pc[a] = "idle" /\ threads[t].status = "none"
      /\ memories' = memories /\ clock' = clock /\ pc' = pc /\ call' = call
  BY PostDoes DEF LockInv, Post
<1>2. TypeOK'
  BY <1>1 DEF LockInv, TypeOK, ThreadBecomes, LookBecomes
<1>3. threads[t].messages = <<>> /\ Len(threads[t].messages) = 0
  BY <1>1 DEF LockInv, Begun
<1>4. Len(first) = 1 /\ first # <<>>
  OBVIOUS
<1> HIDE DEF id, first
<1>5. Begun'
  <2>1. ASSUME NEW u \in Threads
        PROVE  /\ Len(threads'[u].messages) <= MaxMessages
               /\ threads'[u].status = "none" <=> threads'[u].messages = <<>>
    <3>1. CASE u = t
      <4>1. threads'[t].messages = first /\ threads'[t].status = "open"
        BY <1>1 DEF ThreadBecomes
      <4>2. 1 <= MaxMessages
        BY BoardThreadsAssumption
      <4> QED BY <1>4, <3>1, <4>1, <4>2
    <3>2. CASE u # t
      BY <1>1, <3>2 DEF LockInv, Begun, ThreadBecomes
    <3> QED BY <3>1, <3>2
  <2> QED BY <2>1 DEF Begun
<1>6. ASSUME NEW b \in Agents PROVE look[b][t].count = 0
  BY <1>3, LookParts DEF LockInv, LooksBack, TypeOK
<1>7. k.count = 1
  OBVIOUS
<1> HIDE DEF k
<1>8. LooksBack'
  <2>1. ASSUME NEW b \in Agents, NEW u \in Threads
        PROVE  look'[b][u].count <= Len(threads'[u].messages)
    <3>1. CASE u # t
      BY <1>1, <3>1 DEF LockInv, LooksBack, ThreadBecomes, LookBecomes
    <3>2. CASE u = t /\ b # a
      BY <1>1, <1>4, <1>6, <3>2 DEF ThreadBecomes, LookBecomes
    <3>3. CASE u = t /\ b = a
      <4>1. look'[a][t] = k /\ threads'[t].messages = first
        BY <1>1 DEF ThreadBecomes, LookBecomes
      <4> QED BY <1>4, <1>7, <3>3, <4>1
    <3> QED BY <3>1, <3>2, <3>3
  <2> QED BY <2>1 DEF LooksBack
<1>9. ASSUME NEW b \in Agents PROVE Answers(b)'
  <2>1. CASE pc[b] = "idle"
    BY <1>1, <2>1 DEF Answers
  <2>2. CASE pc[b] # "idle"
    <3>1. look'[b][call[b].thread] = look[b][call[b].thread]
      BY <1>1, <2>2, CallsAreOnThreads DEF LookBecomes
    <3> QED BY <1>1, <3>1 DEF LockInv, Answers
  <2> QED BY <2>1, <2>2
<1>10. ASSUME NEW b \in Agents, Writing(b) PROVE call[b].thread \in Threads \ {t}
  <2>1. pc[b] # "idle"
    BY <1>10 DEF Writing
  <2>2. threads[call[b].thread].status = "open"
    BY <1>10 DEF LockInv, Alone
  <2> QED BY <1>1, <2>1, <2>2, CallsAreOnThreads
<1>11. Alone'
  BY <1>1, <1>10 DEF LockInv, Alone, Writing, ThreadBecomes
<1>12. AllPromoted'
  BY <1>1 DEF LockInv, AllPromoted, Promoted, ThreadBecomes
<1> QED BY <1>2, <1>5, <1>8, <1>9, <1>11, <1>12 DEF LockInv

LEMMA ReadKeepsLock ==
    ASSUME LockInv, NEW a \in Agents, NEW t \in Threads, Read(a, t)
    PROVE  LockInv'
<1> DEFINE m == threads[t].messages
           k == Reads(look[a][t], m)
<1>1. /\ LookBecomes(a, t, k) /\ pc[a] = "idle"
      /\ memories' = memories /\ clock' = clock /\ pc' = pc /\ call' = call
      /\ threads' = threads
  BY ReadDoes DEF LockInv, Read
<1>2. TypeOK'
  BY <1>1 DEF LockInv, TypeOK, LookBecomes
<1>3. k.count = Len(m) /\ Len(m) \in Nat
  <2>1. m \in Seq(Ids)
    BY ThreadParts DEF LockInv, TypeOK
  <2> QED BY <2>1 DEF Reads
<1> HIDE DEF k
<1>4. LooksBack'
  <2>1. ASSUME NEW b \in Agents, NEW u \in Threads
        PROVE  look'[b][u].count <= Len(threads'[u].messages)
    <3>1. CASE b # a \/ u # t
      BY <1>1, <3>1 DEF LockInv, LooksBack, LookBecomes
    <3>2. CASE u = t /\ b = a
      BY <1>1, <1>3, <3>2 DEF LookBecomes
    <3> QED BY <3>1, <3>2
  <2> QED BY <2>1 DEF LooksBack
<1>5. ASSUME NEW b \in Agents PROVE Answers(b)'
  <2>1. CASE pc[b] = "idle"
    BY <1>1, <2>1 DEF Answers
  <2>2. CASE pc[b] # "idle"
    <3>1. look'[b][call[b].thread] = look[b][call[b].thread]
      BY <1>1, <2>2, CallsAreOnThreads DEF LookBecomes
    <3> QED BY <1>1, <3>1 DEF LockInv, Answers
  <2> QED BY <2>1, <2>2
<1>6. Begun' /\ Alone' /\ AllPromoted'
  BY <1>1 DEF LockInv, Begun, Alone, Writing, AllPromoted, Promoted
<1> QED BY <1>2, <1>4, <1>5, <1>6 DEF LockInv

\* A call begins, with a memory that is committed by then.
LEMMA BeginningKeepsLock ==
    ASSUME LockInv, NEW a \in Agents, NEW c \in Call, CallBecomes(a, "open", c),
           look[a][c.thread].count > 0, c.expected \in {0, look[a][c.thread].last},
           memories' \subseteq Memory, memories \subseteq memories',
           c.memory # None => c.memory \in memories',
           UNCHANGED <<threads, clock, look>>
    PROVE  LockInv'
<1>1. TypeOK'
  BY DEF LockInv, TypeOK, CallBecomes
<1>2. Begun' /\ LooksBack'
  BY DEF LockInv, Begun, LooksBack
<1>3. ASSUME NEW b \in Agents PROVE Answers(b)'
  <2>1. CASE b = a
    BY <2>1 DEF Answers, CallBecomes
  <2>2. CASE b # a
    BY <2>2 DEF LockInv, Answers, CallBecomes
  <2> QED BY <2>1, <2>2
<1>4. ASSUME NEW b \in Agents, Writing(b)' PROVE b # a /\ Writing(b) /\ call'[b] = call[b]
  BY <1>4 DEF Writing, CallBecomes
<1>5. Alone'
  BY <1>4 DEF LockInv, Alone
<1>6. AllPromoted'
  <2>1. ASSUME NEW b \in Agents, pc'[b] # "idle" PROVE Promoted(call[b].memory)'
    <3>1. CASE b = a
      BY <3>1 DEF Promoted, CallBecomes
    <3>2. CASE b # a
      BY <2>1, <3>2 DEF LockInv, AllPromoted, Promoted, CallBecomes
    <3> QED BY <3>1, <3>2
  <2>2. ASSUME NEW t \in Threads PROVE Promoted(threads[t].memory)'
    BY DEF LockInv, AllPromoted, Promoted
  <2> QED BY <2>1, <2>2 DEF AllPromoted
<1> QED BY <1>1, <1>2, <1>3, <1>5, <1>6 DEF LockInv

LEMMA BeginKeepsLock ==
    ASSUME LockInv, NEW a \in Agents, NEW t \in Threads, NEW op \in {"reply", "resolve"},
           NEW expected \in {0, look[a][t].last}, Begin(a, t, op, expected)
    PROVE  LockInv'
<1>1. /\ pc' = [pc EXCEPT ![a] = "open"]
      /\ call' = [call EXCEPT ![a] =
            [op |-> op, thread |-> t, expected |-> expected, memory |-> None]]
      /\ look[a][t].count > 0
      /\ memories' = memories /\ UNCHANGED <<threads, clock, look>>
  BY DEF Begin
<1> DEFINE c == [op |-> op, thread |-> t, expected |-> expected, memory |-> None]
<1>2. c \in Call /\ c.thread = t /\ c.expected = expected /\ c.memory = None
  BY CallIs DEF LockInv
<1>3. call' = [call EXCEPT ![a] = c]
  BY <1>1
<1> HIDE DEF c
<1>4. CallBecomes(a, "open", c)
  BY <1>1, <1>2, <1>3, CallsChange DEF LockInv
<1> QED BY <1>1, <1>2, <1>4, BeginningKeepsLock DEF LockInv, TypeOK

LEMMA BeginPromotedKeepsLock ==
    ASSUME LockInv, NEW a \in Agents, NEW t \in Threads,
           NEW expected \in {0, look[a][t].last}, BeginPromoted(a, t, expected)
    PROVE  LockInv'
<1> DEFINE memory == <<a, t>>
<1>1. /\ pc' = [pc EXCEPT ![a] = "open"]
      /\ call' = [call EXCEPT ![a] =
            [op |-> "resolve", thread |-> t, expected |-> expected, memory |-> memory]]
      /\ look[a][t].count > 0
      /\ memories' = memories \cup {memory} /\ UNCHANGED <<threads, clock, look>>
  BY DEF BeginPromoted
<1>2. memory \in Memory /\ memories \subseteq Memory
  BY DEF Memory, LockInv, TypeOK
<1> HIDE DEF memory
<1> DEFINE c == [op |-> "resolve", thread |-> t, expected |-> expected, memory |-> memory]
<1>3. c \in Call /\ c.thread = t /\ c.expected = expected /\ c.memory = memory
  BY <1>2, CallIs DEF LockInv
<1>4. call' = [call EXCEPT ![a] = c]
  BY <1>1
<1> HIDE DEF c
<1>5. CallBecomes(a, "open", c)
  BY <1>1, <1>3, <1>4, CallsChange DEF LockInv
<1> QED BY <1>1, <1>2, <1>3, <1>5, BeginningKeepsLock

\* A call is turned away or its pod is killed: the threads stay as they are.
LEMMA LeavingKeepsLock ==
    ASSUME LockInv, NEW a \in Agents, CallBecomes(a, "idle", NoCall),
           UNCHANGED <<threads, memories, clock, look>>
    PROVE  LockInv'
<1>1. TypeOK'
  BY DEF LockInv, TypeOK, CallBecomes
<1>2. Begun' /\ LooksBack'
  BY DEF LockInv, Begun, LooksBack
<1>3. ASSUME NEW b \in Agents PROVE Answers(b)'
  BY DEF LockInv, Answers, CallBecomes
<1>4. ASSUME NEW b \in Agents, Writing(b)' PROVE b # a /\ Writing(b) /\ call'[b] = call[b]
  BY <1>4 DEF Writing, CallBecomes
<1>5. Alone'
  BY <1>4 DEF LockInv, Alone
<1>6. AllPromoted'
  BY DEF LockInv, AllPromoted, Promoted, CallBecomes
<1> QED BY <1>1, <1>2, <1>3, <1>5, <1>6 DEF LockInv

\* A call that finds its thread open and unlocked locks it.
LEMMA LockKeepsLock ==
    ASSUME LockInv, NEW a \in Agents, Lock(a)
    PROVE  LockInv'
<1> DEFINE t == call[a].thread
<1>1. /\ pc[a] = "open" /\ Unlocked(t) /\ threads[t].status = "open"
      /\ pc' = [pc EXCEPT ![a] = "locked"]
      /\ UNCHANGED <<threads, memories, clock, call, look>>
  BY DEF Lock
<1>2. TypeOK'
  BY <1>1 DEF LockInv, TypeOK
<1>3. Begun' /\ LooksBack'
  BY <1>1 DEF LockInv, Begun, LooksBack
<1>4. pc \in [Agents -> {"idle", "open", "locked", "checked"}]
  BY DEF LockInv, TypeOK
<1>5. pc'[a] = "locked" /\ \A b \in Agents \ {a} : pc'[b] = pc[b]
  BY <1>1, <1>4
<1>6. ASSUME NEW b \in Agents PROVE Answers(b)'
  <2>1. pc'[b] # "idle" => pc[b] # "idle"
    BY <1>1, <1>5
  <2> QED BY <1>1, <2>1 DEF LockInv, Answers
<1>7. ASSUME NEW b \in Agents, Writing(b)', b # a
      PROVE  Writing(b) /\ call[b].thread # t
  BY <1>1, <1>5, <1>7 DEF Writing, Unlocked
<1>8. Alone'
  <2>1. ASSUME NEW b \in Agents, Writing(b)'
        PROVE  /\ threads[call[b].thread].status = "open"
               /\ \A c \in Agents :
                    Writing(c)' /\ call[c].thread = call[b].thread => c = b
    <3>1. CASE b = a
      BY <1>1, <1>7, <3>1
    <3>2. CASE b # a
      BY <1>7, <2>1, <3>2 DEF LockInv, Alone
    <3> QED BY <3>1, <3>2
  <2> QED BY <1>1, <2>1 DEF Alone
<1>9. AllPromoted'
  <2>1. ASSUME NEW b \in Agents PROVE pc'[b] # "idle" => pc[b] # "idle"
    BY <1>1, <1>5
  <2> QED BY <1>1, <2>1 DEF LockInv, AllPromoted, Promoted
<1> QED BY <1>2, <1>3, <1>6, <1>8, <1>9 DEF LockInv

LEMMA CheckKeepsLock ==
    ASSUME LockInv, NEW a \in Agents, Check(a)
    PROVE  LockInv'
<1>1. /\ pc[a] = "locked"
      /\ pc' = [pc EXCEPT ![a] = "checked"]
      /\ UNCHANGED <<threads, memories, clock, call, look>>
  BY DEF Check
<1>2. TypeOK'
  BY <1>1 DEF LockInv, TypeOK
<1>3. Begun' /\ LooksBack'
  BY <1>1 DEF LockInv, Begun, LooksBack
<1>4. pc \in [Agents -> {"idle", "open", "locked", "checked"}]
  BY DEF LockInv, TypeOK
<1>5. ASSUME NEW b \in Agents
      PROVE  (pc'[b] # "idle" => pc[b] # "idle") /\ (Writing(b)' => Writing(b))
  BY <1>1, <1>4 DEF Writing
<1>6. ASSUME NEW b \in Agents PROVE Answers(b)'
  BY <1>1, <1>5 DEF LockInv, Answers
<1>7. Alone'
  BY <1>1, <1>5 DEF LockInv, Alone
<1>8. AllPromoted'
  BY <1>1, <1>5 DEF LockInv, AllPromoted, Promoted
<1> QED BY <1>2, <1>3, <1>6, <1>7, <1>8 DEF LockInv

\* The thread of a writer is open, and has messages.
LEMMA WritersThread ==
    ASSUME LockInv, NEW a \in Agents, Writing(a)
    PROVE  LET t == call[a].thread IN
           /\ call[a] \in Call /\ t \in Threads
           /\ threads[t].status = "open"
           /\ threads[t].messages \in Seq(Ids) /\ threads[t].messages # <<>>
           /\ \A b \in Agents : Writing(b) /\ b # a => call[b].thread # t
<1>1. pc[a] # "idle"
  BY DEF Writing
<1>2. call[a] \in Call /\ call[a].thread \in Threads
  BY <1>1, CallsAreOnThreads
<1>3. threads[call[a].thread] \in Thread
  BY <1>2 DEF LockInv, TypeOK
<1> QED BY <1>2, <1>3, ThreadParts DEF LockInv, Alone, Begun

LEMMA ReplyKeepsLock ==
    ASSUME LockInv, NEW a \in Agents, NEW p \in Pods, Reply(a, p)
    PROVE  LockInv'
<1> DEFINE t == call[a].thread
           m == threads[t].messages
           k == [last |-> clock[p], got |-> look[a][t].got \cup {clock[p]},
                 count |-> Len(m) + 1]
<1>1. pc[a] = "checked" /\ Writing(a)
  BY DEF Reply, Writing
<1>2. /\ call[a] \in Call /\ t \in Threads /\ threads[t].status = "open"
      /\ m \in Seq(Ids) /\ \A b \in Agents : Writing(b) /\ b # a => call[b].thread # t
  BY <1>1, WritersThread
<1>3. /\ clock[p] \in Ids /\ Len(m) < MaxMessages
      /\ ThreadBecomes(t, threads[t].status, Append(m, clock[p]), threads[t].memory)
      /\ CallBecomes(a, "idle", NoCall)
      /\ look' = look \/ LookBecomes(a, t, k)
      /\ memories' = memories /\ clock' = clock
  <2>1. TypeOK
    BY DEF LockInv
  <2> QED BY <1>2, <2>1, ReplyDoes DEF Reply
<1>4. Len(Append(m, clock[p])) = Len(m) + 1 /\ Len(m) \in Nat /\ Append(m, clock[p]) # <<>>
  BY <1>2, <1>3
<1>5. k.count = Len(m) + 1
  OBVIOUS
<1> DEFINE n == Append(m, clock[p])
<1> HIDE DEF n, k
<1>6. threads'[t].messages = n /\ threads'[t].status = "open" /\ Len(n) = Len(m) + 1
      /\ n # <<>> /\ threads'[t].memory = threads[t].memory
  BY <1>2, <1>3, <1>4 DEF ThreadBecomes, n
<1>7. TypeOK'
  BY <1>3 DEF LockInv, TypeOK, ThreadBecomes, CallBecomes, LookBecomes
<1>8. Begun'
  <2>1. ASSUME NEW u \in Threads
        PROVE  /\ Len(threads'[u].messages) <= MaxMessages
               /\ threads'[u].status = "none" <=> threads'[u].messages = <<>>
    <3>1. CASE u = t
      BY <1>3, <1>4, <1>6, <3>1, BoardThreadsAssumption
    <3>2. CASE u # t
      BY <1>3, <3>2 DEF LockInv, Begun, ThreadBecomes
    <3> QED BY <3>1, <3>2
  <2> QED BY <2>1 DEF Begun
<1>9. ASSUME NEW b \in Agents, NEW u \in Threads, b # a \/ u # t
      PROVE  look'[b][u] = look[b][u]
  BY <1>3, <1>9 DEF LookBecomes
<1>10. look'[a][t].count <= Len(m) + 1
  <2>1. look[a][t].count <= Len(m) /\ look[a][t].count \in Nat
    BY <1>2, LookParts DEF LockInv, LooksBack, TypeOK
  <2> QED BY <1>3, <1>4, <1>5, <2>1 DEF LookBecomes
<1>11. LooksBack'
  <2>1. ASSUME NEW b \in Agents, NEW u \in Threads
        PROVE  look'[b][u].count <= Len(threads'[u].messages)
    <3>1. look[b][u].count <= Len(threads[u].messages) /\ look[b][u].count \in Nat
      BY LookParts DEF LockInv, LooksBack, TypeOK
    <3>2. CASE u # t
      BY <1>3, <1>9, <3>1, <3>2 DEF ThreadBecomes
    <3>3. CASE u = t /\ b = a
      BY <1>6, <1>10, <3>3
    <3>4. CASE u = t /\ b # a
      BY <1>4, <1>6, <1>9, <3>1, <3>4
    <3> QED BY <3>2, <3>3, <3>4
  <2> QED BY <2>1 DEF LooksBack
<1>12. ASSUME NEW b \in Agents PROVE Answers(b)'
  <2>1. CASE pc[b] = "idle" \/ b = a
    BY <1>3, <2>1 DEF Answers, CallBecomes
  <2>2. CASE pc[b] # "idle" /\ b # a
    <3>1. look'[b][call[b].thread] = look[b][call[b].thread]
      BY <1>9, <2>2, CallsAreOnThreads
    <3> QED BY <1>3, <2>2, <3>1 DEF LockInv, Answers, CallBecomes
  <2> QED BY <2>1, <2>2
<1>13. ASSUME NEW b \in Agents, Writing(b)'
       PROVE  /\ b # a /\ Writing(b) /\ call'[b] = call[b]
              /\ threads'[call[b].thread] = threads[call[b].thread]
  <2>1. b # a /\ Writing(b) /\ call'[b] = call[b]
    BY <1>3, <1>13 DEF Writing, CallBecomes
  <2>2. call[b].thread \in Threads \ {t}
    BY <1>2, <2>1, WritersThread
  <2> QED BY <1>3, <2>1, <2>2 DEF ThreadBecomes
<1>14. Alone'
  BY <1>13 DEF LockInv, Alone
<1>15. AllPromoted'
  <2>1. ASSUME NEW u \in Threads PROVE threads'[u].memory = threads[u].memory
    BY <1>3, <1>6 DEF ThreadBecomes
  <2>2. ASSUME NEW b \in Agents, pc'[b] # "idle" PROVE pc[b] # "idle" /\ call'[b] = call[b]
    BY <1>3, <2>2 DEF CallBecomes
  <2> QED BY <1>3, <2>1, <2>2 DEF LockInv, AllPromoted, Promoted
<1> QED BY <1>7, <1>8, <1>11, <1>12, <1>14, <1>15 DEF LockInv

LEMMA ResolveKeepsLock ==
    ASSUME LockInv, NEW a \in Agents, Resolve(a)
    PROVE  LockInv'
<1> DEFINE t == call[a].thread
           m == threads[t].messages
<1>1. Writing(a) /\ pc[a] # "idle"
  BY DEF Resolve, Writing
<1>2. /\ call[a] \in Call /\ t \in Threads /\ m # <<>>
      /\ \A b \in Agents : Writing(b) /\ b # a => call[b].thread # t
  BY <1>1, WritersThread
<1>3. /\ ThreadBecomes(t, "resolved", m, call[a].memory)
      /\ CallBecomes(a, "idle", NoCall)
      /\ memories' = memories /\ clock' = clock /\ look' = look
  <2>1. TypeOK
    BY DEF LockInv
  <2> QED BY <1>2, <2>1, ResolveDoes DEF Resolve
<1>4. TypeOK'
  BY <1>3 DEF LockInv, TypeOK, ThreadBecomes, CallBecomes
<1>5. ASSUME NEW u \in Threads
      PROVE  /\ threads'[u].messages = threads[u].messages
             /\ threads'[u].status = "none" <=> threads[u].status = "none"
  <2>1. threads[t].status # "none"
    BY <1>2 DEF LockInv, Begun
  <2>2. CASE u = t
    BY <1>3, <2>1, <2>2 DEF ThreadBecomes
  <2>3. CASE u # t
    BY <1>3, <2>3 DEF ThreadBecomes
  <2> QED BY <2>2, <2>3
<1>6. Begun' /\ LooksBack'
  BY <1>3, <1>5 DEF LockInv, Begun, LooksBack
<1>7. ASSUME NEW b \in Agents PROVE Answers(b)'
  BY <1>3 DEF LockInv, Answers, CallBecomes
<1>8. ASSUME NEW b \in Agents, Writing(b)'
      PROVE  /\ b # a /\ Writing(b) /\ call'[b] = call[b]
             /\ threads'[call[b].thread] = threads[call[b].thread]
  <2>1. b # a /\ Writing(b) /\ call'[b] = call[b]
    BY <1>3, <1>8 DEF Writing, CallBecomes
  <2>2. call[b].thread \in Threads \ {t}
    BY <1>2, <2>1, WritersThread
  <2> QED BY <1>3, <2>1, <2>2 DEF ThreadBecomes
<1>9. Alone'
  BY <1>8 DEF LockInv, Alone
<1>10. AllPromoted'
  <2>1. ASSUME NEW u \in Threads PROVE Promoted(threads[u].memory)'
    BY <1>1, <1>3 DEF LockInv, AllPromoted, Promoted, ThreadBecomes
  <2>2. ASSUME NEW b \in Agents, pc'[b] # "idle" PROVE pc[b] # "idle" /\ call'[b] = call[b]
    BY <1>3, <2>2 DEF CallBecomes
  <2> QED BY <1>3, <2>1, <2>2 DEF LockInv, AllPromoted, Promoted
<1> QED BY <1>4, <1>6, <1>7, <1>9, <1>10 DEF LockInv

LEMMA TickKeepsLock ==
    ASSUME LockInv, NEW p \in Pods, Tick(p)
    PROVE  LockInv'
<1>1. /\ clock[p] < MaxClock /\ clock' = [clock EXCEPT ![p] = @ + 1]
      /\ UNCHANGED <<threads, memories, pc, call, look>>
  BY DEF Tick
<1>2. clock' \in [Pods -> Ids]
  BY <1>1, BoardThreadsAssumption DEF LockInv, TypeOK, Ids
<1>3. TypeOK'
  BY <1>1, <1>2 DEF LockInv, TypeOK
<1>4. Begun' /\ LooksBack' /\ (\A a \in Agents : Answers(a)') /\ Alone' /\ AllPromoted'
  BY <1>1 DEF LockInv, Begun, LooksBack, Answers, Alone, Writing, AllPromoted, Promoted
<1> QED BY <1>3, <1>4 DEF LockInv

LEMMA LockInvKept == LockInv /\ [Next]_vars => LockInv'
<1> SUFFICES ASSUME LockInv, [Next]_vars PROVE LockInv'
  OBVIOUS
<1>1. CASE \E p \in Pods : Tick(p)
  BY <1>1, TickKeepsLock
<1>2. ASSUME NEW a \in Agents, NEW t \in Threads, \E p \in Pods : Post(a, p, t)
      PROVE  LockInv'
  BY <1>2, PostKeepsLock
<1>3. ASSUME NEW a \in Agents, NEW t \in Threads, Read(a, t) PROVE LockInv'
  BY <1>3, ReadKeepsLock
<1>4. ASSUME NEW a \in Agents, NEW t \in Threads, NEW expected \in {0, look[a][t].last},
             \/ \E op \in {"reply", "resolve"} : Begin(a, t, op, expected)
             \/ BeginPromoted(a, t, expected)
      PROVE  LockInv'
  BY <1>4, BeginKeepsLock, BeginPromotedKeepsLock
<1>5. ASSUME NEW a \in Agents, Lock(a) \/ Check(a) \/ Resolve(a) PROVE LockInv'
  BY <1>5, LockKeepsLock, CheckKeepsLock, ResolveKeepsLock
<1>6. ASSUME NEW a \in Agents, Abort(a) PROVE LockInv'
  <2>1. TypeOK
    BY DEF LockInv
  <2>2. CallBecomes(a, "idle", NoCall)
    BY <1>6, <2>1, CallsChange DEF Abort
  <2> QED BY <1>6, <2>2, LeavingKeepsLock DEF Abort
<1>7. ASSUME NEW a \in Agents, NEW p \in Pods, Reply(a, p) PROVE LockInv'
  BY <1>7, ReplyKeepsLock
<1>8. CASE UNCHANGED vars
  BY <1>8 DEF vars, LockInv, TypeOK, Begun, LooksBack, Answers, Alone, Writing,
     AllPromoted, Promoted
<1> QED BY <1>1, <1>2, <1>3, <1>4, <1>5, <1>6, <1>7, <1>8 DEF Next

LEMMA LockInvHolds == Spec => []LockInv
<1> QED BY InitLock, LockInvKept, PTL DEF Spec

-----------------------------------------------------------------------------
(* OrderInv is inductive, on any number of pods. *)

LEMMA InitOrder == Init => OrderInv
<1> SUFFICES ASSUME Init PROVE OrderInv
  OBVIOUS
<1>1. ASSUME NEW a \in Agents, NEW t \in Threads PROVE look[a][t] = NoLook
  BY DEF Init
<1>2. ASSUME NEW a \in Agents, NEW t \in Threads
      PROVE  Knows(look[a][t], threads[t].messages)
  BY <1>1 DEF Knows, NoLook
<1>3. ASSUME NEW a \in Agents PROVE StillLatest(a)
  BY DEF Init, StillLatest
<1> QED BY <1>2, <1>3 DEF OrderInv

LEMMA PostKeepsOrder ==
    ASSUME LockInv, OrderInv,
           NEW a \in Agents, NEW p \in Pods, NEW t \in Threads, Post(a, p, t)
    PROVE  OrderInv'
<1> DEFINE id == clock[p]
           first == <<id>>
           k == [last |-> id, got |-> {id}, count |-> 1]
<1>1. /\ ThreadBecomes(t, "open", first, threads[t].memory)
      /\ LookBecomes(a, t, k) /\ id \in Ids
      /\ pc[a] = "idle" /\ threads[t].status = "none"
      /\ memories' = memories /\ clock' = clock /\ pc' = pc /\ call' = call
  BY PostDoes DEF LockInv, Post
<1>2. threads[t].messages = <<>> /\ Len(threads[t].messages) = 0
  BY <1>1 DEF LockInv, Begun
<1>3. DOMAIN first = {1} /\ first[1] = id /\ id \in Nat
  BY <1>1, IdsAreNumbers
<1>4. Knows(k, first)
  BY <1>3 DEF Knows
<1>5. Ascending(threads[t].messages)
  BY <1>2 DEF Ascending
<1> HIDE DEF id, first, k
<1>6. ASSUME NEW b \in Agents, NEW u \in Threads, Ascending(threads'[u].messages)
      PROVE  Knows(look'[b][u], threads'[u].messages)
  <2>1. look[b][u] \in Look
    BY DEF LockInv, TypeOK
  <2>2. CASE u # t
    BY <1>1, <1>6, <2>2 DEF OrderInv, ThreadBecomes, LookBecomes
  <2>3. CASE u = t /\ b = a
    <3>1. look'[b][u] = k /\ threads'[u].messages = first
      BY <1>1, <2>3 DEF ThreadBecomes, LookBecomes
    <3> QED BY <1>4, <3>1
  <2>4. CASE u = t /\ b # a
    <3>1. look[b][u].count = 0
      BY <1>2, <2>1, <2>4, LookParts DEF LockInv, LooksBack
    <3>2. look'[b][u] = look[b][u]
      BY <1>1, <2>4 DEF LookBecomes
    <3>3. Knows(look[b][u], threads[u].messages)
      BY <1>5, <2>4 DEF OrderInv
    <3> QED BY <3>1, <3>2, <3>3 DEF Knows
  <2> QED BY <2>2, <2>3, <2>4
<1>7. ASSUME NEW b \in Agents PROVE StillLatest(b)'
  <2>1. CASE pc[b] # "checked"
    BY <1>1, <2>1 DEF StillLatest
  <2>2. CASE pc[b] = "checked"
    <3>1. call[b].thread \in Threads \ {t}
      BY <1>1, <2>2, WritersThread DEF Writing
    <3> QED BY <1>1, <3>1 DEF OrderInv, StillLatest, ThreadBecomes
  <2> QED BY <2>1, <2>2
<1> QED BY <1>6, <1>7 DEF OrderInv

LEMMA ReadKeepsOrder ==
    ASSUME LockInv, OrderInv, NEW a \in Agents, NEW t \in Threads, Read(a, t)
    PROVE  OrderInv'
<1> DEFINE m == threads[t].messages
           k == Reads(look[a][t], m)
<1>1. /\ LookBecomes(a, t, k)
      /\ clock' = clock /\ pc' = pc /\ call' = call /\ threads' = threads
  BY ReadDoes DEF LockInv, Read
<1>2. m \in Seq(Ids) /\ look[a][t] \in Look
      /\ look[a][t].count <= Len(m) /\ (Ascending(m) => Knows(look[a][t], m))
  BY ThreadParts DEF LockInv, TypeOK, LooksBack, OrderInv
<1>3. Ascending(m) => Knows(k, m)
  BY <1>2, ReadsAllThereIs
<1> HIDE DEF k
<1>4. ASSUME NEW b \in Agents, NEW u \in Threads, Ascending(threads'[u].messages)
      PROVE  Knows(look'[b][u], threads'[u].messages)
  <2>1. CASE u = t /\ b = a
    BY <1>1, <1>3, <1>4, <2>1 DEF LookBecomes
  <2>2. CASE u # t \/ b # a
    BY <1>1, <1>4, <2>2 DEF OrderInv, LookBecomes
  <2> QED BY <2>1, <2>2
<1>5. ASSUME NEW b \in Agents PROVE StillLatest(b)'
  BY <1>1 DEF OrderInv, StillLatest
<1> QED BY <1>4, <1>5 DEF OrderInv

\* A call that goes on without writing: it is checked only by Check.
LEMMA CallingKeepsOrder ==
    ASSUME OrderInv, NEW a \in Agents, UNCHANGED <<threads, clock, look>>,
           pc'[a] # "checked",
           \A b \in Agents \ {a} : pc'[b] = pc[b] /\ call'[b] = call[b]
    PROVE  OrderInv'
<1>1. ASSUME NEW b \in Agents PROVE StillLatest(b)'
  BY DEF OrderInv, StillLatest
<1> QED BY <1>1 DEF OrderInv

LEMMA CheckKeepsOrder ==
    ASSUME LockInv, OrderInv, NEW a \in Agents, Check(a)
    PROVE  OrderInv'
<1> DEFINE t == call[a].thread
           m == threads[t].messages
<1>1. /\ pc[a] = "locked" /\ Writing(a)
      /\ IsLatest(t, call[a].expected)
      /\ pc' = [pc EXCEPT ![a] = "checked"]
      /\ UNCHANGED <<threads, memories, clock, call, look>>
  BY DEF Check, Writing
<1>2. t \in Threads /\ m \in Seq(Ids) /\ m # <<>>
  BY <1>1, WritersThread
<1>3. Ascending(m) => LatestId(t) = m[Len(m)]
  BY <1>2, NewestIsLargest DEF LatestId, Messages
<1>4. StillLatest(a)'
  BY <1>1, <1>3 DEF StillLatest, IsLatest
<1>5. ASSUME NEW b \in Agents, b # a PROVE StillLatest(b)'
  BY <1>1, <1>5 DEF OrderInv, StillLatest, LockInv, TypeOK
<1> QED BY <1>1, <1>4, <1>5 DEF OrderInv

\* A checked call with an expected id writes on a thread that has grown by
\* nothing since its agent looked at it, if its ids ascend so far.
LEMMA NotCrossed ==
    ASSUME LockInv, OrderInv, NEW a \in Agents, pc[a] = "checked", call[a].expected # 0,
           Ascending(threads[call[a].thread].messages)
    PROVE  LET t == call[a].thread IN Len(threads[t].messages) = look[a][t].count
<1> DEFINE t == call[a].thread
           m == threads[t].messages
           k == look[a][t]
<1>1. t \in Threads /\ m \in Seq(Ids) /\ m # <<>>
  BY WritersThread DEF Writing
<1>2. k \in Look /\ k.count <= Len(m) /\ k.count > 0 /\ call[a].expected = k.last
  BY <1>1 DEF LockInv, TypeOK, LooksBack, Answers
<1>3. call[a].expected = m[Len(m)]
  BY DEF OrderInv, StillLatest
<1>4. k.last = m[k.count] /\ Ascending(m)
  BY <1>1, <1>2 DEF OrderInv, Knows
<1>5. m[k.count] = m[Len(m)]
  BY <1>2, <1>3, <1>4
<1>6. Len(m) \in Nat /\ k.count \in Nat
  BY <1>1, <1>2, LookParts
<1> HIDE DEF m, k
<1>7. ~(k.count < Len(m))
  <2> SUFFICES ASSUME k.count < Len(m) PROVE FALSE
    OBVIOUS
  <2>1. k.count \in DOMAIN m /\ Len(m) \in DOMAIN m
    BY <1>1, <1>2, <1>6
  <2>2. m[k.count] < m[Len(m)] /\ m[Len(m)] \in Nat
    BY <1>1, <1>4, <2>1, MessagesAreIds DEF Ascending
  <2> QED BY <1>5, <2>2
<1>8. Len(m) = k.count
  BY <1>2, <1>6, <1>7
<1> QED BY <1>8 DEF m, k

LEMMA ReplyKeepsOrder ==
    ASSUME LockInv, OrderInv, NEW a \in Agents, NEW p \in Pods, Reply(a, p)
    PROVE  OrderInv'
<1> DEFINE t == call[a].thread
           m == threads[t].messages
           id == clock[p]
           n == Append(m, id)
           g == look[a][t].got \cup {id}
           k == [last |-> id, got |-> g, count |-> Len(m) + 1]
<1>1. pc[a] = "checked" /\ Writing(a)
  BY DEF Reply, Writing
<1>2. /\ call[a] \in Call /\ t \in Threads /\ m \in Seq(Ids)
      /\ \A b \in Agents : Writing(b) /\ b # a => call[b].thread # t
  BY <1>1, WritersThread
<1>3. /\ id \in Ids
      /\ ThreadBecomes(t, threads[t].status, n, threads[t].memory)
      /\ CallBecomes(a, "idle", NoCall)
      /\ call[a].expected = 0 => look' = look
      /\ call[a].expected # 0 => LookBecomes(a, t, k)
      /\ clock' = clock
  <2>1. TypeOK
    BY DEF LockInv
  <2> QED BY <1>2, <2>1, ReplyDoes DEF Reply
<1>4. Ascending(n) => Ascending(m)
  BY <1>2, <1>3, PrefixAscends
<1>5. /\ look[a][t] \in Look /\ (Ascending(m) => Knows(look[a][t], m))
      /\ Len(m) \in Nat /\ DOMAIN m = 1 .. Len(m)
  BY <1>2 DEF OrderInv, LockInv, TypeOK
<1>6. /\ DOMAIN n = 1 .. Len(m) + 1 /\ n[Len(m) + 1] = id
      /\ \A i \in DOMAIN m : n[i] = m[i]
  <2>1. m \in Seq(Ids) /\ id \in Ids
    BY <1>2, <1>3
  <2> HIDE DEF m, id
  <2> QED BY <2>1
<1>7. look[a][t].count = Len(m) /\ Knows(look[a][t], m) => Knows(k, n)
  <2> SUFFICES ASSUME look[a][t].count = Len(m), Knows(look[a][t], m) PROVE Knows(k, n)
    OBVIOUS
  <2>1. \A i \in 1 .. Len(m) : m[i] \in look[a][t].got
    BY DEF Knows
  <2>2. k.last = id /\ k.count = Len(m) + 1 /\ k.got = g
    OBVIOUS
  <2>3. id \in g /\ \A i \in 1 .. Len(m) : m[i] \in g
    BY <2>1
  <2> HIDE DEF k, g, n, m
  <2>4. \A i \in 1 .. k.count : n[i] \in g
    BY <1>5, <1>6, <2>2, <2>3
  <2>5. k.count # 0 /\ k.last = n[k.count]
    BY <1>5, <1>6, <2>2
  <2> QED BY <2>2, <2>4, <2>5 DEF Knows
<1>8. threads'[t].messages = n /\ \A u \in Threads \ {t} : threads'[u] = threads[u]
  BY <1>3 DEF ThreadBecomes
<1> HIDE DEF id, n, g, k
<1>9. ASSUME NEW b \in Agents, NEW u \in Threads, Ascending(threads'[u].messages)
      PROVE  Knows(look'[b][u], threads'[u].messages)
  <2>1. look[b][u] \in Look /\ look[b][u].count <= Len(threads[u].messages)
    BY DEF LockInv, TypeOK, LooksBack
  <2>2. Ascending(threads[u].messages)
    BY <1>4, <1>8, <1>9
  <2>3. Knows(look[b][u], threads[u].messages)
    BY <2>2 DEF OrderInv
  <2>4. CASE u # t
    BY <1>3, <1>8, <2>3, <2>4 DEF LookBecomes
  <2>5. CASE u = t /\ look'[b][u] = look[b][u]
    <3>1. Knows(look[b][u], n)
      BY <1>2, <1>3, <2>1, <2>3, <2>5, AppendKeepsKnown DEF n
    <3> QED BY <1>8, <2>5, <3>1
  <2>6. CASE u = t /\ look'[b][u] # look[b][u]
    <3>1. b = a /\ call[a].expected # 0 /\ look'[b][u] = k
      BY <1>3, <2>6 DEF LookBecomes
    <3>2. look[a][t].count = Len(m)
      BY <1>1, <2>2, <2>6, <3>1, NotCrossed
    <3> QED BY <1>7, <1>8, <2>3, <2>6, <3>1, <3>2
  <2> QED BY <2>4, <2>5, <2>6
<1>10. ASSUME NEW b \in Agents PROVE StillLatest(b)'
  <2>1. CASE pc'[b] # "checked"
    BY <2>1 DEF StillLatest
  <2>2. CASE pc'[b] = "checked"
    <3>1. b # a /\ pc[b] = "checked" /\ call'[b] = call[b]
      BY <1>3, <2>2 DEF CallBecomes
    <3>2. call[b].thread \in Threads \ {t}
      BY <1>2, <3>1, WritersThread DEF Writing
    <3> QED BY <1>8, <3>1, <3>2 DEF OrderInv, StillLatest
  <2> QED BY <2>1, <2>2
<1> QED BY <1>9, <1>10 DEF OrderInv

LEMMA ResolveKeepsOrder ==
    ASSUME LockInv, OrderInv, NEW a \in Agents, Resolve(a)
    PROVE  OrderInv'
<1> DEFINE t == call[a].thread
           m == threads[t].messages
<1>1. Writing(a) /\ pc[a] # "idle"
  BY DEF Resolve, Writing
<1>2. call[a] \in Call /\ t \in Threads
  BY <1>1, WritersThread
<1>3. /\ ThreadBecomes(t, "resolved", m, call[a].memory)
      /\ CallBecomes(a, "idle", NoCall)
      /\ clock' = clock /\ look' = look
  <2>1. TypeOK
    BY DEF LockInv
  <2> QED BY <1>2, <2>1, ResolveDoes DEF Resolve
<1>4. ASSUME NEW u \in Threads PROVE threads'[u].messages = threads[u].messages
  BY <1>3 DEF ThreadBecomes
<1>5. ASSUME NEW b \in Agents PROVE StillLatest(b)'
  <2>1. CASE pc'[b] # "checked"
    BY <2>1 DEF StillLatest
  <2>2. CASE pc'[b] = "checked"
    <3>1. b # a /\ pc[b] = "checked" /\ call'[b] = call[b]
      BY <1>3, <2>2 DEF CallBecomes
    <3>2. call[b].thread \in Threads
      BY <3>1, WritersThread DEF Writing
    <3> QED BY <1>4, <3>1, <3>2 DEF OrderInv, StillLatest
  <2> QED BY <2>1, <2>2
<1> QED BY <1>3, <1>4, <1>5 DEF OrderInv

LEMMA OrderInvKept ==
    ASSUME LockInv, OrderInv, [Next]_vars
    PROVE  OrderInv'
<1>1. ASSUME UNCHANGED <<threads, pc, call, look>> PROVE OrderInv'
  BY <1>1 DEF OrderInv, StillLatest
<1>2. ASSUME NEW a \in Agents, NEW t \in Threads, \E p \in Pods : Post(a, p, t)
      PROVE  OrderInv'
  BY <1>2, PostKeepsOrder
<1>3. ASSUME NEW a \in Agents, NEW t \in Threads, Read(a, t) PROVE OrderInv'
  BY <1>3, ReadKeepsOrder
<1>4. ASSUME NEW a \in Agents, NEW t \in Threads, NEW expected \in {0, look[a][t].last},
             \/ \E op \in {"reply", "resolve"} : Begin(a, t, op, expected)
             \/ BeginPromoted(a, t, expected)
      PROVE  OrderInv'
  <2>1. /\ UNCHANGED <<threads, clock, look>> /\ pc' = [pc EXCEPT ![a] = "open"]
        /\ \A b \in Agents \ {a} : call'[b] = call[b]
    BY <1>4 DEF Begin, BeginPromoted, LockInv, TypeOK
  <2>2. pc'[a] # "checked" /\ \A b \in Agents \ {a} : pc'[b] = pc[b]
    BY <2>1 DEF LockInv, TypeOK
  <2> QED BY <2>1, <2>2, CallingKeepsOrder
<1>5. ASSUME NEW a \in Agents, Lock(a) PROVE OrderInv'
  <2>1. UNCHANGED <<threads, clock, call, look>> /\ pc' = [pc EXCEPT ![a] = "locked"]
    BY <1>5 DEF Lock
  <2>2. pc'[a] # "checked" /\ \A b \in Agents \ {a} : pc'[b] = pc[b]
    BY <2>1 DEF LockInv, TypeOK
  <2> QED BY <2>1, <2>2, CallingKeepsOrder
<1>6. ASSUME NEW a \in Agents, Check(a) \/ Resolve(a) PROVE OrderInv'
  BY <1>6, CheckKeepsOrder, ResolveKeepsOrder
<1>7. ASSUME NEW a \in Agents, Abort(a) PROVE OrderInv'
  <2>1. /\ UNCHANGED <<threads, clock, look>> /\ pc' = [pc EXCEPT ![a] = "idle"]
        /\ call' = [call EXCEPT ![a] = NoCall]
    BY <1>7 DEF Abort
  <2>2. pc'[a] # "checked" /\ \A b \in Agents \ {a} : pc'[b] = pc[b] /\ call'[b] = call[b]
    BY <2>1 DEF LockInv, TypeOK
  <2> QED BY <2>1, <2>2, CallingKeepsOrder
<1>8. ASSUME NEW a \in Agents, NEW p \in Pods, Reply(a, p) PROVE OrderInv'
  BY <1>8, ReplyKeepsOrder
<1>9. ASSUME NEW p \in Pods, Tick(p) PROVE OrderInv'
  BY <1>1, <1>9 DEF Tick
<1>10. CASE UNCHANGED vars
  BY <1>1, <1>10 DEF vars
<1> QED BY <1>2, <1>3, <1>4, <1>5, <1>6, <1>7, <1>8, <1>9, <1>10 DEF Next

LEMMA OrderInvHolds == Spec => [](LockInv /\ OrderInv)
<1>1. Init => LockInv /\ OrderInv
  BY InitLock, InitOrder
<1>2. LockInv /\ OrderInv /\ [Next]_vars => LockInv' /\ OrderInv'
  BY LockInvKept, OrderInvKept
<1> QED BY <1>1, <1>2, PTL DEF Spec

-----------------------------------------------------------------------------
(* ClockInv is inductive on one pod. *)

LEMMA InitClock == Init => ClockInv
<1> SUFFICES ASSUME Init PROVE ClockInv
  OBVIOUS
<1>1. ASSUME NEW t \in Threads PROVE threads[t].messages = <<>>
  BY DEF Init, NoThread
<1> QED BY <1>1 DEF ClockInv, Ascending

\* Threads stay in order if the one that changes is.
LEMMA StaysOrderly ==
    ASSUME ClockInv, NEW t \in Threads, NEW m, clock' = clock,
           threads'[t].messages = m, \A u \in Threads \ {t} : threads'[u] = threads[u],
           Ascending(m), \A i \in DOMAIN m, p \in Pods : m[i] <= clock[p]
    PROVE  ClockInv'
<1>1. ASSUME NEW u \in Threads
      PROVE  /\ Ascending(threads'[u].messages)
             /\ \A i \in DOMAIN threads'[u].messages, p \in Pods :
                    threads'[u].messages[i] <= clock'[p]
  <2>1. CASE u = t
    BY <2>1
  <2>2. CASE u # t
    BY <2>2 DEF ClockInv
  <2> QED BY <2>1, <2>2
<1> QED BY <1>1 DEF ClockInv

LEMMA PostKeepsClock ==
    ASSUME OnePod, LockInv, ClockInv,
           NEW a \in Agents, NEW p \in Pods, NEW t \in Threads, Post(a, p, t)
    PROVE  ClockInv'
<1> DEFINE id == clock[p]
           first == <<id>>
<1>1. /\ ThreadBecomes(t, "open", first, threads[t].memory)
      /\ id \in Ids /\ clock' = clock
  BY PostDoes DEF LockInv, Post
<1>2. DOMAIN first = {1} /\ first[1] = id /\ id \in Nat
  BY <1>1, IdsAreNumbers
<1>3. \A q \in Pods : clock[q] = id
  BY DEF OnePod
<1> HIDE DEF id, first
<1>4. Ascending(first) /\ \A i \in DOMAIN first, q \in Pods : first[i] <= clock[q]
  BY <1>2, <1>3 DEF Ascending
<1>5. threads'[t].messages = first /\ \A u \in Threads \ {t} : threads'[u] = threads[u]
  BY <1>1 DEF ThreadBecomes
<1> QED BY <1>1, <1>4, <1>5, StaysOrderly

LEMMA ReplyKeepsClock ==
    ASSUME OnePod, LockInv, ClockInv, NEW a \in Agents, NEW p \in Pods, Reply(a, p)
    PROVE  ClockInv'
<1> DEFINE t == call[a].thread
           m == threads[t].messages
           id == clock[p]
           n == Append(m, id)
<1>1. Writing(a)
  BY DEF Reply, Writing
<1>2. call[a] \in Call /\ t \in Threads /\ m \in Seq(Ids)
  BY <1>1, WritersThread
<1>3. /\ id \in NewIds(p) /\ id \in Ids /\ id \in Nat
      /\ ThreadBecomes(t, threads[t].status, n, threads[t].memory)
      /\ clock' = clock
  <2>1. TypeOK
    BY DEF LockInv
  <2> QED BY <1>2, <2>1, ReplyDoes, IdsAreNumbers DEF Reply
<1>4. ASSUME NEW i \in DOMAIN m PROVE m[i] < id
  <2>1. m[i] <= id
    BY <1>2, <1>4 DEF ClockInv
  <2>2. m[i] # id
    BY <1>2, <1>3, <1>4 DEF NewIds, Messages
  <2>3. m[i] \in Nat
    BY <1>2, <1>4, MessagesAreIds
  <2> QED BY <1>3, <2>1, <2>2, <2>3
<1>5. Ascending(n)
  <2>1. Ascending(m)
    BY <1>2 DEF ClockInv
  <2> QED BY <1>2, <1>3, <1>4, <2>1, AppendAscends
<1>6. /\ DOMAIN n = 1 .. Len(m) + 1 /\ n[Len(m) + 1] = id
      /\ DOMAIN m = 1 .. Len(m) /\ Len(m) \in Nat
      /\ \A i \in DOMAIN m : n[i] = m[i]
  <2>1. m \in Seq(Ids) /\ id \in Ids
    BY <1>2, <1>3
  <2> HIDE DEF m, id
  <2> QED BY <2>1
<1>7. ASSUME NEW i \in DOMAIN n PROVE n[i] <= id
  <2>1. CASE i \in DOMAIN m
    <3>1. m[i] \in Nat /\ m[i] < id
      BY <1>2, <1>4, <2>1, MessagesAreIds
    <3> QED BY <1>3, <1>6, <2>1, <3>1
  <2>2. CASE i = Len(m) + 1
    BY <1>3, <1>6, <2>2
  <2> QED BY <1>6, <1>7, <2>1, <2>2
<1>8. \A q \in Pods : clock[q] = id
  BY DEF OnePod
<1>9. threads'[t].messages = n /\ \A u \in Threads \ {t} : threads'[u] = threads[u]
  BY <1>3 DEF ThreadBecomes
<1> HIDE DEF id, n
<1>10. \A i \in DOMAIN n, q \in Pods : n[i] <= clock[q]
  BY <1>7, <1>8
<1> QED BY <1>2, <1>3, <1>5, <1>9, <1>10, StaysOrderly

\* A step after which every thread has the messages it had, by clocks that have
\* not gone back.
LEMMA OthersKeepClock ==
    ASSUME LockInv, ClockInv,
           \A t \in Threads : threads'[t].messages = threads[t].messages,
           \A p \in Pods : clock'[p] \in Nat /\ clock[p] <= clock'[p]
    PROVE  ClockInv'
<1>1. ASSUME NEW t \in Threads, NEW i \in DOMAIN threads[t].messages, NEW p \in Pods
      PROVE  threads[t].messages[i] <= clock'[p]
  <2>1. threads[t].messages[i] \in Nat /\ clock[p] \in Nat
    BY MessagesAreIds, ThreadParts, IdsAreNumbers DEF LockInv, TypeOK
  <2>2. threads[t].messages[i] <= clock[p]
    BY DEF ClockInv
  <2> QED BY <2>1, <2>2
<1> QED BY <1>1 DEF ClockInv

LEMMA ClockInvKept ==
    ASSUME OnePod, LockInv, ClockInv, [Next]_vars
    PROVE  ClockInv'
<1>1. ASSUME NEW p \in Pods PROVE clock[p] \in Nat
  BY IdsAreNumbers DEF LockInv, TypeOK
<1>2. ASSUME NEW a \in Agents, NEW p \in Pods, NEW t \in Threads, Post(a, p, t)
      PROVE  ClockInv'
  BY <1>2, PostKeepsClock
<1>3. ASSUME NEW a \in Agents, NEW p \in Pods, Reply(a, p) PROVE ClockInv'
  BY <1>3, ReplyKeepsClock
<1>4. ASSUME NEW a \in Agents, Resolve(a) PROVE ClockInv'
  <2>1. Writing(a) /\ TypeOK /\ clock' = clock
    BY <1>4 DEF Resolve, Writing, LockInv
  <2>2. call[a] \in Call
    BY <2>1, WritersThread
  <2>3. \A t \in Threads : threads'[t].messages = threads[t].messages
    BY <1>4, <2>1, <2>2, ResolveDoes DEF ThreadBecomes
  <2> QED BY <1>1, <2>1, <2>3, OthersKeepClock
<1>5. ASSUME NEW p \in Pods, Tick(p) PROVE ClockInv'
  <2>1. clock' = [clock EXCEPT ![p] = @ + 1] /\ threads' = threads
    BY <1>5 DEF Tick
  <2>2. clock \in [Pods -> Ids]
    BY DEF LockInv, TypeOK
  <2>3. \A q \in Pods : clock'[q] \in Nat /\ clock[q] <= clock'[q]
    BY <1>1, <2>1, <2>2
  <2> QED BY <2>1, <2>3, OthersKeepClock
<1>6. CASE UNCHANGED <<threads, clock>>
  BY <1>1, <1>6, OthersKeepClock
<1> QED BY <1>2, <1>3, <1>4, <1>5, <1>6
        DEF Next, vars, Read, Begin, BeginPromoted, Lock, Check, Abort

-----------------------------------------------------------------------------
(* The theorems. *)

\* The board keeps its types and its bounds, on any number of pods: every
\* action of board.go leaves threads, calls and what agents know well formed.
THEOREM TypeCorrect == Spec => []TypeOK
<1>1. LockInv => TypeOK
  BY DEF LockInv
<1> QED BY <1>1, LockInvHolds, PTL

\* On any number of pods, a thread that ResolveBoardThread has resolved never
\* changes again: a reply that was waiting for its lock, or that read it open
\* before, is turned away, and the memory it names stays.
THEOREM ResolvedThreadsStay == Spec => ResolvedIsFinal
<1> DEFINE Stays == \A t \in Threads :
                        threads[t].status = "resolved" => threads'[t] = threads[t]
<1>1. ASSUME LockInv, [Next]_vars, NEW t \in Threads, threads[t].status = "resolved"
      PROVE  threads'[t] = threads[t]
  <2>1. ASSUME NEW a \in Agents, NEW p \in Pods, NEW u \in Threads, Post(a, p, u)
        PROVE  threads'[t] = threads[t]
    <3>1. TypeOK /\ threads[u].status = "none"
      BY <1>1, <2>1 DEF LockInv, Post
    <3> QED BY <1>1, <2>1, <3>1, PostDoes DEF ThreadBecomes
  <2>2. ASSUME NEW a \in Agents, NEW p \in Pods, Reply(a, p)
        PROVE  threads'[t] = threads[t]
    <3>1. TypeOK /\ Writing(a)
      BY <1>1, <2>2 DEF LockInv, Reply, Writing
    <3>2. call[a] \in Call /\ t # call[a].thread
      BY <1>1, <3>1, WritersThread
    <3> QED BY <1>1, <2>2, <3>1, <3>2, ReplyDoes DEF ThreadBecomes
  <2>3. ASSUME NEW a \in Agents, Resolve(a) PROVE threads'[t] = threads[t]
    <3>1. TypeOK /\ Writing(a)
      BY <1>1, <2>3 DEF LockInv, Resolve, Writing
    <3>2. call[a] \in Call /\ t # call[a].thread
      BY <1>1, <3>1, WritersThread
    <3> QED BY <1>1, <2>3, <3>1, <3>2, ResolveDoes DEF ThreadBecomes
  <2>4. CASE UNCHANGED threads
    BY <2>4
  <2> QED BY <1>1, <2>1, <2>2, <2>3, <2>4
          DEF Next, vars, Tick, Read, Begin, BeginPromoted, Lock, Check, Abort
<1>2. LockInv /\ [Next]_vars => [Stays]_vars
  BY <1>1
<1> QED BY <1>2, LockInvHolds, PTL DEF Spec, ResolvedIsFinal

\* On any number of pods, an agent that reads a thread by after_message_id and
\* answers with the id it saw last has been shown every message up to its last
\* look, as long as the ids of the threads ascend in the order of the commits:
\* ReadBoard's id > after_message_id skips a message only where a pod whose
\* clock was behind has written after one whose clock was ahead.
THEOREM FollowersSeeAll == Spec => [](IdsAscend => FollowsAll)
<1>1. LockInv /\ OrderInv => (IdsAscend => FollowsAll)
  BY DEF OrderInv, Knows, IdsAscend, FollowsAll
<1> QED BY <1>1, OrderInvHolds, PTL

\* On any number of pods, assertLatestBoardMessage keeps posts from crossing
\* where the ids ascend: a reply or resolution that carries the last id its
\* agent read is written only on the thread as that agent saw it, whoever else
\* is writing.  The ids a thread already has are what counts, not the id the
\* reply is about to add.
THEOREM PostsDoNotCross == Spec /\ []IdsAscend => NoCrossPost
<1>1. LockInv /\ OrderInv /\ IdsAscend =>
        \A a \in Agents : pc[a] = "checked" /\ call[a].expected # 0
            => Len(threads[call[a].thread].messages) = look[a][call[a].thread].count
  BY NotCrossed, WritersThread DEF IdsAscend, Writing
<1>2. LockInv /\ OrderInv /\ IdsAscend /\ [Next]_vars =>
        [\A a \in Agents :
            pc[a] = "checked" /\ call[a].expected # 0
              /\ threads'[call[a].thread] # threads[call[a].thread]
              /\ pc'[a] = "idle"
            => Len(threads[call[a].thread].messages) = look[a][call[a].thread].count]_vars
  BY <1>1
<1> QED BY <1>2, OrderInvHolds, PTL DEF Spec, NoCrossPost

\* On one pod, or on pods that share a clock, the ids ascend: what the two
\* theorems above ask for is what a single NewID clock gives, and what
\* assertLatestBoardMessage and after_message_id rely on.
THEOREM IdsAscendOnOnePod == ASSUME OnePod PROVE Spec => []IdsAscend
<1>1. Init => LockInv /\ ClockInv
  BY InitLock, InitClock
<1>2. LockInv /\ ClockInv /\ [Next]_vars => LockInv' /\ ClockInv'
  BY LockInvKept, ClockInvKept
<1>3. ClockInv => IdsAscend
  BY DEF ClockInv, IdsAscend
<1> QED BY <1>1, <1>2, <1>3, PTL DEF Spec
=============================================================================
