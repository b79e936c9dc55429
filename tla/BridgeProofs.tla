---------------------------- MODULE BridgeProofs ----------------------------
(***************************************************************************)
(* Theorems about the two components that run in the process of a bridge:  *)
(* BoardWatch, for any messages, watchers and lookback, and then           *)
(* ClientIdentity, for any processes, calls, devices and installations.    *)
(*                                                                         *)
(* That the marker passes nothing unheard is not inductive: it is set to a *)
(* clock that was read two steps before.  HeardInv says the same of every  *)
(* reading that counts or a watcher may still record, and that an answer   *)
(* holds whatever is new up to its reading, or is full of what is newer.   *)
(*                                                                         *)
(* That the file keeps its installation is not either: a call writes what  *)
(* it was answered long after it read the file.  ClientInv says of every   *)
(* call under way what its request asserts, what its process has, and who  *)
(* holds the locks that keep the two apart.                                *)
(***************************************************************************)
EXTENDS BoardWatch, ClientIdentity, FiniteSetTheorems, TLAPS

-----------------------------------------------------------------------------
\* The messages a reading may not pass unheard, and the readings that do not.
Due == Visible \ late
Heard(m) == m \in excused \/ Announced(m) \/ Crowded(m)
Covered == {t \in Times : \A m \in Due : at[m] <= t => Heard(m)}

\* An answer that is full may leave out what is older than all it holds.
Held(w, m) ==
    \/ m \in watchers[w].found
    \/ /\ Cardinality(watchers[w].found) = Limit
       /\ \A n \in watchers[w].found : at[m] < at[n]

\* The stamps are readings of a clock that has moved once for each.
StampsInv ==
    /\ clock = Cardinality({m \in Messages : status[m] # "none"})
    /\ \A m \in Messages :
          IF status[m] = "none" THEN at[m] = 0 ELSE at[m] \in 1 .. clock

CountsHeard ==
    /\ counts.pc = "counted" => \A m \in Due : Heard(m)
    /\ counts.pc = "probed" => counts.now \in Covered
WatcherHeard(w) ==
    /\ watchers[w].pc \in {"polling", "querying", "recording"} => watchers[w].since \in Covered
    /\ watchers[w].pc = "recording" =>
          \A m \in Due : at[m] <= watchers[w].now => Heard(m) \/ Held(w, m)
HeardInv ==
    /\ marker # None => marker \in Covered
    /\ CountsHeard
    /\ \A w \in Watchers : WatcherHeard(w)

IInv == TypeOK /\ StampsInv /\ HeardInv

-----------------------------------------------------------------------------
\* What is heard stays heard, with the messages that crowded it out.
LEMMA HeardStays ==
    ASSUME IInv,
           told \subseteq told', lost \subseteq lost', excused \subseteq excused',
           \A w \in Watchers :
              \/ watchers'[w] = watchers[w]
              \/ watchers[w].pc = "waking" => watchers[w].found \subseteq told' \cup lost',
           \A n \in Messages : at'[n] = at[n] \/ at[n] = 0,
           NEW m \in Messages, at'[m] = at[m], Heard(m)
    PROVE  Heard(m)'
<1>1. \A n \in Messages : Announced(n) => Announced(n)'
  BY DEF Announced
<1>2. ASSUME Crowded(m) PROVE Crowded(m)'
  <2> DEFINE N == {n \in Messages : at[n] > at[m] /\ Announced(n)}
  <2>1. \A n \in Messages : at[n] \in Nat
    <3>1. Times \subseteq Nat
      BY BoardWatchAssumption, FS_CardinalityType DEF Times
    <3> QED BY <3>1 DEF IInv, TypeOK
  <2>2. \A n \in N : at'[n] = at[n]
    BY <2>1
  <2>3. N \subseteq N'
    BY <1>1, <2>2
  <2>4. IsFiniteSet(N') /\ IsFiniteSet(Messages)
    BY BoardWatchAssumption, FS_Subset
  <2>5. Cardinality(N) >= Limit
    BY <1>2 DEF Crowded
  <2> HIDE DEF N
  <2>6. Cardinality(N) <= Cardinality(N') /\ Cardinality(N) \in Nat /\ Cardinality(N') \in Nat
    BY <2>3, <2>4, FS_Subset, FS_CardinalityType
  <2>7. Cardinality(N') >= Limit
    BY <2>5, <2>6, BoardWatchAssumption
  <2> QED BY <2>7 DEF N, Crowded
<1> QED BY <1>1, <1>2 DEF Heard

\* A message becomes due only ahead of every reading.
LEMMA HeardStep ==
    ASSUME IInv, UNCHANGED watchers,
           told \subseteq told', lost \subseteq lost', excused \subseteq excused',
           \A n \in Messages : at'[n] = at[n] \/ at[n] = 0,
           \A m \in Due' : at'[m] = at[m] /\ (m \in Due \/ \A t \in Readings : at[m] > t)
    PROVE  /\ \A m \in Messages : at'[m] = at[m] /\ Heard(m) => Heard(m)'
           /\ Covered \cap Readings \subseteq Covered'
           /\ \A w \in Watchers : WatcherHeard(w)'
<1>1. \A m \in Messages : at'[m] = at[m] /\ Heard(m) => Heard(m)'
  BY HeardStays
<1>2. Due' \subseteq Messages /\ Times \subseteq Nat
  <2>1. Cardinality(Messages) \in Nat
    BY BoardWatchAssumption, FS_CardinalityType
  <2> QED BY <2>1 DEF Times, Due, Visible
<1>3. \A m \in Messages : at[m] \in Nat
  BY <1>2 DEF IInv, TypeOK
<1>4. ASSUME NEW t \in Covered, t \in Readings PROVE t \in Covered'
  <2> SUFFICES ASSUME NEW m \in Due', at'[m] <= t PROVE Heard(m)'
    BY DEF Covered
  <2>1. t \in Nat /\ at[m] \in Nat /\ at[m] <= t
    BY <1>2, <1>3 DEF Covered
  <2>2. m \in Due
    BY <1>4, <2>1
  <2> QED BY <1>1, <1>2, <2>1, <2>2 DEF Covered
<1>5. ASSUME NEW w \in Watchers PROVE WatcherHeard(w)'
  <2>1. watchers[w].since \in Times /\ watchers[w].now \in Times /\ WatcherHeard(w)
    BY DEF IInv, TypeOK, Watcher, HeardInv
  <2>2. watchers[w].since \in Readings /\ watchers[w].now \in Readings
    BY DEF Readings
  <2>3. watchers[w].pc \in {"polling", "querying", "recording"} => watchers[w].since \in Covered'
    BY <1>4, <2>1, <2>2 DEF WatcherHeard
  <2>4. ASSUME watchers[w].pc = "recording", NEW m \in Due', at'[m] <= watchers[w].now
        PROVE  Heard(m)' \/ Held(w, m)'
    <3>1. watchers[w].now \in Nat /\ at[m] \in Nat /\ at[m] <= watchers[w].now
      BY <1>2, <1>3, <2>1, <2>4
    <3>2. m \in Due
      BY <2>2, <3>1
    <3>3. Heard(m) \/ Held(w, m)
      BY <2>1, <2>4, <3>1, <3>2 DEF WatcherHeard
    <3>4. watchers[w].found \subseteq Messages
      BY DEF IInv, TypeOK, Watcher
    <3>5. Held(w, m) => Held(w, m)'
      BY <1>2, <1>3, <2>4, <3>1, <3>4 DEF Held
    <3> QED BY <1>1, <1>2, <2>4, <3>3, <3>5
  <2> QED BY <2>3, <2>4 DEF WatcherHeard
<1> QED BY <1>1, <1>4, <1>5

\* A step of one watcher: nothing on the board, and nothing the others hold, changes.
LEMMA WatcherStep ==
    ASSUME IInv, NEW w \in Watchers, UNCHANGED <<board, counts>>,
           told \subseteq told', lost \subseteq lost', excused \subseteq excused',
           watchers' \in [Watchers -> Watcher],
           \A v \in Watchers \ {w} : watchers'[v] = watchers[v],
           watchers[w].pc = "waking" => watchers[w].found \subseteq told' \cup lost'
    PROVE  /\ \A m \in Messages : Heard(m) => Heard(m)'
           /\ Covered \subseteq Covered'
           /\ StampsInv' /\ CountsHeard'
           /\ \A v \in Watchers \ {w} : WatcherHeard(v)'
<1>2. Due' = Due /\ UNCHANGED at /\ Due \subseteq Messages
  BY DEF Due, Visible, board
<1>1. \A m \in Messages : Heard(m) => Heard(m)'
  BY <1>2, HeardStays
<1>3. Covered \subseteq Covered'
  BY <1>1, <1>2 DEF Covered
<1>4. StampsInv'
  BY DEF IInv, StampsInv, board
<1>5. CountsHeard'
  BY <1>1, <1>2, <1>3 DEF IInv, HeardInv, CountsHeard
<1>6. ASSUME NEW v \in Watchers \ {w} PROVE WatcherHeard(v)'
  <2>1. WatcherHeard(v) /\ watchers'[v] = watchers[v]
    BY DEF IInv, HeardInv
  <2>2. watchers'[v].pc \in {"polling", "querying", "recording"} => watchers'[v].since \in Covered'
    BY <1>3, <2>1 DEF WatcherHeard
  <2>3. watchers'[v].pc = "recording" =>
           \A m \in Due' : at'[m] <= watchers'[v].now => Heard(m)' \/ Held(v, m)'
    BY <1>1, <1>2, <2>1 DEF WatcherHeard, Held
  <2> QED BY <2>2, <2>3 DEF WatcherHeard
<1> QED BY <1>1, <1>3, <1>4, <1>5, <1>6

\* What a step of a watcher leaves to show: its own readings, and the marker.
LEMMA WatcherStepOK ==
    ASSUME IInv, NEW w \in Watchers, UNCHANGED <<board, counts>>,
           told \subseteq told', lost \subseteq lost', excused \subseteq excused',
           watchers' \in [Watchers -> Watcher],
           \A v \in Watchers \ {w} : watchers'[v] = watchers[v],
           watchers[w].pc = "waking" => watchers[w].found \subseteq told' \cup lost',
           session' \in {"busy", "idle"}, lock' \in Watchers \cup {None},
           told' \subseteq Messages, lost' \subseteq Messages, excused' \subseteq Messages,
           WatcherHeard(w)',
           marker' \in {marker, None} \/ marker' \in Covered'
    PROVE  IInv'
<1>1. TypeOK'
  BY DEF IInv, TypeOK, board, Covered
<1>2. /\ Covered \subseteq Covered'
      /\ StampsInv' /\ CountsHeard'
      /\ \A v \in Watchers \ {w} : WatcherHeard(v)'
  BY WatcherStep
<1>3. marker' # None => marker' \in Covered'
  BY <1>2 DEF IInv, HeardInv
<1>4. \A v \in Watchers : WatcherHeard(v)'
  BY <1>2
<1> QED BY <1>1, <1>2, <1>3, <1>4 DEF IInv, HeardInv

\* A watcher that waits for nothing holds no reading.
LEMMA NothingHeld ==
    ASSUME NEW w, watchers'[w].pc \notin {"polling", "querying", "recording"}
    PROVE  WatcherHeard(w)'
BY DEF WatcherHeard

LEMMA ArmStep ==
    ASSUME IInv, NEW w \in Watchers, Stop(w) \/ FindLock(w) \/ TakeLock(w)
    PROVE  IInv'
<1> USE DEF Alive
<1>1. /\ watchers' \in [Watchers -> Watcher]
      /\ \A v \in Watchers \ {w} : watchers'[v] = watchers[v]
      /\ watchers'[w].pc \in {"arming", "locking", "starting", "ended"}
      /\ watchers[w].pc # "waking"
  BY DEF IInv, TypeOK, Stop, FindLock, TakeLock, Watcher
<1>2. WatcherHeard(w)'
  BY <1>1, NothingHeld
<1>3. /\ UNCHANGED <<board, counts, history, marker>>
      /\ session' \in {"busy", "idle"} /\ lock' \in Watchers \cup {None}
  BY DEF IInv, TypeOK, Stop, FindLock, TakeLock
<1>4. told' \subseteq Messages /\ lost' \subseteq Messages /\ excused' \subseteq Messages
      /\ told \subseteq told' /\ lost \subseteq lost' /\ excused \subseteq excused'
  BY <1>3 DEF IInv, TypeOK, history
<1> QED BY <1>1, <1>2, <1>3, <1>4, WatcherStepOK

\* A watcher starts from the marker, or excuses what is older than its reading.
LEMMA StartStep ==
    ASSUME IInv, NEW w \in Watchers, Start(w)
    PROVE  IInv'
<1> DEFINE since == IF marker = None THEN LookingBack(clock) ELSE marker
<1>1. clock \in Times /\ Lookback \in Nat /\ None \notin Times /\ marker \in Times \cup {None}
  BY BoardWatchAssumption DEF IInv, TypeOK
<1>2. Times \subseteq Nat /\ LookingBack(clock) \in Times
  <2>1. Cardinality(Messages) \in Nat
    BY BoardWatchAssumption, FS_CardinalityType
  <2> QED BY <1>1, <2>1 DEF Times, LookingBack
<1>3. since \in Times
  BY <1>1, <1>2
<1>4. /\ watchers' = [watchers EXCEPT ![w] = Polling(since)]
      /\ watchers[w].pc = "starting"
      /\ excused' = IF marker = None THEN excused \cup Written(since) ELSE excused
      /\ UNCHANGED <<board, session, counts, lock, marker, told, lost>>
  BY DEF Start
<1>5. since \in Covered'
  <2>1. CASE marker = None
    <3> SUFFICES ASSUME NEW m \in Due', at'[m] <= since PROVE Heard(m)'
      BY <1>3 DEF Covered
    <3>1. m \in Messages /\ status[m] = "visible" /\ at'[m] = at[m]
      BY <1>4 DEF Due, Visible, board
    <3>2. at[m] \in 1 .. clock
      BY <3>1 DEF IInv, StampsInv
    <3>3. at[m] \in 1 .. since
      BY <1>1, <1>2, <1>3, <3>1, <3>2
    <3>4. m \in excused'
      BY <1>4, <2>1, <3>1, <3>3 DEF Written
    <3> QED BY <3>4 DEF Heard
  <2>2. CASE marker # None
    <3>1. marker \in Covered
      BY <2>2 DEF IInv, HeardInv
    <3>2. Due' = Due /\ at' = at /\ excused' = excused /\ told' = told /\ lost' = lost
      BY <1>4, <2>2 DEF Due, Visible, board
    <3>3. \A m \in Messages : Heard(m) => Heard(m)'
      <4>1. \A v \in Watchers : watchers'[v] = watchers[v] \/ watchers[v].pc # "waking"
        BY <1>4 DEF IInv, TypeOK
      <4> QED BY <3>2, <4>1, HeardStays
    <3>4. Due \subseteq Messages
      BY DEF Due, Visible
    <3> QED BY <2>2, <3>1, <3>2, <3>3, <3>4 DEF Covered
  <2> QED BY <2>1, <2>2
<1> HIDE DEF since
<1>6. /\ Polling(since) \in Watcher
      /\ Polling(since).pc = "polling" /\ Polling(since).since = since
  <2>1. 0 \in Times
    BY BoardWatchAssumption, FS_CardinalityType DEF Times
  <2> QED BY <1>3, <2>1 DEF Polling, NoWatcher, Watcher
<1>7. /\ watchers' \in [Watchers -> Watcher] /\ watchers'[w] = Polling(since)
      /\ \A v \in Watchers \ {w} : watchers'[v] = watchers[v]
  BY <1>4, <1>6 DEF IInv, TypeOK
<1>8. WatcherHeard(w)'
  BY <1>5, <1>6, <1>7 DEF WatcherHeard
<1>9. /\ told \subseteq told' /\ lost \subseteq lost' /\ excused \subseteq excused'
      /\ told' \subseteq Messages /\ lost' \subseteq Messages /\ excused' \subseteq Messages
      /\ session' \in {"busy", "idle"} /\ lock' \in Watchers \cup {None}
  BY <1>4 DEF IInv, TypeOK, Written
<1> QED BY <1>4, <1>7, <1>8, <1>9, WatcherStepOK

\* The clock is read and everything newer than since is found after it.
LEMMA PollStep ==
    ASSUME IInv, NEW w \in Watchers, ReadClock(w) \/ Query(w) \/ Retry(w)
    PROVE  IInv'
<1>1. /\ UNCHANGED <<board, session, counts, lock, marker, history>>
      /\ watchers[w].pc \in {"polling", "querying", "recording"}
  BY DEF ReadClock, Query, Retry
<1>2. /\ watchers \in [Watchers -> Watcher] /\ watchers[w] \in Watcher
      /\ clock \in Times /\ 0 \in Times /\ Times \subseteq Nat
  <2>1. Cardinality(Messages) \in Nat
    BY BoardWatchAssumption, FS_CardinalityType
  <2> QED BY <2>1 DEF IInv, TypeOK, Times
<1>3. watchers[w].since \in Covered /\ WatcherHeard(w)
  BY <1>1 DEF IInv, HeardInv, WatcherHeard
<1>4. Visible \subseteq Messages
  BY DEF Visible
<1>5. /\ watchers' \in [Watchers -> Watcher]
      /\ \A v \in Watchers \ {w} : watchers'[v] = watchers[v]
      /\ watchers'[w].pc \in {"polling", "querying", "recording"}
      /\ watchers'[w].since = watchers[w].since
      /\ watchers'[w].pc = "recording" =>
            NewestOf(watchers'[w].found, {m \in Visible : at[m] > watchers[w].since})
  <2>1. CASE ReadClock(w)
    BY <1>2, <2>1 DEF ReadClock, Watcher
  <2>2. CASE Query(w)
    <3> DEFINE news == {m \in Visible : at[m] > watchers[w].since}
    <3>1. CASE watchers' = [watchers EXCEPT ![w] = Polling(@.since)]
      BY <1>2, <3>1 DEF Watcher, Polling, NoWatcher
    <3>2. ASSUME NEW found \in SUBSET news, NewestOf(found, news),
                 watchers' = [watchers EXCEPT ![w].pc = "recording", ![w].found = found]
          PROVE  /\ watchers' \in [Watchers -> Watcher]
                 /\ \A v \in Watchers \ {w} : watchers'[v] = watchers[v]
                 /\ watchers'[w].pc = "recording" /\ watchers'[w].found = found
                 /\ watchers'[w].since = watchers[w].since
      <4>1. found \subseteq Messages
        BY <1>4
      <4> QED BY <1>2, <3>2, <4>1 DEF Watcher
    <3> QED BY <2>2, <3>1, <3>2 DEF Query
  <2>3. CASE Retry(w)
    BY <1>2, <2>3 DEF Retry, SinceAfterFailure, Watcher, Polling, NoWatcher
  <2> QED BY <2>1, <2>2, <2>3
<1>6. /\ told \subseteq told' /\ lost \subseteq lost' /\ excused \subseteq excused'
      /\ told' \subseteq Messages /\ lost' \subseteq Messages /\ excused' \subseteq Messages
      /\ session' \in {"busy", "idle"} /\ lock' \in Watchers \cup {None}
  BY <1>1 DEF IInv, TypeOK, history
<1>7. WatcherHeard(w)'
  <2>1. /\ \A m \in Messages : Heard(m) => Heard(m)'
        /\ Covered \subseteq Covered'
    BY <1>1, <1>5, <1>6, WatcherStep
  <2>2. watchers'[w].since \in Covered'
    BY <1>3, <1>5, <2>1
  <2>3. ASSUME watchers'[w].pc = "recording", NEW m \in Due' PROVE Heard(m)' \/ Held(w, m)'
    <3>1. m \in Visible /\ m \in Due /\ m \in Messages
      BY <1>1 DEF Due, Visible, board
    <3>2. at[m] \in Nat /\ watchers[w].since \in Nat
      BY <1>2, <3>1 DEF IInv, TypeOK, Watcher
    <3>3. CASE at[m] > watchers[w].since
      <4>1. NewestOf(watchers'[w].found, {n \in Visible : at[n] > watchers[w].since})
        BY <1>5, <2>3
      <4>2. m \in {n \in Visible : at[n] > watchers[w].since} /\ at' = at
        BY <1>1, <3>1, <3>3 DEF board
      <4> QED BY <4>1, <4>2 DEF NewestOf, Held
    <3>4. CASE at[m] <= watchers[w].since
      BY <1>3, <2>1, <3>1, <3>4 DEF Covered
    <3> QED BY <3>2, <3>3, <3>4
  <2> QED BY <2>2, <2>3 DEF WatcherHeard
<1> QED BY <1>1, <1>5, <1>6, <1>7, WatcherStepOK

\* An answer is recorded: what is new up to its reading has been heard or is found.
LEMMA RecordStep ==
    ASSUME IInv, NEW w \in Watchers, Record(w)
    PROVE  IInv'
<1>1. /\ watchers[w].pc = "recording" /\ marker' = watchers[w].now
      /\ UNCHANGED <<board, session, counts, lock, history>>
      /\ watchers' = [watchers EXCEPT ![w] =
            IF @.found = {} THEN Polling(watchers[w].now)
                            ELSE [pc |-> "waking", since |-> 0, now |-> 0, found |-> @.found]]
  BY DEF Record, SeenUpTo
<1>2. watchers \in [Watchers -> Watcher] /\ watchers[w] \in Watcher /\ 0 \in Times
  <2>1. Cardinality(Messages) \in Nat
    BY BoardWatchAssumption, FS_CardinalityType
  <2> QED BY <2>1 DEF IInv, TypeOK, Times
<1>3. /\ watchers' \in [Watchers -> Watcher]
      /\ \A v \in Watchers \ {w} : watchers'[v] = watchers[v]
  BY <1>1, <1>2 DEF Polling, NoWatcher, Watcher
<1>4. \/ /\ watchers[w].found = {} /\ watchers'[w].pc = "polling"
         /\ watchers'[w].since = watchers[w].now
      \/ watchers'[w].pc = "waking" /\ watchers'[w].found = watchers[w].found
  BY <1>1, <1>2 DEF Polling, NoWatcher, Watcher
<1>5. /\ told \subseteq told' /\ lost \subseteq lost' /\ excused \subseteq excused'
      /\ told' \subseteq Messages /\ lost' \subseteq Messages /\ excused' \subseteq Messages
      /\ session' \in {"busy", "idle"} /\ lock' \in Watchers \cup {None}
  BY <1>1 DEF IInv, TypeOK, history
<1>6. \A m \in Messages : Heard(m) => Heard(m)'
  BY <1>1, <1>3, <1>5, WatcherStep
<1>7. watchers[w].now \in Covered'
  <2>1. watchers[w].now \in Times
    BY <1>2 DEF Watcher
  <2> SUFFICES ASSUME NEW m \in Due', at'[m] <= watchers[w].now PROVE Heard(m)'
    BY <2>1 DEF Covered
  <2>2. m \in Due /\ m \in Messages /\ at[m] <= watchers[w].now
    BY <1>1 DEF Due, Visible, board
  <2>3. Heard(m) \/ Held(w, m)
    BY <1>1, <2>2 DEF IInv, HeardInv, WatcherHeard
  <2>4. ASSUME Cardinality(watchers[w].found) = Limit,
               \A n \in watchers[w].found : at[m] < at[n]
        PROVE  Crowded(m)'
    <3> DEFINE N == {n \in Messages : at'[n] > at'[m] /\ Announced(n)'}
    <3>1. watchers[w].found \subseteq Messages /\ watchers[w].found # {}
      BY <1>2, <2>4, BoardWatchAssumption, FS_EmptySet DEF Watcher
    <3>2. \A n \in watchers[w].found : Announced(n)' /\ at'[n] > at'[m]
      <4>1. at' = at /\ Times \subseteq Nat
        BY <1>1, BoardWatchAssumption, FS_CardinalityType DEF board, Times
      <4>2. \A n \in Messages : at[n] \in Nat
        BY <4>1 DEF IInv, TypeOK
      <4> QED BY <1>4, <2>2, <2>4, <3>1, <4>1, <4>2 DEF Announced
    <3>3. watchers[w].found \subseteq N /\ IsFiniteSet(N)
      BY <3>1, <3>2, BoardWatchAssumption, FS_Subset
    <3> HIDE DEF N
    <3>4. Cardinality(N) >= Limit
      BY <2>4, <3>3, BoardWatchAssumption, FS_Subset, FS_CardinalityType
    <3> QED BY <3>4 DEF N, Crowded
  <2>5. m \in watchers[w].found => Announced(m)'
    BY <1>4 DEF Announced
  <2> QED BY <1>6, <2>2, <2>3, <2>4, <2>5 DEF Heard, Held
<1>8. WatcherHeard(w)'
  BY <1>4, <1>7 DEF WatcherHeard
<1> QED BY <1>1, <1>3, <1>5, <1>7, <1>8, WatcherStepOK

\* A watcher ends: the session is told what it was to be told, or it is lost.
LEMMA EndStep ==
    ASSUME IInv, NEW w \in Watchers, Wake(w) \/ Quit(w) \/ Kill(w)
    PROVE  IInv'
<1>1. /\ watchers' = [watchers EXCEPT ![w] = Ended]
      /\ UNCHANGED <<board, counts>> /\ marker' \in {marker, None}
  BY DEF Wake, Quit, Kill, Interrupted
<1>2. watchers \in [Watchers -> Watcher] /\ watchers[w].found \subseteq Messages
      /\ Ended \in Watcher /\ Ended.pc = "ended"
  <2>1. 0 \in Times
    BY BoardWatchAssumption, FS_CardinalityType DEF Times
  <2> QED BY <2>1 DEF IInv, TypeOK, Watcher, NoWatcher, Ended
<1>3. /\ watchers' \in [Watchers -> Watcher] /\ watchers'[w].pc = "ended"
      /\ \A v \in Watchers \ {w} : watchers'[v] = watchers[v]
  BY <1>1, <1>2 DEF IInv, TypeOK
<1>4. /\ told \subseteq told' /\ lost \subseteq lost' /\ excused \subseteq excused'
      /\ told' \subseteq Messages /\ lost' \subseteq Messages /\ excused' \subseteq Messages
      /\ session' \in {"busy", "idle"} /\ lock' \in Watchers \cup {None}
      /\ watchers[w].pc = "waking" => watchers[w].found \subseteq told' \cup lost'
  BY <1>2 DEF IInv, TypeOK, history, Wake, Quit, Kill
<1>5. WatcherHeard(w)'
  BY <1>3, NothingHeld
<1> QED BY <1>1, <1>3, <1>4, <1>5, WatcherStepOK

-----------------------------------------------------------------------------
\* The clock moves on, for a message that nobody can see yet.
LEMMA StampStep ==
    ASSUME IInv, NEW m \in Messages, Stamp(m)
    PROVE  IInv'
<1> DEFINE S == {n \in Messages : status[n] # "none"}
<1>1. /\ status[m] = "none" /\ clock' = clock + 1
      /\ at' = [at EXCEPT ![m] = clock + 1]
      /\ status' = [status EXCEPT ![m] = "stamped"]
      /\ UNCHANGED <<session, counts, watchers, lock, marker, told, excused, lost, late>>
  BY DEF Stamp, history
<1>2. /\ status \in [Messages -> {"none", "stamped", "visible", "resolved"}]
      /\ at \in [Messages -> Times] /\ clock \in Times /\ clock = Cardinality(S)
      /\ \A n \in Messages : IF status[n] = "none" THEN at[n] = 0 ELSE at[n] \in 1 .. clock
  BY DEF IInv, TypeOK, StampsInv
<1>3. {n \in Messages : status'[n] # "none"} = S \cup {m}
  BY <1>1, <1>2
<1>4. /\ Cardinality(S \cup {m}) = Cardinality(S) + 1 /\ Cardinality(S) \in Nat
      /\ Cardinality(S \cup {m}) <= Cardinality(Messages) /\ Cardinality(Messages) \in Nat
  <2>1. IsFiniteSet(Messages) /\ S \cup {m} \subseteq Messages /\ m \notin S
    BY <1>1, BoardWatchAssumption
  <2>2. IsFiniteSet(S)
    BY <2>1, FS_Subset
  <2> HIDE DEF S
  <2>3. Cardinality(S \cup {m}) = Cardinality(S) + 1
    BY <2>1, <2>2, FS_AddElement
  <2> QED BY <2>1, <2>2, <2>3, FS_Subset, FS_CardinalityType
<1> HIDE DEF S
<1>5. clock' \in Times /\ clock' \in Nat /\ clock \in Nat
  BY <1>1, <1>2, <1>4 DEF Times
<1>6. TypeOK'
  <2>1. /\ at' \in [Messages -> Times]
        /\ status' \in [Messages -> {"none", "stamped", "visible", "resolved"}]
    BY <1>1, <1>2, <1>5
  <2> QED BY <1>1, <1>5, <2>1 DEF IInv, TypeOK
<1>7. StampsInv'
  <2>1. clock' = Cardinality({n \in Messages : status'[n] # "none"})
    BY <1>1, <1>2, <1>3, <1>4
  <2>2. ASSUME NEW n \in Messages
        PROVE  IF status'[n] = "none" THEN at'[n] = 0 ELSE at'[n] \in 1 .. clock'
    BY <1>1, <1>2, <1>5
  <2> QED BY <2>1, <2>2 DEF StampsInv
<1>8. HeardInv'
  <2>1. /\ Due' = Due /\ \A n \in Due : at'[n] = at[n]
        /\ \A n \in Messages : at'[n] = at[n] \/ at[n] = 0
    BY <1>1, <1>2 DEF Due, Visible
  <2>2. /\ \A n \in Messages : at'[n] = at[n] /\ Heard(n) => Heard(n)'
        /\ \A w \in Watchers : WatcherHeard(w)'
    BY <1>1, <2>1, HeardStep
  <2>3. Covered \subseteq Covered' /\ Due \subseteq Messages
    BY <2>1, <2>2 DEF Covered, Due, Visible
  <2>4. CountsHeard'
    BY <1>1, <2>1, <2>2, <2>3 DEF IInv, HeardInv, CountsHeard
  <2> QED BY <1>1, <2>2, <2>3, <2>4 DEF IInv, HeardInv
<1> QED BY <1>6, <1>7, <1>8 DEF IInv

\* A message becomes visible behind a reading and is late, or ahead of them all.
LEMMA PublishStep ==
    ASSUME IInv, NEW m \in Messages, Publish(m)
    PROVE  IInv'
<1>1. /\ status[m] = "stamped" /\ status' = [status EXCEPT ![m] = "visible"]
      /\ late' = IF (\E t \in Readings : at[m] <= t) \/ counts.pc = "counted" THEN late \cup {m} ELSE late
      /\ UNCHANGED <<clock, at, session, counts, watchers, lock, marker, told, excused, lost>>
  BY DEF Publish, history
<1>2. /\ status \in [Messages -> {"none", "stamped", "visible", "resolved"}]
      /\ at \in [Messages -> Times] /\ Times \subseteq Nat /\ late \subseteq Messages
  <2>1. Cardinality(Messages) \in Nat
    BY BoardWatchAssumption, FS_CardinalityType
  <2> QED BY <2>1 DEF IInv, TypeOK, Times
<1>3. TypeOK'
  BY <1>1, <1>2 DEF IInv, TypeOK
<1>4. StampsInv'
  <2>1. {n \in Messages : status'[n] # "none"} = {n \in Messages : status[n] # "none"}
    BY <1>1, <1>2
  <2> QED BY <1>1, <1>2, <2>1 DEF IInv, StampsInv
<1>5. /\ \A n \in Due' : n \in Due \/ \A t \in Readings : at[n] > t
      /\ counts.pc = "counted" => Due' \subseteq Due
  <2>1. Readings \subseteq Nat /\ at[m] \in Nat
    <3>1. \A w \in Watchers : watchers[w].since \in Times /\ watchers[w].now \in Times
      BY DEF IInv, TypeOK, Watcher
    <3>2. Readings \subseteq Times
      BY <3>1 DEF Readings
    <3> QED BY <1>2, <3>2
  <2>2. \A n \in Due' : n # m => n \in Due
    BY <1>1, <1>2 DEF Due, Visible
  <2>3. m \in Due' => counts.pc # "counted" /\ \A t \in Readings : ~(at[m] <= t)
    BY <1>1 DEF Due
  <2>4. \A t \in Readings : ~(at[m] <= t) => at[m] > t
    BY <1>2, <2>1
  <2> QED BY <2>2, <2>3, <2>4
<1>6. /\ \A n \in Messages : Heard(n) => Heard(n)'
      /\ Covered \cap Readings \subseteq Covered'
      /\ \A w \in Watchers : WatcherHeard(w)'
  BY <1>1, <1>5, HeardStep
<1>7. (marker # None => marker \in Readings) /\ counts.now \in Readings
  BY DEF IInv, TypeOK, Readings
<1>8. CountsHeard'
  <2>1. Due \subseteq Messages
    BY DEF Due, Visible
  <2> QED BY <1>1, <1>5, <1>6, <1>7, <2>1 DEF IInv, HeardInv, CountsHeard
<1> QED BY <1>1, <1>3, <1>4, <1>6, <1>7, <1>8 DEF IInv, HeardInv

\* A resolved thread is no longer due.
LEMMA ResolveStep ==
    ASSUME IInv, NEW m \in Messages, Resolve(m)
    PROVE  IInv'
<1>1. /\ status[m] = "visible" /\ status' = [status EXCEPT ![m] = "resolved"]
      /\ late' = late \ {m}
      /\ UNCHANGED <<clock, at, session, counts, watchers, lock, marker, told, excused, lost>>
  BY DEF Resolve, history
<1>2. /\ status \in [Messages -> {"none", "stamped", "visible", "resolved"}]
      /\ late \subseteq Messages
  BY DEF IInv, TypeOK
<1>3. TypeOK'
  BY <1>1, <1>2 DEF IInv, TypeOK
<1>4. StampsInv'
  <2>1. {n \in Messages : status'[n] # "none"} = {n \in Messages : status[n] # "none"}
    BY <1>1, <1>2
  <2> QED BY <1>1, <1>2, <2>1 DEF IInv, StampsInv
<1>5. Due' \subseteq Due /\ Due \subseteq Messages
  BY <1>1, <1>2 DEF Due, Visible
<1>6. /\ \A n \in Messages : Heard(n) => Heard(n)'
      /\ \A w \in Watchers : WatcherHeard(w)'
  BY <1>1, <1>5, HeardStep
<1>7. Covered \subseteq Covered'
  BY <1>1, <1>5, <1>6 DEF Covered
<1>8. CountsHeard'
  BY <1>1, <1>5, <1>6, <1>7 DEF IInv, HeardInv, CountsHeard
<1> QED BY <1>1, <1>3, <1>4, <1>6, <1>7, <1>8 DEF IInv, HeardInv

\* The counts, from what is counted to the marker, and the user's prompt.
LEMMA CountsStep ==
    ASSUME IInv, CountBoard \/ ProbeCounts \/ RecordCounts \/ FailCounts \/ Prompt
    PROVE  IInv'
<1>1. UNCHANGED <<board, watchers, lock, told, lost>>
  BY DEF CountBoard, ProbeCounts, RecordCounts, FailCounts, Prompt, history
<1>2. Visible \subseteq Messages /\ 0 \in Times /\ clock \in Times
  BY BoardWatchAssumption, FS_CardinalityType DEF Visible, Times, IInv, TypeOK
<1>3. TypeOK'
  BY <1>1, <1>2 DEF IInv, TypeOK, board, history, NoCounts,
                    CountBoard, ProbeCounts, RecordCounts, FailCounts, Prompt
<1>4. StampsInv'
  BY <1>1 DEF IInv, StampsInv, board
<1>5. Due' = Due /\ Due \subseteq Messages /\ at' = at
  BY <1>1 DEF Due, Visible, board
<1>6. excused \subseteq excused'
  BY DEF CountBoard, ProbeCounts, RecordCounts, FailCounts, Prompt, history
<1>7. /\ \A m \in Messages : Heard(m) => Heard(m)'
      /\ \A w \in Watchers : WatcherHeard(w)'
  BY <1>1, <1>5, <1>6, HeardStep
<1>8. Covered \subseteq Covered'
  BY <1>5, <1>7 DEF Covered
<1>9. CountsHeard' /\ (marker' # None => marker' \in Covered')
  <2>1. CountsHeard /\ (marker # None => marker \in Covered)
    BY DEF IInv, HeardInv
  <2>2. CASE CountBoard
    <3>1. counts'.pc = "counted" /\ marker' = marker /\ excused' = excused \cup Visible
      BY <2>2 DEF CountBoard, IInv, TypeOK
    <3>2. \A m \in Due' : Heard(m)'
      BY <1>5, <3>1 DEF Heard, Due
    <3> QED BY <1>8, <2>1, <3>1, <3>2 DEF CountsHeard
  <2>3. CASE ProbeCounts
    <3>1. counts.pc = "counted" /\ counts' = [pc |-> "probed", now |-> clock] /\ marker' = marker
      BY <2>3 DEF ProbeCounts
    <3>2. clock \in Covered'
      BY <1>2, <1>5, <1>7, <2>1, <3>1 DEF CountsHeard, Covered
    <3> QED BY <1>8, <2>1, <3>1, <3>2 DEF CountsHeard
  <2>4. CASE RecordCounts
    BY <1>8, <2>1, <2>4 DEF RecordCounts, NoCounts, CountsHeard
  <2>5. CASE FailCounts
    BY <1>8, <2>1, <2>5 DEF FailCounts, NoCounts, CountsHeard
  <2>6. CASE Prompt
    BY <1>5, <1>7, <1>8, <2>1, <2>6 DEF Prompt, CountsHeard
  <2> QED BY <2>2, <2>3, <2>4, <2>5, <2>6
<1> QED BY <1>3, <1>4, <1>7, <1>9 DEF IInv, HeardInv

-----------------------------------------------------------------------------
\* Nothing is written and nothing has been read.
LEMMA InitOK == Init => IInv
<1> SUFFICES ASSUME Init PROVE IInv
  OBVIOUS
<1>1. 0 \in Times
  BY BoardWatchAssumption, FS_CardinalityType DEF Times
<1>2. TypeOK
  BY <1>1 DEF Init, TypeOK, Watcher, NoWatcher, NoCounts
<1>3. StampsInv
  <2>1. {m \in Messages : status[m] # "none"} = {}
    BY DEF Init
  <2> QED BY <2>1, FS_EmptySet DEF Init, StampsInv
<1>4. HeardInv
  BY DEF Init, HeardInv, CountsHeard, WatcherHeard, NoCounts, NoWatcher
<1> QED BY <1>2, <1>3, <1>4 DEF IInv

\* Every action keeps the invariant.
LEMMA NextOK == IInv /\ [Next]_vars => IInv'
<1> SUFFICES ASSUME IInv, [Next]_vars PROVE IInv'
  OBVIOUS
<1>1. ASSUME NEW m \in Messages, Stamp(m) \/ Publish(m) \/ Resolve(m) PROVE IInv'
  BY <1>1, StampStep, PublishStep, ResolveStep
<1>2. CASE CountBoard \/ ProbeCounts \/ RecordCounts \/ FailCounts \/ Prompt
  BY <1>2, CountsStep
<1>3. ASSUME NEW w \in Watchers,
             \/ Stop(w) \/ FindLock(w) \/ TakeLock(w) \/ Start(w)
             \/ ReadClock(w) \/ Query(w) \/ Record(w) \/ Retry(w)
             \/ Wake(w) \/ Quit(w) \/ Kill(w)
      PROVE  IInv'
  BY <1>3, ArmStep, StartStep, PollStep, RecordStep, EndStep
<1>4. CASE UNCHANGED vars
  BY <1>4 DEF vars, IInv, TypeOK, StampsInv, HeardInv, CountsHeard, WatcherHeard, Covered, Due,
              Visible, Heard, Announced, Crowded, Held
<1> QED BY <1>1, <1>2, <1>3, <1>4 DEF Next

\* The invariant, for any messages, watchers and readings of the clock.
THEOREM Invariant == Spec => []IInv
BY InitOK, NextOK, PTL DEF Spec

\* The files, the processes and what the session knows are always well typed.
THEOREM TypeCorrect == Spec => []TypeOK
<1>1. IInv => TypeOK
  BY DEF IInv
<1> QED BY <1>1, Invariant, PTL

\* However many watchers and messages there are, the marker passes an unheard
\* message only where a watcher was killed between writing the marker and telling,
\* or a full answer left the message out (BoardWatch, runBoardWait, board_wait.go:115).
THEOREM NothingPassed == Spec => []NothingSkipped
<1>1. IInv => NothingSkipped
  BY DEF IInv, HeardInv, Covered, Due, Heard, NothingSkipped
<1> QED BY <1>1, Invariant, PTL

-----------------------------------------------------------------------------
(* The client's identity. *)

\* A request on its way: what it asserts and names has the kind its method takes.
\* Registrations are the only ones that can do without an identity.
WellFormed(q) ==
    /\ q \in Request \ {NoRequest}
    /\ q.op = "register" => q.names \in Codes
    /\ q.op \in {"claim", "claiming", "migrate"} => q.asserts \in State /\ q.names \in Devices
    /\ q.op = "whoami" => q.asserts \in State /\ q.names \in Codes

IsSending(thread) == thread.pc \in {"sent", "merged", "answered", "saved"}
IsRegistering(thread) == thread.pc # "waiting" /\ thread.request.op = "register"

\* A tool call holds what its step needs.
CallOK(thread) ==
    /\ thread.pc = "idle" => thread = Idle
    /\ thread.pc \in {"waiting", "registered"} => thread.request = NoRequest
    /\ thread.op \in {"claim", "migrate"} => thread.names \in Devices
    /\ thread.op \in {"register", "whoami"} => thread.names \in Asked \cup {Unknown}
    /\ thread.pc = "registered" => thread.op # "register"
    /\ IsSending(thread) => /\ WellFormed(thread.request)
                            /\ thread.request.op \in {"register", thread.op}
                                    \cup IF thread.op = "claim" THEN {"claiming"} ELSE {}
    /\ thread.pc = "merged" => thread.request.op = "migrate"
    /\ thread.pc \in {"answered", "saved"} => thread.answer \in State

\* The installations a process may act for: the one it came to act for first, and those
\* its calls have named.
Own(p) == ({mine[p]} \cup named[p]) \ {Unknown}

\* The copy c its process has while a call is under way: none as long as the call
\* registers without an identity.  An identity that it asserts, an installation it names
\* and the answer it gets are then of the process's own.
CopyOK(thread, c, own) ==
    /\ thread.pc = "registered" => c \in State
    /\ thread.op \in {"register", "whoami"} /\ thread.names # Unknown => thread.names \in own
    /\ IsSending(thread) =>
          IF thread.request.asserts = NoState THEN c = NoState
          ELSE /\ c \in State /\ thread.request.asserts.installation \in own
               /\ thread.request.op \in {"register", "whoami"} => thread.request.names \in own
    /\ thread.pc \in {"answered", "saved"} /\ thread.request.asserts # NoState =>
          thread.answer.installation \in own

\* registrationMu
MutexInv ==
    \A t, u \in Threads :
        ProcessOf[t] = ProcessOf[u] /\ IsRegistering(threads[t]) /\ IsRegistering(threads[u]) => t = u

\* The copies and what is remembered of them.
CopiesOK ==
    /\ copy \in [Processes -> {Unknown, NoState} \cup State]
    /\ mine \in [Processes -> Codes \cup {Unknown}] /\ named \in [Processes -> SUBSET Codes]
    /\ \A p \in Processes : IF copy[p] \in State THEN copy[p].installation \in Own(p) ELSE mine[p] = Unknown

ClientInv ==
    /\ ClientTypeOK
    /\ CopiesOK
    /\ \A q \in strays : WellFormed(q)
    /\ \A t \in Threads : CallOK(threads[t]) /\ CopyOK(threads[t], Copy(t), Own(ProcessOf[t]))
    /\ MutexInv

-----------------------------------------------------------------------------
\* The types of the server's tables, and of what a client keeps.
ServerOK ==
    /\ deviceOf \in [Codes -> Devices \cup {Unknown}]
    /\ statusOf \in [Devices -> {"none", "active", "merged"}]
    /\ mergedInto \in [Devices -> Devices \cup {Unknown}]
    /\ tailnet \in BOOLEAN /\ bound \in Codes \cup {Unknown}
    /\ matching \subseteq Codes /\ stale \subseteq Codes \X Devices
    /\ faults \in 0 .. MaxFaults

\* The values that stand for no identity and no call, and what the idle call is.
LEMMA Kinds ==
    /\ NoState \notin State /\ Unknown \notin State /\ Unknown # NoState
    /\ Idle \in Thread /\ NoRequest \in Request /\ Other \in Codes
    /\ CallOK(Idle) /\ \A c, own : CopyOK(Idle, c, own)
    /\ ~IsRegistering(Idle)
    /\ \A t \in Threads : ProcessOf[t] \in Processes
<1>1. NoState \notin State /\ Unknown \notin State /\ Unknown # NoState
  BY ClientIdentityAssumption DEF NoState, State
<1>2. NoRequest \in Request /\ Idle \in Thread
  BY DEF Request, Thread
<1>3. CallOK(Idle) /\ (\A c, own : CopyOK(Idle, c, own)) /\ ~IsRegistering(Idle)
  BY DEF CallOK, CopyOK, Idle, IsSending, IsRegistering, NoRequest
<1>4. Other \in Codes /\ \A t \in Threads : ProcessOf[t] \in Processes
  BY ClientIdentityAssumption DEF Codes
<1> QED BY <1>1, <1>2, <1>3, <1>4

\* A record of a tool call that is not idle, field by field.
LEMMA CallFields ==
    ASSUME NEW th \in Thread
    PROVE  /\ th.pc \in {"idle", "waiting", "sent", "merged", "answered", "saved", "registered"}
           /\ th.op \in Ops \cup {"none"}
           /\ th.names \in Devices \cup Codes \cup {Unknown}
           /\ th.request \in Request /\ th.answer \in {NoState} \cup State
           /\ th # Idle => th.op \in Ops /\ th.pc # "idle"
  BY Kinds DEF Thread, Idle

\* A request on its way, field by field.
LEMMA RequestFields ==
    ASSUME NEW q, WellFormed(q)
    PROVE  /\ q.op \in {"register", "whoami", "claim", "claiming", "migrate"} /\ q \in Request
           /\ q.asserts \in {NoState} \cup State
           /\ q.asserts \in State =>
                q.asserts.installation \in Codes /\ q.asserts.device \in Devices
           /\ q.op \in {"register", "whoami"} => q.names \in Codes
           /\ q.op \in {"claim", "claiming", "migrate"} => q.names \in Devices
           /\ q.op # "register" => q.asserts \in State
  BY DEF WellFormed, Request, Ops, State

\* What pods keep in their caches is of installations that were on a device.
LEMMA CachesOK ==
    ASSUME ServerOK, CachesKeep
    PROVE  stale' \subseteq Codes \X Devices /\ faults' \in 0 .. MaxFaults
<1> DEFINE moved == {i \in Codes : Resolved(i) # Unknown /\ Resolved(i)' # Resolved(i)}
<1>1. \A i \in moved : Resolved(i) \in Devices
  BY DEF Resolved, Active
<1>2. moved \subseteq Codes
  OBVIOUS
<1>3. \/ UNCHANGED <<stale, faults>>
      \/ \E kept \in SUBSET moved \ {{}} :
            /\ stale' = stale \cup {<<i, Resolved(i)>> : i \in kept}
            /\ faults < MaxFaults /\ faults' = faults + 1
  BY DEF CachesKeep
<1> HIDE DEF moved
<1>4. CASE UNCHANGED <<stale, faults>>
  BY <1>4 DEF ServerOK
<1>5. ASSUME NEW kept \in SUBSET moved, stale' = stale \cup {<<i, Resolved(i)>> : i \in kept},
             faults < MaxFaults, faults' = faults + 1
      PROVE  stale' \subseteq Codes \X Devices /\ faults' \in 0 .. MaxFaults
  <2>1. faults' \in 0 .. MaxFaults
    BY <1>5, ClientIdentityAssumption DEF ServerOK
  <2>2. \A i \in kept : <<i, Resolved(i)>> \in Codes \X Devices
    BY <1>1, <1>2, <1>5
  <2>3. stale \subseteq Codes \X Devices
    BY DEF ServerOK
  <2> QED BY <1>5, <2>1, <2>2, <2>3
<1> QED BY <1>3, <1>4, <1>5

\* A claim and a migration leave the tables in order.
LEMMA ClaimsOK ==
    ASSUME ServerOK, NEW i \in Codes, NEW d \in Devices, Claims(i, d)
    PROVE  ServerOK'
<1>1. stale' \subseteq Codes \X Devices /\ faults' \in 0 .. MaxFaults
  BY CachesOK DEF Claims
<1> QED BY <1>1 DEF Claims, ServerOK

LEMMA MigratesOK ==
    ASSUME ServerOK, NEW source \in Devices, NEW target \in Devices, Migrates(source, target)
    PROVE  ServerOK'
<1>1. stale' \subseteq Codes \X Devices /\ faults' \in 0 .. MaxFaults
  BY CachesOK DEF Migrates
<1> QED BY <1>1 DEF Migrates, ServerOK

\* What a request leaves in the tables, and the device its answer comes with.
LEMMA Served ==
    ASSUME ServerOK, NEW q, WellFormed(q), NEW taken, ~Refuses(q, taken), Performs(q)
    PROVE  /\ ServerOK'
           /\ q.op = "register" => deviceOf'[q.names] \in Devices
           /\ q.op = "whoami" => Resolved(q.names) \in Devices
<1>1. CASE q.op = "register"
  <2>1. Registers(q) /\ q.names \in Codes
    BY <1>1, RequestFields DEF Performs
  <2>2. Choice \subseteq Devices
    BY DEF Choice, Candidates, First
  <2>3. /\ deviceOf' \in [Codes -> Devices \cup {Unknown}] /\ deviceOf'[q.names] \in Devices
        /\ statusOf' \in [Devices -> {"none", "active", "merged"}]
    BY <2>1, <2>2 DEF Registers, ServerOK
  <2>4. bound' \in Codes \cup {Unknown} /\ matching' \subseteq Codes
    BY <2>1 DEF Registers, ServerOK
  <2>5. UNCHANGED <<mergedInto, tailnet, stale, faults>>
    BY <2>1 DEF Registers
  <2> QED BY <1>1, <2>3, <2>4, <2>5 DEF ServerOK
<1>2. CASE q.op = "claiming"
  <2>1. Claims(q.asserts.installation, q.names)
    BY <1>2 DEF Performs
  <2> QED BY <1>2, <2>1, RequestFields, ClaimsOK
<1>3. CASE q.op = "migrate"
  <2>1. Migrates(q.asserts.device, q.names)
    BY <1>3 DEF Performs
  <2> QED BY <1>3, <2>1, RequestFields, MigratesOK
<1>4. CASE q.op \in {"claim", "whoami"}
  <2>1. UNCHANGED <<server, faults>>
    BY <1>4 DEF Performs
  <2>2. q.op = "whoami" => Resolved(q.names) # Unknown
    BY <1>4 DEF Refuses
  <2>3. q.op = "whoami" => Resolved(q.names) \in Devices
    BY <2>2 DEF Resolved, Active
  <2> QED BY <1>4, <2>1, <2>3 DEF server, tables, ServerOK
<1> QED BY <1>1, <1>2, <1>3, <1>4, RequestFields

\* A step of call t, which leaves th of it, keeps the invariant if th is in order
\* and the copies suit the other calls.
LEMMA StepOf ==
    ASSUME ClientInv, NEW t \in Threads, NEW th \in Thread, Set(t, th),
           CallOK(th), CopyOK(th, copy'[ProcessOf[t]], Own(ProcessOf[t])'),
           \A u \in Threads \ {t} : CopyOK(threads[u], copy'[ProcessOf[u]], Own(ProcessOf[u])'),
           IsRegistering(th) => IsRegistering(threads[t]) \/ MutexFree(t),
           ServerOK', CopiesOK', file' \in {NoState} \cup State,
           strays' \subseteq Request, \A q \in strays' : WellFormed(q),
           moves' \in 0 .. MaxMoves
    PROVE  ClientInv'
<1>1. /\ threads' \in [Threads -> Thread] /\ threads'[t] = th
      /\ \A u \in Threads \ {t} : threads'[u] = threads[u]
  BY DEF ClientInv, ClientTypeOK, Set
<1>2. ClientTypeOK'
  BY <1>1 DEF ClientTypeOK, ServerOK, CopiesOK
<1>3. \A u \in Threads : CallOK(threads'[u]) /\ CopyOK(threads'[u], copy'[ProcessOf[u]], Own(ProcessOf[u])')
  BY <1>1 DEF ClientInv
<1>4. MutexInv'
  <2> SUFFICES ASSUME NEW u \in Threads, NEW v \in Threads, ProcessOf[u] = ProcessOf[v],
                      IsRegistering(threads'[u]), IsRegistering(threads'[v]), u # v
               PROVE  FALSE
    BY DEF MutexInv, IsRegistering
  <2>1. ASSUME NEW w \in Threads \ {t}, IsRegistering(th), IsRegistering(threads[w]),
               ProcessOf[t] = ProcessOf[w]
        PROVE  FALSE
    BY <2>1 DEF MutexFree, Registering, IsRegistering, ClientInv, MutexInv
  <2> QED BY <1>1, <2>1 DEF ClientInv, MutexInv
<1>5. \A u \in Threads : Copy(u)' = copy'[ProcessOf[u]]
  BY DEF Copy
<1> QED BY <1>2, <1>3, <1>4, <1>5 DEF ClientInv, CallOK, CopyOK, IsSending, IsRegistering, WellFormed

\* What is known of the copies and the calls stays true when the process gets more
\* installations of its own.
LEMMA OwnMore ==
    ASSUME NEW th, NEW c, NEW own, NEW more, own \subseteq more, CopyOK(th, c, own)
    PROVE  CopyOK(th, c, more)
  BY DEF CopyOK

\* The calls of a process may name more codes.
NamedGrows ==
    /\ named' \in [Processes -> SUBSET Codes]
    /\ \A p \in Processes : named[p] \subseteq named'[p]

\* The copies suit the calls they suited if they stay as they are, or if one that
\* has yet to be loaded is.
LEMMA CopiesStay ==
    ASSUME ClientInv, UNCHANGED <<copy, mine>>, NamedGrows
    PROVE  /\ \A u \in Threads : CopyOK(threads[u], copy'[ProcessOf[u]], Own(ProcessOf[u])')
           /\ CopiesOK' /\ \A p \in Processes : Own(p) \subseteq Own(p)'
<1>1. \A p \in Processes : Own(p) \subseteq Own(p)'
  BY DEF Own, NamedGrows
<1>2. CopiesOK'
  BY <1>1 DEF ClientInv, CopiesOK, NamedGrows
<1>3. ASSUME NEW u \in Threads PROVE CopyOK(threads[u], copy'[ProcessOf[u]], Own(ProcessOf[u])')
  <2>1. CopyOK(threads[u], copy'[ProcessOf[u]], Own(ProcessOf[u]))
    BY DEF ClientInv, Copy
  <2> QED BY <1>1, <2>1, Kinds, OwnMore
<1> QED BY <1>1, <1>2, <1>3

\* What a process remembers when it comes by an identity.
LEMMA Begun ==
    ASSUME ClientInv, NEW t \in Threads, NEW state \in {NoState} \cup State, Begins(t, state), NamedGrows,
           copy' = [copy EXCEPT ![ProcessOf[t]] = state], Copy(t) \in State => state \in State,
           Copy(t) \in State => state.installation \in Own(ProcessOf[t])
    PROVE  CopiesOK' /\ \A p \in Processes : Own(p) \subseteq Own(p)'
<1> DEFINE q == ProcessOf[t]
<1>1. /\ q \in Processes /\ copy' \in [Processes -> {Unknown, NoState} \cup State] /\ copy'[q] = state
      /\ \A p \in Processes \ {q} : copy'[p] = copy[p]
  BY Kinds DEF ClientInv, CopiesOK
<1>2. state # NoState => state \in State /\ state.installation \in Codes /\ state.installation # Unknown
  BY ClientIdentityAssumption DEF State
<1>3. /\ mine' \in [Processes -> Codes \cup {Unknown}]
      /\ \A p \in Processes \ {q} : mine'[p] = mine[p]
      /\ mine'[q] = IF Copy(t) \notin State /\ state # NoState THEN state.installation ELSE mine[q]
  BY <1>1, <1>2 DEF Begins, ClientInv, CopiesOK
<1>4. Copy(t) \notin State => mine[q] = Unknown
  BY <1>1 DEF ClientInv, CopiesOK, Copy
<1>5. \A p \in Processes : Own(p) \subseteq Own(p)'
  BY <1>3, <1>4 DEF Own, NamedGrows
<1>6. ASSUME NEW p \in Processes
      PROVE  IF copy'[p] \in State THEN copy'[p].installation \in Own(p)' ELSE mine'[p] = Unknown
  <2>1. CASE p # q
    BY <1>1, <1>3, <1>5, <2>1 DEF ClientInv, CopiesOK
  <2>2. CASE p = q /\ Copy(t) \in State
    BY <1>1, <1>5, <2>2
  <2>3. CASE p = q /\ Copy(t) \notin State /\ state = NoState
    BY <1>1, <1>3, <1>4, <2>3, Kinds
  <2>4. CASE p = q /\ Copy(t) \notin State /\ state # NoState
    <3>1. state.installation \in Own(q)'
      BY <1>2, <1>3, <2>4 DEF Own
    <3> QED BY <1>1, <1>2, <2>4, <3>1
  <2> QED BY <2>1, <2>2, <2>3, <2>4
<1> QED BY <1>1, <1>3, <1>5, <1>6 DEF CopiesOK, NamedGrows

\* So they are when loadIdentity gives a process the identity of the file.
LEMMA CopiesLoaded ==
    ASSUME ClientInv, NEW t \in Threads, KeepsLoaded(t), Begins(t, Loaded(t)), NamedGrows
    PROVE  /\ \A u \in Threads : CopyOK(threads[u], copy'[ProcessOf[u]], Own(ProcessOf[u])')
           /\ CopiesOK' /\ \A p \in Processes : Own(p) \subseteq Own(p)'
           /\ copy'[ProcessOf[t]] = Loaded(t) /\ Loaded(t) \in {NoState} \cup State
           /\ Loaded(t) \in State => Loaded(t).installation \in Own(ProcessOf[t])'
<1>1. Loaded(t) \in {NoState} \cup State
  BY Kinds DEF ClientInv, ClientTypeOK, Loaded, Copy
<1>2. Copy(t) \in State => Loaded(t) = Copy(t) /\ Loaded(t).installation \in Own(ProcessOf[t])
  BY Kinds DEF ClientInv, CopiesOK, Loaded, Copy
<1>3. CopiesOK' /\ \A p \in Processes : Own(p) \subseteq Own(p)'
  BY <1>1, <1>2, Begun DEF KeepsLoaded
<1>4. /\ copy'[ProcessOf[t]] = Loaded(t)
      /\ \A p \in Processes \ {ProcessOf[t]} : copy'[p] = copy[p]
  BY <1>1, Kinds DEF ClientInv, ClientTypeOK, KeepsLoaded
<1>5. ASSUME NEW u \in Threads PROVE CopyOK(threads[u], copy'[ProcessOf[u]], Own(ProcessOf[u])')
  <2>1. CopyOK(threads[u], Copy(u), Own(ProcessOf[u])')
    BY <1>3, Kinds, OwnMore DEF ClientInv
  <2>2. CASE ProcessOf[u] = ProcessOf[t] /\ Copy(t) = Unknown
    <3>1. ~IsSending(threads[u]) /\ threads[u].pc # "registered"
      BY <2>1, <2>2, Kinds DEF CopyOK, Copy
    <3> QED BY <2>1, <3>1 DEF CopyOK, IsSending
  <2>3. CASE ProcessOf[u] = ProcessOf[t] /\ Copy(t) # Unknown
    <3>1. copy'[ProcessOf[u]] = Copy(u)
      BY <1>4, <2>3 DEF Loaded, Copy
    <3> QED BY <2>1, <3>1
  <2>4. CASE ProcessOf[u] # ProcessOf[t]
    BY <1>4, <2>1, <2>4, Kinds DEF Copy
  <2> QED BY <2>2, <2>3, <2>4
<1>6. Loaded(t) \in State => Loaded(t).installation \in Own(ProcessOf[t])'
  BY <1>3, <1>4, Kinds DEF CopiesOK
<1> QED BY <1>1, <1>3, <1>4, <1>5, <1>6

\* The state of the machine and the server stays as it is.
LEMMA Kept ==
    ASSUME ClientInv
    PROVE  /\ UNCHANGED <<server, faults>> => ServerOK'
           /\ UNCHANGED server /\ faults' \in 0 .. MaxFaults => ServerOK'
           /\ UNCHANGED named => NamedGrows
           /\ UNCHANGED file => file' \in {NoState} \cup State
           /\ UNCHANGED strays => strays' \subseteq Request /\ \A q \in strays' : WellFormed(q)
           /\ UNCHANGED moves => moves' \in 0 .. MaxMoves
           /\ ServerOK
  BY DEF ClientInv, ClientTypeOK, ServerOK, server, tables, NamedGrows

\* What a call sends for an identity it has is in order.
LEMMA SentOK ==
    ASSUME NEW th \in Thread, CallOK(th), th.request = NoRequest, th.answer \in {NoState} \cup State,
           th.op \in Ops \ {"register"}, NEW c \in State, NEW own, c.installation \in own,
           CopyOK(th, c, own)
    PROVE  /\ Sent(th, c) \in Thread
           /\ CallOK(Sent(th, c)) /\ CopyOK(Sent(th, c), c, own) /\ ~IsRegistering(Sent(th, c))
<1> DEFINE q == [op |-> th.op, asserts |-> c, names |-> Names(th, c)]
           a == [th EXCEPT !.pc = "sent"]
           b == [a EXCEPT !.request = q]
<1>1. CASE th.op = "call"
  BY <1>1, Kinds DEF Sent
<1>2. CASE th.op # "call"
  <2>1. th # Idle
    BY DEF Idle, Ops
  <2>2. Sent(th, c) = b
    BY <1>2 DEF Sent
  <2>3. c.installation \in Codes /\ c # NoState
    BY Kinds DEF State
  <2>4. /\ Names(th, c) \in Devices \cup Codes \cup {Unknown}
        /\ th.op \in {"claim", "migrate"} => Names(th, c) \in Devices
        /\ th.op = "whoami" => Names(th, c) \in Codes /\ Names(th, c) \in own
    BY <2>3, CallFields, ClientIdentityAssumption DEF CallOK, CopyOK, Names, Codes
  <2>5. /\ q \in Request \ {NoRequest} /\ q.op = th.op /\ q.asserts = c /\ q.names = Names(th, c)
    BY <1>2, <2>4 DEF Request, NoRequest, Ops
  <2>6. WellFormed(q)
    BY <1>2, <2>3, <2>4, <2>5 DEF WellFormed, Ops
  <2> HIDE DEF q
  <2>7. a \in Thread /\ a # Idle /\ a.pc = "sent" /\ a.op = th.op /\ a.names = th.names /\ a.answer = th.answer
    BY <2>1 DEF Thread, Idle
  <2> HIDE DEF a
  <2>8. b \in Thread /\ b.pc = "sent" /\ b.op = th.op /\ b.names = th.names /\ b.request = q
    BY <2>5, <2>7 DEF Thread
  <2> HIDE DEF b
  <2>9. CallOK(b)
    BY <2>5, <2>6, <2>8 DEF CallOK, IsSending
  <2>10. CopyOK(b, c, own) /\ ~IsRegistering(b)
    BY <2>3, <2>4, <2>5, <2>8 DEF CopyOK, IsSending, IsRegistering
  <2> QED BY <2>2, <2>8, <2>9, <2>10
<1> QED BY <1>1, <1>2

\* A tool call begins: what it asserts is what its process has.
LEMMA StartCallStep ==
    ASSUME ClientInv, NEW t \in Threads, NEW op \in Ops, NEW names \in Devices \cup Asked \cup {Unknown},
           StartCall(t, op, names)
    PROVE  ClientInv'
<1> DEFINE waiting == [Idle EXCEPT !.pc = "waiting"]
           called == [waiting EXCEPT !.op = op]
           a == [called EXCEPT !.names = names]
<1>1. a = [pc |-> "waiting", op |-> op, names |-> names, request |-> NoRequest, answer |-> NoState]
  <2>1. waiting = [pc |-> "waiting", op |-> "none", names |-> Unknown, request |-> NoRequest, answer |-> NoState]
    BY DEF Idle
  <2> HIDE DEF waiting
  <2>2. called = [pc |-> "waiting", op |-> op, names |-> Unknown, request |-> NoRequest, answer |-> NoState]
    BY <2>1
  <2> HIDE DEF called
  <2> QED BY <2>2
<1>2. /\ threads[t] = Idle /\ UNCHANGED <<server, file, strays>>
      /\ op \in {"claim", "migrate"} => names \in Devices
      /\ op \in {"register", "whoami"} => names \in Asked \cup {Unknown}
      /\ \/ names = Unknown /\ UNCHANGED <<named, moves, faults>>
         \/ op \in {"claim", "migrate"} /\ moves < MaxMoves /\ moves' = moves + 1 /\ UNCHANGED <<named, faults>>
         \/ /\ op \in {"register", "whoami"} /\ names # Unknown
            /\ faults < MaxFaults /\ faults' = faults + 1 /\ UNCHANGED moves
            /\ named' = [named EXCEPT ![ProcessOf[t]] = @ \cup {names}]
      /\ IF op = "register" THEN Set(t, a) /\ UNCHANGED <<copy, mine>>
         ELSE /\ KeepsLoaded(t) /\ Begins(t, Loaded(t))
              /\ Set(t, IF Loaded(t) = NoState THEN a ELSE Sent(a, Loaded(t)))
  BY DEF StartCall
<1>3. a \in Thread /\ a.pc = "waiting" /\ a.op = op /\ a.names = names /\ a.request = NoRequest /\ a.answer = NoState
  BY <1>1, Kinds, ClientIdentityAssumption DEF Thread, Codes
<1> HIDE DEF a
<1>4. CallOK(a) /\ ~IsRegistering(a)
  BY <1>2, <1>3 DEF CallOK, IsRegistering, IsSending
<1>5. moves' \in 0 .. MaxMoves /\ faults' \in 0 .. MaxFaults /\ ServerOK'
  <2>1. moves' \in 0 .. MaxMoves
    BY <1>2, ClientIdentityAssumption DEF ClientInv, ClientTypeOK
  <2>2. faults' \in 0 .. MaxFaults
    BY <1>2, ClientIdentityAssumption DEF ClientInv, ClientTypeOK
  <2> QED BY <1>2, <2>1, <2>2, Kept
<1>6. /\ NamedGrows
      /\ op \in {"register", "whoami"} /\ names # Unknown => names \in Own(ProcessOf[t])'
  <2>1. CASE UNCHANGED named /\ (op \in {"register", "whoami"} => names = Unknown)
    BY <2>1, Kept
  <2>2. CASE /\ op \in {"register", "whoami"} /\ names # Unknown
             /\ named' = [named EXCEPT ![ProcessOf[t]] = @ \cup {names}]
    <3>1. names \in Codes
      BY <1>2, <2>2 DEF Codes
    <3>2. named \in [Processes -> SUBSET Codes] /\ ProcessOf[t] \in Processes
      BY Kinds DEF ClientInv, CopiesOK
    <3>3. NamedGrows /\ names \in named'[ProcessOf[t]]
      BY <2>2, <3>1, <3>2 DEF NamedGrows
    <3> QED BY <2>2, <3>3 DEF Own
  <2> QED BY <1>2, <2>1, <2>2
<1>7. \A c : CopyOK(a, c, Own(ProcessOf[t])')
  BY <1>3, <1>6 DEF CopyOK, IsSending
<1>8. CASE op = "register"
  BY <1>2, <1>3, <1>4, <1>5, <1>6, <1>7, <1>8, CopiesStay, Kept, StepOf
<1>9. CASE op # "register" /\ Loaded(t) = NoState
  BY <1>2, <1>3, <1>4, <1>5, <1>6, <1>7, <1>9, CopiesLoaded, Kept, StepOf
<1>10. CASE op # "register" /\ Loaded(t) # NoState
  <2> DEFINE th == Sent(a, Loaded(t))
             own == Own(ProcessOf[t])'
  <2>1. Loaded(t) \in State /\ copy'[ProcessOf[t]] = Loaded(t) /\ Loaded(t).installation \in own
    BY <1>2, <1>6, <1>10, CopiesLoaded
  <2>2. CopyOK(a, Loaded(t), own)
    BY <1>7
  <2> HIDE DEF own
  <2>3. th \in Thread /\ CallOK(th) /\ CopyOK(th, Loaded(t), own) /\ ~IsRegistering(th)
    BY <1>3, <1>4, <1>10, <2>1, <2>2, SentOK
  <2>4. Set(t, th)
    BY <1>2, <1>10
  <2> HIDE DEF th
  <2>5. CopyOK(th, copy'[ProcessOf[t]], Own(ProcessOf[t])')
    BY <2>1, <2>3 DEF own
  <2> QED BY <1>2, <1>5, <1>6, <1>10, <2>3, <2>4, <2>5, CopiesLoaded, Kept, StepOf
<1> QED BY <1>8, <1>9, <1>10

\* RegisterDevice has the mutex: its request asserts what it finds then.
LEMMA RegisterStep ==
    ASSUME ClientInv, NEW t \in Threads, RegisterDevice(t)
    PROVE  ClientInv'
<1> DEFINE state == Loaded(t)
           explicit == IF threads[t].op = "register" THEN threads[t].names ELSE Unknown
           own == Own(ProcessOf[t])'
<1>1. PICK i : /\ i \in IF explicit # Unknown THEN {explicit}
                         ELSE IF state = NoState THEN First(Fresh) ELSE {state.installation}
               /\ Set(t, RegistersAs(t, state, i))
  BY DEF RegisterDevice
<1>2. /\ threads[t].pc = "waiting" /\ MutexFree(t) /\ KeepsLoaded(t) /\ Begins(t, Loaded(t)) /\ NamedGrows
      /\ UNCHANGED <<server, file, strays, moves, faults>>
  BY Kept DEF RegisterDevice
<1>3. /\ state \in {NoState} \cup State /\ copy'[ProcessOf[t]] = state
      /\ state \in State => state.installation \in own
      /\ CopyOK(threads[t], state, own)
  BY <1>2, CopiesLoaded
<1> HIDE DEF state
<1>4. i \in Codes /\ (state # NoState => i \in own)
  <2>1. CallOK(threads[t])
    BY DEF ClientInv
  <2>2. CASE explicit # Unknown
    <3>1. i = threads[t].names /\ threads[t].op = "register" /\ i # Unknown
      BY <1>1, <2>2
    <3> QED BY <1>3, <2>1, <3>1 DEF CallOK, CopyOK, Codes
  <2>3. CASE explicit = Unknown
    BY <1>1, <1>3, <2>3 DEF First, Fresh, Codes, State
  <2> QED BY <2>2, <2>3
<1> HIDE DEF explicit
<1> DEFINE q == [op |-> "register", asserts |-> state, names |-> i]
           a == [threads[t] EXCEPT !.pc = "sent"]
           th == [a EXCEPT !.request = q]
<1>5. q \in Request /\ q # NoRequest /\ q.op = "register" /\ q.asserts = state /\ q.names = i
  BY <1>3, <1>4 DEF Request, NoRequest, Ops
<1>6. WellFormed(q)
  BY <1>4, <1>5 DEF WellFormed
<1>7. Set(t, th)
  BY <1>1 DEF RegistersAs
<1> HIDE DEF q
<1>8. threads[t] \in Thread /\ CallOK(threads[t])
  BY DEF ClientInv, ClientTypeOK
<1>9. a \in Thread /\ a # Idle /\ a.pc = "sent" /\ a.op = threads[t].op /\ a.names = threads[t].names
  BY <1>2, <1>8 DEF Thread, Idle
<1> HIDE DEF a
<1>10. th \in Thread /\ th.pc = "sent" /\ th.op = threads[t].op /\ th.names = threads[t].names /\ th.request = q
  BY <1>5, <1>9 DEF Thread
<1> HIDE DEF th
<1>11. CallOK(th)
  BY <1>5, <1>6, <1>8, <1>10 DEF CallOK, IsSending
<1>12. CopyOK(th, state, own)
  BY <1>3, <1>4, <1>5, <1>10, Kinds DEF CopyOK, IsSending
<1> QED BY <1>2, <1>3, <1>7, <1>10, <1>11, <1>12, CopiesLoaded, Kept, StepOf

\* A call of which only pc and answer change: the answer has to be an identity and,
\* if the call asserts one, of the same installation.
LEMMA GoesOn ==
    ASSUME ClientInv, NEW t \in Threads, IsSending(threads[t]), NEW th \in Thread,
           th.op = threads[t].op, th.names = threads[t].names, th.request = threads[t].request,
           th.pc \in {"merged", "answered", "saved"},
           th.pc = "merged" => th.request.op = "migrate",
           th.pc # "merged" => th.answer \in State,
           th.pc # "merged" /\ th.request.asserts # NoState => th.answer.installation \in Own(ProcessOf[t])
    PROVE  CallOK(th) /\ CopyOK(th, Copy(t), Own(ProcessOf[t])) /\ (IsRegistering(th) => IsRegistering(threads[t]))
<1>1. CallOK(threads[t]) /\ CopyOK(threads[t], Copy(t), Own(ProcessOf[t]))
  BY DEF ClientInv
<1>2. CallOK(th)
  BY <1>1 DEF CallOK, IsSending
<1>3. CopyOK(th, Copy(t), Own(ProcessOf[t]))
  BY <1>1 DEF CopyOK, IsSending
<1> QED BY <1>2, <1>3 DEF IsRegistering, IsSending

\* A step of a call that leaves the copies alone.
LEMMA StepAlone ==
    ASSUME ClientInv, NEW t \in Threads, NEW th \in Thread, Set(t, th),
           CallOK(th), CopyOK(th, Copy(t), Own(ProcessOf[t])), IsRegistering(th) => IsRegistering(threads[t]),
           UNCHANGED <<copy, mine, named>>,
           ServerOK', file' \in {NoState} \cup State,
           strays' \subseteq Request, \A q \in strays' : WellFormed(q),
           moves' \in 0 .. MaxMoves
    PROVE  ClientInv'
<1>1. NamedGrows
  BY Kept
<1>2. CopyOK(th, copy'[ProcessOf[t]], Own(ProcessOf[t])')
  BY DEF Copy, Own
<1> QED BY <1>1, <1>2, CopiesStay, StepOf

\* The server answers with an installation that is the process's own, unless the call
\* registers without an identity.
LEMMA ServeStep ==
    ASSUME ClientInv, NEW t \in Threads, Serve(t)
    PROVE  ClientInv'
<1> DEFINE thread == threads[t]
           q == thread.request
           own == Own(ProcessOf[t])
           answered == [thread EXCEPT !.pc = "answered"]
<1>1. /\ thread \in Thread /\ CallOK(thread) /\ thread.pc = "sent" /\ WellFormed(q)
      /\ CopyOK(thread, Copy(t), own)
      /\ UNCHANGED <<file, copy, strays, mine, named, moves>>
  BY DEF Serve, ClientInv, ClientTypeOK, CallOK, IsSending, remembered
<1>2. PICK taken : IF Refuses(q, taken) THEN UNCHANGED <<server, faults>> /\ Set(t, Idle)
                   ELSE Performs(q) /\ Set(t, Answered(t))
  BY DEF Serve
<1>3. thread # Idle /\ IsSending(thread)
  BY <1>1 DEF Idle, IsSending
<1>4. ServerOK' /\ ServerOK
  BY <1>1, <1>2, Kept, Served
<1>5. ASSUME NEW th \in Thread, Set(t, th), CallOK(th), CopyOK(th, Copy(t), own),
             IsRegistering(th) => IsRegistering(thread)
      PROVE  ClientInv'
  BY <1>1, <1>4, <1>5, Kept, StepAlone
<1>6. CASE Refuses(q, taken)
  BY <1>2, <1>5, <1>6, Kinds
<1>7. ASSUME ~Refuses(q, taken), q.op \in {"register", "claiming", "whoami"}, NEW i \in Codes, NEW d \in Devices,
             Set(t, Answer(thread, i, d)),
             q.asserts # NoState => i \in own
      PROVE  ClientInv'
  <2> DEFINE answer == [installation |-> i, device |-> d]
             th == [answered EXCEPT !.answer = answer]
  <2>1. answer \in State /\ answer.installation = i
    BY DEF State
  <2>2. Set(t, th)
    BY <1>7 DEF Answer
  <2> HIDE DEF answer
  <2>3. /\ answered \in Thread /\ answered # Idle /\ answered.op = thread.op /\ answered.names = thread.names
        /\ answered.request = q /\ answered.pc = "answered"
    BY <1>1, <1>3 DEF Thread, Idle
  <2> HIDE DEF answered
  <2>4. /\ th \in Thread /\ th.op = thread.op /\ th.names = thread.names /\ th.request = q
        /\ th.pc = "answered" /\ th.answer = answer
    BY <2>1, <2>3 DEF Thread
  <2> HIDE DEF th
  <2>5. CallOK(th) /\ CopyOK(th, Copy(t), own) /\ (IsRegistering(th) => IsRegistering(thread))
    BY <1>3, <1>7, <2>1, <2>4, GoesOn
  <2> QED BY <1>5, <2>2, <2>4, <2>5
<1>8. CASE ~Refuses(q, taken) /\ q.op = "register"
  <2>1. Set(t, Answer(thread, q.names, deviceOf'[q.names]))
    BY <1>2, <1>8 DEF Answered
  <2>2. q.names \in Codes /\ deviceOf'[q.names] \in Devices
    BY <1>1, <1>2, <1>4, <1>8, RequestFields, Served
  <2>3. q.asserts # NoState => q.names \in own
    BY <1>1, <1>3, <1>8 DEF CopyOK
  <2> QED BY <1>7, <1>8, <2>1, <2>2, <2>3
<1>9. CASE ~Refuses(q, taken) /\ q.op = "whoami"
  <2>1. Set(t, Answer(thread, q.names, Resolved(q.names)))
    BY <1>2, <1>9 DEF Answered
  <2>2. q.names \in Codes /\ Resolved(q.names) \in Devices
    BY <1>1, <1>2, <1>4, <1>9, RequestFields, Served
  <2>3. q.asserts # NoState => q.names \in own
    BY <1>1, <1>3, <1>9 DEF CopyOK
  <2> QED BY <1>7, <1>9, <2>1, <2>2, <2>3
<1>10. CASE ~Refuses(q, taken) /\ q.op = "claiming"
  <2>1. Set(t, Answer(thread, q.asserts.installation, q.names))
    BY <1>2, <1>10 DEF Answered
  <2>2. q.asserts.installation \in Codes /\ q.names \in Devices
    BY <1>1, <1>10, RequestFields
  <2>3. q.asserts # NoState => q.asserts.installation \in own
    BY <1>1, <1>3 DEF CopyOK
  <2> QED BY <1>7, <1>10, <2>1, <2>2, <2>3
<1>11. CASE ~Refuses(q, taken) /\ q.op = "claim"
  <2> DEFINE r == [q EXCEPT !.op = "claiming"]
             th == [thread EXCEPT !.request = r]
  <2>1. Set(t, th)
    BY <1>2, <1>11 DEF Answered
  <2>2. r \in Request /\ r # NoRequest /\ r.op = "claiming" /\ r.asserts = q.asserts /\ r.names = q.names
    BY <1>1, <1>11 DEF WellFormed, Request, NoRequest, Ops
  <2> HIDE DEF r
  <2>3. /\ th \in Thread /\ th.op = thread.op /\ th.names = thread.names /\ th.request = r
        /\ th.pc = "sent"
    BY <1>1, <1>3, <2>2 DEF Thread, Idle
  <2> HIDE DEF th
  <2>4. WellFormed(r) /\ thread.op = "claim"
    BY <1>1, <1>3, <1>11, <2>2 DEF WellFormed, CallOK
  <2>5. CallOK(th) /\ ~IsRegistering(th)
    BY <1>1, <2>2, <2>3, <2>4 DEF CallOK, IsSending, IsRegistering
  <2>6. CopyOK(th, Copy(t), own)
    BY <1>1, <1>3, <2>2, <2>3 DEF CopyOK, IsSending
  <2> QED BY <1>5, <2>1, <2>3, <2>5, <2>6
<1>12. CASE ~Refuses(q, taken) /\ q.op = "migrate"
  <2> DEFINE th == [thread EXCEPT !.pc = "merged"]
  <2>1. Set(t, th)
    BY <1>2, <1>12 DEF Answered
  <2>2. /\ th \in Thread /\ th.op = thread.op /\ th.names = thread.names /\ th.request = q
        /\ th.pc = "merged"
    BY <1>1, <1>3 DEF Thread, Idle
  <2> HIDE DEF th
  <2>3. CallOK(th) /\ CopyOK(th, Copy(t), own) /\ (IsRegistering(th) => IsRegistering(thread))
    BY <1>3, <1>12, <2>2, GoesOn
  <2> QED BY <1>5, <2>1, <2>2, <2>3
<1> QED BY <1>1, <1>6, <1>8, <1>9, <1>10, <1>11, <1>12, RequestFields

\* MigrateDevice loads the identity again and keeps the installation.
LEMMA ReloadStep ==
    ASSUME ClientInv, NEW t \in Threads, Reload(t)
    PROVE  ClientInv'
<1> DEFINE thread == threads[t]
           answer == [Copy(t) EXCEPT !.device = thread.names]
           a == [thread EXCEPT !.pc = "answered"]
           th == [a EXCEPT !.answer = answer]
<1>1. /\ thread.pc = "merged" /\ Set(t, th)
      /\ UNCHANGED <<server, file, copy, strays, mine, named, moves, faults>>
  BY DEF Reload, remembered
<1>2. /\ thread \in Thread /\ thread # Idle /\ IsSending(thread) /\ WellFormed(thread.request)
      /\ thread.names \in Devices /\ thread.request.asserts \in State
  <2>1. thread \in Thread /\ CallOK(thread) /\ IsSending(thread) /\ thread # Idle
    BY <1>1 DEF ClientInv, ClientTypeOK, IsSending, Idle
  <2> QED BY <1>1, <2>1 DEF CallOK, WellFormed
<1>3. Copy(t) \in State /\ Copy(t).installation \in Own(ProcessOf[t])
  <2>1. CopyOK(thread, Copy(t), Own(ProcessOf[t]))
    BY DEF ClientInv
  <2>2. Copy(t) \in State
    BY <1>2, <2>1, Kinds DEF CopyOK
  <2> QED BY <2>2, Kinds DEF ClientInv, CopiesOK, Copy
<1>4. answer \in State /\ answer.installation = Copy(t).installation
  BY <1>2, <1>3 DEF State
<1> HIDE DEF answer
<1>5. /\ a \in Thread /\ a # Idle /\ a.op = thread.op /\ a.names = thread.names
      /\ a.request = thread.request /\ a.pc = "answered"
  BY <1>2 DEF Thread, Idle
<1> HIDE DEF a
<1>6. /\ th \in Thread /\ th.op = thread.op /\ th.names = thread.names /\ th.request = thread.request
      /\ th.pc = "answered" /\ th.answer = answer
  BY <1>4, <1>5 DEF Thread
<1> HIDE DEF th
<1>7. /\ CallOK(th) /\ CopyOK(th, Copy(t), Own(ProcessOf[t]))
      /\ IsRegistering(th) => IsRegistering(thread)
  BY <1>2, <1>3, <1>4, <1>6, GoesOn
<1> QED BY <1>1, <1>6, <1>7, Kept, StepAlone

\* persistRegistration and persistWhoAmI write the file.
LEMMA SaveStep ==
    ASSUME ClientInv, NEW t \in Threads, Save(t)
    PROVE  ClientInv'
<1> DEFINE thread == threads[t]
           th == [thread EXCEPT !.pc = "saved"]
<1>1. /\ thread.pc = "answered" /\ Set(t, th) /\ file' = thread.answer
      /\ UNCHANGED <<server, copy, strays, mine, named, moves, faults>>
  BY DEF Save, remembered
<1>2. /\ thread \in Thread /\ CallOK(thread) /\ CopyOK(thread, Copy(t), Own(ProcessOf[t]))
      /\ IsSending(thread) /\ thread # Idle
  BY <1>1 DEF ClientInv, ClientTypeOK, IsSending, Idle
<1>3. thread.answer \in State
  BY <1>1, <1>2 DEF CallOK
<1>4. /\ th \in Thread /\ th.op = thread.op /\ th.names = thread.names /\ th.request = thread.request
      /\ th.pc = "saved" /\ th.answer = thread.answer
  BY <1>2 DEF Thread, Idle
<1> HIDE DEF th
<1>5. /\ CallOK(th) /\ CopyOK(th, Copy(t), Own(ProcessOf[t]))
      /\ IsRegistering(th) => IsRegistering(thread)
  BY <1>1, <1>2, <1>3, <1>4, GoesOn DEF CopyOK
<1> QED BY <1>1, <1>3, <1>4, <1>5, Kept, StepAlone

\* The one copy setIdentity replaces suits the other calls of the process: the mutex
\* keeps registrations without an identity apart, and all others are about
\* installations of the process's own.
LEMMA CopyReplaced ==
    ASSUME ClientInv, NEW t \in Threads, threads[t].pc = "saved", Begins(t, threads[t].answer), NamedGrows,
           copy' = [copy EXCEPT ![ProcessOf[t]] = threads[t].answer]
    PROVE  /\ threads[t].answer \in State /\ copy'[ProcessOf[t]] = threads[t].answer
           /\ \A u \in Threads \ {t} : CopyOK(threads[u], copy'[ProcessOf[u]], Own(ProcessOf[u])')
           /\ CopiesOK' /\ \A p \in Processes : Own(p) \subseteq Own(p)'
<1> DEFINE q == threads[t].request
           answer == threads[t].answer
<1>1. /\ CallOK(threads[t]) /\ CopyOK(threads[t], Copy(t), Own(ProcessOf[t])) /\ IsSending(threads[t])
      /\ answer \in State /\ WellFormed(q)
  BY DEF ClientInv, CallOK, IsSending
<1>2. /\ copy'[ProcessOf[t]] = answer
      /\ \A p \in Processes \ {ProcessOf[t]} : copy'[p] = copy[p]
  BY <1>1, Kinds DEF ClientInv, ClientTypeOK
<1>3. Copy(t) \in State => answer.installation \in Own(ProcessOf[t])
  BY <1>1, Kinds DEF CopyOK
<1>4. CopiesOK' /\ \A p \in Processes : Own(p) \subseteq Own(p)'
  BY <1>1, <1>3, Begun
<1>5. ASSUME NEW u \in Threads \ {t}, ProcessOf[u] = ProcessOf[t]
      PROVE  CopyOK(threads[u], answer, Own(ProcessOf[u])')
  <2> DEFINE r == threads[u].request
  <2>1. CallOK(threads[u]) /\ CopyOK(threads[u], Copy(t), Own(ProcessOf[u])')
    BY <1>4, <1>5, Kinds, OwnMore DEF ClientInv, Copy
  <2>2. CASE ~IsSending(threads[u])
    BY <1>1, <2>1, <2>2 DEF CopyOK, IsSending
  <2>3. CASE IsSending(threads[u]) /\ r.asserts = NoState
    <3>1. Copy(t) = NoState /\ WellFormed(r)
      BY <2>1, <2>3 DEF CopyOK, CallOK
    <3>2. q.asserts = NoState
      BY <1>1, <3>1, Kinds DEF CopyOK
    <3>3. q.op = "register" /\ r.op = "register"
      BY <1>1, <2>3, <3>1, <3>2, Kinds, RequestFields
    <3>4. IsRegistering(threads[t]) /\ IsRegistering(threads[u])
      BY <1>1, <2>3, <3>3 DEF IsRegistering, IsSending
    <3> QED BY <1>5, <3>4 DEF ClientInv, MutexInv
  <2>4. CASE IsSending(threads[u]) /\ r.asserts # NoState
    BY <1>1, <2>1, <2>4 DEF CopyOK, IsSending
  <2> QED BY <2>2, <2>3, <2>4
<1>6. ASSUME NEW u \in Threads \ {t} PROVE CopyOK(threads[u], copy'[ProcessOf[u]], Own(ProcessOf[u])')
  <2>1. CASE ProcessOf[u] = ProcessOf[t]
    BY <1>2, <1>5, <2>1
  <2>2. CASE ProcessOf[u] # ProcessOf[t]
    <3>1. CopyOK(threads[u], Copy(u), Own(ProcessOf[u])')
      BY <1>4, Kinds, OwnMore DEF ClientInv
    <3> QED BY <1>2, <2>2, <3>1, Kinds DEF Copy
  <2> QED BY <2>1, <2>2
<1> QED BY <1>1, <1>2, <1>4, <1>6

\* setIdentity: the copy of the process, after the file.
LEMMA SetIdentityStep ==
    ASSUME ClientInv, NEW t \in Threads, SetIdentity(t)
    PROVE  ClientInv'
<1> DEFINE thread == threads[t]
           a == [thread EXCEPT !.pc = "registered"]
           b == [a EXCEPT !.request = NoRequest]
           th == [b EXCEPT !.answer = NoState]
<1>1. /\ thread.pc = "saved" /\ copy' = [copy EXCEPT ![ProcessOf[t]] = thread.answer]
      /\ Begins(t, thread.answer) /\ NamedGrows
      /\ UNCHANGED <<server, file, strays, moves, faults>>
      /\ Set(t, Idle) \/ (thread.op # "register" /\ Set(t, th))
  BY Kept DEF SetIdentity
<1>2. thread \in Thread /\ CallOK(thread) /\ thread # Idle
  BY <1>1 DEF ClientInv, ClientTypeOK, Idle
<1>3. a \in Thread /\ a # Idle /\ a.pc = "registered" /\ a.op = thread.op /\ a.names = thread.names
  BY <1>2 DEF Thread, Idle
<1> HIDE DEF a
<1>4. /\ b \in Thread /\ b # Idle /\ b.pc = "registered" /\ b.op = thread.op /\ b.names = thread.names
      /\ b.request = NoRequest
  BY <1>3 DEF Thread, Idle, Request
<1> HIDE DEF b
<1>5. /\ th \in Thread /\ th.pc = "registered" /\ th.op = thread.op /\ th.names = thread.names
      /\ th.request = NoRequest
  BY <1>4 DEF Thread
<1> HIDE DEF th
<1>6. CASE Set(t, Idle)
  BY <1>1, <1>6, CopyReplaced, Kept, Kinds, StepOf
<1>7. CASE thread.op # "register" /\ Set(t, th)
  <2>1. CallOK(th) /\ ~IsRegistering(th)
    BY <1>2, <1>5, <1>7 DEF CallOK, IsSending, IsRegistering, NoRequest
  <2>2. CopyOK(th, copy'[ProcessOf[t]], Own(ProcessOf[t])')
    <3>1. CopyOK(thread, Copy(t), Own(ProcessOf[t])')
      BY <1>1, CopyReplaced, Kinds, OwnMore DEF ClientInv
    <3> QED BY <1>1, <1>5, <3>1, CopyReplaced DEF CopyOK, IsSending
  <2> QED BY <1>1, <1>5, <1>7, <2>1, <2>2, CopyReplaced, Kept, StepOf
<1> QED BY <1>1, <1>6, <1>7

\* A call that registered first goes on with the identity it got.
LEMMA SendRegisteredStep ==
    ASSUME ClientInv, NEW t \in Threads, SendRegistered(t)
    PROVE  ClientInv'
<1> DEFINE thread == threads[t]
           own == Own(ProcessOf[t])
           th == Sent(thread, Copy(t))
<1>1. /\ thread.pc = "registered" /\ Set(t, th)
      /\ UNCHANGED <<server, file, copy, strays, mine, named, moves, faults>>
  BY DEF SendRegistered, remembered
<1>2. thread \in Thread /\ CallOK(thread) /\ CopyOK(thread, Copy(t), own) /\ thread # Idle
  BY <1>1 DEF ClientInv, ClientTypeOK, Idle
<1>3. /\ Copy(t) \in State /\ thread.request = NoRequest /\ thread.op \in Ops \ {"register"}
      /\ thread.answer \in {NoState} \cup State
  BY <1>1, <1>2, CallFields DEF CallOK, CopyOK
<1>4. Copy(t).installation \in own
  BY <1>3, Kinds DEF ClientInv, CopiesOK, Copy
<1> HIDE DEF own
<1>5. th \in Thread /\ CallOK(th) /\ CopyOK(th, Copy(t), own) /\ ~IsRegistering(th)
  BY <1>2, <1>3, <1>4, SentOK
<1> HIDE DEF th
<1>6. CopyOK(th, Copy(t), Own(ProcessOf[t]))
  BY <1>5 DEF own
<1> QED BY <1>1, <1>5, <1>6, Kept, StepAlone

\* A call is given up, and its request may still be on the way.
LEMMA GiveUpStep ==
    ASSUME ClientInv, NEW t \in Threads, GiveUp(t)
    PROVE  ClientInv'
<1>1. /\ threads[t].pc \in {"sent", "merged", "answered"} /\ faults < MaxFaults /\ faults' = faults + 1
      /\ Set(t, Idle) /\ UNCHANGED <<server, file, copy, mine, named, moves>>
      /\ strays' \in {strays, strays \cup {threads[t].request}}
  BY DEF GiveUp, remembered
<1>2. WellFormed(threads[t].request)
  BY <1>1 DEF ClientInv, CallOK, IsSending
<1>3. strays' \subseteq Request /\ \A q \in strays' : WellFormed(q)
  BY <1>1, <1>2, RequestFields DEF ClientInv, ClientTypeOK
<1>4. faults' \in 0 .. MaxFaults
  BY <1>1, ClientIdentityAssumption DEF ClientInv, ClientTypeOK
<1> QED BY <1>1, <1>3, <1>4, Kept, Kinds, StepAlone

\* A step of the server alone.
LEMMA StepElsewhere ==
    ASSUME ClientInv, UNCHANGED <<file, copy, threads, mine, named>>, ServerOK',
           strays' \subseteq Request, \A q \in strays' : WellFormed(q), moves' \in 0 .. MaxMoves
    PROVE  ClientInv'
<1>1. ClientTypeOK'
  BY DEF ClientInv, ClientTypeOK, ServerOK
<1>2. \A t \in Threads : Copy(t)' = Copy(t)
  BY DEF Copy
<1>3. \A t \in Threads : (CallOK(threads[t]) /\ CopyOK(threads[t], Copy(t), Own(ProcessOf[t])))'
  BY <1>2 DEF ClientInv, CallOK, CopyOK, Own, IsSending, WellFormed
<1>4. (\A q \in strays : WellFormed(q))' /\ MutexInv'
  BY DEF ClientInv, WellFormed, MutexInv, IsRegistering
<1>5. CopiesOK'
  BY DEF ClientInv, CopiesOK, Own
<1> QED BY <1>1, <1>3, <1>4, <1>5 DEF ClientInv

\* A request whose caller is gone is served all the same.
LEMMA StrayStep ==
    ASSUME ClientInv, NEW q \in strays, ServeStray(q)
    PROVE  ClientInv'
<1> DEFINE r == [q EXCEPT !.op = "claiming"]
<1>1. WellFormed(q) /\ UNCHANGED <<file, copy, threads, mine, named, moves>>
  BY DEF ServeStray, ClientInv, remembered
<1>2. PICK taken :
        IF Refuses(q, taken) THEN UNCHANGED <<server, faults>> /\ strays' = strays \ {q}
        ELSE /\ Performs(q)
             /\ strays' = (strays \ {q}) \cup IF q.op = "claim" THEN {r} ELSE {}
  BY DEF ServeStray
<1>3. ServerOK'
  BY <1>1, <1>2, Kept, Served
<1>4. q.op = "claim" => r \in Request /\ WellFormed(r)
  <2> SUFFICES ASSUME q.op = "claim" PROVE r \in Request /\ WellFormed(r)
    OBVIOUS
  <2>1. r \in Request /\ r # NoRequest /\ r.op = "claiming" /\ r.asserts = q.asserts /\ r.names = q.names
    BY <1>1 DEF WellFormed, Request, NoRequest, Ops
  <2> HIDE DEF r
  <2> QED BY <1>1, <2>1 DEF WellFormed
<1> HIDE DEF r
<1>5. strays' \subseteq Request /\ \A x \in strays' : WellFormed(x)
  BY <1>2, <1>4 DEF ClientInv, ClientTypeOK
<1> QED BY <1>1, <1>3, <1>5, Kept, StepElsewhere

\* An entry of a cache expires.
LEMMA ExpireStep ==
    ASSUME ClientInv, Expire
    PROVE  ClientInv'
<1>1. /\ UNCHANGED <<file, copy, threads, strays, mine, named, moves>> /\ stale' \subseteq stale
      /\ UNCHANGED <<deviceOf, statusOf, mergedInto, tailnet, bound, matching, faults>>
  BY DEF Expire, tables, remembered
<1>2. ServerOK'
  BY <1>1, Kept DEF ServerOK
<1> QED BY <1>1, <1>2, Kept, StepElsewhere

\* The other machine claims a device or migrates its own.
LEMMA ElsewhereStep ==
    ASSUME ClientInv, NEW d \in Devices, Elsewhere(d)
    PROVE  ClientInv'
<1>1. /\ moves < MaxMoves /\ moves' = moves + 1 /\ UNCHANGED <<file, copy, threads, strays, mine, named>>
      /\ Claims(Other, d) \/ \E source \in Devices : Migrates(source, d)
  BY DEF Elsewhere, remembered, Active
<1>2. moves' \in 0 .. MaxMoves
  BY <1>1, ClientIdentityAssumption DEF ClientInv, ClientTypeOK
<1>3. ServerOK'
  BY <1>1, Kept, Kinds, ClaimsOK, MigratesOK
<1> QED BY <1>1, <1>2, <1>3, Kept, StepElsewhere

\* Processes that are ended lose their copies and their calls; the file stays or goes.
LEMMA StoppedStep ==
    ASSUME ClientInv, NEW ended \in SUBSET Processes, Stopped(ended), file' \in {file, NoState}
    PROVE  ClientInv'
<1>1. /\ faults < MaxFaults /\ faults' = faults + 1 /\ UNCHANGED <<server, strays, moves>>
      /\ mine' = [p \in Processes |-> IF p \in ended THEN Unknown ELSE mine[p]]
      /\ named' = [p \in Processes |-> IF p \in ended THEN {} ELSE named[p]]
      /\ copy' = [p \in Processes |-> IF p \in ended THEN Unknown ELSE copy[p]]
      /\ threads' = [t \in Threads |-> IF ProcessOf[t] \in ended THEN Idle ELSE threads[t]]
  BY DEF Stopped
<1>2. ClientTypeOK' /\ CopiesOK'
  <2>1. faults' \in 0 .. MaxFaults
    BY <1>1, ClientIdentityAssumption DEF ClientInv, ClientTypeOK
  <2>2. ServerOK'
    BY <1>1, <2>1, Kept
  <2>3. threads' \in [Threads -> Thread]
    BY <1>1, Kinds DEF ClientInv, ClientTypeOK
  <2>4. /\ copy' \in [Processes -> {Unknown, NoState} \cup State]
        /\ mine' \in [Processes -> Codes \cup {Unknown}] /\ named' \in [Processes -> SUBSET Codes]
    BY <1>1 DEF ClientInv, CopiesOK
  <2>5. CopiesOK'
    BY <1>1, <2>4, Kinds DEF ClientInv, CopiesOK, Own
  <2> QED BY <1>1, <2>1, <2>2, <2>3, <2>4, <2>5 DEF ClientTypeOK, ClientInv, ServerOK
<1>3. ASSUME NEW t \in Threads
      PROVE  /\ CallOK(threads'[t]) /\ CopyOK(threads'[t], copy'[ProcessOf[t]], Own(ProcessOf[t])')
             /\ threads'[t] \in {Idle, threads[t]}
  <2>1. CASE ProcessOf[t] \in ended
    BY <1>1, <2>1, Kinds
  <2>2. CASE ProcessOf[t] \notin ended
    <3>1. Own(ProcessOf[t])' = Own(ProcessOf[t])
      BY <1>1, <2>2, Kinds DEF Own
    <3> QED BY <1>1, <2>2, <3>1, Kinds DEF ClientInv, Copy
  <2> QED BY <2>1, <2>2
<1>4. MutexInv'
  BY <1>3, Kinds DEF ClientInv, MutexInv, IsRegistering
<1>5. \A t \in Threads : Copy(t)' = copy'[ProcessOf[t]]
  BY DEF Copy
<1>6. (\A q \in strays : WellFormed(q))'
  BY <1>1 DEF ClientInv, WellFormed
<1> QED BY <1>2, <1>3, <1>4, <1>5, <1>6 DEF ClientInv, CallOK, CopyOK, IsSending, WellFormed

LEMMA ClientBegins == ClientInit => ClientInv
<1> SUFFICES ASSUME ClientInit PROVE ClientInv
  OBVIOUS
<1>1. ClientTypeOK
  BY Kinds, ClientIdentityAssumption DEF ClientInit, ClientTypeOK, Codes
<1>2. \A t \in Threads : threads[t] = Idle
  BY DEF ClientInit
<1>3. CopiesOK
  BY Kinds DEF ClientInit, CopiesOK
<1> QED BY <1>1, <1>2, <1>3, Kinds DEF ClientInv, ClientInit, MutexInv

LEMMA ClientMoves == ClientInv /\ [ClientNext]_clientVars => ClientInv'
<1> SUFFICES ASSUME ClientInv, [ClientNext]_clientVars PROVE ClientInv'
  OBVIOUS
<1>1. CASE UNCHANGED clientVars
  <2>1. UNCHANGED <<server, file, copy, threads, strays, mine, named, moves, faults>>
    BY <1>1 DEF clientVars, remembered
  <2> QED BY <2>1, Kept, StepElsewhere
<1>2. ASSUME NEW t \in Threads, NEW op \in Ops, NEW names \in Devices \cup Asked \cup {Unknown},
             StartCall(t, op, names)
      PROVE  ClientInv'
  BY <1>2, StartCallStep
<1>3. ASSUME NEW t \in Threads,
             \/ RegisterDevice(t) \/ Serve(t) \/ Reload(t) \/ Save(t) \/ SetIdentity(t)
             \/ SendRegistered(t) \/ GiveUp(t)
      PROVE  ClientInv'
  BY <1>3, RegisterStep, ServeStep, ReloadStep, SaveStep, SetIdentityStep, SendRegisteredStep, GiveUpStep
<1>4. ASSUME NEW q \in strays, ServeStray(q) PROVE ClientInv'
  BY <1>4, StrayStep
<1>5. ASSUME NEW p \in Processes, Restart(p) PROVE ClientInv'
  <2>1. Stopped({p}) /\ file' \in {file, NoState} /\ {p} \in SUBSET Processes
    BY <1>5 DEF Restart
  <2> QED BY <2>1, StoppedStep
<1>6. CASE Reinstall
  <2>1. Stopped(Processes) /\ file' \in {file, NoState}
    BY <1>6 DEF Reinstall
  <2> QED BY <2>1, StoppedStep
<1>7. ASSUME NEW d \in Devices, Elsewhere(d) PROVE ClientInv'
  BY <1>7, ElsewhereStep
<1>8. CASE Expire
  BY <1>8, ExpireStep
<1>9. CASE ClientNext
  BY <1>2, <1>3, <1>4, <1>5, <1>6, <1>7, <1>8, <1>9 DEF ClientNext
<1> QED BY <1>1, <1>9

\* The client's calls, copies and file agree whatever the interleaving of its processes
\* and of the calls of each (callRPC, RegisterDevice, WhoAmI, MigrateDevice).
THEOREM ClientInvariant == ClientSpec => []ClientInv
<1> QED BY ClientBegins, ClientMoves, PTL DEF ClientSpec

\* Every reachable state of the client is well typed: in particular, the identity a
\* process puts on a migration's target is one it has (Client.MigrateDevice), and the
\* answer it persists names an installation and a device (persistRegistration,
\* persistWhoAmI).
THEOREM ClientTypeCorrect == ClientSpec => []ClientTypeOK
<1>1. ClientInv => ClientTypeOK
  BY DEF ClientInv
<1> QED BY <1>1, ClientInvariant, PTL

\* However its calls interleave and whatever gets lost, a process acts for the
\* installation it came to act for first or for one that a call of its own has named:
\* however many of its calls find it without an identity at once, only the first
\* registers without one (Client.RegisterDevice loads the identity again under
\* registrationMu), and every other answer is about an installation that its process
\* had, or that its call named.
THEOREM InstallationsAreStable == ClientSpec => []InstallationIsStable
<1>1. ClientInv => InstallationIsStable
  BY DEF ClientInv, CopiesOK, Own, InstallationIsStable
<1> QED BY <1>1, ClientInvariant, PTL
=============================================================================
