----------------------------- MODULE BoardWatch -----------------------------
(***************************************************************************)
(* How an idle session learns of the messages of other sessions: the       *)
(* board_wait long poll of the central service (board_wait.go) and the     *)
(* board subcommands its hooks run (cmd/memory-recall-coin/board.go), the  *)
(* count at SessionStart and the watcher every Stop starts.                *)
(*                                                                         *)
(* The files of the session, the lock with a pid and the since marker, are *)
(* variables, and so is what the session has been told.  A message is      *)
(* stamped by the INSERT and visible from the COMMIT, two steps.  The      *)
(* database clock moves with each stamp, so that no two coincide.          *)
(*                                                                         *)
(* A message stands for a thread with news; tags and the session's own     *)
(* messages, which the query filters out, are left out.  The session and   *)
(* the hooks are those of README.md, 349 and on.                           *)
(***************************************************************************)
EXTENDS Naturals, FiniteSets

CONSTANTS
    Messages,   \* messages other sessions write, each on a thread of its own
    Watchers,   \* "board wait" processes
    None,       \* no pid, marker or result
    Lookback,   \* --lookback, in messages
    Limit,      \* boardWaitMaxThreads
    MaxActors   \* bound: messages written and watchers started

VARIABLES
    clock,      \* the clock of the database
    status,     \* of each message: none, stamped, visible or resolved
    at,         \* created_at of each message, 0 before
    session,    \* "busy" during a turn, else "idle"
    counts,     \* the "board counts" process of SessionStart
    watchers,   \* the watcher processes
    lock,       \* the pid file: a live watcher, or None
    marker,     \* the since file: a clock reading or None
    told,       \* the messages the session was woken for
    excused,    \* history: messages counted at SessionStart, or older than what
                \* a watcher that found no marker looked back to
    lost,       \* history: messages recorded by a watcher that was killed before
                \* it could tell
    late        \* history: visible messages that became so behind one of Readings

vars == <<clock, status, at, session, counts, watchers, lock, marker,
          told, excused, lost, late>>
board == <<clock, status, at, late>>
history == <<told, excused, lost>>

-----------------------------------------------------------------------------
Times == 0 .. Cardinality(Messages)

\* pc follows acquireWatcherLock, initialBoardSince and the loop of
\* runBoardWait, into WaitBoard of the service while a call is open.
Watcher == [pc: {"new", "arming", "locking", "starting", "polling", "querying",
                 "recording", "waking", "ended"},
            since: Times, now: Times, found: SUBSET Messages]
NoCounts == [pc |-> "off", now |-> 0]
NoWatcher == [pc |-> "new", since |-> 0, now |-> 0, found |-> {}]
Ended == [NoWatcher EXCEPT !.pc = "ended"]
Polling(since) == [NoWatcher EXCEPT !.pc = "polling", !.since = since]

ASSUME BoardWatchAssumption ==
    /\ IsFiniteSet(Messages)
    /\ None \notin Watchers \cup Times
    /\ Lookback \in Nat
    /\ Limit \in Nat \ {0}
    /\ MaxActors \in Nat

TypeOK ==
    /\ clock \in Times
    /\ status \in [Messages -> {"none", "stamped", "visible", "resolved"}]
    /\ at \in [Messages -> Times]
    /\ session \in {"busy", "idle"}
    /\ counts \in [pc: {"off", "counted", "probed"}, now: Times]
    /\ watchers \in [Watchers -> Watcher]
    /\ lock \in Watchers \cup {None}
    /\ marker \in Times \cup {None}
    /\ told \subseteq Messages
    /\ excused \subseteq Messages
    /\ lost \subseteq Messages
    /\ late \subseteq Messages

Init ==
    /\ clock = 0
    /\ status = [m \in Messages |-> "none"]
    /\ at = [m \in Messages |-> 0]
    /\ session = "busy"
    /\ counts = NoCounts
    /\ watchers = [w \in Watchers |-> NoWatcher]
    /\ lock = None
    /\ marker = None
    /\ told = {}
    /\ excused = {}
    /\ lost = {}
    /\ late = {}

Visible == {m \in Messages : status[m] = "visible"}
Written(t) == {m \in Messages : at[m] \in 1 .. t}
Alive(w) == watchers[w].pc \notin {"new", "ended"}
Actors == clock + Cardinality({w \in Watchers : watchers[w].pc # "new"})

\* The clock readings the session goes on from, or may come to.
Readings ==
    {t \in Times : t = marker \/ t = counts.now}
        \cup UNION {{watchers[w].since, watchers[w].now} : w \in Watchers}

-----------------------------------------------------------------------------
\* insertBoardMessage: created_at is the time of the statement.
Stamp(m) ==
    /\ status[m] = "none" /\ Actors < MaxActors
    /\ clock' = clock + 1
    /\ at' = [at EXCEPT ![m] = clock + 1]
    /\ status' = [status EXCEPT ![m] = "stamped"]
    /\ UNCHANGED <<session, counts, watchers, lock, marker, history, late>>

\* COMMIT of the post or reply.
Publish(m) ==
    /\ status[m] = "stamped"
    /\ status' = [status EXCEPT ![m] = "visible"]
    /\ late' = IF (\E t \in Readings : at[m] <= t) \/ counts.pc = "counted" THEN late \cup {m} ELSE late
    /\ UNCHANGED <<clock, at, session, counts, watchers, lock, marker, history>>

\* board_resolve: the thread is no longer open.
Resolve(m) ==
    /\ status[m] = "visible"
    /\ status' = [status EXCEPT ![m] = "resolved"]
    /\ late' = late \ {m}
    /\ UNCHANGED <<clock, at, session, counts, watchers, lock, marker, history>>

-----------------------------------------------------------------------------
\* runBoardCounts at SessionStart, resume or compact: the counts.
CountBoard ==
    /\ session = "busy" /\ counts.pc = "off"
    /\ counts' = [counts EXCEPT !.pc = "counted"]
    /\ excused' = excused \cup Visible
    /\ UNCHANGED <<board, session, watchers, lock, marker, told, lost>>

\* ... then the server clock ...
ProbeCounts ==
    /\ counts.pc = "counted"
    /\ counts' = [pc |-> "probed", now |-> clock]
    /\ UNCHANGED <<board, session, watchers, lock, marker, history>>

\* ... then the marker.  os.WriteFile truncates the file and then writes it: what
\* is interrupted leaves a file that reads as no marker.
RecordCounts ==
    /\ counts.pc = "probed"
    /\ marker' = counts.now
    /\ counts' = NoCounts
    /\ UNCHANGED <<board, session, watchers, lock, history>>

FailCounts ==
    /\ counts.pc # "off"
    /\ counts' = NoCounts
    /\ \/ UNCHANGED marker
       \/ counts.pc = "probed" /\ marker' = None
    /\ UNCHANGED <<board, session, watchers, lock, history>>

\* The user opens a turn.
Prompt ==
    /\ session = "idle" /\ session' = "busy"
    /\ UNCHANGED <<board, counts, watchers, lock, marker, history>>

\* The turn ends and its Stop hook starts a watcher.
Stop(w) ==
    /\ session = "busy" /\ watchers[w].pc = "new" /\ Actors < MaxActors
    /\ session' = "idle"
    /\ watchers' = [watchers EXCEPT ![w].pc = "arming"]
    /\ UNCHANGED <<board, counts, lock, marker, history>>

-----------------------------------------------------------------------------
\* acquireWatcherLock reads the pid file: another live watcher ends this one.
FindLock(w) ==
    /\ watchers[w].pc = "arming"
    /\ watchers' = [watchers EXCEPT ![w].pc =
            IF lock \in Watchers \ {w} /\ Alive(lock) THEN "ended" ELSE "locking"]
    /\ UNCHANGED <<board, session, counts, lock, marker, history>>

\* acquireWatcherLock writes the pid file.
TakeLock(w) ==
    /\ watchers[w].pc = "locking"
    /\ watchers' = [watchers EXCEPT ![w].pc = "starting"]
    /\ lock' = w
    /\ UNCHANGED <<board, session, counts, marker, history>>

\* Mutant: the lookback is added to the clock.
LookingAhead(now) == now + Lookback

\* now - lookback
LookingBack(now) == IF now > Lookback THEN now - Lookback ELSE 0

\* initialBoardSince: from the marker, or looking back from the server clock.
Start(w) ==
    LET since == IF marker = None THEN LookingBack(clock) ELSE marker IN
    /\ watchers[w].pc = "starting"
    /\ watchers' = [watchers EXCEPT ![w] = Polling(since)]
    /\ excused' = IF marker = None THEN excused \cup Written(since) ELSE excused
    /\ UNCHANGED <<board, session, counts, lock, marker, told, lost>>

\* WaitBoard, one poll: serverNow ...
ReadClock(w) ==
    /\ watchers[w].pc = "polling"
    /\ watchers' = [watchers EXCEPT ![w].pc = "querying", ![w].now = clock]
    /\ UNCHANGED <<board, session, counts, lock, marker, history>>

\* ORDER BY updated_at DESC LIMIT: what is left out is older than a full answer.
NewestOf(found, news) ==
    \A m \in news \ found : Cardinality(found) = Limit /\ \A n \in found : at[m] < at[n]

\* ... then boardActivitySince.  With nothing found the service polls again or,
\* its timeout over, answers that nothing changed.
Query(w) ==
    LET news == {m \in Visible : at[m] > watchers[w].since} IN
    /\ watchers[w].pc = "querying"
    /\ \/ /\ news = {}
          /\ watchers' = [watchers EXCEPT ![w] = Polling(@.since)]
       \/ \E found \in SUBSET news :
             /\ Cardinality(found) <= Limit /\ NewestOf(found, news)
             /\ watchers' = [watchers EXCEPT ![w].pc = "recording", ![w].found = found]
    /\ UNCHANGED <<board, session, counts, lock, marker, history>>

\* Mutant: the time at which the answer is recorded.
SeenUpToRecording(w) == clock

\* Now of the answer: the clock read before the query.
SeenUpTo(w) == watchers[w].now

\* The answer reaches the watcher, which writes the marker and either has
\* something to tell or polls on from there.
Record(w) ==
    /\ watchers[w].pc = "recording"
    /\ marker' = SeenUpTo(w)
    /\ watchers' = [watchers EXCEPT ![w] =
            IF @.found = {} THEN Polling(SeenUpTo(w))
                            ELSE [pc |-> "waking", since |-> 0, now |-> 0, found |-> @.found]]
    /\ UNCHANGED <<board, session, counts, lock, history>>

\* Mutant: a call that failed moves the watcher on all the same.
SinceAfterFailureMoved(w) == watchers[w].now

\* The same since is asked for again.
SinceAfterFailure(w) == watchers[w].since

\* The call failed or its answer was lost: the watcher sleeps and tries again.
Retry(w) ==
    /\ watchers[w].pc \in {"querying", "recording"}
    /\ watchers' = [watchers EXCEPT ![w] = Polling(SinceAfterFailure(w))]
    /\ UNCHANGED <<board, session, counts, lock, marker, history>>

\* Exit 2 with the line of what was found: the session is woken, the pid file
\* removed whoever's it is.
Wake(w) ==
    /\ watchers[w].pc = "waking"
    /\ told' = told \cup watchers[w].found
    /\ session' = "busy"
    /\ watchers' = [watchers EXCEPT ![w] = Ended]
    /\ lock' = None
    /\ UNCHANGED <<board, counts, marker, excused, lost>>

\* The process ends while it writes the marker.
Interrupted(w) ==
    \/ UNCHANGED marker
    \/ watchers[w].pc = "recording" /\ marker' = None

\* --max-wait, a parent that is gone or a file error end the watcher quietly;
\* 15 minutes of failures wake the session with nothing to tell.
Quit(w) ==
    /\ watchers[w].pc \in {"starting", "polling", "recording"}
    /\ session' \in {session, "busy"}
    /\ watchers' = [watchers EXCEPT ![w] = Ended]
    /\ lock' = None
    /\ Interrupted(w)
    /\ UNCHANGED <<board, counts, history>>

\* The process is killed, its release undone: a dead pid is as good as none.
Kill(w) ==
    /\ Alive(w)
    /\ watchers' = [watchers EXCEPT ![w] = Ended]
    /\ lost' = IF watchers[w].pc = "waking" THEN lost \cup watchers[w].found ELSE lost
    /\ lock' = IF lock = w THEN None ELSE lock
    /\ Interrupted(w)
    /\ UNCHANGED <<board, session, counts, told, excused>>

Next ==
    \/ \E m \in Messages : Stamp(m) \/ Publish(m) \/ Resolve(m)
    \/ CountBoard \/ ProbeCounts \/ RecordCounts \/ FailCounts
    \/ Prompt
    \/ \E w \in Watchers :
        \/ Stop(w) \/ FindLock(w) \/ TakeLock(w) \/ Start(w)
        \/ ReadClock(w) \/ Query(w) \/ Record(w) \/ Retry(w)
        \/ Wake(w) \/ Quit(w) \/ Kill(w)

Spec == Init /\ [][Next]_vars

\* A live watcher keeps stepping (weak fairness), and the central service
\* answers some of its polls (strong fairness): between failures it sleeps at
\* most a minute, and gives up only after 15 minutes of nothing else.
Fairness ==
    \A w \in Watchers :
        /\ WF_vars(ReadClock(w)) /\ WF_vars(Wake(w))
        /\ SF_vars(Query(w)) /\ SF_vars(Record(w))

FairSpec == Spec /\ Fairness

-----------------------------------------------------------------------------
\* A watcher was woken by the message: the session is told, is about to be, or
\* the watcher was killed on the way.
Announced(m) ==
    \/ m \in told \/ m \in lost
    \/ \E w \in Watchers : watchers[w].pc = "waking" /\ m \in watchers[w].found

\* As many newer messages were announced as an answer holds.
Crowded(m) == Cardinality({n \in Messages : at[n] > at[m] /\ Announced(n)}) >= Limit

\* The marker says how far the session has seen (README.md:369).  It passes only
\* messages the session was told of, is about to be told of or need not be, with
\* two exceptions: a watcher that is killed after it wrote the marker loses what
\* it had found (runBoardWait), and a full answer leaves out the older ones
\* (board_wait.go:115).  It passes no other, however counts, watchers and failures
\* interleave, if the message was visible by the time the clock that passed it was
\* read (board_wait.go:53, runBoardCounts).
NothingSkipped ==
    \A m \in Visible \ late :
        marker # None /\ at[m] <= marker => m \in excused \/ Announced(m) \/ Crowded(m)

\* A watcher that asks for what is newer than some since tells the session of
\* every such message, unless its thread is resolved or the watcher ends first,
\* by a kill or with a full answer of newer ones.
EventuallyTold ==
    \A w \in Watchers, m \in Messages :
        (watchers[w].pc = "polling" /\ watchers[w].since < at[m] /\ status[m] = "visible")
            ~> (m \in told \/ status[m] = "resolved" \/ ~Alive(w))
=============================================================================
