---------------------------- MODULE BoardThreads ----------------------------
(***************************************************************************)
(* The threads of the public board (internal/service/board.go) and the     *)
(* agents that write on them through several service pods: posts, replies, *)
(* resolutions with or without a promoted memory, and incremental reads.   *)
(*                                                                         *)
(* A reply or a resolution is a transaction that locks its thread, reads   *)
(* the newest message id and writes: a step for each.  A promoted memory   *)
(* is committed by PutMemory before that transaction begins.               *)
(*                                                                         *)
(* A message id is a ULID: it sorts by the clock of the pod that made it,  *)
(* and pods have clocks of their own.  The random part, which orders the   *)
(* ids of one millisecond at random, is left out: a pod makes one id per   *)
(* millisecond here.  Tags, authors and bodies are abstracted away.        *)
(***************************************************************************)
EXTENDS Naturals, FiniteSets, Sequences

CONSTANTS
    Agents,      \* sessions that use the board, one call at a time each
    Threads,     \* thread ids
    Pods,        \* service pods, each with its clock
    None,        \* no memory
    MaxMessages, \* bound: messages of a thread
    MaxClock     \* bound: milliseconds of a pod's clock

VARIABLES
    threads,     \* board_threads with their messages' ids in commit order
    memories,    \* the conclusions PutMemory has committed
    clock,       \* the clock of each pod
    pc,          \* where each agent's call is
    call,        \* the arguments of each agent's call
    look         \* what each agent knows of each thread

vars == <<threads, memories, clock, pc, call, look>>

-----------------------------------------------------------------------------
Ids == 1 .. MaxClock

\* A conclusion is known by who wrote it and on which thread: a retry of the
\* promotion replays it.
Memory == Agents \X Threads
Thread == [status: {"none", "open", "resolved"}, messages: Seq(Ids),
           memory: Memory \cup {None}]
NoThread == [status |-> "none", messages |-> <<>>, memory |-> None]

\* expected is expected_last_message_id, 0 if omitted.
Call == [op: {"reply", "resolve"}, thread: Threads, expected: 0 .. MaxClock,
         memory: Memory \cup {None}]
NoCall == [op |-> "none"]

\* last: the newest id the agent was shown; got: all of them; count: how many
\* messages the thread had when it looked.
Look == [last: 0 .. MaxClock, got: SUBSET Ids, count: 0 .. MaxMessages]
NoLook == [last |-> 0, got |-> {}, count |-> 0]

ASSUME BoardThreadsAssumption ==
    /\ None \notin Memory
    /\ MaxMessages \in Nat \ {0}
    /\ MaxClock \in Nat \ {0}

TypeOK ==
    /\ threads \in [Threads -> Thread]
    /\ memories \subseteq Memory
    /\ clock \in [Pods -> Ids]
    /\ pc \in [Agents -> {"idle", "open", "locked", "checked"}]
    /\ call \in [Agents -> Call \cup {NoCall}]
    /\ look \in [Agents -> [Threads -> Look]]

Init ==
    /\ threads = [t \in Threads |-> NoThread]
    /\ memories = {}
    /\ clock = [p \in Pods |-> 1]
    /\ pc = [a \in Agents |-> "idle"]
    /\ call = [a \in Agents |-> NoCall]
    /\ look = [a \in Agents |-> [t \in Threads |-> NoLook]]

-----------------------------------------------------------------------------
Messages(t) == {threads[t].messages[i] : i \in DOMAIN threads[t].messages}

Largest(s) == CHOOSE i \in s : \A j \in s : j <= i

\* max(id) of the thread's messages
LatestId(t) == Largest(Messages(t))

\* Mutant: the thread is read without FOR UPDATE.
UnlockedAlways(t) == TRUE

\* No other transaction holds the row lock of lockBoardThread.
Unlocked(t) == \A a \in Agents : pc[a] \in {"locked", "checked"} => call[a].thread # t

\* NewID of pod p, for a message of any thread.
NewIds(p) == {clock[p]} \ UNION {Messages(t) : t \in Threads}

\* Mutant: the INSERT of the thread counts its first message, and the bump again.
MessageCountTwice(t) == Len(threads[t].messages) + 1

\* message_count
MessageCount(t) == Len(threads[t].messages)

\* What a look that shows the messages at the positions shown, the newest last,
\* leaves the agent with.
Looked(known, t, shown) ==
    [last |-> IF shown = {} THEN known.last ELSE threads[t].messages[Largest(shown)],
     got |-> known.got \cup {threads[t].messages[i] : i \in shown},
     count |-> MessageCount(t)]

\* PostBoardThread: thread and first message in one transaction.
Post(a, p, t) ==
    /\ pc[a] = "idle"
    /\ threads[t].status = "none"
    /\ \E id \in NewIds(p) :
        /\ threads' = [threads EXCEPT ![t].status = "open", ![t].messages = <<id>>]
        /\ look' = [look EXCEPT ![a][t] = [last |-> id, got |-> {id}, count |-> 1]]
    /\ UNCHANGED <<memories, clock, pc, call>>

\* The positions of the thread's messages with id > after_message_id.
Newer(t, last) == {i \in DOMAIN threads[t].messages : threads[t].messages[i] > last}

\* ReadBoard with after_message_id, the newest id the agent was shown.
Read(a, t) ==
    /\ pc[a] = "idle"
    /\ threads[t].status # "none"
    /\ look' = [look EXCEPT ![a][t] = Looked(@, t, Newer(t, @.last))]
    /\ UNCHANGED <<threads, memories, clock, pc, call>>

\* ReplyBoardThread or ResolveBoardThread up to beginMutation, of a thread the
\* agent has read, with or without the id it read last.
Begin(a, t, op, expected) ==
    /\ pc[a] = "idle"
    /\ look[a][t].count > 0
    /\ expected \in {0, look[a][t].last}
    /\ pc' = [pc EXCEPT ![a] = "open"]
    /\ call' = [call EXCEPT ![a] =
            [op |-> op, thread |-> t, expected |-> expected, memory |-> None]]
    /\ UNCHANGED <<threads, memories, clock, look>>

\* ResolveBoardThread with promote_to_memory: PutMemory has committed before
\* the thread is looked at.
BeginPromoted(a, t, expected) ==
    /\ pc[a] = "idle"
    /\ look[a][t].count > 0
    /\ expected \in {0, look[a][t].last}
    /\ memories' = memories \cup {<<a, t>>}
    /\ pc' = [pc EXCEPT ![a] = "open"]
    /\ call' = [call EXCEPT ![a] =
            [op |-> "resolve", thread |-> t, expected |-> expected, memory |-> <<a, t>>]]
    /\ UNCHANGED <<threads, clock, look>>

\* lockBoardThread: the row is locked and found open.
Lock(a) ==
    LET t == call[a].thread IN
    /\ pc[a] = "open"
    /\ Unlocked(t)
    /\ threads[t].status = "open"
    /\ pc' = [pc EXCEPT ![a] = "locked"]
    /\ UNCHANGED <<threads, memories, clock, call, look>>

\* Mutant: any id of the thread will do.
IsAnyMessage(t, expected) == expected = 0 \/ expected \in Messages(t)

IsLatest(t, expected) == expected = 0 \/ expected = LatestId(t)

\* assertLatestBoardMessage
Check(a) ==
    /\ pc[a] = "locked"
    /\ IsLatest(call[a].thread, call[a].expected)
    /\ pc' = [pc EXCEPT ![a] = "checked"]
    /\ UNCHANGED <<threads, memories, clock, call, look>>

\* insertBoardMessage and COMMIT.  The receipt shows the agent its own message,
\* from which it goes on if it knew of all before it.
Reply(a, p) ==
    LET c == call[a]
        t == c.thread
    IN
    /\ pc[a] = "checked" /\ c.op = "reply"
    /\ Len(threads[t].messages) < MaxMessages
    /\ \E id \in NewIds(p) :
        /\ threads' = [threads EXCEPT ![t].messages = Append(@, id)]
        /\ look' = IF c.expected = 0 THEN look
                   ELSE [look EXCEPT ![a][t] =
                            [last |-> id, got |-> @.got \cup {id},
                             count |-> Len(threads[t].messages) + 1]]
    /\ pc' = [pc EXCEPT ![a] = "idle"]
    /\ call' = [call EXCEPT ![a] = NoCall]
    /\ UNCHANGED <<memories, clock>>

\* ResolveBoardThread's UPDATE and COMMIT
Resolve(a) ==
    LET t == call[a].thread IN
    /\ pc[a] = "checked" /\ call[a].op = "resolve"
    /\ threads' = [threads EXCEPT ![t].status = "resolved", ![t].memory = call[a].memory]
    /\ pc' = [pc EXCEPT ![a] = "idle"]
    /\ call' = [call EXCEPT ![a] = NoCall]
    /\ UNCHANGED <<memories, clock, look>>

\* A resolved thread, VERSION_CONFLICT, any other error, a killed pod.
Abort(a) ==
    /\ pc[a] # "idle"
    /\ pc' = [pc EXCEPT ![a] = "idle"]
    /\ call' = [call EXCEPT ![a] = NoCall]
    /\ UNCHANGED <<threads, memories, clock, look>>

Tick(p) ==
    /\ clock[p] < MaxClock
    /\ clock' = [clock EXCEPT ![p] = @ + 1]
    /\ UNCHANGED <<threads, memories, pc, call, look>>

Next ==
    \/ \E p \in Pods : Tick(p)
    \/ \E a \in Agents :
        \/ \E t \in Threads :
            \/ \E p \in Pods : Post(a, p, t)
            \/ Read(a, t)
            \/ \E expected \in {0, look[a][t].last} :
                \/ \E op \in {"reply", "resolve"} : Begin(a, t, op, expected)
                \/ BeginPromoted(a, t, expected)
        \/ Lock(a) \/ Check(a) \/ Resolve(a) \/ Abort(a)
        \/ \E p \in Pods : Reply(a, p)

Spec == Init /\ [][Next]_vars

-----------------------------------------------------------------------------
\* A reply or resolution that carries the last id its agent read is written
\* only if the thread has not grown since that agent looked at it, although
\* others may be writing (README.md on expected_last_message_id).
NoCrossPost ==
    [][\A a \in Agents :
          pc[a] = "checked" /\ call[a].expected # 0
            /\ threads'[call[a].thread] # threads[call[a].thread]
            /\ pc'[a] = "idle"
          => Len(threads[call[a].thread].messages) = look[a][call[a].thread].count]_vars

\* An agent that follows a thread by after_message_id and answers with the id
\* it saw last has been shown every message up to its last look.
FollowsAll ==
    \A a \in Agents, t \in Threads :
        \A i \in 1 .. look[a][t].count : threads[t].messages[i] \in look[a][t].got
=============================================================================
