--------------------------- MODULE ClientIdentity ---------------------------
(***************************************************************************)
(* The identity of one machine as its bridge processes hold it             *)
(* (internal/api/client.go, internal/identity/identity.go): a file they    *)
(* share, a copy each of them reads once and keeps, and the registration,  *)
(* claim, migration or lookup that changes both.                           *)
(*                                                                         *)
(* A step of a call is what it does under one mutex, a request served, or  *)
(* one of the two writes of an answer, first to the file and then to the   *)
(* copy.  A request is one transaction on the server, but for a claim,     *)
(* which looks at its target before it moves there, with nothing to stop a *)
(* migration in between.  The pod that gets a request checks its caller by *)
(* its cache, where it has an entry, and by the tables otherwise.  The     *)
(* other methods of the API are one, "call".                               *)
(*                                                                         *)
(* The machine has one tailnet identity, or none, and hardware signals     *)
(* that match for certain.  An installation of another machine stands for  *)
(* what that machine may do meanwhile.                                     *)
(***************************************************************************)
EXTENDS Naturals, FiniteSets

CONSTANTS
    Processes,      \* bridge processes of the machine
    Threads,        \* tool calls in flight in them
    ProcessOf,      \* the process of a tool call
    Installations,  \* installation codes, in the order NewID gives them
    Other,          \* the installation of another machine
    Devices,        \* device codes, those NewID gives in order
    Home,           \* the device of that machine
    Tailnets,       \* whether the machine may be on a tailnet, and may be on none
    Asked,          \* codes that device_register and device_whoami are called with
    MaxMoves,       \* claims and migrations asked for
    MaxFaults,      \* answers lost, processes restarted, systems reinstalled, caches left
                    \* as they were and, counted with them, calls with a code
    Unknown

VARIABLES
    deviceOf,  \* the installations table: the device of an installation
    statusOf,  \* the devices table: the status of a device
    mergedInto,  \* and the device it has been merged into
    tailnet,   \* whether the machine is on a tailnet
    bound,     \* the installation the machine's tailnet identity is bound to
    matching,  \* the installations that have the machine's signals
    file,      \* the identity file
    copy,      \* identityState of each process, Unknown until it is loaded
    threads,   \* the tool calls
    strays,    \* requests given up by their client and still on their way
    stale,     \* cached callers that some pod has and the tables no longer
    mine,      \* history: the installation a process came to act for first
    named,     \* history: the codes its calls have named
    moves,     \* the claims and migrations so far
    faults     \* the faults so far

tables == <<deviceOf, statusOf, mergedInto, bound, matching>>
server == <<tables, tailnet, stale>>
remembered == <<mine, named>>
clientVars == <<server, file, copy, threads, strays, remembered, moves, faults>>

-----------------------------------------------------------------------------
Codes == Installations \cup {Other} \cup Asked
State == [installation: Codes, device: Devices]
NoState == [installation |-> Unknown, device |-> Unknown]

Ops == {"call", "register", "whoami", "claim", "migrate"}

\* A request: the identity it asserts, and the device or installation it names.  A
\* claim that has looked at its target is "claiming".
NoRequest == [op |-> "none", asserts |-> NoState, names |-> Unknown]
Request == {NoRequest} \cup
    [op: (Ops \ {"call"}) \cup {"claiming"}, asserts: {NoState} \cup State, names: Devices \cup Codes \cup {Unknown}]

\* A tool call: what it was called for, the request it has sent, and the identity
\* it has to persist.
Idle == [pc |-> "idle", op |-> "none", names |-> Unknown, request |-> NoRequest, answer |-> NoState]
Thread == {Idle} \cup
    [pc: {"waiting", "sent", "merged", "answered", "saved", "registered"}, op: Ops,
     names: Devices \cup Codes \cup {Unknown}, request: Request, answer: {NoState} \cup State]

ASSUME ClientIdentityAssumption ==
    /\ ProcessOf \in [Threads -> Processes]
    /\ Codes \subseteq Nat /\ Devices \subseteq Nat
    /\ Home \in Devices /\ Other \notin Installations
    /\ Unknown \notin Codes \cup Devices /\ Unknown \notin State \cup {NoState}
    /\ Tailnets \subseteq BOOLEAN /\ MaxMoves \in Nat /\ MaxFaults \in Nat

ClientTypeOK ==
    /\ deviceOf \in [Codes -> Devices \cup {Unknown}]
    /\ statusOf \in [Devices -> {"none", "active", "merged"}]
    /\ mergedInto \in [Devices -> Devices \cup {Unknown}]
    /\ tailnet \in BOOLEAN /\ bound \in Codes \cup {Unknown}
    /\ matching \subseteq Codes /\ stale \subseteq Codes \X Devices
    /\ file \in {NoState} \cup State
    /\ copy \in [Processes -> {Unknown, NoState} \cup State]
    /\ threads \in [Threads -> Thread]
    /\ strays \subseteq Request
    /\ mine \in [Processes -> Codes \cup {Unknown}] /\ named \in [Processes -> SUBSET Codes]
    /\ moves \in 0 .. MaxMoves /\ faults \in 0 .. MaxFaults

ClientInit ==
    /\ deviceOf = [i \in Codes |-> IF i = Other THEN Home ELSE Unknown]
    /\ statusOf = [d \in Devices |-> IF d = Home THEN "active" ELSE "none"]
    /\ mergedInto = [d \in Devices |-> Unknown]
    /\ tailnet \in Tailnets /\ bound = Unknown /\ matching = {} /\ stale = {}
    /\ file = NoState /\ copy = [p \in Processes |-> Unknown]
    /\ threads = [t \in Threads |-> Idle]
    /\ strays = {} /\ moves = 0 /\ faults = 0
    /\ mine = [p \in Processes |-> Unknown] /\ named = [p \in Processes |-> {}]

-----------------------------------------------------------------------------
\* The server.

Active(d) == d \in Devices /\ statusOf[d] = "active"

\* WhoAmI: the device of an installation, or the one it has been merged into, but no
\* further; nothing if that is not active.
Resolved(i) ==
    LET d == deviceOf[i]
        device == IF d \in Devices /\ mergedInto[d] # Unknown THEN mergedInto[d] ELSE d
    IN  IF Active(device) THEN device ELSE Unknown

\* verifyCaller: the devices a pod may take an installation to be on, by the tables or
\* by its cache.  A caller that asserts another one is refused.
Taken(state) ==
    IF state = NoState THEN {Unknown}
    ELSE {Resolved(state.installation)} \cup {d \in Devices : <<state.installation, d>> \in stale}

\* What a pod has cached of an installation that is moved may stay in its cache, if it
\* is not the one that moves it (clearIdentityCache) or caches it just then.
CachesKeep ==
    LET moved == {i \in Codes : Resolved(i) # Unknown /\ Resolved(i)' # Resolved(i)} IN
    \/ UNCHANGED <<stale, faults>>
    \/ \E kept \in SUBSET moved \ {{}} :
        /\ stale' = stale \cup {<<i, Resolved(i)>> : i \in kept}
        /\ faults < MaxFaults /\ faults' = faults + 1

\* The code NewID gives next, of those it has yet to give.
First(free) == {n \in free : \A m \in free : n <= m}

\* findDeviceMatches: a new installation goes to the machine's device when its
\* signals are of one active device, and to a new device otherwise.
Candidates == {d \in Devices : Active(d) /\ \E i \in matching : deviceOf[i] = d}
Choice == IF Cardinality(Candidates) = 1 THEN Candidates
          ELSE First({d \in Devices : statusOf[d] = "none"})

RefusesMatched(q, taken) ==
    CASE q.op = "register" -> \/ q.asserts # NoState /\ taken # q.asserts.device
                              \/ q.asserts = NoState /\ Candidates # {}
      [] q.op = "claim"    -> taken # q.asserts.device \/ ~Active(q.names)
      [] q.op = "claiming" -> FALSE
      [] q.op = "migrate"  -> taken # q.asserts.device \/ ~Active(q.asserts.device) \/ ~Active(q.names)
                                  \/ q.names = q.asserts.device
      [] q.op = "whoami"   -> Resolved(q.names) = Unknown

\* A caller that the pod takes for another one is refused; so is a registration of an
\* installation that is not its caller's, or of a tailnet identity bound to another.
Refuses(q, taken) ==
    CASE q.op = "register" -> \/ q.asserts # NoState /\ taken # q.asserts.device
                              \/ tailnet /\ bound \notin {Unknown, q.names}
                              \/ deviceOf[q.names] # Unknown /\ q.asserts.installation # q.names
      [] q.op = "claim"    -> taken # q.asserts.device \/ ~Active(q.names)
      [] q.op = "claiming" -> FALSE
      [] q.op = "migrate"  -> taken # q.asserts.device \/ ~Active(q.asserts.device) \/ ~Active(q.names)
                                  \/ q.names = q.asserts.device
      [] q.op = "whoami"   -> Resolved(q.names) = Unknown

\* lockInstallation: a claim that has looked at its target has its installation locked.
Locked(i) ==
    \E q \in strays \cup {threads[t].request : t \in Threads} : q.op = "claiming" /\ q.asserts.installation = i
Waits(q) ==
    \/ q.op = "register" /\ Locked(q.names)
    \/ q.op = "claim" /\ Locked(q.asserts.installation)

\* RegisterDevice, and the refresh of an installation that has been registered.
Registers(q) ==
    /\ IF deviceOf[q.names] # Unknown THEN UNCHANGED <<deviceOf, statusOf>>
       ELSE \E d \in Choice : /\ deviceOf' = [deviceOf EXCEPT ![q.names] = d]
                              /\ statusOf' = [statusOf EXCEPT ![d] = "active"]
    /\ bound' = IF tailnet THEN q.names ELSE bound
    /\ matching' = matching \cup {q.names}
    /\ UNCHANGED <<mergedInto, tailnet, stale, faults>>

\* ClaimDevice.
Claims(i, d) ==
    /\ deviceOf' = [deviceOf EXCEPT ![i] = d]
    /\ UNCHANGED <<statusOf, mergedInto, tailnet, bound, matching>>
    /\ CachesKeep

\* MigrateDevice moves every installation of the source.
Migrates(source, target) ==
    /\ deviceOf' = [i \in Codes |-> IF deviceOf[i] = source THEN target ELSE deviceOf[i]]
    /\ statusOf' = [statusOf EXCEPT ![source] = "merged"]
    /\ mergedInto' = [mergedInto EXCEPT ![source] = target]
    /\ UNCHANGED <<tailnet, bound, matching>>
    /\ CachesKeep

PerformsUncommitted(q) ==
    CASE q.op = "claiming" -> Claims(q.asserts.installation, q.names)
      [] q.op = "migrate"  -> Migrates(q.asserts.device, q.names)
      [] OTHER             -> UNCHANGED <<server, faults>>

Performs(q) ==
    CASE q.op = "register" -> Registers(q)
      [] q.op = "claiming" -> Claims(q.asserts.installation, q.names)
      [] q.op = "migrate"  -> Migrates(q.asserts.device, q.names)
      [] q.op \in {"claim", "whoami"} -> UNCHANGED <<server, faults>>

-----------------------------------------------------------------------------
\* A bridge process.

Set(t, thread) == threads' = [threads EXCEPT ![t] = thread]
Copy(t) == copy[ProcessOf[t]]

\* loadIdentity reads the file once in the life of a process, and keeps that there
\* was none as well.
Loaded(t) == IF Copy(t) = Unknown THEN file ELSE Copy(t)
KeepsLoaded(t) == copy' = [copy EXCEPT ![ProcessOf[t]] = Loaded(t)]

\* The installation a process begins to act for.
Begins(t, state) ==
    mine' = IF Copy(t) \notin State /\ state # NoState THEN [mine EXCEPT ![ProcessOf[t]] = state.installation]
            ELSE mine

\* The request of a call that acts for an identity; one of the other methods is
\* answered or refused and leaves no trace.
Names(thread, state) ==
    IF thread.op = "whoami" /\ thread.names = Unknown THEN state.installation ELSE thread.names
Sent(thread, state) ==
    IF thread.op = "call" THEN Idle
    ELSE [thread EXCEPT !.pc = "sent",
             !.request = [op |-> thread.op, asserts |-> state, names |-> Names(thread, state)]]

\* A tool is called: device_register goes for registrationMu, any other call loads
\* the identity first and registers only if there is none (caller).
StartCall(t, op, names) ==
    LET thread == [Idle EXCEPT !.pc = "waiting", !.op = op, !.names = names] IN
    /\ threads[t] = Idle
    /\ op \in {"claim", "migrate"} => names \in Devices
    /\ op \in {"register", "whoami"} => names \in Asked \cup {Unknown}
    /\ op = "call" => names = Unknown
    /\ \/ /\ names = Unknown
          /\ UNCHANGED <<named, moves, faults>>
       \/ /\ op \in {"claim", "migrate"}
          /\ moves < MaxMoves /\ moves' = moves + 1
          /\ UNCHANGED <<named, faults>>
       \/ /\ op \in {"register", "whoami"} /\ names # Unknown
          /\ faults < MaxFaults /\ faults' = faults + 1
          /\ named' = [named EXCEPT ![ProcessOf[t]] = @ \cup {names}]
          /\ UNCHANGED moves
    /\ IF op = "register"
       THEN Set(t, thread) /\ UNCHANGED <<copy, mine>>
       ELSE /\ KeepsLoaded(t) /\ Begins(t, Loaded(t))
            /\ Set(t, IF Loaded(t) = NoState THEN thread ELSE Sent(thread, Loaded(t)))
    /\ UNCHANGED <<server, file, strays>>

\* RegisterDevice holds registrationMu until its answer is persisted.
Registering(t) == threads[t].pc # "waiting" /\ threads[t].request.op = "register"
MutexFree(t) == \A u \in Threads : ProcessOf[u] = ProcessOf[t] => ~Registering(u)

\* An installation that is neither registered nor on its way to be.
Fresh == {i \in Installations :
    deviceOf[i] = Unknown /\ \A q \in strays \cup {threads[t].request : t \in Threads} : q.names # i}

RegistersAs(t, state, i) ==
    [threads[t] EXCEPT !.pc = "sent", !.request = [op |-> "register", asserts |-> state, names |-> i]]

RegisterDeviceAnew(t) ==
    /\ threads[t].pc = "waiting" /\ MutexFree(t)
    /\ \E i \in First(Fresh) : Set(t, RegistersAs(t, NoState, i))
    /\ KeepsLoaded(t) /\ Begins(t, Loaded(t))
    /\ UNCHANGED <<server, file, strays, named, moves, faults>>

\* RegisterDevice loads the identity again, as the thread that had the mutex may
\* have registered the process meanwhile, and registers the code it is called with,
\* the one it has, or a new one.
RegisterDevice(t) ==
    LET state == Loaded(t)
        explicit == IF threads[t].op = "register" THEN threads[t].names ELSE Unknown
    IN
    /\ threads[t].pc = "waiting" /\ MutexFree(t)
    /\ \E i \in IF explicit # Unknown THEN {explicit}
               ELSE IF state = NoState THEN First(Fresh) ELSE {state.installation} :
          Set(t, RegistersAs(t, state, i))
    /\ KeepsLoaded(t) /\ Begins(t, state)
    /\ UNCHANGED <<server, file, strays, named, moves, faults>>

\* The request is served.  A refusal ends the call; an answer comes with the device
\* of an installation: for a refresh the one it is on, merged or not, for a lookup the
\* one that has been merged into, and for a migration without.
Answer(thread, i, d) ==
    [thread EXCEPT !.pc = "answered", !.answer = [installation |-> i, device |-> d]]
Answered(t) ==
    LET thread == threads[t]
        q == thread.request
    IN  CASE q.op = "register" -> Answer(thread, q.names, deviceOf'[q.names])
          [] q.op = "claim"    -> [thread EXCEPT !.request.op = "claiming"]
          [] q.op = "claiming" -> Answer(thread, q.asserts.installation, q.names)
          [] q.op = "migrate"  -> [thread EXCEPT !.pc = "merged"]
          [] q.op = "whoami"   -> Answer(thread, q.names, Resolved(q.names))

Serve(t) ==
    LET q == threads[t].request IN
    /\ threads[t].pc = "sent" /\ ~Waits(q)
    /\ \E taken \in Taken(q.asserts) :
          IF Refuses(q, taken) THEN UNCHANGED <<server, faults>> /\ Set(t, Idle)
          ELSE Performs(q) /\ Set(t, Answered(t))
    /\ UNCHANGED <<file, copy, strays, remembered, moves>>

\* The entry of a pod's cache expires, five minutes after it was made.
Expire ==
    /\ \E entry \in stale : stale' = stale \ {entry}
    /\ UNCHANGED <<tables, tailnet, file, copy, threads, strays, remembered, moves, faults>>

\* MigrateDevice loads the identity again and puts it on the target.
Reload(t) ==
    /\ threads[t].pc = "merged"
    /\ Set(t, [threads[t] EXCEPT !.pc = "answered",
                                 !.answer = [Copy(t) EXCEPT !.device = threads[t].names]])
    /\ UNCHANGED <<server, file, copy, strays, remembered, moves, faults>>

SaveUnlessLookup(t) ==
    /\ threads[t].pc = "answered"
    /\ file' = IF threads[t].request.op = "whoami" THEN file ELSE threads[t].answer
    /\ Set(t, IF threads[t].request.op = "whoami" THEN Idle ELSE [threads[t] EXCEPT !.pc = "saved"])
    /\ UNCHANGED <<server, copy, strays, remembered, moves, faults>>

\* persistRegistration: identity.Save replaces the file by a rename ...
Save(t) ==
    /\ threads[t].pc = "answered"
    /\ file' = threads[t].answer
    /\ Set(t, [threads[t] EXCEPT !.pc = "saved"])
    /\ UNCHANGED <<server, copy, strays, remembered, moves, faults>>

\* ... then setIdentity replaces the copy; a call that had to register loads it next.
SetIdentity(t) ==
    /\ threads[t].pc = "saved"
    /\ copy' = [copy EXCEPT ![ProcessOf[t]] = threads[t].answer]
    /\ Begins(t, threads[t].answer)
    /\ Set(t, IF Registering(t) /\ threads[t].op # "register"
              THEN [threads[t] EXCEPT !.pc = "registered", !.request = NoRequest, !.answer = NoState]
              ELSE Idle)
    /\ UNCHANGED <<server, file, strays, named, moves, faults>>

SendRegistered(t) ==
    /\ threads[t].pc = "registered"
    /\ Set(t, Sent(threads[t], Copy(t)))
    /\ UNCHANGED <<server, file, copy, strays, remembered, moves, faults>>

-----------------------------------------------------------------------------
\* What goes wrong.

\* The HTTP client times out, or its tool call is cancelled, before the request
\* arrives, before its answer does, or while the request is still on its way.  A lookup
\* that arrives late leaves no trace.
GiveUp(t) ==
    /\ threads[t].pc \in {"sent", "merged", "answered"} /\ faults < MaxFaults
    /\ faults' = faults + 1
    /\ Set(t, Idle)
    /\ strays' \in IF threads[t].pc = "sent" /\ threads[t].request.op # "whoami"
                  THEN {strays, strays \cup {threads[t].request}} ELSE {strays}
    /\ UNCHANGED <<server, file, copy, remembered, moves>>

ServeStray(q) ==
    /\ q \in strays /\ ~Waits(q)
    /\ \E taken \in Taken(q.asserts) :
          IF Refuses(q, taken) THEN UNCHANGED <<server, faults>> /\ strays' = strays \ {q}
          ELSE /\ Performs(q)
               /\ strays' = (strays \ {q}) \cup IF q.op = "claim" THEN {[q EXCEPT !.op = "claiming"]} ELSE {}
    /\ UNCHANGED <<file, copy, threads, remembered, moves>>

\* A process is ended, by the host that runs it or with it, at any point.
Stopped(ended) ==
    /\ faults < MaxFaults
    /\ faults' = faults + 1
    /\ copy' = [p \in Processes |-> IF p \in ended THEN Unknown ELSE copy[p]]
    /\ threads' = [t \in Threads |-> IF ProcessOf[t] \in ended THEN Idle ELSE threads[t]]
    /\ mine' = [p \in Processes |-> IF p \in ended THEN Unknown ELSE mine[p]]
    /\ named' = [p \in Processes |-> IF p \in ended THEN {} ELSE named[p]]
    /\ UNCHANGED <<server, strays, moves>>

Restart(p) == Stopped({p}) /\ UNCHANGED file
Reinstall == Stopped(Processes) /\ file' = NoState

\* The other machine claims a device, which may have been merged since it looked at it,
\* or migrates its own.
Elsewhere(d) ==
    /\ moves < MaxMoves
    /\ moves' = moves + 1
    /\ \/ statusOf[d] # "none" /\ d # deviceOf[Other] /\ ~Locked(Other) /\ Claims(Other, d)
       \/ \E source \in Taken([installation |-> Other, device |-> d]) \ {d} :
            Active(source) /\ Active(d) /\ Migrates(source, d)
    /\ UNCHANGED <<file, copy, threads, strays, remembered>>

ClientNext ==
    \/ \E t \in Threads :
        \/ \E op \in Ops, names \in Devices \cup Asked \cup {Unknown} : StartCall(t, op, names)
        \/ RegisterDevice(t) \/ Serve(t) \/ Reload(t) \/ Save(t) \/ SetIdentity(t) \/ SendRegistered(t)
        \/ GiveUp(t)
    \/ \E q \in strays : ServeStray(q)
    \/ Expire
    \/ \E p \in Processes : Restart(p)
    \/ Reinstall
    \/ \E d \in Devices : Elsewhere(d)

ClientSpec == ClientInit /\ [][ClientNext]_clientVars

\* Tools are called now and then, a call that nothing holds up goes on, a transaction
\* comes to its end whether its client waits or not, and what is cached expires.
ClientFairness ==
    /\ \A t \in Threads :
        /\ WF_clientVars(StartCall(t, "call", Unknown))
        /\ WF_clientVars(RegisterDevice(t)) /\ WF_clientVars(Serve(t)) /\ WF_clientVars(Reload(t))
        /\ WF_clientVars(Save(t)) /\ WF_clientVars(SetIdentity(t)) /\ WF_clientVars(SendRegistered(t))
    /\ WF_clientVars(\E q \in strays : q.op = "claiming" /\ ServeStray(q))
    /\ WF_clientVars(Expire)
ClientFairSpec == ClientSpec /\ ClientFairness

-----------------------------------------------------------------------------
\* A process acts, as long as it runs, for the installation it came to act for first or
\* for one that a call of its own has named, however many of its calls find it without
\* an identity at once (the second load of RegisterDevice).  A call that names a code,
\* device_whoami or device_register, makes it the process's own.
InstallationIsStable ==
    \A p \in Processes : copy[p] \in State => copy[p].installation \in {mine[p]} \cup named[p]

\* Whatever got lost, and in whatever order answers came: once devices are no longer
\* claimed and migrated and the caches of the pods have expired, device_whoami puts a
\* process back on the device its installation is on, and no call of that process is
\* refused from then on.  Excepted is an installation that a claim put on a device that
\* was being merged: WhoAmI follows one merge and no second one (device.go:400), and the
\* answer to device_register is the merged device again.
Agrees(state) ==
    state \in State /\ Active(deviceOf[state.installation]) => Taken(state) = {state.device}
WhoAmIHeals ==
    \A t \in Threads :
        []<><<\E names \in Asked \cup {Unknown} : StartCall(t, "whoami", names)>>_clientVars
            => <>[]Agrees(copy[ProcessOf[t]])

\* A process whose tools are called comes to act for an installation
\* (MEMORY_AUTO_REGISTER), whichever of its registrations were lost, unless one that the
\* process never heard of has bound the machine's tailnet identity: every other one is
\* refused from then on (device.go:78).
RefusedFor(p) ==
    /\ tailnet /\ bound # Unknown /\ copy[p] = NoState
    /\ \A t \in Threads : ProcessOf[t] = p => threads[t].answer = NoState
EventuallyRegistered == \A p \in Processes : []<>(copy[p] \in State \/ RefusedFor(p))
=============================================================================
