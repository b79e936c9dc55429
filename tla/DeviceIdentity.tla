--------------------------- MODULE DeviceIdentity ---------------------------
(***************************************************************************)
(* Which logical device an installation belongs to: registration, claim    *)
(* and migration (internal/service/device.go) as READ COMMITTED            *)
(* transactions, and the identity cache each pod puts before them          *)
(* (verifyCaller of internal/api/server.go).                               *)
(*                                                                         *)
(* A step is a lock, or a statement that reads what a later one relies on; *)
(* the writes of a transaction and its COMMIT are one step, except that a  *)
(* migration moves installations and signals by statements of their own.   *)
(*                                                                         *)
(* A machine stands for its hardware, one signal that is strong enough for *)
(* an automatic match, and for its tailnet identity.  Weaker signals only  *)
(* change the answer.  The device a request asserts is left out: what a    *)
(* pod takes an installation's device to be, some process on the machine   *)
(* has been told too.  A cached entry may expire at any time.  The other   *)
(* methods of the API fill the cache and leave identities alone, as an     *)
(* aborted request does here.                                              *)
(***************************************************************************)
EXTENDS Naturals, FiniteSets, Sequences

CONSTANTS
    Requests,       \* requests in flight
    Pods,           \* service pods, each with its cache
    Machines,       \* the machines that run installations
    Installations,  \* installation codes
    Devices,        \* device codes, as their rank in string order
    Callers,        \* the installations that ask for more than to be registered
    Named,          \* those a user may request; the others come from NewID
    None            \* no device, machine or identity

VARIABLES
    devices,        \* the devices table: status and merged_into_device_code
    installations,  \* the installations table: device and tailnet identity
    signals,        \* device_signals: whose hardware, and the device it is for
    cache,          \* identityCache of each pod: the device of an installation
    txns,           \* the request in each slot
    held,           \* the advisory locks of its transaction
    raced           \* history: installations that claimed a device while it
                    \* was being merged

vars == <<devices, installations, signals, cache, txns, held, raced>>
tables == <<devices, installations, signals, raced>>

-----------------------------------------------------------------------------
MaybeMachine == Machines \cup {None}
MaybeDevice == Devices \cup {None}
Device == [status: {"none", "active"}, into: {None}] \cup [status: {"merged"}, into: Devices]
NoDevice == [status |-> "none", into |-> None]
NoInstallation == [device |-> None, tailnet |-> None]
Installation == {NoInstallation} \cup [device: Devices, tailnet: MaybeMachine]
NoSignal == [hardware |-> None, device |-> None]
Signal == {NoSignal} \cup [hardware: Machines, device: Devices]
Names == ({"installation"} \X Installations) \cup ({"tailnet"} \X Machines)
            \cup ({"device"} \X Devices)

\* A request in its slot: the caller's device as the pod knows it, the locks it
\* still has to take, and what its transaction has read or locked so far.
Request(ops) ==
    [pc: {"verified", "begun", "checked"}, op: ops, pod: Pods,
     installation: Installations, machine: Machines, tailnet: MaybeMachine,
     caller: MaybeDevice, target: MaybeDevice, todo: Seq(Names), device: MaybeDevice,
     moved: SUBSET Installations]
NoTxn == [pc |-> "idle", op |-> "none", pod |-> None, installation |-> None,
          machine |-> None, tailnet |-> None, caller |-> None, target |-> None,
          todo |-> <<>>, device |-> None, moved |-> {}]
Clearing(p) == [NoTxn EXCEPT !.pc = "clearing", !.pod = p]
Txn == {NoTxn} \cup {Clearing(p) : p \in Pods}
          \cup Request({"register", "refresh", "claim", "migrate"})

ASSUME DeviceIdentityAssumption ==
    /\ Devices \subseteq Nat /\ Named \subseteq Devices /\ Callers \subseteq Installations
    /\ None \notin Devices \cup Machines \cup Pods \cup Installations
    /\ IsFiniteSet(Devices)

TypeOK ==
    /\ devices \in [Devices -> Device]
    /\ installations \in [Installations -> Installation]
    /\ signals \in [Installations -> Signal]
    /\ cache \in [Pods -> [Installations -> MaybeDevice]]
    /\ txns \in [Requests -> Txn]
    /\ held \in [Requests -> SUBSET Names]
    /\ raced \subseteq Installations

Init ==
    /\ devices = [d \in Devices |-> NoDevice]
    /\ installations = [i \in Installations |-> NoInstallation]
    /\ signals = [i \in Installations |-> NoSignal]
    /\ cache = [p \in Pods |-> [i \in Installations |-> None]]
    /\ txns = [r \in Requests |-> NoTxn]
    /\ held = [r \in Requests |-> {}]
    /\ raced = {}

-----------------------------------------------------------------------------
Active(d) == d \in Devices /\ devices[d].status = "active"
Registered(i) == installations[i].device # None

\* Store.WhoAmI: a merged device is followed to the one it was merged into,
\* once; None if that one is not active.
WhoAmI(i) ==
    LET d == installations[i].device
        canonical == IF d # None /\ devices[d].into # None THEN devices[d].into ELSE d
    IN  IF Active(canonical) THEN canonical ELSE None

Held(name) == \E r \in Requests : name \in held[r]
\* The rows of installations a migration has updated and not yet committed.
RowLocked(i) == \E r \in Requests : i \in txns[r].moved

\* lockDeviceCodes sorts the codes it is given.
LockOrderGiven(a, b) == <<<<"device", a>>, <<"device", b>>>>
LockOrder(a, b) == IF a < b THEN LockOrderGiven(a, b) ELSE LockOrderGiven(b, a)

\* The advisory locks a transaction takes first.
LocksOfInstallation(txn) ==
    IF txn.op = "migrate" THEN LockOrder(txn.caller, txn.target)
    ELSE <<<<"installation", txn.installation>>>>

LocksOf(txn) ==
    LocksOfInstallation(txn)
        \o IF txn.tailnet = None THEN <<>> ELSE <<<<"tailnet", txn.tailnet>>>>

Set(r, txn) == txns' = [txns EXCEPT ![r] = txn]
\* COMMIT or ROLLBACK: the locks go.
End(r, txn) == held' = [held EXCEPT ![r] = {}] /\ Set(r, txn)

-----------------------------------------------------------------------------
\* The handler and its beginMutation.  Only a migration needs the caller's device.
Begun(txn) == [txn EXCEPT !.pc = "begun", !.todo = LocksOf(txn),
                          !.caller = IF txn.op = "migrate" THEN @ ELSE None]

\* A machine registers an installation that is new to it: no caller to verify.
Register(r, p, i, m, tailnet, requested) ==
    /\ txns[r].pc = "idle"
    /\ ~Registered(i)
    /\ Set(r, Begun([NoTxn EXCEPT !.op = "register", !.pod = p, !.installation = i,
                                  !.machine = m, !.tailnet = tailnet, !.target = requested]))
    /\ UNCHANGED <<tables, cache, held>>

\* Any other request names a registered installation.  verifyCaller takes its
\* device from the cache unless the entry has expired; one that it reads, it
\* caches in a second step; one that WhoAmI does not resolve is refused.
Ask(r, p, op, i, tailnet, target) ==
    /\ txns[r].pc = "idle" /\ Registered(i)
    /\ \E cached \in BOOLEAN :
          LET known == IF cached THEN cache[p][i] ELSE WhoAmI(i)
              txn == [NoTxn EXCEPT !.op = op, !.pod = p, !.installation = i, !.caller = known,
                                   !.machine = signals[i].hardware, !.tailnet = tailnet,
                                   !.target = target]
          IN  /\ known # None
              /\ op = "migrate" => target # known
              /\ Set(r, IF cached THEN Begun(txn) ELSE [txn EXCEPT !.pc = "verified"])
    /\ UNCHANGED <<tables, cache, held>>

\* cacheIdentity.
Cache(r) ==
    /\ txns[r].pc = "verified"
    /\ cache' = [cache EXCEPT ![txns[r].pod][txns[r].installation] = txns[r].caller]
    /\ Set(r, Begun(txns[r]))
    /\ UNCHANGED <<tables, held>>

\* clearIdentityCache of the pod that served a claim or a migration.
Clear(r) ==
    /\ txns[r].pc = "clearing"
    /\ cache' = [cache EXCEPT ![txns[r].pod] = [i \in Installations |-> None]]
    /\ Set(r, NoTxn)
    /\ UNCHANGED <<tables, held>>

\* An error return, a lost connection or a killed pod before the COMMIT.
Abort(r) ==
    /\ txns[r].pc \in {"verified", "begun", "checked"}
    /\ End(r, NoTxn)
    /\ UNCHANGED <<tables, cache>>

\* pg_advisory_xact_lock.
Acquire(r) ==
    LET txn == txns[r] IN
    /\ txn.todo # <<>> /\ ~Held(Head(txn.todo))
    /\ held' = [held EXCEPT ![r] = @ \cup {Head(txn.todo)}]
    /\ Set(r, [txn EXCEPT !.todo = Tail(@)])
    /\ UNCHANGED <<tables, cache>>

At(r, op, pc) == txns[r].op = op /\ txns[r].pc = pc /\ txns[r].todo = <<>>
Checked(r) == [txns[r] EXCEPT !.pc = "checked"]

-----------------------------------------------------------------------------
\* findTailnetInstallation: the identity is another installation's.
Bound(i, tailnet) ==
    tailnet # None /\ \E j \in Installations \ {i} : installations[j].tailnet = tailnet

\* findDeviceMatches: the active devices with a signal of this hardware; one
\* that scores highest alone is taken automatically.
Matches(m) == {d \in Devices : Active(d) /\ \E j \in Installations : signals[j] = [hardware |-> m, device |-> d]}

\* The device codes that NewID may return.
Fresh == {d \in Devices \ Named : devices[d].status = "none" /\ \A r \in Requests : txns[r].device # d}

\* RegisterDevice of a new installation, as one that exists by now has a caller
\* to verify and there is none: the match, or else the requested code
\* if there is no such device yet, or else a new one.
SelectableBlank(m, requested) ==
    IF Cardinality(Matches(m)) = 1 THEN Matches(m)
    ELSE IF \A d \in Devices : d = requested => devices[d].status = "none" THEN {requested}
    ELSE Fresh

Selectable(m, requested) ==
    IF Cardinality(Matches(m)) = 1 THEN Matches(m)
    ELSE IF requested # None /\ devices[requested].status = "none" THEN {requested}
    ELSE Fresh

Match(r) ==
    LET txn == txns[r] IN
    /\ At(r, "register", "begun")
    /\ ~Registered(txn.installation) /\ ~Bound(txn.installation, txn.tailnet)
    /\ \E d \in Selectable(txn.machine, txn.target) :
          Set(r, [Checked(r) EXCEPT !.device = d, !.todo = <<<<"device", d>>>>])
    /\ UNCHANGED <<tables, cache, held>>

\* ensureDevice and insertInstallation, with the device's lock.
EnrollableAlways(d) == TRUE

Enrollable(d) == devices[d].status \in {"none", "active"}

Enroll(r) ==
    LET txn == txns[r]
        i == txn.installation
        d == txn.device
    IN  /\ At(r, "register", "checked")
        /\ Enrollable(d)
        /\ devices' = [devices EXCEPT ![d].status = IF @ = "none" THEN "active" ELSE @]
        /\ installations' = [installations EXCEPT ![i] = [device |-> d, tailnet |-> txn.tailnet]]
        /\ signals' = [signals EXCEPT ![i] = [hardware |-> txn.machine, device |-> d]]
        /\ End(r, NoTxn)
        /\ UNCHANGED <<cache, raced>>

\* RegisterDevice of an installation that exists: its row is read ...
ReadExisting(r) ==
    LET txn == txns[r] IN
    /\ At(r, "refresh", "begun")
    /\ ~Bound(txn.installation, txn.tailnet)
    /\ Set(r, [Checked(r) EXCEPT !.device = installations[txn.installation].device])
    /\ UNCHANGED <<tables, cache, held>>

\* ... and refreshInstallation writes it, and the signals for the device read.
Refresh(r) ==
    LET txn == txns[r]
        i == txn.installation
    IN  /\ At(r, "refresh", "checked")
        /\ ~RowLocked(i)
        /\ installations' = [installations EXCEPT ![i].tailnet =
                                IF txn.tailnet = None THEN @ ELSE txn.tailnet]
        /\ signals' = [signals EXCEPT ![i] = [hardware |-> txn.machine, device |-> txn.device]]
        /\ End(r, NoTxn)
        /\ UNCHANGED <<devices, cache, raced>>

\* ClaimDevice: the target is active when it is looked at ...
CheckTarget(r) ==
    /\ At(r, "claim", "begun")
    /\ Active(txns[r].target)
    /\ Set(r, Checked(r))
    /\ UNCHANGED <<tables, cache, held>>

\* ... and the installation and its signals are its, without the device's lock.
Claim(r) ==
    LET i == txns[r].installation
        d == txns[r].target
        merging == \E s \in Requests : txns[s].op = "migrate" /\ txns[s].pc = "checked" /\ txns[s].caller = d
    IN  /\ At(r, "claim", "checked")
        /\ ~RowLocked(i)
        /\ installations' = [installations EXCEPT ![i].device = d]
        /\ signals' = [signals EXCEPT ![i].device = d]
        /\ raced' = IF Active(d) /\ ~merging THEN raced \ {i} ELSE raced \cup {i}
        /\ End(r, Clearing(txns[r].pod))
        /\ UNCHANGED <<devices, cache>>

\* MigrateDevice, with both devices' locks: the source is marked as merged and
\* the installations that are on it by then are moved ...
CanMergeFrom(r) == Active(txns[r].caller) /\ devices[txns[r].target].status # "none"

CanMerge(r) == Active(txns[r].caller) /\ Active(txns[r].target)
On(d) == {i \in Installations : installations[i].device = d}

Merge(r) ==
    /\ At(r, "migrate", "begun")
    /\ CanMerge(r)
    /\ Set(r, [Checked(r) EXCEPT !.moved = On(txns[r].caller)])
    /\ UNCHANGED <<tables, cache, held>>

\* ... then the signals; nobody sees any of it before the COMMIT.
Migrate(r) ==
    LET txn == txns[r] IN
    /\ At(r, "migrate", "checked")
    /\ devices' = [devices EXCEPT ![txn.caller] = [status |-> "merged", into |-> txn.target]]
    /\ installations' = [i \in Installations |->
                            IF i \in txn.moved THEN [installations[i] EXCEPT !.device = txn.target]
                                                ELSE installations[i]]
    /\ signals' = [i \in Installations |->
                            IF signals[i].device = txn.caller THEN [signals[i] EXCEPT !.device = txn.target]
                                                              ELSE signals[i]]
    /\ raced' = raced \ txn.moved
    /\ End(r, Clearing(txn.pod))
    /\ UNCHANGED cache

Next ==
    \/ \E r \in Requests, p \in Pods, i \in Installations :
        \/ \E m \in Machines, requested \in Named \cup {None} : \E tailnet \in {m, None} :
              Register(r, p, i, m, tailnet, requested)
        \/ i \in Callers /\ \E tailnet \in {signals[i].hardware, None} : Ask(r, p, "refresh", i, tailnet, None)
        \/ i \in Callers /\ \E op \in {"claim", "migrate"}, d \in Devices : Ask(r, p, op, i, None, d)
    \/ \E r \in Requests :
        \/ Cache(r) \/ Clear(r) \/ Abort(r) \/ Acquire(r)
        \/ Match(r) \/ Enroll(r)
        \/ ReadExisting(r) \/ Refresh(r)
        \/ CheckTarget(r) \/ Claim(r)
        \/ Merge(r) \/ Migrate(r)

Spec == Init /\ [][Next]_vars

-----------------------------------------------------------------------------
\* Merges lead somewhere: whatever migrations cross, a merged device leads, merge
\* by merge, to one that is active (lockDeviceCodes and MigrateDevice).
MergesEnd ==
    LET merged == {d \in Devices : devices[d].status = "merged"} IN
    /\ \A d \in merged : devices[devices[d].into].status # "none"
    /\ \A loop \in SUBSET merged : loop # {} => \E d \in loop : devices[d].into \notin loop

\* A registration or a migration never leaves an installation on a device that
\* is merged by the time it commits.  Only a claim can, as it looks at its target
\* without the device's lock (ensureDevice after lockDeviceCodes, device.go:144).
OnActiveDevice ==
    \A i \in Installations \ raced : Registered(i) => Active(installations[i].device)

\* Registrations, claims and migrations never wait for one another in a circle,
\* by advisory locks or by the rows a migration has updated (lockDeviceCodes).
WaitsFor(r) ==
    {s \in Requests \ {r} :
        \/ txns[r].todo # <<>> /\ Head(txns[r].todo) \in held[s]
        \/ (At(r, "refresh", "checked") \/ At(r, "claim", "checked")) /\ txns[r].installation \in txns[s].moved}
NoWaitCycle ==
    \A circle \in SUBSET Requests : circle # {} => \E r \in circle : WaitsFor(r) \cap circle = {}
=============================================================================
