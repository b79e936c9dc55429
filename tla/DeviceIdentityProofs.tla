----------------------- MODULE DeviceIdentityProofs -----------------------
(***************************************************************************)
(* Theorems about DeviceIdentity, for any requests, pods, machines,        *)
(* installations and devices.  LocksInv says what a transaction holds and  *)
(* still waits for: locks in one order, among them those of every device   *)
(* and installation it relies on.  ReadsOK says that what it has read is   *)
(* still so: both devices of a migration are active and whoever is on the  *)
(* source by now is moved or has claimed it in the meantime; and the       *)
(* installation of a registration is still new.                            *)
(***************************************************************************)
EXTENDS DeviceIdentity, FiniteSetTheorems, SequenceTheorems, WellFoundedInduction, TLAPS

-----------------------------------------------------------------------------
\* The order in which every transaction takes its locks.
Before(a, b) ==
    \/ a[1] = "installation" /\ b[1] \in {"tailnet", "device"}
    \/ a[1] = "tailnet" /\ b[1] = "device"
    \/ a[1] = "device" /\ b[1] = "device" /\ a[2] < b[2]
Ascending(names) == \A i, j \in 1 .. Len(names) : i < j => Before(names[i], names[j])

\* The locks a transaction relies on once it has them.
Needs(txn) ==
    CASE txn.op = "migrate" -> {<<"device", txn.caller>>, <<"device", txn.target>>}
      [] txn.op = "register" -> {<<"installation", txn.installation>>}
                                   \cup IF txn.pc = "checked" THEN {<<"device", txn.device>>} ELSE {}
      [] OTHER -> {}

Listed(names) == {names[i] : i \in 1 .. Len(names)}
OpenTxn(txn) == txn.pc \in {"begun", "checked"}
Merging(txn) == txn.op = "migrate" /\ txn.pc = "checked"
Joining(txn) == txn.op = "register" /\ txn.pc = "checked"

\* A request as its handler makes it.
Sound(txn) ==
    /\ ~OpenTxn(txn) => txn.todo = <<>>
    /\ txn.moved # {} => Merging(txn)
    /\ txn.op = "migrate" =>
          txn.caller \in Devices /\ txn.target \in Devices /\ txn.caller # txn.target /\ txn.tailnet = None
    /\ txn.op = "claim" => txn.target \in Devices
    /\ txn.op \in {"register", "refresh"} /\ txn.pc = "checked" => txn.device \in Devices
    /\ txn.op \in {"refresh", "claim", "migrate"} /\ txn.pc = "checked" => txn.todo = <<>>

LocksOK(txn, locks) ==
    /\ Sound(txn)
    /\ ~OpenTxn(txn) => locks = {}
    /\ OpenTxn(txn) => Needs(txn) \subseteq locks \cup Listed(txn.todo)
    /\ txn.op = "register" /\ txn.pc = "begun" => \A n \in locks \cup Listed(txn.todo) : n[1] # "device"
    /\ Joining(txn) => <<"installation", txn.installation>> \in locks
    /\ Ascending(txn.todo)
    /\ \A n \in locks, m \in Listed(txn.todo) : Before(n, m)
Known(txn) == txn.op \in {"refresh", "claim"} => Registered(txn.installation)

LocksInv == \A r \in Requests : LocksOK(txns[r], held[r]) /\ Known(txns[r])
Exclusion == \A r, s \in Requests : r # s => held[r] \cap held[s] = {}

\* What a transaction has read is still so: the devices of a migration are as it
\* found them and nobody comes but by a claim; a new installation is still new.
ReadsOK(txn) ==
    /\ Merging(txn) =>
        /\ Active(txn.caller) /\ Active(txn.target)
        /\ \A i \in txn.moved : installations[i].device = txn.caller
        /\ On(txn.caller) \subseteq txn.moved \cup raced
    /\ Joining(txn) => ~Registered(txn.installation)

Signalled == \A i \in Installations : Registered(i) => signals[i] # NoSignal

TablesInv == Signalled /\ MergesEnd /\ OnActiveDevice /\ \A r \in Requests : ReadsOK(txns[r])
IInv == TypeOK /\ Exclusion /\ LocksInv /\ TablesInv

-----------------------------------------------------------------------------
Ops == {"register", "refresh", "claim", "migrate"}

\* One lock, and two in their order, are scripts.
LEMMA Scripts ==
    ASSUME NEW a \in Names, NEW b \in Names
    PROVE  /\ <<a>> \in Seq(Names) /\ Listed(<<a>>) = {a} /\ Ascending(<<a>>)
           /\ <<a, b>> \in Seq(Names) /\ Listed(<<a, b>>) = {a, b}
           /\ Before(a, b) => Ascending(<<a, b>>)
<1>1. <<a>> \in Seq(Names) /\ Len(<<a>>) = 1 /\ <<a>>[1] = a
  OBVIOUS
<1>2. <<a, b>> \in Seq(Names) /\ Len(<<a, b>>) = 2 /\ <<a, b>>[1] = a /\ <<a, b>>[2] = b
  OBVIOUS
<1>3. 1 .. 1 = {1} /\ 1 .. 2 = {1, 2}
  OBVIOUS
<1>4. Listed(<<a>>) = {a} /\ Listed(<<a, b>>) = {a, b}
  BY <1>1, <1>2, <1>3 DEF Listed
<1>5. Ascending(<<a>>)
  BY <1>1 DEF Ascending
<1>6. Before(a, b) => Ascending(<<a, b>>)
  <2>1. ASSUME NEW i \in {1, 2}, NEW j \in {1, 2}, i < j PROVE i = 1 /\ j = 2
    BY <2>1
  <2> QED BY <1>2, <1>3, <2>1 DEF Ascending
<1> QED BY <1>1, <1>2, <1>4, <1>5, <1>6

\* Two scripts of one lock after one another are a script of two.
LEMMA TwoScripts ==
    ASSUME NEW a \in Names, NEW b \in Names
    PROVE  <<a>> \o <<b>> = <<a, b>> /\ <<a>> \o <<>> = <<a>> /\ <<a, b>> \o <<>> = <<a, b>>
<1> DEFINE one == <<a>>
           next == <<b>>
           both == <<a, b>>
           joined == one \o next
<1>1. /\ one \in Seq(Names) /\ Len(one) = 1 /\ one[1] = a
      /\ next \in Seq(Names) /\ Len(next) = 1 /\ next[1] = b
  OBVIOUS
<1>2. both \in Seq(Names) /\ Len(both) = 2 /\ both[1] = a /\ both[2] = b
  OBVIOUS
<1> HIDE DEF one, next, both
<1>3. /\ joined \in Seq(Names) /\ Len(joined) = 2
      /\ \A i \in 1 .. 2 : joined[i] = IF i <= 1 THEN one[i] ELSE next[i - 1]
  BY <1>1, ConcatProperties
<1> HIDE DEF joined
<1>4. \A i \in 1 .. 2 : joined[i] = both[i]
  <2>1. joined[1] = both[1]
    BY <1>1, <1>2, <1>3
  <2>2. joined[2] = both[2]
    BY <1>1, <1>2, <1>3
  <2> QED BY <2>1, <2>2
<1>5. joined = both
  BY <1>2, <1>3, <1>4, SeqEqual
<1>6. one \o <<>> = one /\ both \o <<>> = both
  BY <1>1, <1>2, ConcatEmptySeq
<1> QED BY <1>5, <1>6 DEF one, next, both, joined

\* The locks a request takes first are in order and the ones it needs.
LEMMA LocksOfOK ==
    ASSUME NEW txn \in Request(Ops), Sound(txn)
    PROVE  /\ LocksOf(txn) \in Seq(Names) /\ Ascending(LocksOf(txn))
           /\ txn.op = "migrate" => {<<"device", txn.caller>>, <<"device", txn.target>>} \subseteq Listed(LocksOf(txn))
           /\ txn.op # "migrate" =>
                 /\ <<"installation", txn.installation>> \in Listed(LocksOf(txn))
                 /\ \A n \in Listed(LocksOf(txn)) : n[1] # "device"
<1> DEFINE own == <<"installation", txn.installation>>
           net == <<"tailnet", txn.tailnet>>
           from == <<"device", txn.caller>>
           into == <<"device", txn.target>>
<1>1. CASE txn.op = "migrate"
  <2>1. txn.caller \in Devices /\ txn.target \in Devices /\ txn.caller # txn.target /\ txn.tailnet = None
    BY <1>1 DEF Sound
  <2>2. from \in Names /\ into \in Names
    BY <2>1 DEF Names
  <2>3. txn.caller \in Nat /\ txn.target \in Nat
    BY <2>1, DeviceIdentityAssumption
  <2>4. LocksOf(txn) = LockOrder(txn.caller, txn.target) \o <<>>
    BY <1>1, <2>1 DEF LocksOf, LocksOfInstallation
  <2>5. CASE txn.caller < txn.target
    <3>1. LocksOf(txn) = <<from, into>>
      <4>1. LockOrder(txn.caller, txn.target) = <<from, into>>
        BY <2>5 DEF LockOrder, LockOrderGiven
      <4> HIDE DEF from, into
      <4> QED BY <2>2, <2>4, <4>1, TwoScripts
    <3>2. Before(from, into)
      BY <2>5 DEF Before
    <3> HIDE DEF from, into
    <3>3. LET names == <<from, into>> IN names \in Seq(Names) /\ Ascending(names) /\ Listed(names) = {from, into}
      BY <2>2, <3>2, Scripts
    <3> QED BY <1>1, <3>1, <3>3 DEF from, into
  <2>6. CASE ~(txn.caller < txn.target)
    <3>1. LocksOf(txn) = <<into, from>>
      <4>1. LockOrder(txn.caller, txn.target) = <<into, from>>
        BY <2>6 DEF LockOrder, LockOrderGiven
      <4> HIDE DEF from, into
      <4> QED BY <2>2, <2>4, <4>1, TwoScripts
    <3>2. Before(into, from)
      BY <2>1, <2>3, <2>6 DEF Before
    <3> HIDE DEF from, into
    <3>3. LET names == <<into, from>> IN names \in Seq(Names) /\ Ascending(names) /\ Listed(names) = {into, from}
      BY <2>2, <3>2, Scripts
    <3> QED BY <1>1, <3>1, <3>3 DEF from, into
  <2> QED BY <2>5, <2>6
<1>2. CASE txn.op # "migrate"
  <2>1. own \in Names
    BY DEF Request, Names
  <2>2. CASE txn.tailnet = None
    <3>1. LocksOf(txn) = <<own>>
      <4>1. LocksOf(txn) = <<own>> \o <<>>
        BY <1>2, <2>2 DEF LocksOf, LocksOfInstallation
      <4> HIDE DEF own
      <4> QED BY <2>1, <4>1, TwoScripts
    <3>2. own[1] # "device"
      OBVIOUS
    <3> HIDE DEF own
    <3>3. <<own>> \in Seq(Names) /\ Listed(<<own>>) = {own} /\ Ascending(<<own>>)
      BY <2>1, Scripts
    <3>4. own = <<"installation", txn.installation>>
      BY DEF own
    <3> QED BY <3>3, <3>4, <1>2, <2>1, <3>1, <3>2, Scripts
  <2>3. CASE txn.tailnet # None
    <3>1. net \in Names
      BY <2>3 DEF Request, Names, MaybeMachine
    <3>2. LocksOf(txn) = <<own, net>>
      <4>1. LocksOf(txn) = <<own>> \o <<net>>
        BY <1>2, <2>3 DEF LocksOf, LocksOfInstallation
      <4> HIDE DEF own, net
      <4> QED BY <2>1, <3>1, <4>1, TwoScripts
    <3>3. Before(own, net) /\ own[1] # "device" /\ net[1] # "device"
      BY DEF Before
    <3> HIDE DEF own, net
    <3>4. <<own, net>> \in Seq(Names) /\ Listed(<<own, net>>) = {own, net} /\ Ascending(<<own, net>>)
      BY <2>1, <3>1, <3>3, Scripts
    <3>5. own = <<"installation", txn.installation>>
      BY DEF own
    <3> QED BY <1>2, <3>2, <3>3, <3>4, <3>5
  <2> QED BY <2>2, <2>3
<1> QED BY <1>1, <1>2

\* What beginMutation makes of a sound request is in order.
LEMMA BegunOK ==
    ASSUME NEW txn \in Request(Ops), Sound(txn), txn.moved = {}
    PROVE  /\ Begun(txn) \in Request(Ops) /\ LocksOK(Begun(txn), {})
           /\ Begun(txn).op = txn.op /\ Begun(txn).installation = txn.installation
           /\ ~Merging(Begun(txn)) /\ ~Joining(Begun(txn))
<1> DEFINE new == Begun(txn)
<1>1. /\ LocksOf(txn) \in Seq(Names) /\ Ascending(LocksOf(txn))
      /\ txn.op = "migrate" => {<<"device", txn.caller>>, <<"device", txn.target>>} \subseteq Listed(LocksOf(txn))
      /\ txn.op # "migrate" =>
            /\ <<"installation", txn.installation>> \in Listed(LocksOf(txn))
            /\ \A n \in Listed(LocksOf(txn)) : n[1] # "device"
  BY LocksOfOK
<1>2. /\ new.pc = "begun" /\ new.todo = LocksOf(txn) /\ new.op = txn.op
      /\ new.installation = txn.installation /\ new.tailnet = txn.tailnet /\ new.target = txn.target
      /\ new.moved = {} /\ (txn.op = "migrate" => new.caller = txn.caller)
  BY DEF Begun, Request
<1>3. new \in Request(Ops)
  BY <1>1 DEF Begun, Request, MaybeDevice
<1> HIDE DEF new
<1>4. Sound(new)
  BY <1>2 DEF Sound, OpenTxn
<1>5. Needs(new) \subseteq Listed(new.todo)
  BY <1>1, <1>2 DEF Needs
<1>6. new.op = "register" => \A n \in Listed(new.todo) : n[1] # "device"
  BY <1>1, <1>2
<1>7. LocksOK(new, {})
  BY <1>1, <1>2, <1>4, <1>5, <1>6 DEF LocksOK, OpenTxn, Joining
<1> QED BY <1>2, <1>3, <1>7 DEF new, Merging, Joining

\* What is in a slot, and that an empty one needs nothing.
LEMMA Slots ==
    /\ \A txn \in Txn : txn.pc \in {"verified", "begun", "checked"} => txn \in Request(Ops)
    /\ \A txn \in {NoTxn} \cup {Clearing(p) : p \in Pods} :
          /\ txn \in Txn /\ ~OpenTxn(txn) /\ ~Merging(txn) /\ ~Joining(txn) /\ txn.op = "none" /\ txn.moved = {}
          /\ LocksOK(txn, {})
<1>1. /\ NoTxn.pc = "idle" /\ NoTxn.op = "none" /\ NoTxn.todo = <<>> /\ NoTxn.moved = {}
      /\ \A p \in Pods : /\ Clearing(p).pc = "clearing" /\ Clearing(p).op = "none"
                         /\ Clearing(p).todo = <<>> /\ Clearing(p).moved = {}
  BY DEF NoTxn, Clearing
<1>2. \A txn \in Txn : txn.pc \in {"verified", "begun", "checked"} => txn \in Request(Ops)
  BY <1>1 DEF Txn, Ops
<1>3. ASSUME NEW txn \in {NoTxn} \cup {Clearing(p) : p \in Pods}
      PROVE  /\ txn \in Txn /\ ~OpenTxn(txn) /\ ~Merging(txn) /\ ~Joining(txn) /\ txn.op = "none" /\ txn.moved = {}
             /\ LocksOK(txn, {})
  <2>1. txn.pc \in {"idle", "clearing"} /\ txn.op = "none" /\ txn.todo = <<>> /\ txn.moved = {}
    BY <1>1
  <2>2. Ascending(<<>>) /\ Listed(<<>>) = {}
    <3>1. Len(<<>>) = 0 /\ 1 .. 0 = {}
      OBVIOUS
    <3> QED BY <3>1 DEF Ascending, Listed
  <2>3. txn \in Txn
    BY DEF Txn
  <2> QED BY <2>1, <2>2, <2>3 DEF OpenTxn, Merging, Joining, LocksOK, Sound
<1> QED BY <1>2, <1>3

\* A step of one request leaves the locks of the others, and whom they speak for.
LEMMA LocksStep ==
    ASSUME IInv, NEW r \in Requests, NEW txn \in Txn, NEW locks \in SUBSET Names,
           txns' = [txns EXCEPT ![r] = txn], held' = [held EXCEPT ![r] = locks],
           \A s \in Requests \ {r} : locks \cap held[s] = {},
           \A i \in Installations : Registered(i) => Registered(i)',
           LocksOK(txn, locks), Known(txn)
    PROVE  /\ txns' \in [Requests -> Txn] /\ held' \in [Requests -> SUBSET Names]
           /\ txns'[r] = txn /\ \A s \in Requests \ {r} : txns'[s] = txns[s]
           /\ Exclusion' /\ LocksInv'
<1>1. txns \in [Requests -> Txn] /\ held \in [Requests -> SUBSET Names] /\ Exclusion /\ LocksInv
  BY DEF IInv, TypeOK
<1>2. txns' \in [Requests -> Txn] /\ held' \in [Requests -> SUBSET Names]
  BY <1>1
<1>3. /\ txns'[r] = txn /\ \A s \in Requests \ {r} : txns'[s] = txns[s]
      /\ held'[r] = locks /\ \A s \in Requests \ {r} : held'[s] = held[s]
  BY <1>1
<1>4. Exclusion'
  BY <1>1, <1>3 DEF Exclusion
<1>5. ASSUME NEW s \in Requests PROVE LocksOK(txns'[s], held'[s])
  BY <1>1, <1>3 DEF LocksInv
<1>6. ASSUME NEW t \in Txn, Known(t)
      PROVE  t.op \in {"refresh", "claim"} => installations'[t.installation].device # None
  <2>1. t.op \in {"refresh", "claim"} => t.installation \in Installations
    <3>1. t \in {NoTxn} \cup {Clearing(p) : p \in Pods} => t.op = "none"
      BY Slots
    <3>2. t \in Request(Ops) => t.installation \in Installations
      BY DEF Request
    <3> QED BY <3>1, <3>2 DEF Txn, Ops
  <2> QED BY <1>6, <2>1 DEF Known, Registered
<1>7. ASSUME NEW s \in Requests
      PROVE  txns'[s].op \in {"refresh", "claim"} => installations'[txns'[s].installation].device # None
  <2>1. CASE s = r
    BY <1>3, <1>6, <2>1
  <2>2. CASE s # r
    <3>1. txns[s] \in Txn /\ Known(txns[s])
      BY <1>1 DEF LocksInv
    <3> QED BY <1>3, <1>6, <2>2, <3>1
  <2> QED BY <2>1, <2>2
<1>8. LocksInv'
  BY <1>5, <1>7 DEF LocksInv, Known, Registered
<1> QED BY <1>2, <1>3, <1>4, <1>8

\* A step that writes no table.
LEMMA QuietStep ==
    ASSUME IInv, NEW r \in Requests, NEW txn \in Txn, NEW locks \in SUBSET Names,
           txns' = [txns EXCEPT ![r] = txn], held' = [held EXCEPT ![r] = locks],
           \A s \in Requests \ {r} : locks \cap held[s] = {},
           UNCHANGED tables, cache' \in [Pods -> [Installations -> MaybeDevice]],
           LocksOK(txn, locks), Known(txn), ReadsOK(txn)
    PROVE  IInv'
<1>1. TypeOK /\ TablesInv
  BY DEF IInv
<1>2. UNCHANGED <<devices, installations, signals, raced>>
  BY DEF tables
<1>3. /\ txns' \in [Requests -> Txn] /\ held' \in [Requests -> SUBSET Names]
      /\ txns'[r] = txn /\ \A s \in Requests \ {r} : txns'[s] = txns[s]
      /\ Exclusion' /\ LocksInv'
  <2>1. \A i \in Installations : Registered(i) => Registered(i)'
    BY <1>2 DEF Registered
  <2> QED BY <2>1, LocksStep
<1>4. TypeOK'
  BY <1>1, <1>2, <1>3 DEF TypeOK
<1>5. Signalled' /\ MergesEnd' /\ OnActiveDevice'
  BY <1>1, <1>2 DEF TablesInv, Signalled, MergesEnd, OnActiveDevice, Registered, Active
<1>6. ASSUME NEW s \in Requests PROVE ReadsOK(txns[s])'
  <2>1. ReadsOK(txns'[s])
    BY <1>1, <1>3 DEF TablesInv
  <2> QED BY <1>2, <2>1 DEF ReadsOK, Active, On, Registered
<1> QED BY <1>3, <1>4, <1>5, <1>6 DEF IInv, TablesInv

\* The end of a transaction: a slot that needs nothing, and no locks.
LEMMA EndStep ==
    ASSUME IInv, NEW r \in Requests, NEW txn \in {NoTxn} \cup {Clearing(p) : p \in Pods},
           End(r, txn), \A i \in Installations : Registered(i) => Registered(i)'
    PROVE  /\ txns' \in [Requests -> Txn] /\ held' \in [Requests -> SUBSET Names]
           /\ Exclusion' /\ LocksInv'
           /\ \A s \in Requests : Merging(txns'[s]) \/ Joining(txns'[s]) => s # r /\ txns'[s] = txns[s]
<1>1. txns' = [txns EXCEPT ![r] = txn] /\ held' = [held EXCEPT ![r] = {}]
  BY DEF End, Set
<1>2. txn \in Txn /\ ~Merging(txn) /\ ~Joining(txn) /\ LocksOK(txn, {}) /\ Known(txn)
  BY Slots DEF Known
<1>3. /\ txns' \in [Requests -> Txn] /\ held' \in [Requests -> SUBSET Names]
      /\ txns'[r] = txn /\ \A s \in Requests \ {r} : txns'[s] = txns[s]
      /\ Exclusion' /\ LocksInv'
  <2>1. {} \in SUBSET Names /\ \A s \in Requests \ {r} : {} \cap held[s] = {}
    OBVIOUS
  <2> QED BY <1>1, <1>2, <2>1, LocksStep
<1> QED BY <1>2, <1>3

-----------------------------------------------------------------------------
\* A new request takes a slot in which nothing is left.
LEMMA IdleSlot ==
    ASSUME IInv, NEW r \in Requests, ~OpenTxn(txns[r])
    PROVE  held[r] = {} /\ held = [held EXCEPT ![r] = {}]
BY DEF IInv, LocksInv, LocksOK, TypeOK

\* A request that is begun waits for its locks.
LEMMA BegunStep ==
    ASSUME IInv, NEW r \in Requests, ~OpenTxn(txns[r]),
           NEW txn \in Request(Ops), Sound(txn), Known(txn), txn.moved = {},
           Set(r, Begun(txn)), UNCHANGED <<tables, held>>,
           cache' \in [Pods -> [Installations -> MaybeDevice]]
    PROVE  IInv'
<1> DEFINE new == Begun(txn)
<1>1. /\ new \in Request(Ops) /\ LocksOK(new, {}) /\ ~Merging(new) /\ ~Joining(new)
      /\ new.op = txn.op /\ new.installation = txn.installation
  BY BegunOK
<1>2. txns' = [txns EXCEPT ![r] = new] /\ UNCHANGED tables /\ held' = held
  BY DEF Set
<1>3. held' = [held EXCEPT ![r] = {}]
  BY <1>2, IdleSlot
<1> HIDE DEF new
<1>4. new \in Txn /\ Known(new) /\ ReadsOK(new)
  BY <1>1 DEF Txn, Ops, Known, ReadsOK
<1>5. {} \in SUBSET Names /\ \A s \in Requests \ {r} : {} \cap held[s] = {}
  OBVIOUS
<1> QED BY <1>1, <1>2, <1>3, <1>4, <1>5, QuietStep

LEMMA RegisterStep ==
    ASSUME IInv, NEW r \in Requests, NEW p \in Pods, NEW i \in Installations, NEW m \in Machines,
           NEW requested \in Named \cup {None}, NEW tailnet \in {m, None},
           Register(r, p, i, m, tailnet, requested)
    PROVE  IInv'
<1> DEFINE txn == [NoTxn EXCEPT !.op = "register", !.pod = p, !.installation = i,
                                !.machine = m, !.tailnet = tailnet, !.target = requested,
                                !.pc = "verified"]
           txn0 == [NoTxn EXCEPT !.op = "register", !.pod = p, !.installation = i,
                                !.machine = m, !.tailnet = tailnet, !.target = requested]
<1>1. /\ txn \in Request(Ops) /\ txn.op = "register" /\ txn.pc = "verified" /\ txn.todo = <<>> /\ txn.moved = {}
      /\ Begun(txn0) = Begun(txn)
  <2>1. requested \in MaybeDevice /\ tailnet \in MaybeMachine /\ <<>> \in Seq(Names)
    BY DeviceIdentityAssumption, EmptySeq DEF MaybeDevice, MaybeMachine
  <2>2. None \in MaybeDevice
    BY DEF MaybeDevice
  <2>3. txn \in Request(Ops) /\ txn.op = "register" /\ txn.pc = "verified" /\ txn.todo = <<>> /\ txn.moved = {}
    BY <2>1, <2>2 DEF NoTxn, Request, Ops
  <2>4. LocksOf(txn0) = LocksOf(txn)
    BY DEF LocksOf, LocksOfInstallation, NoTxn
  <2>5. Begun(txn0) = Begun(txn)
    <3> DEFINE todo == LocksOf(txn)
               new == [NoTxn EXCEPT !.op = "register", !.pod = p, !.installation = i, !.machine = m,
                                    !.tailnet = tailnet, !.target = requested, !.pc = "begun",
                                    !.todo = todo, !.caller = None]
    <3>1. LocksOf(txn0) = todo
      BY <2>4
    <3>2. txn.op = "register" /\ txn0.op = "register"
      BY DEF NoTxn
    <3> HIDE DEF todo
    <3>3. Begun(txn) = new
      BY <3>2 DEF Begun, NoTxn, todo
    <3>4. Begun(txn0) = new
      BY <3>1, <3>2 DEF Begun, NoTxn
    <3> QED BY <3>3, <3>4
  <2> QED BY <2>3, <2>5
<1>2. Set(r, Begun(txn)) /\ UNCHANGED <<tables, cache, held>> /\ ~OpenTxn(txns[r])
  BY <1>1 DEF Register, OpenTxn
<1> HIDE DEF txn, txn0
<1>3. Sound(txn) /\ Known(txn)
  BY <1>1 DEF Sound, OpenTxn, Merging, Known
<1>4. cache' \in [Pods -> [Installations -> MaybeDevice]]
  BY <1>2 DEF IInv, TypeOK
<1> QED BY <1>1, <1>2, <1>3, <1>4, BegunStep

LEMMA AskStep ==
    ASSUME IInv, NEW r \in Requests, NEW p \in Pods, NEW op \in {"refresh", "claim", "migrate"},
           NEW i \in Installations, NEW tailnet, NEW target, Ask(r, p, op, i, tailnet, target),
           op = "refresh" => tailnet \in {signals[i].hardware, None} /\ target = None,
           op # "refresh" => tailnet = None /\ target \in Devices
    PROVE  IInv'
<1>1. TypeOK /\ Registered(i) /\ signals[i] \in Signal /\ signals[i] # NoSignal
  BY DEF Ask, IInv, TypeOK, TablesInv, Signalled
<1>2. signals[i].hardware \in Machines /\ tailnet \in MaybeMachine /\ target \in MaybeDevice
  BY <1>1 DEF Signal, MaybeMachine, MaybeDevice
<1>3. WhoAmI(i) \in MaybeDevice /\ cache[p][i] \in MaybeDevice
  BY <1>1 DEF WhoAmI, TypeOK, Active, MaybeDevice
<1>4. ~OpenTxn(txns[r])
  BY DEF Ask, OpenTxn
<1>5. PICK cached \in BOOLEAN :
          LET known == IF cached THEN cache[p][i] ELSE WhoAmI(i)
              txn == [NoTxn EXCEPT !.op = op, !.pod = p, !.installation = i, !.caller = known,
                                   !.machine = signals[i].hardware, !.tailnet = tailnet,
                                   !.target = target]
          IN  /\ known # None
              /\ op = "migrate" => target # known
              /\ Set(r, IF cached THEN Begun(txn) ELSE [txn EXCEPT !.pc = "verified"])
  BY DEF Ask
<1> DEFINE known == IF cached THEN cache[p][i] ELSE WhoAmI(i)
           hardware == signals[i].hardware
           txn0 == [NoTxn EXCEPT !.op = op, !.pod = p, !.installation = i, !.caller = known,
                                 !.machine = hardware, !.tailnet = tailnet, !.target = target]
           txn == [txn0 EXCEPT !.pc = "verified"]
<1>6. known \in Devices /\ (op = "migrate" => target # known) /\ hardware \in Machines
  BY <1>2, <1>3, <1>5 DEF MaybeDevice
<1>7. cached => Set(r, Begun(txn0))
  BY <1>5
<1>8. ~cached => Set(r, txn)
  BY <1>5
<1>9. UNCHANGED <<tables, cache, held>>
  BY DEF Ask
<1> HIDE DEF known, hardware
<1>10. /\ txn \in Request(Ops) /\ txn.op = op /\ txn.pc = "verified" /\ txn.todo = <<>> /\ txn.moved = {}
       /\ txn.installation = i /\ txn.caller = known /\ txn.target = target /\ txn.tailnet = tailnet
  <2>1. <<>> \in Seq(Names) /\ None \in MaybeDevice /\ known \in MaybeDevice
    BY <1>6, EmptySeq DEF MaybeDevice
  <2> QED BY <1>2, <1>6, <2>1 DEF NoTxn, Request, Ops
<1>11. Begun(txn0) = Begun(txn)
  <2> DEFINE todo == LocksOf(txn)
             caller == IF op = "migrate" THEN known ELSE None
             new == [NoTxn EXCEPT !.op = op, !.pod = p, !.installation = i, !.machine = hardware,
                                  !.tailnet = tailnet, !.target = target, !.pc = "begun",
                                  !.todo = todo, !.caller = caller]
  <2>1. LocksOf(txn0) = todo
    BY DEF LocksOf, LocksOfInstallation, NoTxn
  <2>2. /\ (IF txn.op = "migrate" THEN txn.caller ELSE None) = caller
        /\ (IF txn0.op = "migrate" THEN txn0.caller ELSE None) = caller
    BY DEF NoTxn
  <2> HIDE DEF todo, caller
  <2>3. Begun(txn) = [txn EXCEPT !.pc = "begun", !.todo = todo, !.caller = caller]
    BY <2>2 DEF Begun, todo
  <2>4. Begun(txn0) = [txn0 EXCEPT !.pc = "begun", !.todo = todo, !.caller = caller]
    BY <2>1, <2>2 DEF Begun
  <2>5. Begun(txn) = new
    BY <2>3 DEF NoTxn
  <2>6. Begun(txn0) = new
    BY <2>4 DEF NoTxn
  <2> QED BY <2>5, <2>6
<1> HIDE DEF txn, txn0
<1>12. Sound(txn) /\ Known(txn)
  BY <1>1, <1>6, <1>10 DEF Sound, OpenTxn, Merging, Known
<1>13. cache' \in [Pods -> [Installations -> MaybeDevice]]
  BY <1>1, <1>9 DEF TypeOK
<1>14. CASE cached
  BY <1>4, <1>7, <1>9, <1>10, <1>11, <1>12, <1>13, <1>14, BegunStep
<1>15. CASE ~cached
  <2>1. txn \in Txn /\ ReadsOK(txn)
    BY <1>10 DEF Txn, Ops, ReadsOK, Merging, Joining
  <2>2. LocksOK(txn, {})
    <3>1. Ascending(<<>>) /\ Listed(<<>>) = {}
      <4>1. Len(<<>>) = 0 /\ 1 .. 0 = {}
        OBVIOUS
      <4> QED BY <4>1 DEF Ascending, Listed
    <3> QED BY <1>10, <1>12, <3>1 DEF LocksOK, OpenTxn, Joining
  <2>3. txns' = [txns EXCEPT ![r] = txn] /\ held' = [held EXCEPT ![r] = {}] /\ UNCHANGED tables
    BY <1>4, <1>8, <1>9, <1>15, IdleSlot DEF Set
  <2>4. {} \in SUBSET Names /\ \A s \in Requests \ {r} : {} \cap held[s] = {}
    OBVIOUS
  <2> QED BY <1>12, <1>13, <2>1, <2>2, <2>3, <2>4, QuietStep
<1> QED BY <1>14, <1>15

\* What every step may use of the request it is about.
LEMMA SlotOK ==
    ASSUME IInv, NEW r \in Requests
    PROVE  /\ txns[r] \in Txn /\ held[r] \in SUBSET Names
           /\ LocksOK(txns[r], held[r]) /\ Sound(txns[r]) /\ Known(txns[r]) /\ ReadsOK(txns[r])
           /\ \A s \in Requests \ {r} : held[r] \cap held[s] = {}
           /\ txns[r].pc \in {"verified", "begun", "checked"} => txns[r] \in Request(Ops)
BY Slots DEF IInv, TypeOK, LocksInv, LocksOK, Exclusion, TablesInv

LEMMA CacheStep ==
    ASSUME IInv, NEW r \in Requests, Cache(r)
    PROVE  IInv'
<1> DEFINE txn == txns[r]
<1>1. /\ txn \in Request(Ops) /\ Sound(txn) /\ Known(txn) /\ ~OpenTxn(txn) /\ txn.moved = {}
  BY SlotOK DEF Cache, OpenTxn, Sound, Merging
<1>2. cache' = [cache EXCEPT ![txn.pod][txn.installation] = txn.caller]
  BY DEF Cache
<1>3. cache' \in [Pods -> [Installations -> MaybeDevice]]
  <2>1. txn.pod \in Pods /\ txn.installation \in Installations /\ txn.caller \in MaybeDevice
    BY <1>1 DEF Request
  <2> QED BY <1>2, <2>1 DEF IInv, TypeOK
<1>4. Set(r, Begun(txn)) /\ UNCHANGED <<tables, held>>
  BY DEF Cache
<1> HIDE DEF txn
<1>5. ~OpenTxn(txns[r])
  BY <1>1 DEF txn
<1> QED BY <1>1, <1>3, <1>4, <1>5, BegunStep

\* A slot that is emptied: no table changes.
LEMMA EmptyStep ==
    ASSUME IInv, NEW r \in Requests, txns' = [txns EXCEPT ![r] = NoTxn],
           held' = [held EXCEPT ![r] = {}], UNCHANGED tables,
           cache' \in [Pods -> [Installations -> MaybeDevice]]
    PROVE  IInv'
<1>1. NoTxn \in Txn /\ LocksOK(NoTxn, {}) /\ Known(NoTxn) /\ ReadsOK(NoTxn)
  BY Slots DEF Known, ReadsOK
<1>2. {} \in SUBSET Names /\ \A s \in Requests \ {r} : {} \cap held[s] = {}
  OBVIOUS
<1> QED BY <1>1, <1>2, QuietStep

LEMMA ClearStep ==
    ASSUME IInv, NEW r \in Requests, Clear(r)
    PROVE  IInv'
<1>1. /\ txns' = [txns EXCEPT ![r] = NoTxn] /\ UNCHANGED tables
      /\ held' = held /\ ~OpenTxn(txns[r])
      /\ cache' = [cache EXCEPT ![txns[r].pod] = [i \in Installations |-> None]]
  BY DEF Clear, Set, OpenTxn
<1>2. held' = [held EXCEPT ![r] = {}]
  BY <1>1, IdleSlot
<1>3. [i \in Installations |-> None] \in [Installations -> MaybeDevice]
  BY DEF MaybeDevice
<1>4. cache' \in [Pods -> [Installations -> MaybeDevice]]
  BY <1>1, <1>3 DEF IInv, TypeOK
<1> QED BY <1>1, <1>2, <1>4, EmptyStep

LEMMA AbortStep ==
    ASSUME IInv, NEW r \in Requests, Abort(r)
    PROVE  IInv'
BY EmptyStep DEF Abort, End, Set, IInv, TypeOK

LEMMA AcquireStep ==
    ASSUME IInv, NEW r \in Requests, Acquire(r)
    PROVE  IInv'
<1> DEFINE txn == txns[r]
           name == Head(txn.todo)
           rest == Tail(txn.todo)
           new == [txn EXCEPT !.todo = rest]
           locks == held[r] \cup {name}
<1>1. /\ txn.todo # <<>> /\ ~Held(name) /\ held' = [held EXCEPT ![r] = @ \cup {name}]
      /\ txns' = [txns EXCEPT ![r] = [txn EXCEPT !.todo = Tail(@)]] /\ UNCHANGED <<tables, cache>>
  BY DEF Acquire, Set
<1>2. txns' = [txns EXCEPT ![r] = new] /\ held' = [held EXCEPT ![r] = locks]
  BY <1>1 DEF IInv, TypeOK
<1>3. OpenTxn(txn) /\ txn \in Request(Ops)
  BY <1>1, SlotOK DEF Sound, OpenTxn
<1>4. txn.todo \in Seq(Names) /\ Len(txn.todo) \in Nat \ {0}
  BY <1>1, <1>3, EmptySeq DEF Request
<1>5. /\ name = txn.todo[1] /\ rest \in Seq(Names) /\ Len(rest) = Len(txn.todo) - 1
      /\ \A i \in 1 .. Len(rest) : rest[i] = txn.todo[i + 1]
  BY <1>1, <1>4, HeadTailProperties
<1>6. Listed(txn.todo) = {name} \cup Listed(rest) /\ name \in Names
  <2>1. name \in Names
    BY <1>4, <1>5
  <2>2. Listed(rest) \subseteq Listed(txn.todo)
    <3>1. ASSUME NEW i \in 1 .. Len(rest) PROVE i + 1 \in 1 .. Len(txn.todo)
      BY <1>4, <1>5
    <3> QED BY <1>5, <3>1 DEF Listed
  <2>3. name \in Listed(txn.todo)
    BY <1>4, <1>5 DEF Listed
  <2>4. ASSUME NEW i \in 1 .. Len(txn.todo), i # 1 PROVE txn.todo[i] \in Listed(rest)
    <3>1. i - 1 \in 1 .. Len(rest) /\ (i - 1) + 1 = i
      BY <1>4, <1>5, <2>4
    <3>2. rest[i - 1] = txn.todo[i]
      BY <1>5, <3>1
    <3> QED BY <3>1, <3>2 DEF Listed
  <2>5. ASSUME NEW n \in Listed(txn.todo) PROVE n = name \/ n \in Listed(rest)
    BY <1>5, <2>4 DEF Listed
  <2> QED BY <2>1, <2>2, <2>3, <2>5
<1>7. Ascending(rest) /\ \A m \in Listed(rest) : Before(name, m)
  <2>1. Ascending(txn.todo)
    BY SlotOK DEF LocksOK
  <2>2. ASSUME NEW i \in 1 .. Len(rest), NEW j \in 1 .. Len(rest), i < j PROVE Before(rest[i], rest[j])
    <3>1. i + 1 \in 1 .. Len(txn.todo) /\ j + 1 \in 1 .. Len(txn.todo) /\ i + 1 < j + 1
      BY <1>4, <1>5, <2>2
    <3>2. Before(txn.todo[i + 1], txn.todo[j + 1])
      BY <2>1, <3>1 DEF Ascending
    <3> QED BY <1>5, <3>2
  <2>3. ASSUME NEW j \in 1 .. Len(rest) PROVE Before(name, rest[j])
    <3>1. 1 \in 1 .. Len(txn.todo) /\ j + 1 \in 1 .. Len(txn.todo) /\ 1 < j + 1
      BY <1>4, <1>5
    <3>2. Before(txn.todo[1], txn.todo[j + 1])
      BY <2>1, <3>1 DEF Ascending
    <3> QED BY <1>5, <3>2
  <2>4. Ascending(rest)
    BY <2>2 DEF Ascending
  <2> QED BY <2>3, <2>4 DEF Listed
<1>8. /\ new \in Request(Ops) /\ new.todo = rest /\ new.pc = txn.pc /\ new.op = txn.op
      /\ new.caller = txn.caller /\ new.target = txn.target /\ new.tailnet = txn.tailnet
      /\ new.device = txn.device /\ new.moved = txn.moved /\ new.installation = txn.installation
  BY <1>3, <1>5 DEF Request
<1>9. txn \in Txn /\ LocksOK(txn, held[r]) /\ Known(txn) /\ ReadsOK(txn)
  BY SlotOK
<1> HIDE DEF txn, name, rest, new
<1>10. Needs(new) = Needs(txn)
  BY <1>8 DEF Needs
<1>11. Sound(new)
  BY <1>1, <1>3, <1>8, <1>9 DEF LocksOK, Sound, OpenTxn, Merging
<1>12. \A n \in locks, m \in Listed(rest) : Before(n, m)
  BY <1>6, <1>7, <1>9 DEF LocksOK
<1>13. LocksOK(new, locks)
  <2>1. OpenTxn(new) /\ Needs(new) \subseteq locks \cup Listed(new.todo)
    BY <1>3, <1>6, <1>8, <1>9, <1>10 DEF LocksOK, OpenTxn
  <2>2. locks \cup Listed(new.todo) = held[r] \cup Listed(txn.todo)
    BY <1>6, <1>8
  <2>3. new.op = "register" /\ new.pc = "begun" => \A n \in locks \cup Listed(new.todo) : n[1] # "device"
    BY <1>8, <1>9, <2>2 DEF LocksOK
  <2>4. Joining(new) => <<"installation", new.installation>> \in locks
    BY <1>8, <1>9 DEF LocksOK, Joining
  <2> HIDE DEF locks
  <2> QED BY <1>7, <1>8, <1>11, <1>12, <2>1, <2>3, <2>4 DEF LocksOK
<1>14. new \in Txn /\ Known(new) /\ ReadsOK(new)
  BY <1>8, <1>9 DEF Txn, Ops, Known, ReadsOK, Merging, Joining
<1>15. locks \in SUBSET Names /\ \A s \in Requests \ {r} : locks \cap held[s] = {}
  BY <1>1, <1>6, SlotOK DEF Held
<1>16. UNCHANGED tables /\ cache' \in [Pods -> [Installations -> MaybeDevice]]
  BY <1>1 DEF IInv, TypeOK
<1> HIDE DEF locks
<1> QED BY <1>2, <1>13, <1>14, <1>15, <1>16, QuietStep

\* A check of a request that has its locks writes no table and waits for one lock at most.
LEMMA CheckStep ==
    ASSUME IInv, NEW r \in Requests, txns[r].pc = "begun", NEW new \in Request(Ops),
           Set(r, new), UNCHANGED <<tables, cache, held>>,
           LocksOK(new, held[r]), Known(new), ReadsOK(new)
    PROVE  IInv'
<1>1. held' = [held EXCEPT ![r] = held[r]] /\ txns' = [txns EXCEPT ![r] = new] /\ UNCHANGED tables
  BY DEF IInv, TypeOK, Set
<1>2. new \in Txn /\ cache' \in [Pods -> [Installations -> MaybeDevice]]
  BY DEF IInv, TypeOK, Txn, Ops
<1>3. held[r] \in SUBSET Names /\ \A s \in Requests \ {r} : held[r] \cap held[s] = {}
  BY SlotOK
<1> QED BY <1>1, <1>2, <1>3, QuietStep

\* A request with all its locks has listed nothing.
LEMMA NothingListed == Ascending(<<>>) /\ Listed(<<>>) = {}
<1>1. Len(<<>>) = 0 /\ 1 .. 0 = {}
  OBVIOUS
<1> QED BY <1>1 DEF Ascending, Listed

\* What a registration may select are devices.
LEMMA SelectableOK ==
    ASSUME NEW m, NEW requested \in MaybeDevice
    PROVE  Selectable(m, requested) \subseteq Devices
BY DEF Selectable, Matches, Fresh, MaybeDevice

LEMMA MatchStep ==
    ASSUME IInv, NEW r \in Requests, Match(r)
    PROVE  IInv'
<1> DEFINE txn == txns[r]
<1>1. /\ txn.op = "register" /\ txn.pc = "begun" /\ txn.todo = <<>> /\ UNCHANGED <<tables, cache, held>>
      /\ ~Registered(txn.installation)
  BY DEF Match, At
<1>2. txn \in Request(Ops) /\ LocksOK(txn, held[r]) /\ held[r] \in SUBSET Names
  BY <1>1, SlotOK
<1>3. PICK d \in Selectable(txn.machine, txn.target) :
        Set(r, [[txn EXCEPT !.pc = "checked"] EXCEPT !.device = d, !.todo = <<<<"device", d>>>>])
  BY DEF Match, Checked
<1> DEFINE name == <<"device", d>>
           todo == <<name>>
           new == [txn EXCEPT !.pc = "checked", !.device = d, !.todo = todo]
<1>4. d \in Devices /\ name \in Names
  <2>1. txn.target \in MaybeDevice
    BY <1>2 DEF Request
  <2>2. d \in Devices
    BY <1>3, <2>1, SelectableOK
  <2> QED BY <2>2 DEF Names
<1>5. Set(r, new)
  BY <1>2, <1>3 DEF Request
<1>6. ASSUME NEW n \in held[r] PROVE Before(n, name)
  <2>1. n \in Names /\ n[1] # "device"
    BY <1>1, <1>2 DEF LocksOK
  <2>2. n[1] \in {"installation", "tailnet"}
    BY <2>1 DEF Names
  <2> QED BY <2>2 DEF Before
<1>7. todo \in Seq(Names) /\ Listed(todo) = {name} /\ Ascending(todo)
  <2> HIDE DEF name
  <2> QED BY <1>4, Scripts
<1> HIDE DEF todo
<1>8. /\ new \in Request(Ops) /\ new.pc = "checked" /\ new.op = "register" /\ new.device = d
      /\ new.todo = todo /\ new.moved = txn.moved /\ new.installation = txn.installation
  BY <1>1, <1>2, <1>4, <1>7 DEF Request, MaybeDevice
<1>9. txn.moved = {}
  BY <1>1, <1>2 DEF LocksOK, Sound, Merging
<1> HIDE DEF new
<1>10. Sound(new)
  BY <1>4, <1>8, <1>9 DEF Sound, OpenTxn
<1>11. Needs(new) = Needs(txn) \cup {name} /\ Needs(txn) \subseteq held[r]
  BY <1>1, <1>2, <1>8, NothingListed DEF Needs, LocksOK, OpenTxn
<1> HIDE DEF name
<1>12. LocksOK(new, held[r])
  <2>1. <<"installation", new.installation>> \in held[r]
    BY <1>1, <1>8, <1>11 DEF Needs
  <2> QED BY <1>6, <1>7, <1>8, <1>10, <1>11, <2>1 DEF LocksOK, OpenTxn
<1>13. Known(new) /\ ReadsOK(new)
  BY <1>1, <1>8 DEF Known, ReadsOK, Merging, Joining
<1> QED BY <1>1, <1>5, <1>8, <1>12, <1>13, CheckStep

LEMMA ReadExistingStep ==
    ASSUME IInv, NEW r \in Requests, ReadExisting(r)
    PROVE  IInv'
<1> DEFINE txn == txns[r]
           d == installations[txn.installation].device
           new == [txn EXCEPT !.pc = "checked", !.device = d]
<1>1. /\ txn.op = "refresh" /\ txn.pc = "begun" /\ txn.todo = <<>> /\ UNCHANGED <<tables, cache, held>>
      /\ Set(r, [[txn EXCEPT !.pc = "checked"] EXCEPT !.device = d])
  BY DEF ReadExisting, At, Checked
<1>2. txn \in Request(Ops) /\ LocksOK(txn, held[r]) /\ Known(txn)
  BY <1>1, SlotOK
<1>3. d \in Devices
  <2>1. txn.installation \in Installations /\ installations \in [Installations -> Installation]
    BY <1>2 DEF Request, IInv, TypeOK
  <2>2. d # None
    BY <1>1, <1>2 DEF Known, Registered
  <2> QED BY <2>1, <2>2 DEF Installation, NoInstallation
<1> HIDE DEF d
<1>4. Set(r, new)
  BY <1>1, <1>2 DEF Request
<1>5. /\ new \in Request(Ops) /\ new.pc = "checked" /\ new.op = "refresh" /\ new.device = d
      /\ new.todo = <<>> /\ new.moved = txn.moved /\ new.installation = txn.installation
  BY <1>1, <1>2, <1>3 DEF Request, MaybeDevice
<1>6. txn.moved = {}
  BY <1>1, <1>2 DEF LocksOK, Sound, Merging
<1> HIDE DEF new
<1>7. Sound(new) /\ Needs(new) = {}
  BY <1>3, <1>5, <1>6 DEF Sound, OpenTxn, Needs
<1>8. LocksOK(new, held[r])
  BY <1>5, <1>7, NothingListed DEF LocksOK, OpenTxn, Joining
<1>9. Known(new) /\ ReadsOK(new)
  BY <1>1, <1>2, <1>5 DEF Known, ReadsOK, Merging, Joining
<1> QED BY <1>1, <1>4, <1>5, <1>8, <1>9, CheckStep

LEMMA CheckTargetStep ==
    ASSUME IInv, NEW r \in Requests, CheckTarget(r)
    PROVE  IInv'
<1> DEFINE txn == txns[r]
           new == [txn EXCEPT !.pc = "checked"]
<1>1. /\ txn.op = "claim" /\ txn.pc = "begun" /\ txn.todo = <<>> /\ UNCHANGED <<tables, cache, held>>
      /\ Set(r, new)
  BY DEF CheckTarget, At, Checked
<1>2. txn \in Request(Ops) /\ LocksOK(txn, held[r]) /\ Known(txn)
  BY <1>1, SlotOK
<1>3. /\ new \in Request(Ops) /\ new.pc = "checked" /\ new.op = "claim" /\ new.target = txn.target
      /\ new.todo = <<>> /\ new.moved = txn.moved /\ new.installation = txn.installation
  BY <1>1, <1>2 DEF Request
<1>4. txn.moved = {} /\ txn.target \in Devices
  BY <1>1, <1>2 DEF LocksOK, Sound, Merging
<1> HIDE DEF new
<1>5. Sound(new) /\ Needs(new) = {}
  BY <1>3, <1>4 DEF Sound, OpenTxn, Needs
<1>6. LocksOK(new, held[r])
  BY <1>3, <1>5, NothingListed DEF LocksOK, OpenTxn, Joining
<1>7. Known(new) /\ ReadsOK(new)
  BY <1>1, <1>2, <1>3 DEF Known, ReadsOK, Merging, Joining
<1> QED BY <1>1, <1>3, <1>6, <1>7, CheckStep

LEMMA MergeStep ==
    ASSUME IInv, NEW r \in Requests, Merge(r)
    PROVE  IInv'
<1> DEFINE txn == txns[r]
           moved == On(txn.caller)
           new == [txn EXCEPT !.pc = "checked", !.moved = moved]
<1>1. /\ txn.op = "migrate" /\ txn.pc = "begun" /\ txn.todo = <<>> /\ UNCHANGED <<tables, cache, held>>
      /\ Set(r, [[txn EXCEPT !.pc = "checked"] EXCEPT !.moved = moved])
      /\ Active(txn.caller) /\ Active(txn.target)
  BY DEF Merge, At, Checked, CanMerge
<1>2. txn \in Request(Ops) /\ LocksOK(txn, held[r])
  BY <1>1, SlotOK
<1>3. moved \subseteq Installations /\ \A i \in moved : installations[i].device = txn.caller
  BY DEF On
<1>4. ReadsOK([caller |-> txn.caller, target |-> txn.target, moved |-> moved, op |-> "migrate", pc |-> "checked"])
  BY <1>1, <1>3 DEF ReadsOK, Joining
<1> HIDE DEF moved
<1>5. Set(r, new)
  BY <1>1, <1>2 DEF Request
<1>6. /\ new \in Request(Ops) /\ new.pc = "checked" /\ new.op = "migrate" /\ new.todo = <<>>
      /\ new.caller = txn.caller /\ new.target = txn.target /\ new.tailnet = txn.tailnet /\ new.moved = moved
  BY <1>1, <1>2, <1>3 DEF Request
<1> HIDE DEF new
<1>7. Sound(new) /\ Needs(new) = Needs(txn)
  BY <1>1, <1>2, <1>6 DEF LocksOK, Sound, OpenTxn, Merging, Needs
<1>8. LocksOK(new, held[r])
  BY <1>1, <1>2, <1>6, <1>7, NothingListed DEF LocksOK, OpenTxn, Joining
<1>9. Known(new) /\ ReadsOK(new)
  BY <1>4, <1>6 DEF Known, ReadsOK, Merging, Joining
<1> QED BY <1>1, <1>5, <1>6, <1>8, <1>9, CheckStep

-----------------------------------------------------------------------------
\* A device that is locked by a registration is no device of a migration in progress.
LEMMA Excluded ==
    ASSUME IInv, NEW r \in Requests, NEW s \in Requests, r # s, Merging(txns[s]),
           NEW d \in Devices, <<"device", d>> \in held[r]
    PROVE  d # txns[s].caller /\ d # txns[s].target
<1>1. LocksOK(txns[s], held[s]) /\ held[r] \cap held[s] = {}
  BY SlotOK
<1>2. Needs(txns[s]) \subseteq held[s]
  BY <1>1, NothingListed DEF LocksOK, Sound, Merging, OpenTxn
<1>3. <<"device", txns[s].caller>> \in held[s] /\ <<"device", txns[s].target>> \in held[s]
  BY <1>2 DEF Needs, Merging
<1> QED BY <1>1, <1>3

\* A transaction that has its locks holds those that it needs.
LEMMA NeedsHeld ==
    ASSUME IInv, NEW r \in Requests, txns[r].pc \in {"begun", "checked"}, txns[r].todo = <<>>
    PROVE  Needs(txns[r]) \subseteq held[r]
<1>1. LocksOK(txns[r], held[r])
  BY SlotOK
<1> QED BY <1>1, NothingListed DEF LocksOK, OpenTxn

\* Nor is its installation one that another registers.
LEMMA ExcludedNames ==
    ASSUME IInv, NEW r \in Requests, NEW s \in Requests, r # s, Joining(txns[s]),
           NEW i, <<"installation", i>> \in held[r]
    PROVE  i # txns[s].installation
<1>1. LocksOK(txns[s], held[s]) /\ held[r] \cap held[s] = {}
  BY SlotOK
<1> QED BY <1>1 DEF LocksOK

\* The same of the tables as a step leaves them.
ReadsIn(txn, devs, inst, excused) ==
    /\ Merging(txn) =>
        /\ txn.caller \in Devices /\ devs[txn.caller].status = "active"
        /\ txn.target \in Devices /\ devs[txn.target].status = "active"
        /\ \A i \in txn.moved : inst[i].device = txn.caller
        /\ \A i \in Installations : inst[i].device = txn.caller => i \in txn.moved \cup excused
    /\ Joining(txn) => inst[txn.installation].device = None
OnActive(devs, inst, excused) ==
    \A i \in Installations \ excused :
        inst[i].device # None => inst[i].device \in Devices /\ devs[inst[i].device].status = "active"

LEMMA Tables ==
    /\ OnActiveDevice <=> OnActive(devices, installations, raced)
    /\ OnActiveDevice' <=> OnActive(devices', installations', raced')
    /\ \A s \in Requests : ReadsOK(txns[s]) <=> ReadsIn(txns[s], devices, installations, raced)
    /\ \A s \in Requests : ReadsOK(txns[s])' <=> ReadsIn(txns'[s], devices', installations', raced')
BY DEF OnActiveDevice, OnActive, ReadsOK, ReadsIn, Active, On, Registered

LEMMA EnrollStep ==
    ASSUME IInv, NEW r \in Requests, Enroll(r)
    PROVE  IInv'
<1> DEFINE txn == txns[r]
           i == txn.installation
           d == txn.device
           row == [device |-> d, tailnet |-> txn.tailnet]
<1>1. /\ txn.op = "register" /\ txn.pc = "checked" /\ txn.todo = <<>>
      /\ devices[d].status \in {"none", "active"}
      /\ devices' = [devices EXCEPT ![d].status = IF @ = "none" THEN "active" ELSE @]
      /\ installations' = [installations EXCEPT ![i] = row]
      /\ signals' = [signals EXCEPT ![i] = [hardware |-> txn.machine, device |-> d]]
      /\ End(r, NoTxn) /\ UNCHANGED <<cache, raced>>
  BY DEF Enroll, At, Enrollable
<1>2. TypeOK /\ TablesInv /\ txn \in Request(Ops) /\ LocksOK(txn, held[r])
  BY <1>1, SlotOK DEF IInv
<1>3. /\ d \in Devices /\ i \in Installations
      /\ <<"device", d>> \in held[r] /\ <<"installation", i>> \in held[r]
  BY <1>1, <1>2, NeedsHeld DEF LocksOK, Sound, Request, Needs
<1>4. devices[d] \in Device /\ devices[d].into = None
  BY <1>1, <1>2, <1>3 DEF TypeOK, Device
<1>5. /\ devices' \in [Devices -> Device] /\ devices'[d].status = "active" /\ devices'[d].into = None
      /\ \A e \in Devices \ {d} : devices'[e] = devices[e]
  <2>1. [devices[d] EXCEPT !.status = "active"] \in Device
    BY <1>4 DEF Device
  <2>2. devices' = [devices EXCEPT ![d] = [devices[d] EXCEPT !.status = "active"]]
    BY <1>1, <1>2, <1>3 DEF TypeOK
  <2> QED BY <1>2, <1>3, <1>4, <2>1, <2>2 DEF TypeOK, Device
<1>6. row \in Installation /\ row.device = d /\ d # None
  BY <1>2, <1>3, DeviceIdentityAssumption DEF Installation, Request
<1>7. /\ installations' \in [Installations -> Installation] /\ installations'[i].device = d
      /\ \A j \in Installations \ {i} : installations'[j] = installations[j]
  BY <1>1, <1>2, <1>3, <1>6 DEF TypeOK
<1>8. [hardware |-> txn.machine, device |-> d] \in Signal \ {NoSignal}
  <2>1. txn.machine \in Machines /\ d # None
    BY <1>2, <1>6 DEF Request
  <2> QED BY <1>3, <2>1 DEF Signal, NoSignal
<1>9. /\ signals' \in [Installations -> Signal] /\ signals'[i] # NoSignal
      /\ \A j \in Installations \ {i} : signals'[j] = signals[j]
  BY <1>1, <1>2, <1>3, <1>8 DEF TypeOK
<1>10. \A j \in Installations : Registered(j) => Registered(j)'
  BY <1>6, <1>7 DEF Registered
<1>11. \A e : Active(e) => Active(e)'
  BY <1>5 DEF Active
<1>12. /\ txns' \in [Requests -> Txn] /\ held' \in [Requests -> SUBSET Names]
       /\ Exclusion' /\ LocksInv'
       /\ \A s \in Requests : Merging(txns'[s]) \/ Joining(txns'[s]) => s # r /\ txns'[s] = txns[s]
  BY <1>1, <1>10, EndStep
<1>13. TypeOK'
  BY <1>1, <1>2, <1>5, <1>7, <1>9, <1>12 DEF TypeOK
<1>14. Signalled'
  BY <1>2, <1>7, <1>9 DEF TablesInv, Signalled, Registered
<1>15. OnActiveDevice'
  <2>1. OnActive(devices, installations, raced)
    BY <1>2, Tables DEF TablesInv
  <2>2. ASSUME NEW j \in Installations \ raced, installations'[j].device # None
        PROVE  installations'[j].device \in Devices /\ devices'[installations'[j].device].status = "active"
    BY <1>3, <1>5, <1>7, <2>1, <2>2 DEF OnActive
  <2>3. OnActive(devices', installations', raced')
    BY <1>1, <2>2 DEF OnActive
  <2> QED BY <2>3, Tables
<1>16. MergesEnd'
  <2>1. \A e \in Devices : devices'[e].status = "merged" <=> devices[e].status = "merged"
    BY <1>1, <1>5
  <2>2. \A e \in Devices : devices[e].status = "merged" => devices'[e].into = devices[e].into /\ devices[e].into \in Devices
    BY <1>1, <1>2, <1>5 DEF TypeOK, Device
  <2>3. \A e \in Devices : devices[e].status # "none" => devices'[e].status # "none"
    BY <1>5
  <2> DEFINE merged == {e \in Devices : devices[e].status = "merged"}
  <2>4. merged' = merged
    BY <2>1
  <2>5. /\ \A e \in merged : devices[devices[e].into].status # "none"
        /\ \A loop \in SUBSET merged : loop # {} => \E e \in loop : devices[e].into \notin loop
    BY <1>2 DEF TablesInv, MergesEnd
  <2>6. /\ \A e \in merged : devices'[devices'[e].into].status # "none"
        /\ \A loop \in SUBSET merged : loop # {} => \E e \in loop : devices'[e].into \notin loop
    BY <2>2, <2>3, <2>5
  <2> HIDE DEF merged
  <2> QED BY <2>4, <2>6 DEF MergesEnd, merged
<1>17. ASSUME NEW s \in Requests PROVE ReadsOK(txns[s])'
  <2> DEFINE old == txns[s]
  <2> SUFFICES ASSUME Merging(txns'[s]) \/ Joining(txns'[s])
               PROVE  ReadsIn(txns'[s], devices', installations', raced')
    BY Tables DEF ReadsIn
  <2>1. s # r /\ txns'[s] = old /\ old.pc = "checked" /\ old \in Request(Ops)
    BY <1>12, SlotOK DEF Merging, Joining
  <2>2. ReadsIn(old, devices, installations, raced)
    BY <1>2, Tables DEF TablesInv
  <2>3. Merging(old) => d # old.caller /\ d # old.target
    BY <1>3, <2>1, Excluded
  <2>4. /\ old.moved \subseteq Installations /\ old.installation \in Installations
        /\ Merging(old) => old.caller # None
    BY <2>1, <2>2, DeviceIdentityAssumption DEF Request, ReadsIn
  <2>5. installations[i].device = None
    BY <1>1, <1>2, Tables DEF TablesInv, ReadsIn, Joining
  <2>6. Joining(old) => old.installation # i
    BY <1>3, <2>1, ExcludedNames
  <2> HIDE DEF old
  <2>7. Merging(old) => i \notin old.moved
    BY <2>2, <2>4, <2>5 DEF ReadsIn
  <2>8. ReadsIn(old, devices', installations', raced)
    BY <1>3, <1>5, <1>7, <2>1, <2>2, <2>3, <2>4, <2>6, <2>7 DEF ReadsIn
  <2> QED BY <1>1, <2>1, <2>8
<1> QED BY <1>12, <1>13, <1>14, <1>15, <1>16, <1>17 DEF IInv, TablesInv

LEMMA RefreshStep ==
    ASSUME IInv, NEW r \in Requests, Refresh(r)
    PROVE  IInv'
<1> DEFINE txn == txns[r]
           i == txn.installation
           tailnet == IF txn.tailnet = None THEN installations[i].tailnet ELSE txn.tailnet
           row == [installations[i] EXCEPT !.tailnet = tailnet]
           signal == [hardware |-> txn.machine, device |-> txn.device]
<1>1. /\ txn.op = "refresh" /\ txn.pc = "checked" /\ txn.todo = <<>>
      /\ installations' = [installations EXCEPT ![i].tailnet = IF txn.tailnet = None THEN @ ELSE txn.tailnet]
      /\ signals' = [signals EXCEPT ![i] = signal]
      /\ End(r, NoTxn) /\ UNCHANGED <<devices, cache, raced>>
  BY DEF Refresh, At
<1>2. TypeOK /\ TablesInv /\ txn \in Request(Ops) /\ LocksOK(txn, held[r]) /\ Known(txn)
  BY <1>1, SlotOK DEF IInv
<1>3. i \in Installations /\ installations[i] \in Installation /\ installations[i] # NoInstallation
  BY <1>1, <1>2 DEF Request, TypeOK, Known, Registered, NoInstallation
<1>4. row \in Installation /\ row.device = installations[i].device
  <2>1. tailnet \in MaybeMachine
    BY <1>2, <1>3 DEF Request, Installation
  <2> QED BY <1>3, <2>1 DEF Installation
<1>5. signal \in Signal \ {NoSignal}
  <2>1. txn.device \in Devices /\ txn.device # None /\ txn.machine \in Machines
    BY <1>1, <1>2, DeviceIdentityAssumption DEF LocksOK, Sound, Request
  <2> QED BY <2>1 DEF Signal, NoSignal
<1>6. installations' = [installations EXCEPT ![i] = row]
  BY <1>1, <1>2, <1>3 DEF TypeOK
<1> HIDE DEF row, signal
<1>7. /\ installations' \in [Installations -> Installation]
      /\ \A j \in Installations : installations'[j].device = installations[j].device
  BY <1>2, <1>3, <1>4, <1>6 DEF TypeOK
<1>8. /\ signals' \in [Installations -> Signal]
      /\ \A j \in Installations : signals[j] # NoSignal => signals'[j] # NoSignal
  BY <1>1, <1>2, <1>3, <1>5 DEF TypeOK
<1>9. \A j \in Installations : Registered(j) => Registered(j)'
  BY <1>7 DEF Registered
<1>10. /\ txns' \in [Requests -> Txn] /\ held' \in [Requests -> SUBSET Names]
       /\ Exclusion' /\ LocksInv'
       /\ \A s \in Requests : Merging(txns'[s]) \/ Joining(txns'[s]) => s # r /\ txns'[s] = txns[s]
  BY <1>1, <1>9, EndStep
<1>11. TypeOK'
  BY <1>1, <1>2, <1>7, <1>8, <1>10 DEF TypeOK
<1>12. Signalled' /\ MergesEnd'
  BY <1>1, <1>2, <1>7, <1>8 DEF TablesInv, Signalled, Registered, MergesEnd
<1>13. OnActiveDevice'
  <2>1. OnActive(devices, installations, raced)
    BY <1>2, Tables DEF TablesInv
  <2>2. OnActive(devices', installations', raced')
    BY <1>1, <1>7, <2>1 DEF OnActive
  <2> QED BY <2>2, Tables
<1>14. ASSUME NEW s \in Requests PROVE ReadsOK(txns[s])'
  <2> DEFINE old == txns[s]
  <2> SUFFICES ASSUME Merging(txns'[s]) \/ Joining(txns'[s])
               PROVE  ReadsIn(txns'[s], devices', installations', raced')
    BY Tables DEF ReadsIn
  <2>1. txns'[s] = old /\ old.pc = "checked" /\ old \in Request(Ops)
    BY <1>10, SlotOK DEF Merging, Joining
  <2>2. ReadsIn(old, devices, installations, raced)
    BY <1>2, Tables DEF TablesInv
  <2>3. old.moved \subseteq Installations /\ old.installation \in Installations
    BY <2>1 DEF Request
  <2> HIDE DEF old
  <2>4. ReadsIn(old, devices', installations', raced')
    BY <1>1, <1>7, <2>2, <2>3 DEF ReadsIn
  <2> QED BY <2>1, <2>4
<1> QED BY <1>10, <1>11, <1>12, <1>13, <1>14 DEF IInv, TablesInv

\* A claim puts its installation where it wants, unless a migration has its row; who
\* claims a device that is being merged is among those excused.
LEMMA ClaimStep ==
    ASSUME IInv, NEW r \in Requests, Claim(r)
    PROVE  IInv'
<1> DEFINE txn == txns[r]
           i == txn.installation
           d == txn.target
           merging == \E s \in Requests : txns[s].op = "migrate" /\ txns[s].pc = "checked" /\ txns[s].caller = d
<1>1. /\ txn.op = "claim" /\ txn.pc = "checked" /\ txn.todo = <<>> /\ ~RowLocked(i)
      /\ installations' = [installations EXCEPT ![i].device = d]
      /\ signals' = [signals EXCEPT ![i].device = d]
      /\ raced' = IF Active(d) /\ ~merging THEN raced \ {i} ELSE raced \cup {i}
      /\ End(r, Clearing(txn.pod)) /\ UNCHANGED <<devices, cache>>
  BY DEF Claim, At
<1>2. TypeOK /\ TablesInv /\ txn \in Request(Ops) /\ LocksOK(txn, held[r]) /\ Known(txn)
  BY <1>1, SlotOK DEF IInv
<1>3. /\ i \in Installations /\ d \in Devices /\ d # None /\ txn.pod \in Pods /\ Registered(i)
      /\ installations[i] \in Installation \ {NoInstallation} /\ signals[i] \in Signal \ {NoSignal}
  BY <1>1, <1>2, DeviceIdentityAssumption
     DEF Request, TypeOK, LocksOK, Sound, Known, Registered, NoInstallation, TablesInv, Signalled
<1> DEFINE row == [installations[i] EXCEPT !.device = d]
           signal == [signals[i] EXCEPT !.device = d]
<1>4. row \in Installation /\ row.device = d /\ signal \in Signal \ {NoSignal}
  BY <1>3 DEF Installation, Signal, NoSignal
<1>5. installations' = [installations EXCEPT ![i] = row] /\ signals' = [signals EXCEPT ![i] = signal]
  BY <1>1, <1>2, <1>3 DEF TypeOK
<1> HIDE DEF row, signal
<1>6. /\ installations' \in [Installations -> Installation] /\ installations'[i].device = d
      /\ \A j \in Installations \ {i} : installations'[j] = installations[j]
  BY <1>2, <1>3, <1>4, <1>5 DEF TypeOK
<1>7. /\ signals' \in [Installations -> Signal] /\ signals'[i] # NoSignal
      /\ \A j \in Installations \ {i} : signals'[j] = signals[j]
  BY <1>2, <1>3, <1>4, <1>5 DEF TypeOK
<1>8. \A j \in Installations : Registered(j) => Registered(j)'
  BY <1>3, <1>6 DEF Registered
<1>9. /\ txns' \in [Requests -> Txn] /\ held' \in [Requests -> SUBSET Names]
      /\ Exclusion' /\ LocksInv'
      /\ \A s \in Requests : Merging(txns'[s]) \/ Joining(txns'[s]) => s # r /\ txns'[s] = txns[s]
  BY <1>1, <1>3, <1>8, EndStep
<1>10. raced' \subseteq Installations /\ raced \subseteq raced' \cup {i} /\ raced' \subseteq raced \cup {i}
  BY <1>1, <1>2, <1>3 DEF TypeOK
<1>11. i \notin raced' => Active(d)
  BY <1>1
<1>12. merging => i \in raced'
  BY <1>1
<1> HIDE DEF merging
<1>13. TypeOK'
  BY <1>1, <1>2, <1>6, <1>7, <1>9, <1>10 DEF TypeOK
<1>14. Signalled' /\ MergesEnd'
  BY <1>1, <1>2, <1>6, <1>7 DEF TablesInv, Signalled, Registered, MergesEnd
<1>15. OnActiveDevice'
  <2>1. OnActive(devices, installations, raced)
    BY <1>2, Tables DEF TablesInv
  <2>2. OnActive(devices', installations', raced')
    BY <1>1, <1>6, <1>10, <1>11, <2>1 DEF OnActive, Active
  <2> QED BY <2>2, Tables
<1>16. ASSUME NEW s \in Requests PROVE ReadsOK(txns[s])'
  <2> DEFINE old == txns[s]
  <2> SUFFICES ASSUME Merging(txns'[s]) \/ Joining(txns'[s])
               PROVE  ReadsIn(txns'[s], devices', installations', raced')
    BY Tables DEF ReadsIn
  <2>1. txns'[s] = old /\ old.pc = "checked" /\ old \in Request(Ops)
    BY <1>9, SlotOK DEF Merging, Joining
  <2>2. ReadsIn(old, devices, installations, raced)
    BY <1>2, Tables DEF TablesInv
  <2>3. old.moved \subseteq Installations /\ old.installation \in Installations
    BY <2>1 DEF Request
  <2>4. i \notin old.moved
    BY <1>1 DEF RowLocked
  <2>5. Merging(old) /\ old.caller = d => i \in raced'
    BY <1>12 DEF merging, Merging
  <2>6. installations[i].device # None
    BY <1>3 DEF Registered
  <2> HIDE DEF old
  <2>7. ReadsIn(old, devices', installations', raced')
    BY <1>1, <1>6, <1>10, <2>2, <2>3, <2>4, <2>5, <2>6 DEF ReadsIn
  <2> QED BY <2>1, <2>7
<1> QED BY <1>9, <1>13, <1>14, <1>15, <1>16 DEF IInv, TablesInv

\* A migration merges an active device into another, which no migration in progress
\* is about, and takes everybody along who has not claimed in the meantime.
LEMMA MigrateStep ==
    ASSUME IInv, NEW r \in Requests, Migrate(r)
    PROVE  IInv'
<1> DEFINE txn == txns[r]
           from == txn.caller
           into == txn.target
           moved == txn.moved
<1>1. /\ txn.op = "migrate" /\ txn.pc = "checked" /\ txn.todo = <<>>
      /\ devices' = [devices EXCEPT ![from] = [status |-> "merged", into |-> into]]
      /\ installations' = [j \in Installations |->
                              IF j \in moved THEN [installations[j] EXCEPT !.device = into] ELSE installations[j]]
      /\ signals' = [j \in Installations |->
                              IF signals[j].device = from THEN [signals[j] EXCEPT !.device = into] ELSE signals[j]]
      /\ raced' = raced \ moved
      /\ End(r, Clearing(txn.pod)) /\ UNCHANGED cache
  BY DEF Migrate, At
<1>2. TypeOK /\ TablesInv /\ txn \in Request(Ops) /\ LocksOK(txn, held[r]) /\ Merging(txn)
  BY <1>1, SlotOK DEF IInv, Merging
<1>3. /\ from \in Devices /\ into \in Devices /\ from # into /\ from # None /\ into # None
      /\ moved \subseteq Installations /\ txn.pod \in Pods
      /\ <<"device", from>> \in held[r] /\ <<"device", into>> \in held[r]
  BY <1>1, <1>2, NeedsHeld, DeviceIdentityAssumption DEF Request, LocksOK, Sound, Needs
<1>4. ReadsIn(txn, devices, installations, raced)
  BY <1>2, Tables DEF TablesInv
<1>5. /\ devices[from].status = "active" /\ devices[into].status = "active"
      /\ \A j \in moved : installations[j].device = from
      /\ \A j \in Installations : installations[j].device = from => j \in moved \cup raced
  BY <1>2, <1>4 DEF ReadsIn
<1>6. /\ devices' \in [Devices -> Device] /\ devices'[from] = [status |-> "merged", into |-> into]
      /\ \A e \in Devices \ {from} : devices'[e] = devices[e]
  <2>1. [status |-> "merged", into |-> into] \in Device
    BY <1>3 DEF Device
  <2> QED BY <1>1, <1>2, <1>3, <2>1 DEF TypeOK
<1>7. /\ installations' \in [Installations -> Installation]
      /\ \A j \in moved : installations'[j].device = into
      /\ \A j \in Installations \ moved : installations'[j] = installations[j]
  <2>1. ASSUME NEW j \in moved
        PROVE  LET row == [installations[j] EXCEPT !.device = into] IN row \in Installation /\ row.device = into
    BY <1>2, <1>3, <1>5 DEF TypeOK, Installation, NoInstallation
  <2> QED BY <1>1, <1>2, <1>3, <2>1 DEF TypeOK
<1>8. /\ signals' \in [Installations -> Signal]
      /\ \A j \in Installations : signals[j] # NoSignal => signals'[j] # NoSignal
  <2>1. ASSUME NEW j \in Installations
        PROVE  /\ signals'[j] \in Signal
               /\ signals[j] # NoSignal => signals'[j] # NoSignal
    <3>1. CASE signals[j].device = from
      <4>1. signals[j] \in [hardware : Machines, device : Devices]
        BY <1>2, <1>3, <3>1 DEF TypeOK, Signal, NoSignal
      <4>2. signals'[j] = [signals[j] EXCEPT !.device = into]
        BY <1>1, <3>1
      <4> QED BY <1>3, <4>1, <4>2 DEF Signal, NoSignal
    <3>2. CASE signals[j].device # from
      <4>1. signals'[j] = signals[j]
        BY <1>1, <3>2
      <4> QED BY <1>2, <4>1 DEF TypeOK
    <3> QED BY <3>1, <3>2
  <2>2. signals' \in [Installations -> Signal]
    BY <1>1, <2>1
  <2> QED BY <2>1, <2>2
<1>9. \A j \in Installations : Registered(j) <=> Registered(j)'
  BY <1>3, <1>5, <1>7 DEF Registered
<1>10. /\ txns' \in [Requests -> Txn] /\ held' \in [Requests -> SUBSET Names]
       /\ Exclusion' /\ LocksInv'
       /\ \A s \in Requests : Merging(txns'[s]) \/ Joining(txns'[s]) => s # r /\ txns'[s] = txns[s]
  BY <1>1, <1>3, <1>9, EndStep
<1>11. TypeOK'
  BY <1>1, <1>2, <1>6, <1>7, <1>8, <1>10 DEF TypeOK
<1>12. Signalled'
  BY <1>2, <1>8, <1>9 DEF TablesInv, Signalled
<1>13. OnActiveDevice'
  <2>1. OnActive(devices, installations, raced)
    BY <1>2, Tables DEF TablesInv
  <2>2. OnActive(devices', installations', raced')
    BY <1>1, <1>3, <1>5, <1>6, <1>7, <2>1 DEF OnActive
  <2> QED BY <2>2, Tables
<1>14. MergesEnd'
  <2> DEFINE merged == {e \in Devices : devices[e].status = "merged"}
             after == {e \in Devices : devices'[e].status = "merged"}
  <2>1. after = merged \cup {from} /\ from \notin merged /\ into \notin after
    BY <1>3, <1>5, <1>6
  <2>2. \A e \in merged : devices'[e] = devices[e] /\ devices[e].into \in Devices
    BY <1>2, <1>5, <1>6 DEF TypeOK, Device
  <2>3. /\ \A e \in merged : devices[devices[e].into].status # "none"
        /\ \A loop \in SUBSET merged : loop # {} => \E e \in loop : devices[e].into \notin loop
    BY <1>2 DEF TablesInv, MergesEnd
  <2>4. \A e \in Devices : devices[e].status # "none" => devices'[e].status # "none"
    BY <1>6
  <2>5. devices'[from].into = into /\ devices'[into].status # "none"
    BY <1>3, <1>5, <1>6
  <2> HIDE DEF merged, after
  <2>6. \A e \in after : devices'[devices'[e].into].status # "none"
    BY <2>1, <2>2, <2>3, <2>4, <2>5
  <2>7. ASSUME NEW loop \in SUBSET after, loop # {} PROVE \E e \in loop : devices'[e].into \notin loop
    <3>1. CASE from \in loop
      BY <2>1, <2>5, <3>1
    <3>2. CASE from \notin loop
      <4>1. PICK e \in loop : devices[e].into \notin loop
        BY <2>1, <2>3, <2>7, <3>2
      <4>2. e \in merged
        BY <2>1, <3>2
      <4> QED BY <2>2, <4>1, <4>2
    <3> QED BY <3>1, <3>2
  <2> QED BY <2>6, <2>7 DEF MergesEnd, after
<1>15. ASSUME NEW s \in Requests PROVE ReadsOK(txns[s])'
  <2> DEFINE old == txns[s]
  <2> SUFFICES ASSUME Merging(txns'[s]) \/ Joining(txns'[s])
               PROVE  ReadsIn(txns'[s], devices', installations', raced')
    BY Tables DEF ReadsIn
  <2>1. s # r /\ txns'[s] = old /\ old.pc = "checked" /\ old \in Request(Ops)
    BY <1>10, SlotOK DEF Merging, Joining
  <2>2. ReadsIn(old, devices, installations, raced)
    BY <1>2, Tables DEF TablesInv
  <2>3. old.moved \subseteq Installations /\ old.installation \in Installations
    BY <2>1 DEF Request
  <2>4. Merging(old) => from \notin {old.caller, old.target} /\ into \notin {old.caller, old.target}
    BY <1>3, <2>1, Excluded
  <2> HIDE DEF old, from, into, moved
  <2>5. Merging(old) => old.moved \cap moved = {}
    BY <1>5, <2>2, <2>4 DEF ReadsIn
  <2>6. Joining(old) => old.installation \notin moved
    BY <1>3, <1>5, <2>2 DEF ReadsIn
  <2>7. ASSUME Merging(old) PROVE ReadsIn(old, devices', installations', raced')
    <3>1. old.caller \in Devices /\ old.target \in Devices
      BY <2>2, <2>7 DEF ReadsIn
    <3>2. devices'[old.caller] = devices[old.caller] /\ devices'[old.target] = devices[old.target]
      BY <1>6, <2>4, <2>7, <3>1
    <3>3. \A j \in old.moved : installations'[j] = installations[j]
      BY <1>7, <2>3, <2>5, <2>7
    <3>4. ASSUME NEW j \in Installations, installations'[j].device = old.caller
          PROVE  j \in old.moved \cup raced'
      <4>1. j \notin moved /\ installations[j].device = old.caller
        BY <1>7, <2>4, <2>7, <3>4
      <4> QED BY <1>1, <2>2, <2>7, <4>1 DEF ReadsIn, moved
    <3> QED BY <2>2, <2>7, <3>1, <3>2, <3>3, <3>4 DEF ReadsIn, Merging, Joining
  <2>8. CASE Joining(old)
    <3>1. ~Merging(old)
      BY <2>8 DEF Merging, Joining
    <3>2. installations[old.installation].device = None
      BY <2>2, <2>8 DEF ReadsIn
    <3>3. installations'[old.installation] = installations[old.installation]
      BY <1>7, <2>3, <2>6, <2>8
    <3> QED BY <2>1, <3>1, <3>2, <3>3 DEF ReadsIn
  <2> QED BY <2>1, <2>7, <2>8
<1> QED BY <1>10, <1>11, <1>12, <1>13, <1>14, <1>15 DEF IInv, TablesInv

-----------------------------------------------------------------------------
LEMMA InitOK == Init => IInv
<1> SUFFICES ASSUME Init PROVE IInv
  OBVIOUS
<1>1. NoTxn \in Txn /\ LocksOK(NoTxn, {}) /\ ~Merging(NoTxn) /\ ~Joining(NoTxn) /\ NoTxn.op = "none"
  BY Slots
<1>2. /\ NoDevice \in Device /\ NoDevice.status = "none" /\ NoInstallation \in Installation
      /\ NoInstallation.device = None /\ NoSignal \in Signal
  BY DEF NoDevice, Device, NoInstallation, Installation, Signal
<1>3. [i \in Installations |-> None] \in [Installations -> MaybeDevice]
  BY DEF MaybeDevice
<1>4. TypeOK
  BY <1>1, <1>2, <1>3 DEF Init, TypeOK
<1>5. Exclusion
  BY DEF Init, Exclusion
<1>6. LocksInv
  BY <1>1 DEF Init, LocksInv, Known
<1>7. Signalled /\ OnActiveDevice
  BY <1>2 DEF Init, Signalled, OnActiveDevice, Registered
<1>8. MergesEnd
  <2>1. {d \in Devices : devices[d].status = "merged"} = {}
    BY <1>2 DEF Init
  <2> QED BY <2>1 DEF MergesEnd
<1>9. \A r \in Requests : ReadsOK(txns[r])
  BY <1>1 DEF Init, ReadsOK
<1> QED BY <1>4, <1>5, <1>6, <1>7, <1>8, <1>9 DEF IInv, TablesInv

LEMMA NextOK == IInv /\ [Next]_vars => IInv'
<1> SUFFICES ASSUME IInv, [Next]_vars PROVE IInv'
  OBVIOUS
<1>1. ASSUME NEW r \in Requests, NEW p \in Pods, NEW i \in Installations, NEW m \in Machines,
             NEW requested \in Named \cup {None}, NEW tailnet \in {m, None},
             Register(r, p, i, m, tailnet, requested)
      PROVE  IInv'
  BY <1>1, RegisterStep
<1>2. ASSUME NEW r \in Requests, NEW p \in Pods, NEW i \in Installations,
             NEW tailnet \in {signals[i].hardware, None}, Ask(r, p, "refresh", i, tailnet, None)
      PROVE  IInv'
  BY <1>2, AskStep
<1>3. ASSUME NEW r \in Requests, NEW p \in Pods, NEW i \in Installations,
             NEW op \in {"claim", "migrate"}, NEW d \in Devices, Ask(r, p, op, i, None, d)
      PROVE  IInv'
  BY <1>3, AskStep
<1>4. ASSUME NEW r \in Requests, Cache(r) \/ Clear(r) \/ Abort(r) \/ Acquire(r)
      PROVE  IInv'
  BY <1>4, CacheStep, ClearStep, AbortStep, AcquireStep
<1>5. ASSUME NEW r \in Requests, Match(r) \/ Enroll(r) \/ ReadExisting(r) \/ Refresh(r)
      PROVE  IInv'
  BY <1>5, MatchStep, EnrollStep, ReadExistingStep, RefreshStep
<1>6. ASSUME NEW r \in Requests, CheckTarget(r) \/ Claim(r) \/ Merge(r) \/ Migrate(r)
      PROVE  IInv'
  BY <1>6, CheckTargetStep, ClaimStep, MergeStep, MigrateStep
<1>7. CASE UNCHANGED vars
  <2>1. UNCHANGED <<devices, installations, signals, cache, txns, held, raced>>
    BY <1>7 DEF vars
  <2>2. TypeOK' /\ Exclusion' /\ LocksInv'
    BY <2>1 DEF IInv, TypeOK, Exclusion, LocksInv, Known, Registered
  <2>3. Signalled' /\ MergesEnd' /\ OnActiveDevice'
    BY <2>1 DEF IInv, TablesInv, Signalled, MergesEnd, OnActiveDevice, Registered, Active
  <2>4. \A r \in Requests : ReadsOK(txns[r])'
    BY <2>1 DEF IInv, TablesInv, ReadsOK, Active, On, Registered
  <2> QED BY <2>2, <2>3, <2>4 DEF IInv, TablesInv
<1> QED BY <1>1, <1>2, <1>3, <1>4, <1>5, <1>6, <1>7 DEF Next

\* The invariant, for any requests, machines, installations and devices.
THEOREM Invariant == Spec => []IInv
BY InitOK, NextOK, PTL DEF Spec

\* Tables, caches, locks and requests are always well typed.
THEOREM TypeCorrect == Spec => []TypeOK
<1>1. IInv => TypeOK
  BY DEF IInv
<1> QED BY <1>1, Invariant, PTL

\* Whatever migrations cross, a merged device leads to an active one (MigrateDevice
\* and lockDeviceCodes).
THEOREM MergesLeadOn == Spec => []MergesEnd
<1>1. IInv => MergesEnd
  BY DEF IInv, TablesInv
<1> QED BY <1>1, Invariant, PTL

\* Nobody but who has claimed it is on a merged device (ensureDevice, MigrateDevice).
THEOREM NobodyLeftBehind == Spec => []OnActiveDevice
<1>1. IInv => OnActiveDevice
  BY DEF IInv, TablesInv
<1> QED BY <1>1, Invariant, PTL

-----------------------------------------------------------------------------
\* Whoever waits for rows waits for a migration that waits for nothing.
LEMMA RowsWait ==
    ASSUME IInv, NEW s \in Requests, txns[s].moved # {}
    PROVE  WaitsFor(s) = {}
<1>1. Sound(txns[s])
  BY SlotOK
<1>2. txns[s].op = "migrate" /\ txns[s].pc = "checked" /\ txns[s].todo = <<>>
  BY <1>1 DEF Sound, Merging
<1> QED BY <1>2 DEF WaitsFor, At

\* Whoever holds the lock that somebody waits for waits for a later one, if at all.
LEMMA LocksWait ==
    ASSUME IInv, NEW r \in Requests, NEW s \in Requests,
           txns[r].todo # <<>>, Head(txns[r].todo) \in held[s], txns[s].todo # <<>>
    PROVE  Before(Head(txns[r].todo), Head(txns[s].todo))
<1> DEFINE todo == txns[s].todo
<1>1. LocksOK(txns[s], held[s]) /\ txns[s] \in Request(Ops)
  BY SlotOK DEF Sound, OpenTxn
<1>2. todo \in Seq(Names) /\ Len(todo) \in Nat \ {0} /\ Head(todo) = todo[1]
  BY <1>1, EmptySeq, HeadTailProperties DEF Request
<1>3. Head(todo) \in Listed(todo)
  BY <1>2 DEF Listed
<1> QED BY <1>1, <1>3 DEF LocksOK

\* The highest of some devices.
LEMMA Highest ==
    ASSUME NEW some \in SUBSET Devices, some # {}
    PROVE  \E d \in some : \A e \in some : ~(d < e)
<1> DEFINE above(d) == {e \in Devices : d < e}
           T == {above(d) : d \in some}
<1>1. IsWellFoundedOn(StrictSubsetOrdering(Devices), SUBSET Devices)
  <2>1. FiniteSubsetsOf(Devices) = SUBSET Devices
    BY DeviceIdentityAssumption, FS_FiniteSubsetsOfFinite
  <2>2. IsWellFoundedOn(StrictSubsetOrdering(Devices), FiniteSubsetsOf(Devices))
    BY FS_StrictSubsetOrderingWellFounded
  <2> QED BY <2>1, <2>2
<1>2. T \subseteq SUBSET Devices /\ T # {}
  OBVIOUS
<1> HIDE DEF T
<1>3. PICK least \in T : \A t \in T : <<t, least>> \notin StrictSubsetOrdering(Devices)
  BY <1>1, <1>2, WFMin
<1>4. PICK d \in some : least = above(d)
  BY <1>3 DEF T
<1>5. ASSUME NEW e \in some, d < e PROVE FALSE
  <2>1. d \in Nat /\ e \in Nat
    BY DeviceIdentityAssumption
  <2>2. above(e) \in T
    BY DEF T
  <2>3. above(e) \subseteq above(d)
    <3>1. \A k \in Devices : e < k => d < k
      BY <1>5, <2>1, DeviceIdentityAssumption
    <3> QED BY <3>1
  <2>4. e \in above(d) /\ e \notin above(e)
    BY <1>5, <2>1
  <2>5. above(e) # above(d)
    BY <2>4
  <2>6. above(e) \in SUBSET Devices /\ above(d) \in SUBSET Devices
    OBVIOUS
  <2> HIDE DEF above
  <2>7. <<above(e), above(d)>> \in StrictSubsetOrdering(Devices)
    BY <2>3, <2>5, <2>6 DEF StrictSubsetOrdering
  <2> QED BY <1>3, <1>4, <2>2, <2>7
<1> QED BY <1>5

\* Among some locks there is one after which none of them is taken.
LEMMA LastLock ==
    ASSUME NEW names \in SUBSET Names, names # {}
    PROVE  \E n \in names : \A m \in names : ~Before(n, m)
<1>1. \A n \in Names :
         \/ n[1] = "installation" \/ n[1] = "tailnet"
         \/ n[1] = "device" /\ n[2] \in Devices /\ n = <<"device", n[2]>>
  BY DEF Names
<1>2. CASE \E n \in names : n[1] = "device"
  <2> DEFINE some == {d \in Devices : <<"device", d>> \in names}
  <2>1. some \in SUBSET Devices /\ some # {}
    BY <1>1, <1>2
  <2> HIDE DEF some
  <2>2. PICK d \in some : \A e \in some : ~(d < e)
    BY <2>1, Highest
  <2>3. <<"device", d>> \in names
    BY <2>2 DEF some
  <2>4. ASSUME NEW m \in names, Before(<<"device", d>>, m) PROVE FALSE
    <3>1. m[1] = "device" /\ d < m[2]
      BY <2>4 DEF Before
    <3>2. m[2] \in some
      BY <1>1, <3>1 DEF some
    <3> QED BY <2>2, <3>1, <3>2
  <2> QED BY <2>3, <2>4
<1>3. CASE ~\E n \in names : n[1] = "device"
  <2>1. CASE \E n \in names : n[1] = "tailnet"
    BY <1>3, <2>1 DEF Before
  <2>2. CASE ~\E n \in names : n[1] = "tailnet"
    <3>1. PICK n \in names : TRUE
      OBVIOUS
    <3>2. \A m \in names : m[1] \notin {"tailnet", "device"}
      BY <1>3, <2>2
    <3> QED BY <3>1, <3>2 DEF Before
  <2> QED BY <2>1, <2>2
<1> QED BY <1>2, <1>3

\* Requests never wait for one another in a circle, whatever devices they are about:
\* every transaction takes its locks in one order (lockDeviceCodes), and rows are
\* held by those that wait no more.
THEOREM OrdersFit == Spec => []NoWaitCycle
<1>1. ASSUME IInv PROVE NoWaitCycle
  <2> SUFFICES ASSUME NEW circle \in SUBSET Requests, circle # {},
                      \A r \in circle : WaitsFor(r) \cap circle # {}
               PROVE  FALSE
    BY DEF NoWaitCycle
  <2> DEFINE head(r) == Head(txns[r].todo)
             heads == {head(r) : r \in circle}
  <2>1. ASSUME NEW r \in circle
        PROVE  txns[r].todo # <<>> /\ \E s \in circle : head(r) \in held[s]
    <3>1. PICK s \in circle : s \in WaitsFor(r)
      OBVIOUS
    <3>2. txns[s].moved = {}
      BY <1>1, RowsWait
    <3> QED BY <3>1, <3>2 DEF WaitsFor
  <2>2. ASSUME NEW r \in circle PROVE \E s \in circle : Before(head(r), head(s))
    <3>1. PICK s \in circle : head(r) \in held[s]
      BY <2>1
    <3>2. txns[r].todo # <<>> /\ txns[s].todo # <<>>
      BY <2>1
    <3>3. Before(head(r), head(s))
      BY <1>1, <3>1, <3>2, LocksWait
    <3> QED BY <3>3
  <2>3. heads \in SUBSET Names /\ heads # {}
    <3>1. ASSUME NEW r \in circle PROVE head(r) \in Names
      <4>1. PICK s \in circle : head(r) \in held[s]
        BY <2>1
      <4> QED BY <1>1, <4>1, SlotOK
    <3> QED BY <3>1
  <2>4. \A n \in heads : \E m \in heads : Before(n, m)
    BY <2>2
  <2> HIDE DEF heads
  <2> QED BY <2>3, <2>4, LastLock
<1> QED BY <1>1, Invariant, PTL

=============================================================================
