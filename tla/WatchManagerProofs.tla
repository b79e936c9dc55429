------------------------ MODULE WatchManagerProofs ------------------------
(***************************************************************************)
(* Theorems about WatchManager, for any watches and any number of changes. *)
(* The invariant is made of predicates of one job: Shape, what its stage   *)
(* says of its flags; Sees, that a path which exists without its watch has *)
(* an event on the way that brings it back; Current, that a job with no    *)
(* event, timer or trigger has sent, stored or indexed the present version *)
(* or has an error.  Registry ties the jobs to the path and to Close, and  *)
(* InOrder the versions to the index.                                      *)
(***************************************************************************)
EXTENDS WatchManager, SequenceTheorems, TLAPS

-----------------------------------------------------------------------------
Listening(job) == job.stage = "running" /\ ~job.cancelled
Calling(job) == job.stage \in {"starting", "synced", "armed"}

\* What the stage of a job says of its goroutines and of who stops it.
Shape(job) ==
    /\ job.stage \in {"none", "over"} => ~job.watching /\ ~job.syncing
    /\ job.stage = "none" => job.stop = "none"
    /\ Calling(job) => ~job.syncing /\ job.stop = "none"
    /\ job.stage = "armed" => job.watching
    /\ Listening(job) => job.watching /\ job.syncing /\ job.stop = "none"
    /\ job.cancelled => job.stage = "running"
    /\ job.cancelled /\ job.syncing => job.stop # "none"
    /\ job.stop = "stopped" => job.stage = "over"
    /\ job.request # "none" => job.stage = "starting" \/ (job.stage = "running" /\ job.syncing)

\* A path that is back and not watched is to be watched again when its creation is
\* handled, for the map has forgotten it or will have by then.
Expects(job) ==
    \E i \in 1 .. Len(job.events) :
        /\ job.events[i] = "create"
        /\ ~job.watched \/ \E k \in 1 .. i - 1 : job.events[k] = "remove"
Forgets(job) == ~job.watched \/ \E i \in 1 .. Len(job.events) : job.events[i] = "remove"
Sees(job, present) ==
    (job.stage = "armed" \/ Listening(job)) /\ ~job.blind =>
        /\ present /\ ~job.notified => Expects(job)
        /\ ~present => Forgets(job)

\* Nothing is pending: what was sent, stored or indexed is of this version.
Quiet(job) == job.events = <<>> /\ ~job.timer /\ job.trigger = 0
Current(job, version, indexed, stray) ==
    Listening(job) /\ Quiet(job) =>
        /\ job.request = "none" => indexed = version \/ job.error \/ job.blind \/ stray
        /\ job.request = "sent" => job.version = version \/ job.blind
        /\ job.request = "stored" => indexed = version \/ job.blind \/ stray

\* What a job scans is no newer than the path, and what the registered job or a
\* Watch has sent is no older than the index.
InOrder(job, version, indexed, stray) ==
    /\ job.version <= version
    /\ job.request = "sent" /\ (Listening(job) \/ Calling(job)) => indexed <= job.version \/ stray

JobOK(job, d, dead, indexed, stray) ==
    /\ Shape(job)
    /\ Sees(job, d.present)
    /\ InOrder(job, d.version, indexed, stray)
    /\ ~dead => Current(job, d.version, indexed, stray)
JobsOK == \A j \in Jobs : JobOK(jobs[j], disk, deleted, index, strayed)

\* The registered job is the one that listens; a path is set up by one Watch at a time.
Registry ==
    /\ watches = {path} \ {None, "reserved"}
    /\ \A j \in Jobs : j \in watches <=> Listening(jobs[j])
    /\ \A i, j \in Jobs : Calling(jobs[i]) /\ Calling(jobs[j]) => i = j
    /\ \A j \in Jobs : Calling(jobs[j]) /\ closing = "open" => path = "reserved"
    /\ closing # "open" => path = None
    /\ again => closing # "open"
    /\ closing = "closed" => \A j \in Jobs : jobs[j].stop = "closing" => jobs[j].stage = "over"

\* The index and the requests nobody waits for are of versions the path has had.
Scanned == index <= disk.version /\ \A version \in strays : version <= disk.version

IInv == TypeOK /\ Registry /\ Scanned /\ JobsOK

-----------------------------------------------------------------------------
\* A step of one job that leaves the path and the index alone.
LEMMA JobStep ==
    ASSUME IInv, NEW j \in Jobs, NEW new \in Job, jobs' = [jobs EXCEPT ![j] = new],
           UNCHANGED <<disk, deleted, index, strayed>>,
           strays' \subseteq strays \cup {jobs[j].version},
           path' \in Jobs \cup {None, "reserved"}, watches' \subseteq Jobs,
           closing' \in {"open", "waiting", "closed"}, again' = again,
           JobOK(new, disk, deleted, index, strayed)
    PROVE  TypeOK' /\ Scanned' /\ JobsOK'
<1>1. jobs \in [Jobs -> Job] /\ jobs[j].version \in Versions /\ jobs[j].version <= disk.version
  BY DEF IInv, TypeOK, Job, JobsOK, JobOK, InOrder
<1>2. TypeOK'
  BY <1>1 DEF IInv, TypeOK
<1>3. Scanned'
  BY <1>1 DEF IInv, Scanned
<1>4. JobsOK'
  <2>1. \A i \in Jobs : JobOK(jobs'[i], disk, deleted, index, strayed)
    BY <1>1 DEF IInv, JobsOK
  <2> QED BY <2>1 DEF JobsOK
<1> QED BY <1>2, <1>3, <1>4

\* The registry stands while a job listens, or is being set up, as it did.
LEMMA RegistryKept ==
    ASSUME IInv, NEW j \in Jobs, NEW new, jobs' = [jobs EXCEPT ![j] = new],
           UNCHANGED registry,
           (Listening(new) <=> Listening(jobs[j])),
           Calling(new) => Calling(jobs[j]),
           new.stop = "closing" => new.stage = "over" \/ (jobs[j].stop = "closing" /\ jobs[j].stage # "over")
    PROVE  Registry'
<1>1. jobs \in [Jobs -> Job]
  BY DEF IInv, TypeOK
<1>2. \A i \in Jobs : /\ Listening(jobs'[i]) <=> Listening(jobs[i])
                      /\ Calling(jobs'[i]) => Calling(jobs[i])
                      /\ jobs'[i].stop = "closing" =>
                            \/ jobs'[i].stage = "over"
                            \/ jobs[i].stop = "closing" /\ (i = j => jobs[i].stage # "over")
  BY <1>1
<1>3. \A i \in Jobs : i # j => jobs'[i] = jobs[i]
  BY <1>1
<1>4. Registry
  BY DEF IInv
<1>5. closing' = "closed" => \A i \in Jobs : jobs'[i].stop = "closing" => jobs'[i].stage = "over"
  BY <1>2, <1>3, <1>4 DEF Registry, registry
<1> QED BY <1>2, <1>4, <1>5 DEF Registry, registry

\* Both, for the steps of which a job is all that changes.
LEMMA JobOnly ==
    ASSUME IInv, NEW j \in Jobs, NEW new \in Job, jobs' = [jobs EXCEPT ![j] = new],
           UNCHANGED <<disk, deleted, index, strayed, registry>>,
           strays' \subseteq strays \cup {jobs[j].version},
           JobOK(new, disk, deleted, index, strayed),
           (Listening(new) <=> Listening(jobs[j])),
           Calling(new) => Calling(jobs[j]),
           new.stop = "closing" => new.stage = "over" \/ (jobs[j].stop = "closing" /\ jobs[j].stage # "over")
    PROVE  IInv'
<1>1. /\ path' \in Jobs \cup {None, "reserved"} /\ watches' \subseteq Jobs
      /\ closing' \in {"open", "waiting", "closed"} /\ again' = again
  BY DEF IInv, TypeOK, registry
<1>2. TypeOK' /\ Scanned' /\ JobsOK'
  BY <1>1, JobStep
<1>3. Registry'
  BY RegistryKept
<1> QED BY <1>2, <1>3 DEF IInv

\* What is known of one job.
LEMMA JobFacts ==
    ASSUME IInv, NEW j \in Jobs
    PROVE  /\ jobs[j] \in Job /\ JobOK(jobs[j], disk, deleted, index, strayed)
           /\ disk \in Disk /\ disk.version \in Nat /\ index \in Nat /\ disk.version \in Versions
           /\ index <= disk.version /\ 0 \in Versions
           /\ jobs[j].version \in Versions /\ jobs[j].version \in Nat
BY WatchManagerAssumption DEF IInv, TypeOK, JobsOK, Scanned, Versions, Disk, Job

-----------------------------------------------------------------------------
\* Watch, until it has armed its watcher.
LEMMA SendFirstStep ==
    ASSUME IInv, NEW j \in Jobs, SendFirst(j)
    PROVE  IInv'
<1> DEFINE job == jobs[j]
           new == Sent(job)
<1>1. /\ job \in Job /\ JobOK(job, disk, deleted, index, strayed)
      /\ disk.version \in Versions /\ disk.version \in Nat /\ index <= disk.version
  BY JobFacts
<1>2. /\ job.stage = "starting" /\ job.request = "none" /\ jobs' = [jobs EXCEPT ![j] = new]
      /\ UNCHANGED <<disk, deleted, service, registry>>
  BY DEF SendFirst, Set
<1>3. new = [job EXCEPT !.request = "sent", !.version = disk.version]
  BY DEF Sent
<1> HIDE DEF new, job
<1>4. new \in Job
  BY <1>1, <1>3 DEF Job
<1>5. /\ new.stage = "starting" /\ new.version = disk.version /\ new.stop = job.stop
      /\ new.watching = job.watching /\ new.syncing = job.syncing /\ new.cancelled = job.cancelled
  BY <1>1, <1>2, <1>3 DEF Job
<1>6. JobOK(new, disk, deleted, index, strayed)
  BY <1>1, <1>2, <1>5 DEF JobOK, Shape, Sees, InOrder, Current, Listening, Calling
<1>7. (Listening(new) <=> Listening(job)) /\ Calling(job) /\ new.stop # "closing"
  BY <1>1, <1>2, <1>5 DEF Listening, Calling, JobOK, Shape
<1> QED BY <1>2, <1>4, <1>6, <1>7, JobOnly DEF service, job

LEMMA AnswerFirstStep ==
    ASSUME IInv, NEW j \in Jobs, AnswerFirst(j)
    PROVE  IInv'
<1> DEFINE job == jobs[j]
           new == [job EXCEPT !.stage = "synced", !.request = "none", !.version = 0]
<1>1. /\ job \in Job /\ JobOK(job, disk, deleted, index, strayed)
      /\ 0 \in Versions /\ disk.version \in Nat
  BY JobFacts
<1>2. /\ job.stage = "starting" /\ jobs' = [jobs EXCEPT ![j] = new]
      /\ UNCHANGED <<disk, deleted, service, registry>>
  BY DEF AnswerFirst, Set
<1> HIDE DEF job
<1>3. /\ new \in Job /\ new.stage = "synced" /\ new.version = 0 /\ new.request = "none"
      /\ new.stop = job.stop /\ new.watching = job.watching /\ new.syncing = job.syncing
      /\ new.cancelled = job.cancelled
  BY <1>1, <1>2 DEF Job
<1> HIDE DEF new
<1>4. JobOK(new, disk, deleted, index, strayed)
  BY <1>1, <1>2, <1>3 DEF JobOK, Shape, Sees, InOrder, Current, Listening, Calling
<1>5. (Listening(new) <=> Listening(job)) /\ Calling(job) /\ new.stop # "closing"
  BY <1>1, <1>2, <1>3 DEF Listening, Calling, JobOK, Shape
<1> QED BY <1>2, <1>3, <1>4, <1>5, JobOnly DEF service, job

LEMMA ArmStep ==
    ASSUME IInv, NEW j \in Jobs, Arm(j)
    PROVE  IInv'
<1> DEFINE job == jobs[j]
           new == [Watched(job) EXCEPT !.stage = "armed", !.watching = TRUE]
<1>1. job \in Job /\ JobOK(job, disk, deleted, index, strayed)
  BY JobFacts
<1>2. /\ job.stage = "synced" /\ disk.present /\ jobs' = [jobs EXCEPT ![j] = new]
      /\ UNCHANGED <<disk, deleted, service, registry>>
  BY DEF Arm, Set
<1> HIDE DEF job
<1>3. /\ new \in Job /\ new.stage = "armed" /\ new.watching /\ new.notified
      /\ new.version = job.version /\ new.request = job.request /\ new.stop = job.stop
      /\ new.syncing = job.syncing /\ new.cancelled = job.cancelled
  BY <1>1 DEF Job, Watched
<1> HIDE DEF new
<1>4. JobOK(new, disk, deleted, index, strayed)
  BY <1>1, <1>2, <1>3 DEF JobOK, Shape, Sees, InOrder, Current, Listening, Calling
<1>5. (Listening(new) <=> Listening(job)) /\ Calling(job) /\ new.stop # "closing"
  BY <1>1, <1>2, <1>3 DEF Listening, Calling, JobOK, Shape
<1> QED BY <1>2, <1>3, <1>4, <1>5, JobOnly DEF service, job

-----------------------------------------------------------------------------
\* runWatchEvents.
LEMMA FireStep ==
    ASSUME IInv, NEW j \in Jobs, Fire(j)
    PROVE  IInv'
<1> DEFINE job == jobs[j]
           new == [job EXCEPT !.timer = FALSE, !.trigger = 1]
<1>1. job \in Job /\ JobOK(job, disk, deleted, index, strayed)
  BY JobFacts
<1>2. /\ job.stage = "running" /\ jobs' = [jobs EXCEPT ![j] = new]
      /\ UNCHANGED <<disk, deleted, service, registry>>
  BY DEF Fire, Set, Triggered, Running
<1> HIDE DEF job
<1>3. /\ new \in Job /\ new.stage = job.stage /\ new.trigger = 1 /\ new.version = job.version
      /\ new.request = job.request /\ new.stop = job.stop /\ new.watching = job.watching
      /\ new.syncing = job.syncing /\ new.cancelled = job.cancelled /\ new.events = job.events
      /\ new.notified = job.notified /\ new.watched = job.watched /\ new.blind = job.blind
  BY <1>1 DEF Job
<1> HIDE DEF new
<1>4. JobOK(new, disk, deleted, index, strayed)
  BY <1>1, <1>2, <1>3 DEF JobOK, Shape, Sees, Expects, Forgets, InOrder, Current, Quiet,
                         Listening, Calling
<1>5. /\ (Listening(new) <=> Listening(job)) /\ (Calling(new) <=> Calling(job))
      /\ new.stop = "closing" => job.stop = "closing" /\ job.stage # "over"
  BY <1>2, <1>3 DEF Listening, Calling
<1> QED BY <1>2, <1>3, <1>4, <1>5, JobOnly DEF service, job

\* An error of the watcher loses events, and the job is blind if one was of the path itself.
LEMMA WatchErrorStep ==
    ASSUME IInv, NEW j \in Jobs, WatchError(j)
    PROVE  IInv'
<1> DEFINE job == jobs[j]
           blind == job.blind \/ \E i \in DOMAIN job.events : job.events[i] # "write"
           new == [job EXCEPT !.events = <<>>, !.error = TRUE, !.timer = TRUE, !.blind = blind]
<1>1. job \in Job /\ JobOK(job, disk, deleted, index, strayed)
  BY JobFacts
<1>2. /\ job.stage = "running" /\ jobs' = [jobs EXCEPT ![j] = new]
      /\ UNCHANGED <<disk, deleted, service, registry>>
  BY DEF WatchError, Set, Running
<1> HIDE DEF job
<1>0. job.blind \in BOOLEAN /\ blind \in BOOLEAN
  BY <1>1 DEF Job
<1> HIDE DEF blind
<1>3. /\ new \in Job /\ new.stage = job.stage /\ new.timer /\ new.version = job.version
      /\ new.request = job.request /\ new.stop = job.stop /\ new.watching = job.watching
      /\ new.syncing = job.syncing /\ new.cancelled = job.cancelled
      /\ new.notified = job.notified /\ new.watched = job.watched
      /\ new.blind = blind /\ new.events = <<>>
  BY <1>1, <1>0, EmptySeq DEF Job
<1> HIDE DEF new
<1>4. Sees(new, disk.present)
  <2>1. DOMAIN job.events = 1 .. Len(job.events)
    BY <1>1 DEF Job
  <2>2. Expects(job) => new.blind
    BY <1>3, <2>1 DEF Expects, blind
  <2>3. Forgets(job) => new.blind \/ Forgets(new)
    BY <1>3, <2>1 DEF Forgets, blind
  <2>4. job.blind => new.blind
    BY <1>3 DEF blind
  <2> QED BY <1>1, <1>2, <1>3, <2>2, <2>3, <2>4 DEF JobOK, Sees, Listening
<1>5. JobOK(new, disk, deleted, index, strayed)
  BY <1>1, <1>2, <1>3, <1>4 DEF JobOK, Shape, InOrder, Current, Quiet, Listening, Calling
<1>6. /\ (Listening(new) <=> Listening(job)) /\ (Calling(new) <=> Calling(job))
      /\ new.stop = "closing" => job.stop = "closing" /\ job.stage # "over"
  BY <1>2, <1>3 DEF Listening, Calling
<1> QED BY <1>2, <1>3, <1>5, <1>6, JobOnly DEF service, job

\* The head of the queue is handled: a creation of the path that is expected is at
\* the head once the map has forgotten the path, and then it is watched again.
LEMMA HandleEventStep ==
    ASSUME IInv, NEW j \in Jobs, HandleEvent(j)
    PROVE  IInv'
<1> DEFINE job == jobs[j]
<1>1. job \in Job /\ JobOK(job, disk, deleted, index, strayed)
  BY JobFacts
<1>2. /\ job.stage = "running" /\ job.events # <<>>
      /\ UNCHANGED <<disk, deleted, service, registry>>
      /\ \E handled \in Handled(job) :
            jobs' = [jobs EXCEPT ![j] = [handled EXCEPT !.events = Tail(@), !.timer = TRUE]]
  BY DEF HandleEvent, Set, Running
<1> HIDE DEF job
<1>3. PICK handled \in Handled(job) :
            jobs' = [jobs EXCEPT ![j] = [handled EXCEPT !.events = Tail(@), !.timer = TRUE]]
  BY <1>2
<1> DEFINE new == [handled EXCEPT !.events = Tail(@), !.timer = TRUE]
<1>4. \/ Head(job.events) = "remove" /\ handled = Forgotten(job)
      \/ disk.present /\ handled = Watched(job)
      \/ handled = [job EXCEPT !.blind = TRUE, !.error = TRUE]
      \/ /\ Head(job.events) # "remove" /\ handled = job
         /\ Head(job.events) = "create" => ~disk.present \/ job.watched
  BY DEF Handled
<1>5. /\ handled \in Job /\ handled.stage = job.stage /\ handled.version = job.version
      /\ handled.request = job.request /\ handled.stop = job.stop
      /\ handled.watching = job.watching /\ handled.syncing = job.syncing
      /\ handled.cancelled = job.cancelled /\ handled.events = job.events
  <2>1. CASE handled = Forgotten(job)
    BY <1>1, <2>1 DEF Job, Forgotten
  <2>2. CASE handled = Watched(job)
    BY <1>1, <2>2 DEF Job, Watched
  <2>3. CASE handled = [job EXCEPT !.blind = TRUE, !.error = TRUE]
    BY <1>1, <2>3 DEF Job
  <2> QED BY <1>1, <1>4, <2>1, <2>2, <2>3
<1>6. /\ job.events \in Seq({"write", "remove", "create"})
      /\ Len(job.events) \in Nat \ {0} /\ Head(job.events) = job.events[1]
      /\ Tail(job.events) \in Seq({"write", "remove", "create"})
      /\ Len(Tail(job.events)) = Len(job.events) - 1
      /\ \A i \in 1 .. Len(job.events) - 1 : Tail(job.events)[i] = job.events[i + 1]
  <2>1. job.events \in Seq({"write", "remove", "create"})
    BY <1>1 DEF Job
  <2> QED BY <1>2, <2>1, HeadTailProperties, EmptySeq
<1>7. /\ new \in Job /\ new.stage = job.stage /\ new.timer /\ new.version = job.version
      /\ new.request = job.request /\ new.stop = job.stop /\ new.watching = job.watching
      /\ new.syncing = job.syncing /\ new.cancelled = job.cancelled
      /\ new.notified = handled.notified /\ new.watched = handled.watched
      /\ new.blind = handled.blind /\ new.events = Tail(job.events)
  BY <1>5, <1>6 DEF Job
<1>8. jobs' = [jobs EXCEPT ![j] = new]
  BY <1>3
<1> HIDE DEF new
<1>9. Sees(new, disk.present)
  <2>1. CASE Head(job.events) = "remove" /\ handled = Forgotten(job)
    <3>1. ~new.watched /\ new.notified = job.notified /\ new.blind = job.blind
      BY <1>1, <1>7, <2>1 DEF Forgotten, Job
    <3>2. ASSUME Expects(job) PROVE Expects(new)
      <4>1. PICK i \in 1 .. Len(job.events) : job.events[i] = "create"
        BY <3>2 DEF Expects
      <4>2. i # 1
        BY <1>6, <2>1, <4>1
      <4>3. i - 1 \in 1 .. Len(new.events) /\ new.events[i - 1] = "create"
        BY <1>6, <1>7, <4>1, <4>2
      <4> QED BY <3>1, <4>3 DEF Expects
    <3> QED BY <1>1, <1>7, <3>1, <3>2 DEF JobOK, Sees, Forgets, Listening
  <2>2. CASE disk.present /\ handled = Watched(job)
    BY <1>1, <1>7, <2>2 DEF Watched, Job, Sees
  <2>3. CASE handled = [job EXCEPT !.blind = TRUE, !.error = TRUE]
    BY <1>1, <1>7, <2>3 DEF Job, Sees
  <2>4. CASE /\ Head(job.events) # "remove" /\ handled = job
             /\ Head(job.events) = "create" => ~disk.present \/ job.watched
    <3>1. new.watched = job.watched /\ new.notified = job.notified /\ new.blind = job.blind
      BY <1>7, <2>4
    <3>2. ASSUME Expects(job), disk.present PROVE Expects(new)
      <4>1. PICK i \in 1 .. Len(job.events) :
               /\ job.events[i] = "create"
               /\ ~job.watched \/ \E k \in 1 .. i - 1 : job.events[k] = "remove"
        BY <3>2 DEF Expects
      <4>2. i # 1
        BY <1>6, <2>4, <3>2, <4>1
      <4>3. i - 1 \in 1 .. Len(new.events) /\ new.events[i - 1] = "create"
        BY <1>6, <1>7, <4>1, <4>2
      <4>4. CASE ~job.watched
        BY <3>1, <4>3, <4>4 DEF Expects
      <4>5. ASSUME NEW k \in 1 .. i - 1, job.events[k] = "remove"
            PROVE  Expects(new)
        <5>1. k # 1
          BY <1>6, <2>4, <4>5
        <5>2. k - 1 \in 1 .. (i - 1) - 1 /\ new.events[k - 1] = "remove"
          BY <1>6, <1>7, <4>1, <4>5, <5>1
        <5> QED BY <4>3, <5>2 DEF Expects
      <4> QED BY <4>1, <4>4, <4>5
    <3>3. ASSUME Forgets(job) PROVE Forgets(new)
      <4>1. CASE ~job.watched
        BY <3>1, <4>1 DEF Forgets
      <4>2. ASSUME NEW i \in 1 .. Len(job.events), job.events[i] = "remove"
            PROVE  Forgets(new)
        <5>1. i # 1
          BY <1>6, <2>4, <4>2
        <5>2. i - 1 \in 1 .. Len(new.events) /\ new.events[i - 1] = "remove"
          BY <1>6, <1>7, <4>2, <5>1
        <5> QED BY <5>2 DEF Forgets
      <4> QED BY <3>3, <4>1, <4>2 DEF Forgets
    <3> QED BY <1>1, <1>7, <3>1, <3>2, <3>3 DEF JobOK, Sees, Listening
  <2> QED BY <1>4, <2>1, <2>2, <2>3, <2>4
<1>10. JobOK(new, disk, deleted, index, strayed)
  BY <1>1, <1>2, <1>7, <1>9 DEF JobOK, Shape, InOrder, Current, Quiet, Listening, Calling
<1>11. /\ (Listening(new) <=> Listening(job)) /\ (Calling(new) <=> Calling(job))
       /\ new.stop = "closing" => job.stop = "closing" /\ job.stage # "over"
  BY <1>2, <1>7 DEF Listening, Calling
<1> QED BY <1>2, <1>7, <1>8, <1>10, <1>11, JobOnly DEF service, job

\* A job of which a goroutine has ended, or that is over with both.
LEMMA EndedOK ==
    ASSUME NEW job \in Job, job.stage = "running", job.cancelled, 0 \in Versions,
           job.request # "none" => job.syncing, job.syncing => job.stop # "none",
           job.stop # "stopped", job.version \in Nat, NEW d \in Disk, d.version \in Nat,
           job.version <= d.version, NEW dead, NEW indexed, NEW stray
    PROVE  /\ Ended(job) \in Job /\ ~Listening(Ended(job)) /\ ~Calling(Ended(job))
           /\ JobOK(Ended(job), d, dead, indexed, stray)
           /\ Ended(job).stop = job.stop
<1>1. CASE job.watching \/ job.syncing
  BY <1>1 DEF Ended, JobOK, Shape, Sees, InOrder, Current, Listening, Calling
<1>2. CASE ~(job.watching \/ job.syncing)
  <2> DEFINE new == [NoJob EXCEPT !.stage = "over", !.stop = job.stop]
  <2>1. Ended(job) = new
    BY <1>2 DEF Ended
  <2>2. /\ new \in Job /\ new.stage = "over" /\ new.stop = job.stop /\ ~new.watching /\ ~new.syncing
        /\ ~new.cancelled /\ new.request = "none" /\ new.version = 0
    BY EmptySeq DEF NoJob, Job
  <2> HIDE DEF new
  <2> QED BY <2>1, <2>2 DEF JobOK, Shape, Sees, InOrder, Current, Listening, Calling
<1> QED BY <1>1, <1>2

LEMMA EndEventsStep ==
    ASSUME IInv, NEW j \in Jobs, EndEvents(j)
    PROVE  IInv'
<1> DEFINE job == jobs[j]
           end == [job EXCEPT !.watching = FALSE]
<1>1. /\ job \in Job /\ JobOK(job, disk, deleted, index, strayed)
      /\ disk \in Disk /\ disk.version \in Nat /\ job.version \in Nat /\ 0 \in Versions
  BY JobFacts
<1>2. /\ job.stage = "running" /\ job.cancelled /\ jobs' = [jobs EXCEPT ![j] = Ended(end)]
      /\ UNCHANGED <<disk, deleted, service, registry>>
  BY DEF EndEvents, Set, Running
<1> HIDE DEF job
<1>3. /\ end \in Job /\ end.stage = "running" /\ end.cancelled /\ end.request = job.request
      /\ end.syncing = job.syncing /\ end.stop = job.stop /\ end.version = job.version
  BY <1>1, <1>2 DEF Job
<1> HIDE DEF end
<1>4. /\ end.request # "none" => end.syncing
      /\ end.syncing => end.stop # "none"
      /\ end.stop # "stopped" /\ end.version <= disk.version
  BY <1>1, <1>2, <1>3 DEF JobOK, Shape, InOrder
<1>5. /\ Ended(end) \in Job /\ ~Listening(Ended(end)) /\ ~Calling(Ended(end))
      /\ JobOK(Ended(end), disk, deleted, index, strayed) /\ Ended(end).stop = job.stop
  BY <1>1, <1>3, <1>4, EndedOK
<1>6. ~Listening(job) /\ job.stage # "over"
  BY <1>2 DEF Listening
<1> QED BY <1>2, <1>5, <1>6, JobOnly DEF service, job

-----------------------------------------------------------------------------
\* runWatchSync: what a trigger sends is of the present version.
LEMMA TakeTriggerStep ==
    ASSUME IInv, NEW j \in Jobs, TakeTrigger(j)
    PROVE  IInv'
<1> DEFINE job == jobs[j]
           taken == [job EXCEPT !.trigger = 0]
           new == IF disk.present \/ PruneMissing THEN Sent(taken) ELSE [taken EXCEPT !.error = TRUE]
<1>1. /\ job \in Job /\ JobOK(job, disk, deleted, index, strayed)
      /\ disk.version \in Versions /\ disk.version \in Nat /\ index \in Nat /\ index <= disk.version
  BY JobFacts
<1>2. /\ job.stage = "running" /\ job.request = "none" /\ job.syncing /\ ~job.cancelled
      /\ jobs' = [jobs EXCEPT ![j] = new]
      /\ UNCHANGED <<disk, deleted, service, registry>>
  <2>1. taken.syncing = job.syncing /\ taken.request = job.request /\ taken.cancelled = job.cancelled
    BY <1>1 DEF Job
  <2> QED BY <2>1 DEF TakeTrigger, Set, Running
<1> HIDE DEF job
<1>3. /\ new \in Job /\ new.stage = job.stage /\ new.stop = job.stop
      /\ new.watching = job.watching /\ new.syncing = job.syncing /\ new.cancelled = job.cancelled
      /\ new.events = job.events /\ new.notified = job.notified /\ new.watched = job.watched
      /\ new.blind = job.blind
      /\ \/ new.request = "sent" /\ new.version = disk.version
         \/ new.request = "none" /\ new.version = job.version /\ new.error
  <2>1. CASE disk.present \/ PruneMissing
    BY <1>1, <2>1 DEF Job, Sent
  <2>2. CASE ~(disk.present \/ PruneMissing)
    BY <1>1, <1>2, <2>2 DEF Job
  <2> QED BY <2>1, <2>2
<1> HIDE DEF new, taken
<1>4. Sees(new, disk.present) /\ Shape(new)
  BY <1>1, <1>2, <1>3 DEF JobOK, Shape, Sees, Expects, Forgets, Listening, Calling
<1>5. JobOK(new, disk, deleted, index, strayed)
  BY <1>1, <1>2, <1>3, <1>4 DEF JobOK, InOrder, Current
<1>6. /\ (Listening(new) <=> Listening(job)) /\ (Calling(new) <=> Calling(job))
      /\ new.stop = "closing" => job.stop = "closing" /\ job.stage # "over"
  BY <1>2, <1>3 DEF Listening, Calling
<1> QED BY <1>2, <1>3, <1>5, <1>6, JobOnly DEF service, job

LEMMA RecordSuccessStep ==
    ASSUME IInv, NEW j \in Jobs, RecordSuccess(j)
    PROVE  IInv'
<1> DEFINE job == jobs[j]
           new == [job EXCEPT !.request = "none", !.version = 0, !.error = FALSE]
<1>1. /\ job \in Job /\ JobOK(job, disk, deleted, index, strayed)
      /\ disk.version \in Nat /\ 0 \in Versions
  BY JobFacts
<1>2. /\ job.stage = "running" /\ job.request = "stored" /\ jobs' = [jobs EXCEPT ![j] = new]
      /\ UNCHANGED <<disk, deleted, service, registry>>
  BY DEF RecordSuccess, Set, Running
<1> HIDE DEF job
<1>3. /\ new \in Job /\ new.stage = job.stage /\ new.stop = job.stop
      /\ new.watching = job.watching /\ new.syncing = job.syncing /\ new.cancelled = job.cancelled
      /\ new.events = job.events /\ new.notified = job.notified /\ new.watched = job.watched
      /\ new.blind = job.blind /\ new.timer = job.timer /\ new.trigger = job.trigger
      /\ new.request = "none" /\ new.version = 0
  BY <1>1 DEF Job
<1> HIDE DEF new
<1>4. Sees(new, disk.present) /\ Shape(new)
  BY <1>1, <1>2, <1>3 DEF JobOK, Shape, Sees, Expects, Forgets, Listening, Calling
<1>5. JobOK(new, disk, deleted, index, strayed)
  BY <1>1, <1>2, <1>3, <1>4 DEF JobOK, InOrder, Current, Listening, Quiet
<1>6. /\ (Listening(new) <=> Listening(job)) /\ (Calling(new) <=> Calling(job))
      /\ new.stop = "closing" => job.stop = "closing" /\ job.stage # "over"
  BY <1>2, <1>3 DEF Listening, Calling
<1> QED BY <1>2, <1>3, <1>5, <1>6, JobOnly DEF service, job

\* The request that is given up is still of a version the path has had.
LEMMA AbandonedOK ==
    ASSUME NEW j \in Jobs, Abandoned(j)
    PROVE  strays' \subseteq strays \cup {jobs[j].version}
BY DEF Abandoned, Stray

LEMMA RecordErrorStep ==
    ASSUME IInv, NEW j \in Jobs, RecordError(j)
    PROVE  IInv'
<1> DEFINE job == jobs[j]
           new == Failed(job)
<1>1. /\ job \in Job /\ JobOK(job, disk, deleted, index, strayed)
      /\ disk.version \in Nat /\ 0 \in Versions
  BY JobFacts
<1>2. /\ job.stage = "running" /\ jobs' = [jobs EXCEPT ![j] = new]
      /\ UNCHANGED <<disk, deleted, index, strayed, registry>>
  BY DEF RecordError, Set, Running
<1>3. strays' \subseteq strays \cup {jobs[j].version}
  BY AbandonedOK DEF RecordError
<1> HIDE DEF job
<1>4. /\ new \in Job /\ new.stage = job.stage /\ new.stop = job.stop
      /\ new.watching = job.watching /\ new.syncing = job.syncing /\ new.cancelled = job.cancelled
      /\ new.events = job.events /\ new.notified = job.notified /\ new.watched = job.watched
      /\ new.blind = job.blind /\ new.request = "none" /\ new.version = 0 /\ new.error
  BY <1>1 DEF Job, Failed
<1> HIDE DEF new
<1>5. Sees(new, disk.present) /\ Shape(new)
  BY <1>1, <1>2, <1>4 DEF JobOK, Shape, Sees, Expects, Forgets, Listening, Calling
<1>6. JobOK(new, disk, deleted, index, strayed)
  BY <1>1, <1>2, <1>4, <1>5 DEF JobOK, InOrder, Current
<1>7. /\ (Listening(new) <=> Listening(job)) /\ (Calling(new) <=> Calling(job))
      /\ new.stop = "closing" => job.stop = "closing" /\ job.stage # "over"
  BY <1>2, <1>4 DEF Listening, Calling
<1> QED BY <1>2, <1>3, <1>4, <1>6, <1>7, JobOnly DEF job

LEMMA EndSyncStep ==
    ASSUME IInv, NEW j \in Jobs, EndSync(j)
    PROVE  IInv'
<1> DEFINE job == jobs[j]
           end == [job EXCEPT !.request = "none", !.version = 0, !.syncing = FALSE]
<1>1. /\ job \in Job /\ JobOK(job, disk, deleted, index, strayed)
      /\ disk \in Disk /\ disk.version \in Nat /\ 0 \in Versions
  BY JobFacts
<1>2. /\ job.stage = "running" /\ job.cancelled /\ jobs' = [jobs EXCEPT ![j] = Ended(end)]
      /\ UNCHANGED <<disk, deleted, index, strayed, registry>>
  BY DEF EndSync, Set, Running
<1>3. strays' \subseteq strays \cup {jobs[j].version}
  BY AbandonedOK DEF EndSync
<1> HIDE DEF job
<1>4. /\ end \in Job /\ end.stage = "running" /\ end.cancelled /\ end.request = "none"
      /\ ~end.syncing /\ end.stop = job.stop /\ end.version = 0
  BY <1>1, <1>2 DEF Job
<1> HIDE DEF end
<1>5. end.stop # "stopped" /\ end.version <= disk.version
  BY <1>1, <1>2, <1>4 DEF JobOK, Shape
<1>6. /\ Ended(end) \in Job /\ ~Listening(Ended(end)) /\ ~Calling(Ended(end))
      /\ JobOK(Ended(end), disk, deleted, index, strayed) /\ Ended(end).stop = job.stop
  BY <1>1, <1>4, <1>5, EndedOK
<1>7. ~Listening(job) /\ job.stage # "over"
  BY <1>2 DEF Listening
<1> QED BY <1>2, <1>3, <1>6, <1>7, JobOnly DEF job

-----------------------------------------------------------------------------
\* The registry changes: a Watch begins, commits or is refused.
LEMMA WatchStep ==
    ASSUME IInv, NEW j \in Jobs, Watch(j)
    PROVE  IInv'
<1> DEFINE job == jobs[j]
           new == [job EXCEPT !.stage = "starting"]
<1>1. /\ job \in Job /\ JobOK(job, disk, deleted, index, strayed)
      /\ jobs \in [Jobs -> Job] /\ closing \in {"open", "waiting", "closed"}
  BY JobFacts DEF IInv, TypeOK
<1>2. /\ job.stage = "none" /\ closing = "open" /\ path = None /\ path' = "reserved"
      /\ jobs' = [jobs EXCEPT ![j] = new]
      /\ UNCHANGED <<disk, deleted, service, watches, closing, again>>
  BY DEF Watch, Set, Reservable
<1> HIDE DEF job
<1>3. /\ new \in Job /\ new.stage = "starting" /\ new.stop = job.stop /\ new.request = job.request
      /\ new.watching = job.watching /\ new.syncing = job.syncing /\ new.cancelled = job.cancelled
      /\ new.version = job.version
  BY <1>1 DEF Job
<1> HIDE DEF new
<1>4. JobOK(new, disk, deleted, index, strayed)
  BY <1>1, <1>2, <1>3 DEF JobOK, Shape, Sees, InOrder, Current, Listening, Calling
<1>5. TypeOK' /\ Scanned' /\ JobsOK'
  <2>1. watches \subseteq Jobs
    BY DEF IInv, TypeOK
  <2> QED BY <1>1, <1>2, <1>3, <1>4, <2>1, JobStep DEF service, job
<1>6. Registry'
  <2>1. /\ watches = {} /\ ~again
        /\ \A i \in Jobs : ~Calling(jobs[i]) /\ ~Listening(jobs[i])
    BY <1>2, WatchManagerAssumption DEF IInv, Registry
  <2>2. jobs'[j] = new /\ \A i \in Jobs \ {j} : jobs'[i] = jobs[i]
    BY <1>1, <1>2
  <2>3. ~Listening(new)
    BY <1>3 DEF Listening
  <2> QED BY <1>1, <1>2, <2>1, <2>2, <2>3, WatchManagerAssumption DEF Registry
<1> QED BY <1>5, <1>6 DEF IInv

LEMMA CommitWatchStep ==
    ASSUME IInv, NEW j \in Jobs, CommitWatch(j)
    PROVE  IInv'
<1> DEFINE job == jobs[j]
           new == Started(job)
<1>1. /\ job \in Job /\ JobOK(job, disk, deleted, index, strayed)
      /\ jobs \in [Jobs -> Job] /\ watches \subseteq Jobs /\ closing \in {"open", "waiting", "closed"}
  BY JobFacts DEF IInv, TypeOK
<1>2. /\ job.stage = "armed" /\ closing = "open" /\ path = "reserved"
      /\ path' = j /\ watches' = watches \cup {j}
      /\ jobs' = [jobs EXCEPT ![j] = new]
      /\ UNCHANGED <<disk, deleted, service, closing, again>>
  BY DEF CommitWatch, Set, Committable
<1> HIDE DEF job
<1>3. /\ new \in Job /\ new.stage = "running" /\ new.stop = job.stop /\ new.request = job.request
      /\ new.watching = job.watching /\ new.syncing /\ new.cancelled = job.cancelled
      /\ new.version = job.version /\ new.timer /\ new.events = job.events
      /\ new.notified = job.notified /\ new.watched = job.watched /\ new.blind = job.blind
  BY <1>1 DEF Job, Started
<1> HIDE DEF new
<1>4. Sees(new, disk.present) /\ Shape(new)
  BY <1>1, <1>2, <1>3 DEF JobOK, Shape, Sees, Expects, Forgets, Listening, Calling
<1>5. JobOK(new, disk, deleted, index, strayed)
  BY <1>1, <1>2, <1>3, <1>4 DEF JobOK, Shape, InOrder, Current, Quiet
<1>6. TypeOK' /\ Scanned' /\ JobsOK'
  BY <1>1, <1>2, <1>3, <1>5, JobStep DEF service, job
<1>7. Registry'
  <2>1. /\ watches = {} /\ ~again /\ \A i \in Jobs : ~Listening(jobs[i])
        /\ \A i \in Jobs : Calling(jobs[i]) => i = j
    <3>1. Calling(job)
      BY <1>2 DEF Calling
    <3> QED BY <1>2, <3>1 DEF IInv, Registry, job
  <2>2. jobs'[j] = new /\ \A i \in Jobs \ {j} : jobs'[i] = jobs[i]
    BY <1>1, <1>2
  <2>3. Listening(new) /\ ~Calling(new)
    BY <1>1, <1>2, <1>3 DEF Listening, Calling, JobOK, Shape
  <2>4. \A i \in Jobs : ~Calling(jobs'[i]) /\ (Listening(jobs'[i]) <=> i = j)
    BY <2>1, <2>2, <2>3
  <2>5. j # None /\ j # "reserved"
    BY WatchManagerAssumption
  <2> QED BY <1>2, <2>1, <2>4, <2>5 DEF Registry
<1> QED BY <1>6, <1>7 DEF IInv

LEMMA RefuseStep ==
    ASSUME IInv, NEW j \in Jobs, Refuse(j)
    PROVE  IInv'
<1> DEFINE job == jobs[j]
           new == [NoJob EXCEPT !.stage = "over"]
<1>1. /\ JobOK(job, disk, deleted, index, strayed) /\ 0 \in Versions /\ disk.version \in Nat
      /\ jobs \in [Jobs -> Job] /\ watches \subseteq Jobs
      /\ path \in Jobs \cup {None, "reserved"} /\ closing \in {"open", "waiting", "closed"}
  BY JobFacts DEF IInv, TypeOK
<1>2. /\ Calling(job) /\ path' = Release /\ jobs' = [jobs EXCEPT ![j] = new]
      /\ UNCHANGED <<disk, deleted, index, strayed, watches, closing, again>>
  BY DEF Refuse, Set, Calling
<1>3. strays' \subseteq strays \cup {jobs[j].version}
  BY AbandonedOK DEF Refuse
<1>4. /\ new \in Job /\ new.stage = "over" /\ new.stop = "none" /\ ~new.watching /\ ~new.syncing
      /\ ~new.cancelled /\ new.request = "none" /\ new.version = 0
  BY <1>1, EmptySeq DEF NoJob, Job
<1> HIDE DEF new
<1>5. JobOK(new, disk, deleted, index, strayed)
  BY <1>1, <1>4 DEF JobOK, Shape, Sees, InOrder, Current, Listening, Calling
<1>6. path' \in Jobs \cup {None, "reserved"}
  BY <1>1, <1>2 DEF Release
<1>7. TypeOK' /\ Scanned' /\ JobsOK'
  BY <1>1, <1>2, <1>3, <1>4, <1>5, <1>6, JobStep
<1>8. Registry'
  <2>1. jobs'[j] = new /\ \A i \in Jobs \ {j} : jobs'[i] = jobs[i]
    BY <1>1, <1>2
  <2>2. ~Listening(new) /\ ~Calling(new) /\ ~Listening(job)
    BY <1>2, <1>4 DEF Listening, Calling
  <2>3. \A i \in Jobs : ~Calling(jobs'[i]) /\ (Listening(jobs'[i]) <=> Listening(jobs[i]))
    BY <1>2, <2>1, <2>2 DEF IInv, Registry
  <2>4. path' = IF path = "reserved" THEN None ELSE path
    BY <1>2 DEF Release
  <2>5. watches' = {path'} \ {None, "reserved"}
    BY <1>2, <2>4 DEF IInv, Registry
  <2>6. closing' = "closed" => \A i \in Jobs : jobs'[i].stop = "closing" => jobs'[i].stage = "over"
    BY <1>2, <1>4, <2>1 DEF IInv, Registry
  <2> QED BY <1>2, <2>3, <2>4, <2>5, <2>6 DEF IInv, Registry
<1> QED BY <1>7, <1>8 DEF IInv

\* A job leaves the registry: it is cancelled, and nobody else listens.
LEMMA LeaveRegistry ==
    ASSUME IInv, NEW j \in Jobs, NEW new, jobs' = [jobs EXCEPT ![j] = new],
           Listening(jobs[j]), ~Listening(new), ~Calling(new),
           path' = None, watches' = watches \ {j}, closing' = closing, again' = again
    PROVE  Registry'
<1>1. jobs \in [Jobs -> Job] /\ Registry
  BY DEF IInv, TypeOK
<1>2. j \in watches /\ path = j /\ watches = {j} /\ closing = "open" /\ ~again
  BY <1>1, WatchManagerAssumption DEF Registry
<1>3. \A i \in Jobs : ~Calling(jobs'[i]) /\ ~Listening(jobs'[i])
  BY <1>1, <1>2, WatchManagerAssumption DEF Registry
<1> QED BY <1>2, <1>3 DEF Registry

\* Cancelled by Stop or Close, a job that listens runs on until it notices.
LEMMA CancelledOK ==
    ASSUME NEW job \in Job, Listening(job), NEW stop \in {"waiting", "closing"},
           NEW d, NEW dead, NEW indexed, NEW stray, JobOK(job, d, dead, indexed, stray)
    PROVE  LET new == [Cancelled(job) EXCEPT !.stop = stop] IN
           /\ new \in Job /\ new.stop = stop /\ new.stage = "running"
           /\ ~Listening(new) /\ ~Calling(new)
           /\ JobOK(new, d, dead, indexed, stray)
<1> DEFINE new == [Cancelled(job) EXCEPT !.stop = stop]
<1>1. /\ new \in Job /\ new.stop = stop /\ new.stage = job.stage /\ new.cancelled
      /\ new.watching = job.watching /\ new.syncing = job.syncing
      /\ new.request = job.request /\ new.version = job.version
  BY EmptySeq DEF Cancelled, Job
<1> HIDE DEF new
<1>2. JobOK(new, d, dead, indexed, stray)
  BY <1>1 DEF JobOK, Shape, Sees, InOrder, Current, Listening, Calling
<1>3. ~Listening(new) /\ ~Calling(new) /\ new.stage = "running"
  BY <1>1 DEF Listening, Calling
<1> QED BY <1>1, <1>2, <1>3 DEF new

LEMMA DetachStep ==
    ASSUME IInv, NEW j \in Jobs, Detach(j)
    PROVE  IInv'
<1> DEFINE job == jobs[j]
           end == [Cancelled(job) EXCEPT !.request = "none", !.version = 0, !.syncing = FALSE]
<1>1. /\ job \in Job /\ JobOK(job, disk, deleted, index, strayed)
      /\ disk \in Disk /\ disk.version \in Nat /\ 0 \in Versions
      /\ watches \subseteq Jobs /\ path \in Jobs \cup {None, "reserved"}
      /\ closing \in {"open", "waiting", "closed"}
  BY JobFacts DEF IInv, TypeOK
<1>2. /\ job.stage = "running" /\ jobs' = [jobs EXCEPT ![j] = Ended(end)]
      /\ path' = IF j \in watches THEN None ELSE path
      /\ watches' = watches \ {j}
      /\ UNCHANGED <<disk, deleted, service, closing, again>>
  BY DEF Detach, Detached, Set, Running
<1> HIDE DEF job
<1>3. /\ end \in Job /\ end.stage = "running" /\ end.cancelled /\ end.request = "none"
      /\ ~end.syncing /\ end.stop = job.stop /\ end.version = 0
  BY <1>1, <1>2, EmptySeq DEF Job, Cancelled
<1> HIDE DEF end
<1>4. end.stop # "stopped" /\ end.version <= disk.version
  BY <1>1, <1>2, <1>3 DEF JobOK, Shape
<1>5. /\ Ended(end) \in Job /\ ~Listening(Ended(end)) /\ ~Calling(Ended(end))
      /\ JobOK(Ended(end), disk, deleted, index, strayed) /\ Ended(end).stop = job.stop
  BY <1>1, <1>3, <1>4, EndedOK
<1>6. TypeOK' /\ Scanned' /\ JobsOK'
  BY <1>1, <1>2, <1>5, JobStep DEF service, job
<1>7. Registry'
  <2>1. CASE j \in watches
    <3>1. Listening(jobs[j])
      BY <2>1 DEF IInv, Registry
    <3> QED BY <1>2, <1>5, <2>1, <3>1, LeaveRegistry
  <2>2. CASE j \notin watches
    <3>1. ~Listening(job) /\ job.stage # "over"
      BY <1>2, <2>2 DEF IInv, Registry, job
    <3>2. UNCHANGED registry
      BY <1>2, <2>2 DEF registry
    <3> QED BY <1>2, <1>5, <3>1, <3>2, RegistryKept DEF job
  <2> QED BY <2>1, <2>2
<1> QED BY <1>6, <1>7 DEF IInv

LEMMA StopStep ==
    ASSUME IInv, NEW j \in Jobs, Stop(j)
    PROVE  IInv'
<1> DEFINE new == [Cancelled(jobs[j]) EXCEPT !.stop = "waiting"]
<1>1. /\ jobs[j] \in Job /\ JobOK(jobs[j], disk, deleted, index, strayed)
      /\ watches \subseteq Jobs /\ closing \in {"open", "waiting", "closed"}
  BY JobFacts DEF IInv, TypeOK
<1>2. /\ Listening(jobs[j]) /\ jobs' = [jobs EXCEPT ![j] = new]
      /\ path' = None /\ watches' = watches \ {j}
      /\ UNCHANGED <<disk, deleted, service, closing, again>>
  BY DEF Stop, Set, IInv, Registry
<1>3. /\ new \in Job /\ ~Listening(new) /\ ~Calling(new)
      /\ JobOK(new, disk, deleted, index, strayed)
  BY <1>1, <1>2, CancelledOK
<1> HIDE DEF new
<1>4. TypeOK' /\ Scanned' /\ JobsOK'
  BY <1>1, <1>2, <1>3, JobStep DEF service
<1>5. Registry'
  BY <1>2, <1>3, LeaveRegistry
<1> QED BY <1>4, <1>5 DEF IInv

LEMMA StoppedStep ==
    ASSUME IInv, NEW j \in Jobs, Stopped(j)
    PROVE  IInv'
<1> DEFINE job == jobs[j]
           new == [job EXCEPT !.stop = "stopped"]
<1>1. job \in Job /\ JobOK(job, disk, deleted, index, strayed)
  BY JobFacts
<1>2. /\ job.stage = "over" /\ jobs' = [jobs EXCEPT ![j] = new]
      /\ UNCHANGED <<disk, deleted, service, registry>>
  BY DEF Stopped, Set, Done
<1> HIDE DEF job
<1>3. /\ new \in Job /\ new.stage = job.stage /\ new.stop = "stopped" /\ new.request = job.request
      /\ new.watching = job.watching /\ new.syncing = job.syncing /\ new.cancelled = job.cancelled
      /\ new.version = job.version
  BY <1>1 DEF Job
<1> HIDE DEF new
<1>4. JobOK(new, disk, deleted, index, strayed)
  BY <1>1, <1>2, <1>3 DEF JobOK, Shape, Sees, InOrder, Current, Listening, Calling
<1>5. (Listening(new) <=> Listening(job)) /\ (Calling(new) <=> Calling(job)) /\ new.stop # "closing"
  BY <1>2, <1>3 DEF Listening, Calling
<1> QED BY <1>2, <1>3, <1>4, <1>5, JobOnly DEF service, job

\* Close cancels whoever listens, and its answer waits for them.
LEMMA CloseStep ==
    ASSUME IInv, Close
    PROVE  IInv'
<1> DEFINE new(j) == [Cancelled(jobs[j]) EXCEPT !.stop = "closing"]
<1>1. /\ closing' = "waiting" /\ path' = None /\ watches' = {}
      /\ UNCHANGED <<disk, deleted, index, strays, strayed, again>>
      /\ jobs' = [j \in Jobs |-> IF j \in watches THEN new(j) ELSE jobs[j]]
  BY DEF Close, service
<1>2. ASSUME NEW j \in Jobs
      PROVE  /\ jobs'[j] \in Job /\ JobOK(jobs'[j], disk, deleted, index, strayed)
             /\ ~Listening(jobs'[j]) /\ (Calling(jobs'[j]) => Calling(jobs[j]))
  <2>1. /\ jobs[j] \in Job /\ JobOK(jobs[j], disk, deleted, index, strayed)
        /\ j \in watches <=> Listening(jobs[j])
    BY JobFacts DEF IInv, Registry
  <2>2. CASE j \in watches
    <3>1. /\ new(j) \in Job /\ JobOK(new(j), disk, deleted, index, strayed)
          /\ ~Listening(new(j)) /\ ~Calling(new(j))
      BY <2>1, <2>2, CancelledOK
    <3> QED BY <1>1, <2>2, <3>1
  <2>3. CASE j \notin watches
    BY <1>1, <2>1, <2>3
  <2> QED BY <2>2, <2>3
<1> HIDE DEF new
<1>3. jobs' \in [Jobs -> Job]
  BY <1>1, <1>2
<1>4. TypeOK'
  BY <1>1, <1>3 DEF IInv, TypeOK
<1>5. Scanned' /\ JobsOK'
  BY <1>1, <1>2 DEF IInv, Scanned, JobsOK
<1>6. Registry'
  <2>1. \A i, j \in Jobs : Calling(jobs'[i]) /\ Calling(jobs'[j]) => i = j
    BY <1>2 DEF IInv, Registry
  <2> QED BY <1>1, <1>2, <2>1 DEF Registry
<1> QED BY <1>4, <1>5, <1>6 DEF IInv

LEMMA ClosedStep ==
    ASSUME IInv, Closed
    PROVE  IInv'
<1>1. /\ closing = "waiting" /\ closing' = "closed"
      /\ \A j \in Jobs : jobs[j].stop = "closing" => jobs[j].stage = "over"
      /\ UNCHANGED <<disk, deleted, service, jobs, path, watches, again>>
  BY DEF Closed, Done
<1>2. TypeOK' /\ Scanned' /\ JobsOK'
  BY <1>1 DEF IInv, TypeOK, Scanned, JobsOK, service
<1>3. Registry'
  BY <1>1 DEF IInv, Registry
<1> QED BY <1>2, <1>3 DEF IInv

\* A later Close changes nothing.
LEMMA CloseAgainStep ==
    ASSUME IInv, CloseAgain
    PROVE  IInv'
<1>1. closing # "open" /\ again' = TRUE /\ UNCHANGED <<disk, deleted, service, jobs, path, watches, closing>>
  BY DEF CloseAgain
<1>2. TypeOK' /\ Scanned' /\ JobsOK'
  BY <1>1 DEF IInv, TypeOK, Scanned, JobsOK, service
<1>3. Registry'
  BY <1>1 DEF IInv, Registry
<1> QED BY <1>2, <1>3 DEF IInv

-----------------------------------------------------------------------------
\* The service.

\* The index changes for the one who listens or calls, or on behalf of nobody.
LEMMA IndexStep ==
    ASSUME IInv, UNCHANGED <<disk, deleted, registry>>,
           jobs' \in [Jobs -> Job], strays' \subseteq strays,
           index' \in Versions, index' <= disk.version, strayed' \in BOOLEAN,
           \A j \in Jobs : JobOK(jobs'[j], disk, deleted, index', strayed'),
           \A j \in Jobs : /\ jobs'[j].stage = jobs[j].stage
                           /\ jobs'[j].cancelled = jobs[j].cancelled
                           /\ jobs'[j].stop = jobs[j].stop
    PROVE  IInv'
<1>1. TypeOK'
  BY DEF IInv, TypeOK, registry
<1>2. Scanned' /\ JobsOK'
  BY DEF IInv, Scanned, JobsOK
<1>3. \A j \in Jobs : /\ Listening(jobs'[j]) <=> Listening(jobs[j])
                      /\ Calling(jobs'[j]) <=> Calling(jobs[j])
  BY DEF Listening, Calling
<1>4. Registry'
  BY <1>3 DEF IInv, Registry, registry
<1> QED BY <1>1, <1>2, <1>4 DEF IInv

\* What nobody waits for may take the index anywhere: it is strayed then.
LEMMA StrayOK ==
    ASSUME NEW job, NEW d, NEW dead, NEW indexed, NEW stray, NEW other,
           JobOK(job, d, dead, indexed, stray)
    PROVE  JobOK(job, d, dead, other, TRUE)
BY DEF JobOK, InOrder, Current

LEMMA StoreStep ==
    ASSUME IInv, NEW j \in Jobs, Store(j)
    PROVE  IInv'
<1> DEFINE job == jobs[j]
           new == [job EXCEPT !.request = "stored"]
<1>1. /\ job \in Job /\ JobOK(job, disk, deleted, index, strayed)
      /\ job.version \in Versions /\ job.version \in Nat /\ disk.version \in Nat
      /\ index \in Nat /\ jobs \in [Jobs -> Job]
  BY JobFacts DEF IInv, TypeOK
<1>2. /\ job.request = "sent" /\ index' = job.version
      /\ strayed' = (Running(j) /\ ~Live(j)) /\ jobs' = [jobs EXCEPT ![j] = new]
      /\ UNCHANGED <<disk, deleted, strays, registry>>
  BY DEF Store, Stored, Set
<1>3. strayed' <=> job.stage = "running" /\ job.cancelled
  BY <1>2 DEF Running, Live, IInv, Registry, Listening
<1>4. strayed' \in BOOLEAN
  BY <1>2
<1>5. Listening(job) \/ Calling(job) \/ strayed'
  BY <1>1, <1>2, <1>3 DEF JobOK, Shape, Listening, Calling
<1>6. \A i \in Jobs \ {j} : ~strayed' => ~Listening(jobs[i]) /\ ~Calling(jobs[i])
  <2> SUFFICES ASSUME NEW i \in Jobs \ {j}, ~strayed' PROVE ~Listening(jobs[i]) /\ ~Calling(jobs[i])
    OBVIOUS
  <2>1. Registry
    BY DEF IInv
  <2>2. CASE Listening(job)
    BY <2>1, <2>2, WatchManagerAssumption DEF Registry
  <2>3. CASE Calling(job)
    BY <2>1, <2>3, WatchManagerAssumption DEF Registry
  <2> QED BY <1>5, <2>2, <2>3
<1> HIDE DEF job
<1>7. /\ new \in Job /\ new.stage = job.stage /\ new.stop = job.stop /\ new.request = "stored"
      /\ new.watching = job.watching /\ new.syncing = job.syncing /\ new.cancelled = job.cancelled
      /\ new.version = job.version /\ new.timer = job.timer /\ new.trigger = job.trigger
      /\ new.events = job.events /\ new.notified = job.notified /\ new.watched = job.watched
      /\ new.blind = job.blind
  BY <1>1 DEF Job
<1> HIDE DEF new
<1>8. JobOK(new, disk, deleted, index', strayed')
  <2>1. Sees(new, disk.present) /\ Shape(new)
    BY <1>1, <1>2, <1>7 DEF JobOK, Shape, Sees, Expects, Forgets, Listening, Calling
  <2>2. InOrder(new, disk.version, index', strayed')
    BY <1>1, <1>7 DEF JobOK, InOrder
  <2>3. Current(job, disk.version, index, strayed) => Current(new, disk.version, index', strayed')
    BY <1>2, <1>7 DEF Current, Listening, Quiet
  <2> QED BY <1>1, <2>1, <2>2, <2>3 DEF JobOK
<1>9. ASSUME NEW i \in Jobs \ {j} PROVE JobOK(jobs'[i], disk, deleted, index', strayed')
  <2>1. jobs'[i] = jobs[i] /\ JobOK(jobs[i], disk, deleted, index, strayed)
    BY <1>1, <1>2, JobFacts
  <2>2. CASE strayed' = TRUE
    BY <2>1, <2>2, StrayOK
  <2>3. CASE strayed' = FALSE
    <3>1. ~Listening(jobs[i]) /\ ~Calling(jobs[i])
      BY <1>6, <2>3
    <3> QED BY <2>1, <3>1 DEF JobOK, InOrder, Current
  <2> QED BY <1>4, <2>2, <2>3
<1>10. \A i \in Jobs : /\ JobOK(jobs'[i], disk, deleted, index', strayed') /\ jobs'[i] \in Job
                       /\ jobs'[i].stage = jobs[i].stage
                       /\ jobs'[i].cancelled = jobs[i].cancelled
                       /\ jobs'[i].stop = jobs[i].stop
  BY <1>1, <1>2, <1>7, <1>8, <1>9 DEF job
<1>11. jobs' \in [Jobs -> Job] /\ index' \in Versions /\ index' <= disk.version
  BY <1>1, <1>2, <1>7 DEF JobOK, InOrder
<1> QED BY <1>2, <1>4, <1>10, <1>11, IndexStep

LEMMA StrayStep ==
    ASSUME IInv, NEW version \in Versions, StoreStray(version) \/ DropStray(version)
    PROVE  IInv'
<1>1. /\ version \in strays /\ strays' = strays \ {version}
      /\ UNCHANGED <<disk, deleted, jobs, registry>>
      /\ \/ index' = version /\ strayed' = TRUE
         \/ UNCHANGED <<index, strayed>>
  BY DEF StoreStray, DropStray, Stored
<1>2. /\ version <= disk.version /\ index <= disk.version
      /\ jobs \in [Jobs -> Job] /\ index \in Versions /\ strayed \in BOOLEAN
      /\ \A j \in Jobs : JobOK(jobs[j], disk, deleted, index, strayed)
  BY <1>1 DEF IInv, Scanned, TypeOK, JobsOK
<1>3. \A j \in Jobs : JobOK(jobs[j], disk, deleted, index', strayed')
  BY <1>1, <1>2, StrayOK
<1>4. index' \in Versions /\ index' <= disk.version /\ strayed' \in BOOLEAN
  BY <1>1, <1>2
<1> QED BY <1>1, <1>2, <1>3, <1>4, IndexStep

LEMMA SyncStep ==
    ASSUME IInv, Sync
    PROVE  IInv'
<1>1. /\ strays' = strays \cup {disk.version}
      /\ UNCHANGED <<disk, deleted, index, strayed, jobs, registry>>
  BY DEF Sync, Stray
<1>2. disk.version \in Versions /\ disk.version <= disk.version
  BY WatchManagerAssumption DEF IInv, TypeOK, Disk, Versions
<1> QED BY <1>1, <1>2 DEF IInv, TypeOK, Registry, Scanned, JobsOK, registry

LEMMA DeleteNamespaceStep ==
    ASSUME IInv, DeleteNamespace
    PROVE  IInv'
<1>1. deleted' = TRUE /\ UNCHANGED <<disk, service, jobs, registry>>
  BY DEF DeleteNamespace
<1>2. TypeOK' /\ Registry' /\ Scanned'
  BY <1>1 DEF IInv, TypeOK, Registry, Scanned, service, registry
<1>3. JobsOK'
  BY <1>1 DEF IInv, JobsOK, JobOK, service
<1> QED BY <1>2, <1>3 DEF IInv

-----------------------------------------------------------------------------
\* The file system: whoever listens sees the change, or is blind.

\* A job with one event more.
LEMMA NotifiedOK ==
    ASSUME NEW job \in Job, NEW event \in {"write", "remove", "create"}
    PROVE  LET new == [job EXCEPT !.events = Append(@, event)] IN
           /\ new \in Job /\ new.stage = job.stage /\ new.stop = job.stop /\ new.request = job.request
           /\ new.watching = job.watching /\ new.syncing = job.syncing
           /\ new.cancelled = job.cancelled /\ new.version = job.version
           /\ new.notified = job.notified /\ new.watched = job.watched /\ new.blind = job.blind
           /\ Len(job.events) \in Nat /\ Len(new.events) = Len(job.events) + 1
           /\ new.events[Len(job.events) + 1] = event
           /\ \A i \in 1 .. Len(job.events) : new.events[i] = job.events[i]
<1> DEFINE new == [job EXCEPT !.events = Append(@, event)]
<1>1. job.events \in Seq({"write", "remove", "create"})
  BY DEF Job
<1>2. /\ Append(job.events, event) \in Seq({"write", "remove", "create"})
      /\ Len(job.events) \in Nat /\ Len(Append(job.events, event)) = Len(job.events) + 1
      /\ Append(job.events, event)[Len(job.events) + 1] = event
      /\ \A i \in 1 .. Len(job.events) : Append(job.events, event)[i] = job.events[i]
  BY <1>1, AppendProperties
<1>3. /\ new \in Job /\ new.stage = job.stage /\ new.stop = job.stop /\ new.request = job.request
      /\ new.watching = job.watching /\ new.syncing = job.syncing
      /\ new.cancelled = job.cancelled /\ new.version = job.version
      /\ new.notified = job.notified /\ new.watched = job.watched /\ new.blind = job.blind
      /\ new.events = Append(job.events, event)
  BY <1>2 DEF Job
<1> QED BY <1>2, <1>3

\* The version moves on, and what was in order stays so.
LEMMA VersionStep ==
    ASSUME IInv, UNCHANGED <<deleted, service, registry>>,
           disk' \in Disk, disk'.version = disk.version + 1, jobs' \in [Jobs -> Job],
           \A j \in Jobs : /\ Shape(jobs'[j]) /\ Sees(jobs'[j], disk'.present)
                           /\ jobs'[j].stage = jobs[j].stage
                           /\ jobs'[j].cancelled = jobs[j].cancelled
                           /\ jobs'[j].stop = jobs[j].stop
                           /\ jobs'[j].request = jobs[j].request
                           /\ jobs'[j].version = jobs[j].version
                           /\ Listening(jobs'[j]) => jobs'[j].blind \/ jobs'[j].events # <<>>
    PROVE  IInv'
<1>1. TypeOK'
  BY DEF IInv, TypeOK, service, registry
<1>2. disk.version \in Nat /\ index \in Nat /\ strays \subseteq Nat
  BY WatchManagerAssumption DEF IInv, TypeOK, Disk, Versions
<1>3. Scanned'
  <2>1. index <= disk.version /\ \A version \in strays : version <= disk.version
    BY DEF IInv, Scanned
  <2>2. index' = index /\ strays' = strays
    BY DEF service
  <2>3. index <= disk.version + 1 /\ \A version \in strays : version <= disk.version + 1
    BY <1>2, <2>1
  <2> QED BY <2>2, <2>3 DEF Scanned
<1>4. \A j \in Jobs : /\ Listening(jobs'[j]) <=> Listening(jobs[j])
                      /\ Calling(jobs'[j]) <=> Calling(jobs[j])
  BY DEF Listening, Calling
<1>5. Registry'
  BY <1>4 DEF IInv, Registry, registry
<1>6. ASSUME NEW j \in Jobs PROVE JobOK(jobs'[j], disk', deleted, index, strayed)
  <2>1. InOrder(jobs[j], disk.version, index, strayed) /\ jobs[j].version \in Nat
    BY JobFacts DEF JobOK
  <2>2. InOrder(jobs'[j], disk'.version, index, strayed)
    BY <1>2, <1>4, <2>1 DEF InOrder
  <2>3. Current(jobs'[j], disk'.version, index, strayed)
    BY DEF Current, Quiet
  <2> QED BY <2>2, <2>3 DEF JobOK
<1>7. JobsOK'
  BY <1>6 DEF JobsOK, service
<1> QED BY <1>1, <1>3, <1>5, <1>7 DEF IInv

LEMMA WriteStep ==
    ASSUME IInv, Write
    PROVE  IInv'
<1>1. /\ disk.present /\ disk.version < MaxEdits /\ disk' = [disk EXCEPT !.version = @ + 1]
      /\ UNCHANGED <<deleted, service, registry>>
      /\ jobs' = [j \in Jobs |-> IF jobs[j].notified THEN [jobs[j] EXCEPT !.events = Append(@, "write")]
                                                     ELSE jobs[j]]
  BY DEF Write, Notify
<1>2. disk' \in Disk /\ disk'.version = disk.version + 1 /\ disk'.present
  BY <1>1, WatchManagerAssumption DEF IInv, TypeOK, Disk, Versions
<1>3. ASSUME NEW j \in Jobs
      PROVE  /\ jobs'[j] \in Job /\ Shape(jobs'[j]) /\ Sees(jobs'[j], TRUE)
             /\ jobs'[j].stage = jobs[j].stage
             /\ jobs'[j].cancelled = jobs[j].cancelled
             /\ jobs'[j].stop = jobs[j].stop
             /\ jobs'[j].request = jobs[j].request
             /\ jobs'[j].version = jobs[j].version
             /\ Listening(jobs'[j]) => jobs'[j].blind \/ jobs'[j].events # <<>>
  <2> DEFINE job == jobs[j]
             new == [job EXCEPT !.events = Append(@, "write")]
  <2>1. job \in Job /\ Shape(job) /\ Sees(job, TRUE)
    BY <1>1, JobFacts DEF JobOK
  <2>2. CASE job.notified
    <3>1. jobs'[j] = new
      BY <1>1, <2>2
    <3> HIDE DEF job
    <3>2. /\ new \in Job /\ new.stage = job.stage /\ new.stop = job.stop /\ new.request = job.request
          /\ new.watching = job.watching /\ new.syncing = job.syncing
          /\ new.cancelled = job.cancelled /\ new.version = job.version
          /\ new.notified = job.notified
          /\ Len(job.events) \in Nat /\ Len(new.events) = Len(job.events) + 1
      BY <2>1, NotifiedOK
    <3> HIDE DEF new
    <3>3. new.events # <<>>
      BY <3>2, EmptySeq
    <3>4. Shape(new) /\ Sees(new, TRUE)
      BY <2>1, <2>2, <3>2 DEF Shape, Sees, Listening, Calling, job
    <3> QED BY <3>1, <3>2, <3>3, <3>4 DEF job
  <2>3. CASE ~job.notified
    <3>1. jobs'[j] = job
      BY <1>1, <2>3
    <3>2. Listening(job) => job.blind \/ job.events # <<>>
      BY <2>1, <2>3, EmptySeq DEF Sees, Expects
    <3> QED BY <2>1, <3>1, <3>2
  <2> QED BY <2>2, <2>3
<1>4. jobs' \in [Jobs -> Job]
  BY <1>1, <1>3
<1>5. disk'.present = TRUE
  BY <1>2 DEF Disk
<1> QED BY <1>1, <1>2, <1>3, <1>4, <1>5, VersionStep

\* Who listens or is armed is one who sees the path removed or made.
LEMMA OpenFacts ==
    ASSUME NEW j \in Jobs, Shape(jobs[j]), jobs[j].stage = "armed" \/ Listening(jobs[j])
    PROVE  j \in Open
BY DEF Open, Shape, Listening

LEMMA RemoveStep ==
    ASSUME IInv, Remove
    PROVE  IInv'
<1>1. /\ disk.version < MaxEdits /\ disk' = [version |-> disk.version + 1, present |-> FALSE]
      /\ UNCHANGED <<deleted, service, registry>>
      /\ jobs' = [j \in Jobs |-> [(IF j \in Open THEN [jobs[j] EXCEPT !.events = Append(@, "remove")]
                                                 ELSE jobs[j]) EXCEPT !.notified = FALSE]]
  BY DEF Remove, Notify
<1>2. disk' \in Disk /\ disk'.version = disk.version + 1 /\ disk'.present = FALSE
  BY <1>1, WatchManagerAssumption DEF IInv, TypeOK, Disk, Versions
<1>3. ASSUME NEW j \in Jobs
      PROVE  /\ jobs'[j] \in Job /\ Shape(jobs'[j]) /\ Sees(jobs'[j], FALSE)
             /\ jobs'[j].stage = jobs[j].stage
             /\ jobs'[j].cancelled = jobs[j].cancelled
             /\ jobs'[j].stop = jobs[j].stop
             /\ jobs'[j].request = jobs[j].request
             /\ jobs'[j].version = jobs[j].version
             /\ Listening(jobs'[j]) => jobs'[j].blind \/ jobs'[j].events # <<>>
  <2> DEFINE job == jobs[j]
             seen == IF j \in Open THEN [job EXCEPT !.events = Append(@, "remove")] ELSE job
             new == [seen EXCEPT !.notified = FALSE]
  <2>1. job \in Job /\ Shape(job)
    BY JobFacts DEF JobOK
  <2>2. jobs'[j] = new
    BY <1>1
  <2>3. j \notin Open => ~(job.stage = "armed" \/ Listening(job))
    BY <2>1, OpenFacts
  <2> HIDE DEF job
  <2>4. /\ seen \in Job /\ seen.stage = job.stage /\ seen.stop = job.stop
        /\ seen.request = job.request
        /\ seen.watching = job.watching /\ seen.syncing = job.syncing
        /\ seen.cancelled = job.cancelled /\ seen.version = job.version
        /\ Len(job.events) \in Nat
        /\ j \in Open => /\ Len(seen.events) = Len(job.events) + 1
                         /\ seen.events[Len(job.events) + 1] = "remove"
    <3>1. CASE j \in Open
      BY <2>1, <3>1, NotifiedOK
    <3>2. CASE j \notin Open
      <4>1. Len(job.events) \in Nat
        BY <2>1 DEF Job
      <4> QED BY <2>1, <3>2, <4>1
    <3> QED BY <3>1, <3>2
  <2> HIDE DEF seen
  <2>5. /\ new \in Job /\ new.stage = seen.stage /\ new.stop = seen.stop
        /\ new.request = seen.request
        /\ new.watching = seen.watching /\ new.syncing = seen.syncing
        /\ new.cancelled = seen.cancelled /\ new.version = seen.version
        /\ new.events = seen.events
    BY <2>4 DEF Job
  <2> HIDE DEF new
  <2>6. j \in Open => new.events # <<>> /\ Forgets(new)
    <3> SUFFICES ASSUME j \in Open PROVE new.events # <<>> /\ Forgets(new)
      OBVIOUS
    <3>1. Len(job.events) + 1 \in 1 .. Len(new.events)
      BY <2>4, <2>5
    <3>2. new.events[Len(job.events) + 1] = "remove"
      BY <2>4, <2>5
    <3>3. Forgets(new)
      BY <3>1, <3>2 DEF Forgets
    <3>4. new.events # <<>>
      BY <2>4, <2>5, EmptySeq
    <3> QED BY <3>3, <3>4
  <2>7. Shape(new)
    BY <2>1, <2>4, <2>5 DEF Shape, Listening, Calling
  <2>8. Sees(new, FALSE) /\ (Listening(new) => new.events # <<>>)
    BY <2>3, <2>4, <2>5, <2>6 DEF Sees, Listening
  <2> QED BY <2>2, <2>4, <2>5, <2>7, <2>8 DEF job
<1>4. jobs' \in [Jobs -> Job]
  BY <1>1, <1>3
<1> QED BY <1>1, <1>2, <1>3, <1>4, VersionStep

LEMMA CreateStep ==
    ASSUME IInv, Create
    PROVE  IInv'
<1>1. /\ ~disk.present
      /\ disk.version < MaxEdits /\ disk' = [version |-> disk.version + 1, present |-> TRUE]
      /\ UNCHANGED <<deleted, service, registry>>
      /\ jobs' = [j \in Jobs |-> IF j \in Open THEN [jobs[j] EXCEPT !.events = Append(@, "create")]
                                               ELSE jobs[j]]
  BY DEF Create, Notify
<1>2. disk' \in Disk /\ disk'.version = disk.version + 1 /\ disk'.present = TRUE
  BY <1>1, WatchManagerAssumption DEF IInv, TypeOK, Disk, Versions
<1>3. ASSUME NEW j \in Jobs
      PROVE  /\ jobs'[j] \in Job /\ Shape(jobs'[j]) /\ Sees(jobs'[j], TRUE)
             /\ jobs'[j].stage = jobs[j].stage
             /\ jobs'[j].cancelled = jobs[j].cancelled
             /\ jobs'[j].stop = jobs[j].stop
             /\ jobs'[j].request = jobs[j].request
             /\ jobs'[j].version = jobs[j].version
             /\ Listening(jobs'[j]) => jobs'[j].blind \/ jobs'[j].events # <<>>
  <2> DEFINE job == jobs[j]
             new == [job EXCEPT !.events = Append(@, "create")]
  <2>1. job \in Job /\ Shape(job) /\ Sees(job, FALSE)
    <3>1. disk.present = FALSE
      BY <1>1 DEF IInv, TypeOK, Disk
    <3> QED BY <3>1, JobFacts DEF JobOK
  <2>2. CASE j \in Open
    <3>1. jobs'[j] = new
      BY <1>1, <2>2
    <3> HIDE DEF job
    <3>2. /\ new \in Job /\ new.stage = job.stage /\ new.stop = job.stop /\ new.request = job.request
          /\ new.watching = job.watching /\ new.syncing = job.syncing
          /\ new.cancelled = job.cancelled /\ new.version = job.version
          /\ new.notified = job.notified /\ new.watched = job.watched /\ new.blind = job.blind
          /\ Len(job.events) \in Nat /\ Len(new.events) = Len(job.events) + 1
          /\ new.events[Len(job.events) + 1] = "create"
          /\ \A i \in 1 .. Len(job.events) : new.events[i] = job.events[i]
      BY <2>1, NotifiedOK
    <3> HIDE DEF new
    <3>3. new.events # <<>>
      BY <3>2, EmptySeq
    <3>4. ASSUME Forgets(job) PROVE Expects(new)
      <4>1. Len(job.events) + 1 \in 1 .. Len(new.events)
        BY <3>2
      <4>2. CASE ~job.watched
        BY <3>2, <4>1, <4>2 DEF Expects
      <4>3. ASSUME NEW k \in 1 .. Len(job.events), job.events[k] = "remove"
            PROVE  Expects(new)
        <5>1. k \in 1 .. (Len(job.events) + 1) - 1 /\ new.events[k] = "remove"
          BY <3>2, <4>3
        <5> QED BY <3>2, <4>1, <5>1 DEF Expects
      <4> QED BY <3>4, <4>2, <4>3 DEF Forgets
    <3>5. Shape(new) /\ Sees(new, TRUE)
      BY <2>1, <3>2, <3>4 DEF Shape, Sees, Listening, Calling
    <3> QED BY <3>1, <3>2, <3>3, <3>5 DEF job
  <2>3. CASE j \notin Open
    <3>1. jobs'[j] = job
      BY <1>1, <2>3
    <3>2. ~(job.stage = "armed" \/ Listening(job))
      BY <2>1, <2>3, OpenFacts
    <3> QED BY <2>1, <3>1, <3>2 DEF Sees
  <2> QED BY <2>2, <2>3
<1>4. jobs' \in [Jobs -> Job]
  BY <1>1, <1>3
<1> QED BY <1>1, <1>2, <1>3, <1>4, VersionStep

-----------------------------------------------------------------------------
\* Nobody watches anything, and the index is of the version the path has.
LEMMA InitOK == Init => IInv
<1> SUFFICES ASSUME Init PROVE IInv
  OBVIOUS
<1>1. 0 \in Versions
  BY WatchManagerAssumption DEF Versions
<1>2. /\ NoJob \in Job /\ NoJob.stage = "none" /\ NoJob.stop = "none" /\ ~NoJob.watching
      /\ ~NoJob.syncing /\ ~NoJob.cancelled /\ NoJob.request = "none" /\ NoJob.version = 0
  BY <1>1, EmptySeq DEF NoJob, Job
<1>3. ~Listening(NoJob) /\ ~Calling(NoJob)
  BY <1>2 DEF Listening, Calling
<1>4. /\ jobs = [j \in Jobs |-> NoJob] /\ disk = [version |-> 0, present |-> TRUE]
      /\ index = 0 /\ strays = {} /\ strayed = FALSE /\ deleted = FALSE
      /\ path = None /\ watches = {} /\ closing = "open" /\ again = FALSE
  BY DEF Init
<1>5. TypeOK
  BY <1>1, <1>2, <1>4 DEF TypeOK, Disk
<1>6. Registry
  BY <1>3, <1>4 DEF Registry
<1>7. Scanned
  BY <1>4 DEF Scanned
<1>8. JobsOK
  <2>1. JobOK(NoJob, disk, deleted, index, strayed)
    BY <1>2, <1>3, <1>4 DEF JobOK, Shape, Sees, InOrder, Current
  <2> QED BY <1>4, <2>1 DEF JobsOK
<1> QED BY <1>5, <1>6, <1>7, <1>8 DEF IInv

\* Every action keeps the invariant.
LEMMA NextOK == IInv /\ [Next]_vars => IInv'
<1> SUFFICES ASSUME IInv, [Next]_vars PROVE IInv'
  OBVIOUS
<1>1. CASE Write \/ Remove \/ Create \/ Sync \/ DeleteNamespace
  BY <1>1, WriteStep, RemoveStep, CreateStep, SyncStep, DeleteNamespaceStep
<1>2. ASSUME NEW version \in Versions, StoreStray(version) \/ DropStray(version) PROVE IInv'
  BY <1>2, StrayStep
<1>3. ASSUME NEW j \in Jobs,
             \/ Watch(j) \/ SendFirst(j) \/ AnswerFirst(j) \/ Arm(j) \/ CommitWatch(j) \/ Refuse(j)
             \/ Store(j)
      PROVE  IInv'
  BY <1>3, WatchStep, SendFirstStep, AnswerFirstStep, ArmStep, CommitWatchStep, RefuseStep, StoreStep
<1>4. ASSUME NEW j \in Jobs, HandleEvent(j) \/ WatchError(j) \/ Fire(j) \/ EndEvents(j) PROVE IInv'
  BY <1>4, HandleEventStep, WatchErrorStep, FireStep, EndEventsStep
<1>5. ASSUME NEW j \in Jobs,
             TakeTrigger(j) \/ RecordSuccess(j) \/ RecordError(j) \/ Detach(j) \/ EndSync(j)
      PROVE  IInv'
  BY <1>5, TakeTriggerStep, RecordSuccessStep, RecordErrorStep, DetachStep, EndSyncStep
<1>6. ASSUME NEW j \in Jobs, Stop(j) \/ Stopped(j) PROVE IInv'
  BY <1>6, StopStep, StoppedStep
<1>7. CASE Close \/ Closed \/ CloseAgain
  BY <1>7, CloseStep, ClosedStep, CloseAgainStep
<1>8. CASE UNCHANGED vars
  BY <1>8 DEF vars, service, registry, IInv, TypeOK, Registry, Scanned, JobsOK
<1> QED BY <1>1, <1>2, <1>3, <1>4, <1>5, <1>6, <1>7, <1>8 DEF Next

\* The invariant, for any watches, changes and requests nobody waits for.
THEOREM Invariant == Spec => []IInv
BY InitOK, NextOK, PTL DEF Spec

\* The jobs, the registry, the path and the index are always well typed.
THEOREM TypeCorrect == Spec => []TypeOK
<1>1. IInv => TypeOK
  BY DEF IInv
<1> QED BY <1>1, Invariant, PTL

\* The registry names the one job that listens, and one Watch sets the path up
\* (reservePath, commitWatch, removeWatch and detachWatch).
THEOREM OneWatch == Spec => []RegistryWhole
<1>1. IInv => RegistryWhole
  BY DEF IInv, Registry, RegistryWhole, Listening, Calling, Running
<1> QED BY <1>1, Invariant, PTL

\* A watch with nothing to do is up to date or says that it is not (runWatchEvents
\* and runWatchSync), with any number of changes at any time.
THEOREM NothingMissed == Spec => []IdleIsCurrent
<1>1. IInv => IdleIsCurrent
  <2> SUFFICES ASSUME IInv, NEW j \in Jobs, Live(j), ~deleted,
                      jobs[j].events = <<>>, ~jobs[j].timer, jobs[j].trigger = 0,
                      jobs[j].request = "none"
               PROVE  index = disk.version \/ jobs[j].error \/ jobs[j].blind \/ strayed
    BY DEF IdleIsCurrent
  <2>1. Listening(jobs[j])
    BY DEF Live, IInv, Registry
  <2> QED BY <2>1 DEF IInv, JobsOK, JobOK, Current, Quiet
<1> QED BY <1>1, Invariant, PTL

\* Stop returns when its watch synchronises no more; the first Close when none does
\* but that of a Stop which still waits or of a Watch that is being set up, and a
\* later one when the jobs are cancelled (Stop and Close).
THEOREM Stops == Spec => []StopIsFinal
<1>1. IInv => StopIsFinal
  <2> SUFFICES ASSUME IInv PROVE StopIsFinal
    OBVIOUS
  <2>1. closing # "open" => watches = {}
    BY DEF IInv, Registry
  <2>2. ASSUME NEW j \in Jobs, Busy(j)
        PROVE  /\ jobs[j].stop # "stopped"
               /\ closing = "closed" => jobs[j].stop = "waiting" \/ jobs[j].stage = "starting"
               /\ again => jobs[j].cancelled \/ jobs[j].stage = "starting"
    <3>1. jobs[j] \in Job /\ Shape(jobs[j])
      BY JobFacts DEF JobOK
    <3>2. \/ jobs[j].stage = "starting"
          \/ jobs[j].stage = "running" /\ jobs[j].syncing
      BY <2>2, <3>1 DEF Busy, Shape, Calling, Job
    <3>3. closing # "open" => ~Listening(jobs[j])
      BY <2>1 DEF IInv, Registry
    <3>4. closing = "closed" /\ jobs[j].stage = "running" => jobs[j].stop # "closing"
      BY DEF IInv, Registry
    <3>5. again => closing # "open"
      BY DEF IInv, Registry
    <3> QED BY <3>1, <3>2, <3>3, <3>4, <3>5 DEF Shape, Listening, Calling, Job
  <2> QED BY <2>1, <2>2 DEF StopIsFinal
<1> QED BY <1>1, Invariant, PTL

\* Only a request nobody waits for takes the index back (reservePath and runWatchSync).
THEOREM IndexInOrder == Spec => IndexGoesForward
<1>1. ASSUME IInv, [Next]_vars PROVE [index' < index => strayed \/ strayed']_index
  <2> SUFFICES ASSUME index' # index, index' < index PROVE strayed \/ strayed'
    OBVIOUS
  <2>1. \/ \E version \in Versions : StoreStray(version)
        \/ \E j \in Jobs : Store(j)
    BY <1>1 DEF Next, vars, service, registry, Write, Remove, Create, Sync, DeleteNamespace, DropStray,
                Watch, SendFirst, AnswerFirst, Arm, CommitWatch, Refuse, HandleEvent, WatchError, Fire,
                EndEvents, TakeTrigger, RecordSuccess, RecordError, Detach, EndSync, Stop, Stopped,
                Close, Closed, CloseAgain
  <2>2. ASSUME NEW version \in Versions, StoreStray(version) PROVE strayed'
    BY <2>2 DEF StoreStray, Stored
  <2>3. ASSUME NEW j \in Jobs, Store(j) PROVE strayed \/ strayed'
    <3>1. /\ jobs[j].request = "sent" /\ index' = jobs[j].version
          /\ strayed' = (Running(j) /\ ~Live(j))
      BY <2>3 DEF Store, Stored
    <3>2. /\ jobs[j] \in Job /\ Shape(jobs[j]) /\ InOrder(jobs[j], disk.version, index, strayed)
          /\ jobs[j].version \in Nat /\ index \in Nat /\ (j \in watches <=> Listening(jobs[j]))
      BY <1>1, JobFacts DEF JobOK, IInv, Registry
    <3>3. strayed' \/ Listening(jobs[j]) \/ Calling(jobs[j])
      BY <3>1, <3>2 DEF Shape, Listening, Calling, Running, Live
    <3> QED BY <3>1, <3>2, <3>3 DEF InOrder
  <2> QED BY <2>1, <2>2, <2>3
<1> QED BY <1>1, Invariant, PTL DEF Spec, IndexGoesForward
=============================================================================
