---------------------------- MODULE WatchManager ----------------------------
(***************************************************************************)
(* The watches a bridge keeps on one local path (internal/ingest/watch.go) *)
(* and what they make of the central index of that path (SyncSources of    *)
(* internal/service/source.go).                                            *)
(*                                                                         *)
(* A watch is a call that synchronises once and registers the job, and two *)
(* goroutines: one turns file system events into a debounced trigger, the  *)
(* other scans and uploads the whole path on a trigger.  Stop and Close    *)
(* cancel jobs and wait for both.                                          *)
(*                                                                         *)
(* What is under the path has a version, one for each change made to it; a *)
(* manifest is the version scanned, and the index the version it stores    *)
(* last.  A change during a scan is taken to be missed by it.  Directories *)
(* below the path go the way of the path itself, a directory whose parent  *)
(* is always watched.  SyncSources locks the root's row, so two            *)
(* synchronisations of the path are serial and each is one step.           *)
(***************************************************************************)
EXTENDS Naturals, FiniteSets, Sequences

CONSTANTS
    Jobs,           \* watch IDs
    MaxEdits,       \* changes made to the path
    MaxStrays,      \* requests nobody waits for, at one time
    PruneMissing,   \* prune_missing of the watches
    None

VARIABLES
    disk,       \* the path: its version and whether it exists
    deleted,    \* the namespace is deleted
    index,      \* the version SyncSources stored last, 0 before; of no meaning once
                \* the namespace is deleted
    strays,     \* requests the service has that no watch waits for: those of
                \* memory_ingest_path, and those whose client gave up
    strayed,    \* history: index is a stray's
    jobs,       \* the watch jobs
    path,       \* pathKeys of the path: None, "reserved" or a job
    watches,    \* the registered jobs
    closing,    \* "open", or the stage of the Close that came first
    again       \* another Close has returned

vars == <<disk, deleted, index, strays, strayed, jobs, path, watches, closing, again>>
service == <<index, strays, strayed>>
registry == <<path, watches, closing, again>>

-----------------------------------------------------------------------------
Versions == 0 .. MaxEdits
Disk == [version: Versions, present: BOOLEAN]

\* stage follows Watch, then the two goroutines; request is the SyncSources call
\* the job waits for.
Job == [stage: {"none", "starting", "synced", "armed", "running", "over"},
        request: {"none", "sent", "stored"}, version: Versions,
        events: Seq({"write", "remove", "create"}), notified: BOOLEAN,
        watched: BOOLEAN, blind: BOOLEAN, timer: BOOLEAN, trigger: {0, 1},
        error: BOOLEAN, cancelled: BOOLEAN, watching: BOOLEAN, syncing: BOOLEAN,
        stop: {"none", "waiting", "stopped", "closing"}]
NoJob == [stage |-> "none", request |-> "none", version |-> 0, events |-> <<>>,
          notified |-> FALSE, watched |-> FALSE, blind |-> FALSE, timer |-> FALSE,
          trigger |-> 0, error |-> FALSE, cancelled |-> FALSE, watching |-> FALSE,
          syncing |-> FALSE, stop |-> "none"]

ASSUME WatchManagerAssumption ==
    /\ MaxEdits \in Nat /\ MaxStrays \in Nat /\ PruneMissing \in BOOLEAN
    /\ None \notin Jobs \cup {"reserved"} /\ "reserved" \notin Jobs

TypeOK ==
    /\ disk \in Disk
    /\ deleted \in BOOLEAN
    /\ index \in Versions /\ strays \subseteq Versions /\ strayed \in BOOLEAN
    /\ jobs \in [Jobs -> Job]
    /\ path \in Jobs \cup {None, "reserved"}
    /\ watches \subseteq Jobs
    /\ closing \in {"open", "waiting", "closed"} /\ again \in BOOLEAN

Init ==
    /\ disk = [version |-> 0, present |-> TRUE]
    /\ deleted = FALSE
    /\ index = 0 /\ strays = {} /\ strayed = FALSE
    /\ jobs = [j \in Jobs |-> NoJob]
    /\ path = None /\ watches = {} /\ closing = "open" /\ again = FALSE

-----------------------------------------------------------------------------
Running(j) == jobs[j].stage = "running"
Live(j) == j \in watches /\ ~jobs[j].cancelled

\* A cancelled job: what its goroutines still take from their channels before
\* they see it makes no difference any more.
Cancelled(job) ==
    [job EXCEPT !.cancelled = TRUE, !.events = <<>>, !.notified = FALSE, !.watched = FALSE,
                !.blind = FALSE, !.timer = FALSE, !.trigger = 0, !.error = FALSE]

Set(j, job) == jobs' = [jobs EXCEPT ![j] = job]

\* Every job with a watcher on the path (notified), or on its parent, sees it.
Notify(event, seers) ==
    [j \in Jobs |->
        IF j \in seers THEN [jobs[j] EXCEPT !.events = Append(@, event)] ELSE jobs[j]]
\* addInitialWatchTargets and addDirectoryTree: the path's own watch, and its
\* entry in the job's map.
Watched(job) == [job EXCEPT !.notified = TRUE, !.watched = TRUE, !.blind = FALSE]

\* releasePath: only a reservation that no job has taken.
Release == IF path = "reserved" THEN None ELSE path

-----------------------------------------------------------------------------
\* The file system.

Write ==
    /\ disk.present /\ disk.version < MaxEdits
    /\ disk' = [disk EXCEPT !.version = @ + 1]
    /\ jobs' = Notify("write", {j \in Jobs : jobs[j].notified})
    /\ UNCHANGED <<deleted, service, registry>>

\* The path is removed, and with it its own watch, or made anew.
Open == {j \in Jobs : /\ jobs[j].stage \in {"armed", "running"}
                      /\ jobs[j].watching /\ ~jobs[j].cancelled}

Remove ==
    /\ disk.present /\ disk.version < MaxEdits
    /\ disk' = [version |-> disk.version + 1, present |-> FALSE]
    /\ jobs' = [j \in Jobs |-> [Notify("remove", Open)[j] EXCEPT !.notified = FALSE]]
    /\ UNCHANGED <<deleted, service, registry>>

Create ==
    /\ ~disk.present /\ disk.version < MaxEdits
    /\ disk' = [version |-> disk.version + 1, present |-> TRUE]
    /\ jobs' = Notify("create", Open)
    /\ UNCHANGED <<deleted, service, registry>>

-----------------------------------------------------------------------------
\* The service.

Stored(version, stray) ==
    /\ ~deleted
    /\ index' = version
    /\ strayed' = stray

\* SyncSources on behalf of a job, or of nobody any more.
Store(j) ==
    /\ jobs[j].request = "sent"
    /\ Stored(jobs[j].version, Running(j) /\ ~Live(j))
    /\ Set(j, [jobs[j] EXCEPT !.request = "stored"])
    /\ UNCHANGED <<disk, deleted, strays, registry>>

StoreStray(version) ==
    /\ version \in strays
    /\ strays' = strays \ {version}
    /\ Stored(version, TRUE)
    /\ UNCHANGED <<disk, deleted, jobs, registry>>

DropStray(version) ==
    /\ version \in strays
    /\ strays' = strays \ {version}
    /\ UNCHANGED <<disk, deleted, index, strayed, jobs, registry>>

Stray(version) ==
    /\ Cardinality(strays) < MaxStrays
    /\ strays' = strays \cup {version}

\* Manager.Sync, whose caller waits for the answer while the watches go on.
Sync ==
    /\ closing = "open" /\ disk.present
    /\ Stray(disk.version)
    /\ UNCHANGED <<disk, deleted, index, strayed, jobs, registry>>

\* DeleteNamespace purges the sources and leaves a tombstone.
DeleteNamespace ==
    /\ ~deleted
    /\ deleted' = TRUE
    /\ UNCHANGED <<disk, service, jobs, registry>>

-----------------------------------------------------------------------------
\* Watch.

\* reservePath.
ReservableAlways == closing = "open"
Reservable == closing = "open" /\ path = None

Watch(j) ==
    /\ jobs[j].stage = "none"
    /\ Reservable
    /\ path' = "reserved"
    /\ Set(j, [jobs[j] EXCEPT !.stage = "starting"])
    /\ UNCHANGED <<disk, deleted, service, watches, closing, again>>

\* The scan and the request of buildAndSync: a path that is missing is an empty
\* manifest to a job, if it prunes, and an error to Watch.
Sent(job) == [job EXCEPT !.request = "sent", !.version = disk.version]

SendFirst(j) ==
    /\ jobs[j].stage = "starting" /\ jobs[j].request = "none"
    /\ disk.present
    /\ Set(j, Sent(jobs[j]))
    /\ UNCHANGED <<disk, deleted, service, registry>>

AnswerFirst(j) ==
    /\ jobs[j].stage = "starting" /\ jobs[j].request = "stored"
    /\ Set(j, [jobs[j] EXCEPT !.stage = "synced", !.request = "none", !.version = 0])
    /\ UNCHANGED <<disk, deleted, service, registry>>

\* NewWatcher and addInitialWatchTargets.
Arm(j) ==
    /\ jobs[j].stage = "synced"
    /\ disk.present
    /\ Set(j, [Watched(jobs[j]) EXCEPT !.stage = "armed", !.watching = TRUE])
    /\ UNCHANGED <<disk, deleted, service, registry>>

\* commitWatch and startWatch: the timer runs from the start.
Committable == closing = "open" /\ path = "reserved"

Started(job) == [job EXCEPT !.stage = "running", !.syncing = TRUE, !.timer = TRUE]

CommitWatch(j) ==
    /\ jobs[j].stage = "armed"
    /\ Committable
    /\ path' = j /\ watches' = watches \cup {j}
    /\ Set(j, Started(jobs[j]))
    /\ UNCHANGED <<disk, deleted, service, closing, again>>

\* Watch fails: its scan, its request, its watcher or its commit, or its caller
\* is gone.  The service may still be at a request that was sent.
Abandoned(j) ==
    \/ strays' = strays
    \/ jobs[j].request = "sent" /\ Stray(jobs[j].version)

Refuse(j) ==
    /\ jobs[j].stage \in {"starting", "synced", "armed"}
    /\ path' = Release
    /\ Set(j, [NoJob EXCEPT !.stage = "over"])
    /\ Abandoned(j)
    /\ UNCHANGED <<disk, deleted, index, strayed, watches, closing, again>>

-----------------------------------------------------------------------------
\* runWatchEvents.

\* handleEvent: a path made anew is watched again, unless the map has it still.
ForgottenNot(job) == job
Forgotten(job) == [job EXCEPT !.watched = FALSE]

Handled(job) ==
    CASE Head(job.events) = "remove" -> {Forgotten(job)}
      [] Head(job.events) = "create" /\ disk.present /\ ~job.watched ->
            {Watched(job), [job EXCEPT !.blind = TRUE, !.error = TRUE]}
      [] OTHER -> {job}

HandleEvent(j) ==
    /\ Running(j) /\ jobs[j].watching /\ jobs[j].events # <<>>
    /\ \E job \in Handled(jobs[j]) :
          Set(j, [job EXCEPT !.events = Tail(@), !.timer = TRUE])
    /\ UNCHANGED <<disk, deleted, service, registry>>

\* The watcher reports an error, as when its queue has overflowed.
WatchError(j) ==
    /\ Running(j) /\ jobs[j].watching /\ ~jobs[j].cancelled
    /\ Set(j, [jobs[j] EXCEPT !.events = <<>>, !.error = TRUE, !.timer = TRUE,
                  !.blind = @ \/ \E i \in DOMAIN jobs[j].events : jobs[j].events[i] # "write"])
    /\ UNCHANGED <<disk, deleted, service, registry>>

\* The debounce is over: a trigger, unless one is waiting.
TriggeredTwice(trigger) == trigger + 1
Triggered(trigger) == 1

Fire(j) ==
    /\ Running(j) /\ jobs[j].watching /\ jobs[j].timer
    /\ Set(j, [jobs[j] EXCEPT !.timer = FALSE, !.trigger = Triggered(@)])
    /\ UNCHANGED <<disk, deleted, service, registry>>

\* Both goroutines are done: job.done is closed.
Ended(job) == IF job.watching \/ job.syncing THEN job ELSE [NoJob EXCEPT !.stage = "over", !.stop = job.stop]

EndEvents(j) ==
    /\ Running(j) /\ jobs[j].watching /\ jobs[j].cancelled
    /\ Set(j, Ended([jobs[j] EXCEPT !.watching = FALSE]))
    /\ UNCHANGED <<disk, deleted, service, registry>>

-----------------------------------------------------------------------------
\* runWatchSync.

TakeTrigger(j) ==
    LET job == [jobs[j] EXCEPT !.trigger = 0] IN
    /\ Running(j) /\ job.syncing /\ job.request = "none"
    /\ jobs[j].trigger > 0 /\ ~job.cancelled
    /\ Set(j, IF disk.present \/ PruneMissing THEN Sent(job) ELSE [job EXCEPT !.error = TRUE])
    /\ UNCHANGED <<disk, deleted, service, registry>>

RecordSuccess(j) ==
    /\ Running(j) /\ jobs[j].request = "stored"
    /\ Set(j, [jobs[j] EXCEPT !.request = "none", !.version = 0, !.error = FALSE])
    /\ UNCHANGED <<disk, deleted, service, registry>>

\* Any failure but the two below: it is recorded, and not retried.
Failed(job) == [job EXCEPT !.request = "none", !.version = 0, !.error = TRUE]

RecordError(j) ==
    /\ Running(j) /\ jobs[j].request # "none" /\ ~jobs[j].cancelled
    /\ Set(j, Failed(jobs[j]))
    /\ Abandoned(j)
    /\ UNCHANGED <<disk, deleted, index, strayed, registry>>

\* The namespace is deleted: detachWatch, then cancel; a Stop may have come
\* between the look at the context and detachWatch.
DetachedAlways(j) == path' = None
Detached(j) == path' = IF j \in watches THEN None ELSE path

Detach(j) ==
    /\ Running(j) /\ jobs[j].request = "sent" /\ deleted
    /\ Detached(j)
    /\ watches' = watches \ {j}
    /\ Set(j, Ended([Cancelled(jobs[j]) EXCEPT !.request = "none", !.version = 0, !.syncing = FALSE]))
    /\ UNCHANGED <<disk, deleted, service, closing, again>>

\* The job is cancelled, and with it the request it waits for.
EndSync(j) ==
    /\ Running(j) /\ jobs[j].syncing /\ jobs[j].cancelled
    /\ Set(j, Ended([jobs[j] EXCEPT !.request = "none", !.version = 0, !.syncing = FALSE]))
    /\ Abandoned(j)
    /\ UNCHANGED <<disk, deleted, index, strayed, registry>>

-----------------------------------------------------------------------------
\* Stop: removeWatch and cancel, and the wait for the goroutines.  Between the
\* two a job is like a cancelled one that has not noticed.
Stop(j) ==
    /\ j \in watches
    /\ watches' = watches \ {j} /\ path' = None
    /\ Set(j, [Cancelled(jobs[j]) EXCEPT !.stop = "waiting"])
    /\ UNCHANGED <<disk, deleted, service, closing, again>>

DoneListening(j) == ~jobs[j].watching
Done(j) == jobs[j].stage = "over"

Stopped(j) ==
    /\ jobs[j].stop = "waiting" /\ Done(j)
    /\ Set(j, [jobs[j] EXCEPT !.stop = "stopped"])
    /\ UNCHANGED <<disk, deleted, service, registry>>

\* Close: the same for every watch that no Stop has removed; the contexts of all
\* go with the manager's.
Close ==
    /\ closing = "open"
    /\ closing' = "waiting"
    /\ path' = None /\ watches' = {}
    /\ jobs' = [j \in Jobs |->
                   IF j \in watches THEN [Cancelled(jobs[j]) EXCEPT !.stop = "closing"] ELSE jobs[j]]
    /\ UNCHANGED <<disk, deleted, service, again>>

Closed ==
    /\ closing = "waiting"
    /\ \A j \in Jobs : jobs[j].stop = "closing" => Done(j)
    /\ closing' = "closed"
    /\ UNCHANGED <<disk, deleted, service, jobs, path, watches, again>>

\* A Close that finds the manager closed waits for nothing.
CloseAgain ==
    /\ closing # "open"
    /\ again' = TRUE
    /\ UNCHANGED <<disk, deleted, service, jobs, path, watches, closing>>

Next ==
    \/ Write \/ Remove \/ Create \/ Sync \/ DeleteNamespace
    \/ \E version \in Versions : StoreStray(version) \/ DropStray(version)
    \/ \E j \in Jobs :
        \/ Watch(j) \/ SendFirst(j) \/ AnswerFirst(j) \/ Arm(j) \/ CommitWatch(j) \/ Refuse(j)
        \/ Store(j)
        \/ HandleEvent(j) \/ WatchError(j) \/ Fire(j) \/ EndEvents(j)
        \/ TakeTrigger(j) \/ RecordSuccess(j) \/ RecordError(j) \/ Detach(j) \/ EndSync(j)
        \/ Stop(j) \/ Stopped(j)
    \/ Close \/ Closed \/ CloseAgain

Spec == Init /\ [][Next]_vars

-----------------------------------------------------------------------------
\* The registry and the goroutines agree: the path's key names the registered
\* job, a job that nobody is stopping is registered so that Stop and Close find
\* it, and a reservation is that of one Watch (commitWatch, removeWatch, detachWatch).
RegistryWhole ==
    /\ watches = {path} \ {None, "reserved"}
    /\ \A j \in Jobs : Running(j) /\ ~jobs[j].cancelled => j \in watches
    /\ closing = "open" =>
          LET calls == {j \in Jobs : jobs[j].stage \in {"starting", "synced", "armed"}}
          IN  \A i, j \in calls : i = j /\ path = "reserved"

\* A watch with nothing to do is up to date or says that it is not, whatever
\* changes came before it listened or while it was synchronising; unless a
\* request nobody waited for came last, or it could not watch a new directory
\* (the timer and the trigger of runWatchEvents).
IdleIsCurrent ==
    \A j \in Jobs : LET job == jobs[j] IN
        /\ Live(j) /\ ~deleted
        /\ job.events = <<>> /\ ~job.timer /\ job.trigger = 0 /\ job.request = "none"
        => index = disk.version \/ job.error \/ job.blind \/ strayed

\* The index is never taken back to an older scan by the watches alone: those of
\* one path synchronise one after another (reservePath, runWatchSync).
IndexGoesForward ==
    [][index' < index => strayed \/ strayed']_index

\* A synchronisation is under way: that of a Watch before it returns, or of a job.
Busy(j) == jobs[j].syncing \/ jobs[j].request # "none"

\* When Stop returns, its watch synchronises no more ("并等待其后台 sync 退出").  When
\* the first Close returns nothing synchronises but a watch some Stop still waits
\* for and a Watch that is being set up, which goes on with its own caller and is
\* turned away in the end; when a later Close returns, which waits for nothing, the
\* jobs are cancelled but may not have ended (Stop and Close of watch.go, 282-328).
StopIsFinal ==
    /\ closing # "open" => watches = {}
    /\ \A j \in Jobs : Busy(j) =>
          /\ jobs[j].stop # "stopped"
          /\ closing = "closed" => jobs[j].stop = "waiting" \/ jobs[j].stage = "starting"
          /\ again => jobs[j].cancelled \/ jobs[j].stage = "starting"
=============================================================================
