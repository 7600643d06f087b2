# A TLA+ specification of the DFS service

This directory specifies `filemanagement_dfs_service`: the distributed and
cloud file services of OpenHarmony. The modules are translated from the C++
under `src/`, TLC checks them on small instances, and TLAPS checks proofs of
properties of eight components for every value of their constants.
`PROJECT.json` lists components, runs, theorems, hazards and, for each
definition, the source lines it models.

## The system and its modules

The services are separate processes that share no memory. They meet through
IPC calls, files on disk, databases and the network.

    applications --- script interfaces --- native client libraries
                              | IPC
    clouddiskservice   cloudsyncservice   cloudfiledaemon   distributedfiledaemon
      placeholder        conditions,        FUSE file          connections, copies
      files, FUSE        tasks, records     systems            and assets between
      session, log                          clouddisk_database devices

A module has one component's state as VARIABLES and one action per step a
thread takes between two points at which another may interfere: a critical
section of a mutex, a system call, a message. Actions have the names of the
functions they model. A thread in the middle of a function has a label (`pc`)
and its local variables; a mutex held across several steps is a variable, one
held within a step is not. The header of each module says which mutexes are
which and what data is abstracted to.

### clouddiskservice

| Module | Models | State and actions |
|---|---|---|
| `PlaceholderTaskManager` | the hydration scheduler and the registry of callback tables | tasks (`taskMap`, `state`, `deadline`), records, registry, mutexes; binder threads, dispatcher, deadline monitor and life cycle as threads |
| `HydrationQueue` | nothing in the source: the abstract queue the scheduler implements | submit, start, end |
| `PlaceholderFile` | calls and hydrations on a placeholder file, directory counts, the monitor's events | data, state byte, dentry and counts; every system call a step that may fail |
| `ProgressManager` | progress reports to accessors | subscriptions, throttling, the serial queue, death notices |
| `ChangeLog` | the ring file of change records | reservation and writing of a line are two steps; crashes between any two |
| `DiskEvents` | fanotify events and their merging, pairing of moves, the warm-up, record identifiers | the folder now, the events queued, what the handlers have recorded |
| `FuseController` | mount, session, roots, worker thread, unloading | one step per critical section of `mutex_` and per mount call |
| `FuseNodes` | LOOKUP, FORGET, GETATTR, OPEN, RELEASE | nodes, handles, descriptors; roots replaced meanwhile |
| `CloudDiskLifecycle` | start, folders, listeners, users, unloading | each handler as its critical sections; FUSE controller by its promise |
| `DentryFile` | dentry files (shared with the cloud disk) | groups, buckets, levels; objects with their own mutex |

### cloudfiledaemon and clouddisk_database

| Module | Models |
|---|---|
| `CloudDiskStore` | rows and dentries of a file, transactions and detached updates, the timer of the next sync |
| `CloudDiskFiles` | inodes, handles and shared read sessions of the cloud disk; renames into the trash and out of it |
| `CloudMedia` | inode references, opens, session and cache pages of a media file |
| `MediaReads` | reads of one page and their cancellation, lock by lock |
| `OperationLog` | the queue, the writer thread and the table of deletions |
| `DbMigration` | the one-time move of an application's rows, marker by marker, with restarts |

### cloudsyncservice and distributedfiledaemon

| Module | Models |
|---|---|
| `TaskStateManager` | running tasks and the delayed unload of the service |
| `CloudSyncService` | the guards and effects of each call, application switches, start |
| `SyncRules` | settings, network, cellular permission, temperature, battery |
| `CycleTasks` | periodic tasks, their intervals and interruptions |
| `SyncRecords` | sync state of an application and its database row |
| `RemoteAssets` | downloads of assets from other devices |
| `P2PConnection`, `ControlChannel` | connections to a device, requests and notices |
| `DaemonTransfers`, `AssetPush` | copies from and assets to another device, both ends |

### Clients and calls between processes

| Module | Models |
|---|---|
| `CloudParcels`, `DaemonIpc`, `IpcCalls` | what proxies write and stubs read, as sequences of steps, and the run of one call |
| `ClientPrograms`, `DiskPrograms`, `KitPrograms` | each function of a client library or script interface as a program of steps |
| `ClientCalls` | threads that run those programs while the service dies and returns |
| `FileCopy` | copies on one device and their progress thread |

## The runs

Where components interact through shared memory they are one module: the
scheduler with the registry, the controller with its worker and loop threads,
rows with dentries. Components that share no state are checked side by side in
a *sum*: `MCCloudDiskService` and `MCCloudFileDaemon` have a variable `part`
that names one instance and variables `v1, v2, ...` that are that instance's.
Their states are the sum of the instances' states. Each property of a sum is a
conjunction of implications `part = p => Instance!Property`. The modules of the
instances state and explain the properties one by one.

| Run | Shows | Distinct states |
|---|---|---|
| `task_state` | `IdleServiceIsReleased`, `EveryRecordHasAWorker`, `IdleServiceEventuallyUnloads` around the unload timer | 13 thousand |
| `hydration_limits` | active limits, cancellation records, refinement of `HydrationQueue` | 881 thousand |
| `hydration_lifecycle` | `OneTaskPerFile`, `StopLeavesNoTask`, `NoCallbackAfterRemoval`, `NoOrphanedTask`: two binder threads against removal, stop, restart and user switch | 976 thousand (up to symmetry) |
| `hydration_live` | `EveryTaskEnds`, `EveryCallReturns`, `NoOvertaking`, `TerminalStatesAreFinal`, `TimeoutIsCurrent` with a provider that may never answer, or late | 86 thousand |
| `fuse_controller` | `MountsAreOwned`; `CallsReturn`, `ActiveRootIsServed` after failed mounts and unmounts | 412 thousand |
| `cloud_disk_service` | nine properties of the other parts of clouddiskservice | 843 thousand |
| `cloud_file_daemon` | thirteen properties of the other services and the clients | 1.3 million |
| `fuse_old_session`, `change_log_end`, `disk_events_ids`, `deleted_rows`, `media_read_lock` | the five findings below | violation |

`CHECK_DEADLOCK FALSE` is used throughout: every system here may rightly stop
when its bounded calls are used up or nobody calls. That nobody is left waiting
is what the liveness properties and, in the sums, invariants about waiting
threads say.

### Bounds

Every bound is a constant of its module (`MaxOps`, `MaxCalls`, `MaxFaults`,
`MaxKey`, `MaxEntry`, `MaxLines`, ...) that appears in a guard of the calls the
environment makes, never in the reactions of the system. They are chosen so that
the case a property is about happens:

- scheduler: two or three task keys, limits of one or two, so that a limit is
  reached, a second task waits, and a record is evicted; two callback entries, so
  that a table is removed and registered again while the old one is in use; two
  binder threads where two calls must meet, one where the other threads do;
- ring log: 3 groups of 3 lines and up to 24 lines, so that it wraps twice; up to
  3 crashes, and one with two producers, so that a line is missing below a
  written one;
- placeholder files: two or three callers on one or two files, one to three
  failing system calls; the instances that carry counts over two directories
  without a failure have up to four calls, another adds the failure;
- cloud disk: five operations, so that a creation, a rename whose thread is late,
  a removal and a restore under the old name fit into one behaviour;
- copies between devices: a cancel and a second copy under the same name in one
  instance, so that each step of the end of the first meets each of the second;
- FUSE: two roots or two users where they compete; four faults in
  `fuse_controller`, so that a mount, its clean-up and the retries of the
  clean-up fail in one behaviour and the worker waits for its reset;
- client libraries: two threads, one death and return of the service, and the
  functions grouped by the table of the client they share;
- `task_state`: three timers, so that one is cancelled, one runs and one is
  stored while the second clears the handle.

`MCPlaceholderTaskManager` uses symmetry in the clients for the life-cycle run,
which has no liveness property.

### Fairness

- `TaskStateManager`: weak fairness of a caller inside a call and of the delayed
  task. No new task is forced to start.
- `PlaceholderTaskManager`: weak fairness of every thread that has begun, of
  dispatcher, monitor and life cycle, and of the clock; strong fairness for
  `CancelNext` and `ExecuteLocks`, which wait for a task's mutex that others take
  and release again and again. A `std::mutex` is not fair by its contract; the
  assumption is that a contender is not starved for ever. No client call and no
  `Execute` of a provider is forced.
- `FuseController`: weak fairness of the call that holds `lifecycleMutex_`, of
  the worker, of the kernel's FUSE_INIT, of the grace period and of warm-ups.
  Faults and calls are not forced.
- `MediaReads`: strong fairness of requests, downloads and begun cancellations,
  so that the counterexample of `media_read_lock` is a real circle of waiting
  threads and not an unfair schedule.

## What is proved

Twenty-six theorems, listed in `PROJECT.json`, hold for every value of the
constants. The proofs of the scheduler are long because some 35 actions of any
number of threads meet one invariant; they are split over three modules. Two
modules prove two components each: the first by EXTENDS, the second by an
INSTANCE further down, so that neither sees the other's definitions.

| Module | Contents |
|---|---|
| `PlaceholderTaskManagerInvariant` | the invariant `IInv` and its preservation, one lemma per action; `HoldInv`, `DeadlineInv`, `LoopInv` |
| `PlaceholderTaskManagerRemoval` | `StopInv`, `EntryInv`, `OrphanInv`, and `RecordInv`: the cancellation records and their eviction |
| `PlaceholderTaskManagerProofs` | limits, refinement, order, and all theorems |
| `FuseControllerProofs` | mounts, sessions, warm-ups and the idle callback |
| `ProgressManagerProofs` | the reports to accessors |
| `TaskStateManagerProofs` | the delayed unload |
| `CloudFileDaemonProofs` | wake-ups of reads (`MediaReads`), stages of a migration (`DbMigration`) |
| `DistributedFileDaemonProofs` | mounts and sessions of a connection (`P2PConnection`), answers and channels (`ControlChannel`) |

Which property of a run a theorem states: the theorems about the scheduler, the
delayed unload, `MountsAreOwned` and `ReportsAreRight` state the property the run
checks. The others state conjuncts of a sum's property: `IdleIsAnnouncedThm` and
`LiveSubscribersThm` two of `LateStepsAreHarmless`, `ReadsAreWokenThm` one of
`ReadsAreServed`, `NoChangeIsLostThm` the migration's part of `NoChangeIsLost`, and
the four theorems of `DistributedFileDaemonProofs` all of `ConnectionsAreReleased`
that is about `P2PConnection` and `ControlChannel`.

### The scheduler (`PlaceholderTaskManager`)

Assumptions: limits are positive and a limit per application is at most the
global one (`LimitsAssumption`; the constants of the source satisfy it), the
bounds are natural numbers, every file has an application, priorities are
integers, and thread names are distinct. The number of clients, files,
applications, keys and entries is arbitrary.

`IInv` (theorem `Invariance`) consists of types and of four parts:

- `RoleInv`: which labels the dispatcher, the monitor and the life cycle can be
  at, and that a dispatch loop has its flag set;
- `TaskInv`: outstanding tasks are in `taskMap_`, unused keys are not, and no two
  outstanding tasks are for one file;
- `TableInv`: a registered entry is registered once, is not closed and not being
  closed;
- `ThreadInv`: what a label tells. A thread that cancels, sends or writes holds
  the mutex of its task, the task is in the state the label implies, and a thread
  about to send holds the `dispatchMutex` of an entry that is not closed.

From it follow directly `OneTaskPerFileThm`, `NoCallbackAfterRemovalThm` (the
barrier that closes an entry takes its `dispatchMutex`, which a sender holds) and
the action property `TerminalStatesAreFinalThm`.

*Limits and refinement.* The dispatcher selects a task under `mapMutex_` and
activates it in later steps without it. The limits are therefore not inductive
alone: `SlotInv` adds that from selection to activation there is a free slot for
the selected task. Only the dispatcher takes slots, and every other step frees
them or leaves them. `ActiveLimitsHoldThm` follows, and `ImplementsQueueThm`:
every step of the scheduler is a step of `HydrationQueue` or a stutter, under the
mapping that takes a task's state for the queue's. Cancellation takes effect in
the abstract queue when the state changes, not when the record is erased.

*Loops, stop and removal.* `WorkInv` (theorem `WorkInvariance`) says what threads
that cancel several tasks have still to do:

- `HoldInv`: a task's mutex is held by a thread whose label says so, and a task
  that has ended but is still in `taskMap_` is in the hands of a thread;
- `DeadlineInv`: only a task that was started has a deadline;
- `LoopInv`: a thread with tasks left is in its loop, and only the monitor
  cancels because of a timeout;
- `StopInv`: while the scheduler stops, `stopping` keeps new tasks out and every
  task left is one `StopScheduler` has still to look at or has in hand;
- `EntryInv`, `OrphanInv`: an entry belongs to the application it was registered
  for, and a task without a callback table is one a removal will copy, has
  copied, or has in hand;
- `RecordInv`: a cancelled task has its record, is about to get it, or is one
  whose record is gone for a reason the code gives (not to be kept, expired,
  evicted).

It gives `StopLeavesNoTaskThm`, `NoOrphanedTaskThm` and
`CancellationIsRememberedThm`. The first needs the last conjunct of `HoldInv`:
a task that another thread has just cancelled, and not erased, is in `taskMap_`
when `StopScheduler` takes its copy, and the loop waits for that task's mutex.

*Timeouts and order.* `TimeoutIsCurrentThm` says that the step which cancels for
TIMEOUT finds the task in progress and its deadline passed, although the monitor
chose it earlier without its mutex. `NoOvertakingThm` says that a task starts
only if no older task of its application with at least its priority waits. It
needs `OrderInv`: the dispatcher's choice stays right until it is acted on,
because a task created meanwhile has a larger key.

### The FUSE controller (`FuseController`)

Assumptions: `NoUser` is not a user (`UsersAssumption`), and the set of roots is
finite (`RootsAssumption`), which the count of warm-ups needs. Users, roots, calls
and faults are arbitrary in number.

`MountsAreOwnedThm`: every mount is that of the current session, in
`pendingUnmounts_`, or in the worker's hands; an idle controller leaves no mount
behind, so that unloading is safe; `pendingWarmupCount_` and the tasks of a root
are the warm-ups that run; and READY means that a session serves the mount. The
invariant has to say where the worker is: which labels go with a session and
which without (`SessionInv`), where it goes on after the code that unmounting,
retiring and waiting share (`NextInv`), that a call which joins or drains has no
worker or a worker that will end (`CallInv`), and that a mount being made or
undone keeps `state_` from being IDLE (`MountInv`). `IdleIsAnnouncedThm` follows
from the same invariant: whichever step makes a started controller idle, it
dispatches the idle callback.

The ownership of mounts cannot be proved without an exception. Stop drops the
session without ending it when the worker has left its loop from inside a failed
clean-up (finding `fuse_old_session`). The model therefore has `loop`, the user of
the session whose thread has not been joined, and the step `Terminate`, the
assignment to a joinable `loopThread_`; the properties except the mount of such a
dropped session, and nothing else.

### The reports of progress (`ProgressManager`)

`ReportsAreRightThm`: what an accessor hears of a task is in order with nothing
after the end, it hears of the end if it stayed registered, and it hears only of
its own user. A report is in three places in turn: queued, checked and about to
be sent, heard. The properties speak of the last; the invariant
(`ProgressInvariance`) says the same of all three and across them (`OrderInv`,
`ReportInv`), and that the report of an end to a subscriber that stayed is in one
of them (`EndInv`): this is where the throttle must let it pass. `OwnerInv` and
`SubInv` tie the numbers in tasks and reports to the subscribers that had them.
`LiveSubscribersThm`: a death notice takes away only a registration of the object
that died. No assumption is made on the constants.

### Connections and control channels

`MountsAreRecordedThm` and `SessionsCanBeReleasedThm` are about `P2PConnection`.
The first needs that a thread in the middle of an unmount found a mount and, until
two unmounts have overlapped, is the only one (`MountInv`). The second needs what
the agent's state says about its queue (`AgentInv`), since a command that opens a
session is released by one queued behind it; it assumes that the bound on
descriptors is a natural number.

`AnswersMatchThm` and `ServerKnowsTheChannelThm` are about `ControlChannel`, with
no assumption. The first says that what a request returns is what the server
answered to that request, not only that a waiter's number fits. Its invariant
follows the answer back to the server: a waiter exists while its call waits and
only then, and holds nothing but an answer to it (`WaitInv`), and every response
on the wire is one the server sent to the client of that socket (`WireInv`), also
when a clean-up destroys the channel under a waiting call. For the second, the
live socket of a client is its newest and its channel, an end is reported only of
a dead one (`ChannelInv`), and the server's map lags behind by exactly the
callbacks under way (`ServerInv`).

### The delayed unload (`TaskStateManager`)

The invariant relates the task map, the handle, the queue and the threads inside
a call. `IdleServiceIsReleasedThm`: a service without tasks is unloaded, about to
be, or in the hands of a thread that will see to it. `EveryRecordHasAWorkerThm`
and the action property `CriticalDroppedOnlyWhenIdleThm` use the same invariant.
The one assumption is that 0, which stands for a null handle, is not a timer.

### Reads of a page (`MediaReads`)

`ReadsAreWokenThm`: a thread that sleeps on a page that is up to date, or on a
download that has ended or was cancelled, has been woken or a thread that will
wake it is on its way; and an answer with data comes from a finished download.
The invariant adds to this that only a begun page is waited for (`PageInv`), that
a task exists only after its request submitted it (`TaskInv`), and who may have
cancelled (`CancelInv`). No assumption is made on the sets of readers and
cancellers. The theorem and the finding `media_read_lock` do not contradict each
other: no wake-up is lost, but the thread woken may never get its mutex.

### The migration (`DbMigration`)

`NoChangeIsLostThm`: an application never opens a database that lacks one of its
changes, for any number of applications, copying threads, failing file operations
and restarts at any step, unless it is *stray*. An application strays in two ways.
`OnAppMigrationSuccess` deletes `.migrating` and creates `.migrated` in two steps,
and between them `RdbInit` finds neither marker and opens the old database, whose
changes nobody copies any more. Or the copy has not
made the rdb directory when the marker goes, because a wait timed out or the
daemon died: the application is taken for one without old rows and starts with an
empty database. Both are steps of the
model; `stray` records the application, and the theorem is about all others. The
invariant (`StagesThm`) says that such an application is unmoved, moving or moved,
for each stage which markers are on disk, that it has opened no database before
the stage allows it, and which database has all changes.

### What stays with TLC

- Liveness (`IdleServiceEventuallyUnloads`, `EveryTaskEnds`, `EveryCallReturns`,
  `CallsReturn`, `ActiveRootIsServed`): the prover supports neither fairness
  reasoning over `ENABLED` nor the well-founded arguments these need.
- `DentryFile` uses recursive operators for the walk over levels, and what a
  recursive definition computes is out of the prover's reach.
- The other conjuncts of the sums' properties, and the components without a
  section above, are checked on the instances of the runs. Their invariants
  are stated over quiescent states ("when no call is under way"), and an
  inductive form would have to say what every label of every call owes.

## Findings

The code disagrees with what its comments, headers or tests say in five places.
Each is a run whose property states the documented behaviour and is violated.

- `fuse_old_session`: if the clean-up of an older mount fails while a user is
  stopped, the worker leaves its loop with the session alive
  (`cloud_disk_fuse_controller.cpp:355`), and `StopLocked` drops `session_` (330)
  without joining its thread. The old session goes on serving a mount nobody will
  undo, and the next `CreateSession` assigns to a joinable thread (805), which
  ends the process. `AccountStatusFuseLifecycleTest.cpp:94`: "Verify switching
  users stops old FUSE and starts the new user's registered roots".

- `change_log_end`: a line number is reserved before the line is written
  (`cloud_disk_service_logfile.cpp:254`). A reader in between gets a stale slot,
  is told `isEof`, and its next request starts behind the line.
  `oh_cloud_disk_manager.h:260`: "If true, all file changes have been returned."
- `disk_events_ids`: a file renamed before its creation was handled gets the
  identifier of the file renamed last (`cloud_disk_service_logfile.cpp:719`).
  `oh_cloud_disk_manager.h:216`: "The globally unique file ID."
- `deleted_rows`: the detached updates of a rename and a later unlink may run in
  either order, and a deleted row becomes modified again
  (`clouddisk_rdbstore.cpp:2034`). `file_operations_cloud.cpp:1563`: "will never
  revert to non-deleted state".
- `media_read_lock`: waiting for a page, cancelling reads and the timeout of a
  request take three mutexes in a circle (`fuse_manager.cpp:1481, 1310, 1745`),
  so that three threads can block each other for ever.

Two weaknesses of the same controller are described by the model and contradict
no document, so they have no run: a clean-up that succeeds while a session is alive
sets `state_` to IDLE or CLEANUP_RETRY (717-726), and lookups then answer ENOTCONN
until that session ends; and a FUSE_INIT answered while all roots retire leaves
`state_` MOUNTING when a root is added in the grace period. `ActiveRootIsServed`
therefore promises a running session, not READY.

## Exceptions

A property of the sums that holds only with an exception names it. The race or
failure is a step of the model, a history variable records that it happened, and
the property is claimed of everything it did not touch. The exception is in the
formula and not in the choice of instances: where two causes are needed to reach
it, some instance has both.

| Property | What is excepted, and where the code leaves it open |
|---|---|
| `PlaceholdersAreRight` | a count, state byte or dentry whose own write failed (`placeholder_helper.cpp:217`, `:236`); a Create or an event of the monitor that crosses another call about its file, as neither takes the file mutex (`cloud_disk_service_logfile.cpp:672`, `:697`, `:726`) |
| `ChangeLogIsComplete` | a log with a gap: a write failed (`cloud_disk_service_logfile.cpp:178`) or the service was killed between the writes of two producers. `GetCurrentLine` then gives out a line again, although `oh_cloud_disk_manager.h:211` has the number increase |
| `FolderIsTracked` | an event that fanotify merged into one whose first bit alone is handled (`disk_monitor.cpp:174`); an event of the file the warm-up is just entering (`cloud_disk_service_logfile.cpp:621`, `:637`) |
| `OpenFilesAreKept` | `openCount` of a node that a lookup took to another root, after a purge of the old one |
| `FoldersAreWatched` | a change of the user across a call, late death notices, overlapping calls about one listener |
| `DentryFilesAreRight` | two objects of one file in use at once |
| `FilesAreListedAndScheduled` | a row whose own update failed, died with the daemon or was overtaken by the thread of a rename (`clouddisk_rdbstore.cpp:2035`); a sync whose timer was not registered or lost with the daemon (`clouddisk_sync_helper.cpp:57`, `:100`) |
| `NoChangeIsLost` | an application that opens a database while neither marker of its migration is there (`migration_manager.cpp:352`, `:353`), or opened one of its own before the copy |
| `ReadsAreServed` | a name given to another file while its key in `localIdCache` was still there (`file_operations_cloud.cpp:188`) |
| `ServiceServesItsCaller` | a switch cached for another user than the current one (`cloud_status.cpp:46`, `:76`) |
| `SyncConditionsAreCurrent` | an upload whose check precedes a stop and whose begin follows it (`network_status.cpp:395`) |
| `TransfersAreCounted` | a download whose answer was not sent or not understood (`file_transfer_manager.cpp:108`, `:142`) |
| `RecordsSurviveTasks` | files behind an error of the directory iterator (`periodic_chown_task.cpp:179`); caches cleaned while a sync began without `PeriodicCleanLock` (`cloud_sync_service.cpp:976`) |
| `CopiesEndAsTold` | a report of progress that crosses the last one (`file_copy_listener.cpp:95-131`); a copy that takes a name while another copy's end or failed preparation is still at it (`softbus_file_receive_listener.cpp:159-166`, `softbus_handler.cpp:348-368`); names left by a time-out, a refusal or an early cancel |
| `ClientsStayRegistered` | the asset client and the client of the cloud daemon, which do not look at the result of `AddDeathRecipient` |
| `ResultsAreTheServices` | the lite library, which keeps its first proxy (`cloud_sync_service_proxy_lite.cpp:137`), and a late answer of an earlier service that overtakes the death notice |

## What is not modelled

`PROJECT.json` names the reason for each part. In short: code that forwards to
the platform (softbus, kernel, device profile, access tokens) is replaced by its
possible answers; the synchronisation engine behind `CloudFileKit` is a vendor's
plugin and appears as an environment; notifications, statistics, fault reports
and conversions of values for the script engines decide nothing that is modelled;
schema upgrades are SQL. Left for later because they have state of their own:
the table of open databases (`database_manager.cpp`), the cached size of the
recycle bin (`recycle_size_cache.cpp`), the batching of change notifications in
`cloud_disk_service_logfile.cpp`, directories that arrive in a sync folder with
their contents, and several devices at once in `P2PConnection`.

The scheduler leaves out the mutex of a file, which `ActivateAndDispatch` takes
first (`placeholder_task_manager.cpp:621`) and a dehydration holds across a
synchronous call of the provider (`cloud_disk_service.cpp:1582-1616`). For the
safety properties a dispatcher that waits for it is a slow one. For the liveness
properties the fairness of the dispatcher assumes that the provider answers that
call: one that never does stops every later hydration, of other applications too.

## Checking

    tlc -workers 2 -config PlaceholderTaskManagerLimits.cfg MCPlaceholderTaskManager
    tlapm PlaceholderTaskManagerProofs.tla

Each run takes less than five minutes on two cores. The proofs of the scheduler
take about half an hour from nothing on one core, the others together a quarter
of an hour to twenty minutes. Most of their leaves name
Zenon: they are first-order steps over functions and labels, which it closes in
a fraction of a second; the leaves with no prover named need arithmetic or a
larger case split and are left to SMT.
