------------------------------ MODULE CycleTasks ------------------------------
(***************************************************************************)
(* The tasks that the cloud sync service runs at its starts, at most once  *)
(* per interval: when a task is due (CycleTask, CycleTaskRunner), and the  *)
(* long ones, which stop when the user comes back and go on at a later     *)
(* start: files are given to the media library's user, stale caches moved  *)
(* away and removed, migrated databases pruned, and space is reported.     *)
(* Kinds says which of them an instance runs.                              *)
(***************************************************************************)
EXTENDS Integers, FiniteSets, FiniteSetsExt

CONSTANTS
    Kinds,      \* subset of {"runner", "chown", "clean", "prune", "report"}
    Runners,    \* runners that may be alive at the same time
    Bundles,
    Interval,   \* intervalTime_
    MaxTime,
    Dirs,       \* directories of a task
    Files,      \* files of each directory
    Sizes,      \* sizes of what a report adds up
    UINT64_MAX,
    MaxOps      \* changes of the environment

VARIABLES
    now,
    lastRun,    \* bundle -> "lastRunTime-" of the task, 0 when never
    runner,     \* runner -> [at, time, todo, bundle]
    ran,        \* bundle -> start of its last successful run
    overlap,    \* two runners were at the same bundle
    idle,       \* the screen is off and the device charges
    task,       \* [at, dir, todo]: the long task under way
    owner,      \* file of a directory -> "dfs", "media" or "late"
    skipped,    \* files that the last pass over their directory failed at or
                \* did not come to
    stamped,    \* directories that are the media library's: _timestamp
    done,       \* directories whose files are: _done
    cache,      \* cache directory -> "stale", "fresh", "empty" or "missing"
    temp,       \* directories that were moved away and not yet removed
    cleaned,    \* clean_dentry_file_once
    moved,      \* directories moved away since the stale caches were left
    switch,     \* "none", "on", "starting" or "syncing"
    unlocked,   \* a sync was started without PeriodicCleanLock
    old,        \* applications that have rows in the common database
    new,        \* application -> those that have rows in its own one
    migrated, pruned, allPruned,    \* marker files
    total, mask, stopped,           \* ReportStats
    ops

runnerVars == <<now, lastRun, runner, ran, overlap>>
chownVars == <<owner, skipped, stamped, done>>
cleanVars == <<cache, temp, cleaned, moved, switch, unlocked>>
pruneVars == <<old, new, migrated, pruned, allPruned>>
reportVars == <<total, mask, stopped>>
vars == <<runnerVars, idle, task, chownVars, cleanVars, pruneVars, reportVars, ops>>

Resting == [at |-> "idle", time |-> 0, todo |-> {}, bundle |-> "none"]
NoTask == [at |-> "idle", dir |-> "none", todo |-> {}]

TypeOK ==
    /\ now \in 1..MaxTime /\ lastRun \in [Bundles -> 0..MaxTime]
    /\ task.at \in {"idle", "dirs", "files", "rename", "remove", "prune", "mark", "cleanup", "scan"}
    /\ owner \in [Dirs \X Files -> {"dfs", "media", "late"}]
    /\ cache \in [Dirs -> {"stale", "fresh", "empty", "missing"}]
    /\ total \in 0..UINT64_MAX

Init ==
    /\ now = 1 /\ lastRun = [b \in Bundles |-> 0] /\ runner = [r \in Runners |-> Resting]
    /\ ran = [b \in Bundles |-> 0] /\ overlap = FALSE
    /\ idle = FALSE /\ task = NoTask
    /\ owner = [f \in Dirs \X Files |-> "dfs"] /\ skipped = {} /\ stamped = {} /\ done = {}
    /\ cache = [d \in Dirs |-> "stale"] /\ temp = {} /\ cleaned = FALSE /\ moved = {} /\ switch = "none" /\ unlocked = FALSE
    /\ old = Dirs /\ new = [a \in Dirs |-> {}] /\ migrated = {} /\ pruned = {} /\ allPruned = FALSE
    /\ total = 0 /\ mask = {} /\ stopped = "none" /\ ops = 0

Changes == ops < MaxOps /\ ops' = ops + 1

-----------------------------------------------------------------------------
(* When a task is due                                                      *)

Tick ==
    /\ now < MaxTime /\ now' = now + 1
    /\ UNCHANGED <<lastRun, runner, ran, overlap, idle, task, chownVars, cleanVars, pruneVars, reportVars, ops>>

\* The bundles of the database whose switch is on and was not found off within
\* a day; none when the query fails.
SetRunableBundleNames == SUBSET Bundles

\* Each start of the service that has a reason makes a runner.
StartTask(r) ==
    /\ runner[r] = Resting
    /\ \E names \in SetRunableBundleNames :
           runner' = [runner EXCEPT ![r] = [at |-> "next", time |-> now, todo |-> names, bundle |-> "none"]]
    /\ UNCHANGED <<now, lastRun, ran, overlap, idle, task, chownVars, cleanVars, pruneVars, reportVars, ops>>

\* The first time is only recorded.
IsEligibleToRun(time, b) == lastRun[b] # 0 /\ time - lastRun[b] >= Interval

RunTask(r, b) ==
    /\ runner[r].at = "next" /\ b \in runner[r].todo
    /\ LET rest == [runner[r] EXCEPT !.todo = @ \ {b}] IN
       IF IsEligibleToRun(runner[r].time, b)
       THEN /\ runner' = [runner EXCEPT ![r] = [rest EXCEPT !.at = "run", !.bundle = b]]
            /\ overlap' = (overlap \/ \E s \in Runners \ {r} : runner[s].bundle = b)
            /\ UNCHANGED lastRun
       ELSE /\ runner' = [runner EXCEPT ![r] = rest]
            /\ lastRun' = IF lastRun[b] = 0 THEN [lastRun EXCEPT ![b] = runner[r].time] ELSE lastRun
            /\ UNCHANGED overlap
    /\ UNCHANGED <<now, ran, idle, task, chownVars, cleanVars, pruneVars, reportVars, ops>>

SetLastRunTime(r, b) == lastRun' = [lastRun EXCEPT ![b] = runner[r].time]

\* RunTaskForBundle ends; what was stopped or failed is tried again at the
\* next start.
RunEnds(r, ok) ==
    /\ runner[r].at = "run"
    /\ LET b == runner[r].bundle IN
       /\ IF ok THEN SetLastRunTime(r, b) ELSE UNCHANGED lastRun
       /\ ran' = IF ok THEN [ran EXCEPT ![b] = runner[r].time] ELSE ran
       /\ overlap' = (overlap \/ (ok /\ ran[b] # 0 /\ runner[r].time < ran[b]))
    /\ runner' = [runner EXCEPT ![r].at = "next", ![r].bundle = "none"]
    /\ UNCHANGED <<now, idle, task, chownVars, cleanVars, pruneVars, reportVars, ops>>

RunnerGone(r) ==
    /\ runner[r].at = "next" /\ runner[r].todo = {}
    /\ runner' = [runner EXCEPT ![r] = Resting]
    /\ UNCHANGED <<now, lastRun, ran, overlap, idle, task, chownVars, cleanVars, pruneVars, reportVars, ops>>

Run ==
    \/ Tick
    \/ \E r \in Runners : StartTask(r) \/ RunnerGone(r)
    \/ \E r \in Runners, b \in Bundles : RunTask(r, b)
    \/ \E r \in Runners, ok \in BOOLEAN : RunEnds(r, ok)

-----------------------------------------------------------------------------
(* What happens to every long task                                         *)

\* The screen goes on or off, the charger comes or goes.
UserComes ==
    /\ Changes /\ idle' = ~idle
    /\ UNCHANGED <<runnerVars, task, chownVars, cleanVars, pruneVars, reportVars>>

\* The service dies, or a step of the task fails, and the task with it.
TaskGone ==
    /\ task # NoTask /\ Changes /\ task' = NoTask
    /\ UNCHANGED <<runnerVars, idle, chownVars, cleanVars, pruneVars, reportVars>>

Others == UNCHANGED <<runnerVars, idle, ops>>

-----------------------------------------------------------------------------
(* Files that belong to the service are given to the media library         *)

RunPeriodicChown ==
    /\ idle /\ task = NoTask /\ done # Dirs
    /\ task' = [at |-> "dirs", dir |-> "none", todo |-> Dirs \ (done \cup stamped)]
    /\ Others /\ UNCHANGED <<chownVars, cleanVars, pruneVars, reportVars>>

\* ProcessSingleDirectory: a directory and those below it; new files are then
\* the media library's, and the time of it is noted.
ProcessSingleDirectory(d) ==
    /\ task.at = "dirs" /\ d \in task.todo
    /\ task' = [task EXCEPT !.todo = @ \ {d}] /\ stamped' = stamped \cup {d}
    /\ Others /\ UNCHANGED <<owner, skipped, done, cleanVars, pruneVars, reportVars>>

ExecuteChownTask(d) ==
    /\ \/ task.at = "dirs" /\ task.todo = {}
       \/ task.at = "files" /\ task.dir \in done
    /\ d \in Dirs \ done
    /\ task' = [at |-> "files", dir |-> d, todo |-> Files]
    /\ skipped' = skipped \ ({d} \X Files)
    /\ Others /\ UNCHANGED <<owner, stamped, done, cleanVars, pruneVars, reportVars>>

\* A file modified after its directory was noted is passed over.
ShouldChownFile(d, f) == owner[d, f] = "dfs"

\* ChownFiles: a failing stat, chmod or chown is only logged.
ChownFile(f, ok) ==
    /\ task.at = "files" /\ f \in task.todo
    /\ task' = [task EXCEPT !.todo = @ \ {f}]
    /\ IF ok THEN /\ owner' = IF ShouldChownFile(task.dir, f) THEN [owner EXCEPT ![task.dir, f] = "media"] ELSE owner
                  /\ UNCHANGED skipped
       ELSE skipped' = skipped \cup {<<task.dir, f>>} /\ UNCHANGED owner
    /\ Others /\ UNCHANGED <<stamped, done, cleanVars, pruneVars, reportVars>>

\* An error makes the iterator the end of the directory: the pass is over, and
\* has succeeded.
IteratorFails ==
    /\ task.at = "files" /\ task.todo # {} /\ Changes
    /\ task' = [task EXCEPT !.todo = {}] /\ skipped' = skipped \cup ({task.dir} \X task.todo)
    /\ UNCHANGED <<runnerVars, idle, owner, stamped, done, cleanVars, pruneVars, reportVars>>

\* Mutant: a stopped pass counts as done.
DoneWhenStopped(d) == task.todo = {} \/ ~idle

FilesDone(d) == task.todo = {}

ChownFilesEnds ==
    /\ task.at = "files" /\ task.dir \notin done
    /\ IF FilesDone(task.dir)
       THEN /\ done' = done \cup {task.dir}
            /\ task' = IF done' = Dirs THEN NoTask ELSE task
       ELSE ~idle /\ task' = NoTask /\ UNCHANGED done
    /\ Others /\ UNCHANGED <<owner, skipped, stamped, cleanVars, pruneVars, reportVars>>

FileModified(d, f) ==
    /\ Changes /\ d \in stamped /\ owner[d, f] = "dfs"
    /\ owner' = [owner EXCEPT ![d, f] = "late"]
    /\ UNCHANGED <<runnerVars, idle, task, skipped, stamped, done, cleanVars, pruneVars, reportVars>>

Chown ==
    \/ RunPeriodicChown \/ IteratorFails \/ ChownFilesEnds
    \/ \E d \in Dirs : ProcessSingleDirectory(d) \/ ExecuteChownTask(d) \/ \E f \in Files : FileModified(d, f)
    \/ \E f \in Files, ok \in BOOLEAN : ChownFile(f, ok)

-----------------------------------------------------------------------------
(* The caches of a user who switched the synchronisation off               *)

\* PeriodicCleanLock is free: the task does not move caches away.
PeriodicCleanLock == task.at # "rename"

RunPeriodicClean ==
    /\ idle /\ task = NoTask /\ switch # "starting"
    /\ task' = IF switch = "none" /\ ~cleaned THEN [at |-> "rename", dir |-> "none", todo |-> Dirs]
               ELSE [at |-> "remove", dir |-> "none", todo |-> {}]
    /\ Others /\ UNCHANGED <<chownVars, cleanVars, pruneVars, reportVars>>

\* A directory is moved away and made anew; when that fails it is moved back,
\* which may fail too.
RenameTempDir(d, result) ==
    /\ task.at = "rename" /\ d \in task.todo
    /\ cache[d] \in {"empty", "missing"} => result = "ok"
    /\ task' = IF result = "ok" THEN [task EXCEPT !.todo = @ \ {d}] ELSE [task EXCEPT !.at = "remove", !.todo = {}]
    /\ cache' = CASE cache[d] \in {"empty", "missing"} \/ result \in {"fails", "back"} -> cache
                  [] result = "ok" -> [cache EXCEPT ![d] = "empty"]
                  [] OTHER -> [cache EXCEPT ![d] = "missing"]
    /\ temp' = IF cache[d] \in {"stale", "fresh"} /\ result \in {"ok", "lost"} THEN temp \cup {<<d, cache[d]>>} ELSE temp
    /\ moved' = IF result \in {"ok", "lost"} THEN moved \cup {d} ELSE moved
    /\ Others /\ UNCHANGED <<cleaned, switch, unlocked, chownVars, pruneVars, reportVars>>

RenameCacheDirEnds ==
    /\ task.at = "rename" /\ task.todo = {}
    /\ cleaned' = TRUE /\ task' = [task EXCEPT !.at = "remove"]
    /\ Others /\ UNCHANGED <<cache, temp, moved, switch, unlocked, chownVars, pruneVars, reportVars>>

CleanTempDir(t) ==
    /\ task.at = "remove" /\ idle /\ t \in temp /\ temp' = temp \ {t}
    /\ Others /\ UNCHANGED <<task, cache, cleaned, moved, switch, unlocked, chownVars, pruneVars, reportVars>>

PeriodicCleanEnds ==
    /\ task.at = "remove" /\ (temp = {} \/ ~idle) /\ task' = NoTask
    /\ Others /\ UNCHANGED <<chownVars, cleanVars, pruneVars, reportVars>>

\* A sync writes into the caches that are there; what it wrote is stale once
\* the user switches the synchronisation off.
Filled == [d \in Dirs |-> IF cache[d] = "missing" THEN "missing" ELSE "fresh"]
Left == [d \in Dirs |-> IF cache[d] = "fresh" THEN "stale" ELSE cache[d]]

\* ChangeAppSwitch: the user switches the synchronisation on, a sync is
\* started under PeriodicCleanLock and fills the caches; or off.
ChangeAppSwitch ==
    /\ Changes
    /\ \/ switch = "none" /\ switch' = "on" /\ UNCHANGED cache
       \/ switch = "on" /\ PeriodicCleanLock /\ switch' = "starting" /\ UNCHANGED cache
       \/ switch = "starting" /\ switch' = "syncing" /\ cache' = Filled
       \/ switch = "syncing" /\ switch' = "none" /\ cache' = Left
    /\ UNCHANGED <<runnerVars, idle, task, temp, cleaned, moved, unlocked, chownVars, pruneVars, reportVars>>

\* NotifyDataChange, StartSync and the periodic check start a sync as well,
\* without the lock.
NotifyDataChange ==
    /\ Changes /\ switch = "on" /\ switch' = "syncing" /\ unlocked' = TRUE /\ cache' = Filled
    /\ UNCHANGED <<runnerVars, idle, task, temp, cleaned, moved, chownVars, pruneVars, reportVars>>

Clean ==
    \/ RunPeriodicClean \/ RenameCacheDirEnds \/ PeriodicCleanEnds \/ ChangeAppSwitch \/ NotifyDataChange
    \/ \E d \in Dirs, result \in {"ok", "fails", "back", "lost"} : RenameTempDir(d, result)
    \/ \E t \in temp : CleanTempDir(t)

-----------------------------------------------------------------------------
(* Databases that were copied for each application                         *)

\* DbMigration: an application's database is a copy of the common one.
Migrate(a) ==
    /\ Changes /\ a \notin migrated
    /\ migrated' = migrated \cup {a} /\ new' = [new EXCEPT ![a] = old]
    /\ UNCHANGED <<runnerVars, idle, task, old, pruned, allPruned, chownVars, cleanVars, reportVars>>

FindMigratedApps == migrated \ pruned

\* When there is nothing to prune, nothing will ever be.
RunPruneTask ==
    /\ idle /\ task = NoTask /\ ~allPruned
    /\ IF FindMigratedApps = {} THEN allPruned' = TRUE /\ UNCHANGED task
       ELSE task' = [at |-> "prune", dir |-> "none", todo |-> FindMigratedApps] /\ UNCHANGED allPruned
    /\ Others /\ UNCHANGED <<old, new, migrated, pruned, chownVars, cleanVars, reportVars>>

PruneDatabase(a) == new[a] \cap {a}

\* PruneAndCleanup: rows of others are deleted from the application's
\* database in one transaction, which may fail; a marker is written whatever
\* happened, ...
PruneAndCleanup(a, ok) ==
    /\ task.at = "prune" /\ a \in task.todo
    /\ IF new[a] \subseteq {a}
       THEN /\ pruned' = pruned \cup {a} /\ task' = [task EXCEPT !.todo = @ \ {a}] /\ UNCHANGED new
       ELSE /\ new' = IF ok THEN [new EXCEPT ![a] = PruneDatabase(a)] ELSE new
            /\ task' = [task EXCEPT !.at = "mark", !.dir = a] /\ UNCHANGED pruned
    /\ Others /\ UNCHANGED <<old, migrated, allPruned, chownVars, cleanVars, reportVars>>

PrunedMarker ==
    /\ task.at = "mark" /\ pruned' = pruned \cup {task.dir} /\ task' = [task EXCEPT !.at = "cleanup"]
    /\ Others /\ UNCHANGED <<old, new, migrated, allPruned, chownVars, cleanVars, reportVars>>

\* ... and its rows are deleted from the common one.
CleanupOldDatabase(ok) ==
    /\ task.at = "cleanup" /\ old' = IF ok THEN old \ {task.dir} ELSE old
    /\ task' = [task EXCEPT !.at = "prune", !.todo = @ \ {task.dir}]
    /\ Others /\ UNCHANGED <<new, migrated, pruned, allPruned, chownVars, cleanVars, reportVars>>

RunPruneTaskEnds ==
    /\ task.at = "prune" /\ (task.todo = {} \/ ~idle) /\ task' = NoTask
    /\ allPruned' = (task.todo = {} /\ FindMigratedApps = {})
    /\ Others /\ UNCHANGED <<old, new, migrated, pruned, chownVars, cleanVars, reportVars>>

Prune ==
    \/ RunPruneTask \/ PrunedMarker \/ RunPruneTaskEnds
    \/ \E a \in Dirs : Migrate(a) \/ \E ok \in BOOLEAN : PruneAndCleanup(a, ok)
    \/ \E ok \in BOOLEAN : CleanupOldDatabase(ok)

-----------------------------------------------------------------------------
(* The space that the service occupies                                     *)

AddUint64(value, addValue) == IF UINT64_MAX - value < addValue THEN UINT64_MAX ELSE value + addValue

\* CollectDfsSpaceStats begins, if the device is idle; the run counts as
\* done even when it is not.
RunDfsSpaceReport ==
    /\ idle /\ task = NoTask
    /\ task' = [at |-> "scan", dir |-> "none", todo |-> DOMAIN Sizes]
    /\ total' = 0 /\ mask' = {} /\ stopped' = "none"
    /\ Others /\ UNCHANGED <<chownVars, cleanVars, pruneVars>>

\* ScanDir adds a target up; an unreadable entry sets its bit.
ScanDir(d, ok) ==
    /\ task.at = "scan" /\ stopped = "none" /\ d \in task.todo /\ idle
    /\ task' = [task EXCEPT !.todo = @ \ {d}]
    /\ total' = IF ok THEN AddUint64(total, Sizes[d]) ELSE total
    /\ mask' = IF ok THEN mask ELSE mask \cup {d}
    /\ Others /\ UNCHANGED <<stopped, chownVars, cleanVars, pruneVars>>

GetScanStopReason(reason) ==
    /\ task.at = "scan" /\ stopped = "none" /\ task.todo # {}
    /\ reason = "condition" => ~idle
    /\ stopped' = reason
    /\ Others /\ UNCHANGED <<task, total, mask, chownVars, cleanVars, pruneVars>>

ReportEnds ==
    /\ task.at = "scan" /\ (task.todo = {} \/ stopped # "none")
    /\ task' = NoTask
    /\ Others /\ UNCHANGED <<chownVars, cleanVars, pruneVars, reportVars>>

Report ==
    \/ RunDfsSpaceReport \/ ReportEnds
    \/ \E d \in DOMAIN Sizes, ok \in BOOLEAN : ScanDir(d, ok)
    \/ \E reason \in {"timeout", "condition", "depth"} : GetScanStopReason(reason)

Next ==
    \/ "runner" \in Kinds /\ Run
    \/ "runner" \notin Kinds /\ (UserComes \/ TaskGone)
    \/ "chown" \in Kinds /\ Chown
    \/ "clean" \in Kinds /\ Clean
    \/ "prune" \in Kinds /\ Prune
    \/ "report" \in Kinds /\ Report

Spec == Init /\ [][Next]_vars

-----------------------------------------------------------------------------
(* What is checked                                                         *)

\* Two successful runs of a task are an interval apart, over any number of
\* starts and failed runs, unless two runners met at it.
RunsAreSpaced ==
    \A r \in Runners : runner[r].at = "run" /\ ~overlap =>
        LET b == runner[r].bundle IN ran[b] # 0 => runner[r].time - ran[b] >= Interval

\* A directory marked as done has no file left that the service could have
\* given away, whatever interrupted the passes, but for those that the last
\* pass over it failed at or did not come to after an error of its iterator.
DoneMeansChowned == \A d \in done, f \in Files : owner[d, f] = "dfs" => <<d, f>> \in skipped

\* Only stale caches are moved away, never what a newly started sync has
\* written, unless it was started without the lock; and the mark says that
\* every cache was dealt with.
OnlyStaleCachesGo ==
    /\ \A d \in Dirs : <<d, "fresh">> \in temp => unlocked
    /\ cleaned => moved = Dirs

\* The rows of an application are in its own database or in the common one,
\* at every step of the migration, the pruning and their interruptions.
RowsAreKept == \A a \in Dirs : IF a \in migrated THEN a \in new[a] ELSE a \in old

\* A report that was not stopped and had no error is the exact sum, or the
\* largest number where the sum is larger.
ReportsAreExact ==
    task.at = "scan" /\ task.todo = {} /\ stopped = "none" /\ mask = {} =>
        total = LET s == MapThenSumSet(LAMBDA d : Sizes[d], DOMAIN Sizes) IN IF s > UINT64_MAX THEN UINT64_MAX ELSE s
=============================================================================
