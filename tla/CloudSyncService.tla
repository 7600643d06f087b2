--------------------------- MODULE CloudSyncService ---------------------------
(***************************************************************************)
(* The cloud sync service: what each call of its interface makes the       *)
(* synchronisation engine (DataSyncManager, a plugin) do, and for whom;    *)
(* the switch of an application, cached in CloudStatus, changed by         *)
(* notifications and by the removal of the application; the service's      *)
(* start and the system abilities it waits for.                            *)
(*                                                                         *)
(* A call that is refused changes nothing: it is no step.  The engine is   *)
(* represented by the last request that reached it.                        *)
(***************************************************************************)
EXTENDS Integers, FiniteSets, TLC

CONSTANTS
    Callers,    \* [bundle, user, perms, system]: processes that call
    Bundles,    \* names a call may give
    Users,      \* identifiers a call may give
    Abilities,  \* system abilities that are announced
    Jobs,       \* threads that carry out ChangeAppSwitch and RemovedClean
    Kinds,      \* which calls are made: "plain", "asset", "switch"
    MaxOps      \* notifications and removals

VARIABLES
    phase,      \* "off", "started", "published", "stopped"
    abilities,  \* system abilities that were announced to the service
    observers,  \* session managers that userStatusListener_ informs
    asked,      \* the last request to the engine: [by, what, bundle, user]
    working,    \* asset calls under way: [by, kind, bundle]
    recorded,   \* task records they made: [kind, bundle]
    real,       \* bundle -> user -> the switch in the cloud
    notice,     \* changes of switches, not yet updated here: <<bundle, user>>
    cache,      \* appSwitches_
    cacheUser,  \* userId_
    crossed,    \* bundles whose cached switch is another user's than userId_, or was set for one
    filling,    \* IsCloudStatusOkay holds mutex_: [bundle, user, status]
    stopSync,   \* isStopSync_
    early,      \* jobs whose isStopSync_ another job has cleared
    cleanLock,  \* the job that holds PeriodicCleanLock
    job,        \* job -> [at, kind, bundle, user, status]
    ops

calls == <<asked, working, recorded>>
switches == <<real, notice, cache, cacheUser, crossed, filling, stopSync, early, cleanLock, job, ops>>
service == <<phase, abilities, observers>>
vars == <<service, calls, switches>>

MIN_USER_ID == 100
HDC_BUNDLE_NAME == "hdc"
GALLERY_BUNDLE_NAME == "gallery"
MEDIALIBRARYDATA == "medialibrary"
clouddrive == "clouddrive"
None == "none"
Nobody == [bundle |-> "", user |-> 0, perms |-> {}, system |-> FALSE]
NoFill == [bundle |-> None, user |-> 0, status |-> FALSE]
NoJob == [at |-> "idle", kind |-> None, bundle |-> None, user |-> 0, status |-> FALSE]
Names == Bundles \cup {""}

TypeOK ==
    /\ phase \in {"off", "started", "published", "stopped"} /\ observers \in Nat
    /\ asked.by \in Callers \cup {Nobody}
    /\ \A w \in working : w.by \in Callers /\ w.kind \in {"upload", "download"}
    /\ DOMAIN cache \subseteq Bundles /\ cleanLock \in Jobs \cup {None}
    /\ \A j \in Jobs : job[j].at \in {"idle", "update", "lock", "sync", "flag", "stop", "engine", "clear", "clean"}

Init ==
    /\ phase = "off" /\ abilities = {} /\ observers = 0
    /\ asked = [by |-> Nobody, what |-> None, bundle |-> None, user |-> 0]
    /\ working = {} /\ recorded = {}
    /\ real = [b \in Bundles |-> [u \in Users |-> FALSE]] /\ notice = {}
    /\ cache = << >> /\ cacheUser = -1 /\ filling = NoFill /\ stopSync = FALSE
    /\ crossed = {} /\ early = {} /\ cleanLock = None
    /\ job = [j \in Jobs |-> NoJob] /\ ops = 0

-----------------------------------------------------------------------------
(* Who may ask for what                                                    *)

GetBundleNameUserInfo(c) == IF c.user = 0 THEN MIN_USER_ID ELSE c.user

CovertBundleName(b) == IF b = clouddrive THEN GALLERY_BUNDLE_NAME ELSE b

CheckPermissions(c, permission, isSystemApp) ==
    /\ permission # "" => permission \in c.perms
    /\ isSystemApp => c.system

Target(c, b) == IF b = "" THEN c.bundle ELSE b

GetTargetBundleName(c, b) ==
    /\ c.bundle # ""
    /\ Target(c, b) # c.bundle /\ c.bundle # MEDIALIBRARYDATA => "manager" \in c.perms

Named(c) == c.bundle # ""
Sync(c) == CheckPermissions(c, "sync", TRUE)
Manager(c) == CheckPermissions(c, "manager", TRUE)

\* The engine is asked, when nothing has refused the call.
Ask(c, what, ok, b, u) ==
    /\ ok /\ phase = "published"
    /\ asked' = [by |-> c, what |-> what, bundle |-> b, user |-> u]
    /\ UNCHANGED <<service, working, recorded, switches>>

-----------------------------------------------------------------------------
(* Calls for a target, which is the caller's bundle or a given one         *)

UnRegisterCallbackInner(c, b) ==
    Ask(c, "unregister", Sync(c) /\ GetTargetBundleName(c, b), Target(c, b), GetBundleNameUserInfo(c))
RegisterUploadCallbackInner(c, b, object) ==
    Ask(c, "registerUpload", Sync(c) /\ object /\ GetTargetBundleName(c, b), Target(c, b), GetBundleNameUserInfo(c))
UnRegisterUploadCallbackInner(c, b) ==
    Ask(c, "unregisterUpload", Sync(c) /\ GetTargetBundleName(c, b), Target(c, b), GetBundleNameUserInfo(c))
UnRegisterFileSyncCallbackInner(c, b) ==
    Ask(c, "unregister", GetTargetBundleName(c, b), Target(c, b), GetBundleNameUserInfo(c))
RegisterCallbackInner(c, b, object) ==
    Ask(c, "register", Sync(c) /\ object /\ GetTargetBundleName(c, b), Target(c, b), GetBundleNameUserInfo(c))
RegisterFileSyncCallbackInner(c, b, object) ==
    Ask(c, "register", object /\ GetTargetBundleName(c, b), Target(c, b), GetBundleNameUserInfo(c))
StartSyncInner(c, b) == Ask(c, "start", Sync(c) /\ GetTargetBundleName(c, b), Target(c, b), c.user)
StartFileSyncInner(c, b) == Ask(c, "start", GetTargetBundleName(c, b), Target(c, b), c.user)
StopSyncInner(c, b) == Ask(c, "stop", Sync(c) /\ GetTargetBundleName(c, b), Target(c, b), c.user)
StopFileSyncInner(c, b) == Ask(c, "stop", GetTargetBundleName(c, b), Target(c, b), c.user)
ResetCursor(c, b) == Ask(c, "reset", Sync(c) /\ GetTargetBundleName(c, b), Target(c, b), c.user)
GetSyncTimeInner(c, b) == Ask(c, "syncTime", GetTargetBundleName(c, b), Target(c, b), c.user)

TargetCalls(c, b) ==
    \/ UnRegisterCallbackInner(c, b) \/ UnRegisterUploadCallbackInner(c, b)
    \/ UnRegisterFileSyncCallbackInner(c, b)
    \/ \E object \in BOOLEAN :
        \/ RegisterUploadCallbackInner(c, b, object) \/ RegisterCallbackInner(c, b, object)
        \/ RegisterFileSyncCallbackInner(c, b, object)
    \/ StartSyncInner(c, b) \/ StartFileSyncInner(c, b) \/ StopSyncInner(c, b)
    \/ StopFileSyncInner(c, b) \/ ResetCursor(c, b) \/ GetSyncTimeInner(c, b)

-----------------------------------------------------------------------------
(* Calls for the caller's own bundle                                       *)

CleanCacheInner(c) == Ask(c, "cleanCache", Sync(c) /\ Named(c), c.bundle, c.user)
CleanAllFileCacheInner(c) == Ask(c, "cleanCache", Named(c), c.bundle, c.user)
GetCachedTotalSizeInner(c) == Ask(c, "cachedSize", Named(c) /\ c.user >= MIN_USER_ID, c.bundle, c.user)
CleanFileCacheInner(c, granted) == Ask(c, "cleanCache", granted /\ Named(c), c.bundle, c.user)
OptimizeStorage(c) ==
    Ask(c, "optimize", Sync(c) /\ Named(c), CovertBundleName(c.bundle), GetBundleNameUserInfo(c))
StopOptimizeStorage(c) ==
    Ask(c, "stopOptimize", Sync(c) /\ Named(c), CovertBundleName(c.bundle), GetBundleNameUserInfo(c))
Own(c, what, ok) == Ask(c, what, ok /\ Named(c), c.bundle, GetBundleNameUserInfo(c))
StartFileCache(c, object) == Own(c, "fileCache", object)
GetDownloadList(c) == Own(c, "downloadList", Sync(c))
GetUploadList(c) == Own(c, "uploadList", Sync(c))
PauseUpload(c) == Own(c, "pause", Sync(c))
ResumeUpload(c) == Own(c, "resume", Sync(c))
StartDownloadFile(c, object) == Own(c, "download", Sync(c) /\ object)
StopDownloadFile(c) == Own(c, "stopDownload", Sync(c))
StopFileCache(c) == Own(c, "stopFileCache", TRUE)
GetHistoryVersionList(c) == Own(c, "versions", TRUE)
DownloadHistoryVersion(c) == Own(c, "version", TRUE)
ReplaceFileWithHistoryVersion(c) == Own(c, "replace", TRUE)
IsFileConflict(c) == Own(c, "conflict", TRUE)
ClearFileConflict(c) == Own(c, "clearConflict", TRUE)
IsFinishPull(c, account) == Ask(c, "pulled", Sync(c) /\ Named(c) /\ account, c.bundle, c.user)

OwnCalls(c) ==
    \/ CleanCacheInner(c) \/ CleanAllFileCacheInner(c) \/ GetCachedTotalSizeInner(c)
    \/ OptimizeStorage(c) \/ StopOptimizeStorage(c) \/ GetDownloadList(c) \/ GetUploadList(c)
    \/ PauseUpload(c) \/ ResumeUpload(c) \/ StopDownloadFile(c) \/ StopFileCache(c)
    \/ GetHistoryVersionList(c) \/ DownloadHistoryVersion(c) \/ ReplaceFileWithHistoryVersion(c)
    \/ IsFileConflict(c) \/ ClearFileConflict(c)
    \/ \E given \in BOOLEAN :
        \/ CleanFileCacheInner(c, given) \/ StartFileCache(c, given)
        \/ StartDownloadFile(c, given) \/ IsFinishPull(c, given)

-----------------------------------------------------------------------------
(* Calls for bundles and users that the caller names                       *)

TriggerSyncInner(c, b, u) == Ask(c, "start", Sync(c) /\ b # "" /\ u >= MIN_USER_ID, b, u)
CleanFileCacheOf(c, b) == Ask(c, "cleanCache", c.system /\ c.user >= MIN_USER_ID, b, c.user)
GetCachedTotalSizeOf(c, b) == Ask(c, "cachedSize", c.system /\ c.user >= MIN_USER_ID, b, c.user)
NotifyDataChange(c, b) == Ask(c, "start", CheckPermissions(c, "", TRUE), b, c.user)
NotifyEventChange(c, b, u, resolved) == Ask(c, "start", Manager(c) /\ resolved, b, u)
DisableCloud(c, active) == Ask(c, "disable", Manager(c), "", IF c.user = 0 THEN active ELSE c.user)
Clean(c, b) == Ask(c, "clean", Manager(c), b, c.user)
StartDowngrade(c, b) == Ask(c, "downgrade", Manager(c), b, c.user)
StopDowngrade(c, b) == Ask(c, "stopDowngrade", Manager(c), b, c.user)
StartTransfer(c, b) == Ask(c, "transfer", Manager(c), b, c.user)
GetCloudFileInfo(c, b) == Ask(c, "fileInfo", Manager(c), b, c.user)
GetBundlesLocalFilePresentStatus(c, b) == Ask(c, "present", Manager(c), b, c.user)
GetDowngradeDownloadTaskState(c, b) == Ask(c, "downgradeState", Manager(c), b, c.user)
BatchDentryFileInsert(c) == Ask(c, "insert", Sync(c), "", c.user)
BatchCleanFile(c) == Ask(c, "batchClean", Sync(c), "", c.user)
DownloadThumb(c) == Ask(c, "thumb", Sync(c), "", c.user)
GetAclXattrBatch(c, paths) == Ask(c, "acl", Sync(c) /\ paths <= 20, "", c.user)
DeleteAsset(c, u, found) == Ask(c, "unlink", Sync(c) /\ found, "", u)

NamedCalls(c, b, u) ==
    \/ TriggerSyncInner(c, b, u) \/ NotifyDataChange(c, b) \/ CleanFileCacheOf(c, b)
    \/ GetCachedTotalSizeOf(c, b) \/ DisableCloud(c, u) \/ Clean(c, b) \/ StartDowngrade(c, b)
    \/ StopDowngrade(c, b) \/ StartTransfer(c, b) \/ GetCloudFileInfo(c, b)
    \/ GetBundlesLocalFilePresentStatus(c, b) \/ GetDowngradeDownloadTaskState(c, b)
    \/ BatchDentryFileInsert(c) \/ BatchCleanFile(c) \/ DownloadThumb(c)
    \/ \E paths \in {20, 21} : GetAclXattrBatch(c, paths)
    \/ \E given \in BOOLEAN : NotifyEventChange(c, b, u, given) \/ DeleteAsset(c, u, given)

-----------------------------------------------------------------------------
(* Asset calls, which keep the service loaded through a task record        *)

Kept(c, kind, b, u) ==
    /\ Sync(c) /\ phase = "published" /\ \A w \in working : w.by # c
    /\ asked' = [by |-> c, what |-> kind, bundle |-> b, user |-> u]
    /\ working' = working \cup {[by |-> c, kind |-> kind, bundle |-> b]}
    /\ recorded' = recorded \cup {[kind |-> kind, bundle |-> b]}
    /\ UNCHANGED <<service, switches>>

UploadAsset(c, u) == Kept(c, "upload", "distributeddata", u)

\* A uri that GetHmdfsPath rejects is refused before the record is made.
GetHmdfsPath(uri) == uri = "wellformed"
DownloadFile(c, b, u, uri) == GetHmdfsPath(uri) /\ Kept(c, "download", b, u)
DownloadFiles(c, b, u, uris) == (\A uri \in uris : GetHmdfsPath(uri)) /\ Kept(c, "download", b, u)

\* A task kind is one bit per bundle: the end of one call ends the record.
AssetEnds(w) ==
    /\ working' = working \ {w}
    /\ recorded' = recorded \ {[kind |-> w.kind, bundle |-> w.bundle]}
    /\ UNCHANGED <<service, asked, switches>>

-----------------------------------------------------------------------------
(* The service's start and stop                                            *)

\* PreInit makes the listeners; a service that cannot publish itself stays
\* without system abilities.
OnStart(published) ==
    /\ phase = "off" /\ phase' = IF published THEN "published" ELSE "started"
    /\ UNCHANGED <<abilities, observers, calls, switches>>

OnStop ==
    /\ phase = "published" /\ \A j \in Jobs : job[j] = NoJob
    /\ phase' = "stopped" /\ UNCHANGED <<abilities, observers, calls, switches>>

\* The announcement of softbus makes a session manager, one more each time.
OnAddSystemAbility(id) ==
    /\ phase = "published" /\ observers < 2
    /\ abilities' = abilities \cup {id}
    /\ observers' = IF id = "softbus" THEN observers + 1 ELSE observers
    /\ UNCHANGED <<phase, calls, switches>>

\* Every start, and every activation of a loaded service, hands its reason
\* to the engine, unless no user is there or the reason is the unlocking.
HandleStartReason(reason, u) ==
    /\ phase = "published" /\ reason # "unlocked"
    /\ asked' = [by |-> Nobody, what |-> "recover", bundle |-> "", user |-> u]
    /\ UNCHANGED <<service, working, recorded, switches>>

-----------------------------------------------------------------------------
(* The cached switch of a bundle                                           *)

Stops(b) == b \in {HDC_BUNDLE_NAME, GALLERY_BUNDLE_NAME}

\* The switch changes in the cloud; its notification follows.  The next
\* change of the same bundle waits for it.
SwitchInCloud(b, u) ==
    /\ ops < MaxOps /\ ops' = ops + 1 /\ <<b, u>> \notin notice
    /\ \A j \in Jobs : job[j].kind = "notice" => <<job[j].bundle, job[j].user>> # <<b, u>>
    /\ real' = [real EXCEPT ![b][u] = ~@] /\ notice' = notice \cup {<<b, u>>}
    /\ UNCHANGED <<service, calls, cache, cacheUser, crossed, filling, stopSync, early, cleanLock, job>>

\* IsSwitchOn asks for bundles whose switch is no setting.  Under mutex_, which
\* it only tries to take: erase on a user switch, then
\* answer from the cache or go on to GetCurrentCloudInfo.
IsCloudStatusOkay(b, u) ==
    /\ filling = NoFill /\ ~Stops(b)
    /\ LET kept == IF cacheUser # u THEN [x \in DOMAIN cache \ {b} |-> cache[x]] ELSE cache
       IN /\ cache' = kept
          /\ b \notin DOMAIN kept
          /\ filling' = [bundle |-> b, user |-> u, status |-> real[b][u]]
    /\ UNCHANGED <<service, calls, real, notice, cacheUser, crossed, stopSync, early, cleanLock, job, ops>>

GetCurrentCloudInfo(found) ==
    /\ filling # NoFill /\ filling' = NoFill
    /\ IF found
       THEN /\ cache' = (filling.bundle :> filling.status) @@ cache
            /\ cacheUser' = filling.user
            /\ crossed' = (IF cacheUser = filling.user THEN crossed ELSE DOMAIN cache) \ {filling.bundle}
       ELSE UNCHANGED <<cache, cacheUser, crossed>>
    /\ UNCHANGED <<service, calls, real, notice, stopSync, early, cleanLock, job, ops>>

SetAppSwitch(b, u, status) ==
    /\ filling = NoFill
    /\ cache' = IF status THEN [x \in DOMAIN cache |-> IF x = b THEN TRUE ELSE cache[x]]
                          ELSE [x \in DOMAIN cache \ {b} |-> cache[x]]
    /\ crossed' = IF status /\ b \in DOMAIN cache /\ u # cacheUser THEN crossed \cup {b}
                  ELSE IF ~status THEN crossed \ {b} ELSE crossed

IsAccountIdChanged ==
    /\ filling = NoFill /\ cacheUser # -1 /\ cache # << >> /\ cache' = << >> /\ crossed' = {}
    /\ UNCHANGED <<service, calls, real, notice, cacheUser, filling, stopSync, early, cleanLock, job, ops>>

-----------------------------------------------------------------------------
(* ChangeAppSwitch and HandleRemovedClean, step by step                    *)

Goto(j, pc) == job' = IF pc = "idle" THEN [job EXCEPT ![j] = NoJob] ELSE [job EXCEPT ![j].at = pc]
Engine(j, what) == asked' = [by |-> Nobody, what |-> what, bundle |-> job[j].bundle, user |-> job[j].user]

\* A notification of the cloud, by a system application, of a user whose
\* account is available; calls for several bundles run side by side.
ChangeAppSwitch(j, b, u) ==
    /\ phase = "published" /\ job[j] = NoJob /\ <<b, u>> \in notice
    /\ \A k \in Jobs : job[k].kind = "notice" => <<job[k].bundle, job[k].user>> # <<b, u>>
    /\ job' = [job EXCEPT ![j] = [at |-> "update", kind |-> "notice", bundle |-> b, user |-> u,
                                  status |-> real[b][u]]]
    /\ UNCHANGED <<service, calls, real, notice, cache, cacheUser, crossed, filling, stopSync, early, cleanLock, ops>>

\* The manager removes a bundle: a closure is posted.
RemovedClean(j, b, u) ==
    /\ phase = "published" /\ job[j] = NoJob /\ ops < MaxOps /\ ops' = ops + 1
    /\ job' = [job EXCEPT ![j] = [at |-> "update", kind |-> "removed", bundle |-> b, user |-> u, status |-> FALSE]]
    /\ UNCHANGED <<service, calls, real, notice, cache, cacheUser, crossed, filling, stopSync, early, cleanLock>>

UpdateSwitch(j) ==
    /\ job[j].at = "update" /\ SetAppSwitch(job[j].bundle, job[j].user, job[j].status)
    /\ Goto(j, IF job[j].kind = "removed" THEN "stop" ELSE IF job[j].status THEN "lock" ELSE "flag")
    /\ notice' = IF job[j].kind = "notice" THEN notice \ {<<job[j].bundle, job[j].user>>} ELSE notice
    /\ UNCHANGED <<service, calls, real, cacheUser, filling, stopSync, early, cleanLock, ops>>

PeriodicCleanLock(j) ==
    /\ job[j].at = "lock" /\ cleanLock = None /\ cleanLock' = j /\ Goto(j, "sync")
    /\ UNCHANGED <<service, calls, real, notice, cache, cacheUser, crossed, filling, stopSync, early, ops>>

TriggerStartSync(j, ok) ==
    /\ job[j].at = "sync" /\ Engine(j, "start") /\ cleanLock' = None
    /\ Goto(j, IF ok THEN "engine" ELSE "idle")
    /\ UNCHANGED <<service, working, recorded, real, notice, cache, cacheUser, crossed, filling, stopSync, early, ops>>

SetStopFlag(j) ==
    /\ job[j].at = "flag" /\ stopSync' = (stopSync \/ Stops(job[j].bundle)) /\ Goto(j, "stop")
    /\ UNCHANGED <<service, calls, real, notice, cache, cacheUser, crossed, filling, early, cleanLock, ops>>

\* Mutant: a failing stop ends the call, as a failing start does.
FailedStopReturns(j, ok) ==
    /\ job[j].at = "stop" /\ Engine(j, "stop")
    /\ Goto(j, IF ~ok THEN "idle" ELSE "engine")
    /\ UNCHANGED <<service, working, recorded, real, notice, cache, cacheUser, crossed, filling, stopSync, early, cleanLock, ops>>

\* StopSyncSynced, whose failure ChangeAppSwitch passes over, and
\* TriggerStopSync, whose failure ends HandleRemovedClean.
StopSync(j, ok) ==
    /\ job[j].at = "stop" /\ Engine(j, "stop")
    /\ Goto(j, IF job[j].kind = "removed" /\ ~ok THEN "idle" ELSE "engine")
    /\ UNCHANGED <<service, working, recorded, real, notice, cache, cacheUser, crossed, filling, stopSync, early, cleanLock, ops>>

EngineSwitch(j, ok) ==
    /\ job[j].at = "engine" /\ Engine(j, "switch")
    /\ Goto(j, IF job[j].kind = "removed" THEN (IF ok THEN "clean" ELSE "idle")
               ELSE IF ~job[j].status /\ Stops(job[j].bundle) THEN "clear" ELSE "idle")
    /\ UNCHANGED <<service, working, recorded, real, notice, cache, cacheUser, crossed, filling, stopSync, early, cleanLock, ops>>

\* A switch-off between the two stores of isStopSync_.
Stopping(j) ==
    job[j].kind = "notice" /\ ~job[j].status /\ Stops(job[j].bundle) /\ job[j].at \in {"stop", "engine", "clear"}

ClearStopFlag(j) ==
    /\ job[j].at = "clear" /\ stopSync' = FALSE /\ Goto(j, "idle")
    /\ early' = (early \ {j}) \cup {k \in Jobs \ {j} : Stopping(k)}
    /\ UNCHANGED <<service, calls, real, notice, cache, cacheUser, crossed, filling, cleanLock, ops>>

CleanCloudFile(j) ==
    /\ job[j].at = "clean" /\ Engine(j, "clean") /\ Goto(j, "idle")
    /\ UNCHANGED <<service, working, recorded, real, notice, cache, cacheUser, crossed, filling, stopSync, early, cleanLock, ops>>

Steps(j) ==
    \/ UpdateSwitch(j) \/ PeriodicCleanLock(j) \/ SetStopFlag(j)
    \/ ClearStopFlag(j) \/ CleanCloudFile(j)
    \/ \E ok \in BOOLEAN : TriggerStartSync(j, ok) \/ StopSync(j, ok) \/ EngineSwitch(j, ok)
    \/ \E b \in Bundles, u \in Users :
        RemovedClean(j, b, u) \/ ChangeAppSwitch(j, b, u)

Next ==
    \/ \E published \in BOOLEAN : OnStart(published)
    \/ OnStop
    \/ \E id \in Abilities : OnAddSystemAbility(id)
    \/ /\ "plain" \in Kinds
       /\ \/ \E reason \in {"load", "wifi", "unlocked"}, u \in Users : HandleStartReason(reason, u)
          \/ \E c \in Callers :
              \/ OwnCalls(c)
              \/ \E b \in Names : TargetCalls(c, b)
              \/ \E b \in Bundles, u \in Users : NamedCalls(c, b, u)
    \/ /\ "asset" \in Kinds
       /\ \E c \in Callers, u \in Users :
            \/ UploadAsset(c, u)
            \/ \E b \in Bundles, uri \in {"wellformed", "other"} :
                DownloadFile(c, b, u, uri) \/ DownloadFiles(c, b, u, {"wellformed", uri})
    \/ \E w \in working : AssetEnds(w)
    \/ /\ "switch" \in Kinds
       /\ \/ \E b \in Bundles, u \in Users : SwitchInCloud(b, u) \/ IsCloudStatusOkay(b, u)
          \/ IsAccountIdChanged
          \/ \E j \in Jobs : Steps(j)
    \/ \E found \in BOOLEAN : GetCurrentCloudInfo(found)

Spec == Init /\ [][Next]_vars

-----------------------------------------------------------------------------
(* What is checked                                                         *)

\* The engine acts for another bundle or another user than the caller's only
\* when the caller is a system application, the media library or holds the
\* manager's permission, whichever call of the interface it took.
EngineServesItsCaller ==
    LET c == asked.by IN
    c # Nobody =>
        \/ c.system \/ "manager" \in c.perms \/ c.bundle = MEDIALIBRARYDATA
        \/ asked.bundle = c.bundle /\ asked.user \in {c.user, GetBundleNameUserInfo(c)}

\* A switch that CloudStatus has cached is the one in the cloud, but for the
\* time until the notification of its change is handled, however the first
\* query, notifications, removals and account changes interleave.  Excepted
\* are the switches that were cached for one user when a query about another
\* bundle made another user the current one, and those a notification for
\* another user set.
SwitchCacheIsCurrent ==
    \A b \in DOMAIN cache \ crossed : cache[b] = real[b][cacheUser] \/ <<b, cacheUser>> \in notice

\* The flag that makes downloads stop is never left set, whatever the engine
\* answers, and a switch-off has it set until it is over, unless another one
\* that ended meanwhile has cleared the flag they share.
StopFlagCoversSwitchOffs ==
    /\ stopSync => \E j \in Jobs : Stopping(j)
    /\ \A j \in Jobs \ early : Stopping(j) => stopSync
=============================================================================
