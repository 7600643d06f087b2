------------------------- MODULE CloudDiskLifecycle -------------------------
(***************************************************************************)
(* The life of the cloud disk service: start and initialization, the       *)
(* registration of sync folders, the listeners of their changes, the       *)
(* change of the foreground user, and the unloading of an unused service.  *)
(*   services/clouddiskservice/ipc/src/cloud_disk_service.cpp              *)
(*   services/clouddiskservice/ipc/src/account_status_listener.cpp         *)
(*   services/clouddiskservice/ipc/src/cloud_disk_service_callback_manager *)
(*   services/clouddiskservice/ipc/src/cloud_disk_sync_folder.cpp          *)
(*   services/clouddiskservice/monitor/src/disk_monitor.cpp                *)
(*   services/clouddiskservice/sync_folder/src/cloud_disk_service_logfile  *)
(*                                                                         *)
(* Every handler is the sequence of its critical sections.  lifecycleMutex_*)
(* is held over several of them; every other mutex over one.  The FUSE     *)
(* controller is reduced to what it promises (module FuseController): its  *)
(* roots, whether it has work left, and the callback it makes when idle.   *)
(* The hydration tables a handler clears are those of                      *)
(* PlaceholderTaskManager.                                                 *)
(***************************************************************************)
EXTENDS Integers, Sequences, FiniteSets

CONSTANTS
    Users,        \* accounts
    Names,        \* sync folders of one account
    Callers,      \* IPC threads of the service
    Kinds,        \* the calls that occur
    MaxCalls,     \* bound on calls
    MaxSwitches,  \* bound on changes of the foreground user
    MaxStarts,    \* bound on starts of the service
    MaxGen,       \* bound on processes of the listening application
    MaxFaults     \* bound on failures

VARIABLES
    proc,         \* "down", "published", "ready", "failed" or "stopped"
    unload,       \* UnloadSystemAbility has been asked for
    store,        \* folders registered with the sync folder manager
    map,          \* CloudDiskSyncFolder::syncFolderMap
    fuse,         \* the FUSE controller
    mon,          \* DiskMonitor: isRunning_, userId_ and collecting threads
    life,         \* the thread that holds lifecycleMutex_
    users,        \* foreground user, currentUserId_, subscription
    logs,         \* LogFiles_: its <<user, folder>> keys, and needCallback_
    timer,        \* registerChangeCount_ and whether its timer runs
    index,        \* callbackIndexMap_: [folder -> process]
    app,          \* callbackAppMap_'s entry of the application
    client,       \* its process, the linked and the undelivered death notices
    thr,          \* what every thread has still to do
    hist,         \* what has been promised, and the races that happened
    n             \* calls, switches, starts and failures so far

vars == <<proc, unload, store, map, fuse, mon, life, users, logs, timer, index, app,
          client, thr, hist, n>>

None == "none"
NoProcess == 0
Folders == Users \X Names
UserOf(f) == f[1]
Threads == Callers \cup {"init", "account", "idle", "death", "monitor", "stop"}
Resting == [todo |-> << >>, f |-> None, g |-> 0, left |-> {}]
NoApp == [here |-> FALSE, cb |-> NoProcess, folders |-> {}]
NoFuse == [started |-> FALSE, user |-> None, roots |-> {}, retiring |-> {},
           pending |-> FALSE, tell |-> FALSE]
NoMonitor == [run |-> FALSE, user |-> None, collectors |-> 0]
NoLogs == [keys |-> {}, need |-> {}]
NoPromise == [f \in Folders |-> NoProcess]
NoHistory == [promised |-> NoPromise, crossed |-> FALSE, tangled |-> FALSE,
              late |-> FALSE, orphan |-> FALSE, lost |-> FALSE]

Init ==
    /\ proc = "down" /\ unload = FALSE
    /\ store \in SUBSET Folders /\ map = {}
    /\ fuse = NoFuse /\ mon = NoMonitor /\ life = None
    /\ \E u \in Users : users = [fore |-> u, cur |-> u, listen |-> "no"]
    /\ logs = NoLogs /\ timer = [count |-> 0, run |-> FALSE]
    /\ index = NoPromise /\ app = NoApp
    /\ client = [gen |-> 1, linked |-> [g \in 1..MaxGen |-> 0],
                 notices |-> [g \in 1..MaxGen |-> 0]]
    /\ thr = [t \in Threads |-> Resting]
    /\ hist = NoHistory
    /\ n = [calls |-> 0, switches |-> 0, starts |-> 0, faults |-> 0]

-----------------------------------------------------------------------------
(* Threads.                                                                *)
Busy(t) == thr[t].todo # << >>
At(t, s) == Busy(t) /\ Head(thr[t].todo) = s
Begin(t, steps, f, g) == thr' = [thr EXCEPT ![t] = [Resting EXCEPT !.todo = steps, !.f = f, !.g = g]]
Goes(t) == thr' = [thr EXCEPT ![t].todo = Tail(@)]
Returns(t) == thr' = [thr EXCEPT ![t] = Resting]
GoesTo(t, steps) == thr' = [thr EXCEPT ![t].todo = steps]

Lock(t) == life = None /\ life' = t
Unlock(t) == life' = IF life = t THEN None ELSE life

Fault == n.faults < MaxFaults /\ n' = [n EXCEPT !.faults = @ + 1]

(* Sets of variables a step leaves alone.                                  *)
process == <<proc, unload, store, users, client>>
folders == <<map, fuse, mon, life>>
listeners == <<logs, timer, index, app>>

-----------------------------------------------------------------------------
(* The FUSE controller, by its promise.                                    *)
CanUnload == fuse.roots = {} /\ fuse.retiring = {} /\ ~fuse.pending

FuseStopped(discard, late) ==
    [fuse EXCEPT !.started = FALSE, !.user = None, !.roots = {}, !.retiring = {},
                 !.pending = ~discard /\ (@ \/ (late /\ fuse.roots \cup fuse.retiring # {}))]

FuseStarted(u, roots, late) ==
    [FuseStopped(FALSE, late) EXCEPT !.started = TRUE, !.user = u,
                                     !.roots = {f \in roots : UserOf(f) = u}]

FuseAdded(f) ==
    IF fuse.started /\ fuse.user = UserOf(f)
    THEN [fuse EXCEPT !.roots = @ \cup {f}, !.retiring = @ \ {f}] ELSE fuse

FuseRemoved(f) ==
    IF f \in fuse.roots THEN [fuse EXCEPT !.roots = @ \ {f}, !.retiring = @ \cup {f}]
    ELSE fuse

(* Retired roots are finalized and the session ends; the idle callback is  *)
(* submitted as a task.                                                    *)
FuseSettles ==
    /\ proc # "down" /\ fuse.started /\ (fuse.retiring # {} \/ fuse.pending)
    /\ ~Busy("idle")
    /\ fuse' = [fuse EXCEPT !.retiring = {}, !.pending = FALSE]
    /\ IF fuse.roots = {} /\ fuse.tell THEN Begin("idle", <<"unloadTest">>, None, 0)
       ELSE UNCHANGED thr
    /\ hist' = [hist EXCEPT !.crossed = @ \/ Busy("account")]
    /\ UNCHANGED <<process, map, mon, life, listeners, n>>

-----------------------------------------------------------------------------
(* Start, initialization and stop.                                         *)
InitSteps == <<"user", "query", "startFuse", "listen", "watch">>

OnStart ==
    /\ proc = "down" /\ n.starts < MaxStarts
    /\ n' = [n EXCEPT !.starts = @ + 1]
    /\ proc' = "published" /\ unload' = FALSE
    /\ Begin("init", InitSteps, None, 0)
    /\ UNCHANGED <<store, users, client, folders, listeners, hist>>

(* Init's failure asks the framework to stop the published service.        *)
InitFails(t) ==
    /\ proc' = "failed" /\ unload' = TRUE /\ Returns(t)
    /\ UNCHANGED <<store, users, client, folders, listeners, hist>>

GetUserIdByStartReason(t) ==
    /\ At(t, "user") /\ t = "init"
    /\ \/ Fault /\ InitFails(t)
       \/ /\ users' = [users EXCEPT !.cur = users.fore] /\ Goes(t)
          /\ UNCHANGED <<proc, unload, store, client, folders, listeners, hist, n>>

(* The folders of the store that exist under this user.                    *)
Loaded(u) == {f \in store : UserOf(f) = u}

GetAllSyncFoldersForSaWithRetry(t) ==
    /\ At(t, "query") /\ t = "init"
    /\ \/ Fault /\ InitFails(t)
       \/ /\ map' = map \cup Loaded(users.cur) /\ Goes(t)
          /\ UNCHANGED <<process, fuse, mon, life, listeners, hist, n>>

StartFuseForUser(t) ==
    /\ At(t, "startFuse")
    /\ \E late \in BOOLEAN :
          fuse' = [FuseStarted(users.cur, map, late) EXCEPT
                      !.tell = @ \/ t = "init"]
    /\ Goes(t)
    /\ UNCHANGED <<process, map, mon, life, listeners, hist, n>>

(* StartScheduler, and from here on the account listener may start.        *)
AddSystemAbilityListener(t) ==
    /\ At(t, "listen")
    /\ users' = [users EXCEPT !.listen = "asked"]
    /\ Goes(t)
    /\ UNCHANGED <<proc, unload, store, client, folders, listeners, hist, n>>

OnAddSystemAbility ==
    /\ users.listen = "asked"
    /\ users' = [users EXCEPT !.listen = "yes"]
    /\ UNCHANGED <<proc, unload, store, client, folders, listeners, thr, hist, n>>

Started(u) == IF mon.run THEN mon
              ELSE [run |-> TRUE, user |-> u, collectors |-> mon.collectors + 1]

(* StartMonitor: a running monitor stays as it is; fanotify may fail.      *)
StartMonitor(u) ==
    \/ mon' = Started(u) /\ UNCHANGED <<hist, n>>
    \/ ~mon.run /\ Fault /\ hist' = [hist EXCEPT !.lost = TRUE] /\ UNCHANGED mon

StopMonitor == mon' = [mon EXCEPT !.run = FALSE, !.user = None]

(* CollectEvents ends when it finds the monitor stopped.                   *)
CollectorLeaves ==
    /\ ~mon.run /\ mon.collectors > 0
    /\ mon' = [mon EXCEPT !.collectors = @ - 1]
    /\ UNCHANGED <<process, map, fuse, life, listeners, thr, hist, n>>

InitWatches(t) ==
    /\ At(t, "watch") /\ t = "init"
    /\ IF map # {} THEN StartMonitor(users.cur) /\ Returns(t)
       ELSE UNCHANGED <<mon, hist, n>> /\ GoesTo(t, <<"unloadTest">>)
    /\ proc' = IF proc = "published" THEN "ready" ELSE proc
    /\ UNCHANGED <<unload, store, users, client, map, fuse, life, listeners>>

OnStop ==
    /\ unload /\ proc \in {"ready", "failed"} /\ ~Busy("init") /\ ~Busy("stop")
    /\ proc' = "stopped"
    /\ users' = [users EXCEPT !.listen = "no"]
    /\ Begin("stop", <<"fuseExit">>, None, 0)
    /\ UNCHANGED <<unload, store, client, folders, listeners, hist, n>>

StopFuseForServiceExit(t) ==
    /\ At(t, "fuseExit")
    /\ fuse' = [FuseStopped(TRUE, FALSE) EXCEPT !.tell = @ /\ t # "stop"]
    /\ Goes(t)
    /\ UNCHANGED <<process, map, mon, life, listeners, hist, n>>

(* The process ends: what it kept in memory is gone.                       *)
Exit ==
    /\ proc = "stopped" /\ ~Busy("stop")
    /\ proc' = "down" /\ unload' = FALSE
    /\ map' = {} /\ fuse' = NoFuse /\ mon' = NoMonitor /\ life' = None
    /\ users' = [users EXCEPT !.listen = "no"]
    /\ logs' = NoLogs /\ timer' = [count |-> 0, run |-> FALSE]
    /\ index' = NoPromise /\ app' = NoApp
    /\ client' = [client EXCEPT !.linked = [g \in 1..MaxGen |-> 0],
                                !.notices = [g \in 1..MaxGen |-> 0]]
    /\ thr' = [t \in Threads |-> Resting]
    /\ hist' = NoHistory
    /\ UNCHANGED <<store, n>>

-----------------------------------------------------------------------------
(* Unloading.                                                              *)
UnloadTestUnlocked(t) ==
    /\ At(t, "unloadTest")
    /\ IF map = {} /\ CanUnload
       THEN GoesTo(t, <<"unloadStop", "unloadAsk">> \o Tail(thr[t].todo)) ELSE Goes(t)
    /\ UNCHANGED <<process, folders, listeners, hist, n>>

UnloadTest(t) ==
    /\ At(t, "unloadTest") /\ life = None
    /\ IF map = {} /\ CanUnload
       THEN life' = t /\ GoesTo(t, <<"unloadStop", "unloadAsk">> \o Tail(thr[t].todo))
       ELSE UNCHANGED life /\ Goes(t)
    /\ UNCHANGED <<process, map, fuse, mon, listeners, hist, n>>

(* The account subscriber's own UnloadSa looks at the controller alone.    *)
AccountUnloadTest(t) ==
    /\ At(t, "accountUnload")
    /\ IF CanUnload THEN GoesTo(t, <<"unloadStop", "unloadAsk">>) ELSE Returns(t)
    /\ UNCHANGED <<process, folders, listeners, hist, n>>

UnloadStop(t) ==
    /\ At(t, "unloadStop") /\ StopMonitor /\ Goes(t)
    /\ UNCHANGED <<process, map, fuse, life, listeners, hist, n>>

RequestUnload(t) ==
    /\ At(t, "unloadAsk") /\ Unlock(t) /\ Goes(t)
    /\ \/ unload' = TRUE /\ UNCHANGED <<hist, n>>
       \/ Fault /\ hist' = [hist EXCEPT !.lost = TRUE] /\ UNCHANGED unload
    /\ UNCHANGED <<proc, store, users, client, map, fuse, mon, listeners>>

-----------------------------------------------------------------------------
(* Registration of sync folders.                                           *)
RegisterSteps == <<"lock", "regLog", "regWatch", "addFolder", "addRoot">>
UnregisterSteps ==
    <<"lock", "removeRoot", "logGone", "delFolder", "delIndex", "unlock", "unloadTest">>
InvalidSteps ==
    <<"lock", "saStore", "removeRoot", "delFolder", "delIndex", "unlock", "unloadTest",
      "logGone">>
ListenSteps == <<"regIndex", "regTimer", "regNeed", "regApp">>
UnlistenSteps == <<"unIndex", "unNeed", "unTimer">>

Listens(t) == Busy(t) /\ thr[t].todo[1] \in {ListenSteps[i] : i \in 1..4}
Unlistens(t) == Busy(t) /\ thr[t].todo[1] \in {UnlistenSteps[i] : i \in 1..3}

(* Two calls about the listeners of one folder, or one of them and what    *)
(* clears the listeners, at the same time.                                 *)
Tangles(f, steps) ==
    \/ Busy("account")
    \/ Busy("death") /\ steps \in {ListenSteps, UnlistenSteps}
    \/ \E t \in Callers \cup {"monitor"} :
          Busy(t) /\ thr[t].f = f
          /\ \/ steps \in {ListenSteps, UnlistenSteps}
             \/ Listens(t) \/ Unlistens(t)

Called(kind) == kind \in Kinds /\ proc = "ready" /\ n.calls < MaxCalls

Call(t, f, kind, steps) ==
    /\ Called(kind) /\ ~Busy(t) /\ UserOf(f) = users.fore
    /\ n' = [n EXCEPT !.calls = @ + 1]
    /\ Begin(t, steps, f, client.gen)
    /\ hist' = [hist EXCEPT !.tangled = @ \/ Tangles(f, steps),
                            !.crossed = @ \/ Busy("account")]
    /\ UNCHANGED <<process, folders, listeners>>

RegisterSyncFolder(t, f) == Call(t, f, "register", RegisterSteps)
UnregisterSyncFolder(t, f) == Call(t, f, "unregister", UnregisterSteps)
RegisterSyncFolderChanges(t, f) == Call(t, f, "listen", ListenSteps)
UnregisterSyncFolderChanges(t, f) == Call(t, f, "unlisten", UnlistenSteps)

(* The monitor sees a sync folder deleted or moved away and asks its own   *)
(* service to unregister it.                                               *)
SyncFolderInvalid(f) ==
    /\ f \in map /\ mon.run /\ mon.user = UserOf(f)
    /\ Call("monitor", f, "invalid", InvalidSteps)

Enter(t) ==
    /\ At(t, "lock")
    /\ \/ Lock(t) /\ Goes(t) /\ UNCHANGED n
       \/ life = None /\ Fault /\ Returns(t) /\ UNCHANGED life
    /\ UNCHANGED <<process, map, fuse, mon, listeners, hist>>

Key(u, f) == <<u, f>>
LogAdded(k) == [logs EXCEPT !.keys = @ \cup {k}]
LogErased(k) == [keys |-> logs.keys \ {k}, need |-> logs.need \ {k}]

LogRegister(t) ==
    /\ At(t, "regLog")
    /\ logs' = LogAdded(Key(UserOf(thr[t].f), thr[t].f))
    /\ \/ Goes(t) /\ UNCHANGED <<life, n>>
       \/ Fault /\ Unlock(t) /\ Returns(t)
    /\ UNCHANGED <<process, map, fuse, mon, timer, index, app, hist>>

WatchFirst(t) ==
    /\ At(t, "regWatch") /\ Goes(t)
    /\ IF map = {} THEN StartMonitor(UserOf(thr[t].f)) ELSE UNCHANGED <<mon, hist, n>>
    /\ UNCHANGED <<process, map, fuse, life, listeners>>

AddSyncFolder(t) ==
    /\ At(t, "addFolder") /\ Goes(t)
    /\ map' = map \cup {thr[t].f}
    /\ UNCHANGED <<process, fuse, mon, life, listeners, hist, n>>

(* The folder manager keeps the folder once the call has succeeded.        *)
AddRoot(t) ==
    /\ At(t, "addRoot") /\ Goes(t) /\ Unlock(t)
    /\ fuse' = FuseAdded(thr[t].f)
    /\ store' = store \cup {thr[t].f}
    /\ UNCHANGED <<proc, unload, users, client, map, mon, listeners, hist, n>>

(* UnregisterForSa of the folder manager, then the lookup of the folder.   *)
UnregisterForSa(t) ==
    /\ At(t, "saStore")
    /\ \/ /\ store' = store \ {thr[t].f} /\ UNCHANGED n
          /\ IF thr[t].f \in map THEN Goes(t) /\ UNCHANGED life
             ELSE Returns(t) /\ Unlock(t)
       \/ Fault /\ Returns(t) /\ Unlock(t) /\ UNCHANGED store
    /\ UNCHANGED <<proc, unload, users, client, map, fuse, mon, listeners, hist>>

RemoveRoot(t) ==
    /\ At(t, "removeRoot") /\ Goes(t)
    /\ fuse' = FuseRemoved(thr[t].f)
    /\ UNCHANGED <<process, map, mon, life, listeners, hist, n>>

LogGone(t) ==
    /\ At(t, "logGone") /\ Goes(t)
    /\ logs' = LogErased(Key(UserOf(thr[t].f), thr[t].f))
    /\ UNCHANGED <<process, folders, timer, index, app, hist, n>>

DeleteSyncFolder(t) ==
    /\ At(t, "delFolder") /\ Goes(t)
    /\ map' = map \ {thr[t].f}
    /\ UNCHANGED <<process, fuse, mon, life, listeners, hist, n>>

UnregisterSyncFolderMap(t) ==
    /\ At(t, "delIndex") /\ Goes(t)
    /\ index' = [index EXCEPT ![thr[t].f] = NoProcess]
    /\ app' = [app EXCEPT !.folders = @ \ {thr[t].f}]
    /\ hist' = [hist EXCEPT !.promised[thr[t].f] = NoProcess]
    /\ UNCHANGED <<process, folders, logs, timer, n>>

Leave(t) ==
    /\ At(t, "unlock") /\ Goes(t) /\ Unlock(t)
    /\ store' = store \ {thr[t].f}
    /\ UNCHANGED <<proc, unload, users, client, map, fuse, mon, listeners, hist, n>>

-----------------------------------------------------------------------------
(* Listeners.                                                              *)
RegisterSyncFolderMap(t) ==
    LET f == thr[t].f IN
    /\ At(t, "regIndex")
    /\ IF f \in map /\ index[f] = NoProcess
       THEN /\ index' = [index EXCEPT ![f] = thr[t].g]
            /\ app' = [app EXCEPT !.here = TRUE, !.folders = @ \cup {f}]
            /\ Goes(t)
       ELSE Returns(t) /\ UNCHANGED <<index, app>>
    /\ UNCHANGED <<process, folders, logs, timer, hist, n>>

CountUp(t) ==
    /\ At(t, "regTimer") /\ Goes(t)
    /\ timer' = [count |-> timer.count + 1, run |-> timer.run \/ timer.count = 0]
    /\ UNCHANGED <<process, folders, logs, index, app, hist, n>>

StartCallback(t) ==
    LET k == Key(UserOf(thr[t].f), thr[t].f) IN
    /\ At(t, "regNeed") /\ Goes(t)
    /\ logs' = [LogAdded(k) EXCEPT !.need = @ \cup {k}]
    /\ UNCHANGED <<process, folders, timer, index, app, hist, n>>

(* AddCallback links one death recipient per application entry; linking it *)
(* to an object whose process is gone fails unnoticed.                     *)
AddCallback(t) ==
    LET g == thr[t].g IN
    /\ At(t, "regApp") /\ Returns(t)
    /\ IF app.cb # NoProcess THEN UNCHANGED <<app, client>>
       ELSE /\ app' = [app EXCEPT !.here = TRUE, !.cb = g]
            /\ client' = IF g = client.gen THEN [client EXCEPT !.linked[g] = @ + 1]
                         ELSE client
    /\ hist' = [hist EXCEPT
          !.promised[thr[t].f] = IF g = client.gen THEN g ELSE @,
          !.orphan = @ \/ g # client.gen,
          !.late = @ \/ (app.cb # NoProcess /\ app.cb # g)]
    /\ UNCHANGED <<proc, unload, store, users, folders, logs, timer, index, n>>

UnregisterSyncFolderForChangesMap(t) ==
    LET f == thr[t].f IN
    /\ At(t, "unIndex")
    /\ IF f \in map /\ index[f] # NoProcess
       THEN /\ index' = [index EXCEPT ![f] = NoProcess]
            /\ hist' = [hist EXCEPT !.promised[f] = NoProcess]
            /\ IF app.here THEN app' = [app EXCEPT !.folders = @ \ {f}] /\ Goes(t)
               ELSE UNCHANGED app /\ Returns(t)
       ELSE Returns(t) /\ UNCHANGED <<index, app, hist>>
    /\ UNCHANGED <<process, folders, logs, timer, n>>

(* A death notice is not an application's call: its user is the foreground *)
(* user.                                                                   *)
StopCallback(t) ==
    LET k == Key(IF t = "death" THEN users.fore ELSE UserOf(thr[t].f), thr[t].f) IN
    /\ At(t, "unNeed") /\ Goes(t)
    /\ logs' = [LogAdded(k) EXCEPT !.need = @ \ {k}]
    /\ UNCHANGED <<process, folders, timer, index, app, hist, n>>

CountDown(t) ==
    /\ At(t, "unTimer") /\ Goes(t)
    /\ timer' = [count |-> timer.count - 1, run |-> timer.run /\ timer.count # 1]
    /\ UNCHANGED <<process, folders, logs, index, app, hist, n>>

AppDies ==
    /\ client.gen < MaxGen
    /\ client' = [gen |-> client.gen + 1,
                  linked |-> [client.linked EXCEPT ![client.gen] = 0],
                  notices |-> [client.notices EXCEPT ![client.gen] =
                                  client.linked[client.gen]]]
    /\ hist' = [hist EXCEPT !.promised = NoPromise]
    /\ UNCHANGED <<proc, unload, store, users, folders, listeners, thr, n>>

DeathNotice(g) ==
    /\ client.notices[g] > 0 /\ ~Busy("death")
    /\ client' = [client EXCEPT !.notices[g] = @ - 1]
    /\ thr' = [thr EXCEPT !["death"] = [todo |-> <<"nextFolder">>, f |-> None, g |-> g,
                                        left |-> app.folders]]
    /\ app' = NoApp
    /\ hist' = [hist EXCEPT
          !.late = @ \/ \E f \in app.folders : index[f] # g,
          !.tangled = @ \/ \E t \in Callers : Listens(t) \/ Unlistens(t)]
    /\ UNCHANGED <<proc, unload, store, users, folders, logs, timer, index, n>>

ForgetFolder(t) ==
    /\ At(t, "nextFolder")
    /\ IF thr[t].left = {} THEN Returns(t) /\ UNCHANGED <<index, hist>>
       ELSE \E f \in thr[t].left :
               /\ index' = [index EXCEPT ![f] = NoProcess]
               /\ hist' = [hist EXCEPT !.promised[f] = NoProcess]
               /\ thr' = [thr EXCEPT ![t].f = f, ![t].left = @ \ {f},
                                     ![t].todo = <<"unNeed", "unTimer", "nextFolder">>]
    /\ UNCHANGED <<process, folders, logs, timer, app, n>>

-----------------------------------------------------------------------------
(* The foreground user changes, or an account is stopped.                  *)
SwitchSteps == <<"stopFuse", "stopMonitor", "clearLogs", "clearListeners", "clearMap",
                 "reload", "startFuse", "settle">>

Switch(u) ==
    /\ n.switches < MaxSwitches /\ ~Busy("account") /\ u # users.fore
    /\ n' = [n EXCEPT !.switches = @ + 1]
    /\ users' = [users EXCEPT !.fore = u]
    /\ IF users.listen = "yes"
       THEN /\ Begin("account", SwitchSteps, u, 0)
            /\ hist' = [hist EXCEPT
                  !.crossed = @ \/ Busy("init") \/ Busy("idle")
                                \/ \E t \in Callers \cup {"monitor"} : Busy(t),
                  !.tangled = @ \/ Busy("death") \/ \E t \in Callers : Busy(t)]
       ELSE UNCHANGED thr /\ hist' = [hist EXCEPT !.crossed = @ \/ proc # "down"]
    /\ UNCHANGED <<proc, unload, store, client, folders, listeners>>

AccountStopped ==
    /\ "stopped" \in Kinds /\ n.switches < MaxSwitches /\ ~Busy("account")
    /\ users.listen = "yes"
    /\ n' = [n EXCEPT !.switches = @ + 1]
    /\ Begin("account", <<"fuseExit", "accountUnload">>, None, 0)
    /\ hist' = [hist EXCEPT !.crossed = TRUE]
    /\ UNCHANGED <<process, folders, listeners>>

StopFuse(t) ==
    /\ At(t, "stopFuse") /\ Goes(t)
    /\ \E late \in BOOLEAN : fuse' = FuseStopped(FALSE, late)
    /\ users' = [users EXCEPT !.cur = thr[t].f]
    /\ UNCHANGED <<proc, unload, store, client, map, mon, life, listeners, hist, n>>

SwitchStopsMonitor(t) ==
    /\ At(t, "stopMonitor") /\ Goes(t) /\ StopMonitor
    /\ UNCHANGED <<process, map, fuse, life, listeners, hist, n>>

ClearLogs(t) ==
    /\ At(t, "clearLogs") /\ Goes(t)
    /\ logs' = NoLogs
    /\ UNCHANGED <<process, folders, timer, index, app, hist, n>>

ClearListeners(t) ==
    /\ At(t, "clearListeners") /\ Goes(t)
    /\ index' = NoPromise /\ app' = NoApp
    /\ hist' = [hist EXCEPT !.promised = NoPromise]
    /\ UNCHANGED <<process, folders, logs, timer, n>>

ClearMap(t) ==
    /\ At(t, "clearMap") /\ Goes(t)
    /\ map' = {}
    /\ UNCHANGED <<process, fuse, mon, life, listeners, hist, n>>

Reload(t) ==
    /\ At(t, "reload")
    /\ \/ /\ map' = map \cup Loaded(thr[t].f) /\ Goes(t)
          /\ UNCHANGED <<fuse, n>>
       \/ /\ Fault /\ UNCHANGED map
          /\ \E late \in BOOLEAN : fuse' = FuseStarted(thr[t].f, {}, late)
          /\ GoesTo(t, <<"accountUnload">>)
    /\ UNCHANGED <<process, mon, life, listeners, hist>>

Settle(t) ==
    /\ At(t, "settle")
    /\ IF map = {} THEN GoesTo(t, <<"accountUnload">>) /\ UNCHANGED <<mon, hist, n>>
       ELSE StartMonitor(thr[t].f) /\ Goes(t)
    /\ UNCHANGED <<process, map, fuse, life, listeners>>

Step(t) ==
    \/ GetUserIdByStartReason(t) \/ GetAllSyncFoldersForSaWithRetry(t)
    \/ StartFuseForUser(t) \/ AddSystemAbilityListener(t) \/ InitWatches(t)
    \/ StopFuseForServiceExit(t)
    \/ UnloadTest(t) \/ AccountUnloadTest(t) \/ UnloadStop(t) \/ RequestUnload(t)
    \/ Enter(t) \/ LogRegister(t) \/ WatchFirst(t) \/ AddSyncFolder(t) \/ AddRoot(t)
    \/ UnregisterForSa(t) \/ RemoveRoot(t) \/ LogGone(t) \/ DeleteSyncFolder(t)
    \/ UnregisterSyncFolderMap(t) \/ Leave(t)
    \/ RegisterSyncFolderMap(t) \/ CountUp(t) \/ StartCallback(t) \/ AddCallback(t)
    \/ UnregisterSyncFolderForChangesMap(t) \/ StopCallback(t) \/ CountDown(t)
    \/ ForgetFolder(t)
    \/ StopFuse(t) \/ SwitchStopsMonitor(t) \/ ClearLogs(t) \/ ClearListeners(t)
    \/ ClearMap(t) \/ Reload(t) \/ Settle(t)

Next ==
    \/ OnStart \/ OnAddSystemAbility \/ OnStop \/ Exit
    \/ FuseSettles \/ CollectorLeaves
    \/ AppDies \/ AccountStopped
    \/ \E u \in Users : Switch(u)
    \/ \E g \in 1..MaxGen : DeathNotice(g)
    \/ \E f \in Folders : SyncFolderInvalid(f)
    \/ \E t \in Callers, f \in Folders :
          \/ RegisterSyncFolder(t, f) \/ UnregisterSyncFolder(t, f)
          \/ RegisterSyncFolderChanges(t, f) \/ UnregisterSyncFolderChanges(t, f)
    \/ \E t \in Threads : Step(t)

Spec == Init /\ [][Next]_vars

-----------------------------------------------------------------------------
TypeOK ==
    /\ proc \in {"down", "published", "ready", "failed", "stopped"}
    /\ unload \in BOOLEAN /\ store \subseteq Folders /\ map \subseteq Folders
    /\ fuse \in [started : BOOLEAN, user : Users \cup {None}, roots : SUBSET Folders,
                 retiring : SUBSET Folders, pending : BOOLEAN, tell : BOOLEAN]
    /\ mon.run \in BOOLEAN /\ mon.user \in Users \cup {None} /\ mon.collectors \in Nat
    /\ life \in Threads \cup {None}
    /\ users \in [fore : Users, cur : Users, listen : {"no", "asked", "yes"}]
    /\ logs.need \subseteq logs.keys /\ logs.keys \subseteq Users \X Folders
    /\ timer.count \in Int /\ timer.run \in BOOLEAN
    /\ index \in [Folders -> 0..MaxGen]
    /\ app \in [here : BOOLEAN, cb : 0..MaxGen, folders : SUBSET Folders]

Quiet == proc = "ready" /\ \A t \in Threads : ~Busy(t)

(* Between calls, a service that is not about to be unloaded watches its   *)
(* registered folders: the monitor runs for the current user, one thread   *)
(* collects its events, and every folder is a root of the FUSE controller. *)
(* A change of the user may cross a call, a failed fanotify is not retried.*)
RegisteredFolderIsWatched ==
    Quiet /\ ~unload /\ map # {} /\ ~hist.crossed /\ ~hist.lost =>
        /\ mon.run /\ mon.user = users.cur /\ mon.collectors > 0
        /\ map \subseteq fuse.roots

(* A service with no folder and an idle FUSE controller has asked to be    *)
(* unloaded, whichever of the last unregistration, the end of a retired    *)
(* root, a change of the user and the initialization came last.            *)
IdleServiceIsUnloaded ==
    Quiet /\ map = {} /\ CanUnload /\ ~hist.lost => unload

(* UnloadSa never stops the monitor of a folder: the folders it has counted*)
(* cannot change before the monitor is stopped and the request made.       *)
UnloadSparesFolders ==
    \A t \in Threads \ {"account"} :
        At(t, "unloadStop") /\ ~hist.crossed => map = {} /\ CanUnload

(* A change in the folder reaches its listener: the entry of the folder is *)
(* there, the log file collects changes for it, and the timer that sends   *)
(* them runs.                                                              *)
Delivered(f) ==
    /\ index[f] # NoProcess /\ f \in map /\ UserOf(f) = users.fore
    /\ Key(UserOf(f), f) \in logs.need /\ timer.run

(* A registered listener is told of changes until it unregisters, its      *)
(* process dies, the folder is unregistered or the user changes, whatever  *)
(* other folders' listeners do to the counter of the timer.                *)
ListenersAreServed ==
    Quiet /\ ~hist.tangled /\ ~hist.late =>
        \A f \in Folders : hist.promised[f] # NoProcess /\ UserOf(f) = users.fore =>
            index[f] = hist.promised[f] /\ Delivered(f)

(* Once the notice of a process's death has been handled, no listener of   *)
(* that process is left to refuse the next process's registration.         *)
DeadListenersAreForgotten ==
    Quiet /\ ~hist.orphan /\ ~hist.late /\ ~hist.tangled
    /\ (\A g \in 1..MaxGen : client.notices[g] = 0) =>
        \A f \in Folders : index[f] \in {NoProcess, client.gen}

=============================================================================
