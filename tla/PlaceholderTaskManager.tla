----------------------- MODULE PlaceholderTaskManager -----------------------
(***************************************************************************)
(* The hydration scheduler of clouddiskservice: PlaceholderTaskManager     *)
(* together with the registry of provider callback tables                  *)
(* (PlaceholderCallbackManager) its steps run through.                     *)
(*                                                                         *)
(* Locks.  mapMutex_ and callbackMutex_ cover short sections, each of      *)
(* which is one step; callbackMutex_ is also held from the insertion of a  *)
(* task to the end of CreateHydrateTask (pc "created").  The mutex of a    *)
(* task record and the dispatchMutex of a callback entry are held over     *)
(* several steps and are the variables taskLock and dispatchLock.          *)
(* The mutex of a file, which ActivateAndDispatch takes first and a        *)
(* dehydration holds while it asks the provider, is left out: a dispatcher *)
(* that waits for it is a slow one, and the fairness of the dispatcher     *)
(* assumes that the provider answers.                                      *)
(*                                                                         *)
(* Time is abstract: an idle deadline is armed and may pass; the time to   *)
(* live of a cancellation record may pass.  Every application has one      *)
(* sync folder, so a callback key is an application.                       *)
(***************************************************************************)
EXTENDS Integers, FiniteSets, Sequences

CONSTANTS
  Clients,            \* binder threads of applications and providers
  Files,              \* placeholder files
  Apps,               \* owners of sync folders
  AppOf,              \* the application whose sync folder holds a file
  Priorities,         \* CloudDiskHydratePriority
  MaxKey,             \* bound: request keys generated in a behaviour
  MaxEntry,           \* bound: callback tables registered in a behaviour
  MaxWrites,          \* bound: chunks a provider writes per task
  Operations,         \* bound: the kinds of call and clock event that happen, of
                      \* "cancel", "execute", "remove", "stop", "start", "switch",
                      \* "timeout" and "ttl"
  MaxActivePerApp, MaxActiveGlobal,      \* CLOUD_DISK_MAX_ACTIVE_TASKS_*
  MaxPendingPerApp, MaxPendingGlobal,    \* CLOUD_DISK_MAX_PENDING_TASKS_*
  MaxRecordsPerApp, MaxRecordsGlobal,    \* MAX_CANCELLATION_RECORDS_*
  NoThread

ASSUME LimitsAssumption ==
  /\ MaxActivePerApp \in Nat \ {0} /\ MaxActiveGlobal \in Nat \ {0}
  /\ MaxPendingPerApp \in Nat \ {0} /\ MaxPendingGlobal \in Nat \ {0}
  /\ MaxActivePerApp <= MaxActiveGlobal
  /\ MaxPendingPerApp <= MaxPendingGlobal
  /\ MaxRecordsPerApp \in Nat \ {0} /\ MaxRecordsGlobal \in Nat \ {0}
ASSUME BoundsAssumption == MaxKey \in Nat /\ MaxEntry \in Nat /\ MaxWrites \in Nat
ASSUME AppOfAssumption == Files # {} /\ AppOf \in [Files -> Apps]
ASSUME PrioritiesAssumption == Priorities # {} /\ Priorities \subseteq Int
ASSUME ThreadsAssumption ==
  /\ {"dispatcher", "monitor", "lifecycle"} \cap Clients = {}
  /\ NoThread \notin Clients \cup {"dispatcher", "monitor", "lifecycle"}

Keys == 1..MaxKey
Entries == 1..MaxEntry
Threads == Clients \cup {"dispatcher", "monitor", "lifecycle"}

VARIABLES
  (* one record per request key; a record outlives its erasure from taskMap_ *)
  state,            \* PlaceholderTaskRecord::state
  file, prio,       \* what CreateHydrateTask stored
  fetchDispatched,  \* fetchDispatched
  writes,           \* chunks written so far
  (* the maps of PlaceholderTaskManager *)
  taskMap,          \* keys of taskMap_
  deadline,         \* deadlineMap_: "none", "armed" or "passed"
  records,          \* cancellationOrder_, whose keys are cancellationRecordMap_'s
  expired,          \* how many records, the first ones, have their expiresAt behind them
  nextKey,          \* nextReqKeyValue_ and nextCreateSeq_
  running, stopping, dispatchScheduled,
  (* PlaceholderCallbackManager *)
  table,            \* callbackMap_: the entry of an application, 0 for none
  entryApp,         \* the callback key an entry was registered under
  nextEntry,
  (* locks held over several steps, and the threads *)
  taskLock, dispatchLock,
  pc, todo, cur, why, entry, barrier,
  (* history *)
  closed,           \* entries whose removal has passed its dispatch barrier
  forgotten         \* cancelled keys that have no record any more, or never had

taskVars == <<state, file, prio, fetchDispatched, writes>>
mapVars == <<taskMap, deadline, records, expired, nextKey>>
flagVars == <<running, stopping, dispatchScheduled>>
tableVars == <<table, entryApp, nextEntry>>
lockVars == <<taskLock, dispatchLock>>
threadVars == <<pc, todo, cur, why, entry, barrier>>
historyVars == <<closed, forgotten>>
vars == <<taskVars, mapVars, flagVars, tableVars, lockVars, threadVars, historyVars>>

App(k) == AppOf[file[k]]
Outstanding(k) == state[k] \in {"PENDING", "IN_PROGRESS"}
PendingTasks == {k \in taskMap : state[k] = "PENDING"}
ActiveTasks == {k \in taskMap : state[k] = "IN_PROGRESS"}
OfApp(S, a) == {k \in S : App(k) = a}
CallbackMutexFree == \A t \in Clients : pc[t] # "created"

Init ==
  /\ state = [k \in Keys |-> "ABSENT"]
  /\ file = [k \in Keys |-> CHOOSE f \in Files : TRUE]
  /\ prio = [k \in Keys |-> CHOOSE p \in Priorities : TRUE]
  /\ fetchDispatched = [k \in Keys |-> FALSE]
  /\ writes = [k \in Keys |-> 0]
  /\ taskMap = {}
  /\ deadline = [k \in Keys |-> "none"]
  /\ records = <<>> /\ expired = 0
  /\ nextKey = 1
  /\ running = TRUE /\ stopping = FALSE /\ dispatchScheduled = FALSE
  /\ table = [a \in Apps |-> 0]
  /\ entryApp = [e \in Entries |-> CHOOSE a \in Apps : TRUE]
  /\ nextEntry = 1
  /\ taskLock = [k \in Keys |-> NoThread]
  /\ dispatchLock = [e \in Entries |-> NoThread]
  /\ pc = [t \in Threads |-> IF t = "monitor" THEN "wait" ELSE "idle"]
  /\ todo = [t \in Threads |-> {}]
  /\ cur = [t \in Threads |-> 0]
  /\ why = [t \in Threads |-> "NONE"]
  /\ entry = [t \in Threads |-> 0]
  /\ barrier = [t \in Threads |-> {}]
  /\ closed = {}
  /\ forgotten = {}

KeysIn(s) == {s[i] : i \in DOMAIN s}
Goto(t, label) == pc' = [pc EXCEPT ![t] = label]

(* A local variable a thread has done with.                                *)
Forget(var, t, value) == [var EXCEPT ![t] = value]

(***************************************************************************)
(* Cancellation records: what a late Execute of an erased task is told.    *)
(***************************************************************************)
ShouldKeepCancellationRecord(reason) ==
  reason \notin {"DISPATCH_FAILED", "USER_SWITCH", "SERVICE_STOP"}
ShouldNotifyCancellation(reason) ==
  reason \in {"USER_REQUEST", "TIMEOUT", "INTERNAL_ERROR"}

(* Every record lives as long as any other, so they expire in their order. *)
ExpiredRecords == SubSeq(records, 1, expired)
PurgedRecords == SubSeq(records, expired + 1, Len(records))

(* The first record of application a is dropped when a has too many, then  *)
(* the first of all; one of each is enough, as one record was added.       *)
DropOldestOf(a, s) ==
  LET mine == {i \in DOMAIN s : App(s[i]) = a}
      oldest == CHOOSE i \in mine : \A j \in mine : i <= j
  IN IF Cardinality(mine) > MaxRecordsPerApp
     THEN SubSeq(s, 1, oldest - 1) \o SubSeq(s, oldest + 1, Len(s))
     ELSE s
DropOldest(s) == IF Len(s) > MaxRecordsGlobal THEN Tail(s) ELSE s

(* lost: the keys whose record this step is entitled to drop.              *)
RecordsAre(s, lost) ==
  /\ records' = s
  /\ expired' = 0
  /\ forgotten' = forgotten \cup lost
PurgeExpiredCancellationRecords == RecordsAre(PurgedRecords, KeysIn(ExpiredRecords))
AddCancellationRecord(k) ==
  LET added == Append(PurgedRecords, k)
      kept == DropOldest(DropOldestOf(App(k), added))
  IN RecordsAre(kept, KeysIn(ExpiredRecords) \cup (KeysIn(added) \ KeysIn(kept)))
ClearedRecords == RecordsAre(<<>>, KeysIn(records))

RecordExpires ==
  /\ expired < Len(records)
  /\ expired' = expired + 1
  /\ UNCHANGED <<taskVars, taskMap, deadline, records, nextKey, flagVars,
                 tableVars, lockVars, threadVars, historyVars>>

(***************************************************************************)
(* Creating a task: RunIfRegistered around CreateHydrateTask.  A refused   *)
(* request changes nothing and is not a step.                              *)
(***************************************************************************)
(* Mutants: a task that is in progress is not seen as a duplicate; a       *)
(* stopping scheduler takes tasks.                                         *)
PrepareHydrateTaskSeesPendingOnly(f) ==
  /\ ~stopping
  /\ \A k \in taskMap : file[k] = f => state[k] # "PENDING"
  /\ Cardinality(OfApp(PendingTasks, AppOf[f])) < MaxPendingPerApp
  /\ Cardinality(PendingTasks) < MaxPendingGlobal
PrepareHydrateTaskWhileStopping(f) ==
  /\ \A k \in taskMap : file[k] = f => ~Outstanding(k)
  /\ Cardinality(OfApp(PendingTasks, AppOf[f])) < MaxPendingPerApp
  /\ Cardinality(PendingTasks) < MaxPendingGlobal
PrepareHydrateTask(f) ==
  /\ ~stopping
  /\ \A k \in taskMap : file[k] = f => ~Outstanding(k)
  /\ Cardinality(OfApp(PendingTasks, AppOf[f])) < MaxPendingPerApp
  /\ Cardinality(PendingTasks) < MaxPendingGlobal

(* Mutant: CreateHydrateTask outside RunIfRegistered.                      *)
CreateHydrateTaskUnregistered(t, f, p) ==
  /\ pc[t] = "idle"
  /\ nextKey <= MaxKey
  /\ PrepareHydrateTask(f)
  /\ state' = [state EXCEPT ![nextKey] = "PENDING"]
  /\ file' = [file EXCEPT ![nextKey] = f]
  /\ prio' = [prio EXCEPT ![nextKey] = p]
  /\ taskMap' = taskMap \cup {nextKey}
  /\ nextKey' = nextKey + 1
  /\ PurgeExpiredCancellationRecords
  /\ Goto(t, "created")
  /\ UNCHANGED <<fetchDispatched, writes, deadline, flagVars, tableVars, lockVars,
                 todo, cur, why, entry, barrier, closed>>
CreateHydrateTask(t, f, p) ==
  /\ pc[t] = "idle" /\ CallbackMutexFree
  /\ table[AppOf[f]] # 0
  /\ nextKey <= MaxKey
  /\ PrepareHydrateTask(f)
  /\ state' = [state EXCEPT ![nextKey] = "PENDING"]
  /\ file' = [file EXCEPT ![nextKey] = f]
  /\ prio' = [prio EXCEPT ![nextKey] = p]
  /\ taskMap' = taskMap \cup {nextKey}
  /\ nextKey' = nextKey + 1
  /\ PurgeExpiredCancellationRecords
  /\ Goto(t, "created")
  /\ UNCHANGED <<fetchDispatched, writes, deadline, flagVars, tableVars, lockVars,
                 todo, cur, why, entry, barrier, closed>>

(* The end of CreateHydrateTask and of every cancelling call.  The serial  *)
(* queue runs one DispatchLoop at a time and the flag keeps a second one   *)
(* from being queued, so submitting it is the dispatcher's move to the     *)
(* head of the loop.                                                       *)
AfterSchedule(t) ==
  CASE t = "monitor" -> "wait"
    [] t = "lifecycle" /\ why[t] = "USER_SWITCH" -> "clear"
    [] OTHER -> "idle"
ScheduleDispatch(t) ==
  LET submit == running /\ ~stopping /\ ~dispatchScheduled
  IN /\ pc[t] \in {"created", "schedule"}
     /\ dispatchScheduled' = (dispatchScheduled \/ submit)
     /\ pc' = [pc EXCEPT ![t] = AfterSchedule(t),
                         !["dispatcher"] = IF submit THEN "select" ELSE @]
     /\ UNCHANGED <<taskVars, mapVars, running, stopping, tableVars, lockVars,
                    todo, cur, why, entry, barrier, historyVars>>

(***************************************************************************)
(* CancelTaskRecordLocked, run by any thread that holds the task's mutex:  *)
(* mark, record, notify the provider, erase.                               *)
(***************************************************************************)
(* Mutant: the task is erased without a cancellation record.               *)
BeginCancelNoRecord(t, k, reason) ==
  /\ state' = [state EXCEPT ![k] = "CANCELLED"]
  /\ why' = [why EXCEPT ![t] = reason]
  /\ Goto(t, "erase")
BeginCancel(t, k, reason) ==
  /\ state' = [state EXCEPT ![k] = "CANCELLED"]
  /\ why' = [why EXCEPT ![t] = reason]
  /\ Goto(t, "record")

KeepRecord(t) ==
  LET k == cur[t]
  IN /\ pc[t] = "record"
     /\ IF /\ ShouldKeepCancellationRecord(why[t])
           /\ fetchDispatched[k] \/ ShouldNotifyCancellation(why[t])
        THEN AddCancellationRecord(k)
        ELSE /\ forgotten' = forgotten \cup {k}
             /\ UNCHANGED <<records, expired>>
     /\ Goto(t, IF ShouldNotifyCancellation(why[t]) THEN "lookup" ELSE "erase")
     /\ UNCHANGED <<taskVars, taskMap, deadline, nextKey, flagVars, tableVars, lockVars,
                    todo, cur, why, entry, barrier, closed>>

EraseTask(t) ==
  LET k == cur[t]
  IN /\ pc[t] = "erase"
     /\ taskMap' = taskMap \ {k}
     /\ deadline' = [deadline EXCEPT ![k] = "none"]
     /\ taskLock' = [taskLock EXCEPT ![k] = NoThread]
     /\ Goto(t, IF t = "dispatcher" THEN "select" ELSE "next")
     /\ cur' = Forget(cur, t, 0)
     /\ UNCHANGED <<taskVars, records, expired, nextKey, flagVars, tableVars,
                    dispatchLock, todo, why, entry, barrier, historyVars>>

(* The loop of CancelTask, CancelTasksBySyncFolder, CancelAllTasks,        *)
(* StopScheduler and DeadlineLoop over the tasks they copied: lock one,    *)
(* look again at its state (the monitor: at its deadline), cancel it.      *)
(* Mutant: the monitor does not look at the deadline again.                *)
StillOutstanding(t, k) == Outstanding(k)
StillToCancel(t, k) ==
  /\ Outstanding(k)
  /\ why[t] = "TIMEOUT" => k \in taskMap /\ deadline[k] = "passed"
CancelNext(t) ==
  /\ pc[t] = "next"
  /\ \E k \in todo[t] :
       /\ taskLock[k] = NoThread
       /\ todo' = [todo EXCEPT ![t] = @ \ {k}]
       /\ \/ /\ StillToCancel(t, k)
             /\ taskLock' = [taskLock EXCEPT ![k] = t]
             /\ cur' = [cur EXCEPT ![t] = k]
             /\ BeginCancel(t, k, why[t])
          \/ /\ ~StillToCancel(t, k)
             /\ UNCHANGED <<state, taskLock, cur, why, pc>>
  /\ UNCHANGED <<file, prio, fetchDispatched, writes, mapVars, flagVars, tableVars,
                 dispatchLock, entry, barrier, historyVars>>
CancelDone(t) ==
  /\ pc[t] = "next" /\ todo[t] = {}
  /\ Goto(t, IF why[t] = "SERVICE_STOP" THEN "drain" ELSE "schedule")
  /\ why' = IF t = "lifecycle" THEN why ELSE Forget(why, t, "NONE")
  /\ UNCHANGED <<taskVars, mapVars, flagVars, tableVars, lockVars,
                 todo, cur, entry, barrier, historyVars>>

(***************************************************************************)
(* DispatchCallback: find the entry, take its dispatch mutex, look again,  *)
(* send.  The task is PENDING when FETCH_DATA is sent and CANCELLED when   *)
(* CANCEL_FETCH_DATA is; a failure cancels the first and only ends the     *)
(* second.                                                                 *)
(***************************************************************************)
Fetching(t) == state[cur[t]] = "PENDING"
DispatchFails(t) ==
  IF Fetching(t)
  THEN BeginCancel(t, cur[t], "DISPATCH_FAILED")
  ELSE Goto(t, "erase") /\ UNCHANGED <<state, why>>

FindEntry(t) ==
  LET a == App(cur[t])
  IN /\ pc[t] = "lookup" /\ CallbackMutexFree
     /\ \/ /\ table[a] = 0
           /\ DispatchFails(t)
           /\ UNCHANGED entry
        \/ /\ table[a] # 0
           /\ entry' = [entry EXCEPT ![t] = table[a]]
           /\ Goto(t, "lock")
           /\ UNCHANGED <<state, why>>
     /\ UNCHANGED <<file, prio, fetchDispatched, writes, mapVars, flagVars, tableVars,
                    lockVars, todo, cur, barrier, historyVars>>

(* Mutant: the registry is not looked at again under the dispatch mutex.   *)
LockEntryNoRecheck(t) ==
  /\ pc[t] = "lock" /\ dispatchLock[entry[t]] = NoThread
  /\ dispatchLock' = [dispatchLock EXCEPT ![entry[t]] = t]
  /\ Goto(t, "send")
  /\ UNCHANGED <<taskVars, mapVars, flagVars, tableVars, taskLock,
                 todo, cur, why, entry, barrier, historyVars>>
LockEntry(t) ==
  LET e == entry[t]
  IN /\ pc[t] = "lock" /\ CallbackMutexFree
     /\ dispatchLock[e] = NoThread
     /\ \/ /\ table[App(cur[t])] # e
           /\ DispatchFails(t)
           /\ entry' = Forget(entry, t, 0)
           /\ UNCHANGED dispatchLock
        \/ /\ table[App(cur[t])] = e
           /\ dispatchLock' = [dispatchLock EXCEPT ![e] = t]
           /\ Goto(t, "send")
           /\ UNCHANGED <<state, why, entry>>
     /\ UNCHANGED <<file, prio, fetchDispatched, writes, mapVars, flagVars, tableVars,
                    taskLock, todo, cur, barrier, historyVars>>

SendCallback(t) ==
  /\ pc[t] = "send"
  /\ dispatchLock' = [dispatchLock EXCEPT ![entry[t]] = NoThread]
  /\ \/ DispatchFails(t)                             \* the IPC fails
     \/ /\ Goto(t, IF Fetching(t) THEN "sent" ELSE "erase")
        /\ UNCHANGED <<state, why>>
  /\ entry' = Forget(entry, t, 0)
  /\ UNCHANGED <<file, prio, fetchDispatched, writes, mapVars, flagVars, tableVars,
                 taskLock, todo, cur, barrier, historyVars>>

(***************************************************************************)
(* The dispatcher: DispatchLoop and ActivateAndDispatch.                   *)
(***************************************************************************)
(* Mutant: a full set of active tasks takes one more.                      *)
SelectableOneMore ==
  IF Cardinality(ActiveTasks) > MaxActiveGlobal
  THEN {}
  ELSE {k \in PendingTasks : Cardinality(OfApp(ActiveTasks, App(k))) < MaxActivePerApp}
Selectable ==
  IF Cardinality(ActiveTasks) >= MaxActiveGlobal
  THEN {}
  ELSE {k \in PendingTasks : Cardinality(OfApp(ActiveTasks, App(k))) < MaxActivePerApp}
(* Mutant: the youngest task of a priority comes first.                    *)
YoungestPrecedes(k, l) == prio[k] > prio[l] \/ (prio[k] = prio[l] /\ k > l)
Precedes(k, l) == prio[k] > prio[l] \/ (prio[k] = prio[l] /\ k < l)
SelectNextTask(k) ==
  k \in Selectable /\ \A l \in Selectable \ {k} : Precedes(k, l)

DispatchLoopEnds ==
  /\ pc["dispatcher"] = "select"
  /\ ~running \/ stopping \/ Selectable = {}
  /\ dispatchScheduled' = FALSE
  /\ Goto("dispatcher", "idle")
  /\ why' = Forget(why, "dispatcher", "NONE")
  /\ UNCHANGED <<taskVars, mapVars, running, stopping, tableVars, lockVars,
                 todo, cur, entry, barrier, historyVars>>

DispatchLoopSelects ==
  /\ pc["dispatcher"] = "select"
  /\ running /\ ~stopping
  /\ \E k \in Selectable :
       /\ SelectNextTask(k)
       /\ cur' = [cur EXCEPT !["dispatcher"] = k]
  /\ Goto("dispatcher", "activate")
  /\ UNCHANGED <<taskVars, mapVars, flagVars, tableVars, lockVars,
                 todo, why, entry, barrier, historyVars>>

(* Mutant: a task cancelled since it was selected is activated.            *)
ActivateTaskBlindly ==
  /\ pc["dispatcher"] = "activate"
  /\ taskLock[cur["dispatcher"]] = NoThread
  /\ taskLock' = [taskLock EXCEPT ![cur["dispatcher"]] = "dispatcher"]
  /\ Goto("dispatcher", "sent")
  /\ UNCHANGED <<taskVars, mapVars, flagVars, tableVars, dispatchLock,
                 todo, cur, why, entry, barrier, historyVars>>

(* Under the task's mutex: the task may have been cancelled since it was   *)
(* selected; the file may no longer validate.                              *)
ActivateTask ==
  LET k == cur["dispatcher"]
  IN /\ pc["dispatcher"] = "activate"
     /\ taskLock[k] = NoThread
     /\ \/ /\ state[k] # "PENDING"
           /\ Goto("dispatcher", "select")
           /\ cur' = Forget(cur, "dispatcher", 0)
           /\ UNCHANGED <<state, taskLock, why>>
        \/ /\ state[k] = "PENDING"
           /\ taskLock' = [taskLock EXCEPT ![k] = "dispatcher"]
           /\ \/ BeginCancel("dispatcher", k, "INTERNAL_ERROR")
              \/ Goto("dispatcher", "lookup") /\ UNCHANGED <<state, why>>
           /\ UNCHANGED cur
     /\ UNCHANGED <<file, prio, fetchDispatched, writes, mapVars, flagVars, tableVars,
                    dispatchLock, todo, entry, barrier, historyVars>>

(* Mutant: no idle deadline is set when the task starts.                   *)
FetchDispatchedNoDeadline ==
  LET k == cur["dispatcher"]
  IN /\ pc["dispatcher"] = "sent"
     /\ fetchDispatched' = [fetchDispatched EXCEPT ![k] = TRUE]
     /\ state' = [state EXCEPT ![k] = "IN_PROGRESS"]
     /\ taskLock' = [taskLock EXCEPT ![k] = NoThread]
     /\ Goto("dispatcher", "select")
     /\ cur' = Forget(cur, "dispatcher", 0)
     /\ UNCHANGED <<file, prio, writes, mapVars, flagVars, tableVars, dispatchLock,
                    todo, why, entry, barrier, historyVars>>
FetchDispatched ==
  LET k == cur["dispatcher"]
  IN /\ pc["dispatcher"] = "sent"
     /\ fetchDispatched' = [fetchDispatched EXCEPT ![k] = TRUE]
     /\ state' = [state EXCEPT ![k] = "IN_PROGRESS"]
     /\ deadline' = [deadline EXCEPT ![k] = "armed"]
     /\ taskLock' = [taskLock EXCEPT ![k] = NoThread]
     /\ Goto("dispatcher", "select")
     /\ cur' = Forget(cur, "dispatcher", 0)
     /\ UNCHANGED <<file, prio, writes, taskMap, records, expired, nextKey, flagVars,
                    tableVars, dispatchLock, todo, why, entry, barrier, historyVars>>

(***************************************************************************)
(* The deadline monitor: DeadlineLoop.                                     *)
(***************************************************************************)
DeadlinePasses(k) ==
  /\ deadline[k] = "armed"
  /\ deadline' = [deadline EXCEPT ![k] = "passed"]
  /\ UNCHANGED <<taskVars, taskMap, records, expired, nextKey, flagVars, tableVars,
                 lockVars, threadVars, historyVars>>

DeadlineLoopWakes ==
  LET expiredKeys == {k \in Keys : deadline[k] = "passed"}
  IN /\ pc["monitor"] = "wait" /\ running
     /\ expiredKeys # {}
     /\ todo' = [todo EXCEPT !["monitor"] = expiredKeys]
     /\ why' = [why EXCEPT !["monitor"] = "TIMEOUT"]
     /\ Goto("monitor", "next")
     /\ UNCHANGED <<taskVars, mapVars, flagVars, tableVars, lockVars,
                    cur, entry, barrier, historyVars>>

DeadlineLoopEnds ==
  /\ pc["monitor"] = "wait" /\ ~running
  /\ Goto("monitor", "idle")
  /\ UNCHANGED <<taskVars, mapVars, flagVars, tableVars, lockVars,
                 todo, cur, why, entry, barrier, historyVars>>

(***************************************************************************)
(* The provider: Execute, for a key that reached it with FETCH_DATA.  The  *)
(* service looks for the callback table before the call, which may be gone *)
(* when the task is looked up.                                             *)
(***************************************************************************)
Delivered(k) ==
  \/ fetchDispatched[k]
  \/ pc["dispatcher"] = "sent" /\ cur["dispatcher"] = k

ExecuteFound(t, k) ==
  /\ pc[t] = "idle"
  /\ Delivered(k)
  /\ k \in taskMap
  /\ cur' = [cur EXCEPT ![t] = k]
  /\ Goto(t, "execute")
  /\ UNCHANGED <<taskVars, mapVars, flagVars, tableVars, lockVars,
                 todo, why, entry, barrier, historyVars>>

(* Answered from the cancellation records, which are purged first.         *)
ExecuteNotFound(t, k) ==
  /\ pc[t] = "idle"
  /\ Delivered(k)
  /\ k \notin taskMap
  /\ PurgeExpiredCancellationRecords
  /\ UNCHANGED <<taskVars, taskMap, deadline, nextKey, flagVars, tableVars, lockVars,
                 threadVars, closed>>

(* Mutant: Execute trusts the state it saw before it had the mutex.        *)
ExecuteLocksBlindly(t) ==
  /\ pc[t] = "execute" /\ taskLock[cur[t]] = NoThread
  /\ taskLock' = [taskLock EXCEPT ![cur[t]] = t]
  /\ Goto(t, "write")
  /\ UNCHANGED <<taskVars, mapVars, flagVars, tableVars, dispatchLock,
                 todo, cur, why, entry, barrier, historyVars>>

(* The mutex is held while the data is written; any other state than       *)
(* IN_PROGRESS is refused.                                                 *)
ExecuteLocks(t) ==
  LET k == cur[t]
  IN /\ pc[t] = "execute" /\ taskLock[k] = NoThread
     /\ \/ /\ state[k] # "IN_PROGRESS"
           /\ Goto(t, "idle")
           /\ cur' = Forget(cur, t, 0)
           /\ UNCHANGED taskLock
        \/ /\ state[k] = "IN_PROGRESS"
           /\ taskLock' = [taskLock EXCEPT ![k] = t]
           /\ Goto(t, "write")
           /\ UNCHANGED cur
     /\ UNCHANGED <<taskVars, mapVars, flagVars, tableVars, dispatchLock,
                    todo, why, entry, barrier, historyVars>>

ExecuteCancel(t) ==
  /\ pc[t] = "write"
  /\ BeginCancel(t, cur[t], "USER_REQUEST")
  /\ UNCHANGED <<file, prio, fetchDispatched, writes, mapVars, flagVars, tableVars,
                 lockVars, todo, cur, entry, barrier, historyVars>>

(* Mutant: the mutex is not released on the error path.                    *)
ExecuteFailsLocked(t) ==
  /\ pc[t] = "write"
  /\ Goto(t, "idle")
  /\ cur' = Forget(cur, t, 0)
  /\ UNCHANGED <<taskVars, mapVars, flagVars, tableVars, lockVars,
                 todo, why, entry, barrier, historyVars>>

(* A rejected or failed write leaves the task, and its deadline, alone.    *)
ExecuteFails(t) ==
  /\ pc[t] = "write"
  /\ taskLock' = [taskLock EXCEPT ![cur[t]] = NoThread]
  /\ Goto(t, "idle")
  /\ cur' = Forget(cur, t, 0)
  /\ UNCHANGED <<taskVars, mapVars, flagVars, tableVars, dispatchLock,
                 todo, why, entry, barrier, historyVars>>

ExecutePartial(t) ==
  LET k == cur[t]
  IN /\ pc[t] = "write"
     /\ writes[k] < MaxWrites
     /\ writes' = [writes EXCEPT ![k] = @ + 1]
     /\ deadline' = [deadline EXCEPT ![k] = "armed"]
     /\ taskLock' = [taskLock EXCEPT ![k] = NoThread]
     /\ Goto(t, "idle")
     /\ cur' = Forget(cur, t, 0)
     /\ UNCHANGED <<state, file, prio, fetchDispatched, taskMap, records, expired, nextKey,
                    flagVars, tableVars, dispatchLock, todo, why, entry, barrier,
                    historyVars>>

ExecuteComplete(t) ==
  /\ pc[t] = "write"
  /\ state' = [state EXCEPT ![cur[t]] = "COMPLETED"]
  /\ Goto(t, "erase")
  /\ UNCHANGED <<file, prio, fetchDispatched, writes, mapVars, flagVars, tableVars,
                 lockVars, todo, cur, why, entry, barrier, historyVars>>

(***************************************************************************)
(* Cancelling calls, and the registry of callback tables.                  *)
(***************************************************************************)
CancelTask(t, f) ==
  LET tasks == {k \in taskMap : file[k] = f}
  IN /\ pc[t] = "idle"
     /\ tasks # {}
     /\ todo' = [todo EXCEPT ![t] = tasks]
     /\ why' = [why EXCEPT ![t] = "USER_REQUEST"]
     /\ Goto(t, "next")
     /\ UNCHANGED <<taskVars, mapVars, flagVars, tableVars, lockVars,
                    cur, entry, barrier, historyVars>>

RegisterCallbackTable(t, a) ==
  /\ pc[t] = "idle" /\ CallbackMutexFree
  /\ table[a] = 0 /\ nextEntry <= MaxEntry
  /\ table' = [table EXCEPT ![a] = nextEntry]
  /\ entryApp' = [entryApp EXCEPT ![nextEntry] = a]
  /\ nextEntry' = nextEntry + 1
  /\ UNCHANGED <<taskVars, mapVars, flagVars, lockVars, threadVars, historyVars>>

(* UnregisterCallbackTable and ClearBySyncFolder (UNREGISTER), and         *)
(* OnRemoteDied (CALLBACK_DIED): erase the entry, wait until no dispatch   *)
(* through it is in flight, cancel the application's tasks.                *)
UnregisterCallbackTable(t, a, reason) ==
  /\ pc[t] = "idle" /\ CallbackMutexFree
  /\ table[a] # 0
  /\ table' = [table EXCEPT ![a] = 0]
  /\ entry' = [entry EXCEPT ![t] = table[a]]
  /\ barrier' = [barrier EXCEPT ![t] = {table[a]}]
  /\ why' = [why EXCEPT ![t] = reason]
  /\ Goto(t, "barrier")
  /\ UNCHANGED <<taskVars, mapVars, flagVars, entryApp, nextEntry, lockVars,
                 todo, cur, historyVars>>

DispatchBarrier(t) ==
  /\ pc[t] = "barrier"
  /\ \E e \in barrier[t] :
       /\ dispatchLock[e] = NoThread
       /\ barrier' = [barrier EXCEPT ![t] = @ \ {e}]
       /\ closed' = closed \cup {e}
  /\ UNCHANGED <<taskVars, mapVars, flagVars, tableVars, lockVars,
                 pc, todo, cur, why, entry, forgotten>>

CopyTasks(t) ==
  /\ pc[t] = "barrier" /\ barrier[t] = {}
  /\ why[t] # "SERVICE_STOP"
  /\ todo' = [todo EXCEPT ![t] =
                IF t = "lifecycle" THEN taskMap ELSE OfApp(taskMap, entryApp[entry[t]])]
  /\ Goto(t, "next")
  /\ entry' = Forget(entry, t, 0)
  /\ UNCHANGED <<taskVars, mapVars, flagVars, tableVars, lockVars,
                 cur, why, barrier, historyVars>>

(***************************************************************************)
(* OnStop and HandleUserSwitched: ClearAll, then StopScheduler or          *)
(* CancelAllTasks and ClearCancellationRecords.  OnStart: StartScheduler.  *)
(***************************************************************************)
ClearAll(reason) ==
  /\ pc["lifecycle"] = "idle" /\ CallbackMutexFree
  /\ barrier' = [barrier EXCEPT !["lifecycle"] = {table[a] : a \in Apps} \ {0}]
  /\ table' = [a \in Apps |-> 0]
  /\ why' = [why EXCEPT !["lifecycle"] = reason]
  /\ Goto("lifecycle", "barrier")
  /\ UNCHANGED <<taskVars, mapVars, flagVars, entryApp, nextEntry, lockVars,
                 todo, cur, entry, historyVars>>

StopScheduler ==
  /\ pc["lifecycle"] = "barrier" /\ barrier["lifecycle"] = {}
  /\ why["lifecycle"] = "SERVICE_STOP"
  /\ running' = FALSE /\ stopping' = TRUE
  /\ todo' = [todo EXCEPT !["lifecycle"] = taskMap]
  /\ Goto("lifecycle", "next")
  /\ UNCHANGED <<taskVars, mapVars, dispatchScheduled, tableVars, lockVars,
                 cur, why, entry, barrier, historyVars>>

(* The barrier task of the dispatch queue and the monitor's end are waited *)
(* for, then what is left is cleared.                                      *)
StopSchedulerEnds ==
  /\ pc["lifecycle"] = "drain"
  /\ pc["dispatcher"] = "idle" /\ pc["monitor"] = "idle"
  /\ deadline' = [k \in Keys |-> "none"]
  /\ ClearedRecords
  /\ dispatchScheduled' = FALSE /\ stopping' = FALSE
  /\ Goto("lifecycle", "idle")
  /\ why' = Forget(why, "lifecycle", "NONE")
  /\ UNCHANGED <<taskVars, taskMap, nextKey, running, tableVars, lockVars,
                 todo, cur, entry, barrier, closed>>

StartScheduler ==
  /\ pc["lifecycle"] = "idle" /\ ~running
  /\ running' = TRUE /\ stopping' = FALSE
  /\ why' = [why EXCEPT !["lifecycle"] = "NONE"]
  /\ pc' = [pc EXCEPT !["monitor"] = "wait", !["lifecycle"] = "schedule"]
  /\ UNCHANGED <<taskVars, mapVars, dispatchScheduled, tableVars, lockVars,
                 todo, cur, entry, barrier, historyVars>>

ClearCancellationRecords ==
  /\ pc["lifecycle"] = "clear"
  /\ ClearedRecords
  /\ Goto("lifecycle", "idle")
  /\ why' = Forget(why, "lifecycle", "NONE")
  /\ UNCHANGED <<taskVars, taskMap, deadline, nextKey, flagVars, tableVars, lockVars,
                 todo, cur, entry, barrier, closed>>

(***************************************************************************)
(* The specification.  Calls of applications and providers, and what the   *)
(* environment does to the clock, are separate from the steps a thread     *)
(* takes once it has started.                                              *)
(***************************************************************************)
Call(t) ==
  \/ \E f \in Files, p \in Priorities : CreateHydrateTask(t, f, p)
  \/ \E a \in Apps : RegisterCallbackTable(t, a)
  \/ "cancel" \in Operations /\ \E f \in Files : CancelTask(t, f)
  \/ "execute" \in Operations /\ \E k \in Keys : ExecuteFound(t, k) \/ ExecuteNotFound(t, k)
  \/ "remove" \in Operations /\ \E a \in Apps, reason \in {"UNREGISTER", "CALLBACK_DIED"} :
                                  UnregisterCallbackTable(t, a, reason)

LifecycleCall ==
  \/ "stop" \in Operations /\ ClearAll("SERVICE_STOP")
  \/ "switch" \in Operations /\ ClearAll("USER_SWITCH")
  \/ "start" \in Operations /\ StartScheduler

Clock ==
  \/ "timeout" \in Operations /\ \E k \in Keys : DeadlinePasses(k)
  \/ "ttl" \in Operations /\ RecordExpires

ThreadStep(t) ==
  \/ ScheduleDispatch(t)
  \/ KeepRecord(t)
  \/ EraseTask(t)
  \/ CancelNext(t)
  \/ CancelDone(t)
  \/ FindEntry(t)
  \/ LockEntry(t)
  \/ SendCallback(t)
  \/ ExecuteLocks(t)
  \/ ExecuteCancel(t) \/ ExecuteFails(t) \/ ExecutePartial(t) \/ ExecuteComplete(t)
  \/ DispatchBarrier(t)
  \/ CopyTasks(t)

DispatcherStep ==
  \/ DispatchLoopEnds
  \/ DispatchLoopSelects
  \/ ActivateTask
  \/ FetchDispatched

MonitorStep == DeadlineLoopWakes \/ DeadlineLoopEnds

LifecycleStep == StopScheduler \/ StopSchedulerEnds \/ ClearCancellationRecords

Next ==
  \/ \E t \in Clients : Call(t)
  \/ LifecycleCall
  \/ \E t \in Threads : ThreadStep(t)
  \/ DispatcherStep
  \/ MonitorStep
  \/ LifecycleStep
  \/ Clock

Spec == Init /\ [][Next]_vars

(* Every started thread runs on, the clock advances, and a thread that     *)
(* waits for a mutex which is free again and again gets it in the end.  No *)
(* call is ever forced: neither a provider's Execute nor a client's        *)
(* request.                                                                *)
Fairness ==
  /\ \A t \in Threads : WF_vars(ThreadStep(t))
  /\ WF_vars(DispatcherStep) /\ WF_vars(MonitorStep) /\ WF_vars(LifecycleStep)
  /\ \A t \in Clients \cup {"monitor"} : SF_vars(CancelNext(t))
  /\ \A t \in Clients : SF_vars(ExecuteLocks(t))
  /\ \A k \in Keys : WF_vars(DeadlinePasses(k))
FairSpec == Spec /\ Fairness

(***************************************************************************)
(* Properties.                                                             *)
(***************************************************************************)
States == {"ABSENT", "PENDING", "IN_PROGRESS", "COMPLETED", "CANCELLED"}
Reasons == {"NONE", "USER_REQUEST", "TIMEOUT", "INTERNAL_ERROR", "DISPATCH_FAILED",
            "UNREGISTER", "CALLBACK_DIED", "USER_SWITCH", "SERVICE_STOP"}
Labels == {"idle", "wait", "created", "schedule", "next", "record", "lookup", "lock",
           "send", "sent", "erase", "select", "activate", "execute", "write", "barrier",
           "drain", "clear"}

TaskTypeOK ==
  /\ state \in [Keys -> States]
  /\ file \in [Keys -> Files] /\ prio \in [Keys -> Priorities]
  /\ fetchDispatched \in [Keys -> BOOLEAN]
  /\ writes \in [Keys -> 0..MaxWrites]
  /\ taskMap \subseteq Keys
  /\ deadline \in [Keys -> {"none", "armed", "passed"}]
  /\ nextKey \in 1..(MaxKey + 1)
  /\ taskLock \in [Keys -> Threads \cup {NoThread}]
TableTypeOK ==
  /\ running \in BOOLEAN /\ stopping \in BOOLEAN /\ dispatchScheduled \in BOOLEAN
  /\ table \in [Apps -> Entries \cup {0}] /\ entryApp \in [Entries -> Apps]
  /\ nextEntry \in 1..(MaxEntry + 1)
  /\ dispatchLock \in [Entries -> Threads \cup {NoThread}]
  /\ closed \subseteq Entries
ThreadTypeOK ==
  /\ pc \in [Threads -> Labels] /\ why \in [Threads -> Reasons]
  /\ todo \in [Threads -> SUBSET Keys] /\ cur \in [Threads -> Keys \cup {0}]
  /\ entry \in [Threads -> Entries \cup {0}] /\ barrier \in [Threads -> SUBSET Entries]

(* No more tasks are in progress, for one application and in all, than     *)
(* CLOUD_DISK_MAX_ACTIVE_TASKS_* allow, although a task is selected under  *)
(* mapMutex_ and activated outside it.                                     *)
ActiveLimitsHold ==
  /\ Cardinality(ActiveTasks) <= MaxActiveGlobal
  /\ \A a \in Apps : Cardinality(OfApp(ActiveTasks, a)) <= MaxActivePerApp

(* A file has at most one outstanding task, and an outstanding task is in  *)
(* taskMap_, where HasOutstandingTask, CancelTask and the duplicate check  *)
(* of PrepareHydrateTaskLocked look for it.                                *)
OneTaskPerFile ==
  \A k \in Keys : Outstanding(k) =>
    /\ k \in taskMap
    /\ \A l \in Keys : Outstanding(l) /\ file[l] = file[k] => l = k

(* The answer to a late Execute is never lost: a cancelled task leaves     *)
(* taskMap_ only after its cancellation record, if it is to have one, is   *)
(* in place, and the record goes only when it expires, is evicted by the   *)
(* limits, or is cleared.                                                  *)
CancellationIsRemembered ==
  \A k \in Keys : state[k] = "CANCELLED" =>
    k \in taskMap \/ k \in KeysIn(records) \/ k \in forgotten

(* Once the removal of a callback table has passed its dispatch barrier,   *)
(* nothing is sent through that table any more.                            *)
NoCallbackAfterRemoval ==
  \A t \in Threads : pc[t] = "send" => entry[t] \notin closed

(* A task of an application without a callback table is about to be        *)
(* cancelled: some thread has yet to copy the application's tasks, or has  *)
(* copied this one.  Nothing is left behind for a provider that is gone.   *)
Cancelling(t, k) ==
  \/ pc[t] = "barrier" /\ (t = "lifecycle" \/ entryApp[entry[t]] = App(k))
  \/ t # "monitor" /\ k \in todo[t]
NoOrphanedTask ==
  \A k \in Keys : Outstanding(k) /\ table[App(k)] = 0 =>
    \E t \in Threads : Cancelling(t, k)

(* When StopScheduler has gone through its copy of the tasks none is left, *)
(* whatever other threads were cancelling, completing or activating.       *)
StopLeavesNoTask == pc["lifecycle"] = "drain" => taskMap = {}

(* COMPLETED and CANCELLED are final: a task is ended once, by one thread, *)
(* and so has one terminal progress event.                                 *)
TerminalStatesAreFinal ==
  [][\A k \in Keys : state[k] \in {"COMPLETED", "CANCELLED"} => state'[k] = state[k]]_vars

(* The monitor cancels only a task whose deadline has passed at that       *)
(* moment: a chunk written after the deadline was seen to pass saves it.   *)
TimeoutIsCurrent ==
  [][\A k \in Keys :
       /\ state[k] # state'[k]
       /\ taskLock'[k] = "monitor"
       => state[k] = "IN_PROGRESS" /\ deadline[k] = "passed"]_vars

(* An application's tasks start in the order of priority and creation: a   *)
(* task never starts while an older one of the same application, of at     *)
(* least its priority, is waiting, although selection and activation are   *)
(* separate steps.                                                         *)
NoOvertaking ==
  [][\A k \in Keys : state[k] = "PENDING" /\ state'[k] = "IN_PROGRESS" =>
       \A l \in 1..(k - 1) :
         state[l] = "PENDING" /\ App(l) = App(k) => prio[l] < prio[k]]_vars

(* The scheduler is the abstract queue: every one of its steps starts,     *)
(* submits or ends one task as HydrationQueue allows, or does not show.    *)
Queue == INSTANCE HydrationQueue WITH state <- state, file <- file
ImplementsQueue == Queue!Spec

(* Every task ends, even if no provider ever answers: it is dispatched and *)
(* then completed, cancelled or timed out.                                 *)
EveryTaskEnds == \A k \in Keys : Outstanding(k) ~> ~Outstanding(k)

(* Every call of a client returns: no thread waits for ever for a task's   *)
(* or an entry's mutex.                                                    *)
EveryCallReturns == \A t \in Clients : pc[t] # "idle" ~> pc[t] = "idle"

=============================================================================
