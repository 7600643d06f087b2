------------------- MODULE PlaceholderTaskManagerRemoval --------------------
(***************************************************************************)
(* Stopping the scheduler and removing a callback table leave no task      *)
(* behind; and every cancelled task has had its cancellation record, or is *)
(* one that has none by design.                                            *)
(***************************************************************************)
EXTENDS PlaceholderTaskManagerInvariant, FiniteSetTheorems, WellFoundedInduction

(* While the scheduler stops no task is added, and every task left is one  *)
(* StopScheduler has still to look at or has in hand.                      *)
StopInv ==
  /\ pc["lifecycle"] = "drain" => why["lifecycle"] = "SERVICE_STOP"
  /\ why["lifecycle"] = "SERVICE_STOP" /\ pc["lifecycle"] \in Loop \cup {"drain"} =>
       /\ stopping
       /\ \A k \in taskMap : \/ k \in todo["lifecycle"]
                             \/ pc["lifecycle"] \in Holding /\ k = cur["lifecycle"]

(* The entry a removal is about has been registered.                       *)
EntryInv ==
  \A t \in Threads \ {"lifecycle"} : pc[t] = "barrier" => entry[t] \in 1..(nextEntry - 1)

(* An entry is in the registry under the application it was registered     *)
(* for, so a removal copies the tasks of the right application.            *)
OrphanInv ==
  /\ \A a \in Apps : table[a] # 0 => entryApp[table[a]] = a
  /\ NoOrphanedTask

(* A step of another thread leaves StopScheduler's part alone.             *)
LEMMA StopStays ==
  ASSUME StopInv, taskMap' \subseteq taskMap, stopping' = stopping,
         pc'["lifecycle"] = pc["lifecycle"], why'["lifecycle"] = why["lifecycle"],
         cur'["lifecycle"] = cur["lifecycle"], todo'["lifecycle"] = todo["lifecycle"]
  PROVE  StopInv'
BY Zenon DEF StopInv

LEMMA StopInvKept ==
  ASSUME IInv, HoldInv, LoopInv, StopInv, [Next]_vars
  PROVE  StopInv'
<1>1. CASE UNCHANGED vars
  BY <1>1, Zenon DEF vars, mapVars, flagVars, threadVars, StopInv
<1>2. ASSUME NEW t \in Clients, Call(t) PROVE StopInv'
  <2>1. ASSUME NEW f \in Files, NEW p \in Priorities, CreateHydrateTask(t, f, p) PROVE
     StopInv'
    <3>1. ~stopping /\ UNCHANGED <<stopping, why, cur, todo>>
      BY <2>1, Zenon DEF CreateHydrateTask, PrepareHydrateTask, flagVars
    <3>2. pc'["lifecycle"] = pc["lifecycle"]
      BY <2>1, ThreadFacts, Zenon DEF CreateHydrateTask, Goto, IInv, ThreadTypeOK
    <3> QED
      BY <3>1, <3>2, Zenon DEF StopInv
  <2>2. ASSUME NEW f \in Files, CancelTask(t, f) PROVE StopInv'
    BY <2>2, ThreadFacts, Zenon DEF CancelTask, Goto, IInv, ThreadTypeOK, StopInv, mapVars,
       flagVars
  <2>3. ASSUME NEW k \in Keys, ExecuteFound(t, k) PROVE StopInv'
    BY <2>3, ThreadFacts, Zenon DEF ExecuteFound, Goto, IInv, ThreadTypeOK, StopInv,
       mapVars, flagVars
  <2>4. ASSUME NEW a \in Apps, NEW r \in {"UNREGISTER", "CALLBACK_DIED"},
     UnregisterCallbackTable(t, a, r) PROVE StopInv'
    BY <2>4, ThreadFacts, Zenon DEF UnregisterCallbackTable, Goto, IInv, ThreadTypeOK,
       StopInv, mapVars, flagVars
  <2>5. ASSUME NEW a \in Apps, RegisterCallbackTable(t, a) PROVE StopInv'
    BY <2>5, Zenon DEF RegisterCallbackTable, mapVars, flagVars, threadVars, StopInv
  <2>6. ASSUME NEW k \in Keys, ExecuteNotFound(t, k) PROVE StopInv'
    BY <2>6, Zenon DEF ExecuteNotFound, PurgeExpiredCancellationRecords, RecordsAre, flagVars,
       threadVars, StopInv
  <2> QED
    BY <1>2, <2>1, <2>2, <2>3, <2>4, <2>5, <2>6, Zenon DEF Call
<1>3. ASSUME NEW t \in Threads, ThreadStep(t) PROVE StopInv'
  <2>1. CASE ScheduleDispatch(t)
    BY <2>1, ThreadFacts, Zenon DEF ScheduleDispatch, AfterSchedule, IInv, ThreadTypeOK,
       LoopInv, Loop, StopInv, mapVars
  <2>2. CASE KeepRecord(t)
    BY <2>2, ThreadFacts DEF KeepRecord, ShouldKeepCancellationRecord,
       ShouldNotifyCancellation, Goto, RecordsAre, IInv, ThreadTypeOK, TaskTypeOK,
       ThreadInv, LockOf, Holding, HoldInv, LoopInv, Loop, StopInv, flagVars
  <2>3. CASE EraseTask(t)
    BY <2>3, ThreadFacts, Zenon DEF EraseTask, Goto, Forget, IInv, ThreadTypeOK, LoopInv,
       Loop, StopInv, flagVars
  <2>4. CASE CancelNext(t)
    BY <2>4, ThreadFacts DEF CancelNext, StillToCancel, BeginCancel, Goto, IInv,
       ThreadTypeOK, TaskTypeOK, ThreadInv, LockOf, Holding, HoldInv, LoopInv, Loop,
       StopInv, mapVars, flagVars
  <2>5. CASE CancelDone(t)
    BY <2>5, ThreadFacts DEF CancelDone, Goto, Forget, IInv, ThreadTypeOK, TaskTypeOK,
       ThreadInv, LockOf, Holding, HoldInv, LoopInv, Loop, StopInv, mapVars, flagVars
  <2>6. CASE FindEntry(t)
    BY <2>6, ThreadFacts DEF FindEntry, DispatchFails, Fetching, BeginCancel, Goto, IInv,
       ThreadTypeOK, TaskTypeOK, ThreadInv, LockOf, Holding, HoldInv, LoopInv, Loop,
       StopInv, mapVars, flagVars
  <2>7. CASE LockEntry(t)
    BY <2>7, ThreadFacts DEF LockEntry, DispatchFails, Fetching, BeginCancel, Goto, Forget,
       IInv, ThreadTypeOK, TaskTypeOK, ThreadInv, LockOf, Holding, HoldInv, LoopInv, Loop,
       StopInv, mapVars, flagVars
  <2>8. CASE SendCallback(t)
    BY <2>8, ThreadFacts DEF SendCallback, DispatchFails, Fetching, BeginCancel, Goto,
       Forget, IInv, ThreadTypeOK, TaskTypeOK, ThreadInv, LockOf, Holding, HoldInv,
       LoopInv, Loop, StopInv, mapVars, flagVars
  <2>9. CASE ExecuteLocks(t)
    BY <2>9, ThreadFacts DEF ExecuteLocks, Goto, Forget, IInv, ThreadTypeOK,
       LoopInv, Loop, StopInv, mapVars, flagVars
  <2>10. CASE ExecuteCancel(t)
    BY <2>10, ThreadFacts, Zenon DEF ExecuteCancel, BeginCancel, Goto, IInv, ThreadTypeOK,
       StopInv, mapVars, flagVars
  <2>11. CASE ExecuteFails(t)
    BY <2>11, ThreadFacts, Zenon DEF ExecuteFails, Goto, Forget, IInv, ThreadTypeOK,
       LoopInv, Loop, StopInv, mapVars, flagVars
  <2>12. CASE ExecutePartial(t)
    BY <2>12, ThreadFacts, Zenon DEF ExecutePartial, Goto, Forget, IInv, ThreadTypeOK,
       LoopInv, Loop, StopInv, flagVars
  <2>13. CASE ExecuteComplete(t)
    <3>1. t # "lifecycle"
      BY <2>13, Zenon DEF ExecuteComplete, LoopInv
    <3> QED
      BY <2>13, <3>1, ThreadFacts, StopStays, Zenon DEF ExecuteComplete, Goto, IInv, ThreadTypeOK,
         mapVars, flagVars
  <2>14. CASE CopyTasks(t)
    <3>1. UNCHANGED <<taskMap, stopping, why, cur>> /\ why[t] # "SERVICE_STOP"
      BY <2>14, Zenon DEF CopyTasks, mapVars, flagVars
    <3>2. CASE t = "lifecycle"
      BY <2>14, <3>1, <3>2, ThreadFacts, Zenon DEF CopyTasks, Goto, IInv, ThreadTypeOK, StopInv
    <3>3. CASE t # "lifecycle"
      <4>1. /\ pc'["lifecycle"] = pc["lifecycle"]
            /\ todo'["lifecycle"] = todo["lifecycle"]
        BY <2>14, <3>3, ThreadFacts, Zenon DEF CopyTasks, Goto, IInv, ThreadTypeOK
      <4> QED
        BY <3>1, <4>1, StopStays, Zenon
    <3> QED
      BY <3>2, <3>3, Zenon
  <2>15. CASE DispatchBarrier(t)
    BY <2>15, Zenon DEF DispatchBarrier, mapVars, flagVars, StopInv
  <2> QED
    BY <1>3, <2>1, <2>2, <2>3, <2>4, <2>5, <2>6, <2>7, <2>8, <2>9, <2>10, <2>11, <2>12,
       <2>13, <2>14, <2>15, Zenon DEF ThreadStep
<1>4. CASE DispatcherStep
  <2>1. CASE DispatchLoopEnds
    BY <2>1, ThreadFacts, Zenon DEF DispatchLoopEnds, Goto, Forget, IInv, ThreadTypeOK,
       StopInv, mapVars
  <2>2. CASE DispatchLoopSelects
    BY <2>2, ThreadFacts, Zenon DEF DispatchLoopSelects, Goto, IInv, ThreadTypeOK, StopInv,
       mapVars, flagVars
  <2>3. CASE ActivateTask
    BY <2>3, ThreadFacts DEF ActivateTask, Goto, Forget, BeginCancel, IInv,
       ThreadTypeOK, StopInv, mapVars, flagVars
  <2>4. CASE FetchDispatched
    BY <2>4, ThreadFacts, Zenon DEF FetchDispatched, Goto, Forget, IInv, ThreadTypeOK,
       StopInv, flagVars
  <2> QED
    BY <1>4, <2>1, <2>2, <2>3, <2>4, Zenon DEF DispatcherStep
<1>5. CASE MonitorStep
  <2>1. CASE DeadlineLoopWakes
    <3>1. /\ UNCHANGED <<taskMap, stopping, cur>>
          /\ pc'["lifecycle"] = pc["lifecycle"] /\ why'["lifecycle"] = why["lifecycle"]
          /\ todo'["lifecycle"] = todo["lifecycle"]
      BY <2>1, ThreadFacts, Zenon DEF DeadlineLoopWakes, Goto, IInv, ThreadTypeOK, mapVars, flagVars
    <3> QED
      BY <3>1, StopStays, Zenon
  <2>2. CASE DeadlineLoopEnds
    BY <2>2, ThreadFacts, Zenon DEF DeadlineLoopEnds, Goto, IInv, ThreadTypeOK, StopInv,
       mapVars, flagVars
  <2> QED
    BY <1>5, <2>1, <2>2, Zenon DEF MonitorStep
<1>6. CASE LifecycleCall
  <2>1. ASSUME NEW r \in {"SERVICE_STOP", "USER_SWITCH"}, ClearAll(r) PROVE StopInv'
    BY <2>1, ThreadFacts, Zenon DEF ClearAll, Goto, IInv, ThreadTypeOK, LoopInv, Loop,
       StopInv, mapVars, flagVars
  <2>2. CASE StartScheduler
    BY <2>2, ThreadFacts, Zenon DEF StartScheduler, IInv, ThreadTypeOK, StopInv, mapVars
  <2> QED
    BY <1>6, <2>1, <2>2, Zenon DEF LifecycleCall
<1>7. CASE LifecycleStep
  <2>1. CASE StopScheduler
    BY <2>1, ThreadFacts, Zenon DEF StopScheduler, Goto, IInv, ThreadTypeOK, StopInv,
       mapVars
  <2>2. CASE StopSchedulerEnds
    <3>1. pc'["lifecycle"] = "idle"
      BY <2>2, ThreadFacts, Zenon DEF StopSchedulerEnds, Goto, IInv, ThreadTypeOK
    <3> QED
      BY <3>1, Zenon DEF StopInv, Loop
  <2>3. CASE ClearCancellationRecords
    <3>1. pc'["lifecycle"] = "idle"
      BY <2>3, ThreadFacts, Zenon DEF ClearCancellationRecords, Goto, IInv, ThreadTypeOK
    <3> QED
      BY <3>1, Zenon DEF StopInv, Loop
  <2> QED
    BY <1>7, <2>1, <2>2, <2>3, Zenon DEF LifecycleStep
<1>8. CASE Clock
  <2>1. ASSUME NEW k \in Keys, DeadlinePasses(k) PROVE StopInv'
    BY <2>1, Zenon DEF DeadlinePasses, flagVars, threadVars, StopInv
  <2>2. CASE RecordExpires
    BY <2>2, Zenon DEF RecordExpires, flagVars, threadVars, StopInv
  <2> QED
    BY <1>8, <2>1, <2>2, Zenon DEF Clock
<1> QED
  BY <1>1, <1>2, <1>3, <1>4, <1>5, <1>6, <1>7, <1>8, Zenon DEF Next

LEMMA EntryInvKept ==
  ASSUME IInv, EntryInv, [Next]_vars
  PROVE  EntryInv'
<1>1. CASE UNCHANGED vars
  BY <1>1, Zenon DEF vars, tableVars, threadVars, EntryInv
<1>2. ASSUME NEW t \in Clients, Call(t) PROVE EntryInv'
  <2>1. ASSUME NEW f \in Files, NEW p \in Priorities, CreateHydrateTask(t, f, p) PROVE
     EntryInv'
    BY <2>1, ThreadFacts, Zenon DEF CreateHydrateTask, Goto, PurgeExpiredCancellationRecords,
       RecordsAre, IInv, ThreadTypeOK, TableTypeOK, TableInv, RoleInv, EntryInv, tableVars
  <2>2. ASSUME NEW a \in Apps, RegisterCallbackTable(t, a) PROVE EntryInv'
    BY <2>2, ThreadFacts DEF RegisterCallbackTable, IInv, ThreadTypeOK, TableTypeOK,
       TableInv, RoleInv, EntryInv, threadVars
  <2>3. ASSUME NEW f \in Files, CancelTask(t, f) PROVE EntryInv'
    BY <2>3, ThreadFacts, Zenon DEF CancelTask, Goto, IInv, ThreadTypeOK, TableTypeOK, TableInv,
       RoleInv, EntryInv, tableVars
  <2>4. ASSUME NEW k \in Keys, ExecuteFound(t, k) PROVE EntryInv'
    BY <2>4, ThreadFacts, Zenon DEF ExecuteFound, Goto, IInv, ThreadTypeOK, TableTypeOK, TableInv,
       RoleInv, EntryInv, tableVars
  <2>5. ASSUME NEW a \in Apps, NEW r \in {"UNREGISTER", "CALLBACK_DIED"},
     UnregisterCallbackTable(t, a, r) PROVE EntryInv'
    <3>1. table[a] \in 1..(nextEntry - 1)
      BY <2>5, BoundsAssumption DEF UnregisterCallbackTable, IInv, TableTypeOK, TableInv, Entries
    <3>2. /\ pc' = [pc EXCEPT ![t] = "barrier"] /\ nextEntry' = nextEntry
          /\ entry' = [entry EXCEPT ![t] = table[a]]
      BY <2>5, Zenon DEF UnregisterCallbackTable, Goto
    <3> QED
      BY <3>1, <3>2, Zenon DEF EntryInv, IInv, ThreadTypeOK
  <2>6. ASSUME NEW k \in Keys, ExecuteNotFound(t, k) PROVE EntryInv'
    BY <2>6, Zenon DEF ExecuteNotFound, PurgeExpiredCancellationRecords, RecordsAre, tableVars,
       threadVars, EntryInv
  <2> QED
    BY <1>2, <2>1, <2>2, <2>3, <2>4, <2>5, <2>6, Zenon DEF Call
<1>3. ASSUME NEW t \in Threads, ThreadStep(t) PROVE EntryInv'
  <2>1. CASE ScheduleDispatch(t)
    BY <2>1, ThreadFacts, Zenon DEF ScheduleDispatch, AfterSchedule, IInv, ThreadTypeOK,
       TableTypeOK, TableInv, RoleInv, EntryInv, tableVars
  <2>2. CASE KeepRecord(t)
    BY <2>2, ThreadFacts, Zenon DEF KeepRecord, ShouldKeepCancellationRecord,
       ShouldNotifyCancellation, Goto, RecordsAre, IInv, ThreadTypeOK, TableTypeOK,
       TableInv, RoleInv, EntryInv, tableVars
  <2>3. CASE EraseTask(t)
    BY <2>3, ThreadFacts, Zenon DEF EraseTask, Goto, Forget, IInv, ThreadTypeOK, TableTypeOK,
       TableInv, RoleInv, EntryInv, tableVars
  <2>4. CASE CancelNext(t)
    BY <2>4, ThreadFacts DEF CancelNext, StillToCancel, BeginCancel, Goto, IInv,
       ThreadTypeOK, TableTypeOK, TableInv, RoleInv, EntryInv, tableVars
  <2>5. CASE CancelDone(t)
    BY <2>5, ThreadFacts, Zenon DEF CancelDone, Goto, Forget, IInv, ThreadTypeOK, TableTypeOK,
       TableInv, RoleInv, EntryInv, tableVars
  <2>6. CASE FindEntry(t)
    BY <2>6, ThreadFacts DEF FindEntry, DispatchFails, Fetching, BeginCancel, Goto,
       IInv, ThreadTypeOK, TableTypeOK, TableInv, RoleInv, EntryInv, tableVars
  <2>7. CASE LockEntry(t)
    BY <2>7, ThreadFacts DEF LockEntry, DispatchFails, Fetching, BeginCancel, Goto, Forget,
       IInv, ThreadTypeOK, TableTypeOK, TableInv, RoleInv, EntryInv, tableVars
  <2>8. CASE SendCallback(t)
    BY <2>8, ThreadFacts DEF SendCallback, DispatchFails, Fetching, BeginCancel, Goto,
       Forget, IInv, ThreadTypeOK, TableTypeOK, TableInv, RoleInv, EntryInv, tableVars
  <2>9. CASE ExecuteLocks(t)
    BY <2>9, ThreadFacts DEF ExecuteLocks, Goto, Forget, IInv, ThreadTypeOK, TableTypeOK,
       TableInv, RoleInv, EntryInv, tableVars
  <2>10. CASE ExecuteCancel(t)
    BY <2>10, ThreadFacts, Zenon DEF ExecuteCancel, BeginCancel, Goto, IInv, ThreadTypeOK,
       TableTypeOK, TableInv, RoleInv, EntryInv, tableVars
  <2>11. CASE ExecuteFails(t)
    BY <2>11, ThreadFacts, Zenon DEF ExecuteFails, Goto, Forget, IInv, ThreadTypeOK, TableTypeOK,
       TableInv, RoleInv, EntryInv, tableVars
  <2>12. CASE ExecutePartial(t)
    BY <2>12, ThreadFacts, Zenon DEF ExecutePartial, Goto, Forget, IInv, ThreadTypeOK, TableTypeOK,
       TableInv, RoleInv, EntryInv, tableVars
  <2>13. CASE ExecuteComplete(t)
    BY <2>13, ThreadFacts, Zenon DEF ExecuteComplete, Goto, IInv, ThreadTypeOK, TableTypeOK,
       TableInv, RoleInv, EntryInv, tableVars
  <2>14. CASE CopyTasks(t)
    BY <2>14, ThreadFacts, Zenon DEF CopyTasks, OfApp, Goto, Forget, IInv, ThreadTypeOK,
       TableTypeOK, TableInv, RoleInv, EntryInv, tableVars
  <2>15. CASE DispatchBarrier(t)
    BY <2>15, Zenon DEF DispatchBarrier, tableVars, EntryInv
  <2> QED
    BY <1>3, <2>1, <2>2, <2>3, <2>4, <2>5, <2>6, <2>7, <2>8, <2>9, <2>10, <2>11, <2>12,
       <2>13, <2>14, <2>15, Zenon DEF ThreadStep
<1>4. CASE DispatcherStep
  <2>1. CASE DispatchLoopEnds
    BY <2>1, ThreadFacts, Zenon DEF DispatchLoopEnds, Goto, Forget, IInv, ThreadTypeOK,
       TableTypeOK, TableInv, RoleInv, EntryInv, tableVars
  <2>2. CASE DispatchLoopSelects
    BY <2>2, ThreadFacts, Zenon DEF DispatchLoopSelects, Goto, IInv, ThreadTypeOK,
       TableTypeOK, TableInv, RoleInv, EntryInv, tableVars
  <2>3. CASE ActivateTask
    BY <2>3, ThreadFacts DEF ActivateTask, Goto, Forget, BeginCancel, IInv,
       ThreadTypeOK, TableTypeOK, TableInv, RoleInv, EntryInv, tableVars
  <2>4. CASE FetchDispatched
    BY <2>4, ThreadFacts, Zenon DEF FetchDispatched, Goto, Forget, IInv, ThreadTypeOK, TableTypeOK,
       TableInv, RoleInv, EntryInv, tableVars
  <2> QED
    BY <1>4, <2>1, <2>2, <2>3, <2>4, Zenon DEF DispatcherStep
<1>5. CASE MonitorStep
  <2>1. CASE DeadlineLoopWakes
    BY <2>1, ThreadFacts, Zenon DEF DeadlineLoopWakes, Goto, IInv, ThreadTypeOK, TableTypeOK,
       TableInv, RoleInv, EntryInv, tableVars
  <2>2. CASE DeadlineLoopEnds
    BY <2>2, ThreadFacts, Zenon DEF DeadlineLoopEnds, Goto, IInv, ThreadTypeOK, TableTypeOK,
       TableInv, RoleInv, EntryInv, tableVars
  <2> QED
    BY <1>5, <2>1, <2>2, Zenon DEF MonitorStep
<1>6. CASE LifecycleCall
  <2>1. ASSUME NEW r \in {"SERVICE_STOP", "USER_SWITCH"}, ClearAll(r) PROVE EntryInv'
    BY <2>1, ThreadFacts, Zenon DEF ClearAll, Goto, IInv, ThreadTypeOK, TableTypeOK, TableInv,
       RoleInv, EntryInv
  <2>2. CASE StartScheduler
    BY <2>2, ThreadFacts, Zenon DEF StartScheduler, IInv, ThreadTypeOK, TableTypeOK, TableInv,
       RoleInv, EntryInv, tableVars
  <2> QED
    BY <1>6, <2>1, <2>2, Zenon DEF LifecycleCall
<1>7. CASE LifecycleStep
  <2>1. CASE StopScheduler
    BY <2>1, ThreadFacts, Zenon DEF StopScheduler, Goto, IInv, ThreadTypeOK, TableTypeOK, TableInv,
       RoleInv, EntryInv, tableVars
  <2>2. CASE StopSchedulerEnds
    BY <2>2, ThreadFacts, Zenon DEF StopSchedulerEnds, Goto, Forget, ClearedRecords, RecordsAre,
       IInv, ThreadTypeOK, TableTypeOK, TableInv, RoleInv, EntryInv, tableVars
  <2>3. CASE ClearCancellationRecords
    BY <2>3, ThreadFacts, Zenon DEF ClearCancellationRecords, Goto, Forget, ClearedRecords,
       RecordsAre, IInv, ThreadTypeOK, TableTypeOK, TableInv, RoleInv, EntryInv, tableVars
  <2> QED
    BY <1>7, <2>1, <2>2, <2>3, Zenon DEF LifecycleStep
<1>8. CASE Clock
  <2>1. ASSUME NEW k \in Keys, DeadlinePasses(k) PROVE EntryInv'
    BY <2>1, Zenon DEF DeadlinePasses, tableVars, threadVars, EntryInv
  <2>2. CASE RecordExpires
    BY <2>2, Zenon DEF RecordExpires, tableVars, threadVars, EntryInv
  <2> QED
    BY <1>8, <2>1, <2>2, Zenon DEF Clock
<1> QED
  BY <1>1, <1>2, <1>3, <1>4, <1>5, <1>6, <1>7, <1>8, Zenon DEF Next

(* A step that removes no entry, adds no task and ends no removal.         *)
LEMMA OrphansStay ==
  ASSUME IInv, OrphanInv, UNCHANGED <<table, entryApp, file>>,
         \A t \in Threads : pc[t] = "barrier" => pc'[t] = "barrier" /\ entry'[t] = entry[t],
         \A t \in Threads \ {"monitor"} : todo[t] \subseteq todo'[t],
         \A k \in Keys : Outstanding(k)' => Outstanding(k)
  PROVE  OrphanInv'
<1>1. ASSUME NEW k \in Keys, Outstanding(k)', table'[App(k)'] = 0
      PROVE  \E t \in Threads : Cancelling(t, k)'
  <2>1. PICK t \in Threads : Cancelling(t, k)
    BY <1>1, Zenon DEF OrphanInv, NoOrphanedTask, App
  <2>2. Cancelling(t, k)'
    BY <2>1, Zenon DEF Cancelling, App
  <2> QED
    BY <2>2, Zenon
<1>2. NoOrphanedTask'
  BY <1>1, Zenon DEF NoOrphanedTask
<1> QED
  BY <1>2, Zenon DEF OrphanInv

LEMMA OrphanInvKept ==
  ASSUME IInv, LoopInv, EntryInv, OrphanInv, [Next]_vars
  PROVE  OrphanInv'
<1>1. CASE UNCHANGED vars
  BY <1>1, Zenon DEF vars, taskVars, tableVars, threadVars, OrphanInv, NoOrphanedTask, Cancelling,
     Outstanding, App
<1>2. ASSUME NEW t \in Clients, Call(t) PROVE OrphanInv'
  <2>1. ASSUME NEW f \in Files, NEW p \in Priorities, CreateHydrateTask(t, f, p) PROVE
     OrphanInv'
    <3>1. nextKey \in Keys /\ state[nextKey] = "ABSENT"
      BY <2>1, FreshKey, Zenon DEF IInv, CreateHydrateTask
    <3>2. /\ UNCHANGED <<table, entryApp, todo, entry>> /\ table[AppOf[f]] # 0
          /\ state' = [state EXCEPT ![nextKey] = "PENDING"]
          /\ file' = [file EXCEPT ![nextKey] = f]
          /\ pc' = [pc EXCEPT ![t] = "created"] /\ pc[t] = "idle"
      BY <2>1, Zenon DEF CreateHydrateTask, Goto, tableVars
    <3>3. ASSUME NEW k \in Keys, Outstanding(k)', table'[App(k)'] = 0
          PROVE  \E u \in Threads : Cancelling(u, k)'
      <4>1. k # nextKey
        BY <3>1, <3>2, <3>3, Zenon DEF App, IInv, TaskTypeOK
      <4>2. Outstanding(k) /\ App(k)' = App(k)
        BY <3>2, <3>3, <4>1, Zenon DEF Outstanding, App, IInv, TaskTypeOK
      <4>3. PICK u \in Threads : Cancelling(u, k)
        BY <3>2, <3>3, <4>2, Zenon DEF OrphanInv, NoOrphanedTask
      <4>4. pc[u] = "barrier" => pc'[u] = "barrier"
        BY <3>2, Zenon DEF IInv, ThreadTypeOK
      <4> QED
        BY <3>2, <4>2, <4>3, <4>4, Zenon DEF Cancelling
    <3>4. NoOrphanedTask'
      BY <3>3, Zenon DEF NoOrphanedTask
    <3> QED
      BY <3>2, <3>4, Zenon DEF OrphanInv
  <2>2. ASSUME NEW a \in Apps, RegisterCallbackTable(t, a) PROVE OrphanInv'
    <3>1. nextEntry \in Entries /\ \A b \in Apps : table[b] # 0 => table[b] # nextEntry
      BY <2>2, EntryFacts, BoundsAssumption DEF RegisterCallbackTable, IInv, TableTypeOK, TableInv
    <3>2. /\ UNCHANGED <<state, file, pc, todo, entry>>
          /\ table' = [table EXCEPT ![a] = nextEntry]
          /\ entryApp' = [entryApp EXCEPT ![nextEntry] = a]
      BY <2>2, Zenon DEF RegisterCallbackTable, taskVars, threadVars
    <3>3. \A b \in Apps : table'[b] # 0 => entryApp'[table'[b]] = b
      BY <3>1, <3>2, Zenon DEF OrphanInv, IInv, TableTypeOK
    <3>4. ASSUME NEW k \in Keys, Outstanding(k)', table'[App(k)'] = 0
          PROVE  \E u \in Threads : Cancelling(u, k)'
      <4>1. Outstanding(k) /\ table[App(k)] = 0 /\ App(k)' = App(k) /\ App(k) \in Apps
        BY <3>1, <3>2, <3>4, EntryFacts, AppOfAssumption, Zenon DEF Outstanding, App, IInv,
           TableTypeOK, TaskTypeOK
      <4>2. PICK u \in Threads : Cancelling(u, k)
        BY <4>1, Zenon DEF OrphanInv, NoOrphanedTask
      <4>3. pc[u] = "barrier" /\ u # "lifecycle" => entry[u] # nextEntry /\ entry[u] \in Entries
        BY <2>2, BoundsAssumption DEF EntryInv, IInv, TableTypeOK, ThreadTypeOK, Entries
      <4>4. pc[u] = "barrier" /\ u # "lifecycle" => entryApp'[entry[u]] = entryApp[entry[u]]
        BY <3>1, <3>2, <4>3, Zenon DEF IInv, TableTypeOK
      <4> QED
        BY <3>2, <4>1, <4>2, <4>4, Zenon DEF Cancelling
    <3>5. NoOrphanedTask'
      BY <3>4, Zenon DEF NoOrphanedTask
    <3> QED
      BY <3>3, <3>5, Zenon DEF OrphanInv
  <2>3. ASSUME NEW f \in Files, CancelTask(t, f) PROVE OrphanInv'
    <3>1. UNCHANGED <<table, entryApp, file, state>>
      BY <2>3, Zenon DEF CancelTask, taskVars, tableVars
    <3>2. \A u \in Threads : pc[u] = "barrier" => pc'[u] = "barrier" /\ entry'[u] = entry[u]
      BY <2>3, ThreadFacts, Zenon DEF CancelTask, taskVars, tableVars, Goto, IInv, ThreadTypeOK
    <3>3. \A j \in Keys : Outstanding(j)' => Outstanding(j)
      BY <3>1, Zenon DEF Outstanding
    <3>4. \A u \in Threads \ {"monitor"} : todo[u] \subseteq todo'[u]
      BY <2>3, ThreadFacts, Zenon DEF CancelTask, LoopInv, Loop, IInv, ThreadTypeOK
    <3> QED
      BY <3>1, <3>2, <3>3, <3>4, OrphansStay, Zenon
  <2>4. ASSUME NEW k \in Keys, ExecuteFound(t, k) PROVE OrphanInv'
    <3>1. UNCHANGED <<table, entryApp, file, todo, state>>
      BY <2>4, Zenon DEF ExecuteFound, taskVars, tableVars
    <3>2. \A u \in Threads : pc[u] = "barrier" => pc'[u] = "barrier" /\ entry'[u] = entry[u]
      BY <2>4, ThreadFacts, Zenon DEF ExecuteFound, taskVars, tableVars, Goto, IInv, ThreadTypeOK
    <3>3. \A j \in Keys : Outstanding(j)' => Outstanding(j)
      BY <3>1, Zenon DEF Outstanding
    <3>4. \A u \in Threads \ {"monitor"} : todo[u] \subseteq todo'[u]
      BY <3>1, Zenon
    <3> QED
      BY <3>1, <3>2, <3>3, <3>4, OrphansStay, Zenon
  <2>5. ASSUME NEW a \in Apps, NEW r \in {"UNREGISTER", "CALLBACK_DIED"},
     UnregisterCallbackTable(t, a, r) PROVE OrphanInv'
    <3>1. /\ t \in Threads /\ t # "lifecycle" /\ pc[t] = "idle" /\ todo[t] = {}
      BY <2>5, ThreadFacts, Zenon DEF UnregisterCallbackTable, LoopInv, Loop
    <3>2. /\ UNCHANGED <<state, file, todo, entryApp>>
          /\ table' = [table EXCEPT ![a] = 0] /\ table[a] # 0
          /\ entry' = [entry EXCEPT ![t] = table[a]]
          /\ pc' = [pc EXCEPT ![t] = "barrier"]
      BY <2>5, Zenon DEF UnregisterCallbackTable, taskVars, Goto
    <3>3. \A b \in Apps : table'[b] # 0 => entryApp'[table'[b]] = b
      BY <3>2, Zenon DEF OrphanInv, IInv, TableTypeOK
    <3>4. pc'[t] = "barrier" /\ entryApp'[entry'[t]] = a
      BY <3>1, <3>2, Zenon DEF OrphanInv, IInv, ThreadTypeOK
    <3>5. ASSUME NEW k \in Keys, Outstanding(k)', table'[App(k)'] = 0
          PROVE  \E u \in Threads : Cancelling(u, k)'
      <4>1. Outstanding(k) /\ App(k)' = App(k) /\ App(k) \in Apps
        BY <3>2, <3>5, AppOfAssumption, Zenon DEF Outstanding, App, IInv, TaskTypeOK
      <4>2. CASE App(k) = a
        BY <3>1, <3>4, <4>1, <4>2, Zenon DEF Cancelling
      <4>3. CASE App(k) # a
        <5>1. table[App(k)] = 0
          BY <3>2, <3>5, <4>1, <4>3, Zenon DEF IInv, TableTypeOK
        <5>2. PICK u \in Threads : Cancelling(u, k)
          BY <4>1, <5>1, Zenon DEF OrphanInv, NoOrphanedTask
        <5>3. u # t
          BY <3>1, <5>2, Zenon DEF Cancelling
        <5>4. pc'[u] = pc[u] /\ entry'[u] = entry[u]
          BY <3>2, <5>3, Zenon DEF IInv, ThreadTypeOK
        <5> QED
          BY <3>2, <4>1, <5>2, <5>4, Zenon DEF Cancelling
      <4> QED
        BY <4>2, <4>3, Zenon
    <3>6. NoOrphanedTask'
      BY <3>5, Zenon DEF NoOrphanedTask
    <3> QED
      BY <3>3, <3>6, Zenon DEF OrphanInv
  <2>6. ASSUME NEW k \in Keys, ExecuteNotFound(t, k) PROVE OrphanInv'
    BY <2>6, Zenon DEF ExecuteNotFound, PurgeExpiredCancellationRecords, RecordsAre, taskVars,
       tableVars, threadVars, OrphanInv, NoOrphanedTask, Cancelling, Outstanding, App
  <2> QED
    BY <1>2, <2>1, <2>2, <2>3, <2>4, <2>5, <2>6, Zenon DEF Call
<1>3. ASSUME NEW t \in Threads, ThreadStep(t) PROVE OrphanInv'
  <2>1. CASE ScheduleDispatch(t)
    <3>1. UNCHANGED <<table, entryApp, file, todo, state>>
      BY <2>1, Zenon DEF ScheduleDispatch, taskVars, tableVars
    <3>2. \A u \in Threads : pc[u] = "barrier" => pc'[u] = "barrier" /\ entry'[u] = entry[u]
      BY <2>1, ThreadFacts, Zenon DEF ScheduleDispatch, taskVars, tableVars, AfterSchedule, RoleInv,
         IInv, ThreadTypeOK
    <3>3. \A j \in Keys : Outstanding(j)' => Outstanding(j)
      BY <3>1, Zenon DEF Outstanding
    <3>4. \A u \in Threads \ {"monitor"} : todo[u] \subseteq todo'[u]
      BY <3>1, Zenon
    <3> QED
      BY <3>1, <3>2, <3>3, <3>4, OrphansStay, Zenon
  <2>2. CASE KeepRecord(t)
    <3>1. UNCHANGED <<table, entryApp, file, todo, state>>
      BY <2>2, Zenon DEF KeepRecord, taskVars, tableVars
    <3>2. \A u \in Threads : pc[u] = "barrier" => pc'[u] = "barrier" /\ entry'[u] = entry[u]
      BY <2>2, ThreadFacts, Zenon DEF KeepRecord, taskVars, tableVars, Goto, IInv, ThreadTypeOK
    <3>3. \A j \in Keys : Outstanding(j)' => Outstanding(j)
      BY <3>1, Zenon DEF Outstanding
    <3>4. \A u \in Threads \ {"monitor"} : todo[u] \subseteq todo'[u]
      BY <3>1, Zenon
    <3> QED
      BY <3>1, <3>2, <3>3, <3>4, OrphansStay, Zenon
  <2>3. CASE EraseTask(t)
    <3>1. UNCHANGED <<table, entryApp, file, todo, state>>
      BY <2>3, Zenon DEF EraseTask, taskVars, tableVars
    <3>2. \A u \in Threads : pc[u] = "barrier" => pc'[u] = "barrier" /\ entry'[u] = entry[u]
      BY <2>3, ThreadFacts, Zenon DEF EraseTask, taskVars, tableVars, Goto, IInv, ThreadTypeOK
    <3>3. \A j \in Keys : Outstanding(j)' => Outstanding(j)
      BY <3>1, Zenon DEF Outstanding
    <3>4. \A u \in Threads \ {"monitor"} : todo[u] \subseteq todo'[u]
      BY <3>1, Zenon
    <3> QED
      BY <3>1, <3>2, <3>3, <3>4, OrphansStay, Zenon
  <2>4. CASE CancelNext(t)
    <3>1. PICK k \in todo[t] :
            /\ todo' = [todo EXCEPT ![t] = @ \ {k}]
            /\ \/ /\ state' = [state EXCEPT ![k] = "CANCELLED"]
                  /\ pc' = [pc EXCEPT ![t] = "record"]
               \/ ~StillToCancel(t, k) /\ UNCHANGED <<state, pc>>
      BY <2>4, Zenon DEF CancelNext, BeginCancel, Goto
    <3>2. UNCHANGED <<table, entryApp, file, entry>> /\ k \in Keys /\ pc[t] = "next"
      BY <2>4, Zenon DEF CancelNext, tableVars, IInv, ThreadTypeOK
    <3>3. ASSUME NEW l \in Keys, Outstanding(l)', table'[App(l)'] = 0
          PROVE  \E u \in Threads : Cancelling(u, l)'
      <4>1. Outstanding(l) /\ table[App(l)] = 0 /\ App(l)' = App(l)
        BY <3>1, <3>2, <3>3, Zenon DEF Outstanding, App, IInv, TaskTypeOK
      <4>2. PICK u \in Threads : Cancelling(u, l)
        BY <4>1, Zenon DEF OrphanInv, NoOrphanedTask
      <4>3. CASE u = t /\ l = k
        <5>1. why[t] # "TIMEOUT"
          BY <3>2, <4>2, <4>3, Zenon DEF Cancelling, LoopInv
        <5>2. StillToCancel(t, k)
          BY <4>1, <4>3, <5>1, Zenon DEF StillToCancel
        <5>3. ~Outstanding(l)'
          BY <3>1, <3>2, <4>3, <5>2, Zenon DEF Outstanding, IInv, TaskTypeOK
        <5> QED
          BY <3>3, <5>3, Zenon
      <4>4. CASE ~(u = t /\ l = k)
        <5>1. /\ pc[u] = "barrier" => pc'[u] = "barrier"
              /\ l \in todo[u] => l \in todo'[u]
          BY <3>1, <3>2, <4>4, Zenon DEF IInv, ThreadTypeOK
        <5> QED
          BY <3>2, <4>1, <4>2, <5>1, Zenon DEF Cancelling
      <4> QED
        BY <4>3, <4>4, Zenon
    <3>4. NoOrphanedTask'
      BY <3>3, Zenon DEF NoOrphanedTask
    <3> QED
      BY <3>2, <3>4, Zenon DEF OrphanInv
  <2>5. CASE CancelDone(t)
    <3>1. UNCHANGED <<table, entryApp, file, todo, state>>
      BY <2>5, Zenon DEF CancelDone, taskVars, tableVars
    <3>2. \A u \in Threads : pc[u] = "barrier" => pc'[u] = "barrier" /\ entry'[u] = entry[u]
      BY <2>5, ThreadFacts, Zenon DEF CancelDone, taskVars, tableVars, Goto, IInv, ThreadTypeOK
    <3>3. \A j \in Keys : Outstanding(j)' => Outstanding(j)
      BY <3>1, Zenon DEF Outstanding
    <3>4. \A u \in Threads \ {"monitor"} : todo[u] \subseteq todo'[u]
      BY <3>1, Zenon
    <3> QED
      BY <3>1, <3>2, <3>3, <3>4, OrphansStay, Zenon
  <2>6. CASE FindEntry(t)
    <3>1. UNCHANGED <<table, entryApp, file, todo>>
      BY <2>6, Zenon DEF FindEntry, tableVars
    <3>2. \A u \in Threads : pc[u] = "barrier" => pc'[u] = "barrier" /\ entry'[u] = entry[u]
      BY <2>6, ThreadFacts, Zenon DEF FindEntry, tableVars, DispatchFails, BeginCancel, Goto,
         Forget, IInv, ThreadTypeOK
    <3>3. \A j \in Keys : Outstanding(j)' => Outstanding(j)
      <4>1. DispatchFails(t) \/ state' = state
        BY <2>6, Zenon DEF FindEntry
      <4>2. cur[t] \in Keys
        BY <2>6, Zenon DEF FindEntry, IInv, ThreadInv, LockOf, Holding
      <4> QED
        BY <4>1, <4>2, Zenon DEF DispatchFails, BeginCancel, Outstanding, IInv, TaskTypeOK
    <3>4. \A u \in Threads \ {"monitor"} : todo[u] \subseteq todo'[u]
      BY <3>1, Zenon
    <3> QED
      BY <3>1, <3>2, <3>3, <3>4, OrphansStay, Zenon
  <2>7. CASE LockEntry(t)
    <3>1. UNCHANGED <<table, entryApp, file, todo>>
      BY <2>7, Zenon DEF LockEntry, tableVars
    <3>2. \A u \in Threads : pc[u] = "barrier" => pc'[u] = "barrier" /\ entry'[u] = entry[u]
      BY <2>7, ThreadFacts DEF LockEntry, tableVars, DispatchFails, BeginCancel,
         Goto, Forget, IInv, ThreadTypeOK
    <3>3. \A j \in Keys : Outstanding(j)' => Outstanding(j)
      <4>1. DispatchFails(t) \/ state' = state
        BY <2>7, Zenon DEF LockEntry
      <4>2. cur[t] \in Keys
        BY <2>7, Zenon DEF LockEntry, IInv, ThreadInv, LockOf, Holding
      <4> QED
        BY <4>1, <4>2, Zenon DEF DispatchFails, BeginCancel, Outstanding, IInv, TaskTypeOK
    <3>4. \A u \in Threads \ {"monitor"} : todo[u] \subseteq todo'[u]
      BY <3>1, Zenon
    <3> QED
      BY <3>1, <3>2, <3>3, <3>4, OrphansStay, Zenon
  <2>8. CASE SendCallback(t)
    <3>1. UNCHANGED <<table, entryApp, file, todo>>
      BY <2>8, Zenon DEF SendCallback, tableVars
    <3>2. \A u \in Threads : pc[u] = "barrier" => pc'[u] = "barrier" /\ entry'[u] = entry[u]
      BY <2>8, ThreadFacts, Zenon DEF SendCallback, tableVars, DispatchFails, BeginCancel, Goto,
         Forget, IInv, ThreadTypeOK
    <3>3. \A j \in Keys : Outstanding(j)' => Outstanding(j)
      <4>1. DispatchFails(t) \/ state' = state
        BY <2>8, Zenon DEF SendCallback
      <4>2. cur[t] \in Keys
        BY <2>8, Zenon DEF SendCallback, IInv, ThreadInv, LockOf, Holding
      <4> QED
        BY <4>1, <4>2, Zenon DEF DispatchFails, BeginCancel, Outstanding, IInv, TaskTypeOK
    <3>4. \A u \in Threads \ {"monitor"} : todo[u] \subseteq todo'[u]
      BY <3>1, Zenon
    <3> QED
      BY <3>1, <3>2, <3>3, <3>4, OrphansStay, Zenon
  <2>9. CASE ExecuteLocks(t)
    <3>1. UNCHANGED <<table, entryApp, file, todo, state>>
      BY <2>9, Zenon DEF ExecuteLocks, taskVars, tableVars
    <3>2. \A u \in Threads : pc[u] = "barrier" => pc'[u] = "barrier" /\ entry'[u] = entry[u]
      BY <2>9, ThreadFacts, Zenon DEF ExecuteLocks, taskVars, tableVars, Goto, IInv, ThreadTypeOK
    <3>3. \A j \in Keys : Outstanding(j)' => Outstanding(j)
      BY <3>1, Zenon DEF Outstanding
    <3>4. \A u \in Threads \ {"monitor"} : todo[u] \subseteq todo'[u]
      BY <3>1, Zenon
    <3> QED
      BY <3>1, <3>2, <3>3, <3>4, OrphansStay, Zenon
  <2>10. CASE ExecuteCancel(t)
    <3>1. UNCHANGED <<table, entryApp, file, todo>>
      BY <2>10, Zenon DEF ExecuteCancel, tableVars
    <3>2. \A u \in Threads : pc[u] = "barrier" => pc'[u] = "barrier" /\ entry'[u] = entry[u]
      BY <2>10, ThreadFacts, Zenon DEF ExecuteCancel, tableVars, BeginCancel, Goto, IInv,
         ThreadTypeOK
    <3>3. \A j \in Keys : Outstanding(j)' => Outstanding(j)
      BY <2>10, Zenon DEF ExecuteCancel, BeginCancel, Outstanding, IInv, TaskTypeOK
    <3>4. \A u \in Threads \ {"monitor"} : todo[u] \subseteq todo'[u]
      BY <3>1, Zenon
    <3> QED
      BY <3>1, <3>2, <3>3, <3>4, OrphansStay, Zenon
  <2>11. CASE ExecuteFails(t)
    <3>1. UNCHANGED <<table, entryApp, file, todo, state>>
      BY <2>11, Zenon DEF ExecuteFails, taskVars, tableVars
    <3>2. \A u \in Threads : pc[u] = "barrier" => pc'[u] = "barrier" /\ entry'[u] = entry[u]
      BY <2>11, ThreadFacts, Zenon DEF ExecuteFails, taskVars, tableVars, Goto, IInv, ThreadTypeOK
    <3>3. \A j \in Keys : Outstanding(j)' => Outstanding(j)
      BY <3>1, Zenon DEF Outstanding
    <3>4. \A u \in Threads \ {"monitor"} : todo[u] \subseteq todo'[u]
      BY <3>1, Zenon
    <3> QED
      BY <3>1, <3>2, <3>3, <3>4, OrphansStay, Zenon
  <2>12. CASE ExecutePartial(t)
    <3>1. UNCHANGED <<table, entryApp, file, todo, state>>
      BY <2>12, Zenon DEF ExecutePartial, tableVars
    <3>2. \A u \in Threads : pc[u] = "barrier" => pc'[u] = "barrier" /\ entry'[u] = entry[u]
      BY <2>12, ThreadFacts, Zenon DEF ExecutePartial, tableVars, Goto, IInv, ThreadTypeOK
    <3>3. \A j \in Keys : Outstanding(j)' => Outstanding(j)
      BY <3>1, Zenon DEF Outstanding
    <3>4. \A u \in Threads \ {"monitor"} : todo[u] \subseteq todo'[u]
      BY <3>1, Zenon
    <3> QED
      BY <3>1, <3>2, <3>3, <3>4, OrphansStay, Zenon
  <2>13. CASE ExecuteComplete(t)
    <3>1. UNCHANGED <<table, entryApp, file, todo>>
      BY <2>13, Zenon DEF ExecuteComplete, tableVars
    <3>2. \A u \in Threads : pc[u] = "barrier" => pc'[u] = "barrier" /\ entry'[u] = entry[u]
      BY <2>13, ThreadFacts, Zenon DEF ExecuteComplete, tableVars, BeginCancel, Goto, IInv,
         ThreadTypeOK
    <3>3. \A j \in Keys : Outstanding(j)' => Outstanding(j)
      BY <2>13, Zenon DEF ExecuteComplete, BeginCancel, Outstanding, IInv, TaskTypeOK
    <3>4. \A u \in Threads \ {"monitor"} : todo[u] \subseteq todo'[u]
      BY <3>1, Zenon
    <3> QED
      BY <3>1, <3>2, <3>3, <3>4, OrphansStay, Zenon
  <2>14. CASE CopyTasks(t)
    <3>1. UNCHANGED <<table, entryApp, file, state>> /\ pc[t] = "barrier" /\ t \in Threads
      BY <2>14, ThreadFacts, Zenon DEF CopyTasks, taskVars, tableVars
    <3>2. ASSUME NEW k \in Keys, Outstanding(k)', table'[App(k)'] = 0
          PROVE  \E u \in Threads : Cancelling(u, k)'
      <4>1. Outstanding(k) /\ table[App(k)] = 0 /\ App(k)' = App(k) /\ k \in taskMap
        BY <3>1, <3>2, Zenon DEF Outstanding, App, IInv, TaskInv
      <4>2. PICK u \in Threads : Cancelling(u, k)
        BY <4>1, Zenon DEF OrphanInv, NoOrphanedTask
      <4>3. CASE u = t
        <5>1. k \in todo'[t] /\ t # "monitor"
          BY <2>14, <3>1, <4>1, <4>2, <4>3, ThreadFacts, Zenon DEF CopyTasks, OfApp, Cancelling,
             LoopInv, Loop, IInv, ThreadTypeOK
        <5> QED
          BY <3>1, <5>1, Zenon DEF Cancelling
      <4>4. CASE u # t
        <5>1. pc'[u] = pc[u] /\ entry'[u] = entry[u] /\ todo'[u] = todo[u]
          BY <2>14, <4>4, ThreadFacts, Zenon DEF CopyTasks, Goto, Forget, IInv, ThreadTypeOK
        <5> QED
          BY <3>1, <4>1, <4>2, <5>1, Zenon DEF Cancelling
      <4> QED
        BY <4>3, <4>4, Zenon
    <3>3. NoOrphanedTask'
      BY <3>2, Zenon DEF NoOrphanedTask
    <3> QED
      BY <3>1, <3>3, Zenon DEF OrphanInv
  <2>15. CASE DispatchBarrier(t)
    BY <2>15, Zenon DEF DispatchBarrier, taskVars, tableVars, OrphanInv, NoOrphanedTask,
       Cancelling, Outstanding, App
  <2> QED
    BY <1>3, <2>1, <2>2, <2>3, <2>4, <2>5, <2>6, <2>7, <2>8, <2>9, <2>10, <2>11, <2>12,
       <2>13, <2>14, <2>15, Zenon DEF ThreadStep
<1>4. CASE DispatcherStep
  <2>1. CASE DispatchLoopEnds
    <3>1. UNCHANGED <<table, entryApp, file, todo, state>>
      BY <2>1, Zenon DEF DispatchLoopEnds, taskVars, tableVars
    <3>2. \A u \in Threads : pc[u] = "barrier" => pc'[u] = "barrier" /\ entry'[u] = entry[u]
      BY <2>1, ThreadFacts, Zenon DEF DispatchLoopEnds, taskVars, tableVars, Goto, IInv,
         ThreadTypeOK
    <3>3. \A j \in Keys : Outstanding(j)' => Outstanding(j)
      BY <3>1, Zenon DEF Outstanding
    <3>4. \A u \in Threads \ {"monitor"} : todo[u] \subseteq todo'[u]
      BY <3>1, Zenon
    <3> QED
      BY <3>1, <3>2, <3>3, <3>4, OrphansStay, Zenon
  <2>2. CASE DispatchLoopSelects
    <3>1. UNCHANGED <<table, entryApp, file, todo, state>>
      BY <2>2, Zenon DEF DispatchLoopSelects, taskVars, tableVars
    <3>2. \A u \in Threads : pc[u] = "barrier" => pc'[u] = "barrier" /\ entry'[u] = entry[u]
      BY <2>2, ThreadFacts, Zenon DEF DispatchLoopSelects, taskVars, tableVars, Goto, IInv,
         ThreadTypeOK
    <3>3. \A j \in Keys : Outstanding(j)' => Outstanding(j)
      BY <3>1, Zenon DEF Outstanding
    <3>4. \A u \in Threads \ {"monitor"} : todo[u] \subseteq todo'[u]
      BY <3>1, Zenon
    <3> QED
      BY <3>1, <3>2, <3>3, <3>4, OrphansStay, Zenon
  <2>3. CASE ActivateTask
    <3>1. UNCHANGED <<table, entryApp, file, todo>>
      BY <2>3, Zenon DEF ActivateTask, tableVars
    <3>2. \A u \in Threads : pc[u] = "barrier" => pc'[u] = "barrier" /\ entry'[u] = entry[u]
      BY <2>3, ThreadFacts, Zenon DEF ActivateTask, tableVars, BeginCancel, Goto, IInv, ThreadTypeOK
    <3>3. \A j \in Keys : Outstanding(j)' => Outstanding(j)
      BY <2>3, Zenon DEF ActivateTask, BeginCancel, Outstanding, IInv, TaskTypeOK
    <3>4. \A u \in Threads \ {"monitor"} : todo[u] \subseteq todo'[u]
      BY <3>1, Zenon
    <3> QED
      BY <3>1, <3>2, <3>3, <3>4, OrphansStay, Zenon
  <2>4. CASE FetchDispatched
    <3>1. UNCHANGED <<table, entryApp, file, todo>>
      BY <2>4, Zenon DEF FetchDispatched, tableVars
    <3>2. \A u \in Threads : pc[u] = "barrier" => pc'[u] = "barrier" /\ entry'[u] = entry[u]
      BY <2>4, ThreadFacts, Zenon DEF FetchDispatched, tableVars, Goto, IInv, ThreadTypeOK
    <3>3. \A j \in Keys : Outstanding(j)' => Outstanding(j)
      BY <2>4, ThreadFacts, Zenon DEF FetchDispatched, Outstanding, IInv, TaskTypeOK,
         ThreadInv, StateOf
    <3>4. \A u \in Threads \ {"monitor"} : todo[u] \subseteq todo'[u]
      BY <3>1, Zenon
    <3> QED
      BY <3>1, <3>2, <3>3, <3>4, OrphansStay, Zenon
  <2> QED
    BY <1>4, <2>1, <2>2, <2>3, <2>4, Zenon DEF DispatcherStep
<1>5. CASE MonitorStep
  <2>1. CASE DeadlineLoopWakes
    <3>1. UNCHANGED <<table, entryApp, file, state>>
      BY <2>1, Zenon DEF DeadlineLoopWakes, taskVars, tableVars
    <3>2. \A u \in Threads : pc[u] = "barrier" => pc'[u] = "barrier" /\ entry'[u] = entry[u]
      BY <2>1, ThreadFacts, Zenon DEF DeadlineLoopWakes, taskVars, tableVars, Goto, IInv,
         ThreadTypeOK
    <3>3. \A j \in Keys : Outstanding(j)' => Outstanding(j)
      BY <3>1, Zenon DEF Outstanding
    <3>4. \A u \in Threads \ {"monitor"} : todo[u] \subseteq todo'[u]
      BY <2>1, ThreadFacts, Zenon DEF DeadlineLoopWakes, IInv, ThreadTypeOK
    <3> QED
      BY <3>1, <3>2, <3>3, <3>4, OrphansStay, Zenon
  <2>2. CASE DeadlineLoopEnds
    <3>1. UNCHANGED <<table, entryApp, file, todo, state>>
      BY <2>2, Zenon DEF DeadlineLoopEnds, taskVars, tableVars
    <3>2. \A u \in Threads : pc[u] = "barrier" => pc'[u] = "barrier" /\ entry'[u] = entry[u]
      BY <2>2, ThreadFacts, Zenon DEF DeadlineLoopEnds, taskVars, tableVars, Goto, IInv,
         ThreadTypeOK
    <3>3. \A j \in Keys : Outstanding(j)' => Outstanding(j)
      BY <3>1, Zenon DEF Outstanding
    <3>4. \A u \in Threads \ {"monitor"} : todo[u] \subseteq todo'[u]
      BY <3>1, Zenon
    <3> QED
      BY <3>1, <3>2, <3>3, <3>4, OrphansStay, Zenon
  <2> QED
    BY <1>5, <2>1, <2>2, Zenon DEF MonitorStep
<1>6. CASE LifecycleCall
  <2>1. ASSUME NEW r \in {"SERVICE_STOP", "USER_SWITCH"}, ClearAll(r) PROVE OrphanInv'
    <3>1. pc'["lifecycle"] = "barrier" /\ "lifecycle" \in Threads
      BY <2>1, ThreadFacts, Zenon DEF ClearAll, Goto, IInv, ThreadTypeOK
    <3>2. NoOrphanedTask'
      BY <3>1, Zenon DEF NoOrphanedTask, Cancelling
    <3>3. \A b \in Apps : table'[b] = 0
      BY <2>1, Zenon DEF ClearAll
    <3> QED
      BY <3>2, <3>3, Zenon DEF OrphanInv
  <2>2. CASE StartScheduler
    <3>1. UNCHANGED <<table, entryApp, file, todo, state>>
      BY <2>2, Zenon DEF StartScheduler, taskVars, tableVars
    <3>2. \A u \in Threads : pc[u] = "barrier" => pc'[u] = "barrier" /\ entry'[u] = entry[u]
      BY <2>2, ThreadFacts, Zenon DEF StartScheduler, taskVars, tableVars, RoleInv, IInv,
         ThreadTypeOK
    <3>3. \A j \in Keys : Outstanding(j)' => Outstanding(j)
      BY <3>1, Zenon DEF Outstanding
    <3>4. \A u \in Threads \ {"monitor"} : todo[u] \subseteq todo'[u]
      BY <3>1, Zenon
    <3> QED
      BY <3>1, <3>2, <3>3, <3>4, OrphansStay, Zenon
  <2> QED
    BY <1>6, <2>1, <2>2, Zenon DEF LifecycleCall
<1>7. CASE LifecycleStep
  <2>1. CASE StopScheduler
    <3>1. /\ UNCHANGED <<table, entryApp, file, state>> /\ pc["lifecycle"] = "barrier"
          /\ "lifecycle" \in Threads
      BY <2>1, ThreadFacts, Zenon DEF StopScheduler, taskVars, tableVars
    <3>2. ASSUME NEW k \in Keys, Outstanding(k)', table'[App(k)'] = 0
          PROVE  \E u \in Threads : Cancelling(u, k)'
      <4>1. Outstanding(k) /\ table[App(k)] = 0 /\ App(k)' = App(k) /\ k \in taskMap
        BY <3>1, <3>2, Zenon DEF Outstanding, App, IInv, TaskInv
      <4>2. PICK u \in Threads : Cancelling(u, k)
        BY <4>1, Zenon DEF OrphanInv, NoOrphanedTask
      <4>3. CASE u = "lifecycle"
        <5>1. k \in todo'["lifecycle"] /\ "lifecycle" # "monitor"
          BY <2>1, <3>1, <4>1, <4>2, <4>3, ThreadFacts, Zenon DEF StopScheduler, OfApp,
             Cancelling, LoopInv, Loop, IInv, ThreadTypeOK
        <5> QED
          BY <3>1, <5>1, Zenon DEF Cancelling
      <4>4. CASE u # "lifecycle"
        <5>1. pc'[u] = pc[u] /\ entry'[u] = entry[u] /\ todo'[u] = todo[u]
          BY <2>1, <4>4, ThreadFacts, Zenon DEF StopScheduler, Goto, Forget, IInv, ThreadTypeOK
        <5> QED
          BY <3>1, <4>1, <4>2, <5>1, Zenon DEF Cancelling
      <4> QED
        BY <4>3, <4>4, Zenon
    <3>3. NoOrphanedTask'
      BY <3>2, Zenon DEF NoOrphanedTask
    <3> QED
      BY <3>1, <3>3, Zenon DEF OrphanInv
  <2>2. CASE StopSchedulerEnds
    <3>1. UNCHANGED <<table, entryApp, file, todo, state>>
      BY <2>2, Zenon DEF StopSchedulerEnds, taskVars, tableVars
    <3>2. \A u \in Threads : pc[u] = "barrier" => pc'[u] = "barrier" /\ entry'[u] = entry[u]
      BY <2>2, ThreadFacts, Zenon DEF StopSchedulerEnds, taskVars, tableVars, Goto, IInv,
         ThreadTypeOK
    <3>3. \A j \in Keys : Outstanding(j)' => Outstanding(j)
      BY <3>1, Zenon DEF Outstanding
    <3>4. \A u \in Threads \ {"monitor"} : todo[u] \subseteq todo'[u]
      BY <3>1, Zenon
    <3> QED
      BY <3>1, <3>2, <3>3, <3>4, OrphansStay, Zenon
  <2>3. CASE ClearCancellationRecords
    <3>1. UNCHANGED <<table, entryApp, file, todo, state>>
      BY <2>3, Zenon DEF ClearCancellationRecords, taskVars, tableVars
    <3>2. \A u \in Threads : pc[u] = "barrier" => pc'[u] = "barrier" /\ entry'[u] = entry[u]
      BY <2>3, ThreadFacts, Zenon DEF ClearCancellationRecords, taskVars, tableVars, Goto, IInv,
         ThreadTypeOK
    <3>3. \A j \in Keys : Outstanding(j)' => Outstanding(j)
      BY <3>1, Zenon DEF Outstanding
    <3>4. \A u \in Threads \ {"monitor"} : todo[u] \subseteq todo'[u]
      BY <3>1, Zenon
    <3> QED
      BY <3>1, <3>2, <3>3, <3>4, OrphansStay, Zenon
  <2> QED
    BY <1>7, <2>1, <2>2, <2>3, Zenon DEF LifecycleStep
<1>8. CASE Clock
  <2>1. ASSUME NEW k \in Keys, DeadlinePasses(k) PROVE OrphanInv'
    BY <2>1, Zenon DEF DeadlinePasses, taskVars, tableVars, threadVars, OrphanInv, NoOrphanedTask,
       Cancelling, Outstanding, App
  <2>2. CASE RecordExpires
    BY <2>2, Zenon DEF RecordExpires, taskVars, tableVars, threadVars, OrphanInv, NoOrphanedTask,
       Cancelling, Outstanding, App
  <2> QED
    BY <1>8, <2>1, <2>2, Zenon DEF Clock
<1> QED
  BY <1>1, <1>2, <1>3, <1>4, <1>5, <1>6, <1>7, <1>8, Zenon DEF Next

(***************************************************************************)
(* The cancellation records.                                               *)
(***************************************************************************)
(* A cancelled task has had its record, or is about to.                    *)
Remembered(k) == k \in KeysIn(records) \/ k \in forgotten
RecordTypeOK == records \in Seq(Keys) /\ expired \in 0..Len(records)
RecordInv ==
  /\ RecordTypeOK
  /\ \A k \in Keys : state[k] = "CANCELLED" =>
       Remembered(k) \/ \E t \in Threads : pc[t] = "record" /\ cur[t] = k

(* A step that leaves the cancellation records alone: what is cancelled in *)
(* it is about to be recorded.                                             *)
LEMMA RecordsStay ==
  ASSUME RecordInv, UNCHANGED <<records, expired, forgotten>>,
         \A t \in Threads : pc[t] = "record" => pc'[t] = "record" /\ cur'[t] = cur[t],
         \A k \in Keys : state'[k] = "CANCELLED" =>
           \/ state[k] = "CANCELLED"
           \/ \E t \in Threads : pc'[t] = "record" /\ cur'[t] = k
  PROVE  RecordInv'
<1>1. RecordTypeOK' /\ \A k \in Keys : Remembered(k) => Remembered(k)'
  BY DEF RecordInv, RecordTypeOK, Remembered, KeysIn
<1>2. ASSUME NEW k \in Keys, state'[k] = "CANCELLED"
      PROVE  Remembered(k)' \/ \E t \in Threads : pc'[t] = "record" /\ cur'[t] = k
  BY <1>1, <1>2 DEF RecordInv
<1> QED
  BY <1>1, <1>2, Zenon DEF RecordInv

LEMMA RecordInvFrame ==
  ASSUME RecordInv, UNCHANGED <<records, expired, forgotten, state, pc, cur>>
  PROVE  RecordInv'
BY RecordsStay, Zenon

(* The least of a set of numbers.                                          *)
LEMMA LeastNat ==
  ASSUME NEW S, S \subseteq Nat, S # {}
  PROVE  \E n \in S : \A m \in S : n <= m
<1>1. PICK x \in S : \A y \in S : ~(<<y, x>> \in OpToRel(<, Nat))
  BY NatLessThanWellFounded, WFMin, Zenon
<1>2. \A y \in S : ~(y < x)
  BY <1>1, Zenon DEF OpToRel
<1> QED
  BY <1>2

(* A record that is dropped is noted as forgotten.                         *)
LEMMA KeysInAppend ==
  ASSUME NEW s \in Seq(Keys), NEW k \in Keys
  PROVE  KeysIn(Append(s, k)) = KeysIn(s) \cup {k}
<1>1. DOMAIN Append(s, k) = 1..(Len(s) + 1) /\ DOMAIN s = 1..Len(s) /\ Len(s) \in Nat
  OBVIOUS
<1>2. \A i \in 1..Len(s) : Append(s, k)[i] = s[i]
  OBVIOUS
<1>3. Append(s, k)[Len(s) + 1] = k
  OBVIOUS
<1> QED
  BY <1>1, <1>2, <1>3 DEF KeysIn

LEMMA KeysInPurged ==
  ASSUME RecordInv
  PROVE  /\ PurgedRecords \in Seq(Keys)
         /\ KeysIn(records) = KeysIn(ExpiredRecords) \cup KeysIn(PurgedRecords)
<1>1. records \in Seq(Keys) /\ expired \in 0..Len(records) /\ Len(records) \in Nat
  BY DEF RecordInv, RecordTypeOK
<1>2. PurgedRecords \in Seq(Keys) /\ ExpiredRecords \in Seq(Keys)
  BY <1>1 DEF PurgedRecords, ExpiredRecords
<1>3. /\ Len(ExpiredRecords) = expired /\ Len(PurgedRecords) = Len(records) - expired
      /\ \A i \in 1..expired : ExpiredRecords[i] = records[i]
      /\ \A i \in 1..(Len(records) - expired) : PurgedRecords[i] = records[expired + i]
  BY <1>1 DEF PurgedRecords, ExpiredRecords
<1>4. /\ DOMAIN records = 1..Len(records) /\ DOMAIN ExpiredRecords = 1..expired
      /\ DOMAIN PurgedRecords = 1..(Len(records) - expired)
  BY <1>1, <1>2, <1>3
<1>5. ASSUME NEW i \in 1..Len(records)
      PROVE  records[i] \in KeysIn(ExpiredRecords) \cup KeysIn(PurgedRecords)
  <2>1. CASE i <= expired
    BY <1>1, <1>3, <1>4, <2>1 DEF KeysIn
  <2>2. CASE i > expired
    <3>1. i - expired \in 1..(Len(records) - expired) /\ expired + (i - expired) = i
      BY <1>1, <2>2
    <3>2. PurgedRecords[i - expired] = records[i]
      BY <1>3, <3>1, Zenon
    <3> QED
      BY <1>4, <3>1, <3>2, Zenon DEF KeysIn
  <2> QED
    BY <1>1, <2>1, <2>2
<1>6. KeysIn(records) \subseteq KeysIn(ExpiredRecords) \cup KeysIn(PurgedRecords)
  BY <1>4, <1>5, Zenon DEF KeysIn
<1>7. KeysIn(ExpiredRecords) \subseteq KeysIn(records)
  BY <1>1, <1>3, <1>4 DEF KeysIn
<1>8. ASSUME NEW i \in 1..(Len(records) - expired) PROVE PurgedRecords[i] \in KeysIn(records)
  <2>1. expired + i \in 1..Len(records)
    BY <1>1
  <2> QED
    BY <1>3, <1>4, <2>1, Zenon DEF KeysIn
<1>9. KeysIn(PurgedRecords) \subseteq KeysIn(records)
  BY <1>4, <1>8, Zenon DEF KeysIn
<1> QED
  BY <1>2, <1>6, <1>7, <1>9, Zenon

LEMMA RecordsMove ==
  ASSUME RecordInv, NEW s \in Seq(Keys), NEW lost, RecordsAre(s, lost),
         KeysIn(records) \subseteq KeysIn(s) \cup lost
  PROVE  /\ RecordTypeOK'
         /\ \A k \in Keys : Remembered(k) => Remembered(k)'
<1>1. records' = s /\ expired' = 0 /\ forgotten' = forgotten \cup lost /\ Len(s) \in Nat
  BY DEF RecordsAre
<1>2. KeysIn(records)' = KeysIn(s)
  BY <1>1, Zenon DEF KeysIn
<1> QED
  BY <1>1, <1>2 DEF Remembered, RecordTypeOK

LEMMA PurgeRemembers ==
  ASSUME RecordInv, PurgeExpiredCancellationRecords
  PROVE  /\ RecordTypeOK'
         /\ \A k \in Keys : Remembered(k) => Remembered(k)'
BY KeysInPurged, RecordsMove, Zenon DEF PurgeExpiredCancellationRecords

LEMMA ClearRemembers ==
  ASSUME RecordInv, ClearedRecords
  PROVE  /\ RecordTypeOK'
         /\ \A k \in Keys : Remembered(k) => Remembered(k)'
<1>1. <<>> \in Seq(Keys)
  OBVIOUS
<1> QED
  BY <1>1, RecordsMove, Zenon DEF ClearedRecords

LEMMA DropsAreSeqs ==
  ASSUME NEW s \in Seq(Keys), NEW a
  PROVE  DropOldest(DropOldestOf(a, s)) \in Seq(Keys)
<1> DEFINE mine == {i \in DOMAIN s : App(s[i]) = a}
           oldest == CHOOSE i \in mine : \A j \in mine : i <= j
<1>1. mine = {} => DropOldestOf(a, s) \in Seq(Keys)
  <2> SUFFICES ASSUME mine = {} PROVE DropOldestOf(a, s) \in Seq(Keys)
    OBVIOUS
  <2>1. Cardinality(mine) = 0
    BY FS_EmptySet, Zenon
  <2>2. ~(Cardinality(mine) > MaxRecordsPerApp)
    BY <2>1, LimitsAssumption
  <2> QED
    BY <2>2, Zenon DEF DropOldestOf
<1>2. mine # {} => DropOldestOf(a, s) \in Seq(Keys)
  <2> SUFFICES ASSUME mine # {} PROVE DropOldestOf(a, s) \in Seq(Keys)
    OBVIOUS
  <2>1. mine \in SUBSET Nat /\ mine \subseteq 1..Len(s)
    OBVIOUS
  <2>2. \E i \in mine : \A j \in mine : i <= j
    BY <2>1, LeastNat, Zenon
  <2>3. oldest \in 1..Len(s)
    BY <2>1, <2>2, Zenon
  <2>4. /\ SubSeq(s, 1, oldest - 1) \in Seq(Keys)
        /\ SubSeq(s, oldest + 1, Len(s)) \in Seq(Keys)
    <3> HIDE DEF oldest
    <3> QED
      BY <2>3
  <2> QED
    BY <2>4 DEF DropOldestOf
<1>3. DropOldestOf(a, s) \in Seq(Keys)
  BY <1>1, <1>2, Zenon
<1> HIDE DEF mine
<1>4. DropOldestOf(a, s) # <<>> => Tail(DropOldestOf(a, s)) \in Seq(Keys)
  BY <1>3
<1>5. Len(DropOldestOf(a, s)) > MaxRecordsGlobal => DropOldestOf(a, s) # <<>>
  BY <1>3, LimitsAssumption
<1> QED
  BY <1>3, <1>4, <1>5, Zenon DEF DropOldest

LEMMA AddRemembers ==
  ASSUME IInv, RecordInv, NEW k \in Keys, AddCancellationRecord(k)
  PROVE  /\ RecordTypeOK'
         /\ \A j \in Keys : Remembered(j) \/ j = k => Remembered(j)'
<1> DEFINE added == Append(PurgedRecords, k)
           kept == DropOldest(DropOldestOf(App(k), added))
           lost == KeysIn(ExpiredRecords) \cup (KeysIn(added) \ KeysIn(kept))
<1>1. /\ PurgedRecords \in Seq(Keys)
      /\ KeysIn(records) = KeysIn(ExpiredRecords) \cup KeysIn(PurgedRecords)
  BY KeysInPurged, Zenon
<1>2. added \in Seq(Keys) /\ KeysIn(added) = KeysIn(PurgedRecords) \cup {k}
  BY <1>1, KeysInAppend
<1>3. kept \in Seq(Keys)
  BY <1>2, DropsAreSeqs, Zenon
<1>4. RecordsAre(kept, lost)
  BY Zenon DEF AddCancellationRecord
<1>5. KeysIn(records) \cup {k} \subseteq KeysIn(kept) \cup lost
  BY <1>1, <1>2, Zenon
<1>6. /\ RecordTypeOK'
      /\ \A j \in Keys : Remembered(j) => Remembered(j)'
  <2> HIDE DEF kept, lost
  <2> QED
    BY <1>3, <1>4, <1>5, RecordsMove, Zenon
<1>7. Remembered(k)'
  <2> HIDE DEF kept, lost
  <2>1. KeysIn(records)' = KeysIn(kept) /\ forgotten' = forgotten \cup lost
    BY <1>4, Zenon DEF RecordsAre, KeysIn
  <2> QED
    BY <1>5, <2>1, Zenon DEF Remembered
<1> QED
  BY <1>6, <1>7, Zenon

LEMMA RecordInvKept ==
  ASSUME IInv, RecordInv, [Next]_vars
  PROVE  RecordInv'
<1>1. CASE UNCHANGED vars
  BY <1>1, RecordInvFrame, Zenon DEF vars, taskVars, mapVars, threadVars, historyVars
<1>2. ASSUME NEW t \in Clients, Call(t) PROVE RecordInv'
  <2>1. ASSUME NEW f \in Files, NEW p \in Priorities, CreateHydrateTask(t, f, p) PROVE
     RecordInv'
    <3>1. /\ RecordTypeOK'
          /\ \A j \in Keys : Remembered(j) => Remembered(j)'
      BY <2>1, PurgeRemembers, Zenon DEF CreateHydrateTask
    <3>2. \A u \in Threads : pc[u] = "record" => pc'[u] = "record" /\ cur'[u] = cur[u]
      BY <2>1, ThreadFacts, Zenon DEF CreateHydrateTask, Goto, threadVars, IInv, ThreadTypeOK
    <3>3. \A j \in Keys : state'[j] = "CANCELLED" => state[j] = "CANCELLED"
      BY <2>1, Zenon DEF CreateHydrateTask, taskVars, IInv, TaskTypeOK
    <3> QED
      BY <3>1, <3>2, <3>3 DEF RecordInv
  <2>2. ASSUME NEW f \in Files, CancelTask(t, f) PROVE RecordInv'
    <3>1. UNCHANGED <<records, expired, forgotten, state>>
      BY <2>2, Zenon DEF CancelTask, taskVars, mapVars, historyVars
    <3>2. \A u \in Threads : pc[u] = "record" => pc'[u] = "record" /\ cur'[u] = cur[u]
      BY <2>2, ThreadFacts, Zenon DEF CancelTask, taskVars, mapVars, historyVars, Goto, IInv,
         ThreadTypeOK
    <3> QED
      BY <3>1, <3>2, RecordsStay, Zenon
  <2>3. ASSUME NEW k \in Keys, ExecuteFound(t, k) PROVE RecordInv'
    <3>1. UNCHANGED <<records, expired, forgotten, state>>
      BY <2>3, Zenon DEF ExecuteFound, taskVars, mapVars, historyVars
    <3>2. \A u \in Threads : pc[u] = "record" => pc'[u] = "record" /\ cur'[u] = cur[u]
      BY <2>3, ThreadFacts, Zenon DEF ExecuteFound, taskVars, mapVars, historyVars, Goto, IInv,
         ThreadTypeOK
    <3> QED
      BY <3>1, <3>2, RecordsStay, Zenon
  <2>4. ASSUME NEW k \in Keys, ExecuteNotFound(t, k) PROVE RecordInv'
    <3>1. /\ RecordTypeOK'
          /\ \A j \in Keys : Remembered(j) => Remembered(j)'
      BY <2>4, PurgeRemembers, Zenon DEF ExecuteNotFound
    <3>2. \A u \in Threads : pc[u] = "record" => pc'[u] = "record" /\ cur'[u] = cur[u]
      BY <2>4, ThreadFacts, Zenon DEF ExecuteNotFound, Goto, threadVars, IInv, ThreadTypeOK
    <3>3. \A j \in Keys : state'[j] = "CANCELLED" => state[j] = "CANCELLED"
      BY <2>4, Zenon DEF ExecuteNotFound, taskVars, IInv, TaskTypeOK
    <3> QED
      BY <3>1, <3>2, <3>3 DEF RecordInv
  <2>5. ASSUME NEW a \in Apps, NEW r \in {"UNREGISTER", "CALLBACK_DIED"},
     UnregisterCallbackTable(t, a, r) PROVE RecordInv'
    <3>1. UNCHANGED <<records, expired, forgotten, state>>
      BY <2>5, Zenon DEF UnregisterCallbackTable, taskVars, mapVars, historyVars
    <3>2. \A u \in Threads : pc[u] = "record" => pc'[u] = "record" /\ cur'[u] = cur[u]
      BY <2>5, ThreadFacts, Zenon DEF UnregisterCallbackTable, taskVars, mapVars, historyVars, Goto,
         IInv, ThreadTypeOK
    <3> QED
      BY <3>1, <3>2, RecordsStay, Zenon
  <2>6. ASSUME NEW a \in Apps, RegisterCallbackTable(t, a) PROVE RecordInv'
    BY <2>6, RecordInvFrame, Zenon DEF RegisterCallbackTable, taskVars, mapVars, threadVars,
       historyVars
  <2> QED
    BY <1>2, <2>1, <2>2, <2>3, <2>4, <2>5, <2>6, Zenon DEF Call
<1>3. ASSUME NEW t \in Threads, ThreadStep(t) PROVE RecordInv'
  <2>1. CASE ScheduleDispatch(t)
    <3>1. UNCHANGED <<records, expired, forgotten, state>>
      BY <2>1, Zenon DEF ScheduleDispatch, taskVars, mapVars, historyVars
    <3>2. \A u \in Threads : pc[u] = "record" => pc'[u] = "record" /\ cur'[u] = cur[u]
      BY <2>1, ThreadFacts, Zenon DEF ScheduleDispatch, taskVars, mapVars, historyVars,
         AfterSchedule, RoleInv, IInv, ThreadTypeOK
    <3> QED
      BY <3>1, <3>2, RecordsStay, Zenon
  <2>2. CASE KeepRecord(t)
    <3> DEFINE k == cur[t]
    <3>1. k \in Keys /\ cur' = cur /\ state' = state
      BY <2>2, Zenon DEF KeepRecord, IInv, ThreadInv, LockOf, Holding, taskVars
    <3>2. \A u \in Threads : pc[u] = "record" /\ u # t => pc'[u] = "record"
      BY <2>2, Zenon DEF KeepRecord, Goto, IInv, ThreadTypeOK
    <3>3. CASE AddCancellationRecord(k)
      BY <3>1, <3>2, <3>3, AddRemembers DEF RecordInv
    <3>4. CASE forgotten' = forgotten \cup {k} /\ UNCHANGED <<records, expired>>
      <4>1. /\ RecordTypeOK'
            /\ \A j \in Keys : Remembered(j) \/ j = k => Remembered(j)'
        BY <3>4, Zenon DEF RecordInv, RecordTypeOK, Remembered, KeysIn
      <4> QED
        BY <3>1, <3>2, <3>4, <4>1, Zenon DEF RecordInv
    <3> QED
      BY <2>2, <3>3, <3>4, Zenon DEF KeepRecord
  <2>3. CASE EraseTask(t)
    <3>1. UNCHANGED <<records, expired, forgotten, state>>
      BY <2>3, Zenon DEF EraseTask, taskVars, historyVars
    <3>2. \A u \in Threads : pc[u] = "record" => pc'[u] = "record" /\ cur'[u] = cur[u]
      BY <2>3, ThreadFacts, Zenon DEF EraseTask, taskVars, historyVars, Goto, Forget, IInv,
         ThreadTypeOK
    <3> QED
      BY <3>1, <3>2, RecordsStay, Zenon
  <2>4. CASE CancelNext(t)
    <3>1. UNCHANGED <<records, expired, forgotten>>
      BY <2>4, Zenon DEF CancelNext, mapVars, historyVars
    <3>2. \A u \in Threads : pc[u] = "record" => pc'[u] = "record" /\ cur'[u] = cur[u]
      BY <2>4, ThreadFacts DEF CancelNext, mapVars, historyVars, BeginCancel, Goto, IInv,
         ThreadTypeOK
    <3>3. \A j \in Keys : state'[j] = "CANCELLED" =>
            \/ state[j] = "CANCELLED"
            \/ \E u \in Threads : pc'[u] = "record" /\ cur'[u] = j
      <4>1. PICK k \in todo[t] :
              \/ /\ cur' = [cur EXCEPT ![t] = k]
                 /\ state' = [state EXCEPT ![k] = "CANCELLED"]
                 /\ pc' = [pc EXCEPT ![t] = "record"]
              \/ state' = state
        BY <2>4, Zenon DEF CancelNext, BeginCancel, Goto
      <4> QED
        BY <4>1 DEF IInv, ThreadTypeOK, TaskTypeOK
    <3> QED
      BY <3>1, <3>2, <3>3, RecordsStay, Zenon
  <2>5. CASE CancelDone(t)
    <3>1. UNCHANGED <<records, expired, forgotten, state>>
      BY <2>5, Zenon DEF CancelDone, taskVars, mapVars, historyVars
    <3>2. \A u \in Threads : pc[u] = "record" => pc'[u] = "record" /\ cur'[u] = cur[u]
      BY <2>5, ThreadFacts, Zenon DEF CancelDone, taskVars, mapVars, historyVars, Goto, IInv,
         ThreadTypeOK
    <3> QED
      BY <3>1, <3>2, RecordsStay, Zenon
  <2>6. CASE FindEntry(t)
    <3>1. UNCHANGED <<records, expired, forgotten>>
      BY <2>6, Zenon DEF FindEntry, mapVars, historyVars
    <3>2. \A u \in Threads : pc[u] = "record" => pc'[u] = "record" /\ cur'[u] = cur[u]
      BY <2>6, ThreadFacts, Zenon DEF FindEntry, mapVars, historyVars, DispatchFails, BeginCancel,
         Goto, IInv, ThreadTypeOK
    <3>3. \A j \in Keys : state'[j] = "CANCELLED" =>
            \/ state[j] = "CANCELLED"
            \/ \E u \in Threads : pc'[u] = "record" /\ cur'[u] = j
      <4>1. (DispatchFails(t) \/ state' = state) /\ cur' = cur
        BY <2>6, Zenon DEF FindEntry
      <4>2. cur[t] \in Keys
        BY <2>6, Zenon DEF FindEntry, IInv, ThreadInv, LockOf, Holding
      <4>3. DispatchFails(t) /\ state' # state => pc'[t] = "record"
        BY Zenon DEF DispatchFails, BeginCancel, Goto, IInv, ThreadTypeOK
      <4>4. DispatchFails(t) => \A j \in Keys \ {cur[t]} : state'[j] = state[j]
        BY <4>2, Zenon DEF DispatchFails, BeginCancel, IInv, TaskTypeOK
      <4> QED
        BY <4>1, <4>3, <4>4, Zenon
    <3> QED
      BY <3>1, <3>2, <3>3, RecordsStay, Zenon
  <2>7. CASE LockEntry(t)
    <3>1. UNCHANGED <<records, expired, forgotten>>
      BY <2>7, Zenon DEF LockEntry, mapVars, historyVars
    <3>2. \A u \in Threads : pc[u] = "record" => pc'[u] = "record" /\ cur'[u] = cur[u]
      BY <2>7, ThreadFacts, Zenon DEF LockEntry, mapVars, historyVars, DispatchFails, BeginCancel,
         Goto, IInv, ThreadTypeOK
    <3>3. \A j \in Keys : state'[j] = "CANCELLED" =>
            \/ state[j] = "CANCELLED"
            \/ \E u \in Threads : pc'[u] = "record" /\ cur'[u] = j
      <4>1. (DispatchFails(t) \/ state' = state) /\ cur' = cur
        BY <2>7, Zenon DEF LockEntry
      <4>2. cur[t] \in Keys
        BY <2>7, Zenon DEF LockEntry, IInv, ThreadInv, LockOf, Holding
      <4>3. DispatchFails(t) /\ state' # state => pc'[t] = "record"
        BY Zenon DEF DispatchFails, BeginCancel, Goto, IInv, ThreadTypeOK
      <4>4. DispatchFails(t) => \A j \in Keys \ {cur[t]} : state'[j] = state[j]
        BY <4>2, Zenon DEF DispatchFails, BeginCancel, IInv, TaskTypeOK
      <4> QED
        BY <4>1, <4>3, <4>4, Zenon
    <3> QED
      BY <3>1, <3>2, <3>3, RecordsStay, Zenon
  <2>8. CASE SendCallback(t)
    <3>1. UNCHANGED <<records, expired, forgotten>>
      BY <2>8, Zenon DEF SendCallback, mapVars, historyVars
    <3>2. \A u \in Threads : pc[u] = "record" => pc'[u] = "record" /\ cur'[u] = cur[u]
      BY <2>8, ThreadFacts, Zenon DEF SendCallback, mapVars, historyVars, DispatchFails,
         BeginCancel, Goto, IInv, ThreadTypeOK
    <3>3. \A j \in Keys : state'[j] = "CANCELLED" =>
            \/ state[j] = "CANCELLED"
            \/ \E u \in Threads : pc'[u] = "record" /\ cur'[u] = j
      <4>1. (DispatchFails(t) \/ state' = state) /\ cur' = cur
        BY <2>8, Zenon DEF SendCallback
      <4>2. cur[t] \in Keys
        BY <2>8, Zenon DEF SendCallback, IInv, ThreadInv, LockOf, Holding
      <4>3. DispatchFails(t) /\ state' # state => pc'[t] = "record"
        BY Zenon DEF DispatchFails, BeginCancel, Goto, IInv, ThreadTypeOK
      <4>4. DispatchFails(t) => \A j \in Keys \ {cur[t]} : state'[j] = state[j]
        BY <4>2, Zenon DEF DispatchFails, BeginCancel, IInv, TaskTypeOK
      <4> QED
        BY <4>1, <4>3, <4>4, Zenon
    <3> QED
      BY <3>1, <3>2, <3>3, RecordsStay, Zenon
  <2>9. CASE ExecuteLocks(t)
    <3>1. UNCHANGED <<records, expired, forgotten, state>>
      BY <2>9, Zenon DEF ExecuteLocks, taskVars, mapVars, historyVars
    <3>2. \A u \in Threads : pc[u] = "record" => pc'[u] = "record" /\ cur'[u] = cur[u]
      BY <2>9, ThreadFacts DEF ExecuteLocks, taskVars, mapVars, historyVars, Goto, Forget,
         IInv, ThreadTypeOK
    <3> QED
      BY <3>1, <3>2, RecordsStay, Zenon
  <2>10. CASE ExecuteCancel(t)
    <3>1. UNCHANGED <<records, expired, forgotten>>
      BY <2>10, Zenon DEF ExecuteCancel, mapVars, historyVars
    <3>2. \A u \in Threads : pc[u] = "record" => pc'[u] = "record" /\ cur'[u] = cur[u]
      BY <2>10, ThreadFacts, Zenon DEF ExecuteCancel, mapVars, historyVars, BeginCancel, Goto, IInv,
         ThreadTypeOK
    <3>3. \A j \in Keys : state'[j] = "CANCELLED" =>
            \/ state[j] = "CANCELLED"
            \/ \E u \in Threads : pc'[u] = "record" /\ cur'[u] = j
      <4>1. /\ pc'[t] = "record" /\ cur' = cur
            /\ \A j \in Keys \ {cur[t]} : state'[j] = state[j]
        BY <2>10, Zenon DEF ExecuteCancel, BeginCancel, Goto, IInv, ThreadTypeOK, TaskTypeOK
      <4> QED
        BY <4>1, Zenon
    <3> QED
      BY <3>1, <3>2, <3>3, RecordsStay, Zenon
  <2>11. CASE ExecuteFails(t)
    <3>1. UNCHANGED <<records, expired, forgotten, state>>
      BY <2>11, Zenon DEF ExecuteFails, taskVars, mapVars, historyVars
    <3>2. \A u \in Threads : pc[u] = "record" => pc'[u] = "record" /\ cur'[u] = cur[u]
      BY <2>11, ThreadFacts, Zenon DEF ExecuteFails, taskVars, mapVars, historyVars, Goto, Forget,
         IInv, ThreadTypeOK
    <3> QED
      BY <3>1, <3>2, RecordsStay, Zenon
  <2>12. CASE ExecutePartial(t)
    <3>1. UNCHANGED <<records, expired, forgotten, state>>
      BY <2>12, Zenon DEF ExecutePartial, historyVars
    <3>2. \A u \in Threads : pc[u] = "record" => pc'[u] = "record" /\ cur'[u] = cur[u]
      BY <2>12, ThreadFacts, Zenon DEF ExecutePartial, historyVars, Goto, Forget, IInv, ThreadTypeOK
    <3> QED
      BY <3>1, <3>2, RecordsStay, Zenon
  <2>13. CASE ExecuteComplete(t)
    <3>1. UNCHANGED <<records, expired, forgotten>>
      BY <2>13, Zenon DEF ExecuteComplete, mapVars, historyVars
    <3>2. \A u \in Threads : pc[u] = "record" => pc'[u] = "record" /\ cur'[u] = cur[u]
      BY <2>13, ThreadFacts, Zenon DEF ExecuteComplete, mapVars, historyVars, Goto, IInv,
         ThreadTypeOK
    <3>3. \A j \in Keys : state'[j] = "CANCELLED" =>
            \/ state[j] = "CANCELLED"
            \/ \E u \in Threads : pc'[u] = "record" /\ cur'[u] = j
      BY <2>13, Zenon DEF ExecuteComplete, IInv, TaskTypeOK
    <3> QED
      BY <3>1, <3>2, <3>3, RecordsStay, Zenon
  <2>14. CASE CopyTasks(t)
    <3>1. UNCHANGED <<records, expired, forgotten, state>>
      BY <2>14, Zenon DEF CopyTasks, taskVars, mapVars, historyVars
    <3>2. \A u \in Threads : pc[u] = "record" => pc'[u] = "record" /\ cur'[u] = cur[u]
      BY <2>14, ThreadFacts, Zenon DEF CopyTasks, taskVars, mapVars, historyVars, Goto, IInv,
         ThreadTypeOK
    <3> QED
      BY <3>1, <3>2, RecordsStay, Zenon
  <2>15. CASE DispatchBarrier(t)
    BY <2>15, RecordInvFrame, Zenon DEF DispatchBarrier, taskVars, mapVars
  <2> QED
    BY <1>3, <2>1, <2>2, <2>3, <2>4, <2>5, <2>6, <2>7, <2>8, <2>9, <2>10, <2>11, <2>12,
       <2>13, <2>14, <2>15, Zenon DEF ThreadStep
<1>4. CASE DispatcherStep
  <2>1. CASE DispatchLoopEnds
    <3>1. UNCHANGED <<records, expired, forgotten, state>>
      BY <2>1, Zenon DEF DispatchLoopEnds, taskVars, mapVars, historyVars
    <3>2. \A u \in Threads : pc[u] = "record" => pc'[u] = "record" /\ cur'[u] = cur[u]
      BY <2>1, ThreadFacts, Zenon DEF DispatchLoopEnds, taskVars, mapVars, historyVars, Goto, IInv,
         ThreadTypeOK
    <3> QED
      BY <3>1, <3>2, RecordsStay, Zenon
  <2>2. CASE DispatchLoopSelects
    <3>1. UNCHANGED <<records, expired, forgotten, state>>
      BY <2>2, Zenon DEF DispatchLoopSelects, taskVars, mapVars, historyVars
    <3>2. \A u \in Threads : pc[u] = "record" => pc'[u] = "record" /\ cur'[u] = cur[u]
      BY <2>2, ThreadFacts, Zenon DEF DispatchLoopSelects, taskVars, mapVars, historyVars,
         Goto, IInv, ThreadTypeOK
    <3> QED
      BY <3>1, <3>2, RecordsStay, Zenon
  <2>3. CASE ActivateTask
    <3>1. UNCHANGED <<records, expired, forgotten>>
      BY <2>3, Zenon DEF ActivateTask, mapVars, historyVars
    <3>2. \A u \in Threads : pc[u] = "record" => pc'[u] = "record" /\ cur'[u] = cur[u]
      BY <2>3, ThreadFacts DEF ActivateTask, mapVars, historyVars, BeginCancel, Goto, Forget,
         IInv, ThreadTypeOK
    <3>3. \A j \in Keys : state'[j] = "CANCELLED" =>
            \/ state[j] = "CANCELLED"
            \/ \E u \in Threads : pc'[u] = "record" /\ cur'[u] = j
      <4>1. "dispatcher" \in Threads
        BY ThreadFacts, Zenon
      <4>2. \/ state' = state
            \/ /\ pc'["dispatcher"] = "record" /\ cur' = cur
               /\ \A j \in Keys \ {cur["dispatcher"]} : state'[j] = state[j]
        BY <2>3, <4>1 DEF ActivateTask, BeginCancel, Goto, IInv, ThreadTypeOK, TaskTypeOK
      <4> QED
        BY <4>1, <4>2, Zenon
    <3> QED
      BY <3>1, <3>2, <3>3, RecordsStay, Zenon
  <2>4. CASE FetchDispatched
    <3>1. UNCHANGED <<records, expired, forgotten>>
      BY <2>4, Zenon DEF FetchDispatched, historyVars
    <3>2. \A u \in Threads : pc[u] = "record" => pc'[u] = "record" /\ cur'[u] = cur[u]
      BY <2>4, ThreadFacts, Zenon DEF FetchDispatched, historyVars, Goto, Forget, IInv, ThreadTypeOK
    <3>3. \A j \in Keys : state'[j] = "CANCELLED" =>
            \/ state[j] = "CANCELLED"
            \/ \E u \in Threads : pc'[u] = "record" /\ cur'[u] = j
      BY <2>4, Zenon DEF FetchDispatched, IInv, TaskTypeOK
    <3> QED
      BY <3>1, <3>2, <3>3, RecordsStay, Zenon
  <2> QED
    BY <1>4, <2>1, <2>2, <2>3, <2>4, Zenon DEF DispatcherStep
<1>5. CASE MonitorStep
  <2>1. CASE DeadlineLoopWakes
    <3>1. UNCHANGED <<records, expired, forgotten, state>>
      BY <2>1, Zenon DEF DeadlineLoopWakes, taskVars, mapVars, historyVars
    <3>2. \A u \in Threads : pc[u] = "record" => pc'[u] = "record" /\ cur'[u] = cur[u]
      BY <2>1, ThreadFacts, Zenon DEF DeadlineLoopWakes, taskVars, mapVars, historyVars, Goto, IInv,
         ThreadTypeOK
    <3> QED
      BY <3>1, <3>2, RecordsStay, Zenon
  <2>2. CASE DeadlineLoopEnds
    <3>1. UNCHANGED <<records, expired, forgotten, state>>
      BY <2>2, Zenon DEF DeadlineLoopEnds, taskVars, mapVars, historyVars
    <3>2. \A u \in Threads : pc[u] = "record" => pc'[u] = "record" /\ cur'[u] = cur[u]
      BY <2>2, ThreadFacts, Zenon DEF DeadlineLoopEnds, taskVars, mapVars, historyVars, Goto, IInv,
         ThreadTypeOK
    <3> QED
      BY <3>1, <3>2, RecordsStay, Zenon
  <2> QED
    BY <1>5, <2>1, <2>2, Zenon DEF MonitorStep
<1>6. CASE LifecycleCall
  <2>1. ASSUME NEW r \in {"SERVICE_STOP", "USER_SWITCH"}, ClearAll(r) PROVE RecordInv'
    <3>1. UNCHANGED <<records, expired, forgotten, state>>
      BY <2>1, Zenon DEF ClearAll, taskVars, mapVars, historyVars
    <3>2. \A u \in Threads : pc[u] = "record" => pc'[u] = "record" /\ cur'[u] = cur[u]
      BY <2>1, ThreadFacts, Zenon DEF ClearAll, taskVars, mapVars, historyVars, Goto, IInv,
         ThreadTypeOK
    <3> QED
      BY <3>1, <3>2, RecordsStay, Zenon
  <2>2. CASE StartScheduler
    <3>1. UNCHANGED <<records, expired, forgotten, state>>
      BY <2>2, Zenon DEF StartScheduler, taskVars, mapVars, historyVars
    <3>2. \A u \in Threads : pc[u] = "record" => pc'[u] = "record" /\ cur'[u] = cur[u]
      BY <2>2, ThreadFacts, Zenon DEF StartScheduler, taskVars, mapVars, historyVars, RoleInv, IInv,
         ThreadTypeOK
    <3> QED
      BY <3>1, <3>2, RecordsStay, Zenon
  <2> QED
    BY <1>6, <2>1, <2>2, Zenon DEF LifecycleCall
<1>7. CASE LifecycleStep
  <2>1. CASE StopScheduler
    <3>1. UNCHANGED <<records, expired, forgotten, state>>
      BY <2>1, Zenon DEF StopScheduler, taskVars, mapVars, historyVars
    <3>2. \A u \in Threads : pc[u] = "record" => pc'[u] = "record" /\ cur'[u] = cur[u]
      BY <2>1, ThreadFacts, Zenon DEF StopScheduler, taskVars, mapVars, historyVars, Goto, IInv,
         ThreadTypeOK
    <3> QED
      BY <3>1, <3>2, RecordsStay, Zenon
  <2>2. CASE StopSchedulerEnds
    <3>1. /\ RecordTypeOK'
          /\ \A j \in Keys : Remembered(j) => Remembered(j)'
      BY <2>2, ClearRemembers, Zenon DEF StopSchedulerEnds
    <3>2. \A u \in Threads : pc[u] = "record" => pc'[u] = "record" /\ cur'[u] = cur[u]
      BY <2>2, ThreadFacts, Zenon DEF StopSchedulerEnds, Goto, threadVars, IInv, ThreadTypeOK
    <3>3. \A j \in Keys : state'[j] = "CANCELLED" => state[j] = "CANCELLED"
      BY <2>2, Zenon DEF StopSchedulerEnds, taskVars, IInv, TaskTypeOK
    <3> QED
      BY <3>1, <3>2, <3>3 DEF RecordInv
  <2>3. CASE ClearCancellationRecords
    <3>1. /\ RecordTypeOK'
          /\ \A j \in Keys : Remembered(j) => Remembered(j)'
      BY <2>3, ClearRemembers, Zenon DEF ClearCancellationRecords
    <3>2. \A u \in Threads : pc[u] = "record" => pc'[u] = "record" /\ cur'[u] = cur[u]
      BY <2>3, ThreadFacts, Zenon DEF ClearCancellationRecords, Goto, threadVars, IInv, ThreadTypeOK
    <3>3. \A j \in Keys : state'[j] = "CANCELLED" => state[j] = "CANCELLED"
      BY <2>3, Zenon DEF ClearCancellationRecords, taskVars, IInv, TaskTypeOK
    <3> QED
      BY <3>1, <3>2, <3>3 DEF RecordInv
  <2> QED
    BY <1>7, <2>1, <2>2, <2>3, Zenon DEF LifecycleStep
<1>8. CASE Clock
  <2>1. CASE RecordExpires
    <3>1. /\ expired < Len(records) /\ expired' = expired + 1
          /\ UNCHANGED <<records, forgotten, state, pc, cur>>
      BY <2>1, Zenon DEF RecordExpires, taskVars, threadVars, historyVars
    <3>2. records \in Seq(Keys) /\ expired \in 0..Len(records) /\ Len(records) \in Nat
      BY DEF RecordInv, RecordTypeOK
    <3>3. RecordTypeOK'
      BY <3>1, <3>2 DEF RecordTypeOK
    <3>4. \A j \in Keys : Remembered(j) => Remembered(j)'
      BY <3>1, Zenon DEF Remembered, KeysIn
    <3> QED
      BY <3>1, <3>3, <3>4, Zenon DEF RecordInv
  <2>2. ASSUME NEW k \in Keys, DeadlinePasses(k) PROVE RecordInv'
    BY <2>2, RecordInvFrame, Zenon DEF DeadlinePasses, taskVars, threadVars, historyVars
  <2> QED
    BY <1>8, <2>1, <2>2, Zenon DEF Clock
<1> QED
  BY <1>1, <1>2, <1>3, <1>4, <1>5, <1>6, <1>7, <1>8, Zenon DEF Next
=============================================================================
